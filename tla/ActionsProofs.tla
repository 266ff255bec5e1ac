--------------------------- MODULE ActionsProofs ---------------------------
(***************************************************************************)
(* Theorems of Actions, for every set of plans and any number of requests, *)
(* ids and lost connections: success is told of what was done, a quiet     *)
(* Session has nothing in flight, and results belong to their query.       *)
(***************************************************************************)
EXTENDS Actions, SequenceTheorems, TLAPS

Kinds == {"app", "search", "research", "page", "gui", "look", "analyse", "open", "explain"}
Points == {"idle", "step", "native", "shot", "planner", "tool", "find", "sources", "read",
           "answer", "notice"}
Given == 1 .. ids
Requests == [type : {"act", "shot", "cancel"}, id : Nat]
Results == [type : {"acted", "shown"}, id : Nat, res : {"ok", "error"}]
Waiters == [id : Nat, res : {"none", "ok", "error"}]

\* What a plan may be: well typed, with the action it is at at its head.
PlanTyped(p) ==
  /\ p \in [pc : Points, todo : Seq(Kinds), ask : Nat, id : Nat]
  /\ p.pc \in {"native", "shot", "planner", "tool", "find"} => p.todo # <<>>
Lasting == {"idle", "step", "sources", "read", "answer", "notice"}

\* The state is well typed.
TypeOK ==
  /\ PlanTyped(plan)
  /\ asks \in Nat /\ ids \in Nat /\ drops \in Nat
  /\ native \in Waiters /\ screen \in Waiters
  /\ found \in [query : Nat, results : Nat, goal : Nat, opened : Nat]
  /\ toPage \in Seq(Requests) /\ toServer \in Seq(Results)
  /\ page \in Nat
  /\ desk \in [act : Nat, stopping : BOOLEAN, shot : Nat]

\* Every id in use was given out.
IdsGiven ==
  /\ {native.id, page, desk.shot} \subseteq Given \cup {0}
  /\ \A i \in DOMAIN toPage : toPage[i].id \in Given
  /\ \A i \in DOMAIN toServer : toServer[i].id \in Given

\* A waiter belongs to the plan's wait, and to nothing else.
WaitersOfPlan ==
  /\ IF plan.pc = "native" THEN native.id = plan.id /\ native.id # 0 ELSE native = Free
  /\ plan.pc # "shot" => screen = Free

\* A native result that says so, in the socket or taken, is of an action done.
OkIsDone ==
  /\ native.res = "ok" => native.id \in done
  /\ \A i \in DOMAIN toServer :
       toServer[i].type = "acted" /\ toServer[i].res = "ok" => toServer[i].id \in done
  /\ SuccessIsReal

\* A request reaches the page once, and is answered once the page is done with it.
Act(id) == [type |-> "act", id |-> id]
Cancel(id) == [type |-> "cancel", id |-> id]
Spent(q, p, id) == p # id /\ \A i \in DOMAIN q : q[i] # Act(id)
ActsOnce ==
  /\ \A i \in DOMAIN toPage : toPage[i].type = "act" =>
       /\ page # toPage[i].id
       /\ \A j \in DOMAIN toPage : toPage[j] = toPage[i] => j = i
  /\ native.res # "none" => Spent(toPage, page, native.id)
  /\ \A i \in DOMAIN toServer :
       toServer[i].type = "acted" => Spent(toPage, page, toServer[i].id)

\* What the page is at, or will be, is waited for or has its cancel behind it.
CancelIn(q, id, n) == \E j \in DOMAIN q : j > n /\ q[j] = Cancel(id)
PageIsWanted ==
  /\ page # 0 => page = native.id \/ CancelIn(toPage, page, 0)
  /\ \A i \in DOMAIN toPage : toPage[i].type = "act" =>
       toPage[i].id = native.id \/ CancelIn(toPage, toPage[i].id, i)

\* The page and the desktop are at the same action, unless a process is ending.
DeskFollowsPage ==
  /\ page # 0 => desk.act = page
  /\ desk.act # 0 => desk.act = page \/ desk.stopping

IInv ==
  /\ TypeOK /\ IdsGiven /\ WaitersOfPlan /\ OkIsDone /\ ActsOnce /\ PageIsWanted
  /\ DeskFollowsPage /\ ResultsAreOfQuery

-----------------------------------------------------------------------------
\* Appending to a sequence and taking its tail, index by index.
LEMMA AppendFacts ==
  ASSUME NEW S, NEW q \in Seq(S), NEW e \in S
  PROVE  /\ Append(q, e) \in Seq(S)
         /\ DOMAIN Append(q, e) = 1 .. Len(q) + 1
         /\ \A i \in DOMAIN q : i \in DOMAIN Append(q, e) /\ Append(q, e)[i] = q[i]
         /\ Append(q, e)[Len(q) + 1] = e
         /\ \A i \in DOMAIN q : i < Len(q) + 1
         /\ \A i \in DOMAIN Append(q, e) : i \in DOMAIN q \/ i = Len(q) + 1
  OBVIOUS

LEMMA TailFacts ==
  ASSUME NEW S, NEW q \in Seq(S), q # <<>>
  PROVE  /\ Tail(q) \in Seq(S)
         /\ Head(q) \in S
         /\ Head(q) = q[1] /\ 1 \in DOMAIN q
         /\ \A i \in DOMAIN Tail(q) : i + 1 \in DOMAIN q /\ Tail(q)[i] = q[i + 1]
         /\ \A i \in DOMAIN q : i > 1 => i - 1 \in DOMAIN Tail(q) /\ Tail(q)[i - 1] = q[i]
<1>1. /\ Head(q) = q[1] /\ Len(q) \in Nat \ {0} /\ DOMAIN q = 1 .. Len(q)
  BY EmptySeq, LenProperties
<1>2. /\ Tail(q) \in Seq(S) /\ Head(q) \in S
      /\ Len(Tail(q)) = Len(q) - 1
      /\ \A i \in 1 .. Len(Tail(q)) : Tail(q)[i] = q[i + 1]
  BY HeadTailProperties
<1>3. DOMAIN Tail(q) = 1 .. Len(Tail(q))
  BY <1>2, LenProperties
<1> QED
  BY <1>1, <1>2, <1>3

-----------------------------------------------------------------------------
\* The steps of a plan between two waits leave waiters, sockets and page alone.
Inner ==
  \/ \E p \in Plans : Ask(p)
  \/ SearchNotClear \/ StartsPage \/ StartsResearch \/ StartsFollowUp \/ Summarises
  \/ ToolEnds \/ Finds \/ Sources \/ Reads \/ PlanEnds

LEMMA InnerFields ==
  ASSUME TypeOK, Inner
  PROVE  /\ UNCHANGED Beyond
         /\ plan.pc \notin {"native", "shot"} /\ plan'.pc \notin {"native", "shot"}
<1>1. UNCHANGED Beyond
  BY DEF Inner, Ask, SearchNotClear, StartsPage, StartsResearch, StartsFollowUp, Summarises,
         ToolEnds, Finds, Sources, Reads, PlanEnds
<1>2. plan.pc \notin {"native", "shot"}
  BY DEF Inner, Ask, SearchNotClear, StartsPage, StartsResearch, StartsFollowUp, Summarises,
         ToolEnds, Finds, Sources, Reads, PlanEnds
<1>3. plan'.pc \notin {"native", "shot"}
  <2>1. plan' = NoPlan \/ Continue \/ (\E p \in Plans : Ask(p))
        \/ \E pc \in Points \ {"native", "shot"} : Goto(pc)
    BY DEF Inner, SearchNotClear, StartsPage, StartsResearch, StartsFollowUp, Summarises,
           ToolEnds, Finds, Sources, Reads, PlanEnds, Points
  <2>2. ASSUME NEW pc, Goto(pc) PROVE plan'.pc = pc
    BY <2>2 DEF Goto, TypeOK, PlanTyped
  <2>3. Continue => plan'.pc = "step"
    BY DEF Continue, TypeOK, PlanTyped
  <2>4. (\E p \in Plans : Ask(p)) => plan'.pc = "step"
    BY DEF Ask
  <2> QED
    BY <2>1, <2>2, <2>3, <2>4 DEF NoPlan
<1> QED
  BY <1>1, <1>2, <1>3

\* perform_native_action of a plan without a waiter always asks the page.
LEMMA RequestFields ==
  ASSUME TypeOK, WaitersOfPlan, plan.pc # "native", RequestNative("native")
  PROVE  /\ ids' = ids + 1
         /\ native' = [id |-> ids + 1, res |-> "none"]
         /\ toPage' = Append(toPage, Act(ids + 1))
         /\ plan' = [plan EXCEPT !.pc = "native", !.id = ids + 1]
         /\ UNCHANGED screen
<1>1. native = Free /\ native.id = 0
  BY DEF WaitersOfPlan, Free
<1> QED
  BY <1>1 DEF RequestNative, Act, Free

\* So does capture_screen_once.
LEMMA CaptureFields ==
  ASSUME TypeOK, WaitersOfPlan, plan.pc # "shot", Capture
  PROVE  /\ ids' = ids + 1
         /\ screen' = [id |-> ids + 1, res |-> "none"]
         /\ toPage' = Append(toPage, [type |-> "shot", id |-> ids + 1])
         /\ plan' = [plan EXCEPT !.pc = "shot", !.id = ids + 1]
         /\ UNCHANGED native
<1>1. screen = Free /\ screen.id = 0
  BY DEF WaitersOfPlan, Free
<1> QED
  BY <1>1 DEF Capture, Free

\* Any step is one of these; a step outside the plan keeps the plan's point.
Asks == (StartsNative \/ Planned) /\ RequestNative("native")
Skips == Planned /\ Continue /\ UNCHANGED <<ids, native, screen, toPage>>
Else == StartsCapture \/ NativeEnds \/ NativeTimesOut \/ ShotEnds \/ ShotTimesOut
        \/ Cancelled \/ Receives \/ PageActs \/ PageShoots \/ PageCancels \/ DeskEnds
        \/ DeskShows \/ Drops
LEMMA StepKinds == Next => Inner \/ Asks \/ Skips \/ Else
  BY DEF Next, Works, Inner, Asks, Skips, Else, StartsNative, Planned

-----------------------------------------------------------------------------
LEMMA GotoTyped ==
  ASSUME PlanTyped(plan), NEW pc \in Points, Goto(pc), plan.todo # <<>> \/ pc \in Lasting
  PROVE  PlanTyped(plan')
  BY DEF PlanTyped, Goto, Lasting

LEMMA ContinueTyped ==
  ASSUME PlanTyped(plan), Continue, plan.todo # <<>>
  PROVE  PlanTyped(plan')
<1>1. Tail(plan.todo) \in Seq(Kinds)
  BY TailFacts DEF PlanTyped
<1>2. plan' = [plan EXCEPT !.pc = "step", !.todo = Tail(plan.todo), !.id = 0]
  BY DEF Continue
<1> QED
  BY <1>1, <1>2 DEF PlanTyped, Points

LEMMA WaitTyped ==
  ASSUME PlanTyped(plan), plan.todo # <<>>, NEW n \in Nat, NEW pc \in {"native", "shot"},
         plan' = [plan EXCEPT !.pc = pc, !.id = n]
  PROVE  PlanTyped(plan')
  BY DEF PlanTyped, Points

LEMMA NoPlanTyped == PlanTyped(NoPlan)
  BY EmptySeq DEF PlanTyped, NoPlan, Points

\* Every action keeps the plan well typed.
LEMMA PlanStep == TypeOK /\ WaitersOfPlan /\ [Next]_vars => PlanTyped(plan')
<1> SUFFICES ASSUME TypeOK, WaitersOfPlan, [Next]_vars PROVE PlanTyped(plan')
  OBVIOUS
<1>1. PlanTyped(plan) /\ ids + 1 \in Nat
  BY DEF TypeOK, PlanTyped
<1>2. ASSUME plan.todo # <<>>, NEW pc \in Points, Goto(pc) PROVE PlanTyped(plan')
  BY <1>1, <1>2, GotoTyped
<1>3. ASSUME NEW pc \in Lasting, Goto(pc) PROVE PlanTyped(plan')
  BY <1>1, <1>3, GotoTyped DEF Lasting, Points
<1>4. CASE Inner
  <2>1. CASE \E p \in Plans : Ask(p)
    <3>1. PICK p \in Plans : Ask(p)
      BY <2>1
    <3>2. p \in Seq(Kinds)
      BY ActionsAssumption DEF Kinds
    <3> QED
      BY <3>1, <3>2 DEF Ask, Points, TypeOK, PlanTyped
  <2>2. CASE SearchNotClear
    BY <1>1, <1>3, <2>2, ContinueTyped DEF SearchNotClear, Lasting
  <2>3. CASE StartsPage \/ StartsResearch \/ StartsFollowUp
    <3>1. plan.todo # <<>> /\ \E pc \in Points : Goto(pc)
      BY <2>3 DEF StartsPage, StartsResearch, StartsFollowUp, Points
    <3> QED
      BY <3>1, <1>2
  <2>4. CASE Summarises \/ Sources \/ Reads
    <3>1. \E pc \in Lasting : Goto(pc)
      BY <2>4 DEF Summarises, Sources, Reads, Lasting
    <3> QED
      BY <3>1, <1>3
  <2>5. CASE ToolEnds \/ Finds
    <3>1. plan.todo # <<>>
      BY <2>5 DEF ToolEnds, Finds, TypeOK, PlanTyped
    <3>2. Continue \/ \E pc \in Lasting : Goto(pc)
      BY <2>5 DEF ToolEnds, Finds, Lasting
    <3> QED
      BY <1>1, <1>3, <3>1, <3>2, ContinueTyped
  <2>6. CASE PlanEnds
    BY <2>6, NoPlanTyped DEF PlanEnds
  <2> QED
    BY <1>4, <2>1, <2>2, <2>3, <2>4, <2>5, <2>6 DEF Inner
<1>5. CASE Asks
  <2>1. plan.pc # "native" /\ plan.todo # <<>>
    BY <1>5 DEF Asks, StartsNative, Planned, TypeOK, PlanTyped
  <2> QED
    BY <1>1, <1>5, <2>1, RequestFields, WaitTyped DEF Asks
<1>6. CASE Skips
  <2>1. plan.todo # <<>>
    BY <1>6 DEF Skips, Planned, TypeOK, PlanTyped
  <2> QED
    BY <1>1, <1>6, <2>1, ContinueTyped DEF Skips
<1>7. CASE StartsCapture
  <2>1. plan.pc # "shot" /\ plan.todo # <<>>
    BY <1>7 DEF StartsCapture
  <2> QED
    BY <1>1, <1>7, <2>1, CaptureFields, WaitTyped DEF StartsCapture
<1>8. CASE NativeEnds \/ NativeTimesOut \/ ShotEnds \/ ShotTimesOut
  <2>1. plan.todo # <<>>
    BY <1>8 DEF NativeEnds, NativeTimesOut, ShotEnds, ShotTimesOut, TypeOK, PlanTyped
  <2>2. Continue \/ \E pc \in Points : Goto(pc)
    BY <1>8 DEF NativeEnds, NativeTimesOut, ShotEnds, ShotTimesOut, Points
  <2> QED
    BY <1>1, <1>2, <2>1, <2>2, ContinueTyped
<1>9. CASE Cancelled \/ Drops
  BY <1>9, NoPlanTyped DEF Cancelled, Drops
<1>10. CASE Receives \/ PageActs \/ PageShoots \/ PageCancels \/ DeskEnds \/ DeskShows \/ UNCHANGED vars
  BY <1>1, <1>10 DEF Receives, PageActs, PageShoots, PageCancels, DeskEnds, DeskShows, vars
<1> QED
  BY <1>4, <1>5, <1>6, <1>7, <1>8, <1>9, <1>10, StepKinds DEF Else

-----------------------------------------------------------------------------
\* What the sockets carry is well typed.
LEMMA SendTyped ==
  ASSUME TypeOK, NEW n \in Nat, NEW t \in {"act", "shot", "cancel"},
         toPage' = Append(toPage, [type |-> t, id |-> n])
  PROVE  toPage' \in Seq(Requests)
<1>1. [type |-> t, id |-> n] \in Requests /\ toPage \in Seq(Requests)
  BY DEF TypeOK, Requests
<1> QED
  BY <1>1, AppendFacts

LEMMA ReplyTyped ==
  ASSUME TypeOK, NEW n \in Nat, NEW t \in {"acted", "shown"}, NEW r \in {"ok", "error"},
         Reply(t, n, r)
  PROVE  toServer' \in Seq(Results)
<1>1. [type |-> t, id |-> n, res |-> r] \in Results /\ toServer \in Seq(Results)
  BY DEF TypeOK, Results
<1> QED
  BY <1>1, AppendFacts DEF Reply

LEMMA CancelTyped ==
  ASSUME TypeOK, NEW n, NEW p \in BOOLEAN, DeskCancels(n, p)
  PROVE  desk' \in [act : Nat, stopping : BOOLEAN, shot : Nat]
<1>1. desk' = desk \/ desk' = [desk EXCEPT !.stopping = TRUE] \/ desk' = [desk EXCEPT !.act = 0]
  BY DEF DeskCancels
<1> QED
  <2>1. desk \in [act : Nat, stopping : BOOLEAN, shot : Nat]
    BY DEF TypeOK
  <2>2. CASE desk' = desk
    BY <2>1, <2>2
  <2>3. CASE desk' = [desk EXCEPT !.stopping = TRUE]
    BY <2>1, <2>3
  <2>4. CASE desk' = [desk EXCEPT !.act = 0]
    BY <2>1, <2>4
  <2> QED
    BY <1>1, <2>2, <2>3, <2>4

\* The page's next message.
LEMMA HeadTyped ==
  ASSUME TypeOK, toPage # <<>>
  PROVE  /\ Head(toPage) \in Requests /\ Head(toPage).id \in Nat
         /\ Tail(toPage) \in Seq(Requests)
<1>1. Head(toPage) \in Requests /\ Tail(toPage) \in Seq(Requests)
  BY TailFacts DEF TypeOK
<1> QED
  BY <1>1 DEF Requests

\* Every action keeps the state well typed.
LEMMA TypeStep == TypeOK /\ WaitersOfPlan /\ [Next]_vars => TypeOK'
<1> SUFFICES ASSUME TypeOK, WaitersOfPlan, [Next]_vars PROVE TypeOK'
  OBVIOUS
<1>1. PlanTyped(plan')
  BY PlanStep
<1>2. CASE Inner
  <2>1. asks' \in Nat
    BY <1>2 DEF Inner, Ask, SearchNotClear, StartsPage, StartsResearch, StartsFollowUp,
                Summarises, ToolEnds, Finds, Sources, Reads, PlanEnds, TypeOK
  <2>2. found' \in [query : Nat, results : Nat, goal : Nat, opened : Nat]
    <3>1. CASE \E p \in Plans : Ask(p)
      BY <3>1 DEF Ask, TypeOK
    <3>2. CASE SearchNotClear \/ StartsPage \/ StartsFollowUp \/ Summarises \/ ToolEnds \/ PlanEnds
      BY <3>2 DEF SearchNotClear, StartsPage, StartsFollowUp, Summarises, ToolEnds, PlanEnds, TypeOK
    <3>3. CASE StartsResearch
      BY <3>3 DEF StartsResearch, TypeOK, PlanTyped
    <3>4. CASE Finds
      <4>1. plan.ask \in Nat /\ found.query \in Nat
        BY DEF TypeOK, PlanTyped
      <4>2. \/ found' = [found EXCEPT !.query = plan.ask, !.results = plan.ask]
            \/ found' = [found EXCEPT !.results = found.query]
            \/ found' = found
        BY <3>4 DEF Finds
      <4> QED
        BY <4>1, <4>2 DEF TypeOK
    <3>5. CASE Sources
      <4>1. found.opened \in Nat /\ found.results \in Nat
        BY DEF TypeOK
      <4>2. \/ \E o \in {found.opened, found.results} : found' = [found EXCEPT !.opened = o]
            \/ found' = [found EXCEPT !.results = 0]
            \/ found' = found
        BY <3>5 DEF Sources
      <4> QED
        BY <4>1, <4>2 DEF TypeOK
    <3>6. CASE Reads
      <4>1. found' = found \/ found' = [found EXCEPT !.opened = found.results]
        BY <3>6 DEF Reads
      <4> QED
        BY <4>1 DEF TypeOK
    <3> QED
      BY <1>2, <3>1, <3>2, <3>3, <3>4, <3>5, <3>6 DEF Inner
  <2> QED
    BY <1>1, <1>2, <2>1, <2>2, InnerFields DEF TypeOK, Beyond
<1>3. CASE Asks
  <2>1. /\ plan.pc # "native"
        /\ UNCHANGED <<asks, found, Desktop, told>>
    BY <1>3 DEF Asks, StartsNative, Planned
  <2>2. /\ ids' = ids + 1
        /\ native' = [id |-> ids + 1, res |-> "none"]
        /\ toPage' = Append(toPage, [type |-> "act", id |-> ids + 1])
        /\ UNCHANGED screen
    BY <1>3, <2>1, RequestFields DEF Asks, Act
  <2>3. toPage' \in Seq(Requests)
    <3>1. ids + 1 \in Nat
      BY DEF TypeOK
    <3> QED
      BY <2>2, <3>1, SendTyped
  <2> QED
    BY <1>1, <2>1, <2>2, <2>3 DEF TypeOK, Desktop, Waiters
<1>4. CASE Skips
  BY <1>1, <1>4 DEF Skips, Planned, Desktop, TypeOK
<1>5. CASE StartsCapture
  <2>1. /\ plan.pc # "shot"
        /\ UNCHANGED <<asks, found, Desktop, told>>
    BY <1>5 DEF StartsCapture
  <2>2. /\ ids' = ids + 1
        /\ screen' = [id |-> ids + 1, res |-> "none"]
        /\ toPage' = Append(toPage, [type |-> "shot", id |-> ids + 1])
        /\ UNCHANGED native
    BY <1>5, <2>1, CaptureFields DEF StartsCapture
  <2>3. toPage' \in Seq(Requests)
    <3>1. ids + 1 \in Nat
      BY DEF TypeOK
    <3> QED
      BY <2>2, <3>1, SendTyped
  <2> QED
    BY <1>1, <2>1, <2>2, <2>3 DEF TypeOK, Desktop, Waiters
<1>6. CASE NativeEnds
  <2>1. found' \in [query : Nat, results : Nat, goal : Nat, opened : Nat]
    BY <1>6 DEF NativeEnds, Remember, TypeOK, PlanTyped
  <2> QED
    BY <1>1, <1>6, <2>1 DEF NativeEnds, TypeOK, Desktop, Free, Waiters
<1>7. CASE NativeTimesOut
  <2>1. toPage' \in Seq(Requests)
    BY <1>7, SendTyped DEF NativeTimesOut, TypeOK, Waiters
  <2> QED
    BY <1>1, <1>7, <2>1 DEF NativeTimesOut, TypeOK, Desktop, Free, Waiters
<1>8. CASE ShotEnds \/ ShotTimesOut
  BY <1>1, <1>8 DEF ShotEnds, ShotTimesOut, TypeOK, Desktop, Free, Waiters
<1>9. CASE Cancelled
  <2>1. toPage' \in Seq(Requests)
    BY <1>9, SendTyped DEF Cancelled, TypeOK, Waiters
  <2> QED
    BY <1>1, <1>9, <2>1 DEF Cancelled, TypeOK, Desktop, Free, Waiters
<1>10. CASE Receives
  <2>1. Head(toServer) \in Results /\ Tail(toServer) \in Seq(Results)
    BY <1>10, TailFacts DEF Receives, TypeOK
  <2>2. native' \in Waiters /\ screen' \in Waiters
    BY <1>10, <2>1 DEF Receives, NativeResult, ScreenResult, TypeOK, Waiters, Results
  <2> QED
    BY <1>1, <1>10, <2>1, <2>2 DEF Receives, TypeOK
<1>11. CASE PageActs
  <2>1. toServer' \in Seq(Results)
    BY <1>11, HeadTyped, ReplyTyped DEF PageActs, TypeOK
  <2>2. page' \in Nat /\ desk' \in [act : Nat, stopping : BOOLEAN, shot : Nat]
    BY <1>11, HeadTyped DEF PageActs, TypeOK
  <2> QED
    BY <1>1, <1>11, <2>1, <2>2, HeadTyped DEF PageActs, TypeOK
<1>12. CASE PageShoots
  <2>1. toServer' \in Seq(Results)
    BY <1>12, HeadTyped, ReplyTyped DEF PageShoots, TypeOK
  <2>2. desk' \in [act : Nat, stopping : BOOLEAN, shot : Nat]
    BY <1>12, HeadTyped DEF PageShoots, TypeOK
  <2> QED
    BY <1>1, <1>12, <2>1, <2>2, HeadTyped DEF PageShoots, TypeOK
<1>13. CASE PageCancels
  <2>1. page' \in Nat /\ desk' \in [act : Nat, stopping : BOOLEAN, shot : Nat]
    BY <1>13, CancelTyped DEF PageCancels, TypeOK
  <2> QED
    BY <1>1, <1>13, <2>1, HeadTyped DEF PageCancels, TypeOK
<1>14. CASE DeskEnds
  <2>1. toServer' \in Seq(Results)
    BY <1>14, ReplyTyped DEF DeskEnds, TypeOK
  <2> QED
    <3>1. desk' = [desk EXCEPT !.act = 0, !.stopping = FALSE] /\ (page' = 0 \/ page' = page)
      BY <1>14 DEF DeskEnds
    <3>2. desk' \in [act : Nat, stopping : BOOLEAN, shot : Nat]
      BY <3>1 DEF TypeOK
    <3>3. page' \in Nat
      BY <3>1 DEF TypeOK
    <3> QED
      BY <1>1, <1>14, <2>1, <3>2, <3>3 DEF DeskEnds, TypeOK
<1>15. CASE DeskShows
  <2>1. toServer' \in Seq(Results)
    BY <1>15, ReplyTyped DEF DeskShows, TypeOK
  <2> QED
    BY <1>1, <1>15, <2>1 DEF DeskShows, TypeOK
<1>16. CASE Drops
  <2>1. desk' \in [act : Nat, stopping : BOOLEAN, shot : Nat]
    BY <1>16, CancelTyped DEF Drops, TypeOK
  <2> QED
    BY <1>1, <1>16, <2>1, EmptySeq DEF Drops, TypeOK, Free, NothingFound, Waiters
<1>17. CASE UNCHANGED vars
  BY <1>1, <1>17 DEF vars, TypeOK
<1> QED
  BY <1>2, <1>3, <1>4, <1>5, <1>6, <1>7, <1>8, <1>9, <1>10, <1>11, <1>12, <1>13, <1>14,
     <1>15, <1>16, <1>17, StepKinds DEF Else

\* Every action leaves each waiter to the plan's wait.
LEMMA WaitersStep == TypeOK /\ IdsGiven /\ WaitersOfPlan /\ [Next]_vars => WaitersOfPlan'
<1> SUFFICES ASSUME TypeOK, IdsGiven, WaitersOfPlan, [Next]_vars PROVE WaitersOfPlan'
  OBVIOUS
<1> USE DEF WaitersOfPlan
<1>1. plan' \in [pc : Points, todo : Seq(Kinds), ask : Nat, id : Nat]
  BY PlanStep DEF PlanTyped
<1>2. CASE Inner
  BY <1>2, InnerFields DEF Beyond
<1>3. CASE Asks
  <2>1. plan.pc # "native" /\ plan.pc # "shot"
    BY <1>3 DEF Asks, StartsNative, Planned
  <2>2. plan'.pc = "native" /\ plan'.id = ids + 1 /\ native'.id = ids + 1 /\ UNCHANGED screen
    <3>1. /\ native' = [id |-> ids + 1, res |-> "none"] /\ UNCHANGED screen
          /\ plan' = [plan EXCEPT !.pc = "native", !.id = ids + 1]
      BY <1>3, <2>1, RequestFields DEF Asks
    <3> QED
      BY <3>1 DEF TypeOK, PlanTyped
  <2> QED
    BY <2>1, <2>2 DEF TypeOK
<1>4. CASE Skips
  BY <1>4 DEF Skips, Planned, Continue, TypeOK, PlanTyped
<1>5. CASE StartsCapture
  <2>1. plan.pc = "step" /\ plan.pc # "shot"
    BY <1>5 DEF StartsCapture
  <2>2. plan'.pc = "shot" /\ UNCHANGED native
    BY <1>5, <2>1, CaptureFields DEF StartsCapture, TypeOK, PlanTyped
  <2> QED
    BY <2>1, <2>2
<1>6. CASE NativeEnds \/ NativeTimesOut \/ ShotEnds \/ ShotTimesOut
  <2>1. Continue \/ \E pc \in {"find", "planner", "answer", "notice"} : Goto(pc)
    BY <1>6 DEF NativeEnds, NativeTimesOut, ShotEnds, ShotTimesOut
  <2>2. plan'.pc \notin {"native", "shot"}
    BY <2>1 DEF Continue, Goto, TypeOK, PlanTyped
  <2>3. native' = Free /\ screen' = Free
    BY <1>6 DEF NativeEnds, NativeTimesOut, ShotEnds, ShotTimesOut
  <2> QED
    BY <2>2, <2>3
<1>7. CASE Cancelled \/ Drops
  BY <1>7 DEF Cancelled, Drops, NoPlan
<1>8. CASE Receives
  <2>1. Head(toServer).id # 0
    BY <1>8, TailFacts DEF Receives, TypeOK, IdsGiven, Given
  <2>2. native' = native \/ (native.id # 0 /\ native' = [native EXCEPT !.res = Head(toServer).res])
    <3>1. NativeResult(Head(toServer)) \/ native' = native
      BY <1>8 DEF Receives
    <3> QED
      BY <2>1, <3>1 DEF NativeResult
  <2>3. native'.id = native.id /\ (native = Free => native' = Free)
    BY <2>2 DEF TypeOK, Free, Waiters
  <2>4. screen = Free => screen' = Free
    BY <1>8, <2>1 DEF Receives, ScreenResult, Free
  <2> QED
    BY <1>8, <2>3, <2>4 DEF Receives
<1>9. CASE PageActs \/ PageShoots \/ PageCancels \/ DeskEnds \/ DeskShows \/ UNCHANGED vars
  BY <1>9 DEF PageActs, PageShoots, PageCancels, DeskEnds, DeskShows, vars
<1> QED
  BY <1>2, <1>3, <1>4, <1>5, <1>6, <1>7, <1>8, <1>9, StepKinds DEF Else

-----------------------------------------------------------------------------
\* Every action uses only ids that were given out.
LEMMA IdsStep == TypeOK /\ IdsGiven /\ WaitersOfPlan /\ [Next]_vars => IdsGiven'
<1> SUFFICES ASSUME TypeOK, IdsGiven, WaitersOfPlan, [Next]_vars PROVE IdsGiven'
  OBVIOUS
<1>1. ids \in Nat /\ toPage \in Seq(Requests) /\ toServer \in Seq(Results)
  BY DEF TypeOK
<1>2. ASSUME toPage # <<>>
      PROVE  Head(toPage).id \in Given /\ \A i \in DOMAIN Tail(toPage) : Tail(toPage)[i].id \in Given
  BY <1>1, <1>2, TailFacts DEF IdsGiven
<1>3. ASSUME NEW n \in Given, NEW t \in {"acted", "shown"}, NEW r \in {"ok", "error"}, Reply(t, n, r)
      PROVE  \A i \in DOMAIN toServer' : toServer'[i].id \in Given
  <2>1. [type |-> t, id |-> n, res |-> r] \in Results
    BY DEF Results, Given
  <2> QED
    BY <1>1, <1>3, <2>1, AppendFacts DEF Reply, IdsGiven
<1>4. ASSUME ids' = ids + 1, UNCHANGED <<toServer, page, desk>>, native'.id \in {native.id, ids + 1},
             NEW t \in {"act", "shot"}, toPage' = Append(toPage, [type |-> t, id |-> ids + 1])
      PROVE  IdsGiven'
  <2>1. [type |-> t, id |-> ids + 1] \in Requests
    BY <1>1 DEF Requests
  <2>2. Given \subseteq Given' /\ ids + 1 \in Given'
    BY <1>1, <1>4 DEF Given
  <2>3. \A i \in DOMAIN toPage' : toPage'[i].id \in Given'
    BY <1>1, <1>4, <2>1, <2>2, AppendFacts DEF IdsGiven
  <2> QED
    BY <1>4, <2>2, <2>3 DEF IdsGiven
<1>5. ASSUME UNCHANGED <<ids, toServer, page, desk>>, native' = Free, native.id \in Given,
             toPage' = Append(toPage, [type |-> "cancel", id |-> native.id])
      PROVE  IdsGiven'
  <2>1. [type |-> "cancel", id |-> native.id] \in Requests
    BY <1>5 DEF Requests, Given
  <2>2. \A i \in DOMAIN toPage' : toPage'[i].id \in Given
    BY <1>1, <1>5, <2>1, AppendFacts DEF IdsGiven
  <2> QED
    BY <1>5, <2>2 DEF IdsGiven, Given, Free
<1>6. CASE Inner \/ Skips \/ ShotEnds \/ ShotTimesOut \/ UNCHANGED vars
  <2>1. UNCHANGED <<ids, native, page, desk, toPage, toServer>>
    BY <1>6, InnerFields DEF Beyond, Skips, Planned, ShotEnds, ShotTimesOut, Desktop, vars
  <2> QED
    BY <2>1 DEF IdsGiven, Given
<1>7. CASE Asks
  <2>1. /\ plan.pc # "native" /\ UNCHANGED Desktop
    BY <1>7 DEF Asks, StartsNative, Planned
  <2>2. /\ ids' = ids + 1 /\ native' = [id |-> ids + 1, res |-> "none"]
        /\ toPage' = Append(toPage, Act(ids + 1))
    BY <1>7, <2>1, RequestFields DEF Asks
  <2> QED
    BY <1>4, <2>1, <2>2 DEF Act, Desktop
<1>8. CASE StartsCapture
  <2>1. /\ plan.pc # "shot" /\ UNCHANGED Desktop
    BY <1>8 DEF StartsCapture
  <2>2. /\ ids' = ids + 1 /\ UNCHANGED native
        /\ toPage' = Append(toPage, [type |-> "shot", id |-> ids + 1])
    BY <1>8, <2>1, CaptureFields DEF StartsCapture
  <2> QED
    BY <1>4, <2>1, <2>2 DEF Desktop
<1>9. CASE NativeEnds
  BY <1>9 DEF NativeEnds, Desktop, IdsGiven, Given, Free
<1>10. CASE NativeTimesOut \/ Cancelled
  <2>1. CASE plan.pc = "native"
    <3>1. native.id \in Given
      BY <2>1 DEF IdsGiven, WaitersOfPlan
    <3> QED
      BY <1>5, <1>10, <2>1, <3>1 DEF NativeTimesOut, Cancelled, Desktop
  <2>2. CASE plan.pc # "native"
    BY <1>10, <2>2 DEF NativeTimesOut, Cancelled, Desktop, IdsGiven, Given
  <2> QED
    BY <2>1, <2>2
<1>11. CASE Receives
  <2>1. native'.id = native.id
    <3>1. NativeResult(Head(toServer)) \/ native' = native
      BY <1>11 DEF Receives
    <3> QED
      BY <3>1 DEF NativeResult, TypeOK, Waiters
  <2>2. \A i \in DOMAIN toServer' : toServer'[i].id \in Given
    BY <1>1, <1>11, TailFacts DEF Receives, IdsGiven
  <2> QED
    BY <1>11, <2>1, <2>2 DEF Receives, IdsGiven, Given
<1>12. CASE PageActs
  <2>1. \A i \in DOMAIN toServer' : toServer'[i].id \in Given
    BY <1>2, <1>3, <1>12 DEF PageActs, IdsGiven
  <2> QED
    BY <1>2, <1>12, <2>1 DEF PageActs, IdsGiven, Given, TypeOK
<1>13. CASE PageShoots
  <2>1. \A i \in DOMAIN toServer' : toServer'[i].id \in Given
    BY <1>2, <1>3, <1>13 DEF PageShoots, IdsGiven
  <2> QED
    BY <1>2, <1>13, <2>1 DEF PageShoots, IdsGiven, Given, TypeOK
<1>14. CASE PageCancels
  BY <1>2, <1>14 DEF PageCancels, DeskCancels, IdsGiven, Given, TypeOK
<1>15. CASE DeskEnds
  <2>1. \A i \in DOMAIN toServer' : toServer'[i].id \in Given
    BY <1>3, <1>15 DEF DeskEnds, IdsGiven
  <2> QED
    BY <1>15, <2>1 DEF DeskEnds, IdsGiven, Given, TypeOK
<1>16. CASE DeskShows
  <2>1. desk.shot \in Given
    BY <1>16 DEF DeskShows, IdsGiven, Given
  <2>2. \A i \in DOMAIN toServer' : toServer'[i].id \in Given
    BY <1>3, <1>16, <2>1 DEF DeskShows
  <2> QED
    BY <1>16, <2>2 DEF DeskShows, IdsGiven, Given, TypeOK
<1>17. CASE Drops
  BY <1>17 DEF Drops, DeskCancels, IdsGiven, Given, Free, TypeOK
<1> QED
  BY <1>6, <1>7, <1>8, <1>9, <1>10, <1>11, <1>12, <1>13, <1>14, <1>15, <1>16, <1>17,
     StepKinds DEF Else

-----------------------------------------------------------------------------
\* Every action believes only what the desktop did.
LEMMA DoneStep == TypeOK /\ WaitersOfPlan /\ OkIsDone /\ [Next]_vars => OkIsDone'
<1> SUFFICES ASSUME TypeOK, WaitersOfPlan, OkIsDone, [Next]_vars PROVE OkIsDone'
  OBVIOUS
<1> USE DEF OkIsDone, SuccessIsReal
<1>1. ASSUME NEW n \in Nat, NEW t \in {"acted", "shown"}, NEW r \in {"ok", "error"}, Reply(t, n, r),
             t = "acted" /\ r = "ok" => n \in done', done \subseteq done'
      PROVE  \A i \in DOMAIN toServer' :
               toServer'[i].type = "acted" /\ toServer'[i].res = "ok" => toServer'[i].id \in done'
  <2>1. [type |-> t, id |-> n, res |-> r] \in Results /\ toServer \in Seq(Results)
    BY DEF TypeOK, Results
  <2> QED
    BY <1>1, <2>1, AppendFacts DEF Reply
<1>2. ASSUME UNCHANGED <<toServer, done, told>>, native' = native \/ native'.res = "none"
      PROVE  OkIsDone'
  BY <1>2
<1>3. CASE Inner \/ Skips \/ StartsCapture \/ NativeTimesOut \/ ShotEnds \/ ShotTimesOut \/ Cancelled
           \/ UNCHANGED vars
  <2>1. UNCHANGED <<toServer, done, told>>
    BY <1>3, InnerFields DEF Beyond, Skips, Planned, StartsCapture, NativeTimesOut, ShotEnds,
                             ShotTimesOut, Cancelled, Desktop, vars
  <2>2. native' = native \/ native' = Free
    BY <1>3, InnerFields, CaptureFields DEF Beyond, Skips, StartsCapture, NativeTimesOut, ShotEnds,
                             ShotTimesOut, Cancelled, vars
  <2> QED
    BY <1>2, <2>1, <2>2 DEF Free
<1>4. CASE Asks
  <2>1. plan.pc # "native" /\ UNCHANGED <<toServer, done, told>>
    BY <1>4 DEF Asks, StartsNative, Planned, Desktop
  <2>2. native' = [id |-> ids + 1, res |-> "none"]
    BY <1>4, <2>1, RequestFields DEF Asks
  <2> QED
    BY <1>2, <2>1, <2>2
<1>5. CASE NativeEnds
  <2>1. UNCHANGED <<toServer, done>> /\ native' = Free
    BY <1>5 DEF NativeEnds, Desktop
  <2>2. told' \subseteq done
    BY <1>5 DEF NativeEnds, WaitersOfPlan
  <2> QED
    BY <2>1, <2>2 DEF Free
<1>6. CASE Receives
  <2>1. toServer \in Seq(Results) /\ toServer # <<>> /\ toServer' = Tail(toServer)
    BY <1>6 DEF Receives, TypeOK
  <2>2. \A i \in DOMAIN toServer' :
          toServer'[i].type = "acted" /\ toServer'[i].res = "ok" => toServer'[i].id \in done
    BY <2>1, TailFacts
  <2>3. native'.res = "ok" => native'.id \in done
    <3>1. CASE native' = native
      BY <3>1
    <3>2. CASE Head(toServer).type = "acted" /\ NativeResult(Head(toServer))
      <4>1. Head(toServer).res = "ok" => Head(toServer).id \in done
        BY <2>1, <3>2, TailFacts
      <4> QED
        BY <3>2, <4>1 DEF NativeResult, TypeOK, Waiters
    <3> QED
      BY <1>6, <3>1, <3>2 DEF Receives
  <2> QED
    BY <1>6, <2>2, <2>3 DEF Receives
<1>7. CASE PageActs \/ PageShoots
  <2>1. \A i \in DOMAIN toServer' :
          toServer'[i].type = "acted" /\ toServer'[i].res = "ok" => toServer'[i].id \in done'
    BY <1>1, <1>7, HeadTyped DEF PageActs, PageShoots
  <2> QED
    BY <1>7, <2>1 DEF PageActs, PageShoots
<1>8. CASE DeskEnds
  <2>1. PICK r \in {"ok", "error"} :
          /\ done' = IF r = "ok" THEN done \cup {desk.act} ELSE done
          /\ IF page = desk.act THEN Reply("acted", page, r) /\ page' = 0 ELSE UNCHANGED <<toServer, page>>
    BY <1>8 DEF DeskEnds
  <2>2. page \in Nat /\ done \subseteq done'
    BY <2>1 DEF TypeOK
  <2>3. \A i \in DOMAIN toServer' :
          toServer'[i].type = "acted" /\ toServer'[i].res = "ok" => toServer'[i].id \in done'
    BY <1>1, <2>1, <2>2
  <2> QED
    BY <1>8, <2>2, <2>3 DEF DeskEnds
<1>9. CASE DeskShows
  <2>1. \A i \in DOMAIN toServer' :
          toServer'[i].type = "acted" /\ toServer'[i].res = "ok" => toServer'[i].id \in done'
    BY <1>1, <1>9 DEF DeskShows, TypeOK
  <2> QED
    BY <1>9, <2>1 DEF DeskShows
<1>10. CASE PageCancels
  BY <1>10 DEF PageCancels
<1>11. CASE Drops
  BY <1>11 DEF Drops, Free
<1> QED
  BY <1>3, <1>4, <1>5, <1>6, <1>7, <1>8, <1>9, <1>10, <1>11, StepKinds DEF Else

\* Every action leaves the page and the desktop together.
LEMMA DeskStep == TypeOK /\ IdsGiven /\ DeskFollowsPage /\ [Next]_vars => DeskFollowsPage'
<1> SUFFICES ASSUME TypeOK, IdsGiven, DeskFollowsPage, [Next]_vars PROVE DeskFollowsPage'
  OBVIOUS
<1> USE DEF DeskFollowsPage
<1>1. ASSUME NEW p \in BOOLEAN, DeskCancels(page, p), page' = 0 PROVE DeskFollowsPage'
  BY <1>1 DEF DeskCancels, TypeOK
<1>2. CASE Inner \/ Asks \/ Skips \/ StartsCapture \/ NativeEnds \/ NativeTimesOut \/ ShotEnds
           \/ ShotTimesOut \/ Cancelled \/ Receives \/ UNCHANGED vars
  <2>1. UNCHANGED <<page, desk>>
    BY <1>2, InnerFields DEF Beyond, Asks, StartsNative, Skips, Planned, StartsCapture, NativeEnds,
             NativeTimesOut, ShotEnds, ShotTimesOut, Cancelled, Receives, Desktop, vars
  <2> QED
    BY <2>1
<1>3. CASE PageActs
  BY <1>3, HeadTyped DEF PageActs, TypeOK
<1>4. CASE PageShoots \/ DeskShows
  <2>1. page' = page /\ desk'.act = desk.act /\ desk'.stopping = desk.stopping
    BY <1>4 DEF PageShoots, DeskShows, TypeOK
  <2> QED
    BY <2>1
<1>5. CASE PageCancels
  BY <1>1, <1>5 DEF PageCancels
<1>6. CASE DeskEnds
  BY <1>6 DEF DeskEnds, TypeOK
<1>7. CASE Drops
  BY <1>1, <1>7 DEF Drops
<1> QED
  BY <1>2, <1>3, <1>4, <1>5, <1>6, <1>7, StepKinds DEF Else

\* The results a follow-up reads are the query's.
LEMMA ResultsStep == ResultsAreOfQuery /\ TypeOK /\ [Next]_vars => ResultsAreOfQuery'
<1> SUFFICES ASSUME ResultsAreOfQuery, TypeOK, [Next]_vars PROVE ResultsAreOfQuery'
  OBVIOUS
<1> USE DEF ResultsAreOfQuery
<1>1. ASSUME UNCHANGED found PROVE ResultsAreOfQuery'
  BY <1>1
<1>2. CASE StartsResearch
  BY <1>2 DEF StartsResearch, TypeOK
<1>3. CASE NativeEnds
  <2>1. UNCHANGED found \/ Remember
    BY <1>3 DEF NativeEnds
  <2> QED
    BY <2>1 DEF Remember
<1>4. CASE Finds
  <2>1. \/ found' = [found EXCEPT !.query = plan.ask, !.results = plan.ask]
        \/ found' = [found EXCEPT !.results = found.query]
        \/ found' = found
    BY <1>4 DEF Finds
  <2> QED
    BY <2>1 DEF TypeOK
<1>5. CASE Sources
  <2>1. \/ \E o \in {found.opened, found.results} : found' = [found EXCEPT !.opened = o]
        \/ found' = [found EXCEPT !.results = 0]
        \/ found' = found
    BY <1>5 DEF Sources
  <2> QED
    BY <2>1 DEF TypeOK
<1>6. CASE Reads
  <2>1. found' = found \/ found' = [found EXCEPT !.opened = found.results]
    BY <1>6 DEF Reads
  <2> QED
    BY <2>1 DEF TypeOK
<1>7. CASE Drops
  BY <1>7 DEF Drops, NothingFound
<1>8. CASE (\E p \in Plans : Ask(p)) \/ StartsNative \/ StartsCapture \/ SearchNotClear \/ StartsPage
           \/ StartsFollowUp \/ Summarises \/ NativeTimesOut \/ ShotEnds \/ ShotTimesOut \/ Planned
           \/ ToolEnds \/ PlanEnds \/ Cancelled \/ Receives \/ PageActs \/ PageShoots \/ PageCancels
           \/ DeskEnds \/ DeskShows \/ UNCHANGED vars
  <2>1. UNCHANGED found
    BY <1>8 DEF Ask, StartsNative, StartsCapture, SearchNotClear, StartsPage, StartsFollowUp,
             Summarises, NativeTimesOut, ShotEnds, ShotTimesOut, Planned, ToolEnds, PlanEnds,
             Cancelled, Receives, PageActs, PageShoots, PageCancels, DeskEnds, DeskShows, vars
  <2> QED
    BY <1>1, <2>1
<1> QED
  BY <1>2, <1>3, <1>4, <1>5, <1>6, <1>7, <1>8 DEF Next, Works

-----------------------------------------------------------------------------
\* A message behind the others, as the invariant reads the socket.
LEMMA SentFacts ==
  ASSUME TypeOK, NEW m \in Requests, toPage' = Append(toPage, m)
  PROVE  \E last \in Nat :
           /\ \A i \in DOMAIN toPage : i \in DOMAIN toPage' /\ toPage'[i] = toPage[i] /\ i < last
           /\ last \in DOMAIN toPage' /\ toPage'[last] = m /\ last > 0
           /\ \A i \in DOMAIN toPage' : i \in DOMAIN toPage \/ i = last
<1>1. toPage \in Seq(Requests) /\ Len(toPage) + 1 \in Nat
  BY DEF TypeOK
<1> QED
  BY <1>1, AppendFacts

\* A message that is no action disturbs neither what is spent nor what is once.
LEMMA OtherSent ==
  ASSUME TypeOK, ActsOnce, NEW m \in Requests, m.type # "act", toPage' = Append(toPage, m),
         UNCHANGED <<page, toServer>>, native' = native \/ native' = Free
  PROVE  ActsOnce'
<1>1. PICK last \in Nat :
           /\ \A i \in DOMAIN toPage : i \in DOMAIN toPage' /\ toPage'[i] = toPage[i] /\ i < last
           /\ last \in DOMAIN toPage' /\ toPage'[last] = m /\ last > 0
           /\ \A i \in DOMAIN toPage' : i \in DOMAIN toPage \/ i = last
  BY SentFacts
<1>2. \A id : Spent(toPage, page, id) => Spent(toPage', page, id)
  BY <1>1 DEF Spent, Act
<1>3. \A i \in DOMAIN toPage' : toPage'[i].type = "act" =>
        /\ page # toPage'[i].id
        /\ \A j \in DOMAIN toPage' : toPage'[j] = toPage'[i] => j = i
  BY <1>1 DEF ActsOnce
<1>4. native'.res # "none" => Spent(toPage', page, native'.id)
  BY <1>2 DEF ActsOnce, Free
<1> QED
  BY <1>2, <1>3, <1>4 DEF ActsOnce

\* A new action has an id of its own.
LEMMA ActSent ==
  ASSUME TypeOK, IdsGiven, ActsOnce, toPage' = Append(toPage, Act(ids + 1)),
         UNCHANGED <<page, toServer>>, native' = [id |-> ids + 1, res |-> "none"]
  PROVE  ActsOnce'
<1>1. Act(ids + 1) \in Requests /\ ids + 1 \notin Given \cup {0}
  BY DEF TypeOK, Act, Requests, Given
<1>2. PICK last \in Nat :
           /\ \A i \in DOMAIN toPage : i \in DOMAIN toPage' /\ toPage'[i] = toPage[i] /\ i < last
           /\ last \in DOMAIN toPage' /\ toPage'[last] = Act(ids + 1) /\ last > 0
           /\ \A i \in DOMAIN toPage' : i \in DOMAIN toPage \/ i = last
  BY <1>1, SentFacts
<1>3. \A id \in Given : Spent(toPage, page, id) => Spent(toPage', page, id)
  BY <1>1, <1>2 DEF Spent, Act
<1>4. \A i \in DOMAIN toPage : toPage[i].id # ids + 1
  BY <1>1 DEF IdsGiven
<1>5. \A i \in DOMAIN toPage' : toPage'[i].type = "act" =>
        /\ page # toPage'[i].id
        /\ \A j \in DOMAIN toPage' : toPage'[j] = toPage'[i] => j = i
  BY <1>1, <1>2, <1>4 DEF ActsOnce, IdsGiven, Act
<1>6. \A i \in DOMAIN toServer : toServer[i].id \in Given
  BY DEF IdsGiven
<1> QED
  BY <1>3, <1>5, <1>6 DEF ActsOnce

\* A reply about a spent action keeps the socket's answers spent.
LEMMA ReplySpent ==
  ASSUME TypeOK, NEW q, NEW p, NEW n \in Nat, NEW t \in {"acted", "shown"}, NEW r \in {"ok", "error"},
         Reply(t, n, r), t = "acted" => Spent(q, p, n),
         \A i \in DOMAIN toServer : toServer[i].type = "acted" => Spent(q, p, toServer[i].id)
  PROVE  \A i \in DOMAIN toServer' : toServer'[i].type = "acted" => Spent(q, p, toServer'[i].id)
<1>1. [type |-> t, id |-> n, res |-> r] \in Results /\ toServer \in Seq(Results)
  BY DEF TypeOK, Results
<1> QED
  BY <1>1, AppendFacts DEF Reply

\* The page takes its next message.
LEMMA TakenFacts ==
  ASSUME TypeOK, toPage # <<>>, toPage' = Tail(toPage)
  PROVE  /\ Head(toPage) = toPage[1] /\ 1 \in DOMAIN toPage /\ DOMAIN toPage \subseteq Nat \ {0}
         /\ \A i \in DOMAIN toPage' : i + 1 \in DOMAIN toPage /\ toPage'[i] = toPage[i + 1] /\ i + 1 # 1 /\ i \in Nat
         /\ \A i \in DOMAIN toPage : i > 1 => i - 1 \in DOMAIN toPage' /\ toPage'[i - 1] = toPage[i]
<1>1. toPage \in Seq(Requests) /\ Tail(toPage) \in Seq(Requests)
  BY TailFacts DEF TypeOK
<1>2. DOMAIN toPage \subseteq Nat \ {0} /\ DOMAIN Tail(toPage) \subseteq Nat \ {0}
  BY <1>1, LenProperties
<1> QED
  BY <1>1, <1>2, TailFacts

LEMMA TakenOnce ==
  ASSUME TypeOK, ActsOnce, toPage # <<>>, toPage' = Tail(toPage)
  PROVE  /\ \A i, j \in DOMAIN toPage' : toPage'[i].type = "act" /\ toPage'[j] = toPage'[i] => j = i
         /\ \A i \in DOMAIN toPage' : toPage'[i].type = "act" =>
              /\ page # toPage'[i].id
              /\ toPage'[i] # Head(toPage)
         /\ \A id, p : Spent(toPage, page, id) /\ p # id => Spent(toPage', p, id)
<1>1. \A i, j \in DOMAIN toPage' : toPage'[i].type = "act" /\ toPage'[j] = toPage'[i] => j = i
  <2> SUFFICES ASSUME NEW i \in DOMAIN toPage', NEW j \in DOMAIN toPage', toPage'[i].type = "act", toPage'[j] = toPage'[i]
               PROVE  j = i
    OBVIOUS
  <2>1. i + 1 \in DOMAIN toPage /\ j + 1 \in DOMAIN toPage /\ toPage[i + 1] = toPage[j + 1]
        /\ toPage[i + 1].type = "act" /\ i \in Nat /\ j \in Nat
    BY TakenFacts
  <2>2. i + 1 = j + 1
    BY <2>1 DEF ActsOnce
  <2> QED
    BY <2>1, <2>2
<1>2. ASSUME NEW i \in DOMAIN toPage', toPage'[i].type = "act"
      PROVE  page # toPage'[i].id /\ toPage'[i] # Head(toPage)
  BY <1>2, TakenFacts DEF ActsOnce
<1>3. \A id, p : Spent(toPage, page, id) /\ p # id => Spent(toPage', p, id)
  BY TakenFacts DEF Spent
<1> QED
  BY <1>1, <1>2, <1>3

\* Every action sends an action once and answers it when the page is done with it.
LEMMA OnceStep == TypeOK /\ IdsGiven /\ WaitersOfPlan /\ ActsOnce /\ [Next]_vars => ActsOnce'
<1> SUFFICES ASSUME TypeOK, IdsGiven, WaitersOfPlan, ActsOnce, [Next]_vars PROVE ActsOnce'
  OBVIOUS
<1>1. ASSUME UNCHANGED <<toPage, toServer, page>>, native' = native \/ native' = Free PROVE ActsOnce'
  BY <1>1 DEF ActsOnce, Free
<1>2. CASE Inner \/ Skips \/ NativeEnds \/ ShotEnds \/ ShotTimesOut \/ UNCHANGED vars
  <2>1. UNCHANGED <<toPage, toServer, page>> /\ (native' = native \/ native' = Free)
    BY <1>2, InnerFields DEF Beyond, Skips, Planned, NativeEnds, ShotEnds, ShotTimesOut, Desktop, vars
  <2> QED
    BY <1>1, <2>1
<1>3. CASE Asks
  <2>1. plan.pc # "native" /\ UNCHANGED <<toServer, page>>
    BY <1>3 DEF Asks, StartsNative, Planned, Desktop
  <2> QED
    BY <1>3, <2>1, RequestFields, ActSent DEF Asks
<1>4. CASE StartsCapture
  <2>1. plan.pc # "shot" /\ UNCHANGED <<toServer, page>>
    BY <1>4 DEF StartsCapture, Desktop
  <2>2. [type |-> "shot", id |-> ids + 1] \in Requests
    BY DEF Requests, TypeOK
  <2> QED
    BY <1>4, <2>1, <2>2, CaptureFields, OtherSent DEF StartsCapture
<1>5. CASE NativeTimesOut \/ (Cancelled /\ plan.pc = "native")
  <2>1. Cancel(native.id) \in Requests
    BY DEF Requests, Cancel, TypeOK, Waiters
  <2>2. toPage' = Append(toPage, Cancel(native.id)) /\ native' = Free /\ UNCHANGED <<page, toServer>>
    BY <1>5 DEF NativeTimesOut, Cancelled, Cancel, Desktop
  <2>3. Cancel(native.id).type # "act"
    BY DEF Cancel
  <2> QED
    BY <2>1, <2>2, <2>3, OtherSent
<1>6. CASE Cancelled /\ plan.pc # "native"
  BY <1>1, <1>6 DEF Cancelled, Desktop
<1>7. CASE Receives
  <2>1. toServer \in Seq(Results) /\ toServer # <<>> /\ toServer' = Tail(toServer) /\ UNCHANGED <<toPage, page>>
    BY <1>7 DEF Receives, TypeOK
  <2>2. \A i \in DOMAIN toServer' : toServer'[i].type = "acted" => Spent(toPage, page, toServer'[i].id)
    BY <2>1, TailFacts DEF ActsOnce
  <2>3. native'.res # "none" => Spent(toPage, page, native'.id)
    <3>1. CASE native' = native
      BY <3>1 DEF ActsOnce
    <3>2. CASE Head(toServer).type = "acted" /\ NativeResult(Head(toServer))
      <4>1. Spent(toPage, page, Head(toServer).id)
        BY <2>1, <3>2, TailFacts DEF ActsOnce
      <4>2. native' = native \/ (native.id = Head(toServer).id /\ native'.id = native.id)
        BY <3>2 DEF NativeResult, TypeOK, Waiters
      <4> QED
        BY <3>1, <4>1, <4>2
    <3> QED
      BY <1>7, <3>1, <3>2 DEF Receives
  <2> QED
    BY <2>1, <2>2, <2>3 DEF ActsOnce
<1>8. CASE PageActs
  <2> DEFINE id == Head(toPage).id
  <2>1. /\ toPage # <<>> /\ toPage' = Tail(toPage) /\ UNCHANGED native
        /\ id \in Nat /\ Head(toPage) = Act(id)
    BY <1>8, HeadTyped DEF PageActs, Act, Requests
  <2>2. ~Spent(toPage, page, id) /\ page # id
    <3>1. 1 \in DOMAIN toPage /\ toPage[1] = Act(id)
      BY <2>1, TakenFacts
    <3>2. toPage[1].id = id /\ toPage[1].type = "act"
      BY <3>1 DEF Act
    <3> QED
      BY <3>1, <3>2 DEF Spent, ActsOnce
  <2>3. page' = page \/ page' = id
    BY <1>8 DEF PageActs
  <2>4. \A n : Spent(toPage, page, n) => Spent(toPage', page', n)
    BY <2>1, <2>2, <2>3, TakenOnce DEF Spent
  <2>5. \A i \in DOMAIN toPage' : toPage'[i].type = "act" => page' # toPage'[i].id
    <3> SUFFICES ASSUME NEW i \in DOMAIN toPage', toPage'[i].type = "act" PROVE page' # toPage'[i].id
      OBVIOUS
    <3>1. page # toPage'[i].id /\ toPage'[i] # Act(id)
      BY <2>1, TakenOnce
    <3>2. toPage'[i] \in Requests
      BY <2>1, TailFacts, LenProperties DEF TypeOK
    <3>3. toPage'[i].id # id
      BY <3>1, <3>2 DEF Requests, Act
    <3> QED
      BY <2>3, <3>1, <3>3
  <2>6. \A i \in DOMAIN toServer' : toServer'[i].type = "acted" => Spent(toPage', page', toServer'[i].id)
    <3>1. \A i \in DOMAIN toServer : toServer[i].type = "acted" => Spent(toPage', page', toServer[i].id)
      BY <2>4 DEF ActsOnce
    <3>2. CASE toServer' = toServer
      BY <3>1, <3>2
    <3>3. CASE Reply("acted", id, "error") /\ page' = page
      <4>1. Spent(toPage', page', id)
        BY <2>1, <2>2, <3>3, TakenOnce DEF Spent, Act
      <4> QED
        BY <2>1, <3>1, <3>3, <4>1, ReplySpent
    <3> QED
      BY <1>8, <3>2, <3>3 DEF PageActs
  <2>7. \A i, j \in DOMAIN toPage' : toPage'[i].type = "act" /\ toPage'[j] = toPage'[i] => j = i
    BY <2>1, TakenOnce
  <2> QED
    BY <2>1, <2>4, <2>5, <2>6, <2>7 DEF ActsOnce
<1>9. CASE PageShoots
  <2>1. toPage # <<>> /\ toPage' = Tail(toPage) /\ UNCHANGED <<native, page>> /\ Head(toPage).id \in Nat
    BY <1>9, HeadTyped DEF PageShoots
  <2>2. \A n : Spent(toPage, page, n) => Spent(toPage', page, n)
    BY <2>1, TakenOnce DEF Spent
  <2>3. \A i \in DOMAIN toServer : toServer[i].type = "acted" => Spent(toPage', page, toServer[i].id)
    BY <2>2 DEF ActsOnce
  <2>4. \A i \in DOMAIN toServer' : toServer'[i].type = "acted" => Spent(toPage', page, toServer'[i].id)
    BY <1>9, <2>1, <2>3, ReplySpent DEF PageShoots
  <2> QED
    BY <2>1, <2>2, <2>4, TakenOnce DEF ActsOnce
<1>10. CASE PageCancels
  <2>1. /\ toPage # <<>> /\ toPage' = Tail(toPage) /\ UNCHANGED <<native, toServer>>
        /\ page' = page \/ page' = 0
    BY <1>10 DEF PageCancels
  <2>2. \A n \in Given : Spent(toPage, page, n) => Spent(toPage', page', n)
    BY <2>1, TakenOnce DEF Spent, Given
  <2>3. native.res # "none" => native.id \in Given
    BY DEF WaitersOfPlan, IdsGiven, Free
  <2>4. \A i \in DOMAIN toServer : toServer[i].id \in Given
    BY DEF IdsGiven
  <2>5. \A i \in DOMAIN toPage' : toPage'[i].type = "act" => page' # toPage'[i].id
    BY <2>1, TakenOnce, TakenFacts DEF IdsGiven, Given
  <2> QED
    BY <2>1, <2>2, <2>3, <2>4, <2>5, TakenOnce DEF ActsOnce
<1>11. CASE DeskEnds
  <2>1. UNCHANGED <<toPage, native>> /\ (page' = page \/ page' = 0)
    BY <1>11 DEF DeskEnds
  <2>2. \A n \in Given : Spent(toPage, page, n) => Spent(toPage, page', n)
    BY <2>1 DEF Spent, Given
  <2>3. native.res # "none" => native.id \in Given
    BY DEF WaitersOfPlan, IdsGiven, Free
  <2>4. \A i \in DOMAIN toPage : toPage[i].type = "act" => page' # toPage[i].id
    BY <2>1 DEF ActsOnce, IdsGiven, Given
  <2>5. \A i \in DOMAIN toServer : toServer[i].type = "acted" => Spent(toPage, page', toServer[i].id)
    BY <2>2 DEF ActsOnce, IdsGiven
  <2>6. \A i \in DOMAIN toServer' : toServer'[i].type = "acted" => Spent(toPage, page', toServer'[i].id)
    <3>1. CASE toServer' = toServer
      BY <2>5, <3>1
    <3>2. CASE page = desk.act /\ page' = 0 /\ \E r \in {"ok", "error"} : Reply("acted", page, r)
      <4>1. page # 0 /\ page \in Nat
        BY <1>11, <3>2 DEF DeskEnds, TypeOK
      <4>2. \A i \in DOMAIN toPage : toPage[i] # Act(page)
        BY DEF ActsOnce, Act
      <4>3. Spent(toPage, page', page)
        BY <3>2, <4>1, <4>2 DEF Spent
      <4> QED
        BY <2>5, <3>2, <4>1, <4>3, ReplySpent
    <3> QED
      BY <1>11, <3>1, <3>2 DEF DeskEnds
  <2> QED
    BY <2>1, <2>2, <2>3, <2>4, <2>6 DEF ActsOnce
<1>12. CASE DeskShows
  <2>1. UNCHANGED <<toPage, native, page>>
    BY <1>12 DEF DeskShows
  <2>2. \A i \in DOMAIN toServer : toServer[i].type = "acted" => Spent(toPage, page, toServer[i].id)
    BY DEF ActsOnce
  <2>3. \A i \in DOMAIN toServer' : toServer'[i].type = "acted" => Spent(toPage, page, toServer'[i].id)
    BY <1>12, <2>2, ReplySpent DEF DeskShows, TypeOK
  <2> QED
    BY <2>1, <2>3 DEF ActsOnce
<1>13. CASE Drops
  BY <1>13 DEF Drops, ActsOnce, Free
<1> QED
  BY <1>2, <1>3, <1>4, <1>5, <1>6, <1>7, <1>8, <1>9, <1>10, <1>11, <1>12, <1>13, StepKinds DEF Else

-----------------------------------------------------------------------------
\* A message sent leaves the cancels where they were; a message taken leaves
\* those behind it.
LEMMA SentCancels ==
  ASSUME TypeOK, NEW m \in Requests, toPage' = Append(toPage, m)
  PROVE  \A id, n : CancelIn(toPage, id, n) => CancelIn(toPage', id, n)
  BY SentFacts DEF CancelIn

LEMMA TakenCancels ==
  ASSUME TypeOK, toPage # <<>>, toPage' = Tail(toPage), NEW id, NEW n \in Nat,
         CancelIn(toPage, id, n + 1)
  PROVE  CancelIn(toPage', id, n)
<1>1. PICK j \in DOMAIN toPage : j > n + 1 /\ toPage[j] = Cancel(id)
  BY DEF CancelIn
<1>2. j \in Nat /\ j > 1 /\ j - 1 > n
  BY <1>1, TakenFacts
<1>3. j - 1 \in DOMAIN toPage' /\ toPage'[j - 1] = Cancel(id)
  BY <1>1, <1>2, TakenFacts
<1> QED
  BY <1>2, <1>3 DEF CancelIn

\* Taking a message that is neither an action nor the cancel of the page's own.
LEMMA TakenWanted ==
  ASSUME TypeOK, PageIsWanted, toPage # <<>>, toPage' = Tail(toPage), native' = native
  PROVE  /\ page # 0 /\ Head(toPage) # Cancel(page) =>
              page = native'.id \/ CancelIn(toPage', page, 0)
         /\ \A i \in DOMAIN toPage' : toPage'[i].type = "act" =>
              toPage'[i].id = native'.id \/ CancelIn(toPage', toPage'[i].id, i)
<1>1. ASSUME page # 0, Head(toPage) # Cancel(page), page # native.id PROVE CancelIn(toPage', page, 0)
  <2>1. PICK j \in DOMAIN toPage : j > 0 /\ toPage[j] = Cancel(page)
    BY <1>1 DEF PageIsWanted, CancelIn
  <2>2. j > 0 + 1
    BY <1>1, <2>1, TakenFacts
  <2>3. CancelIn(toPage, page, 0 + 1)
    BY <2>1, <2>2 DEF CancelIn
  <2> QED
    BY <2>3, TakenCancels
<1>2. ASSUME NEW i \in DOMAIN toPage', toPage'[i].type = "act", toPage'[i].id # native.id
      PROVE  CancelIn(toPage', toPage'[i].id, i)
  <2>1. i + 1 \in DOMAIN toPage /\ toPage'[i] = toPage[i + 1] /\ i \in Nat
    BY TakenFacts
  <2>2. CancelIn(toPage, toPage'[i].id, i + 1)
    BY <1>2, <2>1 DEF PageIsWanted
  <2> QED
    BY <2>1, <2>2, TakenCancels
<1> QED
  BY <1>1, <1>2

\* Every action leaves the page at work only at what is waited for.
LEMMA WantedStep ==
  TypeOK /\ IdsGiven /\ WaitersOfPlan /\ ActsOnce /\ PageIsWanted /\ [Next]_vars => PageIsWanted'
<1> SUFFICES ASSUME TypeOK, IdsGiven, WaitersOfPlan, ActsOnce, PageIsWanted, [Next]_vars
             PROVE  PageIsWanted'
  OBVIOUS
<1>1. ASSUME UNCHANGED <<toPage, page>>, native'.id = native.id PROVE PageIsWanted'
  BY <1>1 DEF PageIsWanted
<1>2. ASSUME NEW m \in Requests, toPage' = Append(toPage, m), page' = page,
             \/ m.type # "act" /\ native' = native
             \/ m = Cancel(native.id)
             \/ m = Act(native'.id) /\ native = Free
      PROVE  PageIsWanted'
  <2>1. PICK last \in Nat :
           /\ \A i \in DOMAIN toPage : i \in DOMAIN toPage' /\ toPage'[i] = toPage[i] /\ i < last
           /\ last \in DOMAIN toPage' /\ toPage'[last] = m /\ last > 0
           /\ \A i \in DOMAIN toPage' : i \in DOMAIN toPage \/ i = last
    BY <1>2, SentFacts
  <2>2. \A id, n : CancelIn(toPage, id, n) => CancelIn(toPage', id, n)
    BY <1>2, SentCancels
  <2>3. m = Cancel(native.id) => /\ CancelIn(toPage', native.id, 0)
                                 /\ \A i \in DOMAIN toPage : CancelIn(toPage', native.id, i)
    BY <2>1 DEF CancelIn
  <2>4. \A i \in DOMAIN toPage : toPage[i].id # 0
    BY DEF IdsGiven, Given
  <2>5. page # 0 => page = native'.id \/ CancelIn(toPage', page, 0)
    BY <1>2, <2>2, <2>3 DEF PageIsWanted, Free
  <2>6. \A i \in DOMAIN toPage : toPage[i].type = "act" =>
          toPage[i].id = native'.id \/ CancelIn(toPage', toPage[i].id, i)
    BY <1>2, <2>2, <2>3, <2>4 DEF PageIsWanted, Free
  <2>7. m.type = "act" => m.id = native'.id
    BY <1>2 DEF Act, Cancel
  <2> QED
    BY <1>2, <2>1, <2>5, <2>6, <2>7 DEF PageIsWanted
<1>3. CASE Inner \/ Skips \/ ShotEnds \/ ShotTimesOut \/ DeskShows \/ UNCHANGED vars
  <2>1. UNCHANGED <<toPage, page, native>>
    BY <1>3, InnerFields DEF Beyond, Skips, Planned, ShotEnds, ShotTimesOut, DeskShows, Desktop, vars
  <2> QED
    BY <1>1, <2>1
<1>4. CASE Asks
  <2>1. plan.pc # "native" /\ page' = page
    BY <1>4 DEF Asks, StartsNative, Planned, Desktop
  <2>2. Act(ids + 1) \in Requests
    BY DEF Requests, Act, TypeOK
  <2>3. native'.id = ids + 1 /\ toPage' = Append(toPage, Act(ids + 1)) /\ native = Free
    BY <1>4, <2>1, RequestFields DEF Asks, WaitersOfPlan
  <2> QED
    BY <1>2, <2>1, <2>2, <2>3
<1>5. CASE StartsCapture
  <2>1. plan.pc # "shot" /\ page' = page
    BY <1>5 DEF StartsCapture, Desktop
  <2>2. [type |-> "shot", id |-> ids + 1] \in Requests
    BY DEF Requests, TypeOK
  <2> QED
    BY <1>2, <1>5, <2>1, <2>2, CaptureFields DEF StartsCapture
<1>6. CASE NativeEnds
  <2>1. Spent(toPage, page, native.id) /\ UNCHANGED <<toPage, page>>
    BY <1>6 DEF NativeEnds, ActsOnce, Desktop
  <2>2. toPage \in Seq(Requests)
    BY DEF TypeOK
  <2>3. \A i \in DOMAIN toPage : toPage[i].type = "act" => toPage[i].id # native.id
    <3> SUFFICES ASSUME NEW i \in DOMAIN toPage, toPage[i].type = "act", toPage[i].id = native.id PROVE FALSE
      OBVIOUS
    <3>1. toPage[i] \in Requests
      BY <2>2, LenProperties
    <3>2. toPage[i] = Act(native.id)
      BY <3>1 DEF Requests, Act
    <3> QED
      BY <2>1, <3>2 DEF Spent
  <2> QED
    BY <2>1, <2>3 DEF PageIsWanted, Spent
<1>7. CASE NativeTimesOut \/ (Cancelled /\ plan.pc = "native")
  <2>1. Cancel(native.id) \in Requests
    BY DEF Requests, Cancel, TypeOK, Waiters
  <2>2. toPage' = Append(toPage, Cancel(native.id)) /\ page' = page
    BY <1>7 DEF NativeTimesOut, Cancelled, Cancel, Desktop
  <2> QED
    BY <1>2, <2>1, <2>2
<1>8. CASE Cancelled /\ plan.pc # "native"
  BY <1>1, <1>8 DEF Cancelled, Desktop
<1>9. CASE Receives
  <2>1. NativeResult(Head(toServer)) \/ native' = native
    BY <1>9 DEF Receives
  <2>2. native'.id = native.id
    BY <2>1 DEF NativeResult, TypeOK, Waiters
  <2> QED
    BY <1>1, <1>9, <2>2 DEF Receives
<1>10. CASE PageActs
  <2> DEFINE id == Head(toPage).id
  <2>1. /\ toPage # <<>> /\ toPage' = Tail(toPage) /\ native' = native
        /\ id \in Nat /\ Head(toPage) = Act(id)
    BY <1>10, HeadTyped DEF PageActs, Act, Requests
  <2>2. 1 \in DOMAIN toPage /\ toPage[1] = Act(id)
    BY <2>1, TakenFacts
  <2>3. CASE page' = page
    <3>1. Head(toPage) # Cancel(page)
      BY <2>1 DEF Act, Cancel
    <3> QED
      BY <2>1, <2>3, <3>1, TakenWanted DEF PageIsWanted
  <2>4. CASE page' = id
    <3>1. id = native.id \/ CancelIn(toPage, id, 0 + 1)
      BY <2>2 DEF PageIsWanted, Act
    <3>2. id = native'.id \/ CancelIn(toPage', id, 0)
      BY <2>1, <3>1, TakenCancels
    <3> QED
      BY <2>1, <2>4, <3>2, TakenWanted DEF PageIsWanted
  <2> QED
    BY <1>10, <2>3, <2>4 DEF PageActs
<1>11. CASE PageShoots
  <2>1. /\ toPage # <<>> /\ toPage' = Tail(toPage) /\ UNCHANGED <<native, page>>
        /\ Head(toPage) # Cancel(page)
    BY <1>11 DEF PageShoots, Cancel
  <2> QED
    BY <2>1, TakenWanted DEF PageIsWanted
<1>12. CASE PageCancels
  <2>1. toPage # <<>> /\ toPage' = Tail(toPage) /\ native' = native
    BY <1>12 DEF PageCancels
  <2>2. page' = 0 \/ (page' = page /\ Head(toPage) # Cancel(page))
    BY <1>12 DEF PageCancels, Cancel
  <2> QED
    BY <2>1, <2>2, TakenWanted DEF PageIsWanted
<1>13. CASE DeskEnds
  <2>1. UNCHANGED <<toPage, native>> /\ (page' = page \/ page' = 0)
    BY <1>13 DEF DeskEnds
  <2> QED
    BY <2>1 DEF PageIsWanted
<1>14. CASE Drops
  BY <1>14 DEF Drops, PageIsWanted
<1> QED
  BY <1>3, <1>4, <1>5, <1>6, <1>7, <1>8, <1>9, <1>10, <1>11, <1>12, <1>13, <1>14, StepKinds DEF Else

-----------------------------------------------------------------------------
LEMMA InitIInv == Init => IInv
<1> SUFFICES ASSUME Init PROVE IInv
  OBVIOUS
<1>1. TypeOK
  BY NoPlanTyped, ActionsAssumption, EmptySeq DEF Init, TypeOK, Free, NothingFound, Waiters
<1>2. IdsGiven /\ WaitersOfPlan /\ OkIsDone
  BY DEF Init, IdsGiven, Given, WaitersOfPlan, OkIsDone, SuccessIsReal, NoPlan, Free
<1>3. ActsOnce /\ PageIsWanted /\ DeskFollowsPage /\ ResultsAreOfQuery
  BY DEF Init, ActsOnce, PageIsWanted, DeskFollowsPage, ResultsAreOfQuery, Free, NothingFound
<1> QED
  BY <1>1, <1>2, <1>3 DEF IInv

LEMMA NextIInv == IInv /\ [Next]_vars => IInv'
  BY TypeStep, IdsStep, WaitersStep, DoneStep, OnceStep, WantedStep, DeskStep, ResultsStep DEF IInv

LEMMA InvariantHolds == Spec => []IInv
  BY InitIInv, NextIInv, PTL DEF Spec

LEMMA QuietFollows == IInv => QuietIsClean
<1> SUFFICES ASSUME IInv, plan.pc = "idle"
             PROVE  /\ native = Free /\ screen = Free
                    /\ toPage = <<>> => page = 0 /\ (desk.act # 0 => desk.stopping)
  BY DEF QuietIsClean
<1>1. native = Free /\ native.id = 0 /\ screen = Free
  BY DEF IInv, WaitersOfPlan, Free
<1>2. toPage = <<>> => page = 0
  BY <1>1 DEF IInv, PageIsWanted, CancelIn
<1> QED
  BY <1>1, <1>2 DEF IInv, DeskFollowsPage

\* The values of every variable, for any plans and bounds.
THEOREM TypeCorrect == Spec => []TypeOK
<1>1. IInv => TypeOK
  BY DEF IInv
<1> QED
  BY <1>1, InvariantHolds, PTL

\* An action reported to the owner as successful completed on the desktop: a
\* late, refused or repeated answer never stands in for it.
THEOREM SuccessIsTold == Spec => []SuccessIsReal
<1>1. IInv => SuccessIsReal
  BY DEF IInv, OkIsDone
<1> QED
  BY <1>1, InvariantHolds, PTL

\* Interrupts, deadlines and lost connections leave no waiter behind, and no
\* action at the page once its cancel was read.
THEOREM QuietSessionIsClean == Spec => []QuietIsClean
  BY InvariantHolds, QuietFollows, PTL

\* A follow-up reads results that were found for the query it names.
THEOREM FollowUpsReadTheirResults == Spec => []ResultsAreOfQuery
<1>1. IInv => ResultsAreOfQuery
  BY DEF IInv
<1> QED
  BY <1>1, InvariantHolds, PTL
=============================================================================
