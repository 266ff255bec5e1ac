--------------------------- MODULE MultiAgentProofs ---------------------------
(***************************************************************************)
(* Theorems of MultiAgent: for any number of runs, children and sessions,  *)
(* any set of owner commands and any misbehaviour of the gateway, a child  *)
(* shown as succeeded has succeeded in the task ledger, and (while sends   *)
(* do not suspend) a hidden child's session is archived.  While archive    *)
(* calls succeed too and runs do not overlap, a run ends with the status   *)
(* its children justify, no session works on behind a card that is over,   *)
(* and (with polls that neither fail nor expire) a quiet board is settled. *)
(***************************************************************************)
EXTENDS MultiAgent, TLAPS

-----------------------------------------------------------------------------
LEMMA StatusTypes ==
  /\ {"queued", "starting", "running", "cancelling", "succeeded", "failed", "cancelled",
      "timed_out"} = ChildStatuses
  /\ {"failed", "cancelled", "timed_out", "succeeded"} = Terminal
  BY DEF ChildStatuses, Terminal

\* Updates of one child or one coroutine, as the actions write them.
LEMMA KidUpdate ==
  ASSUME TypeOK, NEW k, NEW new, k \in Kids => new \in KidType
  PROVE  [kid EXCEPT ![k] = new] \in [Kids -> KidType]
  BY DEF TypeOK

LEMMA CoUpdate ==
  ASSUME TypeOK, NEW p, NEW new, p \in Coroutines => new \in CoType
  PROVE  [co EXCEPT ![p] = new] \in [Coroutines -> CoType]
  BY DEF TypeOK

LEMMA SettleTyped ==
  ASSUME NEW K \in [Kids -> KidType], NEW S, NEW s \in Terminal
  PROVE  Settle(K, S, s) \in [Kids -> KidType]
  BY DEF Settle, ChildStatuses, KidType

LEMMA AggregateTyped ==
  ASSUME NEW r, NEW K
  PROVE  Aggregate(r, K) \in RunStatuses
  BY DEF Aggregate, RunStatuses, Ongoing

LEMMA FinalTyped ==
  ASSUME NEW r
  PROVE  FinalStatus(r) \in RunStatuses
  BY DEF FinalStatus, RunStatuses

LEMMA OffTyped ==
  ASSUME NEW pc \in CoroutinePCs
  PROVE  /\ [Off EXCEPT !.pc = pc] = [pc |-> pc, kid |-> 0, todo |-> {}, asked |-> NoAsk, run |-> 0]
         /\ [Off EXCEPT !.pc = pc] \in CoType
<1>1. NoAsk \in [{} -> Asks]
  BY DEF NoAsk
<1>2. NoAsk \in AskedType
  BY <1>1 DEF AskedType
<1>3. 0 \in 0..MaxKids /\ 0 \in 0..MaxRuns
  BY MultiAgentAssumption
<1>4. [Off EXCEPT !.pc = pc] = [pc |-> pc, kid |-> 0, todo |-> {}, asked |-> NoAsk, run |-> 0]
  BY DEF Off
<1> QED
  BY <1>2, <1>3, <1>4 DEF CoType

\* Writing a status into a run keeps the runs well typed.
LEMMA RunTyped ==
  ASSUME TypeOK, NEW r, NEW s \in RunStatuses
  PROVE  [run EXCEPT ![r].status = s] \in [Runs -> [status : RunStatuses, plan : BOOLEAN]]
  BY DEF TypeOK

LEMMA SpawnNextTyped ==
  ASSUME TypeOK, NEW p \in Coroutines, NEW todo \in SUBSET Kids, SpawnNext(p, todo)
  PROVE  /\ kid' \in [Kids -> KidType]
         /\ co' \in [Coroutines -> CoType]
         /\ run' \in [Runs -> [status : RunStatuses, plan : BOOLEAN]]
<1>1. ASSUME UNCHANGED run,
             NEW k \in First(todo),
             \/ kid' = [kid EXCEPT ![k] = [@ EXCEPT !.status = "cancelled", !.closed = kid[k].closeReq]]
             \/ kid' = [kid EXCEPT ![k].status = "starting"],
             NEW pc \in CoroutinePCs,
             co' = [co EXCEPT ![p] = [@ EXCEPT !.pc = pc, !.kid = k, !.todo = todo \ {k}]]
      PROVE  /\ kid' \in [Kids -> KidType]
             /\ co' \in [Coroutines -> CoType]
             /\ run' \in [Runs -> [status : RunStatuses, plan : BOOLEAN]]
  <2>1. k \in Kids /\ k \in 0..MaxKids
    BY <1>1, MultiAgentAssumption DEF First, Kids
  <2>2. kid[k] \in KidType /\ co[p] \in CoType
    BY <2>1 DEF TypeOK
  <2>3. /\ [kid[k] EXCEPT !.status = "cancelled", !.closed = kid[k].closeReq] \in KidType
        /\ [kid[k] EXCEPT !.status = "starting"] \in KidType
    BY <2>2, StatusTypes DEF KidType
  <2>4. [co[p] EXCEPT !.pc = pc, !.kid = k, !.todo = todo \ {k}] \in CoType
    BY <2>1, <2>2 DEF CoType
  <2>5. kid' \in [Kids -> KidType]
    BY <1>1, <2>3, KidUpdate
  <2>6. co' \in [Coroutines -> CoType]
    BY <1>1, <2>4, CoUpdate
  <2> QED
    BY <1>1, <2>5, <2>6 DEF TypeOK
<1>2. CASE co' = [co EXCEPT ![p] = [Off EXCEPT !.pc = "done"]] /\ UNCHANGED <<run, kid>>
  BY <1>2, OffTyped DEF TypeOK, CoroutinePCs
<1>3. CASE /\ run' = [run EXCEPT ![active].status = Aggregate(active, kid)]
           /\ co' = [co EXCEPT ![p] = [@ EXCEPT !.pc = "launched", !.kid = 0]]
           /\ UNCHANGED kid
  <2>1. 0 \in 0..MaxKids
    BY MultiAgentAssumption
  <2>2. co' \in [Coroutines -> CoType]
    <3>1. co[p] \in CoType
      BY DEF TypeOK
    <3>2. [co[p] EXCEPT !.pc = "launched", !.kid = 0] \in CoType
      BY <2>1, <3>1 DEF CoType, CoroutinePCs
    <3> QED
      BY <1>3, <3>2, CoUpdate
  <2> QED
    BY <1>3, <2>2, RunTyped, AggregateTyped DEF TypeOK
<1> QED
  BY <1>1, <1>2, <1>3 DEF SpawnNext, CoroutinePCs

LEMMA ConcludeTyped ==
  ASSUME TypeOK, NEW p \in Coroutines, NEW K \in [Kids -> KidType], Conclude(p, K)
  PROVE  /\ kid' \in [Kids -> KidType]
         /\ co' \in [Coroutines -> CoType]
         /\ run' \in [Runs -> [status : RunStatuses, plan : BOOLEAN]]
<1>1. "cancelled" \in Terminal /\ "returning" \in CoroutinePCs
  BY DEF Terminal, CoroutinePCs
<1>2. kid' \in [Kids -> KidType]
  BY <1>1, SettleTyped DEF Conclude
<1>3. co' \in [Coroutines -> CoType]
  BY <1>1, OffTyped DEF Conclude, TypeOK
<1>4. run' \in [Runs -> [status : RunStatuses, plan : BOOLEAN]]
  BY RunTyped, AggregateTyped DEF Conclude
<1> QED
  BY <1>2, <1>3, <1>4

LEMMA AppliedTyped ==
  ASSUME TypeOK, NEW p \in Coroutines, NEW S, NEW late,
         \A k \in S : ReplyStatus(p, k, late) \in ChildStatuses
  PROVE  Applied(p, S, late) \in [Kids -> KidType]
  BY DEF TypeOK, Applied, KidType

LEMMA FieldsTyped ==
  ASSUME TypeOK
  PROVE  /\ \A k \in Kids : kid[k] \in KidType
         /\ \A k \in Kids, s \in ChildStatuses : [kid[k] EXCEPT !.status = s] \in KidType
         /\ \A p \in Coroutines : co[p] \in CoType
         /\ \A p \in Coroutines, pc \in CoroutinePCs : [co[p] EXCEPT !.pc = pc] \in CoType
         /\ \A c \in Clicks : closer[c] \in CloserType
<1>1. \A k \in Kids : kid[k] \in KidType
  BY DEF TypeOK
<1>2. \A p \in Coroutines : co[p] \in CoType
  BY DEF TypeOK
<1>3. \A k \in Kids, s \in ChildStatuses : [kid[k] EXCEPT !.status = s] \in KidType
  BY <1>1 DEF KidType
<1>4. \A p \in Coroutines, pc \in CoroutinePCs : [co[p] EXCEPT !.pc = pc] \in CoType
  BY <1>2 DEF CoType
<1> QED
  BY <1>1, <1>2, <1>3, <1>4 DEF TypeOK

\* What an interrupt writes into the children, first and second time.
LEMMA CutFields ==
  ASSUME TypeOK, NEW S
  PROVE  /\ Cut(S) \in [Kids -> KidType]
         /\ \A k \in Kids :
              /\ Cut(S)[k].run = kid[k].run /\ Cut(S)[k].status = kid[k].status
              /\ Cut(S)[k].sess = kid[k].sess /\ Cut(S)[k].closeReq = kid[k].closeReq
              /\ Cut(S)[k].closed = kid[k].closed
              /\ Cut(S)[k].cut = (k \in S \/ kid[k].cut)
<1>1. ASSUME NEW k \in Kids
      PROVE  /\ Cut(S)[k] \in KidType
             /\ Cut(S)[k].run = kid[k].run /\ Cut(S)[k].status = kid[k].status
             /\ Cut(S)[k].sess = kid[k].sess /\ Cut(S)[k].closeReq = kid[k].closeReq
             /\ Cut(S)[k].closed = kid[k].closed
             /\ Cut(S)[k].cut = (k \in S \/ kid[k].cut)
  <2>1. kid[k] \in KidType
    BY DEF TypeOK
  <2>2. Cut(S)[k] = IF k \in S THEN [kid[k] EXCEPT !.cut = TRUE] ELSE kid[k]
    BY DEF Cut
  <2>3. CASE k \in S
    BY <2>1, <2>2, <2>3 DEF KidType
  <2>4. CASE k \notin S
    BY <2>1, <2>2, <2>4 DEF KidType
  <2> QED BY <2>3, <2>4
<1> QED BY <1>1 DEF Cut

LEMMA InterruptEffect ==
  ASSUME TypeOK, NEW p \in Coroutines, Interrupted(p)
  PROVE  /\ p[1] = "execute" /\ run[p[2]].plan /\ Alive(p)
         /\ co'[p] = [Off EXCEPT !.pc = "done"] /\ co'[p].pc = "done"
         /\ \A q \in Coroutines \ {p} : co'[q] = co[q]
         /\ \A k \in Kids :
              /\ kid'[k].run = kid[k].run /\ kid'[k].status = kid[k].status
              /\ kid'[k].sess = kid[k].sess /\ kid'[k].closeReq = kid[k].closeReq
              /\ kid'[k].closed = kid[k].closed
              /\ kid'[k].cut = (k \in Abandoned(p) \/ kid[k].cut)
         /\ \/ p[2] = active /\ Cancellable /\ Cancelling("task")
            \/ ~(p[2] = active /\ Cancellable) /\ UNCHANGED <<run, flag, canceller>>
         /\ archived \subseteq archived'
         /\ UNCHANGED <<active, closer>>
<1>1. co' = [co EXCEPT ![p] = [Off EXCEPT !.pc = "done"]]
  BY DEF Interrupted
<1>2. [Off EXCEPT !.pc = "done"].pc = "done"
  BY DEF Off
<1>3. kid' = Cut(Abandoned(p))
  BY DEF Interrupted
<1>4. archived \subseteq archived'
  BY DEF Interrupted, CutOff, upstream
<1>5. \A k \in Kids :
        /\ kid'[k].run = kid[k].run /\ kid'[k].status = kid[k].status
        /\ kid'[k].sess = kid[k].sess /\ kid'[k].closeReq = kid[k].closeReq
        /\ kid'[k].closed = kid[k].closed
        /\ kid'[k].cut = (k \in Abandoned(p) \/ kid[k].cut)
  BY <1>3, CutFields
<1>6. co'[p] = [Off EXCEPT !.pc = "done"] /\ \A q \in Coroutines \ {p} : co'[q] = co[q]
  BY <1>1 DEF TypeOK
<1> QED BY <1>2, <1>4, <1>5, <1>6 DEF Interrupted

\* The children the second interrupt takes with it.
Left == IF canceller["task"].pc = "emitting" THEN {} ELSE {k \in KidsOf(active) : IsLive(k)}

LEMMA AgainEffect ==
  ASSUME TypeOK, InterruptedAgain
  PROVE  /\ canceller["task"].pc # "idle"
         /\ canceller' = [canceller EXCEPT !["task"] = IdleCanceller]
         /\ kid' \in [Kids -> KidType]
         /\ \A k \in Kids :
              /\ kid'[k].run = kid[k].run /\ kid'[k].sess = kid[k].sess
              /\ kid'[k].closeReq = kid[k].closeReq /\ kid'[k].closed = kid[k].closed
              /\ k \in Left => kid'[k].status = "cancelled" /\ kid'[k].cut
              /\ k \notin Left => kid'[k].status = kid[k].status /\ kid'[k].cut = kid[k].cut
         /\ \/ canceller["task"].pc = "emitting" /\ run' = run
            \/ canceller["task"].pc # "emitting"
               /\ run' = [run EXCEPT ![active].status = "cancelled"]
         /\ UNCHANGED <<active, flag, co, closer, task, owner, archived>>
<1>1. /\ canceller["task"].pc # "idle" /\ UNCHANGED <<active, flag, co, closer, task, owner, archived>>
      /\ canceller' = [canceller EXCEPT !["task"] = IdleCanceller]
      /\ kid' = Settle(Cut(Left), Left, "cancelled")
  BY DEF InterruptedAgain, Left, upstream
<1>2. \/ canceller["task"].pc = "emitting" /\ run' = run
      \/ canceller["task"].pc # "emitting" /\ run' = [run EXCEPT ![active].status = "cancelled"]
  <2>1. run' = [run EXCEPT ![active].status =
                  IF canceller["task"].pc = "emitting" THEN @ ELSE "cancelled"]
    BY DEF InterruptedAgain
  <2>2. CASE canceller["task"].pc = "emitting"
    BY <2>1, <2>2 DEF TypeOK
  <2>3. CASE canceller["task"].pc # "emitting"
    BY <2>1, <2>3
  <2> QED BY <2>2, <2>3
<1>3. "cancelled" \in Terminal
  BY DEF Terminal
<1>4. kid' \in [Kids -> KidType]
  BY <1>1, <1>3, CutFields, SettleTyped
<1>5. ASSUME NEW k \in Kids
      PROVE  /\ kid'[k].run = kid[k].run /\ kid'[k].sess = kid[k].sess
             /\ kid'[k].closeReq = kid[k].closeReq /\ kid'[k].closed = kid[k].closed
             /\ k \in Left => kid'[k].status = "cancelled" /\ kid'[k].cut
             /\ k \notin Left => kid'[k].status = kid[k].status /\ kid'[k].cut = kid[k].cut
  <2>1. /\ Cut(Left)[k].run = kid[k].run /\ Cut(Left)[k].status = kid[k].status
        /\ Cut(Left)[k].sess = kid[k].sess /\ Cut(Left)[k].closeReq = kid[k].closeReq
        /\ Cut(Left)[k].closed = kid[k].closed
        /\ Cut(Left)[k].cut = (k \in Left \/ kid[k].cut) /\ Cut(Left)[k] \in KidType
    BY CutFields
  <2>2. k \in Left => kid[k].status \notin Terminal
    BY DEF Left, IsLive
  <2>3. kid'[k] = IF k \in Left THEN [Cut(Left)[k] EXCEPT !.status = "cancelled"] ELSE Cut(Left)[k]
    BY <1>1, <2>1, <2>2 DEF Settle
  <2>4. CASE k \in Left
    BY <2>1, <2>3, <2>4 DEF KidType
  <2>5. CASE k \notin Left
    <3>1. kid[k].cut \in BOOLEAN
      BY FieldsTyped DEF KidType
    <3>2. (k \in Left \/ kid[k].cut) = kid[k].cut
      BY <2>5, <3>1
    <3> QED BY <2>1, <2>3, <2>5, <3>2
  <2> QED BY <2>4, <2>5
<1> HIDE DEF Left
<1> QED BY <1>1, <1>2, <1>4, <1>5

-----------------------------------------------------------------------------
(***************************************************************************)
(* The inductive invariant.  A child is shown as succeeded, or has it in   *)
(* the reply the loop is applying or as the status a failed close puts     *)
(* back, only if the ledger says so of a session of its own.               *)
(***************************************************************************)
Won(k) == \E s \in Sessions : owner[s] = k /\ task[s] = "succeeded"

KidHonest(k) ==
  /\ kid[k].status = "succeeded" => Won(k)
  /\ kid[k].sess # 0 => owner[kid[k].sess] = k /\ task[kid[k].sess] # "none"

CoHonest(p) ==
  /\ \A k \in DOMAIN co[p].asked :
       LET ask == co[p].asked[k]
       IN  /\ ask.sess \in Sessions
           /\ owner[ask.sess] = k
           /\ task[ask.sess] # "none"
           /\ ask.status # "none"
           /\ ask.status = "succeeded" => task[ask.sess] = "succeeded"
  /\ co[p].pc \in {"listing", "recovering"} => co[p].todo \subseteq DOMAIN co[p].asked
  /\ co[p].pc \in {"spawning", "archiving"} => co[p].kid \in Kids

CloserHonest(c) ==
  /\ closer[c].prev = "succeeded" => Won(closer[c].kid)
  /\ closer[c].pc # "idle" => closer[c].kid \in Kids

Honest ==
  /\ \A k \in Kids : KidHonest(k)
  /\ \A p \in Coroutines : CoHonest(p)
  /\ \A c \in Clicks : CloserHonest(c)

\* What a step may do to the ledger: add sessions and carry tasks forward.
LedgerKept ==
  \A s \in Sessions : task[s] # "none" =>
    /\ task'[s] # "none"
    /\ owner'[s] = owner[s]
    /\ task[s] = "succeeded" => task'[s] = "succeeded"

LEMMA WonKept ==
  ASSUME LedgerKept, NEW k, Won(k)
  PROVE  Won(k)'
  BY DEF LedgerKept, Won

LEMMA LedgerStep ==
  ASSUME TypeOK, [Next]_vars
  PROVE  LedgerKept
<1>1. ASSUME UNCHANGED <<task, owner>>
      PROVE  LedgerKept
  BY <1>1 DEF LedgerKept
<1>2. CASE UNCHANGED vars
  BY <1>1, <1>2 DEF vars, upstream
<1>3. CASE PlanRun \/ ManualRun
  BY <1>1, <1>3 DEF PlanRun, ManualRun, Execute, upstream
<1>4. CASE AddChild \/ Cancel
  BY <1>1, <1>4 DEF AddChild, Cancel, upstream
<1>5. ASSUME NEW c \in Clicks, NEW k \in Kids, Close(c, k)
      PROVE  LedgerKept
  BY <1>1, <1>5 DEF Close, upstream
<1>6. ASSUME NEW p \in Coroutines, Step(p)
      PROVE  LedgerKept
  <2>1. CASE Accepted(p)
    BY <2>1 DEF Accepted, FreshSessions, LedgerKept, TypeOK
  <2>2. CASE SpawnLost(p)
    BY <2>2 DEF SpawnLost, FreshSessions, LedgerKept, TypeOK
  <2>3. CASE Begin(p) \/ Spawned(p) \/ SpawnRefused(p) \/ SpawnArchived(p) \/ SpawnArchiveFails(p)
    BY <1>1, <2>3 DEF Begin, Spawned, SpawnRefused, SpawnArchived, SpawnArchiveFails, upstream
  <2> QED
    BY <1>6, <2>1, <2>2, <2>3 DEF Step
<1>7. ASSUME NEW p \in Coroutines, Resume(p)
      PROVE  LedgerKept
  BY <1>1, <1>7 DEF Resume, LoopExits, LoopWaits, LoopAsks, ListFails, ListReplies, Expired,
                    ManualReturns, Report, Synthesized, upstream
<1>8. ASSUME NEW c \in Clicks, CloserStep(c)
      PROVE  LedgerKept
  BY <1>1, <1>8 DEF CloserStep, CloseSent, CloseArchived, CloseFails, upstream
<1>9. ASSUME NEW x \in Cancellers, CancellerStep(x)
      PROVE  LedgerKept
  <2>1. CASE CancelTask(x)
    BY <2>1 DEF CancelTask, Unfinished, LedgerKept, TypeOK
  <2> QED
    BY <1>1, <1>9, <2>1 DEF CancellerStep, CancelLists, CancelListed, CancelEnds, upstream
<1>10. ASSUME NEW s \in Sessions, TaskStarts(s) \/ TaskEnds(s)
       PROVE  LedgerKept
  BY <1>10 DEF TaskStarts, TaskEnds, LedgerKept, TypeOK
<1>11. ASSUME NEW p \in Coroutines, Interrupted(p)
       PROVE  LedgerKept
  <2>1. \/ UNCHANGED <<task, owner>>
        \/ \E s \in FreshSessions : \E admitted \in {"running", "queued"} :
             /\ task' = [task EXCEPT ![s] = admitted]
             /\ owner' = [owner EXCEPT ![s] = co[p].kid]
    BY <1>11 DEF Interrupted, CutOff, QueuedTasks, upstream
  <2> QED
    BY <1>1, <2>1 DEF FreshSessions, LedgerKept, TypeOK
<1>12. CASE InterruptedAgain
  BY <1>1, <1>12 DEF InterruptedAgain, upstream
<1> QED
  BY <1>2, <1>3, <1>4, <1>5, <1>6, <1>7, <1>8, <1>9, <1>10, <1>11, <1>12 DEF Next

-----------------------------------------------------------------------------
\* Types, one lemma per group of coroutines.
KidsTyped == kid \in [Kids -> KidType]
CoTyped == co \in [Coroutines -> CoType]
RunsTyped == run \in [Runs -> [status : RunStatuses, plan : BOOLEAN]]

LEMMA NewKidTyped ==
  ASSUME NEW r \in 1..MaxRuns
  PROVE  /\ [NoKid EXCEPT !.run = r] \in KidType
         /\ [NoKid EXCEPT !.run = r].status = "queued"
         /\ [NoKid EXCEPT !.run = r].sess = 0
<1>1. /\ 0 \in 0..MaxRuns /\ r \in 0..MaxRuns
      /\ 0 \in 0..MaxSessions /\ "queued" \in ChildStatuses
  BY MultiAgentAssumption DEF ChildStatuses
<1>2. NoKid \in KidType /\ NoKid.status = "queued" /\ NoKid.sess = 0
  BY <1>1 DEF KidType, NoKid
<1> QED
  BY <1>1, <1>2 DEF KidType

LEMMA StartTyped ==
  ASSUME TypeOK, PlanRun \/ ManualRun \/ AddChild
  PROVE  TypeOK'
<1>1. \A r \in 1..MaxRuns : [NoKid EXCEPT !.run = r] \in KidType
  BY NewKidTyped
<1>2. ASSUME NEW n, NEW plan \in BOOLEAN, Execute(n, plan)
      PROVE  TypeOK'
  <2>1. active + 1 \in 1..MaxRuns
    BY <1>2, MultiAgentAssumption DEF Execute, TypeOK
  <2>2. active' \in 0..MaxRuns
    BY <1>2, <2>1 DEF Execute
  <2>3. RunsTyped'
    BY <1>2 DEF Execute, TypeOK, RunsTyped, RunStatuses, Ongoing
  <2>4. KidsTyped'
    BY <1>2, <1>1, <2>1 DEF Execute, TypeOK, KidsTyped
  <2>5. CoTyped'
    <3>1. <<"execute", active + 1>> \in Coroutines => co[<<"execute", active + 1>>] \in CoType
      BY DEF TypeOK
    <3> DEFINE p == <<"execute", active + 1>>
    <3>2. p \in Coroutines => [co[p] EXCEPT !.pc = "created"] \in CoType
      BY FieldsTyped DEF CoroutinePCs
    <3>3. co' = [co EXCEPT ![p] = [co[p] EXCEPT !.pc = "created"]]
      BY <1>2 DEF Execute
    <3> HIDE DEF p
    <3> QED
      BY <3>2, <3>3, CoUpdate DEF CoTyped
  <2> QED
    BY <1>2, <2>2, <2>3, <2>4, <2>5 DEF Execute, TypeOK, RunsTyped, KidsTyped, CoTyped, upstream
<1>3. CASE AddChild
  <2>1. PICK k \in NewKids(1) :
          /\ kid' = [kid EXCEPT ![k] = [NoKid EXCEPT !.run = active]]
          /\ co' = [co EXCEPT ![<<"add", k>>] = [Off EXCEPT !.pc = "created", !.todo = {k}]]
    BY <1>3 DEF AddChild
  <2>2. k \in Kids /\ active \in 1..MaxRuns
    <3>1. k \in Kids
      BY DEF NewKids
    <3>2. active \in 0..MaxRuns /\ active # 0
      BY <1>3 DEF AddChild, TypeOK
    <3> QED
      BY <3>1, <3>2, MultiAgentAssumption
  <2>3. KidsTyped'
    BY <1>1, <2>1, <2>2, KidUpdate DEF KidsTyped
  <2>4. CoTyped'
    <3> DEFINE p == <<"add", k>>
               new == [Off EXCEPT !.pc = "created", !.todo = {k}]
    <3>1. [Off EXCEPT !.pc = "created"] \in CoType
      BY OffTyped DEF CoroutinePCs
    <3>2. new = [[Off EXCEPT !.pc = "created"] EXCEPT !.todo = {k}]
      OBVIOUS
    <3>3. new \in CoType
      BY <2>2, <3>1, <3>2 DEF CoType
    <3>4. co' = [co EXCEPT ![p] = new]
      BY <2>1
    <3> HIDE DEF p, new
    <3> QED
      BY <3>3, <3>4, CoUpdate DEF CoTyped
  <2> QED
    BY <1>3, <2>3, <2>4 DEF AddChild, TypeOK, KidsTyped, CoTyped, upstream
<1> QED
  BY <1>2, <1>3 DEF PlanRun, ManualRun

LEMMA RaisesTyped ==
  ASSUME TypeOK, NEW k \in Kids, ArchiveRaises(kid[k].sess)
  PROVE  archived' \subseteq Sessions
<1>1. kid[k].sess \in 0..MaxSessions
  BY FieldsTyped DEF KidType
<1>2. kid[k].sess # 0 => kid[k].sess \in Sessions
  BY <1>1, MultiAgentAssumption DEF Sessions
<1> QED
  BY <1>2 DEF ArchiveRaises, TypeOK

LEMMA SpawnTyped ==
  ASSUME TypeOK, Honest, NEW p \in Coroutines, Step(p)
  PROVE  TypeOK'
<1>1. /\ "spawned" \in CoroutinePCs /\ "archiving" \in CoroutinePCs
      /\ {"failed", "cancelled", "cancelling", "running"} \subseteq ChildStatuses
  BY DEF CoroutinePCs, ChildStatuses, Terminal
<1>2. KidsOf(active) \in SUBSET Kids /\ co[p].todo \in SUBSET Kids
  BY FieldsTyped DEF KidsOf, CoType
<1>3. CASE Begin(p) \/ Spawned(p)
  <2>1. PICK todo \in SUBSET Kids : SpawnNext(p, todo)
    BY <1>2, <1>3 DEF Begin, Spawned
  <2>2. KidsTyped' /\ CoTyped' /\ RunsTyped'
    BY <2>1, SpawnNextTyped DEF KidsTyped, CoTyped, RunsTyped
  <2> QED
    BY <1>3, <2>2 DEF Begin, Spawned, TypeOK, KidsTyped, CoTyped, RunsTyped, upstream
<1>4. CASE Accepted(p)
  <2> DEFINE k == co[p].kid
  <2>1. PICK s \in FreshSessions, admitted \in {"running", "queued"} :
          /\ task' = [task EXCEPT ![s] = admitted]
          /\ owner' = [owner EXCEPT ![s] = k]
          /\ kid' = [kid EXCEPT ![k] = [@ EXCEPT
                      !.sess = s,
                      !.status = IF Refused(k) THEN "cancelling" ELSE "running"]]
          /\ co' = [co EXCEPT ![p].pc = IF Refused(k) THEN "archiving" ELSE "spawned"]
    BY <1>4 DEF Accepted, QueuedTasks
  <2>2. s \in Sessions /\ s \in 0..MaxSessions
    BY MultiAgentAssumption DEF FreshSessions, Sessions
  <2>3. k \in 0..MaxKids
    BY FieldsTyped DEF CoType
  <2>4. KidsTyped'
    <3>1. \A st \in ChildStatuses : k \in Kids =>
            [kid[k] EXCEPT !.sess = s, !.status = st] \in KidType
      <4>1. k \in Kids => kid[k] \in KidType
        BY FieldsTyped
      <4> HIDE DEF k
      <4> QED BY <2>2, <4>1 DEF KidType
    <3>2. PICK st \in ChildStatuses : st = IF Refused(k) THEN "cancelling" ELSE "running"
      BY <1>1
    <3>3. kid' = [kid EXCEPT ![k] = [kid[k] EXCEPT !.sess = s, !.status = st]]
      BY <2>1, <3>2
    <3> HIDE DEF k
    <3> QED
      BY <3>1, <3>3, KidUpdate DEF KidsTyped
  <2>5. CoTyped'
    <3>1. PICK pc \in CoroutinePCs : pc = IF Refused(k) THEN "archiving" ELSE "spawned"
      BY <1>1
    <3>2. co' = [co EXCEPT ![p] = [co[p] EXCEPT !.pc = pc]]
      BY <2>1, <3>1
    <3> QED
      BY <3>2, FieldsTyped, CoUpdate DEF CoTyped
  <2>6. task' \in [Sessions -> TaskStatuses] /\ owner' \in [Sessions -> 0..MaxKids]
    BY <2>1, <2>2, <2>3 DEF TypeOK, TaskStatuses
  <2> QED
    BY <1>4, <2>4, <2>5, <2>6 DEF Accepted, TypeOK, KidsTyped, CoTyped
<1>5. CASE SpawnRefused(p)
  <2>1. KidsTyped'
    <3> DEFINE k == co[p].kid
               new == [kid[k] EXCEPT !.status = "failed", !.sess = 0]
    <3>1. 0 \in 0..MaxSessions
      BY MultiAgentAssumption
    <3>2. k \in Kids => new \in KidType
      <4>1. k \in Kids => kid[k] \in KidType
        BY FieldsTyped
      <4> HIDE DEF k
      <4> QED BY <1>1, <3>1, <4>1 DEF KidType
    <3>3. kid' = [kid EXCEPT ![k] = new]
      BY <1>5 DEF SpawnRefused
    <3> HIDE DEF k, new
    <3> QED
      BY <3>2, <3>3, KidUpdate DEF KidsTyped
  <2>2. CoTyped'
    BY <1>1, <1>5, FieldsTyped, CoUpdate DEF SpawnRefused, CoTyped
  <2> QED
    BY <1>5, <2>1, <2>2 DEF SpawnRefused, TypeOK, KidsTyped, CoTyped, upstream
<1>6. CASE SpawnLost(p)
  <2>1. KidsTyped'
    BY <1>1, <1>6, FieldsTyped, KidUpdate DEF SpawnLost, KidsTyped
  <2>2. CoTyped'
    BY <1>1, <1>6, FieldsTyped, CoUpdate DEF SpawnLost, CoTyped
  <2>3. co[p].kid \in 0..MaxKids
    BY FieldsTyped DEF CoType
  <2>4. task' \in [Sessions -> TaskStatuses] /\ owner' \in [Sessions -> 0..MaxKids]
    BY <1>6, <2>3 DEF SpawnLost, FreshSessions, TypeOK, TaskStatuses
  <2> QED
    BY <1>6, <2>1, <2>2, <2>4 DEF SpawnLost, TypeOK, KidsTyped, CoTyped
<1>7. CASE SpawnArchived(p)
  <2> DEFINE k == co[p].kid
             new == [kid[k] EXCEPT !.status = "cancelled", !.closed = TRUE]
  <2>1. KidsTyped'
    <3>1. k \in Kids => new \in KidType
      <4>1. k \in Kids => kid[k] \in KidType
        BY FieldsTyped
      <4> HIDE DEF k
      <4> QED BY <1>1, <4>1 DEF KidType
    <3>2. kid' = [kid EXCEPT ![k] = new]
      BY <1>7 DEF SpawnArchived
    <3> HIDE DEF k, new
    <3> QED
      BY <3>1, <3>2, KidUpdate DEF KidsTyped
  <2>2. CoTyped'
    BY <1>1, <1>7, FieldsTyped, CoUpdate DEF SpawnArchived, CoTyped
  <2>3. archived' \subseteq Sessions
    <3>1. k \in Kids /\ kid[k].sess \in 0..MaxSessions /\ kid[k].sess # 0
      BY <1>7, FieldsTyped DEF SpawnArchived, Honest, CoHonest, KidType
    <3>2. kid[k].sess \in Sessions
      BY <3>1, MultiAgentAssumption DEF Sessions
    <3> QED
      BY <1>7, <3>2 DEF SpawnArchived, TypeOK
  <2> QED
    BY <1>7, <2>1, <2>2, <2>3 DEF SpawnArchived, TypeOK, KidsTyped, CoTyped
<1>8. CASE SpawnArchiveFails(p)
  <2>1. KidsTyped'
    BY <1>1, <1>8, FieldsTyped, KidUpdate DEF SpawnArchiveFails, KidsTyped
  <2>2. CoTyped'
    BY <1>1, <1>8, FieldsTyped, CoUpdate DEF SpawnArchiveFails, CoTyped
  <2>3. archived' \subseteq Sessions
    <3>1. co[p].kid \in Kids
      BY <1>8 DEF SpawnArchiveFails, Honest, CoHonest
    <3> QED
      BY <1>8, <3>1, RaisesTyped DEF SpawnArchiveFails
  <2> QED
    BY <1>8, <2>1, <2>2, <2>3 DEF SpawnArchiveFails, TypeOK, KidsTyped, CoTyped
<1> QED
  BY <1>3, <1>4, <1>5, <1>6, <1>7, <1>8 DEF Step

LEMMA ResumeTyped ==
  ASSUME TypeOK, Honest, NEW p \in Coroutines, Resume(p)
  PROVE  TypeOK'
<1>1. /\ {"sleeping", "listing", "recovering", "expired", "done", "reporting", "synthesis",
          "returning"} \subseteq CoroutinePCs
      /\ {"failed", "timed_out"} \subseteq Terminal
      /\ {"failed", "cancelled", "synthesizing", "succeeded", "partial"} \subseteq RunStatuses
  BY DEF CoroutinePCs, Terminal, RunStatuses, Ongoing
<1>2. ASSUME NEW K \in [Kids -> KidType], Conclude(p, K),
             UNCHANGED <<active, flag, closer, canceller, upstream>>
      PROVE  TypeOK'
  <2>1. KidsTyped' /\ CoTyped' /\ RunsTyped'
    BY <1>2, ConcludeTyped DEF KidsTyped, CoTyped, RunsTyped
  <2> QED
    BY <1>2, <2>1 DEF TypeOK, KidsTyped, CoTyped, RunsTyped, upstream
<1>3. CASE LoopExits(p) \/ Expired(p) \/ ListFails(p)
  <2>1. kid \in [Kids -> KidType] /\ Settle(kid, co[p].todo, "failed") \in [Kids -> KidType]
    BY <1>1, SettleTyped DEF TypeOK
  <2> QED
    BY <1>2, <1>3, <2>1 DEF LoopExits, Expired, ListFails
<1>4. ASSUME CoTyped', UNCHANGED <<active, run, kid, flag, closer, canceller, upstream>>
      PROVE  TypeOK'
  BY <1>4 DEF TypeOK, CoTyped, upstream
<1>5. CASE LoopWaits(p)
  <2>1. CoTyped'
    BY <1>1, <1>5, FieldsTyped, CoUpdate DEF LoopWaits, CoTyped
  <2> QED
    BY <1>4, <1>5, <2>1 DEF LoopWaits
<1>6. CASE LoopAsks(p)
  <2> DEFINE asked == [k \in Pending |-> [sess |-> kid[k].sess, status |-> task[kid[k].sess]]]
             new == [co[p] EXCEPT !.pc = "listing", !.todo = Pending, !.asked = asked]
  <2>1. Pending \subseteq Kids
    BY DEF Pending, KidsOf
  <2>2. \A k \in Pending : kid[k].sess \in 0..MaxSessions /\ kid[k].sess \in Sessions
    <3> TAKE k \in Pending
    <3>1. kid[k].sess \in 0..MaxSessions /\ kid[k].sess # 0
      BY <2>1, FieldsTyped DEF Pending, KidType
    <3> QED
      BY <3>1, MultiAgentAssumption DEF Sessions
  <2>3. asked \in [Pending -> Asks]
    BY <2>2 DEF Asks, TypeOK
  <2>4. asked \in AskedType
    BY <2>1, <2>3 DEF AskedType
  <2>5. co' = [co EXCEPT ![p] = new]
    BY <1>6 DEF LoopAsks
  <2> HIDE DEF asked
  <2>6. new \in CoType
    BY <1>1, <2>1, <2>4, FieldsTyped DEF CoType
  <2> HIDE DEF new
  <2>7. CoTyped'
    BY <2>5, <2>6, CoUpdate DEF CoTyped
  <2> QED
    BY <1>4, <1>6, <2>7 DEF LoopAsks
<1>7. CASE ListReplies(p)
  <2>1. co[p].pc \in {"listing", "recovering"} /\ co[p].todo \subseteq Kids
    BY <1>7, FieldsTyped DEF ListReplies, CoType
  <2>2. \A k \in co[p].todo, late \in BOOLEAN : ReplyStatus(p, k, late) \in ChildStatuses
    <3> TAKE k \in co[p].todo, late \in BOOLEAN
    <3>1. /\ k \in DOMAIN co[p].asked
          /\ co[p].asked[k].sess \in Sessions
          /\ task[co[p].asked[k].sess] # "none"
          /\ co[p].asked[k].status # "none"
      BY <2>1 DEF Honest, CoHonest
    <3>2. co[p].asked[k] \in Asks
      BY <3>1, FieldsTyped DEF CoType, AskedType
    <3>3. TaskStatuses \ {"none"} \subseteq ChildStatuses
      BY DEF TaskStatuses, ChildStatuses, Terminal
    <3>4. task[co[p].asked[k].sess] \in TaskStatuses /\ co[p].asked[k].status \in TaskStatuses
      BY <3>1, <3>2 DEF TypeOK, Asks
    <3> QED
      BY <3>1, <3>3, <3>4 DEF ReplyStatus
  <2>3. \A late \in BOOLEAN : \A S \in SUBSET co[p].todo :
          Applied(p, S, late) \in [Kids -> KidType]
    BY <2>2, AppliedTyped
  <2>4. KidsTyped' /\ CoTyped'
    <3>1. PICK late \in BOOLEAN :
       \/ \E k \in {j \in co[p].todo : ~kid[j].closeReq /\ ReplyStatus(p, j, late) = "succeeded"} :
            /\ kid' = Applied(p, {j \in co[p].todo : j <= k}, late)
            /\ co' = [co EXCEPT ![p] = [@ EXCEPT !.pc = "recovering", !.todo = {j \in co[p].todo : j > k}]]
       \/ /\ kid' = Applied(p, co[p].todo, late)
          /\ co' = [co EXCEPT ![p] = [Off EXCEPT !.pc = "sleeping"]]
       \/ /\ "timeout" \in Env
          /\ kid' = Settle(Applied(p, co[p].todo, late), DOMAIN co[p].asked, "timed_out")
          /\ co' = [co EXCEPT ![p] = [Off EXCEPT !.pc = "expired"]]
      BY <1>7 DEF ListReplies
    <3>2. ASSUME NEW k \in co[p].todo,
                 kid' = Applied(p, {j \in co[p].todo : j <= k}, late),
                 co' = [co EXCEPT ![p] = [@ EXCEPT !.pc = "recovering", !.todo = {j \in co[p].todo : j > k}]]
          PROVE  KidsTyped' /\ CoTyped'
      <4> DEFINE rest == {j \in co[p].todo : j > k}
                 new == [co[p] EXCEPT !.pc = "recovering", !.todo = rest]
      <4>1. rest \in SUBSET Kids
        BY <2>1
      <4>2. co' = [co EXCEPT ![p] = new]
        BY <3>2
      <4>3. {j \in co[p].todo : j <= k} \in SUBSET co[p].todo
        OBVIOUS
      <4> HIDE DEF rest
      <4>4. new \in CoType
        BY <1>1, <4>1, FieldsTyped DEF CoType
      <4> HIDE DEF new
      <4> QED
        BY <2>3, <3>2, <4>2, <4>3, <4>4, CoUpdate DEF KidsTyped, CoTyped
    <3>3. ASSUME kid' = Applied(p, co[p].todo, late),
                 co' = [co EXCEPT ![p] = [Off EXCEPT !.pc = "sleeping"]]
          PROVE  KidsTyped' /\ CoTyped'
      BY <1>1, <2>3, <3>3, OffTyped, CoUpdate DEF KidsTyped, CoTyped
    <3>4. ASSUME kid' = Settle(Applied(p, co[p].todo, late), DOMAIN co[p].asked, "timed_out"),
                 co' = [co EXCEPT ![p] = [Off EXCEPT !.pc = "expired"]]
          PROVE  KidsTyped' /\ CoTyped'
      <4>1. KidsTyped'
        BY <1>1, <2>3, <3>4, SettleTyped DEF KidsTyped
      <4>2. CoTyped'
        BY <1>1, <3>4, OffTyped, CoUpdate DEF CoTyped
      <4> QED
        BY <4>1, <4>2
    <3> QED
      BY <3>1, <3>2, <3>3, <3>4
  <2> QED
    BY <1>7, <2>4 DEF ListReplies, TypeOK, KidsTyped, CoTyped, upstream
<1>8. ASSUME CoTyped', RunsTyped', UNCHANGED <<active, kid, flag, closer, canceller, upstream>>
      PROVE  TypeOK'
  BY <1>8 DEF TypeOK, CoTyped, RunsTyped, upstream
<1>9. CASE ManualReturns(p)
  <2>1. CoTyped' /\ RunsTyped'
    BY <1>1, <1>9, OffTyped, CoUpdate, RunTyped, FinalTyped DEF ManualReturns, CoTyped, RunsTyped
  <2> QED
    BY <1>8, <1>9, <2>1 DEF ManualReturns
<1>10. CASE Synthesized(p)
  <2>1. CoTyped'
    BY <1>1, <1>10, OffTyped, CoUpdate DEF Synthesized, CoTyped
  <2>2. PICK final \in RunStatuses : run' = [run EXCEPT ![active].status = final]
    BY <1>1, <1>10 DEF Synthesized
  <2>3. RunsTyped'
    BY <2>2, RunTyped DEF RunsTyped
  <2> QED
    BY <1>8, <1>10, <2>1, <2>3 DEF Synthesized
<1>11. CASE Report(p)
  <2> DEFINE r == IF co[p].pc = "reporting" THEN co[p].run ELSE active
             won == {k \in KidsOf(r) : k > co[p].kid /\ kid[k].status = "succeeded"}
  <2>1. \/ /\ \E k \in First(won) :
                co' = [co EXCEPT ![p] = [@ EXCEPT !.pc = "reporting", !.run = r, !.kid = k,
                                                  !.todo = co[p].todo \union {k}]]
           /\ UNCHANGED run
        \/ /\ run' = [run EXCEPT ![active].status =
                        IF run[r].status = "cancelled" THEN "cancelled" ELSE "failed"]
           /\ co' = [co EXCEPT ![p] = [Off EXCEPT !.pc = "done"]]
        \/ /\ run' = [run EXCEPT ![active].status = "synthesizing"]
           /\ co' = [co EXCEPT ![p].pc = "synthesis"]
    BY <1>11 DEF Report
  <2>2. won \subseteq Kids /\ r \in 0..MaxRuns
    BY FieldsTyped DEF KidsOf, CoType, TypeOK
  <2> HIDE DEF r, won
  <2>3. ASSUME NEW k \in First(won),
               co' = [co EXCEPT ![p] = [@ EXCEPT !.pc = "reporting", !.run = r, !.kid = k,
                                                 !.todo = co[p].todo \union {k}]]
        PROVE  CoTyped'
    <3>1. k \in Kids /\ k \in 0..MaxKids
      BY <2>2, MultiAgentAssumption DEF First, Kids
    <3> DEFINE new == [co[p] EXCEPT !.pc = "reporting", !.run = r, !.kid = k,
                                    !.todo = co[p].todo \union {k}]
    <3>2. co[p].todo \union {k} \in SUBSET Kids
      BY <3>1, FieldsTyped DEF CoType
    <3>3. new \in CoType
      BY <1>1, <2>2, <3>1, <3>2, FieldsTyped DEF CoType
    <3>4. co' = [co EXCEPT ![p] = new]
      BY <2>3
    <3> HIDE DEF new
    <3> QED
      BY <3>3, <3>4, CoUpdate DEF CoTyped
  <2>4. ASSUME co' = [co EXCEPT ![p] = [Off EXCEPT !.pc = "done"]]
        PROVE  CoTyped'
    BY <1>1, <2>4, OffTyped, CoUpdate DEF CoTyped
  <2>5. ASSUME co' = [co EXCEPT ![p].pc = "synthesis"]
        PROVE  CoTyped'
    BY <1>1, <2>5, FieldsTyped, CoUpdate DEF CoTyped
  <2>6. CoTyped'
    BY <2>1, <2>3, <2>4, <2>5
  <2>7. RunsTyped'
    <3>1. UNCHANGED run \/ \E s \in RunStatuses : run' = [run EXCEPT ![active].status = s]
      BY <1>1, <2>1
    <3> QED
      BY <3>1, RunTyped DEF RunsTyped, TypeOK
  <2> QED
    BY <1>8, <1>11, <2>6, <2>7 DEF Report
<1> QED
  BY <1>3, <1>5, <1>6, <1>7, <1>9, <1>10, <1>11 DEF Resume

LEMMA CommandTyped ==
  ASSUME TypeOK, Honest,
         \/ Cancel
         \/ \E x \in Cancellers : CancellerStep(x)
         \/ \E c \in Clicks : \E k \in Kids : Close(c, k)
         \/ \E c \in Clicks : CloserStep(c)
         \/ \E s \in Sessions : TaskStarts(s) \/ TaskEnds(s)
  PROVE  TypeOK'
<1>1. /\ IdleCloser \in CloserType /\ IdleCanceller \in CancellerType
      /\ {"cancelling", "cancelled", "queued"} \subseteq ChildStatuses
      /\ {"cancelling", "cancelled"} \subseteq RunStatuses
      /\ "cancelled" \in Terminal
  BY MultiAgentAssumption DEF IdleCloser, IdleCanceller, CloserType, CancellerType,
                              ChildStatuses, Terminal, RunStatuses, Ongoing
<1>0. \A x \in Cancellers : canceller[x] \in CancellerType
  BY DEF TypeOK
<1>2. CASE Cancel
  <2>1. RunsTyped'
    BY <1>1, <1>2, RunTyped DEF Cancel, Cancelling, RunsTyped
  <2>2. canceller' \in [Cancellers -> CancellerType]
    <3>1. [canceller["owner"] EXCEPT !.pc = "emitting"] \in CancellerType
      BY <1>0 DEF CancellerType, Cancellers
    <3> QED
      BY <1>2, <3>1 DEF Cancel, Cancelling, TypeOK
  <2> QED
    BY <1>2, <2>1, <2>2 DEF Cancel, Cancelling, TypeOK, RunsTyped, upstream
<1>3. ASSUME NEW x \in Cancellers, CancelLists(x)
      PROVE  TypeOK'
  <2>1. {kid[k].sess : k \in KidsOf(active)} \ {0} \subseteq Sessions
    BY FieldsTyped, MultiAgentAssumption DEF KidsOf, KidType, Sessions
  <2>2. canceller' \in [Cancellers -> CancellerType]
    BY <1>3, <2>1 DEF CancelLists, CancellerType, TypeOK
  <2> QED
    BY <1>3, <2>2 DEF CancelLists, TypeOK, upstream
<1>4. ASSUME NEW x \in Cancellers, CancelListed(x)
      PROVE  TypeOK'
  <2>1. {s \in canceller[x].todo : task[s] \in Unfinished} \subseteq Sessions
    BY <1>0 DEF CancellerType
  <2>2. canceller' \in [Cancellers -> CancellerType]
    BY <1>4, <2>1 DEF CancelListed, CancellerType, TypeOK
  <2> QED
    BY <1>4, <2>2 DEF CancelListed, TypeOK, upstream
<1>5. ASSUME NEW x \in Cancellers, CancelTask(x)
      PROVE  TypeOK'
  <2>1. canceller' \in [Cancellers -> CancellerType]
    <3>1. PICK s : canceller' = [canceller EXCEPT ![x].todo = canceller[x].todo \ {s}]
      BY <1>5 DEF CancelTask
    <3>2. [canceller[x] EXCEPT !.todo = canceller[x].todo \ {s}] \in CancellerType
      BY <1>0 DEF CancellerType
    <3> QED
      BY <3>1, <3>2 DEF TypeOK
  <2>2. task' \in [Sessions -> TaskStatuses]
    BY <1>5 DEF CancelTask, TypeOK, TaskStatuses
  <2> QED
    BY <1>5, <2>1, <2>2 DEF CancelTask, TypeOK
<1>6. ASSUME NEW x \in Cancellers, CancelEnds(x)
      PROVE  TypeOK'
  <2>1. KidsTyped'
    BY <1>1, <1>6, SettleTyped DEF CancelEnds, KidsTyped, TypeOK
  <2>2. RunsTyped'
    BY <1>1, <1>6, RunTyped DEF CancelEnds, RunsTyped
  <2>3. canceller' \in [Cancellers -> CancellerType]
    BY <1>1, <1>6 DEF CancelEnds, TypeOK
  <2> QED
    BY <1>6, <2>1, <2>2, <2>3 DEF CancelEnds, TypeOK, KidsTyped, RunsTyped, upstream
<1>7. ASSUME NEW c \in Clicks, NEW k \in Kids, Close(c, k)
      PROVE  TypeOK'
  <2>1. PICK st \in ChildStatuses : st = IF IsLive(k) THEN "cancelling" ELSE kid[k].status
    BY <1>1, FieldsTyped DEF KidType
  <2> DEFINE new == [kid[k] EXCEPT !.closeReq = TRUE, !.status = st]
  <2>2. new \in KidType
    BY FieldsTyped DEF KidType
  <2>3. kid' = [kid EXCEPT ![k] = new]
    BY <1>7, <2>1 DEF Close
  <2>4. [pc |-> "emitting", kid |-> k, prev |-> kid[k].status] \in CloserType
    BY FieldsTyped, MultiAgentAssumption DEF CloserType, KidType, Kids
  <2>5. closer' \in [Clicks -> CloserType]
    BY <1>7, <2>4 DEF Close, TypeOK
  <2> HIDE DEF new
  <2>6. KidsTyped'
    BY <2>2, <2>3, KidUpdate DEF KidsTyped
  <2> QED
    BY <1>7, <2>5, <2>6 DEF Close, TypeOK, KidsTyped, upstream
<1>8. ASSUME NEW c \in Clicks, CloseSent(c)
      PROVE  TypeOK'
  <2>1. [closer[c] EXCEPT !.pc = "archiving"] \in CloserType
    BY FieldsTyped DEF CloserType
  <2>2. closer' \in [Clicks -> CloserType]
    BY <1>1, <1>8, <2>1 DEF CloseSent, TypeOK
  <2> QED
    BY <1>8, <2>2 DEF CloseSent, TypeOK, upstream
<1>9. ASSUME NEW c \in Clicks, CloseArchived(c) \/ CloseFails(c)
      PROVE  TypeOK'
  <2> DEFINE k == closer[c].kid
  <2>1. k \in Kids
    BY <1>9 DEF CloseArchived, CloseFails, Honest, CloserHonest
  <2>2. closer' \in [Clicks -> CloserType]
    BY <1>1, <1>9 DEF CloseArchived, CloseFails, TypeOK
  <2>3. CASE CloseArchived(c)
    <3>1. PICK st \in ChildStatuses :
            st = IF closer[c].prev \in Terminal THEN kid[k].status ELSE "cancelled"
      BY <1>1, <2>1, FieldsTyped DEF KidType
    <3> DEFINE new == [kid[k] EXCEPT !.closed = TRUE, !.status = st]
    <3>2. new \in KidType
      <4>1. kid[k] \in KidType
        BY <2>1, FieldsTyped
      <4> HIDE DEF k
      <4> QED BY <4>1 DEF KidType
    <3>3. kid' = [kid EXCEPT ![k] = new]
      BY <2>3, <3>1 DEF CloseArchived
    <3>4. archived' \subseteq Sessions
      <4>1. kid[k].sess \in 0..MaxSessions /\ kid[k].sess # 0
        BY <2>1, <2>3, FieldsTyped DEF CloseArchived, KidType
      <4>2. kid[k].sess \in Sessions
        BY <4>1, MultiAgentAssumption DEF Sessions
      <4> QED
        BY <2>3, <4>2 DEF CloseArchived, TypeOK
    <3> HIDE DEF k, new
    <3>5. KidsTyped'
      BY <3>2, <3>3, KidUpdate DEF KidsTyped
    <3> QED
      BY <2>2, <2>3, <3>4, <3>5 DEF CloseArchived, TypeOK, KidsTyped
  <2>4. CASE CloseFails(c)
    <3>0. PICK st \in ChildStatuses : st = closer[c].prev
      BY FieldsTyped DEF CloserType
    <3> DEFINE new == [kid[k] EXCEPT !.closeReq = FALSE, !.status = st]
    <3>1. new \in KidType
      <4>1. kid[k] \in KidType
        BY <2>1, FieldsTyped
      <4> HIDE DEF k
      <4> QED BY <4>1 DEF KidType
    <3>2. kid' = [kid EXCEPT ![k] = new]
      BY <2>4, <3>0 DEF CloseFails
    <3>3. ArchiveRaises(kid[k].sess)
      BY <2>4 DEF CloseFails
    <3>4. archived' \subseteq Sessions
      BY <2>1, <3>3, RaisesTyped
    <3> HIDE DEF k, new
    <3>5. KidsTyped'
      BY <3>1, <3>2, KidUpdate DEF KidsTyped
    <3> QED
      BY <2>2, <2>4, <3>4, <3>5 DEF CloseFails, TypeOK, KidsTyped
  <2> QED
    BY <1>9, <2>3, <2>4
<1>10. ASSUME NEW s \in Sessions, TaskStarts(s) \/ TaskEnds(s)
       PROVE  TypeOK'
  <2>1. task' \in [Sessions -> TaskStatuses]
    BY <1>10 DEF TaskStarts, TaskEnds, TypeOK, TaskStatuses
  <2> QED
    BY <1>10, <2>1 DEF TaskStarts, TaskEnds, TypeOK
<1> QED
  BY <1>2, <1>3, <1>4, <1>5, <1>6, <1>7, <1>8, <1>9, <1>10 DEF CancellerStep, CloserStep

\* An interrupt of the plan's task.
LEMMA InterruptTyped ==
  ASSUME TypeOK, Honest, InterruptedAgain \/ \E p \in Coroutines : Interrupted(p)
  PROVE  TypeOK'
<1>1. /\ {"cancelling", "cancelled"} \subseteq RunStatuses /\ "done" \in CoroutinePCs
      /\ IdleCanceller \in CancellerType
      /\ \A x \in Cancellers : [canceller[x] EXCEPT !.pc = "emitting"] \in CancellerType
  <2>1. \A x \in Cancellers : canceller[x] \in CancellerType
    BY DEF TypeOK
  <2> QED
    BY <2>1 DEF RunStatuses, Ongoing, CoroutinePCs, IdleCanceller, CancellerType
<1>2. CASE InterruptedAgain
  <2>1. RunsTyped'
    BY <1>1, <1>2, AgainEffect, RunTyped DEF RunsTyped, TypeOK
  <2>2. canceller' \in [Cancellers -> CancellerType]
    BY <1>1, <1>2, AgainEffect DEF TypeOK
  <2> QED
    BY <1>2, <2>1, <2>2, AgainEffect DEF TypeOK, RunsTyped
<1>3. ASSUME NEW p \in Coroutines, Interrupted(p)
      PROVE  TypeOK'
  <2>1. KidsTyped'
    BY <1>3, CutFields DEF Interrupted, KidsTyped
  <2>2. CoTyped'
    BY <1>1, <1>3, OffTyped, CoUpdate DEF Interrupted, CoTyped
  <2>3. RunsTyped' /\ flag' \in BOOLEAN /\ canceller' \in [Cancellers -> CancellerType]
    <3>1. CASE UNCHANGED <<run, flag, canceller>>
      BY <3>1 DEF TypeOK, RunsTyped
    <3>2. CASE Cancelling("task")
      BY <1>1, <3>2, RunTyped DEF Cancelling, RunsTyped, TypeOK, Cancellers
    <3> QED
      BY <1>3, <3>1, <3>2 DEF Interrupted
  <2>4. task' \in [Sessions -> TaskStatuses] /\ owner' \in [Sessions -> 0..MaxKids]
    <3>1. \/ UNCHANGED <<task, owner>>
          \/ \E s \in Sessions : \E admitted \in {"running", "queued"} :
               /\ task' = [task EXCEPT ![s] = admitted]
               /\ owner' = [owner EXCEPT ![s] = co[p].kid]
      BY <1>3 DEF Interrupted, CutOff, FreshSessions, QueuedTasks, upstream
    <3>2. co[p].kid \in 0..MaxKids
      BY FieldsTyped DEF CoType
    <3> QED
      BY <3>1, <3>2 DEF TypeOK, TaskStatuses
  <2>5. archived' \subseteq Sessions
    <3>1. CASE UNCHANGED archived
      BY <3>1 DEF TypeOK
    <3>2. CASE /\ co[p].pc = "archiving" /\ kid[co[p].kid].sess # 0
               /\ archived' = archived \union {kid[co[p].kid].sess}
      <4>1. co[p].kid \in Kids
        BY <3>2 DEF Honest, CoHonest
      <4>2. kid[co[p].kid].sess \in 0..MaxSessions
        BY <4>1, FieldsTyped DEF KidType
      <4>3. kid[co[p].kid].sess \in Sessions
        BY <3>2, <4>2, MultiAgentAssumption DEF Sessions
      <4> QED
        BY <3>2, <4>3 DEF TypeOK
    <3> QED
      BY <1>3, <3>1, <3>2 DEF Interrupted, CutOff, upstream
  <2> QED
    BY <1>3, <2>1, <2>2, <2>3, <2>4, <2>5 DEF Interrupted, TypeOK, KidsTyped, CoTyped, RunsTyped
<1> QED
  BY <1>2, <1>3

LEMMA TypeStep ==
  ASSUME TypeOK, Honest, [Next]_vars
  PROVE  TypeOK'
<1>1. CASE UNCHANGED vars
  BY <1>1 DEF vars, upstream, TypeOK
<1>2. CASE PlanRun \/ ManualRun \/ AddChild
  BY <1>2, StartTyped
<1>3. ASSUME NEW p \in Coroutines, Step(p)
      PROVE  TypeOK'
  BY <1>3, SpawnTyped
<1>4. ASSUME NEW p \in Coroutines, Resume(p)
      PROVE  TypeOK'
  BY <1>4, ResumeTyped
<1>5. CASE InterruptedAgain \/ \E p \in Coroutines : Interrupted(p)
  BY <1>5, InterruptTyped
<1> QED
  BY <1>1, <1>2, <1>3, <1>4, <1>5, CommandTyped DEF Next

-----------------------------------------------------------------------------
\* Each part of Honest in turn.  A step that neither turns a child into a
\* success nor gives it a session keeps the child honest.
LEMMA KidKept ==
  ASSUME LedgerKept, NEW k \in Kids, KidHonest(k), TypeOK,
         kid'[k].status = "succeeded" => kid[k].status = "succeeded" \/ Won(k),
         kid'[k].sess = kid[k].sess \/ kid'[k].sess = 0
  PROVE  KidHonest(k)'
<1>1. Won(k) => Won(k)'
  BY WonKept
<1>2. kid'[k].sess # 0 => kid[k].sess \in Sessions
  <2>1. kid[k].sess \in 0..MaxSessions
    BY FieldsTyped DEF KidType
  <2> QED
    BY <2>1, MultiAgentAssumption DEF Sessions
<1> QED
  BY <1>1, <1>2 DEF KidHonest, LedgerKept

LEMMA SettleKept ==
  ASSUME LedgerKept, NEW k \in Kids, KidHonest(k), TypeOK, NEW S, NEW s \in Terminal \ {"succeeded"},
         kid' = Settle(kid, S, s)
  PROVE  KidHonest(k)'
<1>1. kid'[k] = kid[k] \/ kid'[k] = [kid[k] EXCEPT !.status = s]
  BY DEF Settle
<1>2. kid[k] \in KidType
  BY FieldsTyped
<1>3. kid'[k].sess = kid[k].sess /\ (kid'[k].status = "succeeded" => kid[k].status = "succeeded")
  BY <1>1, <1>2 DEF KidType
<1> QED
  BY <1>3, KidKept

\* Updates of one child: its session stays and its status is no success, or
\* one that the ledger holds already.
LEMMA OneKidKept ==
  ASSUME LedgerKept, TypeOK, Honest, NEW j, NEW new,
         kid' = [kid EXCEPT ![j] = new],
         j \in Kids => new.sess = kid[j].sess \/ new.sess = 0,
         j \in Kids => (new.status = "succeeded" => Won(j) \/ kid[j].status = "succeeded"),
         NEW k \in Kids
  PROVE  KidHonest(k)'
<1>1. kid'[k] = IF k = j THEN new ELSE kid[k]
  BY DEF TypeOK
<1>2. KidHonest(k)
  BY DEF Honest
<1> QED
  BY <1>1, <1>2, KidKept

LEMMA SettledKept ==
  ASSUME LedgerKept, TypeOK, NEW K \in [Kids -> KidType], NEW S, NEW s \in Terminal \ {"succeeded"},
         \A k \in Kids : /\ K[k].sess = kid[k].sess
                         /\ K[k].status = "succeeded" => Won(k)
  PROVE  /\ Settle(K, S, s) \in [Kids -> KidType]
         /\ \A k \in Kids : /\ Settle(K, S, s)[k].sess = kid[k].sess
                            /\ Settle(K, S, s)[k].status = "succeeded" => Won(k)
<1>1. Settle(K, S, s) \in [Kids -> KidType]
  BY SettleTyped
<1>2. ASSUME NEW k \in Kids
      PROVE  /\ Settle(K, S, s)[k].sess = kid[k].sess
             /\ Settle(K, S, s)[k].status = "succeeded" => Won(k)
  <2>1. Settle(K, S, s)[k] = K[k] \/ Settle(K, S, s)[k] = [K[k] EXCEPT !.status = s]
    BY DEF Settle
  <2>2. K[k] \in KidType
    OBVIOUS
  <2>3. /\ Settle(K, S, s)[k].sess = K[k].sess
        /\ Settle(K, S, s)[k].status = "succeeded" => K[k].status = "succeeded"
    BY <2>1, <2>2 DEF KidType
  <2> QED
    BY <2>3
<1> QED
  BY <1>1, <1>2

LEMMA ConcludeKept ==
  ASSUME LedgerKept, TypeOK, Honest, NEW p, NEW K \in [Kids -> KidType], Conclude(p, K),
         \A k \in Kids : /\ K[k].sess = kid[k].sess
                         /\ K[k].status = "succeeded" => Won(k)
  PROVE  \A k \in Kids : KidHonest(k)'
<1>1. "cancelled" \in Terminal \ {"succeeded"}
  BY DEF Terminal
<1>2. kid' = K \/ kid' = Settle(K, KidsOf(active), "cancelled")
  BY DEF Conclude
<1>3. \A k \in Kids : kid'[k].sess = kid[k].sess /\ (kid'[k].status = "succeeded" => Won(k))
  BY <1>1, <1>2, SettledKept
<1> QED
  BY <1>3, KidKept DEF Honest

LEMMA ReplyKept ==
  ASSUME LedgerKept, TypeOK, Honest, NEW p \in Coroutines,
         co[p].pc \in {"listing", "recovering"},
         NEW S \in SUBSET co[p].todo, NEW late \in BOOLEAN
  PROVE  /\ Applied(p, S, late) \in [Kids -> KidType]
         /\ \A k \in Kids : /\ Applied(p, S, late)[k].sess = kid[k].sess
                            /\ Applied(p, S, late)[k].status = "succeeded" => Won(k)
<1>1. ASSUME NEW k \in co[p].todo
      PROVE  /\ ReplyStatus(p, k, late) \in ChildStatuses
             /\ ReplyStatus(p, k, late) = "succeeded" => Won(k)
  <2>1. /\ k \in DOMAIN co[p].asked
        /\ co[p].asked[k].sess \in Sessions
        /\ owner[co[p].asked[k].sess] = k
        /\ task[co[p].asked[k].sess] # "none"
        /\ co[p].asked[k].status # "none"
        /\ co[p].asked[k].status = "succeeded" => task[co[p].asked[k].sess] = "succeeded"
    BY DEF Honest, CoHonest
  <2>2. co[p].asked[k] \in Asks
    BY <2>1, FieldsTyped DEF CoType, AskedType
  <2>3. TaskStatuses \ {"none"} \subseteq ChildStatuses
    BY DEF TaskStatuses, ChildStatuses, Terminal
  <2>4. task[co[p].asked[k].sess] \in TaskStatuses /\ co[p].asked[k].status \in TaskStatuses
    BY <2>1, <2>2 DEF TypeOK, Asks
  <2> QED
    BY <2>1, <2>3, <2>4 DEF ReplyStatus, Won
<1>2. Applied(p, S, late) \in [Kids -> KidType]
  BY <1>1, AppliedTyped
<1>3. ASSUME NEW k \in Kids
      PROVE  /\ Applied(p, S, late)[k].sess = kid[k].sess
             /\ Applied(p, S, late)[k].status = "succeeded" => Won(k)
  <2>1. \/ Applied(p, S, late)[k] = kid[k]
        \/ /\ k \in co[p].todo
           /\ Applied(p, S, late)[k] = [kid[k] EXCEPT !.status = ReplyStatus(p, k, late)]
    BY DEF Applied
  <2>2. kid[k] \in KidType /\ (kid[k].status = "succeeded" => Won(k))
    BY FieldsTyped DEF Honest, KidHonest
  <2>3. /\ Applied(p, S, late)[k].sess = kid[k].sess
        /\ \/ Applied(p, S, late)[k].status = kid[k].status
           \/ k \in co[p].todo /\ Applied(p, S, late)[k].status = ReplyStatus(p, k, late)
    BY <2>1, <2>2 DEF KidType
  <2> QED
    BY <1>1, <2>2, <2>3
<1> QED
  BY <1>2, <1>3

LEMMA AcceptedKept ==
  ASSUME LedgerKept, TypeOK, Honest, NEW p \in Coroutines, Accepted(p)
  PROVE  \A k \in Kids : KidHonest(k)'
<1>0. PICK k \in Kids : k = co[p].kid
  BY DEF Accepted, Honest, CoHonest
<1>1. PICK s \in FreshSessions, admitted \in {"running", "queued"}, st \in {"cancelling", "running"} :
        /\ task' = [task EXCEPT ![s] = admitted]
        /\ owner' = [owner EXCEPT ![s] = k]
        /\ kid' = [kid EXCEPT ![k] = [kid[k] EXCEPT !.sess = s, !.status = st]]
  BY <1>0 DEF Accepted, QueuedTasks
<1>2. k \in Kids /\ s \in Sessions
  BY DEF FreshSessions
<1>3. owner'[s] = k /\ task'[s] # "none"
  BY <1>1, <1>2 DEF TypeOK
<1>4. kid[k] \in KidType /\ kid'[k] = [kid[k] EXCEPT !.sess = s, !.status = st]
  BY <1>1, <1>2, FieldsTyped DEF TypeOK
<1>5. kid'[k].sess = s /\ kid'[k].status # "succeeded"
  BY <1>4 DEF KidType
<1>6. KidHonest(k)'
  BY <1>3, <1>5 DEF KidHonest
<1>7. ASSUME NEW j \in Kids, j # k
      PROVE  KidHonest(j)'
  <2>1. kid'[j] = kid[j] /\ KidHonest(j)
    BY <1>1, <1>7 DEF TypeOK, Honest
  <2> QED
    BY <2>1, KidKept DEF KidHonest
<1> QED
  BY <1>6, <1>7

LEMMA KidsStep ==
  ASSUME LedgerKept, TypeOK, Honest, [Next]_vars
  PROVE  \A k \in Kids : KidHonest(k)'
<1>1. ASSUME UNCHANGED kid
      PROVE  \A k \in Kids : KidHonest(k)'
  BY <1>1, KidKept DEF Honest
<1>2. /\ {"failed", "timed_out", "cancelled"} \subseteq Terminal \ {"succeeded"}
      /\ \A k \in Kids : kid[k] \in KidType /\ (kid[k].status = "succeeded" => Won(k))
      /\ kid \in [Kids -> KidType]
  BY FieldsTyped DEF Terminal, Honest, KidHonest, TypeOK
<1>3. CASE UNCHANGED vars
  BY <1>1, <1>3 DEF vars
<1>4. ASSUME NEW n, NEW plan \in BOOLEAN, Execute(n, plan)
      PROVE  \A k \in Kids : KidHonest(k)'
  <2>1. active + 1 \in 1..MaxRuns
    BY <1>4, MultiAgentAssumption DEF Execute, TypeOK
  <2>2. /\ [NoKid EXCEPT !.run = active + 1].status = "queued"
        /\ [NoKid EXCEPT !.run = active + 1].sess = 0
    BY <2>1, NewKidTyped
  <2>3. \A k \in Kids : kid'[k] = kid[k] \/ (kid'[k].status = "queued" /\ kid'[k].sess = 0)
    BY <1>4, <2>2 DEF Execute
  <2> QED
    BY <2>3, KidKept DEF Honest
<1>5. CASE AddChild
  <2>1. PICK k \in Kids : kid' = [kid EXCEPT ![k] = [NoKid EXCEPT !.run = active]]
    BY <1>5 DEF AddChild, NewKids
  <2>2. active \in 1..MaxRuns
    <3>1. active \in 0..MaxRuns /\ active # 0
      BY <1>5 DEF AddChild, TypeOK
    <3> QED
      BY <3>1, MultiAgentAssumption
  <2>3. [NoKid EXCEPT !.run = active].status = "queued" /\ [NoKid EXCEPT !.run = active].sess = 0
    BY <2>2, NewKidTyped
  <2> QED
    BY <2>1, <2>3, OneKidKept
<1>6. CASE Cancel
  BY <1>1, <1>6 DEF Cancel
<1>7. ASSUME NEW c \in Clicks, NEW k \in Kids, Close(c, k)
      PROVE  \A j \in Kids : KidHonest(j)'
  <2>1. PICK st : /\ kid' = [kid EXCEPT ![k] = [kid[k] EXCEPT !.closeReq = TRUE, !.status = st]]
                  /\ st \in {"cancelling", kid[k].status}
    BY <1>7 DEF Close
  <2>2. /\ [kid[k] EXCEPT !.closeReq = TRUE, !.status = st].sess = kid[k].sess
        /\ [kid[k] EXCEPT !.closeReq = TRUE, !.status = st].status = st
    BY <1>2 DEF KidType
  <2> QED
    BY <2>1, <2>2, OneKidKept
<1>8. ASSUME NEW p \in Coroutines, Step(p)
      PROVE  \A k \in Kids : KidHonest(k)'
  <2>1. CASE Begin(p) \/ Spawned(p)
    <3>1. PICK todo \in SUBSET Kids : SpawnNext(p, todo)
      BY <2>1, FieldsTyped DEF Begin, Spawned, KidsOf, CoType
    <3>2. CASE UNCHANGED kid
      BY <1>1, <3>2
    <3>3. ASSUME NEW k \in First(todo), NEW closed,
                 kid' = [kid EXCEPT ![k] = [kid[k] EXCEPT !.status = "cancelled", !.closed = closed]]
          PROVE  \A j \in Kids : KidHonest(j)'
      <4>1. k \in Kids
        BY DEF First
      <4>2. /\ [kid[k] EXCEPT !.status = "cancelled", !.closed = closed].sess = kid[k].sess
            /\ [kid[k] EXCEPT !.status = "cancelled", !.closed = closed].status = "cancelled"
        BY <1>2, <4>1 DEF KidType
      <4> QED
        BY <3>3, <4>2, OneKidKept
    <3>4. ASSUME NEW k \in First(todo), kid' = [kid EXCEPT ![k].status = "starting"]
          PROVE  \A j \in Kids : KidHonest(j)'
      <4>1. k \in Kids
        BY DEF First
      <4>2. /\ [kid[k] EXCEPT !.status = "starting"].sess = kid[k].sess
            /\ [kid[k] EXCEPT !.status = "starting"].status = "starting"
        BY <1>2, <4>1 DEF KidType
      <4> QED
        BY <3>4, <4>2, OneKidKept
    <3> QED
      BY <3>1, <3>2, <3>3, <3>4 DEF SpawnNext
  <2>2. CASE Accepted(p)
    BY <2>2, AcceptedKept
  <2>3. ASSUME NEW k, NEW st \in {"failed", "cancelled"}, NEW sess, NEW closed,
               k \in Kids => sess \in {0, kid[k].sess},
               \/ kid' = [kid EXCEPT ![k] = [kid[k] EXCEPT !.status = st, !.sess = sess]]
               \/ kid' = [kid EXCEPT ![k] = [kid[k] EXCEPT !.status = st, !.closed = closed]]
               \/ kid' = [kid EXCEPT ![k] = [kid[k] EXCEPT !.status = st]]
        PROVE  \A j \in Kids : KidHonest(j)'
    <3>1. k \in Kids =>
            /\ [kid[k] EXCEPT !.status = st, !.sess = sess].sess = sess
            /\ [kid[k] EXCEPT !.status = st, !.sess = sess].status = st
            /\ [kid[k] EXCEPT !.status = st, !.closed = closed].sess = kid[k].sess
            /\ [kid[k] EXCEPT !.status = st, !.closed = closed].status = st
            /\ [kid[k] EXCEPT !.status = st].sess = kid[k].sess
            /\ [kid[k] EXCEPT !.status = st].status = st
      BY <1>2 DEF KidType
    <3> QED
      BY <2>3, <3>1, OneKidKept
  <2>4. CASE SpawnRefused(p)
    BY <2>3, <2>4 DEF SpawnRefused
  <2>5. CASE SpawnLost(p) \/ SpawnArchiveFails(p)
    BY <2>3, <2>5 DEF SpawnLost, SpawnArchiveFails
  <2>6. CASE SpawnArchived(p)
    BY <2>3, <2>6 DEF SpawnArchived
  <2> QED
    BY <1>8, <2>1, <2>2, <2>4, <2>5, <2>6 DEF Step
<1>9. ASSUME NEW p \in Coroutines, Resume(p)
      PROVE  \A k \in Kids : KidHonest(k)'
  <2>1. CASE LoopExits(p) \/ Expired(p)
    BY <1>2, <2>1, ConcludeKept DEF LoopExits, Expired
  <2>2. CASE ListFails(p)
    <3> DEFINE K == Settle(kid, co[p].todo, "failed")
    <3>1. /\ K \in [Kids -> KidType]
          /\ \A k \in Kids : K[k].sess = kid[k].sess /\ (K[k].status = "succeeded" => Won(k))
      BY <1>2, SettledKept
    <3>2. Conclude(p, K)
      BY <2>2 DEF ListFails
    <3> HIDE DEF K
    <3> QED
      BY <3>1, <3>2, ConcludeKept
  <2>3. CASE ListReplies(p)
    <3>1. PICK late \in BOOLEAN, S \in SUBSET co[p].todo :
            \/ kid' = Applied(p, S, late)
            \/ kid' = Settle(Applied(p, S, late), DOMAIN co[p].asked, "timed_out")
      <4>1. \A k : {j \in co[p].todo : j <= k} \in SUBSET co[p].todo
        OBVIOUS
      <4>2. co[p].todo \in SUBSET co[p].todo
        OBVIOUS
      <4> QED
        BY <2>3, <4>1, <4>2 DEF ListReplies
    <3>2. /\ Applied(p, S, late) \in [Kids -> KidType]
          /\ \A k \in Kids : /\ Applied(p, S, late)[k].sess = kid[k].sess
                             /\ Applied(p, S, late)[k].status = "succeeded" => Won(k)
      BY <2>3, ReplyKept DEF ListReplies
    <3>3. \A k \in Kids : kid'[k].sess = kid[k].sess /\ (kid'[k].status = "succeeded" => Won(k))
      BY <1>2, <3>1, <3>2, SettledKept
    <3> QED
      BY <3>3, KidKept DEF Honest
  <2>4. CASE LoopWaits(p) \/ LoopAsks(p) \/ ManualReturns(p) \/ Report(p) \/ Synthesized(p)
    BY <1>1, <2>4 DEF LoopWaits, LoopAsks, ManualReturns, Report, Synthesized
  <2> QED
    BY <1>9, <2>1, <2>2, <2>3, <2>4 DEF Resume
<1>10. ASSUME NEW c \in Clicks, CloserStep(c)
       PROVE  \A k \in Kids : KidHonest(k)'
  <2>1. CASE CloseSent(c)
    BY <1>1, <2>1 DEF CloseSent
  <2>2. CASE CloseArchived(c)
    <3>1. PICK k \in Kids, st \in ChildStatuses :
            /\ kid' = [kid EXCEPT ![k] = [kid[k] EXCEPT !.closed = TRUE, !.status = st]]
            /\ st \in {"cancelled", kid[k].status}
      BY <1>2, <2>2 DEF CloseArchived, Honest, CloserHonest, TypeOK, KidType, CloserType, ChildStatuses
    <3>2. /\ [kid[k] EXCEPT !.closed = TRUE, !.status = st].sess = kid[k].sess
          /\ [kid[k] EXCEPT !.closed = TRUE, !.status = st].status = st
      BY <1>2 DEF KidType
    <3> QED
      BY <3>1, <3>2, OneKidKept
  <2>3. CASE CloseFails(c)
    <3>1. PICK k \in Kids, st \in ChildStatuses :
            /\ kid' = [kid EXCEPT ![k] = [kid[k] EXCEPT !.closeReq = FALSE, !.status = st]]
            /\ st = "succeeded" => Won(k)
      BY <1>2, <2>3 DEF CloseFails, Honest, CloserHonest, TypeOK, KidType, CloserType, ChildStatuses
    <3>2. /\ [kid[k] EXCEPT !.closeReq = FALSE, !.status = st].sess = kid[k].sess
          /\ [kid[k] EXCEPT !.closeReq = FALSE, !.status = st].status = st
      BY <1>2 DEF KidType
    <3> QED
      BY <3>1, <3>2, OneKidKept
  <2> QED
    BY <1>10, <2>1, <2>2, <2>3 DEF CloserStep
<1>11. ASSUME NEW x \in Cancellers, CancellerStep(x)
       PROVE  \A k \in Kids : KidHonest(k)'
  <2>1. CASE CancelEnds(x)
    BY <1>2, <2>1, SettleKept DEF CancelEnds, Honest
  <2> QED
    BY <1>1, <1>11, <2>1 DEF CancellerStep, CancelLists, CancelListed, CancelTask
<1>12. ASSUME NEW s \in Sessions, TaskStarts(s) \/ TaskEnds(s)
       PROVE  \A k \in Kids : KidHonest(k)'
  BY <1>1, <1>12 DEF TaskStarts, TaskEnds
<1>13. ASSUME NEW p \in Coroutines, Interrupted(p)
       PROVE  \A k \in Kids : KidHonest(k)'
  <2>1. kid' = Cut(Abandoned(p))
    BY <1>13 DEF Interrupted
  <2> QED
    BY <2>1, CutFields, KidKept DEF Honest
<1>14. CASE InterruptedAgain
  BY <1>14, AgainEffect, KidKept DEF Honest
<1> QED
  BY <1>3, <1>4, <1>5, <1>6, <1>7, <1>8, <1>9, <1>10, <1>11, <1>12, <1>13, <1>14
     DEF Next, PlanRun, ManualRun

LEMMA OneCoKept ==
  ASSUME LedgerKept, TypeOK, Honest, NEW q, NEW new,
         co' = [co EXCEPT ![q] = new],
         q \in Coroutines =>
           /\ new.asked = co[q].asked \/ new.asked = NoAsk
           /\ new.pc \in {"listing", "recovering"} => new.todo \subseteq DOMAIN new.asked
           /\ new.pc \in {"spawning", "archiving"} => new.kid \in Kids
  PROVE  \A p \in Coroutines : CoHonest(p)'
<1> TAKE p \in Coroutines
<1>1. co'[p] = IF p = q THEN new ELSE co[p]
  BY DEF TypeOK
<1>2. CoHonest(p)
  BY DEF Honest
<1>3. DOMAIN NoAsk = {}
  BY DEF NoAsk
<1>4. co'[p].asked = co[p].asked \/ co'[p].asked = NoAsk
  BY <1>1
<1>5. \A k \in DOMAIN co'[p].asked : k \in DOMAIN co[p].asked /\ co'[p].asked[k] = co[p].asked[k]
  BY <1>3, <1>4
<1>6. \A k \in DOMAIN co'[p].asked :
        LET ask == co'[p].asked[k]
        IN  /\ ask.sess \in Sessions
            /\ owner'[ask.sess] = k
            /\ task'[ask.sess] # "none"
            /\ ask.status # "none"
            /\ ask.status = "succeeded" => task'[ask.sess] = "succeeded"
  BY <1>2, <1>5 DEF CoHonest, LedgerKept
<1>7. /\ co'[p].pc \in {"listing", "recovering"} => co'[p].todo \subseteq DOMAIN co'[p].asked
      /\ co'[p].pc \in {"spawning", "archiving"} => co'[p].kid \in Kids
  BY <1>1, <1>2 DEF CoHonest
<1> QED
  BY <1>6, <1>7 DEF CoHonest

LEMMA CoFields ==
  ASSUME TypeOK, NEW p \in Coroutines, NEW pc, NEW k, NEW todo, NEW r
  PROVE  /\ [co[p] EXCEPT !.pc = pc].pc = pc
         /\ [co[p] EXCEPT !.pc = pc].kid = co[p].kid
         /\ [co[p] EXCEPT !.pc = pc].asked = co[p].asked
         /\ [co[p] EXCEPT !.pc = pc, !.kid = k].pc = pc
         /\ [co[p] EXCEPT !.pc = pc, !.kid = k].asked = co[p].asked
         /\ [co[p] EXCEPT !.pc = pc, !.kid = k, !.todo = todo].pc = pc
         /\ [co[p] EXCEPT !.pc = pc, !.kid = k, !.todo = todo].kid = k
         /\ [co[p] EXCEPT !.pc = pc, !.kid = k, !.todo = todo].asked = co[p].asked
         /\ [co[p] EXCEPT !.pc = pc, !.todo = todo].pc = pc
         /\ [co[p] EXCEPT !.pc = pc, !.todo = todo].todo = todo
         /\ [co[p] EXCEPT !.pc = pc, !.todo = todo].asked = co[p].asked
         /\ [co[p] EXCEPT !.pc = pc, !.run = r, !.kid = k, !.todo = todo].pc = pc
         /\ [co[p] EXCEPT !.pc = pc, !.run = r, !.kid = k, !.todo = todo].asked = co[p].asked
         /\ [Off EXCEPT !.pc = pc].pc = pc
         /\ [Off EXCEPT !.pc = pc].asked = NoAsk
         /\ [Off EXCEPT !.pc = pc, !.todo = todo].pc = pc
         /\ [Off EXCEPT !.pc = pc, !.todo = todo].asked = NoAsk
<1>1. co[p] \in CoType
  BY FieldsTyped
<1>2. /\ Off = [pc |-> "off", kid |-> 0, todo |-> {}, asked |-> NoAsk, run |-> 0]
  BY DEF Off
<1> QED
  BY <1>1, <1>2 DEF CoType

LEMMA AsksKept ==
  ASSUME LedgerKept, TypeOK, Honest, NEW p \in Coroutines, LoopAsks(p)
  PROVE  \A q \in Coroutines : CoHonest(q)'
<1> DEFINE asked == [k \in Pending |-> [sess |-> kid[k].sess, status |-> task[kid[k].sess]]]
           new == [co[p] EXCEPT !.pc = "listing", !.todo = Pending, !.asked = asked]
<1>1. \A k \in Pending : /\ kid[k].sess \in Sessions
                         /\ owner[kid[k].sess] = k
                         /\ task[kid[k].sess] # "none"
  <2> TAKE k \in Pending
  <2>1. k \in Kids /\ kid[k].sess # 0 /\ kid[k].sess \in 0..MaxSessions
    BY FieldsTyped DEF Pending, KidsOf, KidType
  <2>2. kid[k].sess \in Sessions
    BY <2>1, MultiAgentAssumption DEF Sessions
  <2> QED
    BY <2>1, <2>2 DEF Honest, KidHonest
<1>2. co' = [co EXCEPT ![p] = new]
  BY DEF LoopAsks
<1>3. /\ DOMAIN asked = Pending
      /\ \A k \in Pending : asked[k].sess = kid[k].sess /\ asked[k].status = task[kid[k].sess]
  OBVIOUS
<1> HIDE DEF asked
<1>4. new.pc = "listing" /\ new.todo = Pending /\ new.asked = asked
  BY FieldsTyped DEF CoType
<1> HIDE DEF new
<1>5. co'[p] = new
  BY <1>2 DEF TypeOK
<1>6. UNCHANGED <<task, owner>>
  BY DEF LoopAsks, upstream
<1>7. co'[p].pc = "listing" /\ co'[p].todo = Pending /\ co'[p].asked = asked
  BY <1>4, <1>5
<1>8. CoHonest(p)'
  BY <1>1, <1>3, <1>6, <1>7 DEF CoHonest
<1>9. ASSUME NEW q \in Coroutines, q # p
      PROVE  CoHonest(q)'
  <2>1. co'[q] = co[q]
    BY <1>2, <1>9 DEF TypeOK
  <2> QED
    BY <2>1, <1>6 DEF Honest, CoHonest
<1> QED
  BY <1>8, <1>9

LEMMA CoStep ==
  ASSUME LedgerKept, TypeOK, Honest, [Next]_vars
  PROVE  \A p \in Coroutines : CoHonest(p)'
<1>1. ASSUME UNCHANGED co
      PROVE  \A p \in Coroutines : CoHonest(p)'
  BY <1>1 DEF Honest, CoHonest, LedgerKept
<1>2. CASE UNCHANGED vars
  BY <1>1, <1>2 DEF vars
<1>3. ASSUME NEW q, NEW pc \in CoroutinePCs \ {"listing", "recovering", "spawning", "archiving"},
             NEW k, NEW todo, NEW r,
             \/ co' = [co EXCEPT ![q] = [co[q] EXCEPT !.pc = pc]]
             \/ co' = [co EXCEPT ![q] = [co[q] EXCEPT !.pc = pc, !.kid = k]]
             \/ co' = [co EXCEPT ![q] = [co[q] EXCEPT !.pc = pc, !.kid = k, !.todo = todo]]
             \/ co' = [co EXCEPT ![q] = [co[q] EXCEPT !.pc = pc, !.run = r, !.kid = k, !.todo = todo]]
             \/ co' = [co EXCEPT ![q] = [Off EXCEPT !.pc = pc]]
             \/ co' = [co EXCEPT ![q] = [Off EXCEPT !.pc = pc, !.todo = todo]]
      PROVE  \A p \in Coroutines : CoHonest(p)'
  <2>1. CASE co' = [co EXCEPT ![q] = [co[q] EXCEPT !.pc = pc]]
    <3> DEFINE new == [co[q] EXCEPT !.pc = pc]
    <3>1. q \in Coroutines => new.pc = pc /\ new.asked = co[q].asked
      BY CoFields
    <3>2. co' = [co EXCEPT ![q] = new]
      BY <2>1
    <3> HIDE DEF new
    <3> QED
      BY <1>3, <3>1, <3>2, OneCoKept
  <2>2. CASE co' = [co EXCEPT ![q] = [co[q] EXCEPT !.pc = pc, !.kid = k]]
    <3> DEFINE new == [co[q] EXCEPT !.pc = pc, !.kid = k]
    <3>1. q \in Coroutines => new.pc = pc /\ new.asked = co[q].asked
      BY CoFields
    <3>2. co' = [co EXCEPT ![q] = new]
      BY <2>2
    <3> HIDE DEF new
    <3> QED
      BY <1>3, <3>1, <3>2, OneCoKept
  <2>3. CASE co' = [co EXCEPT ![q] = [co[q] EXCEPT !.pc = pc, !.kid = k, !.todo = todo]]
    <3> DEFINE new == [co[q] EXCEPT !.pc = pc, !.kid = k, !.todo = todo]
    <3>1. q \in Coroutines => new.pc = pc /\ new.asked = co[q].asked
      BY CoFields
    <3>2. co' = [co EXCEPT ![q] = new]
      BY <2>3
    <3> HIDE DEF new
    <3> QED
      BY <1>3, <3>1, <3>2, OneCoKept
  <2>4. CASE co' = [co EXCEPT ![q] = [co[q] EXCEPT !.pc = pc, !.run = r, !.kid = k, !.todo = todo]]
    <3> DEFINE new == [co[q] EXCEPT !.pc = pc, !.run = r, !.kid = k, !.todo = todo]
    <3>1. q \in Coroutines => new.pc = pc /\ new.asked = co[q].asked
      BY CoFields
    <3>2. co' = [co EXCEPT ![q] = new]
      BY <2>4
    <3> HIDE DEF new
    <3> QED
      BY <1>3, <3>1, <3>2, OneCoKept
  <2>5. CASE co' = [co EXCEPT ![q] = [Off EXCEPT !.pc = pc]]
    <3>1. [Off EXCEPT !.pc = pc].pc = pc /\ [Off EXCEPT !.pc = pc].asked = NoAsk
      BY DEF Off
    <3> QED
      BY <1>3, <2>5, <3>1, OneCoKept
  <2>6. CASE co' = [co EXCEPT ![q] = [Off EXCEPT !.pc = pc, !.todo = todo]]
    <3>1. /\ [Off EXCEPT !.pc = pc, !.todo = todo].pc = pc
          /\ [Off EXCEPT !.pc = pc, !.todo = todo].asked = NoAsk
      BY DEF Off
    <3> QED
      BY <1>3, <2>6, <3>1, OneCoKept
  <2> QED
    BY <1>3, <2>1, <2>2, <2>3, <2>4, <2>5, <2>6
<1>4. {"created", "spawned", "launched", "sleeping", "expired", "returning", "reporting", "synthesis",
       "done"} \subseteq CoroutinePCs \ {"listing", "recovering", "spawning", "archiving"}
  BY DEF CoroutinePCs
<1>5. ASSUME NEW n, NEW plan, Execute(n, plan)
      PROVE  \A p \in Coroutines : CoHonest(p)'
  BY <1>3, <1>4, <1>5 DEF Execute
<1>6. CASE AddChild
  <2>1. PICK k : co' = [co EXCEPT ![<<"add", k>>] = [Off EXCEPT !.pc = "created", !.todo = {k}]]
    BY <1>6 DEF AddChild
  <2> QED
    BY <1>3, <1>4, <2>1
<1>7. CASE Cancel \/ InterruptedAgain \/ \E x \in Cancellers : CancellerStep(x)
  BY <1>1, <1>7 DEF Cancel, InterruptedAgain, CancellerStep, CancelLists, CancelListed, CancelTask,
                    CancelEnds
<1>8. ASSUME NEW c \in Clicks, NEW k \in Kids, Close(c, k)
      PROVE  \A p \in Coroutines : CoHonest(p)'
  BY <1>1, <1>8 DEF Close
<1>9. ASSUME NEW p \in Coroutines, Step(p)
      PROVE  \A q \in Coroutines : CoHonest(q)'
  <2>1. CASE Begin(p) \/ Spawned(p)
    <3>1. PICK todo \in SUBSET Kids : SpawnNext(p, todo)
      BY <2>1, FieldsTyped DEF Begin, Spawned, KidsOf, CoType
    <3>2. ASSUME NEW k \in First(todo),
                 co' = [co EXCEPT ![p] = [co[p] EXCEPT !.pc = "spawning", !.kid = k,
                                                       !.todo = todo \ {k}]]
          PROVE  \A q \in Coroutines : CoHonest(q)'
      <4>1. k \in Kids
        BY DEF First
      <4> DEFINE new == [co[p] EXCEPT !.pc = "spawning", !.kid = k, !.todo = todo \ {k}]
      <4>2. new.pc = "spawning" /\ new.kid = k /\ new.asked = co[p].asked
        BY CoFields
      <4>3. co' = [co EXCEPT ![p] = new]
        BY <3>2
      <4> HIDE DEF new
      <4> QED
        BY <4>1, <4>2, <4>3, OneCoKept
    <3>3. \/ \E k \in First(todo) :
               \/ co' = [co EXCEPT ![p] = [co[p] EXCEPT !.pc = "spawning", !.kid = k,
                                                        !.todo = todo \ {k}]]
               \/ co' = [co EXCEPT ![p] = [co[p] EXCEPT !.pc = "spawned", !.kid = k,
                                                        !.todo = todo \ {k}]]
          \/ co' = [co EXCEPT ![p] = [Off EXCEPT !.pc = "done"]]
          \/ co' = [co EXCEPT ![p] = [co[p] EXCEPT !.pc = "launched", !.kid = 0]]
      BY <3>1 DEF SpawnNext
    <3> QED
      BY <1>3, <1>4, <3>2, <3>3
  <2>2. CASE Accepted(p)
    <3>1. CASE co' = [co EXCEPT ![p].pc = "spawned"]
      BY <1>3, <1>4, <3>1
    <3>2. CASE co' = [co EXCEPT ![p].pc = "archiving"]
      <4>1. co[p].kid \in Kids
        BY <2>2 DEF Accepted, Honest, CoHonest
      <4> DEFINE new == [co[p] EXCEPT !.pc = "archiving"]
      <4>2. new.pc = "archiving" /\ new.kid = co[p].kid /\ new.asked = co[p].asked
        BY CoFields
      <4>3. co' = [co EXCEPT ![p] = new]
        BY <3>2
      <4> HIDE DEF new
      <4> QED
        BY <4>1, <4>2, <4>3, OneCoKept
    <3> QED
      BY <2>2, <3>1, <3>2 DEF Accepted
  <2>3. CASE SpawnRefused(p) \/ SpawnLost(p) \/ SpawnArchived(p) \/ SpawnArchiveFails(p)
    BY <1>3, <1>4, <2>3 DEF SpawnRefused, SpawnLost, SpawnArchived, SpawnArchiveFails
  <2> QED
    BY <1>9, <2>1, <2>2, <2>3 DEF Step
<1>10. ASSUME NEW p \in Coroutines, Resume(p)
       PROVE  \A q \in Coroutines : CoHonest(q)'
  <2>1. CASE LoopExits(p) \/ Expired(p) \/ ListFails(p)
    BY <1>3, <1>4, <2>1 DEF LoopExits, Expired, ListFails, Conclude
  <2>2. CASE LoopWaits(p) \/ ManualReturns(p) \/ Synthesized(p)
    BY <1>3, <1>4, <2>2 DEF LoopWaits, ManualReturns, Synthesized
  <2>3. CASE LoopAsks(p)
    BY <2>3, AsksKept
  <2>4. CASE Report(p)
    <3>1. \/ \E r, k :
               co' = [co EXCEPT ![p] = [co[p] EXCEPT !.pc = "reporting", !.run = r, !.kid = k,
                                                     !.todo = co[p].todo \union {k}]]
          \/ co' = [co EXCEPT ![p] = [Off EXCEPT !.pc = "done"]]
          \/ co' = [co EXCEPT ![p].pc = "synthesis"]
      BY <2>4 DEF Report
    <3> QED
      BY <1>3, <1>4, <3>1, ZenonT(40)
  <2>5. CASE ListReplies(p)
    <3>1. \/ co' = [co EXCEPT ![p] = [Off EXCEPT !.pc = "sleeping"]]
          \/ co' = [co EXCEPT ![p] = [Off EXCEPT !.pc = "expired"]]
          \/ \E k : co' = [co EXCEPT ![p] = [co[p] EXCEPT !.pc = "recovering",
                                                          !.todo = {j \in co[p].todo : j > k}]]
      BY <2>5 DEF ListReplies
    <3>2. ASSUME NEW k,
                 co' = [co EXCEPT ![p] = [co[p] EXCEPT !.pc = "recovering",
                                                       !.todo = {j \in co[p].todo : j > k}]]
          PROVE  \A q \in Coroutines : CoHonest(q)'
      <4> DEFINE rest == {j \in co[p].todo : j > k}
                 new == [co[p] EXCEPT !.pc = "recovering", !.todo = rest]
      <4>1. rest \subseteq DOMAIN co[p].asked
        BY <2>5 DEF ListReplies, Honest, CoHonest
      <4>2. co' = [co EXCEPT ![p] = new]
        BY <3>2
      <4> HIDE DEF rest
      <4>3. new.pc = "recovering" /\ new.todo = rest /\ new.asked = co[p].asked
        BY CoFields
      <4> HIDE DEF new
      <4> QED
        BY <4>1, <4>2, <4>3, OneCoKept
    <3> QED
      BY <1>3, <1>4, <3>1, <3>2, ZenonT(40)
  <2> QED
    BY <1>10, <2>1, <2>2, <2>3, <2>4, <2>5 DEF Resume
<1>11. ASSUME NEW c \in Clicks, CloserStep(c)
       PROVE  \A p \in Coroutines : CoHonest(p)'
  BY <1>1, <1>11 DEF CloserStep, CloseSent, CloseArchived, CloseFails
<1>12. ASSUME NEW s \in Sessions, TaskStarts(s) \/ TaskEnds(s)
       PROVE  \A p \in Coroutines : CoHonest(p)'
  BY <1>1, <1>12 DEF TaskStarts, TaskEnds
<1>13. ASSUME NEW p \in Coroutines, Interrupted(p)
       PROVE  \A q \in Coroutines : CoHonest(q)'
  BY <1>3, <1>4, <1>13 DEF Interrupted
<1> QED
  BY <1>2, <1>5, <1>6, <1>7, <1>8, <1>9, <1>10, <1>11, <1>12, <1>13 DEF Next, PlanRun, ManualRun

LEMMA ClosersStep ==
  ASSUME LedgerKept, TypeOK, Honest, [Next]_vars
  PROVE  \A c \in Clicks : CloserHonest(c)'
<1>1. ASSUME UNCHANGED closer
      PROVE  \A c \in Clicks : CloserHonest(c)'
  <2> TAKE c \in Clicks
  <2>1. CloserHonest(c)
    BY DEF Honest
  <2>2. Won(closer[c].kid) => \E s \in Sessions : owner'[s] = closer[c].kid /\ task'[s] = "succeeded"
    BY DEF Won, LedgerKept
  <2> QED
    BY <1>1, <2>1, <2>2 DEF CloserHonest, Won
<1>2. ASSUME NEW d \in Clicks, NEW new, closer' = [closer EXCEPT ![d] = new],
             new.prev = "succeeded" => Won(new.kid),
             new.pc # "idle" => new.kid \in Kids
      PROVE  \A c \in Clicks : CloserHonest(c)'
  <2> TAKE c \in Clicks
  <2>1. closer'[c] = IF c = d THEN new ELSE closer[c]
    BY <1>2 DEF TypeOK
  <2>2. /\ closer'[c].prev = "succeeded" => Won(closer'[c].kid)
        /\ closer'[c].pc # "idle" => closer'[c].kid \in Kids
    BY <1>2, <2>1 DEF Honest, CloserHonest
  <2>3. \A k : Won(k) => \E s \in Sessions : owner'[s] = k /\ task'[s] = "succeeded"
    BY DEF Won, LedgerKept
  <2> QED
    BY <2>2, <2>3 DEF CloserHonest, Won
<1>3. CASE UNCHANGED vars
  BY <1>1, <1>3 DEF vars
<1>4. CASE \/ PlanRun \/ ManualRun \/ AddChild \/ Cancel \/ InterruptedAgain
           \/ \E x \in Cancellers : CancellerStep(x)
           \/ \E p \in Coroutines : Interrupted(p)
  BY <1>1, <1>4 DEF PlanRun, ManualRun, Execute, AddChild, Cancel, InterruptedAgain, Interrupted,
                    CancellerStep, CancelLists, CancelListed, CancelTask, CancelEnds
<1>5. ASSUME NEW d \in Clicks, NEW k \in Kids, Close(d, k)
      PROVE  \A c \in Clicks : CloserHonest(c)'
  <2>1. closer' = [closer EXCEPT ![d] = [pc |-> "emitting", kid |-> k, prev |-> kid[k].status]]
    BY <1>5 DEF Close
  <2>2. kid[k].status = "succeeded" => Won(k)
    BY DEF Honest, KidHonest
  <2> QED
    BY <1>2, <2>1, <2>2
<1>6. ASSUME NEW p \in Coroutines, Step(p) \/ Resume(p)
      PROVE  \A c \in Clicks : CloserHonest(c)'
  BY <1>1, <1>6 DEF Step, Begin, Spawned, Accepted, SpawnRefused, SpawnLost, SpawnArchived,
                    SpawnArchiveFails, Resume, LoopExits, LoopWaits, LoopAsks, ListFails, ListReplies,
                    Expired, ManualReturns, Report, Synthesized
<1>7. ASSUME NEW d \in Clicks, CloserStep(d)
      PROVE  \A c \in Clicks : CloserHonest(c)'
  <2>1. CASE closer' = [closer EXCEPT ![d] = IdleCloser]
    BY <1>2, <2>1 DEF IdleCloser
  <2>2. CASE CloseSent(d) /\ closer' = [closer EXCEPT ![d] = [closer[d] EXCEPT !.pc = "archiving"]]
    <3> DEFINE new == [closer[d] EXCEPT !.pc = "archiving"]
    <3>1. new.kid = closer[d].kid /\ new.prev = closer[d].prev
      BY FieldsTyped DEF CloserType
    <3>2. closer[d].kid \in Kids /\ (closer[d].prev = "succeeded" => Won(closer[d].kid))
      BY <2>2 DEF CloseSent, Honest, CloserHonest
    <3>3. closer' = [closer EXCEPT ![d] = new]
      BY <2>2
    <3> HIDE DEF new
    <3> QED
      BY <1>2, <3>1, <3>2, <3>3
  <2> QED
    BY <1>7, <2>1, <2>2 DEF CloserStep, CloseSent, CloseArchived, CloseFails
<1>8. ASSUME NEW s \in Sessions, TaskStarts(s) \/ TaskEnds(s)
      PROVE  \A c \in Clicks : CloserHonest(c)'
  BY <1>1, <1>8 DEF TaskStarts, TaskEnds
<1> QED
  BY <1>3, <1>4, <1>5, <1>6, <1>7, <1>8 DEF Next

-----------------------------------------------------------------------------
LEMMA InitHonest == Init => TypeOK /\ Honest
<1> SUFFICES ASSUME Init
             PROVE  TypeOK /\ Honest
  OBVIOUS
<1>1. 0 \in 0..MaxRuns /\ 0 \in 0..MaxKids /\ 0 \in 0..MaxSessions
  BY MultiAgentAssumption
<1>2. NoKid \in KidType
  BY <1>1 DEF NoKid, KidType, ChildStatuses
<1>3. Off \in CoType
  <2>1. NoAsk \in [{} -> Asks]
    BY DEF NoAsk
  <2>2. NoAsk \in AskedType
    BY <2>1 DEF AskedType
  <2> QED
    BY <1>1, <2>2 DEF Off, CoType, CoroutinePCs
<1>4. IdleCloser \in CloserType
  BY <1>1 DEF IdleCloser, CloserType, ChildStatuses
<1>5. [status |-> "none", plan |-> FALSE] \in [status : RunStatuses, plan : BOOLEAN]
  BY DEF RunStatuses
<1>6. TypeOK
  BY <1>1, <1>2, <1>3, <1>4, <1>5 DEF Init, TypeOK, IdleCanceller, CancellerType, TaskStatuses
<1>7. DOMAIN NoAsk = {}
  BY DEF NoAsk
<1>8. NoKid.status = "queued" /\ NoKid.sess = 0
  BY DEF NoKid
<1>9. Off.pc = "off" /\ Off.asked = NoAsk
  BY DEF Off
<1>10. \A k \in Kids : KidHonest(k)
  BY <1>8 DEF Init, KidHonest
<1>11. \A p \in Coroutines : CoHonest(p)
  BY <1>7, <1>9 DEF Init, CoHonest
<1>12. \A c \in Clicks : CloserHonest(c)
  BY DEF Init, CloserHonest, IdleCloser
<1> QED
  BY <1>6, <1>10, <1>11, <1>12 DEF Honest

LEMMA HonestAlways == Spec => [](TypeOK /\ Honest)
<1>1. Init => TypeOK /\ Honest
  BY InitHonest
<1>2. TypeOK /\ Honest /\ [Next]_vars => (TypeOK /\ Honest)'
  <2> SUFFICES ASSUME TypeOK, Honest, [Next]_vars
               PROVE  TypeOK' /\ Honest'
    OBVIOUS
  <2>1. LedgerKept
    BY LedgerStep
  <2>2. TypeOK'
    BY TypeStep
  <2>3. Honest'
    BY <2>1, KidsStep, CoStep, ClosersStep DEF Honest
  <2> QED
    BY <2>2, <2>3
<1> QED
  BY <1>1, <1>2, PTL DEF Spec

\* The type invariant of the board, for every bound and every environment.
THEOREM BoardTypeCorrect == Spec => []TypeOK
<1> QED
  BY HonestAlways, PTL

\* For any number of runs, children, sessions and close requests, and whatever
\* the gateway refuses, loses or delays, the board shows a child as succeeded
\* only if the ledger holds a success of a session spawned for that child.
THEOREM SuccessIsTruthful == Spec => []TruthfulSuccess
<1>1. TypeOK /\ Honest => TruthfulSuccess
  BY DEF Honest, KidHonest, Won, TruthfulSuccess
<1> QED
  BY <1>1, HonestAlways, PTL

-----------------------------------------------------------------------------
(***************************************************************************)
(* Who spawns which child.  execute and every add_child walk their own     *)
(* children and no child is in the hands of two of them, so a receipt is   *)
(* never overwritten by a second one.  That needs sends that do not        *)
(* suspend: execute reads the list of children after its first send.       *)
(***************************************************************************)
SpawnPCs == {"created", "spawning", "archiving", "spawned"}

\* The children a coroutine has still to spawn, and the one it is at.
Todo(p) ==
  IF co[p].pc = "created" /\ p[1] = "execute" THEN KidsOf(active)
  ELSE IF co[p].pc \in SpawnPCs THEN co[p].todo ELSE {}
Held(p) == IF co[p].pc \in {"spawning", "archiving"} THEN {co[p].kid} ELSE {}
Hands(p) == Todo(p) \union Held(p)

\* Of these, the ones for which sessions_spawn has not answered.
Untouched(p) == Todo(p) \union (IF co[p].pc = "spawning" THEN Held(p) ELSE {})
Unspawned(k) == kid[k].sess = 0 /\ ~kid[k].closed

Spawners ==
  /\ \A p, q \in Coroutines : p # q => Hands(p) \intersect Hands(q) = {}
  /\ \A p \in Coroutines : Hands(p) \subseteq UsedKids /\ Todo(p) \intersect Held(p) = {}
  /\ \A p \in Coroutines : \A k \in Untouched(p) : Unspawned(k)
  /\ \A k \in Kids : kid[k].run <= active

\* A step that leaves card k with its run, its receipt and its place.
SameCard(k) ==
  /\ kid'[k].run = kid[k].run
  /\ kid'[k].sess = kid[k].sess
  /\ kid'[k].closed <=> kid[k].closed

LEMMA RunsKept ==
  ASSUME active' = active, \A k \in Kids : kid'[k].run = kid[k].run
  PROVE  KidsOf(active)' = KidsOf(active) /\ UsedKids' = UsedKids
  BY DEF KidsOf, UsedKids

LEMMA HandsKept ==
  ASSUME active' = active, \A k \in Kids : kid'[k].run = kid[k].run, NEW q, co'[q] = co[q]
  PROVE  Todo(q)' = Todo(q) /\ Held(q)' = Held(q) /\ Hands(q)' = Hands(q)
         /\ Untouched(q)' = Untouched(q)
<1>1. Todo(q)' = Todo(q) /\ Held(q)' = Held(q)
  BY RunsKept DEF Todo, Held
<1> QED BY <1>1 DEF Hands, Untouched

\* Cards keep their run, receipt and place whichever other fields are written.
LEMMA CardKept ==
  ASSUME TypeOK, NEW k \in Kids, NEW j, NEW s, NEW b
  PROVE  /\ kid' = [kid EXCEPT ![j].status = s] => SameCard(k)
         /\ kid' = [kid EXCEPT ![j] = [@ EXCEPT !.closeReq = b, !.status = s]] => SameCard(k)
<1>1. kid[k] \in KidType
  BY DEF TypeOK
<1>2. /\ [kid[k] EXCEPT !.status = s].run = kid[k].run
      /\ [kid[k] EXCEPT !.status = s].sess = kid[k].sess
      /\ [kid[k] EXCEPT !.status = s].closed = kid[k].closed
      /\ [kid[k] EXCEPT !.closeReq = b, !.status = s].run = kid[k].run
      /\ [kid[k] EXCEPT !.closeReq = b, !.status = s].sess = kid[k].sess
      /\ [kid[k] EXCEPT !.closeReq = b, !.status = s].closed = kid[k].closed
  BY <1>1 DEF KidType
<1>3. CASE k # j
  BY <1>3 DEF TypeOK, SameCard
<1>4. CASE k = j
  BY <1>2, <1>4 DEF TypeOK, SameCard
<1> QED BY <1>3, <1>4

LEMMA CardsSettled ==
  ASSUME NEW K \in [Kids -> KidType], NEW S, NEW s, NEW k \in Kids
  PROVE  /\ Settle(K, S, s)[k].run = K[k].run
         /\ Settle(K, S, s)[k].sess = K[k].sess
         /\ Settle(K, S, s)[k].closed = K[k].closed
  BY DEF Settle, KidType

\* p goes on with what it has in hand, or less.
LEMMA HandsStep ==
  ASSUME Spawners, NEW p \in Coroutines, active' = active,
         \A q \in Coroutines \ {p} : co'[q] = co[q],
         \A k \in Kids : kid'[k].run = kid[k].run,
         Hands(p)' \subseteq Hands(p), Todo(p)' \intersect Held(p)' = {},
         \A k \in Untouched(p)' : Unspawned(k)',
         \A k \in Kids : Unspawned(k) /\ k \notin Hands(p) => Unspawned(k)'
  PROVE  Spawners'
<1>1. \A q \in Coroutines \ {p} : Hands(q)' = Hands(q) /\ Todo(q)' = Todo(q)
                                  /\ Held(q)' = Held(q) /\ Untouched(q)' = Untouched(q)
  BY HandsKept
<1>2. UsedKids' = UsedKids /\ UsedKids \subseteq Kids
  BY RunsKept DEF UsedKids
<1>3. \A q \in Coroutines \ {p} : \A k \in Untouched(q)' : Unspawned(k)'
  <2> SUFFICES ASSUME NEW q \in Coroutines \ {p}, NEW k \in Untouched(q)
               PROVE  Unspawned(k)'
    BY <1>1
  <2>1. k \in Hands(q)
    BY DEF Untouched, Hands
  <2> QED BY <1>2, <2>1 DEF Spawners
<1>4. \A q, r \in Coroutines : q # r => Hands(q)' \intersect Hands(r)' = {}
  BY <1>1 DEF Spawners
<1>5. \A q \in Coroutines : Hands(q)' \subseteq UsedKids' /\ Todo(q)' \intersect Held(q)' = {}
  BY <1>1, <1>2 DEF Spawners
<1>6. \A k \in Kids : kid'[k].run <= active'
  BY DEF Spawners
<1>7. \A q \in Coroutines : \A k \in Untouched(q)' : Unspawned(k)'
  BY <1>3
<1> QED BY <1>4, <1>5, <1>6, <1>7 DEF Spawners

\* Nobody's hands change.
LEMMA HandsRest ==
  ASSUME Spawners, active' = active, co' = co, \A k \in Kids : kid'[k].run = kid[k].run,
         \A k \in Kids : Unspawned(k) => Unspawned(k)'
  PROVE  Spawners'
<1>1. \A q \in Coroutines : Hands(q)' = Hands(q) /\ Todo(q)' = Todo(q)
                            /\ Held(q)' = Held(q) /\ Untouched(q)' = Untouched(q)
  BY HandsKept
<1>2. UsedKids' = UsedKids /\ UsedKids \subseteq Kids
  BY RunsKept DEF UsedKids
<1>3. \A q \in Coroutines : Untouched(q) \subseteq Kids
  BY <1>2 DEF Untouched, Hands, Spawners
<1> QED BY <1>1, <1>2, <1>3 DEF Spawners

\* Cards that stay as they are stay where they were.
LEMMA PlacesKept ==
  ASSUME ClosedIsArchived, \A k \in Kids : SameCard(k), archived \subseteq archived'
  PROVE  /\ ClosedIsArchived'
         /\ \A k \in Kids : kid'[k].run = kid[k].run /\ (Unspawned(k) => Unspawned(k)')
  BY DEF ClosedIsArchived, SameCard, Unspawned

\* execute's wait loop and what follows it: nobody spawns, cards stay in place.
LEMMA ConcludeCards ==
  ASSUME TypeOK, NEW p, NEW K \in [Kids -> KidType], Conclude(p, K),
         \A k \in Kids : K[k].run = kid[k].run /\ K[k].sess = kid[k].sess /\ K[k].closed = kid[k].closed
  PROVE  \A k \in Kids : SameCard(k)
<1>1. kid' = Settle(K, KidsOf(active), "cancelled") \/ kid' = K
  BY DEF Conclude
<1> QED BY <1>1, CardsSettled DEF SameCard

LEMMA AppliedCards ==
  ASSUME TypeOK, NEW p \in Coroutines, NEW S, NEW late, NEW k \in Kids
  PROVE  /\ Applied(p, S, late)[k].run = kid[k].run
         /\ Applied(p, S, late)[k].sess = kid[k].sess
         /\ Applied(p, S, late)[k].closed = kid[k].closed
<1>1. kid[k] \in KidType
  BY DEF TypeOK
<1> DEFINE s == ReplyStatus(p, k, late)
<1>2. /\ [kid[k] EXCEPT !.status = s].run = kid[k].run
      /\ [kid[k] EXCEPT !.status = s].sess = kid[k].sess
      /\ [kid[k] EXCEPT !.status = s].closed = kid[k].closed
  BY <1>1 DEF KidType
<1>3. Applied(p, S, late)[k] = kid[k] \/ Applied(p, S, late)[k] = [kid[k] EXCEPT !.status = s]
  BY DEF Applied
<1>4. CASE Applied(p, S, late)[k] = kid[k]
  BY <1>4
<1>5. CASE Applied(p, S, late)[k] = [kid[k] EXCEPT !.status = s]
  BY <1>2, <1>5
<1> QED BY <1>3, <1>4, <1>5

LEMMA ResumeCards ==
  ASSUME TypeOK, Honest, LedgerKept, NEW p \in Coroutines, Resume(p)
  PROVE  \A k \in Kids : SameCard(k)
<1>1. CASE UNCHANGED kid
  BY <1>1 DEF SameCard
<1>2. CASE LoopExits(p) \/ Expired(p)
  BY <1>2, ConcludeCards DEF LoopExits, Expired, TypeOK
<1>3. CASE ListFails(p)
  <2>1. Settle(kid, co[p].todo, "failed") \in [Kids -> KidType]
    BY SettleTyped DEF TypeOK, Terminal
  <2>2. \A k \in Kids : /\ Settle(kid, co[p].todo, "failed")[k].run = kid[k].run
                        /\ Settle(kid, co[p].todo, "failed")[k].sess = kid[k].sess
                        /\ Settle(kid, co[p].todo, "failed")[k].closed = kid[k].closed
    BY CardsSettled DEF TypeOK
  <2> QED BY <1>3, <2>1, <2>2, ConcludeCards DEF ListFails
<1>4. CASE ListReplies(p)
  <2>1. ASSUME NEW S \in SUBSET co[p].todo, NEW late \in BOOLEAN
        PROVE  Applied(p, S, late) \in [Kids -> KidType]
    <3>1. co[p].pc \in {"listing", "recovering"}
      BY <1>4 DEF ListReplies
    <3> QED BY <2>1, <3>1, ReplyKept
  <2>2. ASSUME NEW S, NEW late, kid' = Applied(p, S, late)
        PROVE  \A k \in Kids : SameCard(k)
    BY <2>2, AppliedCards DEF SameCard
  <2>3. ASSUME NEW late \in BOOLEAN,
               kid' = Settle(Applied(p, co[p].todo, late), DOMAIN co[p].asked, "timed_out")
        PROVE  \A k \in Kids : SameCard(k)
    <3>1. Applied(p, co[p].todo, late) \in [Kids -> KidType]
      BY <2>1
    <3> QED BY <2>3, <3>1, AppliedCards, CardsSettled DEF SameCard
  <2>4. PICK late \in BOOLEAN :
          \/ \E S : kid' = Applied(p, S, late)
          \/ kid' = Settle(Applied(p, co[p].todo, late), DOMAIN co[p].asked, "timed_out")
    BY <1>4 DEF ListReplies
  <2> QED BY <2>2, <2>3, <2>4
<1> QED
  BY <1>1, <1>2, <1>3, <1>4
  DEF Resume, LoopWaits, LoopAsks, ManualReturns, Report, Synthesized

LEMMA ResumeHands ==
  ASSUME TypeOK, NEW p \in Coroutines, Resume(p)
  PROVE  /\ \A q \in Coroutines \ {p} : co'[q] = co[q]
         /\ co'[p].pc \notin SpawnPCs
         /\ active' = active /\ archived' = archived
<1>1. co[p] \in CoType /\ co \in [Coroutines -> CoType]
  BY DEF TypeOK
<1> DEFINE Free == {"returning", "sleeping", "expired", "done", "listing", "recovering", "reporting",
                    "synthesis"}
           Goal == /\ \A q \in Coroutines \ {p} : co'[q] = co[q]
                   /\ co'[p].pc \in Free
                   /\ active' = active /\ archived' = archived
<1> SUFFICES Goal
  BY DEF SpawnPCs
<1> DEFINE Goes(new) == co' = [co EXCEPT ![p] = new] /\ active' = active /\ archived' = archived
<1>2. ASSUME NEW new, new.pc \in Free, Goes(new)
      PROVE  Goal
  BY <1>1, <1>2
<1>3. \A pc \in {"returning", "sleeping", "expired", "done"} : [Off EXCEPT !.pc = pc].pc = pc
  BY OffTyped DEF CoroutinePCs
<1>4. \A pc : [co[p] EXCEPT !.pc = pc].pc = pc
  BY <1>1 DEF CoType
<1> HIDE DEF Goal, Goes
<1>5. CASE LoopExits(p) \/ Expired(p) \/ ListFails(p)
  <2> DEFINE new == [Off EXCEPT !.pc = "returning"]
  <2>1. Goes(new)
    BY <1>5 DEF LoopExits, Expired, ListFails, Conclude, upstream, Goes
  <2>2. new.pc \in Free
    BY <1>3
  <2> HIDE DEF new
  <2> QED BY <1>2, <2>1, <2>2
<1>6. CASE LoopWaits(p)
  <2> DEFINE new == [co[p] EXCEPT !.pc = "sleeping"]
  <2>1. Goes(new)
    BY <1>6 DEF LoopWaits, upstream, Goes
  <2>2. new.pc \in Free
    BY <1>4
  <2> HIDE DEF new
  <2> QED BY <1>2, <2>1, <2>2
<1>7. CASE LoopAsks(p)
  <2>1. PICK a : co' = [co EXCEPT ![p] = [co[p] EXCEPT !.pc = "listing", !.todo = Pending, !.asked = a]]
    BY <1>7 DEF LoopAsks
  <2>2. [co[p] EXCEPT !.pc = "listing", !.todo = Pending, !.asked = a].pc = "listing"
    BY <1>1 DEF CoType
  <2> DEFINE new == [co[p] EXCEPT !.pc = "listing", !.todo = Pending, !.asked = a]
  <2>3. Goes(new)
    BY <1>7, <2>1 DEF LoopAsks, upstream, Goes
  <2>4. new.pc \in Free
    BY <2>2
  <2> HIDE DEF new
  <2> QED BY <1>2, <2>3, <2>4
<1>8. CASE ListReplies(p)
  <2>1. active' = active /\ archived' = archived
    BY <1>8 DEF ListReplies, upstream
  <2>2. \/ \E t : co' = [co EXCEPT ![p] = [co[p] EXCEPT !.pc = "recovering", !.todo = t]]
        \/ co' = [co EXCEPT ![p] = [Off EXCEPT !.pc = "sleeping"]]
        \/ co' = [co EXCEPT ![p] = [Off EXCEPT !.pc = "expired"]]
    BY <1>8 DEF ListReplies
  <2>3. \A t : [co[p] EXCEPT !.pc = "recovering", !.todo = t].pc = "recovering"
    BY <1>1 DEF CoType
  <2>4. ASSUME NEW t, co' = [co EXCEPT ![p] = [co[p] EXCEPT !.pc = "recovering", !.todo = t]]
        PROVE  Goal
    <3> DEFINE new == [co[p] EXCEPT !.pc = "recovering", !.todo = t]
    <3>1. Goes(new)
      BY <2>1, <2>4 DEF Goes
    <3>2. new.pc \in Free
      BY <2>3
    <3> HIDE DEF new
    <3> QED BY <1>2, <3>1, <3>2
  <2>5. ASSUME NEW pc \in {"sleeping", "expired"}, co' = [co EXCEPT ![p] = [Off EXCEPT !.pc = pc]]
        PROVE  Goal
    <3> DEFINE new == [Off EXCEPT !.pc = pc]
    <3>1. Goes(new)
      BY <2>1, <2>5 DEF Goes
    <3>2. new.pc \in Free
      BY <1>3
    <3> HIDE DEF new
    <3> QED BY <1>2, <3>1, <3>2
  <2> QED BY <2>2, <2>4, <2>5
<1>9. CASE ManualReturns(p) \/ Synthesized(p)
  <2> DEFINE new == [Off EXCEPT !.pc = "done"]
  <2>1. Goes(new)
    BY <1>9 DEF ManualReturns, Synthesized, upstream, Goes
  <2>2. new.pc \in Free
    BY <1>3
  <2> HIDE DEF new
  <2> QED BY <1>2, <2>1, <2>2
<1>10. CASE Report(p)
  <2>1. active' = active /\ archived' = archived
    BY <1>10 DEF Report, upstream
  <2> DEFINE r == IF co[p].pc = "reporting" THEN co[p].run ELSE active
             New(k) == [co[p] EXCEPT !.pc = "reporting", !.run = r, !.kid = k, !.todo = co[p].todo \union {k}]
  <2>2. \/ \E k : co' = [co EXCEPT ![p] = New(k)]
        \/ co' = [co EXCEPT ![p] = [Off EXCEPT !.pc = "done"]]
        \/ co' = [co EXCEPT ![p] = [co[p] EXCEPT !.pc = "synthesis"]]
    BY <1>10 DEF Report
  <2>3. \A k : New(k).pc = "reporting"
    BY <1>1 DEF CoType
  <2> HIDE DEF New
  <2>4. ASSUME NEW k, co' = [co EXCEPT ![p] = New(k)]
        PROVE  Goal
    <3> DEFINE new == New(k)
    <3>1. Goes(new)
      BY <2>1, <2>4 DEF Goes
    <3>2. new.pc \in Free
      BY <2>3
    <3> HIDE DEF new
    <3> QED BY <1>2, <3>1, <3>2
  <2>5. CASE co' = [co EXCEPT ![p] = [co[p] EXCEPT !.pc = "synthesis"]]
    <3> DEFINE new == [co[p] EXCEPT !.pc = "synthesis"]
    <3>1. Goes(new)
      BY <2>1, <2>5 DEF Goes
    <3>2. new.pc \in Free
      BY <1>4
    <3> HIDE DEF new
    <3> QED BY <1>2, <3>1, <3>2
  <2>6. CASE co' = [co EXCEPT ![p] = [Off EXCEPT !.pc = "done"]]
    <3> DEFINE new == [Off EXCEPT !.pc = "done"]
    <3>1. Goes(new)
      BY <2>1, <2>6 DEF Goes
    <3>2. new.pc \in Free
      BY <1>3
    <3> HIDE DEF new
    <3> QED BY <1>2, <3>1, <3>2
  <2> QED BY <2>2, <2>4, <2>5, <2>6
<1> QED
  BY <1>5, <1>6, <1>7, <1>8, <1>9, <1>10 DEF Resume

LEMMA ResumePlaces ==
  ASSUME TypeOK, Honest, LedgerKept, Spawners, ClosedIsArchived, NEW p \in Coroutines, Resume(p)
  PROVE  Spawners' /\ ClosedIsArchived'
<1>1. \A k \in Kids : SameCard(k)
  BY ResumeCards
<1>2. /\ \A q \in Coroutines \ {p} : co'[q] = co[q]
      /\ co'[p].pc \notin SpawnPCs /\ active' = active /\ archived' = archived
  BY ResumeHands
<1>3. Todo(p)' = {} /\ Held(p)' = {} /\ Hands(p)' = {} /\ Untouched(p)' = {}
  BY <1>2 DEF Todo, Held, Hands, Untouched, SpawnPCs
<1>4. /\ ClosedIsArchived'
      /\ \A k \in Kids : kid'[k].run = kid[k].run /\ (Unspawned(k) => Unspawned(k)')
  BY <1>1, <1>2, PlacesKept
<1> QED BY <1>2, <1>3, <1>4, HandsStep

\* What the owner, a close, a cancel and OpenClaw do.
LEMMA CommandPlaces ==
  ASSUME TypeOK, Honest, Spawners, ClosedIsArchived,
         \/ Cancel
         \/ \E x \in Cancellers : CancellerStep(x)
         \/ \E c \in Clicks : \E k \in Kids : Close(c, k)
         \/ \E c \in Clicks : CloserStep(c)
         \/ \E s \in Sessions : TaskStarts(s) \/ TaskEnds(s)
  PROVE  Spawners' /\ ClosedIsArchived'
<1>1. active' = active /\ co' = co
  <2>1. CASE Cancel \/ \E x \in Cancellers : CancellerStep(x)
    BY <2>1 DEF Cancel, CancellerStep, CancelLists, CancelListed, CancelTask, CancelEnds
  <2>2. ASSUME NEW c \in Clicks, NEW k \in Kids, Close(c, k) PROVE active' = active /\ co' = co
    BY <2>2 DEF Close
  <2>3. ASSUME NEW c \in Clicks, CloserStep(c) PROVE active' = active /\ co' = co
    BY <2>3 DEF CloserStep, CloseSent, CloseArchived, CloseFails
  <2>4. ASSUME NEW s \in Sessions, TaskStarts(s) \/ TaskEnds(s) PROVE active' = active /\ co' = co
    BY <2>4 DEF TaskStarts, TaskEnds
  <2> QED BY <2>1, <2>2, <2>3, <2>4
<1>2. ASSUME \A k \in Kids : SameCard(k), archived \subseteq archived'
      PROVE  Spawners' /\ ClosedIsArchived'
  BY <1>1, <1>2, PlacesKept, HandsRest
<1>3. CASE UNCHANGED <<kid, archived>>
  BY <1>2, <1>3 DEF SameCard
<1>4. ASSUME NEW x \in Cancellers, CancelEnds(x)
      PROVE  Spawners' /\ ClosedIsArchived'
  <2>1. kid' = Settle(kid, KidsOf(active), "cancelled") /\ archived' = archived
    BY <1>4 DEF CancelEnds, upstream
  <2> QED BY <1>2, <2>1, CardsSettled DEF SameCard, TypeOK
<1>5. ASSUME NEW c \in Clicks, NEW k \in Kids, Close(c, k)
      PROVE  Spawners' /\ ClosedIsArchived'
  <2>1. PICK s : kid' = [kid EXCEPT ![k] = [@ EXCEPT !.closeReq = TRUE, !.status = s]]
    BY <1>5 DEF Close
  <2>2. archived' = archived
    BY <1>5 DEF Close, upstream
  <2>3. \A j \in Kids : SameCard(j)
    BY <2>1, CardKept
  <2> QED BY <1>2, <2>2, <2>3
<1>6. ASSUME NEW c \in Clicks, CloseFails(c)
      PROVE  Spawners' /\ ClosedIsArchived'
  <2>1. archived \subseteq archived'
    BY <1>6 DEF CloseFails, ArchiveRaises
  <2>2. kid' = [kid EXCEPT ![closer[c].kid] = [@ EXCEPT !.closeReq = FALSE, !.status = closer[c].prev]]
    BY <1>6 DEF CloseFails
  <2>3. \A j \in Kids : SameCard(j)
    BY <2>2, CardKept
  <2> QED BY <1>2, <2>1, <2>3
<1>7. ASSUME NEW c \in Clicks, CloseArchived(c)
      PROVE  Spawners' /\ ClosedIsArchived'
  <2> DEFINE k == closer[c].kid
             new == IF closer[c].prev \in Terminal THEN kid[k].status ELSE "cancelled"
  <2>1. /\ kid[k].sess # 0 /\ archived' = archived \union {kid[k].sess}
        /\ kid' = [kid EXCEPT ![k] = [@ EXCEPT !.closed = TRUE, !.status = new]]
    BY <1>7 DEF CloseArchived
  <2> HIDE DEF k, new
  <2>2. ASSUME NEW j \in Kids
        PROVE  /\ kid'[j].run = kid[j].run /\ kid'[j].sess = kid[j].sess
               /\ j # k => kid'[j] = kid[j]
    <3>1. kid[j] \in KidType
      BY DEF TypeOK
    <3>2. /\ [kid[j] EXCEPT !.closed = TRUE, !.status = new].run = kid[j].run
          /\ [kid[j] EXCEPT !.closed = TRUE, !.status = new].sess = kid[j].sess
      BY <3>1 DEF KidType
    <3> QED BY <2>1, <3>2 DEF TypeOK
  <2>3. \A j \in Kids : Unspawned(j) => Unspawned(j)'
    BY <2>1, <2>2 DEF Unspawned
  <2>4. ClosedIsArchived'
    BY <2>1, <2>2 DEF ClosedIsArchived
  <2> QED BY <1>1, <2>2, <2>3, <2>4, HandsRest
<1> QED
  BY <1>3, <1>4, <1>5, <1>6, <1>7
  DEF Cancel, CancellerStep, CancelLists, CancelListed, CancelTask, CloserStep, CloseSent,
      TaskStarts, TaskEnds, upstream

\* An interrupt takes the children out of the hands of execute.
LEMMA InterruptPlaces ==
  ASSUME TypeOK, Spawners, ClosedIsArchived,
         InterruptedAgain \/ \E p \in Coroutines : Interrupted(p)
  PROVE  Spawners' /\ ClosedIsArchived'
<1>1. CASE InterruptedAgain
  <2>1. \A k \in Kids : SameCard(k)
    BY <1>1, AgainEffect DEF SameCard
  <2>2. active' = active /\ co' = co /\ archived' = archived
    BY <1>1, AgainEffect
  <2> QED BY <2>1, <2>2, PlacesKept, HandsRest
<1>2. ASSUME NEW p \in Coroutines, Interrupted(p)
      PROVE  Spawners' /\ ClosedIsArchived'
  <2>1. \A k \in Kids : SameCard(k)
    BY <1>2, InterruptEffect DEF SameCard
  <2>2. /\ \A q \in Coroutines \ {p} : co'[q] = co[q]
        /\ co'[p].pc = "done" /\ active' = active /\ archived \subseteq archived'
    BY <1>2, InterruptEffect
  <2>3. Todo(p)' = {} /\ Held(p)' = {} /\ Hands(p)' = {} /\ Untouched(p)' = {}
    BY <2>2 DEF Todo, Held, Hands, Untouched, SpawnPCs
  <2>4. /\ ClosedIsArchived'
        /\ \A k \in Kids : kid'[k].run = kid[k].run /\ (Unspawned(k) => Unspawned(k)')
    BY <2>1, <2>2, PlacesKept
  <2> QED BY <2>2, <2>3, <2>4, HandsStep
<1> QED BY <1>1, <1>2

\* _spawn_child takes up the next child, or the coroutine is done with them.
LEMMA SpawnNextPlaces ==
  ASSUME TypeOK, Spawners, ClosedIsArchived, NEW p \in Coroutines,
         co[p].pc \in {"created", "spawned"}, SpawnNext(p, Todo(p)), UNCHANGED <<active, archived>>
  PROVE  Spawners' /\ ClosedIsArchived'
<1>1. co[p] \in CoType /\ co \in [Coroutines -> CoType] /\ kid \in [Kids -> KidType]
  BY DEF TypeOK
<1>2. Hands(p) = Todo(p) /\ Todo(p) \subseteq Kids /\ Untouched(p) = Todo(p)
  BY DEF Hands, Held, Untouched, Spawners, UsedKids
<1>3. ASSUME NEW k \in First(Todo(p)), NEW pc \in {"spawned", "spawning"}, NEW card,
             co' = [co EXCEPT ![p] = [@ EXCEPT !.pc = pc, !.kid = k, !.todo = Todo(p) \ {k}]],
             kid' = [kid EXCEPT ![k] = card], card.run = kid[k].run, card.sess = kid[k].sess,
             pc = "spawning" => (card.closed <=> kid[k].closed)
      PROVE  Spawners' /\ ClosedIsArchived'
  <2>1. k \in Todo(p) /\ k \in Kids /\ Unspawned(k)
    BY <1>2, <1>3 DEF First, Spawners
  <2>2. /\ [co[p] EXCEPT !.pc = pc, !.kid = k, !.todo = Todo(p) \ {k}].pc = pc
        /\ [co[p] EXCEPT !.pc = pc, !.kid = k, !.todo = Todo(p) \ {k}].kid = k
        /\ [co[p] EXCEPT !.pc = pc, !.kid = k, !.todo = Todo(p) \ {k}].todo = Todo(p) \ {k}
    BY <1>1 DEF CoType
  <2>3. /\ co'[p].pc = pc /\ co'[p].kid = k /\ co'[p].todo = Todo(p) \ {k}
        /\ \A q \in Coroutines \ {p} : co'[q] = co[q]
    BY <1>1, <1>3, <2>2
  <2>4. Todo(p)' = Todo(p) \ {k} /\ Held(p)' = (IF pc = "spawning" THEN {k} ELSE {})
    BY <1>3, <2>3 DEF Todo, Held, SpawnPCs
  <2>5. \A j \in Kids : /\ kid'[j].run = kid[j].run /\ kid'[j].sess = kid[j].sess
                        /\ j # k => kid'[j] = kid[j]
    BY <1>1, <1>3
  <2>6. \A j \in Kids : j # k /\ Unspawned(j) => Unspawned(j)'
    BY <2>5 DEF Unspawned
  <2>7. pc = "spawning" => Unspawned(k)'
    BY <1>1, <1>3, <2>1 DEF Unspawned
  <2>8. Hands(p)' \subseteq Hands(p) /\ Todo(p)' \intersect Held(p)' = {}
    BY <1>2, <2>1, <2>4 DEF Hands
  <2>9. \A j \in Untouched(p)' : Unspawned(j)'
    BY <1>2, <2>3, <2>4, <2>6, <2>7 DEF Untouched, Spawners
  <2>10. \A j \in Kids : Unspawned(j) /\ j \notin Hands(p) => Unspawned(j)'
    BY <1>2, <2>1, <2>6
  <2>11. Spawners'
    BY <2>3, <2>5, <2>8, <2>9, <2>10, HandsStep
  <2>12. ClosedIsArchived'
    BY <2>1, <2>5 DEF ClosedIsArchived, Unspawned
  <2> QED BY <2>11, <2>12
<1>4. ASSUME UNCHANGED kid, \A q \in Coroutines \ {p} : co'[q] = co[q], co'[p].pc \notin SpawnPCs
      PROVE  Spawners' /\ ClosedIsArchived'
  <2>1. Todo(p)' = {} /\ Held(p)' = {} /\ Hands(p)' = {} /\ Untouched(p)' = {}
    BY <1>4 DEF Todo, Held, Hands, Untouched, SpawnPCs
  <2>2. \A j \in Kids : SameCard(j)
    BY <1>4 DEF SameCard
  <2>3. /\ ClosedIsArchived'
        /\ \A j \in Kids : kid'[j].run = kid[j].run /\ (Unspawned(j) => Unspawned(j)')
    BY <2>2, PlacesKept
  <2> QED BY <1>4, <2>1, <2>3, HandsStep
<1>5. CASE \E k \in First(Todo(p)) :
             /\ kid' = [kid EXCEPT ![k] = [@ EXCEPT !.status = "cancelled", !.closed = kid[k].closeReq]]
             /\ co' = [co EXCEPT ![p] = [@ EXCEPT !.pc = "spawned", !.kid = k, !.todo = Todo(p) \ {k}]]
  <2>1. PICK k \in First(Todo(p)) :
          /\ kid' = [kid EXCEPT ![k] = [@ EXCEPT !.status = "cancelled", !.closed = kid[k].closeReq]]
          /\ co' = [co EXCEPT ![p] = [@ EXCEPT !.pc = "spawned", !.kid = k, !.todo = Todo(p) \ {k}]]
    BY <1>5
  <2> DEFINE card == [kid[k] EXCEPT !.status = "cancelled", !.closed = kid[k].closeReq]
  <2>2. kid[k] \in KidType
    BY <1>1, <1>2 DEF First
  <2>3. card.run = kid[k].run /\ card.sess = kid[k].sess
    BY <2>2 DEF KidType
  <2>4. kid' = [kid EXCEPT ![k] = card]
    BY <2>1
  <2> HIDE DEF card
  <2> QED BY <1>3, <2>1, <2>3, <2>4
<1>6. CASE \E k \in First(Todo(p)) :
             /\ kid' = [kid EXCEPT ![k].status = "starting"]
             /\ co' = [co EXCEPT ![p] = [@ EXCEPT !.pc = "spawning", !.kid = k, !.todo = Todo(p) \ {k}]]
  <2>1. PICK k \in First(Todo(p)) :
          /\ kid' = [kid EXCEPT ![k].status = "starting"]
          /\ co' = [co EXCEPT ![p] = [@ EXCEPT !.pc = "spawning", !.kid = k, !.todo = Todo(p) \ {k}]]
    BY <1>6
  <2> DEFINE card == [kid[k] EXCEPT !.status = "starting"]
  <2>2. kid[k] \in KidType
    BY <1>1, <1>2 DEF First
  <2>3. card.run = kid[k].run /\ card.sess = kid[k].sess /\ (card.closed <=> kid[k].closed)
    BY <2>2 DEF KidType
  <2>4. kid' = [kid EXCEPT ![k] = card]
    BY <2>1
  <2> HIDE DEF card
  <2> QED BY <1>3, <2>1, <2>3, <2>4
<1>7. CASE co' = [co EXCEPT ![p] = [Off EXCEPT !.pc = "done"]] /\ UNCHANGED kid
  <2>1. [Off EXCEPT !.pc = "done"].pc = "done"
    BY OffTyped DEF CoroutinePCs
  <2> DEFINE new == [Off EXCEPT !.pc = "done"]
  <2> HIDE DEF new
  <2>2. new.pc \notin SpawnPCs
    BY <2>1 DEF new, SpawnPCs
  <2>3. co' = [co EXCEPT ![p] = new]
    BY <1>7 DEF new
  <2> QED BY <1>1, <1>4, <1>7, <2>2, <2>3
<1>8. CASE co' = [co EXCEPT ![p] = [@ EXCEPT !.pc = "launched", !.kid = 0]] /\ UNCHANGED kid
  <2> DEFINE new == [co[p] EXCEPT !.pc = "launched", !.kid = 0]
  <2>1. new.pc \notin SpawnPCs
    BY <1>1 DEF CoType, SpawnPCs
  <2>2. co' = [co EXCEPT ![p] = new]
    BY <1>8
  <2> HIDE DEF new
  <2> QED BY <1>1, <1>4, <1>8, <2>1, <2>2
<1> QED
  BY <1>5, <1>6, <1>7, <1>8 DEF SpawnNext

\* sessions_spawn answers, or the session of an unwanted child is archived: only
\* the child the coroutine is at gets another receipt or place.
LEMMA ReceiptPlaces ==
  ASSUME TypeOK, Honest, Spawners, ClosedIsArchived, NEW p \in Coroutines,
         co[p].pc \in {"spawning", "archiving"},
         NEW pc \in {"spawned", "archiving"}, co' = [co EXCEPT ![p].pc = pc], active' = active,
         archived \subseteq archived',
         NEW card, kid' = [kid EXCEPT ![co[p].kid] = card], card.run = kid[co[p].kid].run,
         card.closed => card.sess = 0 \/ card.sess \in archived'
  PROVE  Spawners' /\ ClosedIsArchived'
<1>1. co[p] \in CoType /\ co \in [Coroutines -> CoType] /\ kid \in [Kids -> KidType]
      /\ co[p].kid \in Kids
  BY DEF TypeOK, Honest, CoHonest
<1>2. /\ \A q \in Coroutines \ {p} : co'[q] = co[q]
      /\ co'[p].pc = pc /\ co'[p].kid = co[p].kid /\ co'[p].todo = co[p].todo
  BY <1>1 DEF CoType
<1>3. /\ Todo(p) = co[p].todo /\ Held(p) = {co[p].kid} /\ Todo(p)' = Todo(p)
      /\ Held(p)' \subseteq Held(p) /\ Untouched(p)' = Todo(p)
  BY <1>2 DEF Todo, Held, Untouched, SpawnPCs
<1>4. Todo(p) \subseteq Kids /\ co[p].kid \notin Todo(p) /\ Todo(p) \subseteq Untouched(p)
  BY <1>3 DEF Spawners, Hands, UsedKids, Untouched
<1>5. \A j \in Kids : kid'[j].run = kid[j].run /\ (j # co[p].kid => kid'[j] = kid[j])
  BY <1>1
<1>6. \A j \in Kids : j # co[p].kid /\ Unspawned(j) => Unspawned(j)'
  BY <1>5 DEF Unspawned
<1>7. Hands(p)' \subseteq Hands(p) /\ Todo(p)' \intersect Held(p)' = {}
  BY <1>3, <1>4 DEF Hands
<1>8. \A j \in Untouched(p)' : Unspawned(j)'
  BY <1>3, <1>4, <1>6 DEF Spawners
<1>9. \A j \in Kids : Unspawned(j) /\ j \notin Hands(p) => Unspawned(j)'
  BY <1>3, <1>6 DEF Hands
<1>10. Spawners'
  BY <1>2, <1>5, <1>7, <1>8, <1>9, HandsStep
<1>11. ClosedIsArchived'
  <2>1. \A j \in Kids : j = co[p].kid => kid'[j] = card
    BY <1>1
  <2> QED BY <1>5, <2>1 DEF ClosedIsArchived
<1> QED BY <1>10, <1>11

LEMMA StepPlaces ==
  ASSUME TypeOK, Honest, Spawners, ClosedIsArchived, NEW p \in Coroutines, Step(p)
  PROVE  Spawners' /\ ClosedIsArchived'
<1>1. CASE Begin(p)
  <2>1. co[p].pc = "created" /\ UNCHANGED <<active, archived>>
        /\ SpawnNext(p, IF p[1] = "execute" THEN KidsOf(active) ELSE co[p].todo)
    BY <1>1 DEF Begin, upstream
  <2>2. Todo(p) = IF p[1] = "execute" THEN KidsOf(active) ELSE co[p].todo
    BY <2>1 DEF Todo, SpawnPCs
  <2> QED BY <2>1, <2>2, SpawnNextPlaces
<1>2. CASE Spawned(p)
  <2>1. co[p].pc = "spawned" /\ UNCHANGED <<active, archived>> /\ SpawnNext(p, co[p].todo)
    BY <1>2 DEF Spawned, upstream
  <2>2. Todo(p) = co[p].todo
    BY <2>1 DEF Todo, SpawnPCs
  <2> QED BY <2>1, <2>2, SpawnNextPlaces
<1> DEFINE k == co[p].kid
<1>3. co[p].pc \in {"spawning", "archiving"} => k \in Kids /\ kid[k] \in KidType
  BY DEF TypeOK, Honest, CoHonest
<1>4. co[p].pc = "spawning" => ~kid[k].closed /\ kid[k].sess = 0
  BY DEF Spawners, Untouched, Held, Unspawned
<1> HIDE DEF k
<1>5. CASE Accepted(p)
  <2>1. PICK s \in FreshSessions, st \in {"cancelling", "running"}, pc \in {"archiving", "spawned"} :
          /\ kid' = [kid EXCEPT ![k] = [@ EXCEPT !.sess = s, !.status = st]]
          /\ co' = [co EXCEPT ![p].pc = pc]
    BY <1>5 DEF Accepted, k
  <2>2. co[p].pc = "spawning" /\ active' = active /\ archived' = archived
    BY <1>5 DEF Accepted
  <2> DEFINE card == [kid[k] EXCEPT !.sess = s, !.status = st]
  <2>3. card.run = kid[k].run /\ (card.closed <=> kid[k].closed)
    BY <1>3, <2>2 DEF KidType
  <2>4. kid' = [kid EXCEPT ![k] = card]
    BY <2>1
  <2> HIDE DEF card
  <2> QED BY <1>4, <2>1, <2>2, <2>3, <2>4, ReceiptPlaces DEF k
<1>6. CASE SpawnRefused(p)
  <2>1. /\ kid' = [kid EXCEPT ![k] = [@ EXCEPT !.status = "failed", !.sess = 0]]
        /\ co' = [co EXCEPT ![p].pc = "spawned"]
        /\ co[p].pc = "spawning" /\ active' = active /\ archived' = archived
    BY <1>6 DEF SpawnRefused, k, upstream
  <2> DEFINE card == [kid[k] EXCEPT !.status = "failed", !.sess = 0]
  <2>2. card.run = kid[k].run /\ card.sess = 0
    BY <1>3, <2>1 DEF KidType
  <2>3. kid' = [kid EXCEPT ![k] = card]
    BY <2>1
  <2> HIDE DEF card
  <2> QED BY <2>1, <2>2, <2>3, ReceiptPlaces DEF k
<1>7. CASE SpawnLost(p) \/ SpawnArchiveFails(p)
  <2>1. /\ kid' = [kid EXCEPT ![k].status = "failed"]
        /\ co' = [co EXCEPT ![p].pc = "spawned"]
        /\ co[p].pc \in {"spawning", "archiving"} /\ active' = active
    BY <1>7 DEF SpawnLost, SpawnArchiveFails, k
  <2>2. archived \subseteq archived'
    BY <1>7 DEF SpawnLost, SpawnArchiveFails, ArchiveRaises
  <2> DEFINE card == [kid[k] EXCEPT !.status = "failed"]
  <2>3. card.run = kid[k].run /\ card.sess = kid[k].sess /\ (card.closed <=> kid[k].closed)
    BY <1>3, <2>1 DEF KidType
  <2>4. kid' = [kid EXCEPT ![k] = card]
    BY <2>1
  <2> HIDE DEF card
  <2>5. card.closed => card.sess = 0 \/ card.sess \in archived'
    BY <1>3, <2>1, <2>2, <2>3 DEF ClosedIsArchived
  <2> QED BY <2>1, <2>2, <2>3, <2>4, <2>5, ReceiptPlaces DEF k
<1>8. CASE SpawnArchived(p)
  <2>1. /\ kid' = [kid EXCEPT ![k] = [@ EXCEPT !.status = "cancelled", !.closed = TRUE]]
        /\ archived' = archived \union {kid[k].sess}
        /\ co' = [co EXCEPT ![p].pc = "spawned"]
        /\ co[p].pc = "archiving" /\ active' = active
    BY <1>8 DEF SpawnArchived, k
  <2> DEFINE card == [kid[k] EXCEPT !.status = "cancelled", !.closed = TRUE]
  <2>2. card.run = kid[k].run /\ card.sess = kid[k].sess
    BY <1>3, <2>1 DEF KidType
  <2>3. kid' = [kid EXCEPT ![k] = card]
    BY <2>1
  <2> HIDE DEF card
  <2>4. archived \subseteq archived' /\ card.sess \in archived'
    BY <2>1, <2>2
  <2> QED BY <2>1, <2>2, <2>3, <2>4, ReceiptPlaces DEF k
<1> QED
  BY <1>1, <1>2, <1>5, <1>6, <1>7, <1>8 DEF Step

\* execute and add_child: a coroutine gets children nobody ever had.
LEMMA NewHands ==
  ASSUME TypeOK, Spawners, ClosedIsArchived, NEW p \in Coroutines,
         NEW S \in SUBSET (Kids \ UsedKids), NEW r \in 1..MaxRuns,
         \A q \in Coroutines : co[q].pc # "created",
         \A q \in Coroutines \ {p} : co'[q] = co[q],
         \A k \in Kids : kid'[k] = IF k \in S THEN [NoKid EXCEPT !.run = r] ELSE kid[k],
         active' \in Nat, active <= active', r <= active', archived' = archived,
         Todo(p)' = S, Held(p)' = {}
  PROVE  Spawners' /\ ClosedIsArchived'
<1>1. /\ [NoKid EXCEPT !.run = r].run = r /\ [NoKid EXCEPT !.run = r].sess = 0
      /\ [NoKid EXCEPT !.run = r].closed = FALSE
  BY DEF NoKid
<1>2. \A q \in Coroutines \ {p} : Todo(q)' = Todo(q) /\ Held(q)' = Held(q)
                                  /\ Hands(q)' = Hands(q) /\ Untouched(q)' = Untouched(q)
  <2> TAKE q \in Coroutines \ {p}
  <2>1. Todo(q)' = Todo(q) /\ Held(q)' = Held(q)
    BY DEF Todo, Held
  <2> QED BY <2>1 DEF Hands, Untouched
<1>3. Hands(p)' = S /\ Untouched(p)' = S
  BY DEF Hands, Untouched
<1>4. \A q \in Coroutines : Hands(q) \subseteq UsedKids /\ Untouched(q) \subseteq Hands(q)
                            /\ UsedKids \subseteq Kids
  BY DEF Spawners, Hands, Untouched, UsedKids
<1>0. r \in Nat /\ r # 0
  BY MultiAgentAssumption
<1>5. UsedKids \subseteq UsedKids' /\ S \subseteq UsedKids'
  <2>1. \A k \in S : kid'[k].run = r
    BY <1>1
  <2>2. \A k \in UsedKids : kid'[k] = kid[k]
    BY <1>4
  <2> QED BY <1>0, <2>1, <2>2 DEF UsedKids
<1>6. \A j \in Kids : Unspawned(j) \/ j \in S => Unspawned(j)'
  BY <1>1 DEF Unspawned
<1>7. \A q \in Coroutines : \A k \in Untouched(q)' : Unspawned(k)'
  BY <1>2, <1>3, <1>4, <1>6 DEF Spawners
<1>8. \A j \in Kids : kid'[j].run <= active'
  <2>1. active \in Nat /\ \A j \in Kids : kid[j].run \in Nat
    BY MultiAgentAssumption DEF TypeOK, KidType
  <2>2. \A j \in Kids \ S : kid'[j].run = kid[j].run /\ kid[j].run <= active
    BY DEF Spawners
  <2>3. \A j \in S : kid'[j].run = r
    BY <1>1
  <2> QED BY <2>1, <2>2, <2>3
<1>9. \A q, s \in Coroutines : q # s => Hands(q)' \intersect Hands(s)' = {}
  BY <1>2, <1>3, <1>4 DEF Spawners
<1>10. \A q \in Coroutines : Hands(q)' \subseteq UsedKids' /\ Todo(q)' \intersect Held(q)' = {}
  BY <1>2, <1>3, <1>4, <1>5 DEF Spawners
<1>11. Spawners'
  BY <1>7, <1>8, <1>9, <1>10 DEF Spawners
<1>12. ClosedIsArchived'
  BY <1>1 DEF ClosedIsArchived
<1> QED BY <1>11, <1>12

LEMMA StartPlaces ==
  ASSUME "backpressure" \notin Env, TypeOK, Spawners, ClosedIsArchived,
         PlanRun \/ ManualRun \/ AddChild
  PROVE  Spawners' /\ ClosedIsArchived'
<1>1. ASSUME IdleTurn PROVE \A q \in Coroutines : co[q].pc # "created"
  BY <1>1 DEF IdleTurn, Turn, Busy, Emitting
<1>2. ASSUME NEW n, NEW plan \in BOOLEAN, Execute(n, plan)
      PROVE  Spawners' /\ ClosedIsArchived'
  <2>0. PICK p, r : p = <<"execute", r>> /\ r = active + 1
    OBVIOUS
  <2>1. active \in Nat /\ r \in 1..MaxRuns /\ active' = r
        /\ \A q \in Coroutines : co[q].pc # "created"
    BY <1>1, <1>2, <2>0, MultiAgentAssumption DEF Execute, TypeOK
  <2>2. p \in Coroutines /\ p[1] = "execute"
    BY <2>0, <2>1 DEF Coroutines, Runs
  <2>3. NewKids(n) \in SUBSET (Kids \ UsedKids)
    BY DEF NewKids
  <2>4. /\ kid' = [k \in Kids |-> IF k \in NewKids(n) THEN [NoKid EXCEPT !.run = r] ELSE kid[k]]
        /\ co' = [co EXCEPT ![p].pc = "created"]
        /\ archived' = archived
    BY <1>2, <2>0 DEF Execute, upstream
  <2>5. co[p] \in CoType /\ co \in [Coroutines -> CoType]
    BY <2>2 DEF TypeOK
  <2>6. co'[p].pc = "created" /\ \A q \in Coroutines \ {p} : co'[q] = co[q]
    BY <2>2, <2>4, <2>5 DEF CoType
  <2>7. \A k \in Kids : kid'[k] = IF k \in NewKids(n) THEN [NoKid EXCEPT !.run = r] ELSE kid[k]
    BY <2>4
  <2>8. Todo(p)' = NewKids(n)
    <3>1. \A k \in Kids : kid[k].run <= active /\ kid[k].run \in Nat
      BY MultiAgentAssumption DEF Spawners, TypeOK, KidType
    <3>2. [NoKid EXCEPT !.run = r].run = r
      BY DEF NoKid
    <3>3. \A k \in Kids : kid'[k].run = r <=> k \in NewKids(n)
      <4>1. \A k \in Kids : k \in NewKids(n) => kid'[k].run = r
        BY <2>7, <3>2
      <4>2. \A k \in Kids : k \notin NewKids(n) => kid'[k].run = kid[k].run
        BY <2>7
      <4>3. \A k \in Kids : kid[k].run # r
        BY <2>0, <2>1, <3>1
      <4> QED BY <4>1, <4>2, <4>3
    <3>4. KidsOf(active)' = NewKids(n)
      BY <2>0, <2>1, <2>3, <3>3 DEF KidsOf
    <3> QED BY <2>2, <2>6, <3>4 DEF Todo
  <2>9. Held(p)' = {}
    BY <2>6 DEF Held
  <2>10. active' \in Nat /\ active <= active' /\ r <= active'
    BY <2>0, <2>1
  <2> QED BY <2>1, <2>2, <2>3, <2>4, <2>6, <2>7, <2>8, <2>9, <2>10, NewHands
<1>3. CASE AddChild
  <2>1. PICK k \in NewKids(1) :
          /\ kid' = [kid EXCEPT ![k] = [NoKid EXCEPT !.run = active]]
          /\ co' = [co EXCEPT ![<<"add", k>>] = [Off EXCEPT !.pc = "created", !.todo = {k}]]
    BY <1>3 DEF AddChild
  <2> DEFINE p == <<"add", k>>
             new == [Off EXCEPT !.pc = "created", !.todo = {k}]
  <2>2. k \in Kids \ UsedKids /\ active \in Nat /\ active \in 1..MaxRuns
        /\ active' = active /\ archived' = archived /\ \A q \in Coroutines : co[q].pc # "created"
    <3>1. k \in Kids \ UsedKids
      BY DEF NewKids
    <3>2. active \in 0..MaxRuns /\ active # 0 /\ IdleTurn /\ active' = active /\ archived' = archived
      BY <1>3 DEF AddChild, TypeOK, upstream
    <3> QED BY <1>1, <3>1, <3>2, MultiAgentAssumption
  <2>3. p \in Coroutines /\ p[1] = "add"
    BY <2>2 DEF Coroutines
  <2>4. new.pc = "created" /\ new.todo = {k}
    BY DEF Off
  <2> HIDE DEF p, new
  <2>5. co'[p] = new /\ \A q \in Coroutines \ {p} : co'[q] = co[q]
    BY <2>1, <2>3 DEF TypeOK, p, new
  <2>6. \A j \in Kids : kid'[j] = IF j \in {k} THEN [NoKid EXCEPT !.run = active] ELSE kid[j]
    BY <2>1, <2>2 DEF TypeOK
  <2>7. Todo(p)' = {k} /\ Held(p)' = {}
    BY <2>3, <2>4, <2>5 DEF Todo, Held, SpawnPCs
  <2> QED BY <2>2, <2>3, <2>5, <2>6, <2>7, NewHands
<1> QED
  BY <1>2, <1>3 DEF PlanRun, ManualRun

LEMMA InitPlaces == Init => Spawners /\ ClosedIsArchived
<1> SUFFICES ASSUME Init PROVE Spawners /\ ClosedIsArchived
  OBVIOUS
<1>1. \A k \in Kids : kid[k].run = 0 /\ kid[k].closed = FALSE
  BY DEF Init, NoKid
<1>2. \A p \in Coroutines : co[p].pc = "off"
  BY DEF Init, Off
<1>3. \A p \in Coroutines : Todo(p) = {} /\ Held(p) = {} /\ Hands(p) = {} /\ Untouched(p) = {}
  BY <1>2 DEF Todo, Held, Hands, Untouched, SpawnPCs
<1>4. active = 0
  BY DEF Init
<1> QED BY <1>1, <1>3, <1>4 DEF Spawners, ClosedIsArchived

LEMMA NextPlaces ==
  ASSUME "backpressure" \notin Env, TypeOK, Honest, Spawners, ClosedIsArchived, [Next]_vars
  PROVE  Spawners' /\ ClosedIsArchived'
<1>1. CASE UNCHANGED vars
  <2>1. active' = active /\ co' = co /\ kid' = kid /\ archived' = archived
    BY <1>1 DEF vars
  <2>2. \A k \in Kids : SameCard(k)
    BY <2>1 DEF SameCard
  <2> QED BY <2>1, <2>2, PlacesKept, HandsRest
<1>2. CASE PlanRun \/ ManualRun \/ AddChild
  BY <1>2, StartPlaces
<1>3. LedgerKept
  BY LedgerStep
<1>4. ASSUME NEW p \in Coroutines, Step(p) \/ Resume(p)
      PROVE  Spawners' /\ ClosedIsArchived'
  BY <1>3, <1>4, StepPlaces, ResumePlaces
<1>5. CASE \/ Cancel
           \/ \E x \in Cancellers : CancellerStep(x)
           \/ \E c \in Clicks : \E k \in Kids : Close(c, k)
           \/ \E c \in Clicks : CloserStep(c)
           \/ \E s \in Sessions : TaskStarts(s) \/ TaskEnds(s)
  BY <1>5, CommandPlaces
<1>6. CASE InterruptedAgain \/ \E p \in Coroutines : Interrupted(p)
  BY <1>6, InterruptPlaces
<1> QED
  BY <1>1, <1>2, <1>4, <1>5, <1>6 DEF Next

\* While sends do not suspend (section 5 of the README has the run in which they
\* do), a card is hidden only when its session is archived upstream or there is
\* none: for any runs, appended children, concurrent closes and cancels, and
\* whatever the gateway refuses, loses or fails to archive.
THEOREM HiddenIsArchived ==
  ASSUME "backpressure" \notin Env
  PROVE  Spec => []ClosedIsArchived
<1> DEFINE Typed == TypeOK /\ Honest
           Placed == Spawners /\ ClosedIsArchived
<1>1. Init => Placed
  BY InitPlaces
<1>2. Typed /\ Placed /\ [Next]_vars => Placed'
  BY NextPlaces
<1>3. Placed => ClosedIsArchived
  OBVIOUS
<1>4. Spec => []Typed
  BY HonestAlways
<1> HIDE DEF Typed, Placed
<1> QED
  BY <1>1, <1>2, <1>3, <1>4, PTL DEF Spec

-----------------------------------------------------------------------------
(***************************************************************************)
(* What the board promises once it is quiet.  It holds while sends do not  *)
(* suspend, archive calls succeed and runs do not overlap (the README has  *)
(* the runs in which it fails otherwise); first, what each action writes.  *)
(***************************************************************************)
Smooth == Env \intersect {"backpressure", "archive_fails", "overlap"} = {}

\* The children whose answer a poll has still to apply.
Polled(p) == IF co[p].pc \in {"listing", "recovering"} THEN co[p].todo ELSE {}

\* Only child k is written, but not its run, its close request and its history.
OnlyKid(k) ==
  /\ \A j \in Kids \ {k} : kid'[j] = kid[j]
  /\ kid'[k].run = kid[k].run
  /\ kid'[k].closeReq = kid[k].closeReq /\ kid'[k].cut = kid[k].cut

OnlyCo(p) == \A q \in Coroutines \ {p} : co'[q] = co[q]

LEMMA KidSet ==
  ASSUME TypeOK, NEW k \in Kids, NEW new, kid' = [kid EXCEPT ![k] = new],
         new.run = kid[k].run, new.closeReq = kid[k].closeReq /\ new.cut = kid[k].cut
  PROVE  kid'[k] = new /\ OnlyKid(k)
  BY DEF TypeOK, OnlyKid

LEMMA CoSet ==
  ASSUME TypeOK, NEW p \in Coroutines, NEW new, co' = [co EXCEPT ![p] = new]
  PROVE  co'[p] = new /\ OnlyCo(p)
  BY DEF TypeOK, OnlyCo

\* The fields of a child and of a coroutine after the updates the actions make.
LEMMA CardFields ==
  ASSUME TypeOK, NEW k \in Kids, NEW st, NEW s, NEW b
  PROVE  /\ \A new \in {[kid[k] EXCEPT !.status = st], [kid[k] EXCEPT !.status = st, !.closed = b],
                        [kid[k] EXCEPT !.closed = b, !.status = st], [kid[k] EXCEPT !.sess = s, !.status = st],
                        [kid[k] EXCEPT !.status = st, !.sess = s]} :
              /\ new.run = kid[k].run /\ new.closeReq = kid[k].closeReq /\ new.cut = kid[k].cut /\ new.status = st
         /\ [kid[k] EXCEPT !.status = st].sess = kid[k].sess
         /\ [kid[k] EXCEPT !.status = st].closed = kid[k].closed
         /\ [kid[k] EXCEPT !.status = st, !.closed = b].sess = kid[k].sess
         /\ [kid[k] EXCEPT !.status = st, !.closed = b].closed = b
         /\ [kid[k] EXCEPT !.closed = b, !.status = st].sess = kid[k].sess
         /\ [kid[k] EXCEPT !.closed = b, !.status = st].closed = b
         /\ [kid[k] EXCEPT !.sess = s, !.status = st].sess = s
         /\ [kid[k] EXCEPT !.sess = s, !.status = st].closed = kid[k].closed
         /\ [kid[k] EXCEPT !.status = st, !.sess = s].sess = s
         /\ [kid[k] EXCEPT !.status = st, !.sess = s].closed = kid[k].closed
<1>1. kid[k] \in KidType
  BY DEF TypeOK
<1> QED BY <1>1 DEF KidType

LEMMA CoFieldsSet ==
  ASSUME TypeOK, NEW p \in Coroutines, NEW pc, NEW k, NEW t, NEW r, NEW a
  PROVE  /\ [co[p] EXCEPT !.pc = pc].pc = pc
         /\ [co[p] EXCEPT !.pc = pc].kid = co[p].kid
         /\ [co[p] EXCEPT !.pc = pc].todo = co[p].todo
         /\ [co[p] EXCEPT !.pc = pc].run = co[p].run
         /\ [co[p] EXCEPT !.pc = pc].asked = co[p].asked
         /\ [co[p] EXCEPT !.pc = pc, !.kid = k, !.todo = t].pc = pc
         /\ [co[p] EXCEPT !.pc = pc, !.kid = k, !.todo = t].kid = k
         /\ [co[p] EXCEPT !.pc = pc, !.kid = k, !.todo = t].todo = t
         /\ [co[p] EXCEPT !.pc = pc, !.kid = k].pc = pc
         /\ [co[p] EXCEPT !.pc = pc, !.todo = t].pc = pc
         /\ [co[p] EXCEPT !.pc = pc, !.todo = t].todo = t
         /\ [co[p] EXCEPT !.pc = pc, !.todo = t].asked = co[p].asked
         /\ [co[p] EXCEPT !.pc = pc, !.todo = t, !.asked = a].pc = pc
         /\ [co[p] EXCEPT !.pc = pc, !.todo = t, !.asked = a].todo = t
         /\ [co[p] EXCEPT !.pc = pc, !.todo = t, !.asked = a].asked = a
         /\ [co[p] EXCEPT !.pc = pc, !.run = r, !.kid = k, !.todo = t].pc = pc
         /\ [co[p] EXCEPT !.pc = pc, !.run = r, !.kid = k, !.todo = t].run = r
         /\ [co[p] EXCEPT !.pc = pc, !.run = r, !.kid = k, !.todo = t].kid = k
         /\ [co[p] EXCEPT !.pc = pc, !.run = r, !.kid = k, !.todo = t].todo = t
         /\ [Off EXCEPT !.pc = pc].pc = pc
         /\ [Off EXCEPT !.pc = pc].kid = 0
         /\ [Off EXCEPT !.pc = pc].todo = {}
<1>1. co[p] \in CoType
  BY DEF TypeOK
<1> QED BY <1>1 DEF CoType, Off

\* _spawn_child takes up child k of those the coroutine has left.
Takes(p, k) ==
  /\ k \in Todo(p)
  /\ OnlyKid(k) /\ kid'[k].sess = kid[k].sess
  /\ co'[p].kid = k /\ co'[p].todo = Todo(p) \ {k}
  /\ run' = run
  /\ \/ Refused(k) /\ kid'[k].status = "cancelled" /\ co'[p].pc = "spawned"
     \/ ~Refused(k) /\ kid'[k].status = "starting" /\ kid'[k].closed = kid[k].closed
        /\ co'[p].pc = "spawning"

LEMMA TakesEffect ==
  ASSUME TypeOK, Spawners, NEW p \in Coroutines, Begin(p) \/ Spawned(p)
  PROVE  /\ co[p].pc \in {"created", "spawned"}
         /\ OnlyCo(p)
         /\ UNCHANGED <<active, flag, closer, canceller, task, owner, archived>>
         /\ \/ \E k \in Kids : Takes(p, k)
            \/ /\ Todo(p) = {} /\ p[1] = "add" /\ co'[p].pc = "done"
               /\ UNCHANGED <<run, kid>>
            \/ /\ Todo(p) = {} /\ p[1] = "execute" /\ co'[p].pc = "launched"
               /\ run' = [run EXCEPT ![active].status = Aggregate(active, kid)]
               /\ UNCHANGED kid
<1>1. co[p].pc \in {"created", "spawned"} /\ SpawnNext(p, Todo(p))
      /\ UNCHANGED <<active, flag, closer, canceller, task, owner, archived>>
  <2>1. CASE Begin(p)
    BY <2>1 DEF Begin, Todo, SpawnPCs, upstream
  <2>2. CASE Spawned(p)
    BY <2>2 DEF Spawned, Todo, SpawnPCs, upstream
  <2> QED BY <2>1, <2>2
<1>2. Todo(p) \subseteq Kids
  BY DEF Spawners, Hands, UsedKids
<1>3. CASE \E k \in First(Todo(p)) :
             /\ Refused(k) /\ run' = run
             /\ kid' = [kid EXCEPT ![k] = [@ EXCEPT !.status = "cancelled", !.closed = kid[k].closeReq]]
             /\ co' = [co EXCEPT ![p] = [@ EXCEPT !.pc = "spawned", !.kid = k, !.todo = Todo(p) \ {k}]]
  <2>1. PICK k \in First(Todo(p)) :
             /\ Refused(k) /\ run' = run
             /\ kid' = [kid EXCEPT ![k] = [@ EXCEPT !.status = "cancelled", !.closed = kid[k].closeReq]]
             /\ co' = [co EXCEPT ![p] = [@ EXCEPT !.pc = "spawned", !.kid = k, !.todo = Todo(p) \ {k}]]
    BY <1>3
  <2>2. k \in Todo(p) /\ k \in Kids
    BY <1>2 DEF First
  <2> DEFINE new == [kid[k] EXCEPT !.status = "cancelled", !.closed = kid[k].closeReq]
             here == [co[p] EXCEPT !.pc = "spawned", !.kid = k, !.todo = Todo(p) \ {k}]
  <2>3. new.run = kid[k].run /\ new.closeReq = kid[k].closeReq /\ new.cut = kid[k].cut /\ new.status = "cancelled"
        /\ new.sess = kid[k].sess
    BY <2>2, CardFields
  <2>4. here.pc = "spawned" /\ here.kid = k /\ here.todo = Todo(p) \ {k}
    BY CoFieldsSet
  <2>5. kid' = [kid EXCEPT ![k] = new] /\ co' = [co EXCEPT ![p] = here]
    BY <2>1
  <2> HIDE DEF new, here
  <2>6. kid'[k] = new /\ OnlyKid(k) /\ co'[p] = here /\ OnlyCo(p)
    BY <2>2, <2>3, <2>5, KidSet, CoSet
  <2>7. Takes(p, k)
    BY <2>1, <2>2, <2>3, <2>4, <2>6 DEF Takes
  <2> QED BY <1>1, <2>2, <2>6, <2>7
<1>4. CASE \E k \in First(Todo(p)) :
             /\ ~Refused(k) /\ run' = run
             /\ kid' = [kid EXCEPT ![k].status = "starting"]
             /\ co' = [co EXCEPT ![p] = [@ EXCEPT !.pc = "spawning", !.kid = k, !.todo = Todo(p) \ {k}]]
  <2>1. PICK k \in First(Todo(p)) :
             /\ ~Refused(k) /\ run' = run
             /\ kid' = [kid EXCEPT ![k].status = "starting"]
             /\ co' = [co EXCEPT ![p] = [@ EXCEPT !.pc = "spawning", !.kid = k, !.todo = Todo(p) \ {k}]]
    BY <1>4
  <2>2. k \in Todo(p) /\ k \in Kids
    BY <1>2 DEF First
  <2> DEFINE new == [kid[k] EXCEPT !.status = "starting"]
             here == [co[p] EXCEPT !.pc = "spawning", !.kid = k, !.todo = Todo(p) \ {k}]
  <2>3. new.run = kid[k].run /\ new.closeReq = kid[k].closeReq /\ new.cut = kid[k].cut /\ new.status = "starting"
        /\ new.sess = kid[k].sess /\ new.closed = kid[k].closed
    BY <2>2, CardFields
  <2>4. here.pc = "spawning" /\ here.kid = k /\ here.todo = Todo(p) \ {k}
    BY CoFieldsSet
  <2>5. kid' = [kid EXCEPT ![k] = new] /\ co' = [co EXCEPT ![p] = here]
    BY <2>1
  <2> HIDE DEF new, here
  <2>6. kid'[k] = new /\ OnlyKid(k) /\ co'[p] = here /\ OnlyCo(p)
    BY <2>2, <2>3, <2>5, KidSet, CoSet
  <2>7. Takes(p, k)
    BY <2>1, <2>2, <2>3, <2>4, <2>6 DEF Takes
  <2> QED BY <1>1, <2>2, <2>6, <2>7
<1>5. CASE /\ Todo(p) = {} /\ p[1] = "add" /\ co' = [co EXCEPT ![p] = [Off EXCEPT !.pc = "done"]]
           /\ UNCHANGED <<run, kid>>
  <2>1. co'[p] = [Off EXCEPT !.pc = "done"] /\ OnlyCo(p)
    BY <1>5, CoSet
  <2>2. [Off EXCEPT !.pc = "done"].pc = "done"
    BY CoFieldsSet
  <2> QED BY <1>1, <1>5, <2>1, <2>2
<1>6. CASE /\ Todo(p) = {} /\ p[1] = "execute"
           /\ run' = [run EXCEPT ![active].status = Aggregate(active, kid)]
           /\ co' = [co EXCEPT ![p] = [@ EXCEPT !.pc = "launched", !.kid = 0]]
           /\ UNCHANGED kid
  <2>1. co'[p] = [co[p] EXCEPT !.pc = "launched", !.kid = 0] /\ OnlyCo(p)
    BY <1>6, CoSet
  <2>2. [co[p] EXCEPT !.pc = "launched", !.kid = 0].pc = "launched"
    BY CoFieldsSet
  <2> QED BY <1>1, <1>6, <2>1, <2>2
<1> QED BY <1>1, <1>3, <1>4, <1>5, <1>6 DEF SpawnNext

\* A session is created for child k.
NewSession(s, k) ==
  /\ s \in Sessions /\ task[s] = "none" /\ task'[s] \in Unfinished /\ owner'[s] = k
  /\ \A t \in Sessions \ {s} : task'[t] = task[t] /\ owner'[t] = owner[t]

SameUpstream == task' = task /\ owner' = owner

LEMMA SessionMade ==
  ASSUME TypeOK, NEW s \in FreshSessions, NEW k, NEW st \in Unfinished,
         task' = [task EXCEPT ![s] = st], owner' = [owner EXCEPT ![s] = k]
  PROVE  NewSession(s, k)
  BY DEF TypeOK, FreshSessions, NewSession

\* sessions_spawn is accepted, refused or lost, or an unwanted session archived.
Accepts(p) ==
  LET k == co[p].kid
  IN  /\ co[p].pc = "spawning"
      /\ NewSession(kid'[k].sess, k)
      /\ kid'[k].closed = kid[k].closed /\ archived' = archived
      /\ \/ Refused(k) /\ kid'[k].status = "cancelling" /\ co'[p].pc = "archiving"
         \/ ~Refused(k) /\ kid'[k].status = "running" /\ co'[p].pc = "spawned"
GivesUp(p) ==
  LET k == co[p].kid
  IN  /\ co[p].pc = "spawning"
      /\ kid'[k].status = "failed" /\ kid'[k].sess = 0 /\ ~kid'[k].closed
      /\ co'[p].pc = "spawned" /\ archived' = archived
      /\ SameUpstream \/ \E s \in Sessions : NewSession(s, k)
Archives(p) ==
  LET k == co[p].kid
  IN  /\ co[p].pc = "archiving"
      /\ kid'[k].status = "cancelled" /\ kid[k].sess # 0 /\ kid'[k].sess = kid[k].sess
      /\ co'[p].pc = "spawned" /\ archived' = archived \union {kid[k].sess}
      /\ SameUpstream

LEMMA AnswerEffect ==
  ASSUME TypeOK, Honest, Spawners, NEW p \in Coroutines, "archive_fails" \notin Env,
         co[p].pc = "archiving" => kid[co[p].kid].sess # 0,
         Step(p), ~Begin(p), ~Spawned(p)
  PROVE  /\ co[p].kid \in Kids /\ co[p].pc \in {"spawning", "archiving"}
         /\ OnlyKid(co[p].kid) /\ OnlyCo(p)
         /\ co'[p].kid = co[p].kid /\ co'[p].todo = co[p].todo
         /\ UNCHANGED <<active, run, flag, closer, canceller>>
         /\ Accepts(p) \/ GivesUp(p) \/ Archives(p)
<1> DEFINE k == co[p].kid
<1>1. co[p].pc \in {"spawning", "archiving"} => k \in Kids
  BY DEF Honest, CoHonest
<1>2. co[p].pc = "spawning" => ~kid[k].closed /\ kid[k].sess = 0
  BY DEF Spawners, Untouched, Held, Unspawned
<1>3. k \in Kids /\ co[p].pc \in {"spawning", "archiving"}
      /\ UNCHANGED <<active, run, flag, closer, canceller>>
  BY <1>1 DEF Step, Accepted, SpawnRefused, SpawnLost, SpawnArchived, SpawnArchiveFails, upstream
<1> DEFINE Changes(card, pc) ==
             /\ kid' = [kid EXCEPT ![k] = card] /\ co' = [co EXCEPT ![p].pc = pc]
             /\ card.run = kid[k].run /\ card.closeReq = kid[k].closeReq /\ card.cut = kid[k].cut
<1>4. ASSUME NEW card, NEW pc, Changes(card, pc)
      PROVE  /\ kid'[k] = card /\ co'[p].pc = pc /\ OnlyKid(k) /\ OnlyCo(p)
             /\ co'[p].kid = co[p].kid /\ co'[p].todo = co[p].todo
  <2> DEFINE new == [co[p] EXCEPT !.pc = pc]
  <2>1. co' = [co EXCEPT ![p] = new]
    BY <1>4
  <2>2. new.pc = pc /\ new.kid = co[p].kid /\ new.todo = co[p].todo
    BY CoFieldsSet
  <2> HIDE DEF new
  <2>3. kid'[k] = card /\ OnlyKid(k)
    BY <1>3, <1>4, KidSet
  <2> QED BY <2>1, <2>2, <2>3, CoSet
<1>5. CASE Accepted(p)
  <2>1. PICK s \in FreshSessions, st \in {"running"} \union QueuedTasks :
          /\ co[p].pc = "spawning"
          /\ task' = [task EXCEPT ![s] = st] /\ owner' = [owner EXCEPT ![s] = k]
          /\ kid' = [kid EXCEPT ![k] = [@ EXCEPT !.sess = s,
                                         !.status = IF Refused(k) THEN "cancelling" ELSE "running"]]
          /\ co' = [co EXCEPT ![p].pc = IF Refused(k) THEN "archiving" ELSE "spawned"]
          /\ archived' = archived
    BY <1>5 DEF Accepted
  <2> DEFINE status == IF Refused(k) THEN "cancelling" ELSE "running"
             card == [kid[k] EXCEPT !.sess = s, !.status = status]
             pc == IF Refused(k) THEN "archiving" ELSE "spawned"
  <2>2. card.run = kid[k].run /\ card.closeReq = kid[k].closeReq /\ card.cut = kid[k].cut /\ card.status = status
        /\ card.sess = s /\ card.closed = kid[k].closed
    BY <1>3, CardFields
  <2>3. kid' = [kid EXCEPT ![k] = card] /\ co' = [co EXCEPT ![p].pc = pc]
    BY <2>1
  <2> HIDE DEF card
  <2>4. kid'[k] = card /\ co'[p].pc = pc /\ OnlyKid(k) /\ OnlyCo(p)
        /\ co'[p].kid = co[p].kid /\ co'[p].todo = co[p].todo
    BY <2>2, <2>3, <1>4
  <2>5. NewSession(s, k)
    BY <2>1, SessionMade DEF QueuedTasks, Unfinished
  <2>6. Accepts(p)
    BY <2>1, <2>2, <2>4, <2>5 DEF Accepts
  <2> QED BY <1>3, <2>4, <2>6
<1>6. CASE SpawnRefused(p)
  <2> DEFINE card == [kid[k] EXCEPT !.status = "failed", !.sess = 0]
  <2>1. /\ kid' = [kid EXCEPT ![k] = card] /\ co' = [co EXCEPT ![p].pc = "spawned"]
        /\ co[p].pc = "spawning" /\ archived' = archived /\ SameUpstream
    BY <1>6 DEF SpawnRefused, upstream, SameUpstream
  <2>2. card.run = kid[k].run /\ card.closeReq = kid[k].closeReq /\ card.cut = kid[k].cut /\ card.status = "failed"
        /\ card.sess = 0 /\ card.closed = kid[k].closed
    BY <1>3, CardFields
  <2> HIDE DEF card
  <2>4. kid'[k] = card /\ co'[p].pc = "spawned" /\ OnlyKid(k) /\ OnlyCo(p)
        /\ co'[p].kid = co[p].kid /\ co'[p].todo = co[p].todo
    BY <2>1, <2>2, <1>4
  <2>6. GivesUp(p)
    BY <1>2, <2>1, <2>2, <2>4 DEF GivesUp
  <2> QED BY <1>3, <2>4, <2>6
<1>7. CASE SpawnLost(p)
  <2> DEFINE card == [kid[k] EXCEPT !.status = "failed"]
  <2>1. /\ kid' = [kid EXCEPT ![k] = card] /\ co' = [co EXCEPT ![p].pc = "spawned"]
        /\ co[p].pc = "spawning" /\ archived' = archived
        /\ SameUpstream \/ \E s \in FreshSessions : /\ task' = [task EXCEPT ![s] = "running"]
                                                    /\ owner' = [owner EXCEPT ![s] = k]
    BY <1>7 DEF SpawnLost, SameUpstream
  <2>2. card.run = kid[k].run /\ card.closeReq = kid[k].closeReq /\ card.cut = kid[k].cut /\ card.status = "failed"
        /\ card.sess = kid[k].sess /\ card.closed = kid[k].closed
    BY <1>3, CardFields
  <2> HIDE DEF card
  <2>4. kid'[k] = card /\ co'[p].pc = "spawned" /\ OnlyKid(k) /\ OnlyCo(p)
        /\ co'[p].kid = co[p].kid /\ co'[p].todo = co[p].todo
    BY <2>1, <2>2, <1>4
  <2>5. SameUpstream \/ \E s \in Sessions : NewSession(s, k)
    BY <2>1, SessionMade DEF Unfinished, FreshSessions
  <2>6. GivesUp(p)
    BY <1>2, <2>1, <2>2, <2>4, <2>5 DEF GivesUp
  <2> QED BY <1>3, <2>4, <2>6
<1>8. CASE SpawnArchived(p)
  <2> DEFINE card == [kid[k] EXCEPT !.status = "cancelled", !.closed = TRUE]
  <2>1. /\ kid' = [kid EXCEPT ![k] = card] /\ co' = [co EXCEPT ![p].pc = "spawned"]
        /\ co[p].pc = "archiving" /\ archived' = archived \union {kid[k].sess} /\ SameUpstream
        /\ kid[k].sess # 0
    BY <1>8 DEF SpawnArchived, SameUpstream
  <2>2. card.run = kid[k].run /\ card.closeReq = kid[k].closeReq /\ card.cut = kid[k].cut /\ card.status = "cancelled"
        /\ card.sess = kid[k].sess
    BY <1>3, CardFields
  <2> HIDE DEF card
  <2>4. kid'[k] = card /\ co'[p].pc = "spawned" /\ OnlyKid(k) /\ OnlyCo(p)
        /\ co'[p].kid = co[p].kid /\ co'[p].todo = co[p].todo
    BY <2>1, <2>2, <1>4
  <2>6. Archives(p)
    BY <2>1, <2>2, <2>4 DEF Archives
  <2> QED BY <1>3, <2>4, <2>6
<1>9. ~SpawnArchiveFails(p)
  BY DEF SpawnArchiveFails, ArchiveRaises
<1> QED BY <1>5, <1>6, <1>7, <1>8, <1>9 DEF Step

-----------------------------------------------------------------------------
\* Only the active run has coroutines at work; those of earlier runs are done.
OneRun ==
  /\ \A r \in Runs : /\ r < active => co[<<"execute", r>>].pc = "done"
                     /\ r = active => co[<<"execute", r>>].pc # "off"
                     /\ r > active => co[<<"execute", r>>].pc = "off"
  /\ \A k \in Kids : /\ co[<<"add", k>>].pc \in SpawnPCs \union {"off", "done"}
                     /\ Alive(<<"add", k>>) => k \in KidsOf(active)
  /\ \A c \in Clicks : closer[c].pc # "idle" => closer[c].kid \in KidsOf(active)
  /\ \A x \in Cancellers : canceller[x].pc # "idle" => active \in Runs
  /\ canceller["task"].pc # "idle" => \A r \in Runs : ~Alive(<<"execute", r>>)
  /\ \A p \in Coroutines : /\ Hands(p) \union Polled(p) \subseteq KidsOf(active)
                           /\ co[p].pc = "returning" => co[p].todo = {} /\ co[p].kid = 0
                           /\ co[p].pc \in {"reporting", "synthesis"} => co[p].run = active

LEMMA CoroutineCases ==
  ASSUME NEW p \in Coroutines
  PROVE  \/ p[1] = "execute" /\ p[2] \in Runs /\ p = <<"execute", p[2]>>
         \/ p[1] = "add" /\ p[2] \in Kids /\ p = <<"add", p[2]>>
  BY DEF Coroutines

\* A coroutine of the active run: execute's own, or one of an appended child.
LEMMA AliveIsActive ==
  ASSUME TypeOK, OneRun, NEW p \in Coroutines, Alive(p)
  PROVE  /\ active \in Runs
         /\ p = <<"execute", active>> \/ (p[1] = "add" /\ p[2] \in KidsOf(active))
         /\ p[1] = "add" => co[p].pc \in SpawnPCs
<1>1. active \in Nat /\ \A r \in Runs : r \in Nat
  BY MultiAgentAssumption DEF TypeOK, Runs
<1>2. CASE p[1] = "execute" /\ p[2] \in Runs /\ p = <<"execute", p[2]>>
  <2>1. p[2] = active
    BY <1>1, <1>2 DEF OneRun, Alive
  <2>2. p = <<"execute", active>> /\ active \in Runs
    BY <1>2, <2>1
  <2>3. p[1] # "add"
    BY <1>2
  <2> QED BY <2>2, <2>3
<1>3. CASE p[1] = "add" /\ p[2] \in Kids /\ p = <<"add", p[2]>>
  <2>1. p[2] \in KidsOf(active) /\ co[p].pc \in SpawnPCs
    BY <1>3 DEF OneRun, Alive
  <2>2. active \in Runs
    BY <2>1, MultiAgentAssumption DEF KidsOf, TypeOK, Runs
  <2> QED BY <1>3, <2>1, <2>2
<1> QED BY <1>2, <1>3, CoroutineCases

LEMMA OnlyExecuteResumes ==
  ASSUME TypeOK, OneRun, NEW p \in Coroutines, Resume(p)
  PROVE  /\ p = <<"execute", active>> /\ active \in Runs /\ Alive(p)
         /\ co[p].pc \notin SpawnPCs
<1>1. co[p].pc \in {"launched", "sleeping", "listing", "recovering", "expired", "returning",
                    "reporting", "synthesis"}
  BY DEF Resume, LoopExits, LoopWaits, LoopAsks, AtLoopHead, ListFails, ListReplies, Expired,
         ManualReturns, Report, Synthesized
<1>2. Alive(p) /\ co[p].pc \notin SpawnPCs
  BY <1>1 DEF Alive, SpawnPCs
<1> QED BY <1>2, AliveIsActive

\* Child j keeps everything but its status; run r is the only one written.
Keeps(j) ==
  /\ kid'[j].run = kid[j].run /\ kid'[j].sess = kid[j].sess
  /\ kid'[j].closeReq = kid[j].closeReq /\ kid'[j].cut = kid[j].cut /\ kid'[j].closed = kid[j].closed
OnlyRun(r) == \A q \in Runs \ {r} : run'[q] = run[q]
StatusIs(r, st) == run'[r].status = st /\ OnlyRun(r)

LEMMA StatusSet ==
  ASSUME TypeOK, NEW r \in Runs, NEW st, run' = [run EXCEPT ![r].status = st]
  PROVE  StatusIs(r, st)
<1>1. run[r] \in [status : RunStatuses, plan : BOOLEAN]
  BY DEF TypeOK
<1> QED BY <1>1 DEF TypeOK, StatusIs, OnlyRun

\* Run r gets the status its children add up to.
Sums(r) ==
  /\ OnlyRun(r)
  /\ run'[r].status \in {"running", "synthesizing", "partial", "cancelled", "failed"}
  /\ run'[r].status = "partial" => /\ \E j \in KidsOf(r) : kid'[j].status = "succeeded"
                                   /\ \E j \in KidsOf(r) : kid'[j].status # "succeeded"

LEMMA SumsEffect ==
  ASSUME TypeOK, NEW r \in Runs, NEW K, \A j \in Kids : kid'[j].status = K[j].status,
         run' = [run EXCEPT ![r].status = Aggregate(r, K)]
  PROVE  Sums(r)
<1> DEFINE states == {K[j].status : j \in KidsOf(r)}
           st == Aggregate(r, K)
<1>1. /\ st \in {"running", "synthesizing", "partial", "cancelled", "failed"}
      /\ st = "partial" => "succeeded" \in states /\ states # {"succeeded"}
  BY DEF Aggregate
<1>2. run' = [run EXCEPT ![r].status = st]
  OBVIOUS
<1>3. \A j \in KidsOf(r) : kid'[j].status = K[j].status
  BY DEF KidsOf
<1> HIDE DEF st
<1>4. StatusIs(r, st)
  BY <1>2, StatusSet
<1>5. st = "partial" => /\ \E j \in KidsOf(r) : kid'[j].status = "succeeded"
                        /\ \E j \in KidsOf(r) : kid'[j].status # "succeeded"
  BY <1>1, <1>3
<1> QED BY <1>1, <1>4, <1>5 DEF Sums, StatusIs

LEMMA SettleFields ==
  ASSUME NEW K \in [Kids -> KidType], NEW S, NEW st, NEW j \in Kids
  PROVE  LET new == Settle(K, S, st)[j]
         IN  /\ new.run = K[j].run /\ new.sess = K[j].sess
             /\ new.closeReq = K[j].closeReq /\ new.cut = K[j].cut /\ new.closed = K[j].closed
             /\ new.status = IF j \in S /\ K[j].status \notin Terminal THEN st ELSE K[j].status
  BY DEF Settle, KidType

\* The wait loop is left.
Concludes(p) ==
  /\ \A j \in Kids : /\ Keeps(j)
                     /\ \/ kid'[j].status = kid[j].status
                        \/ "list_fails" \in Env /\ co[p].pc = "listing" /\ j \in co[p].todo /\ IsLive(j)
                           /\ kid'[j].status = "failed"
                        \/ flag /\ j \in KidsOf(active) /\ IsLive(j) /\ kid'[j].status = "cancelled"
                     /\ flag /\ j \in KidsOf(active) => kid'[j].status \in Terminal
  /\ co'[p].pc = "returning" /\ co'[p].todo = {} /\ co'[p].kid = 0
  /\ Sums(active)

LEMMA ConcludeEffect ==
  ASSUME TypeOK, NEW p \in Coroutines, active \in Runs,
         NEW K \in [Kids -> KidType], Conclude(p, K),
         \/ K = kid
         \/ "list_fails" \in Env /\ co[p].pc = "listing" /\ K = Settle(kid, co[p].todo, "failed")
  PROVE  Concludes(p) /\ OnlyCo(p)
<1>1. kid \in [Kids -> KidType]
  BY DEF TypeOK
<1>2. Sums(active)
  <2> DEFINE K1 == IF flag THEN Settle(K, KidsOf(active), "cancelled") ELSE K
  <2>1. kid' = K1 /\ run' = [run EXCEPT ![active].status = Aggregate(active, K1)]
    BY DEF Conclude
  <2> HIDE DEF K1
  <2>2. \A j \in Kids : kid'[j].status = K1[j].status
    BY <2>1
  <2> QED BY <2>1, <2>2, SumsEffect
<1>3. /\ co'[p] = [Off EXCEPT !.pc = "returning"] /\ OnlyCo(p)
      /\ [Off EXCEPT !.pc = "returning"].pc = "returning"
      /\ [Off EXCEPT !.pc = "returning"].todo = {} /\ [Off EXCEPT !.pc = "returning"].kid = 0
  <2>1. /\ [Off EXCEPT !.pc = "returning"].pc = "returning"
        /\ [Off EXCEPT !.pc = "returning"].todo = {} /\ [Off EXCEPT !.pc = "returning"].kid = 0
    BY CoFieldsSet
  <2>2. co' = [co EXCEPT ![p] = [Off EXCEPT !.pc = "returning"]]
    BY DEF Conclude
  <2> QED BY <2>1, <2>2, CoSet
<1>4. kid' = IF flag THEN Settle(K, KidsOf(active), "cancelled") ELSE K
  BY DEF Conclude
<1>5. ASSUME NEW j \in Kids
      PROVE  /\ K[j].run = kid[j].run /\ K[j].sess = kid[j].sess
             /\ K[j].closeReq = kid[j].closeReq /\ K[j].cut = kid[j].cut /\ K[j].closed = kid[j].closed
             /\ \/ K[j].status = kid[j].status
                \/ "list_fails" \in Env /\ co[p].pc = "listing" /\ j \in co[p].todo /\ IsLive(j)
                   /\ K[j].status = "failed"
  BY <1>1, SettleFields DEF IsLive
<1>6. ASSUME NEW j \in Kids
      PROVE  /\ kid'[j].run = K[j].run /\ kid'[j].sess = K[j].sess
             /\ kid'[j].closeReq = K[j].closeReq /\ kid'[j].cut = K[j].cut /\ kid'[j].closed = K[j].closed
             /\ kid'[j].status = IF flag /\ j \in KidsOf(active) /\ K[j].status \notin Terminal
                                 THEN "cancelled" ELSE K[j].status
  BY <1>4, SettleFields
<1>7. "failed" \in Terminal /\ "cancelled" \in Terminal
  BY DEF Terminal
<1>8. ASSUME NEW j \in Kids
      PROVE  /\ Keeps(j)
             /\ \/ kid'[j].status = kid[j].status
                \/ "list_fails" \in Env /\ co[p].pc = "listing" /\ j \in co[p].todo /\ IsLive(j)
                   /\ kid'[j].status = "failed"
                \/ flag /\ j \in KidsOf(active) /\ IsLive(j) /\ kid'[j].status = "cancelled"
             /\ flag /\ j \in KidsOf(active) => kid'[j].status \in Terminal
  <2>1. Keeps(j)
    BY <1>5, <1>6 DEF Keeps
  <2> QED BY <1>5, <1>6, <1>7, <2>1 DEF IsLive
<1> QED BY <1>2, <1>3, <1>8 DEF Concludes

\* A poll's reply is applied, up to a child whose transcript is read.
Applies(p) ==
  /\ co[p].pc \in {"listing", "recovering"}
  /\ \A j \in Kids :
       /\ Keeps(j)
       /\ \/ kid'[j].status = kid[j].status
          \/ /\ j \in co[p].todo /\ j \notin Polled(p)' /\ ~kid[j].closeReq
             /\ kid'[j].status \in {task[co[p].asked[j].sess], co[p].asked[j].status}
          \/ /\ "timeout" \in Env
             /\ IsLive(j) \/ j \in co[p].todo
             /\ kid'[j].status = "timed_out"
  /\ Polled(p)' \subseteq co[p].todo
  /\ Polled(p)' # {} => co'[p].asked = co[p].asked
  /\ co'[p].pc \in {"recovering", "sleeping"} \union (IF "timeout" \in Env THEN {"expired"} ELSE {})
  /\ run' = run

LEMMA AppliedFields ==
  ASSUME TypeOK, NEW p, NEW S, NEW late \in BOOLEAN, NEW j \in Kids
  PROVE  LET new == Applied(p, S, late)[j]
         IN  /\ new.run = kid[j].run /\ new.sess = kid[j].sess
             /\ new.closeReq = kid[j].closeReq /\ new.cut = kid[j].cut /\ new.closed = kid[j].closed
             /\ \/ new.status = kid[j].status
                \/ /\ j \in S /\ ~kid[j].closeReq
                   /\ new.status \in {task[co[p].asked[j].sess], co[p].asked[j].status}
<1>1. kid[j] \in KidType
  BY DEF TypeOK
<1> DEFINE st == ReplyStatus(p, j, late)
           new == [kid[j] EXCEPT !.status = st]
<1>2. new.run = kid[j].run /\ new.sess = kid[j].sess /\ new.status = st
      /\ new.closeReq = kid[j].closeReq /\ new.cut = kid[j].cut /\ new.closed = kid[j].closed
  BY <1>1 DEF KidType
<1>3. Applied(p, S, late)[j] = IF j \in S /\ ~kid[j].closeReq THEN new ELSE kid[j]
  BY DEF Applied
<1>4. st \in {task[co[p].asked[j].sess], co[p].asked[j].status}
  BY DEF ReplyStatus
<1> HIDE DEF new, st
<1> QED BY <1>2, <1>3, <1>4

LEMMA ApplyEffect ==
  ASSUME TypeOK, Honest, LedgerKept, NEW p \in Coroutines, ListReplies(p)
  PROVE  Applies(p) /\ OnlyCo(p)
<1>1. co[p].pc \in {"listing", "recovering"} /\ run' = run
  BY DEF ListReplies
<1>2. co[p].todo \subseteq Kids /\ co[p].todo \subseteq DOMAIN co[p].asked
  BY <1>1 DEF TypeOK, CoType, Honest, CoHonest
<1>3. PICK late \in BOOLEAN :
       \/ \E k \in {j \in co[p].todo : ~kid[j].closeReq /\ ReplyStatus(p, j, late) = "succeeded"} :
            /\ kid' = Applied(p, {j \in co[p].todo : j <= k}, late)
            /\ co' = [co EXCEPT ![p] = [@ EXCEPT !.pc = "recovering",
                                                  !.todo = {j \in co[p].todo : j > k}]]
       \/ /\ kid' = Applied(p, co[p].todo, late)
          /\ co' = [co EXCEPT ![p] = [Off EXCEPT !.pc = "sleeping"]]
       \/ /\ "timeout" \in Env
          /\ kid' = Settle(Applied(p, co[p].todo, late), DOMAIN co[p].asked, "timed_out")
          /\ co' = [co EXCEPT ![p] = [Off EXCEPT !.pc = "expired"]]
  BY DEF ListReplies
<1>4. ASSUME NEW S, NEW j \in Kids
      PROVE  LET new == Applied(p, S, late)[j]
             IN  /\ new.run = kid[j].run /\ new.sess = kid[j].sess
                 /\ new.closeReq = kid[j].closeReq /\ new.cut = kid[j].cut /\ new.closed = kid[j].closed
                 /\ \/ new.status = kid[j].status
                    \/ /\ j \in S /\ ~kid[j].closeReq
                       /\ new.status \in {task[co[p].asked[j].sess], co[p].asked[j].status}
  BY AppliedFields
<1>5. CASE \E k \in {j \in co[p].todo : ~kid[j].closeReq /\ ReplyStatus(p, j, late) = "succeeded"} :
            /\ kid' = Applied(p, {j \in co[p].todo : j <= k}, late)
            /\ co' = [co EXCEPT ![p] = [@ EXCEPT !.pc = "recovering",
                                                  !.todo = {j \in co[p].todo : j > k}]]
  <2>1. PICK k \in co[p].todo :
            /\ kid' = Applied(p, {j \in co[p].todo : j <= k}, late)
            /\ co' = [co EXCEPT ![p] = [@ EXCEPT !.pc = "recovering",
                                                  !.todo = {j \in co[p].todo : j > k}]]
    BY <1>5
  <2> DEFINE Now == {j \in co[p].todo : j <= k}
             Later == {j \in co[p].todo : j > k}
             new == [co[p] EXCEPT !.pc = "recovering", !.todo = Later]
  <2>2. Now \intersect Later = {} /\ Now \subseteq co[p].todo /\ Later \subseteq co[p].todo
    BY <1>2 DEF Kids
  <2>3. new.pc = "recovering" /\ new.todo = Later /\ new.asked = co[p].asked
    BY CoFieldsSet
  <2>4. kid' = Applied(p, Now, late) /\ co' = [co EXCEPT ![p] = new]
    BY <2>1
  <2> HIDE DEF Now, Later, new
  <2>5. co'[p] = new /\ OnlyCo(p)
    BY <2>4, CoSet
  <2>6. Polled(p)' = Later /\ Later \subseteq co[p].todo
    BY <2>2, <2>3, <2>5 DEF Polled
  <2>7. ASSUME NEW j \in Kids
        PROVE  /\ Keeps(j)
               /\ \/ kid'[j].status = kid[j].status
                  \/ /\ j \in co[p].todo /\ j \notin Polled(p)' /\ ~kid[j].closeReq
                     /\ kid'[j].status \in {task[co[p].asked[j].sess], co[p].asked[j].status}
    BY <1>4, <2>2, <2>4, <2>6 DEF Keeps
  <2> QED BY <1>1, <2>3, <2>5, <2>6, <2>7 DEF Applies
<1>6. ASSUME NEW pc \in {"sleeping", "expired"}, co' = [co EXCEPT ![p] = [Off EXCEPT !.pc = pc]]
      PROVE  co'[p].pc = pc /\ OnlyCo(p) /\ Polled(p)' = {}
  <2>1. co'[p] = [Off EXCEPT !.pc = pc] /\ OnlyCo(p)
    BY <1>6, CoSet
  <2>2. [Off EXCEPT !.pc = pc].pc = pc
    BY CoFieldsSet
  <2> QED BY <2>1, <2>2 DEF Polled
<1>7. CASE /\ kid' = Applied(p, co[p].todo, late)
           /\ co' = [co EXCEPT ![p] = [Off EXCEPT !.pc = "sleeping"]]
  <2>1. co'[p].pc = "sleeping" /\ OnlyCo(p) /\ Polled(p)' = {}
    BY <1>6, <1>7
  <2>2. ASSUME NEW j \in Kids
        PROVE  /\ Keeps(j)
               /\ \/ kid'[j].status = kid[j].status
                  \/ /\ j \in co[p].todo /\ j \notin Polled(p)' /\ ~kid[j].closeReq
                     /\ kid'[j].status \in {task[co[p].asked[j].sess], co[p].asked[j].status}
    BY <1>4, <1>7, <2>1 DEF Keeps
  <2> QED BY <1>1, <2>1, <2>2 DEF Applies
<1>8. CASE /\ "timeout" \in Env
           /\ kid' = Settle(Applied(p, co[p].todo, late), DOMAIN co[p].asked, "timed_out")
           /\ co' = [co EXCEPT ![p] = [Off EXCEPT !.pc = "expired"]]
  <2>1. co'[p].pc = "expired" /\ OnlyCo(p) /\ Polled(p)' = {}
    BY <1>6, <1>8
  <2> DEFINE K == Applied(p, co[p].todo, late)
  <2>2. K \in [Kids -> KidType]
    <3>1. co[p].todo \in SUBSET co[p].todo
      OBVIOUS
    <3> QED BY <1>1, <3>1, ReplyKept
  <2>3. ASSUME NEW j \in Kids
        PROVE  /\ K[j].run = kid[j].run /\ K[j].sess = kid[j].sess
               /\ K[j].closeReq = kid[j].closeReq /\ K[j].cut = kid[j].cut /\ K[j].closed = kid[j].closed
               /\ \/ K[j].status = kid[j].status
                  \/ /\ j \in co[p].todo /\ ~kid[j].closeReq
                     /\ K[j].status \in {task[co[p].asked[j].sess], co[p].asked[j].status}
    BY <1>4
  <2>4. kid' = Settle(K, DOMAIN co[p].asked, "timed_out")
    BY <1>8
  <2> HIDE DEF K
  <2>5. ASSUME NEW j \in Kids
        PROVE  /\ kid'[j].run = K[j].run /\ kid'[j].sess = K[j].sess
               /\ kid'[j].closeReq = K[j].closeReq /\ kid'[j].cut = K[j].cut /\ kid'[j].closed = K[j].closed
               /\ \/ kid'[j].status = K[j].status
                  \/ K[j].status \notin Terminal /\ kid'[j].status = "timed_out"
    BY <2>2, <2>4, SettleFields
  <2>6. ASSUME NEW j \in Kids
        PROVE  /\ Keeps(j)
               /\ \/ kid'[j].status = kid[j].status
                  \/ /\ j \in co[p].todo /\ j \notin Polled(p)' /\ ~kid[j].closeReq
                     /\ kid'[j].status \in {task[co[p].asked[j].sess], co[p].asked[j].status}
                  \/ /\ "timeout" \in Env
                     /\ IsLive(j) \/ j \in co[p].todo
                     /\ kid'[j].status = "timed_out"
    <3>1. Keeps(j)
      BY <2>3, <2>5 DEF Keeps
    <3> QED BY <1>8, <2>1, <2>3, <2>5, <3>1 DEF IsLive
  <2> QED BY <1>1, <1>8, <2>1, <2>6 DEF Applies
<1> QED BY <1>3, <1>5, <1>7, <1>8

\* The rest of execute and of its caller.
Waits(p) ==
  /\ co[p].pc \in {"launched", "sleeping"}
  /\ co'[p].pc = "sleeping" /\ kid' = kid /\ run' = run
Requests(p) ==
  /\ co[p].pc \in {"launched", "sleeping"}
  /\ co'[p].pc = "listing" /\ co'[p].todo = Pending /\ ~flag
  /\ co'[p].asked = [k \in Pending |-> [sess |-> kid[k].sess, status |-> task[kid[k].sess]]]
  /\ kid' = kid /\ run' = run
WonOf(r) == {k \in KidsOf(r) : kid[k].status = "succeeded"}
Tells(p) ==
  /\ co[p].pc \in {"returning", "reporting"}
  /\ LET won == {k \in WonOf(active) : k > co[p].kid}
     IN  \/ \E k \in First(won) : /\ co'[p].pc = "reporting" /\ co'[p].run = active /\ co'[p].kid = k
                                  /\ co'[p].todo = co[p].todo \union {k} /\ run' = run
         \/ won = {} /\ co[p].todo = {} /\ co'[p].pc = "done"
            /\ \E st \in {"cancelled", "failed"} : StatusIs(active, st)
         \/ won = {} /\ co[p].todo # {} /\ co'[p].pc = "synthesis" /\ co'[p].run = co[p].run
            /\ co'[p].todo = co[p].todo /\ StatusIs(active, "synthesizing")
  /\ kid' = kid
Finishes(p) ==
  /\ co'[p].pc = "done"
  /\ \/ co[p].pc = "returning" /\ StatusIs(active, FinalStatus(active))
     \/ co[p].pc = "synthesis"
        /\ \E st \in {"failed", IF co[p].todo = KidsOf(active) THEN "succeeded" ELSE "partial"} :
             StatusIs(active, st)
  /\ kid' = kid

LEMMA ResumeEffect ==
  ASSUME TypeOK, Honest, OneRun, LedgerKept, NEW p \in Coroutines, Resume(p)
  PROVE  /\ p = <<"execute", active>> /\ active \in Runs /\ OnlyCo(p)
         /\ UNCHANGED <<active, flag, closer, canceller, task, owner, archived>>
         /\ \/ /\ Concludes(p)
               /\ \/ co[p].pc \in {"launched", "sleeping"} /\ (flag \/ (Pending = {} /\ ~Spawning))
                  \/ "list_fails" \in Env /\ co[p].pc = "listing"
                  \/ co[p].pc = "expired"
            \/ Waits(p) \/ Requests(p) \/ Applies(p) \/ Tells(p) \/ Finishes(p)
<1>1. p = <<"execute", active>> /\ active \in Runs
  BY OnlyExecuteResumes
<1>2. UNCHANGED <<active, flag, closer, canceller, task, owner, archived>>
  BY DEF Resume, LoopExits, LoopWaits, LoopAsks, ListFails, ListReplies, Expired, ManualReturns,
         Report, Synthesized, upstream
<1>3. kid \in [Kids -> KidType]
  BY DEF TypeOK
<1>4. CASE LoopExits(p) \/ Expired(p)
  BY <1>1, <1>2, <1>3, <1>4, ConcludeEffect DEF LoopExits, Expired, AtLoopHead
<1>5. CASE ListFails(p)
  <2>1. Settle(kid, co[p].todo, "failed") \in [Kids -> KidType]
    BY <1>3, SettleTyped DEF Terminal
  <2> QED BY <1>1, <1>2, <1>5, <2>1, ConcludeEffect DEF ListFails
<1>6. CASE LoopWaits(p)
  <2>1. co'[p] = [co[p] EXCEPT !.pc = "sleeping"] /\ OnlyCo(p)
    BY <1>6, CoSet DEF LoopWaits
  <2>2. [co[p] EXCEPT !.pc = "sleeping"].pc = "sleeping"
    BY CoFieldsSet
  <2>3. Waits(p)
    BY <1>6, <2>1, <2>2 DEF Waits, LoopWaits, AtLoopHead
  <2> QED BY <1>1, <1>2, <2>1, <2>3
<1>7. CASE LoopAsks(p)
  <2> DEFINE a == [k \in Pending |-> [sess |-> kid[k].sess, status |-> task[kid[k].sess]]]
             new == [co[p] EXCEPT !.pc = "listing", !.todo = Pending, !.asked = a]
  <2>1. co' = [co EXCEPT ![p] = new]
    BY <1>7 DEF LoopAsks
  <2>2. new.pc = "listing" /\ new.todo = Pending /\ new.asked = a
    BY CoFieldsSet
  <2> HIDE DEF new
  <2>3. co'[p] = new /\ OnlyCo(p)
    BY <2>1, CoSet
  <2>4. Requests(p)
    BY <1>7, <2>2, <2>3 DEF Requests, LoopAsks, AtLoopHead
  <2> QED BY <1>1, <1>2, <2>3, <2>4
<1>8. CASE ListReplies(p)
  BY <1>1, <1>2, <1>8, ApplyEffect
<1>9. ASSUME NEW pc \in CoroutinePCs, co' = [co EXCEPT ![p] = [Off EXCEPT !.pc = pc]]
      PROVE  co'[p].pc = pc /\ OnlyCo(p)
  <2>1. [Off EXCEPT !.pc = pc].pc = pc
    BY CoFieldsSet
  <2> QED BY <1>9, <2>1, CoSet
<1>10. "done" \in CoroutinePCs
  BY DEF CoroutinePCs
<1>11. CASE ManualReturns(p)
  <2>1. co'[p].pc = "done" /\ OnlyCo(p)
    BY <1>9, <1>10, <1>11 DEF ManualReturns
  <2>2. StatusIs(active, FinalStatus(active))
    BY <1>1, <1>11, StatusSet DEF ManualReturns
  <2>3. Finishes(p)
    BY <1>11, <2>1, <2>2 DEF ManualReturns, Finishes
  <2> QED BY <1>1, <1>2, <2>1, <2>3
<1>12. CASE Synthesized(p)
  <2>1. co'[p].pc = "done" /\ OnlyCo(p)
    BY <1>9, <1>10, <1>12 DEF Synthesized
  <2>2. co[p].pc = "synthesis" /\ co[p].run = active /\ kid' = kid
    BY <1>12 DEF Synthesized, OneRun
  <2>3. PICK st \in {"failed", IF co[p].todo = KidsOf(active) THEN "succeeded" ELSE "partial"} :
          run' = [run EXCEPT ![active].status = st]
    BY <1>12, <2>2 DEF Synthesized
  <2>4. StatusIs(active, st)
    BY <1>1, <2>3, StatusSet
  <2>5. Finishes(p)
    BY <2>1, <2>2, <2>4 DEF Finishes
  <2> QED BY <1>1, <1>2, <2>1, <2>5
<1>13. CASE Report(p)
  <2> DEFINE won == {k \in WonOf(active) : k > co[p].kid}
  <2>1. co[p].pc \in {"returning", "reporting"} /\ kid' = kid
        /\ (co[p].pc = "reporting" => co[p].run = active)
    BY <1>13 DEF Report, OneRun
  <2>2. (IF co[p].pc = "reporting" THEN co[p].run ELSE active) = active
    BY <2>1
  <2>3. \/ /\ \E k \in First(won) :
                 co' = [co EXCEPT ![p] = [@ EXCEPT !.pc = "reporting", !.run = active, !.kid = k,
                                                   !.todo = co[p].todo \union {k}]]
           /\ UNCHANGED run
        \/ /\ won = {} /\ co[p].todo = {}
           /\ run' = [run EXCEPT ![active].status =
                        IF run[active].status = "cancelled" THEN "cancelled" ELSE "failed"]
           /\ co' = [co EXCEPT ![p] = [Off EXCEPT !.pc = "done"]]
        \/ /\ won = {} /\ co[p].todo # {}
           /\ run' = [run EXCEPT ![active].status = "synthesizing"]
           /\ co' = [co EXCEPT ![p].pc = "synthesis"]
    <3>1. {k \in KidsOf(active) : k > co[p].kid /\ kid[k].status = "succeeded"} = won
      BY DEF WonOf
    <3> QED BY <1>13, <2>2, <3>1 DEF Report
  <2> HIDE DEF won
  <2>4. CASE /\ \E k \in First(won) :
                 co' = [co EXCEPT ![p] = [@ EXCEPT !.pc = "reporting", !.run = active, !.kid = k,
                                                   !.todo = co[p].todo \union {k}]]
             /\ UNCHANGED run
    <3>1. PICK k \in First(won) :
            co' = [co EXCEPT ![p] = [@ EXCEPT !.pc = "reporting", !.run = active, !.kid = k,
                                              !.todo = co[p].todo \union {k}]]
      BY <2>4
    <3> DEFINE new == [co[p] EXCEPT !.pc = "reporting", !.run = active, !.kid = k,
                                    !.todo = co[p].todo \union {k}]
    <3>2. new.pc = "reporting" /\ new.run = active /\ new.kid = k /\ new.todo = co[p].todo \union {k}
      BY CoFieldsSet
    <3>3. co' = [co EXCEPT ![p] = new]
      BY <3>1
    <3> HIDE DEF new
    <3>4. co'[p] = new /\ OnlyCo(p)
      BY <3>3, CoSet
    <3>5. Tells(p)
      BY <2>1, <2>4, <3>2, <3>4 DEF Tells, won
    <3> QED BY <1>1, <1>2, <3>4, <3>5
  <2>5. CASE /\ won = {} /\ co[p].todo = {}
             /\ run' = [run EXCEPT ![active].status =
                          IF run[active].status = "cancelled" THEN "cancelled" ELSE "failed"]
             /\ co' = [co EXCEPT ![p] = [Off EXCEPT !.pc = "done"]]
    <3>1. co'[p].pc = "done" /\ OnlyCo(p)
      BY <1>9, <1>10, <2>5
    <3>2. \E st \in {"cancelled", "failed"} : StatusIs(active, st)
      BY <1>1, <2>5, StatusSet
    <3>3. Tells(p)
      BY <2>1, <2>5, <3>1, <3>2 DEF Tells, won
    <3> QED BY <1>1, <1>2, <3>1, <3>3
  <2>6. CASE /\ won = {} /\ co[p].todo # {}
             /\ run' = [run EXCEPT ![active].status = "synthesizing"]
             /\ co' = [co EXCEPT ![p].pc = "synthesis"]
    <3>1. OnlyCo(p) /\ co'[p].pc = "synthesis" /\ co'[p].todo = co[p].todo /\ co'[p].run = co[p].run
      <4> DEFINE new == [co[p] EXCEPT !.pc = "synthesis"]
      <4>1. new.pc = "synthesis" /\ new.todo = co[p].todo /\ new.run = co[p].run
        BY CoFieldsSet
      <4>2. co' = [co EXCEPT ![p] = new]
        BY <2>6
      <4> HIDE DEF new
      <4> QED BY <4>1, <4>2, CoSet
    <3>2. StatusIs(active, "synthesizing")
      BY <1>1, <2>6, StatusSet
    <3>3. Tells(p)
      BY <2>1, <2>6, <3>1, <3>2 DEF Tells, won
    <3> QED BY <1>1, <1>2, <3>1, <3>3
  <2> QED BY <2>3, <2>4, <2>5, <2>6
<1> QED BY <1>4, <1>5, <1>6, <1>7, <1>8, <1>11, <1>12, <1>13 DEF Resume

\* close_child marks child k, sends, and archives it.
OnlyCloser(c) == \A d \in Clicks \ {c} : closer'[d] = closer[d]
Marks(c, k) ==
  /\ k \in KidsOf(active)
  /\ \A j \in Kids \ {k} : kid'[j] = kid[j]
  /\ kid'[k].run = kid[k].run /\ kid'[k].sess = kid[k].sess /\ kid'[k].closed = kid[k].closed
  /\ kid'[k].closeReq /\ kid'[k].cut = kid[k].cut
  /\ kid'[k].status = IF IsLive(k) THEN "cancelling" ELSE kid[k].status
  /\ closer'[c].pc = "emitting" /\ closer'[c].kid = k /\ closer'[c].prev = kid[k].status
Sends(c) ==
  /\ closer[c].pc = "emitting" /\ kid' = kid /\ archived' = archived
  /\ \/ closer'[c].pc = "idle"
     \/ /\ closer'[c].pc = "archiving" /\ closer'[c].kid = closer[c].kid
        /\ closer'[c].prev = closer[c].prev /\ kid[closer[c].kid].sess # 0
Hides(c) ==
  LET k == closer[c].kid
  IN  /\ closer[c].pc = "archiving" /\ kid[k].sess # 0
      /\ archived' = archived \union {kid[k].sess}
      /\ OnlyKid(k) /\ kid'[k].sess = kid[k].sess
      /\ kid'[k].status = IF closer[c].prev \in Terminal THEN kid[k].status ELSE "cancelled"
      /\ closer'[c].pc = "idle"

LEMMA CloserSet ==
  ASSUME TypeOK, NEW c \in Clicks, NEW new, closer' = [closer EXCEPT ![c] = new]
  PROVE  closer'[c] = new /\ OnlyCloser(c)
  BY DEF TypeOK, OnlyCloser

LEMMA MarksEffect ==
  ASSUME TypeOK, NEW c \in Clicks, NEW k \in Kids, Close(c, k)
  PROVE  /\ Marks(c, k) /\ OnlyCloser(c)
         /\ UNCHANGED <<active, run, flag, co, canceller, task, owner, archived>>
<1> DEFINE st == IF IsLive(k) THEN "cancelling" ELSE kid[k].status
           new == [kid[k] EXCEPT !.closeReq = TRUE, !.status = st]
           here == [pc |-> "emitting", kid |-> k, prev |-> kid[k].status]
<1>1. kid' = [kid EXCEPT ![k] = new] /\ closer' = [closer EXCEPT ![c] = here]
      /\ k \in KidsOf(active)
      /\ UNCHANGED <<active, run, flag, co, canceller, task, owner, archived>>
  BY DEF Close, upstream
<1>2. kid[k] \in KidType
  BY DEF TypeOK
<1>3. /\ new.run = kid[k].run /\ new.sess = kid[k].sess /\ new.closed = kid[k].closed
      /\ new.closeReq = TRUE /\ new.status = st /\ new.cut = kid[k].cut
  BY <1>2 DEF KidType
<1>4. here.pc = "emitting" /\ here.kid = k /\ here.prev = kid[k].status
  OBVIOUS
<1> HIDE DEF new, here
<1>5. kid'[k] = new /\ \A j \in Kids \ {k} : kid'[j] = kid[j]
  BY <1>1 DEF TypeOK
<1>6. closer'[c] = here /\ OnlyCloser(c)
  BY <1>1, CloserSet
<1>7. Marks(c, k)
  BY <1>1, <1>3, <1>4, <1>5, <1>6 DEF Marks
<1> QED BY <1>1, <1>6, <1>7

LEMMA CloserEffect ==
  ASSUME TypeOK, Honest, NEW c \in Clicks, CloserStep(c), "archive_fails" \notin Env,
         closer[c].pc = "archiving" => kid[closer[c].kid].sess # 0
  PROVE  /\ closer[c].kid \in Kids /\ closer[c].pc # "idle"
         /\ Sends(c) \/ Hides(c)
         /\ OnlyCloser(c)
         /\ UNCHANGED <<active, run, flag, co, canceller, task, owner>>
<1> DEFINE k == closer[c].kid
<1>1. /\ closer[c].pc \in {"emitting", "archiving"}
      /\ UNCHANGED <<active, run, flag, co, canceller, task, owner>>
  BY DEF CloserStep, CloseSent, CloseArchived, CloseFails, upstream
<1>2. k \in Kids /\ closer[c].pc # "idle" /\ closer[c] \in CloserType
  BY <1>1 DEF Honest, CloserHonest, TypeOK
<1>3. IdleCloser.pc = "idle"
  BY DEF IdleCloser
<1>4. CASE CloseSent(c)
  <2> DEFINE new == IF kid[k].sess = 0 THEN IdleCloser ELSE [closer[c] EXCEPT !.pc = "archiving"]
  <2>1. closer' = [closer EXCEPT ![c] = new] /\ kid' = kid /\ archived' = archived
        /\ closer[c].pc = "emitting"
    BY <1>4 DEF CloseSent, upstream
  <2>2. \/ new.pc = "idle"
        \/ new.pc = "archiving" /\ new.kid = k /\ new.prev = closer[c].prev /\ kid[k].sess # 0
    BY <1>2, <1>3 DEF CloserType
  <2> HIDE DEF new
  <2>3. closer'[c] = new /\ OnlyCloser(c)
    BY <2>1, CloserSet
  <2>4. Sends(c)
    BY <2>1, <2>2, <2>3 DEF Sends
  <2> QED BY <1>1, <1>2, <2>3, <2>4
<1>5. CASE CloseArchived(c)
  <2> DEFINE st == IF closer[c].prev \in Terminal THEN kid[k].status ELSE "cancelled"
             new == [kid[k] EXCEPT !.closed = TRUE, !.status = st]
  <2>1. /\ kid' = [kid EXCEPT ![k] = new] /\ closer' = [closer EXCEPT ![c] = IdleCloser]
        /\ closer[c].pc = "archiving" /\ kid[k].sess # 0 /\ archived' = archived \union {kid[k].sess}
    BY <1>5 DEF CloseArchived
  <2>2. new.run = kid[k].run /\ new.closeReq = kid[k].closeReq /\ new.cut = kid[k].cut /\ new.status = st
        /\ new.sess = kid[k].sess
    BY <1>2, CardFields
  <2> HIDE DEF new
  <2>3. kid'[k] = new /\ OnlyKid(k)
    BY <1>2, <2>1, <2>2, KidSet
  <2>4. closer'[c] = IdleCloser /\ OnlyCloser(c)
    BY <2>1, CloserSet
  <2>5. Hides(c)
    BY <1>3, <2>1, <2>2, <2>3, <2>4 DEF Hides
  <2> QED BY <1>1, <1>2, <2>4, <2>5
<1>6. ~CloseFails(c)
  BY DEF CloseFails, ArchiveRaises
<1> QED BY <1>4, <1>5, <1>6 DEF CloserStep

\* A coroutine starts with new children S of run r: execute's or an appended one.
Starts(p, S, r) ==
  /\ S \subseteq Kids \ UsedKids
  /\ \A j \in S : /\ kid'[j].run = r /\ kid'[j].status = "queued" /\ kid'[j].sess = 0
                  /\ kid'[j].closeReq = FALSE /\ kid'[j].closed = FALSE
  /\ \A j \in Kids \ S : kid'[j] = kid[j]
  /\ p \in Coroutines /\ co'[p].pc = "created" /\ OnlyCo(p)
  /\ UNCHANGED <<closer, canceller, task, owner, archived>>

LEMMA NewCard ==
  ASSUME NEW r
  PROVE  LET new == [NoKid EXCEPT !.run = r]
         IN  /\ new.run = r /\ new.status = "queued" /\ new.sess = 0
             /\ new.closeReq = FALSE /\ new.closed = FALSE
  BY DEF NoKid

LEMMA ExecuteEffect ==
  ASSUME TypeOK, OneRun, NEW n, NEW plan \in BOOLEAN, Execute(n, plan), "overlap" \notin Env
  PROVE  LET p == <<"execute", active + 1>>
         IN  /\ Quiet /\ active' = active + 1 /\ active' \in Runs /\ flag' = FALSE
             /\ Starts(p, NewKids(n), active') /\ co[p].pc = "off"
             /\ run'[active'].status = "starting" /\ OnlyRun(active')
             /\ active # 0 => run[active].status \notin Ongoing
<1> DEFINE r == active + 1
           p == <<"execute", r>>
<1>1. active \in Nat /\ r \in Runs /\ active' = r /\ flag' = FALSE /\ Quiet
      /\ r > active /\ (active # 0 => run[active].status \notin Ongoing)
      /\ UNCHANGED <<closer, canceller, task, owner, archived>>
  BY MultiAgentAssumption DEF Execute, TypeOK, Runs, upstream
<1>2. p \in Coroutines /\ co[p].pc = "off"
  BY <1>1 DEF Coroutines, OneRun
<1>3. co'[p].pc = "created" /\ OnlyCo(p)
  <2> DEFINE new == [co[p] EXCEPT !.pc = "created"]
  <2>1. new.pc = "created"
    BY <1>2, CoFieldsSet
  <2>2. co' = [co EXCEPT ![p] = new]
    BY DEF Execute
  <2> HIDE DEF new, p
  <2> QED BY <1>2, <2>1, <2>2, CoSet
<1>4. run'[r].status = "starting" /\ OnlyRun(r)
  <2>1. run' = [run EXCEPT ![r] = [status |-> "starting", plan |-> plan]]
    BY DEF Execute
  <2> QED BY <1>1, <2>1 DEF TypeOK, OnlyRun
<1>5. NewKids(n) \subseteq Kids \ UsedKids
  BY DEF NewKids
<1>6. kid' = [k \in Kids |-> IF k \in NewKids(n) THEN [NoKid EXCEPT !.run = r] ELSE kid[k]]
  BY DEF Execute
<1>7. \A j \in NewKids(n) : kid'[j] = [NoKid EXCEPT !.run = r]
  BY <1>5, <1>6
<1>8. \A j \in Kids \ NewKids(n) : kid'[j] = kid[j]
  BY <1>6
<1> HIDE DEF r, p
<1>9. Starts(p, NewKids(n), r)
  <2>1. ASSUME NEW j \in NewKids(n)
        PROVE  /\ kid'[j].run = r /\ kid'[j].status = "queued" /\ kid'[j].sess = 0
               /\ kid'[j].closeReq = FALSE /\ kid'[j].closed = FALSE
    <3> DEFINE new == [NoKid EXCEPT !.run = r]
    <3>1. /\ new.run = r /\ new.status = "queued" /\ new.sess = 0
          /\ new.closeReq = FALSE /\ new.closed = FALSE
      BY NewCard
    <3>2. kid'[j] = new
      BY <1>7
    <3> HIDE DEF new
    <3> QED BY <3>1, <3>2
  <2> QED BY <1>1, <1>2, <1>3, <1>5, <1>8, <2>1 DEF Starts
<1> QED BY <1>1, <1>2, <1>4, <1>9 DEF p, r

LEMMA AddEffect ==
  ASSUME TypeOK, AddChild
  PROVE  \E k \in Kids :
           LET p == <<"add", k>>
           IN  /\ IdleTurn /\ active \in Runs /\ run[active].status \in {"starting", "running"}
               /\ "late_add" \in Env \/ co[<<"execute", active>>].pc # "reporting"
               /\ UNCHANGED <<active, run, flag>>
               /\ Starts(p, {k}, active) /\ co'[p].todo = {k}
<1>1. PICK k \in NewKids(1) :
          /\ kid' = [kid EXCEPT ![k] = [NoKid EXCEPT !.run = active]]
          /\ co' = [co EXCEPT ![<<"add", k>>] = [Off EXCEPT !.pc = "created", !.todo = {k}]]
  BY DEF AddChild
<1>2. /\ IdleTurn /\ active \in Runs /\ run[active].status \in {"starting", "running"}
      /\ "late_add" \in Env \/ co[<<"execute", active>>].pc # "reporting"
      /\ UNCHANGED <<active, run, flag, closer, canceller, task, owner, archived>>
  BY MultiAgentAssumption DEF AddChild, TypeOK, Runs, upstream
<1> DEFINE p == <<"add", k>>
           here == [Off EXCEPT !.pc = "created", !.todo = {k}]
           new == [NoKid EXCEPT !.run = active]
<1>3. here.pc = "created" /\ here.todo = {k}
  BY DEF Off
<1>4. k \in Kids \ UsedKids /\ {k} \subseteq Kids \ UsedKids
  BY DEF NewKids
<1>5. p \in Coroutines
  BY <1>4 DEF Coroutines
<1>6. co' = [co EXCEPT ![p] = here] /\ kid' = [kid EXCEPT ![k] = new]
  BY <1>1
<1> HIDE DEF p, here, new
<1>7. co'[p] = here /\ OnlyCo(p)
  BY <1>5, <1>6, CoSet
<1>8. kid'[k] = new /\ \A j \in Kids \ {k} : kid'[j] = kid[j]
  BY <1>4, <1>6 DEF TypeOK
<1>9. Starts(p, {k}, active)
  <2>1. /\ new.run = active /\ new.status = "queued" /\ new.sess = 0
        /\ new.closeReq = FALSE /\ new.closed = FALSE
    BY NewCard DEF new
  <2> QED BY <1>2, <1>3, <1>4, <1>5, <1>7, <1>8, <2>1 DEF Starts
<1> QED BY <1>2, <1>3, <1>4, <1>7, <1>9 DEF p

\* What a cancel writes: up to its first send, at its gateway calls, at its end.
LEMMA CancellingEffect ==
  ASSUME TypeOK, NEW x \in Cancellers, Cancellable, Cancelling(x)
  PROVE  /\ active \in Runs /\ run[active].status \in {"starting", "running", "synthesizing"}
         /\ flag' = TRUE /\ canceller'[x].pc = "emitting" /\ StatusIs(active, "cancelling")
         /\ \A y \in Cancellers \ {x} : canceller'[y] = canceller[y]
<1>1. active \in Runs /\ run[active].status \in {"starting", "running", "synthesizing"}
  BY MultiAgentAssumption DEF Cancellable, TypeOK, Runs
<1>2. StatusIs(active, "cancelling")
  BY <1>1, StatusSet DEF Cancelling
<1>3. canceller[x] \in CancellerType /\ canceller \in [Cancellers -> CancellerType]
  BY DEF TypeOK
<1>4. canceller'[x].pc = "emitting" /\ \A y \in Cancellers \ {x} : canceller'[y] = canceller[y]
  BY <1>3 DEF Cancelling, CancellerType
<1> QED BY <1>1, <1>2, <1>4 DEF Cancelling

LEMMA CancelEffect ==
  ASSUME TypeOK, Cancel
  PROVE  /\ active \in Runs /\ run[active].status \in {"starting", "running", "synthesizing"}
         /\ flag' = TRUE /\ canceller'["owner"].pc = "emitting" /\ StatusIs(active, "cancelling")
         /\ canceller'["task"] = canceller["task"]
         /\ UNCHANGED <<active, kid, co, closer, task, owner, archived>>
<1>1. "owner" \in Cancellers /\ "task" \in Cancellers \ {"owner"}
  BY DEF Cancellers
<1> QED BY <1>1, CancellingEffect DEF Cancel, upstream

LEMMA CancelMoves ==
  ASSUME TypeOK, NEW x \in Cancellers, CancelLists(x) \/ CancelListed(x) \/ CancelTask(x)
  PROVE  /\ canceller[x].pc # "idle" /\ canceller'[x].pc # "idle"
         /\ \A y \in Cancellers \ {x} : canceller'[y] = canceller[y]
         /\ UNCHANGED <<active, run, kid, flag, co, closer, owner, archived>>
<1>1. canceller[x] \in CancellerType /\ canceller \in [Cancellers -> CancellerType]
  BY DEF TypeOK
<1>2. CASE CancelLists(x)
  BY <1>1, <1>2 DEF CancelLists, upstream
<1>3. CASE CancelListed(x)
  BY <1>1, <1>3 DEF CancelListed, upstream
<1>4. CASE CancelTask(x)
  BY <1>1, <1>4 DEF CancelTask, CancellerType
<1> QED BY <1>2, <1>3, <1>4

LEMMA CancelEndsEffect ==
  ASSUME TypeOK, NEW x \in Cancellers, CancelEnds(x), active \in Runs
  PROVE  /\ canceller[x].pc # "idle" /\ canceller'[x].pc = "idle" /\ StatusIs(active, "cancelled")
         /\ \A y \in Cancellers \ {x} : canceller'[y] = canceller[y]
         /\ UNCHANGED <<active, flag, co, closer, task, owner, archived>>
         /\ \A j \in Kids : /\ Keeps(j)
                            /\ kid'[j].status = IF j \in KidsOf(active) /\ IsLive(j)
                                                THEN "cancelled" ELSE kid[j].status
<1>1. StatusIs(active, "cancelled")
  BY StatusSet DEF CancelEnds
<1>2. /\ canceller[x].pc # "idle" /\ canceller'[x].pc = "idle"
      /\ \A y \in Cancellers \ {x} : canceller'[y] = canceller[y]
  BY DEF CancelEnds, IdleCanceller, TypeOK
<1>3. kid' = Settle(kid, KidsOf(active), "cancelled") /\ kid \in [Kids -> KidType]
  BY DEF CancelEnds, TypeOK
<1>4. ASSUME NEW j \in Kids
      PROVE  /\ Keeps(j)
             /\ kid'[j].status = IF j \in KidsOf(active) /\ IsLive(j)
                                 THEN "cancelled" ELSE kid[j].status
  BY <1>3, SettleFields DEF Keeps, IsLive
<1> QED BY <1>1, <1>2, <1>4 DEF CancelEnds, upstream

\* What the interrupts write when sends do not suspend: the task of the active
\* run is cut off, and the cancel it then runs is left with its children settled.
LEMMA InterruptFields ==
  ASSUME TypeOK, OneRun, NEW p \in Coroutines, Interrupted(p)
  PROVE  /\ p = <<"execute", active>> /\ active \in Runs /\ Alive(p) /\ co'[p].pc = "done"
         /\ OnlyCo(p)
         /\ \A k \in Kids : SameCard(k) /\ kid'[k].status = kid[k].status
                            /\ kid'[k].closeReq = kid[k].closeReq
                            /\ kid'[k].closed = kid[k].closed
                            /\ kid'[k].cut = (k \in Abandoned(p) \/ kid[k].cut)
         /\ canceller'["owner"] = canceller["owner"]
         /\ \/ /\ run[active].status \in {"starting", "running", "synthesizing"}
               /\ flag' = TRUE /\ canceller'["task"].pc = "emitting"
               /\ StatusIs(active, "cancelling")
            \/ ~Cancellable /\ UNCHANGED <<run, flag, canceller>>
         /\ archived \subseteq archived'
         /\ UNCHANGED <<active, closer>>
<1>1. /\ p[1] = "execute" /\ Alive(p) /\ co'[p].pc = "done"
      /\ \A q \in Coroutines \ {p} : co'[q] = co[q]
      /\ \A k \in Kids :
           /\ kid'[k].run = kid[k].run /\ kid'[k].status = kid[k].status
           /\ kid'[k].sess = kid[k].sess /\ kid'[k].closeReq = kid[k].closeReq
           /\ kid'[k].closed = kid[k].closed
           /\ kid'[k].cut = (k \in Abandoned(p) \/ kid[k].cut)
      /\ \/ p[2] = active /\ Cancellable /\ Cancelling("task")
         \/ ~(p[2] = active /\ Cancellable) /\ UNCHANGED <<run, flag, canceller>>
      /\ archived \subseteq archived'
      /\ UNCHANGED <<active, closer>>
  BY InterruptEffect
<1>2. p = <<"execute", active>> /\ active \in Runs
  <2>1. p[1] # "add"
    BY <1>1
  <2> QED BY <1>1, <2>1, AliveIsActive
<1>3. p[2] = active
  BY <1>2
<1>4. "task" \in Cancellers /\ "owner" \in Cancellers \ {"task"}
  BY DEF Cancellers
<1>5. CASE Cancellable /\ Cancelling("task")
  BY <1>1, <1>2, <1>4, <1>5, CancellingEffect, ZenonT(40) DEF OnlyCo, SameCard
<1>6. CASE ~Cancellable /\ UNCHANGED <<run, flag, canceller>>
  BY <1>1, <1>2, <1>6 DEF OnlyCo, SameCard
<1> QED BY <1>1, <1>3, <1>5, <1>6

LEMMA AgainFields ==
  ASSUME TypeOK, OneRun, "backpressure" \notin Env, InterruptedAgain
  PROVE  /\ active \in Runs
         /\ canceller["task"].pc \in {"listing", "stopping"} /\ canceller'["task"].pc = "idle"
         /\ canceller'["owner"] = canceller["owner"]
         /\ StatusIs(active, "cancelled")
         /\ \A k \in Kids :
              /\ SameCard(k) /\ kid'[k].closeReq = kid[k].closeReq
              /\ kid'[k].closed = kid[k].closed
              /\ kid'[k].status = IF k \in KidsOf(active) /\ IsLive(k)
                                  THEN "cancelled" ELSE kid[k].status
              /\ kid'[k].cut = ((k \in KidsOf(active) /\ IsLive(k)) \/ kid[k].cut)
         /\ UNCHANGED <<active, flag, co, closer, task, owner, archived>>
<1>1. /\ canceller["task"].pc # "idle"
      /\ canceller' = [canceller EXCEPT !["task"] = IdleCanceller]
      /\ \A k \in Kids :
           /\ kid'[k].run = kid[k].run /\ kid'[k].sess = kid[k].sess
           /\ kid'[k].closeReq = kid[k].closeReq /\ kid'[k].closed = kid[k].closed
           /\ k \in Left => kid'[k].status = "cancelled" /\ kid'[k].cut
           /\ k \notin Left => kid'[k].status = kid[k].status /\ kid'[k].cut = kid[k].cut
      /\ \/ canceller["task"].pc = "emitting" /\ run' = run
         \/ canceller["task"].pc # "emitting"
            /\ run' = [run EXCEPT ![active].status = "cancelled"]
      /\ UNCHANGED <<active, flag, co, closer, task, owner, archived>>
  BY AgainEffect
<1>2. "task" \in Cancellers /\ "owner" \in Cancellers
  BY DEF Cancellers
<1>3. canceller["task"].pc # "emitting"
  BY <1>2 DEF InterruptedAgain, IdleTurn, Turn, BusyCancellers
<1>4. active \in Runs
  BY <1>1, <1>2 DEF OneRun
<1>5. StatusIs(active, "cancelled")
  BY <1>1, <1>3, <1>4, StatusSet
<1>6. canceller["task"].pc \in {"listing", "stopping"}
  <2>1. canceller["task"] \in CancellerType
    BY <1>2 DEF TypeOK
  <2> QED BY <1>1, <1>3, <2>1 DEF CancellerType
<1>7. canceller'["task"].pc = "idle" /\ canceller'["owner"] = canceller["owner"]
  BY <1>1, <1>2 DEF TypeOK, IdleCanceller
<1>8. ASSUME NEW k \in Kids
      PROVE  /\ kid'[k].status = IF k \in KidsOf(active) /\ IsLive(k)
                                 THEN "cancelled" ELSE kid[k].status
             /\ kid'[k].cut = ((k \in KidsOf(active) /\ IsLive(k)) \/ kid[k].cut)
  <2>1. k \in Left <=> k \in KidsOf(active) /\ IsLive(k)
    BY <1>3 DEF Left
  <2>2. kid[k].cut \in BOOLEAN
    BY FieldsTyped DEF KidType
  <2>3. CASE k \in Left
    BY <1>1, <2>1, <2>3
  <2>4. CASE k \notin Left
    BY <1>1, <2>1, <2>2, <2>4
  <2> QED BY <2>3, <2>4
<1> QED BY <1>1, <1>4, <1>5, <1>6, <1>7, <1>8 DEF SameCard

\* What OpenClaw has done by then: nothing, or what the call cut off asked for.
LEMMA CutOffEffect ==
  ASSUME TypeOK, NEW p \in Coroutines, Interrupted(p)
  PROVE  \/ SameUpstream /\ archived' = archived
         \/ /\ co[p].pc = "spawning" /\ archived' = archived
            /\ \E s \in Sessions : NewSession(s, co[p].kid)
         \/ /\ co[p].pc = "archiving" /\ SameUpstream /\ kid[co[p].kid].sess # 0
            /\ archived' = archived \union {kid[co[p].kid].sess}
<1>1. CASE \E s \in FreshSessions : \E admitted \in {"running"} \union QueuedTasks :
             /\ task' = [task EXCEPT ![s] = admitted] /\ owner' = [owner EXCEPT ![s] = co[p].kid]
             /\ co[p].pc = "spawning" /\ archived' = archived
  <2>1. PICK s \in FreshSessions, st \in {"running"} \union QueuedTasks :
             task' = [task EXCEPT ![s] = st] /\ owner' = [owner EXCEPT ![s] = co[p].kid]
    BY <1>1
  <2>2. st \in Unfinished /\ s \in Sessions
    BY DEF QueuedTasks, Unfinished, FreshSessions
  <2>3. NewSession(s, co[p].kid)
    BY <2>1, <2>2, SessionMade
  <2> QED BY <1>1, <2>2, <2>3
<1>2. CASE SameUpstream /\ archived' = archived
  BY <1>2
<1>3. CASE /\ co[p].pc = "archiving" /\ SameUpstream /\ kid[co[p].kid].sess # 0
           /\ archived' = archived \union {kid[co[p].kid].sess}
  BY <1>3
<1>4. CutOff(p)
  BY DEF Interrupted
<1> QED BY <1>1, <1>2, <1>3, <1>4 DEF CutOff, SameUpstream, upstream

-----------------------------------------------------------------------------
\* One run at a time: every step keeps OneRun.
LEMMA OneRunKept ==
  ASSUME TypeOK, OneRun, NEW p \in Coroutines, Alive(p), OnlyCo(p),
         active' = active, \A k \in Kids : kid'[k].run = kid[k].run,
         closer' = closer,
         canceller' = canceller \/ (p[1] = "execute" /\ co'[p].pc = "done"
                                    /\ canceller'["owner"] = canceller["owner"]),
         co'[p].pc # "off", p[1] = "add" => co'[p].pc \in SpawnPCs \union {"done"},
         Hands(p)' \union Polled(p)' \subseteq KidsOf(active),
         co'[p].pc = "returning" => co'[p].todo = {} /\ co'[p].kid = 0,
         co'[p].pc \in {"reporting", "synthesis"} => co'[p].run = active
  PROVE  OneRun'
<1>1. KidsOf(active)' = KidsOf(active)
  BY RunsKept
<1>2. \A q \in Coroutines \ {p} : co'[q] = co[q] /\ Hands(q)' = Hands(q) /\ Polled(q)' = Polled(q)
  BY HandsKept DEF OnlyCo, Polled
<1>3. /\ active \in Runs
      /\ p = <<"execute", active>> \/ (p[1] = "add" /\ p[2] \in KidsOf(active))
  BY AliveIsActive
<1>4. ASSUME NEW r \in Runs
      PROVE  /\ r < active => co'[<<"execute", r>>].pc = "done"
             /\ r = active => co'[<<"execute", r>>].pc # "off"
             /\ r > active => co'[<<"execute", r>>].pc = "off"
  <2>1. <<"execute", r>> \in Coroutines
    BY DEF Coroutines
  <2>2. CASE p # <<"execute", r>>
    BY <1>2, <2>1, <2>2 DEF OneRun
  <2>3. CASE p = <<"execute", r>>
    <3>1. r = active
      <4>1. p[1] # "add"
        BY <2>3
      <4> QED BY <1>3, <2>3, <4>1
    <3>2. r \in Nat
      BY DEF Runs
    <3> QED BY <2>3, <3>1, <3>2
  <2> QED BY <2>2, <2>3
<1>5. ASSUME NEW k \in Kids
      PROVE  /\ co'[<<"add", k>>].pc \in SpawnPCs \union {"off", "done"}
             /\ Alive(<<"add", k>>)' => k \in KidsOf(active)'
  <2>1. <<"add", k>> \in Coroutines
    BY DEF Coroutines
  <2>2. CASE p # <<"add", k>>
    BY <1>1, <1>2, <2>1, <2>2 DEF OneRun, Alive
  <2>3. CASE p = <<"add", k>>
    <3>1. p[1] = "add"
      BY <2>3
    <3>2. k \in KidsOf(active)
      BY <2>3 DEF OneRun
    <3> QED BY <1>1, <2>3, <3>1, <3>2
  <2> QED BY <2>2, <2>3
<1>6. \A c \in Clicks : closer'[c].pc # "idle" => closer'[c].kid \in KidsOf(active)'
  BY <1>1 DEF OneRun
<1>7. ASSUME canceller'["task"].pc # "idle", NEW r \in Runs
      PROVE  ~Alive(<<"execute", r>>)'
  <2>1. <<"execute", r>> \in Coroutines
    BY DEF Coroutines
  <2>2. CASE canceller' = canceller
    <3>1. ~Alive(<<"execute", r>>)
      BY <1>7, <2>2 DEF OneRun
    <3> QED BY <1>2, <2>1, <3>1 DEF Alive
  <2>3. CASE p[1] = "execute" /\ co'[p].pc = "done"
    <3>1. CASE <<"execute", r>> = p
      BY <2>3, <3>1 DEF Alive
    <3>2. CASE <<"execute", r>> # p
      <4>1. r # active
        BY <1>3, <2>3, <3>2
      <4>2. r \in Nat /\ active \in Nat
        BY <1>3 DEF Runs
      <4>3. co[<<"execute", r>>].pc \in {"off", "done"}
        BY <4>1, <4>2 DEF OneRun
      <4> QED BY <1>2, <2>1, <3>2, <4>3 DEF Alive
    <3> QED BY <3>1, <3>2
  <2> QED BY <2>2, <2>3
<1>9. \A x \in Cancellers : canceller'[x].pc # "idle" => active' \in Runs
  BY <1>3
<1>8. ASSUME NEW q \in Coroutines
      PROVE  /\ (Hands(q) \union Polled(q))' \subseteq KidsOf(active)'
             /\ co'[q].pc = "returning" => co'[q].todo = {} /\ co'[q].kid = 0
             /\ co'[q].pc \in {"reporting", "synthesis"} => co'[q].run = active'
  <2>1. CASE q = p
    BY <1>1, <2>1
  <2>2. CASE q # p
    BY <1>1, <1>2, <2>2 DEF OneRun
  <2> QED BY <2>1, <2>2
<1> QED BY <1>4, <1>5, <1>6, <1>7, <1>8, <1>9 DEF OneRun

LEMMA OneRunRest ==
  ASSUME OneRun, active' = active, co' = co, \A k \in Kids : kid'[k].run = kid[k].run,
         \A c \in Clicks : closer'[c].pc # "idle" => closer'[c].kid \in KidsOf(active),
         \A x \in Cancellers : canceller'[x].pc # "idle" => active \in Runs,
         canceller'["task"].pc # "idle" => canceller["task"].pc # "idle"
  PROVE  OneRun'
<1>1. KidsOf(active)' = KidsOf(active)
  BY RunsKept
<1>2. \A q : Hands(q)' = Hands(q) /\ Polled(q)' = Polled(q) /\ Alive(q)' = Alive(q)
  BY HandsKept DEF Polled, Alive
<1>3. \A q \in Coroutines : (Hands(q) \union Polled(q))' \subseteq KidsOf(active)'
  BY <1>1, <1>2 DEF OneRun
<1> QED BY <1>1, <1>2, <1>3 DEF OneRun

\* What p has in hand after a step of _spawn_child.
LEMMA HandsAfterTake ==
  ASSUME NEW p \in Coroutines, NEW k, Takes(p, k), co[p].pc \in {"created", "spawned"}
  PROVE  /\ Todo(p)' = Todo(p) \ {k}
         /\ Held(p)' = IF Refused(k) THEN {} ELSE {k}
         /\ Hands(p) = Todo(p) /\ Untouched(p) = Todo(p) /\ Untouched(p)' = Hands(p)'
  BY DEF Takes, Todo, Held, Hands, Untouched, SpawnPCs

LEMMA HandsAfterAnswer ==
  ASSUME TypeOK, Honest, NEW p \in Coroutines,
         co[p].pc \in {"spawning", "archiving"}, co'[p].pc \in {"spawned", "archiving"},
         co'[p].kid = co[p].kid, co'[p].todo = co[p].todo
  PROVE  /\ Todo(p)' = Todo(p) /\ Untouched(p)' = Todo(p)
         /\ Held(p) = {co[p].kid}
         /\ Held(p)' = IF co'[p].pc = "archiving" THEN {co[p].kid} ELSE {}
  BY DEF Todo, Held, Untouched, SpawnPCs

LEMMA OneRunSpawn ==
  ASSUME TypeOK, Honest, Spawners, OneRun, NEW p \in Coroutines, Step(p),
         "archive_fails" \notin Env, co[p].pc = "archiving" => kid[co[p].kid].sess # 0
  PROVE  OneRun'
<1>1. CASE Begin(p) \/ Spawned(p)
  <2>1. /\ co[p].pc \in {"created", "spawned"} /\ OnlyCo(p)
        /\ UNCHANGED <<active, flag, closer, canceller, task, owner, archived>>
        /\ \/ \E k \in Kids : Takes(p, k)
           \/ p[1] = "add" /\ co'[p].pc = "done" /\ kid' = kid
           \/ p[1] = "execute" /\ co'[p].pc = "launched" /\ kid' = kid
    BY <1>1, TakesEffect
  <2>2. Alive(p)
    BY <2>1 DEF Alive
  <2>3. ASSUME NEW k \in Kids, Takes(p, k)
        PROVE  OneRun'
    <3>1. \A j \in Kids : kid'[j].run = kid[j].run
      BY <2>3 DEF Takes, OnlyKid
    <3>2. co'[p].pc \in {"spawned", "spawning"}
      BY <2>3 DEF Takes
    <3>3. Hands(p)' \subseteq Hands(p) /\ Polled(p)' = {}
      <4>1. k \in Todo(p)
        BY <2>3 DEF Takes
      <4>2. /\ Todo(p)' = Todo(p) \ {k} /\ Held(p)' = (IF Refused(k) THEN {} ELSE {k})
        BY <2>1, <2>3, HandsAfterTake
      <4> QED BY <3>2, <4>1, <4>2 DEF Hands, Polled
    <3>4. Hands(p)' \union Polled(p)' \subseteq KidsOf(active)
      BY <3>3 DEF OneRun
    <3> QED BY <2>1, <2>2, <3>1, <3>2, <3>4, OneRunKept DEF SpawnPCs
  <2>4. ASSUME co'[p].pc \in {"done", "launched"}, kid' = kid, p[1] = "add" => co'[p].pc = "done"
        PROVE  OneRun'
    <3>1. Hands(p)' = {} /\ Polled(p)' = {}
      BY <2>4 DEF Hands, Todo, Held, Polled, SpawnPCs
    <3> QED BY <2>1, <2>2, <2>4, <3>1, OneRunKept
  <2> QED BY <2>1, <2>3, <2>4
<1>2. CASE ~Begin(p) /\ ~Spawned(p)
  <2>1. /\ co[p].kid \in Kids /\ co[p].pc \in {"spawning", "archiving"}
        /\ OnlyKid(co[p].kid) /\ OnlyCo(p)
        /\ co'[p].kid = co[p].kid /\ co'[p].todo = co[p].todo
        /\ UNCHANGED <<active, run, flag, closer, canceller>>
        /\ Accepts(p) \/ GivesUp(p) \/ Archives(p)
    BY <1>2, AnswerEffect
  <2>2. Alive(p) /\ co'[p].pc \in {"spawned", "archiving"}
    BY <2>1 DEF Alive, Accepts, GivesUp, Archives
  <2>3. Hands(p)' \subseteq Hands(p) /\ Polled(p)' = {}
    BY <2>1, <2>2, HandsAfterAnswer DEF Hands, Polled
  <2>4. Hands(p)' \union Polled(p)' \subseteq KidsOf(active)
    BY <2>3 DEF OneRun
  <2>5. \A j \in Kids : kid'[j].run = kid[j].run
    BY <2>1 DEF OnlyKid
  <2> QED BY <2>1, <2>2, <2>4, <2>5, OneRunKept DEF SpawnPCs
<1> QED BY <1>1, <1>2

LEMMA OneRunResume ==
  ASSUME TypeOK, Honest, LedgerKept, OneRun, NEW p \in Coroutines, Resume(p)
  PROVE  OneRun'
<1>1. /\ p = <<"execute", active>> /\ active \in Runs /\ OnlyCo(p)
      /\ UNCHANGED <<active, flag, closer, canceller, task, owner, archived>>
      /\ Concludes(p) \/ Waits(p) \/ Requests(p) \/ Applies(p) \/ Tells(p) \/ Finishes(p)
  BY ResumeEffect
<1>2. Alive(p)
  BY OnlyExecuteResumes
<1>3. p[1] # "add"
  BY <1>1
<1>4. \A k \in Kids : kid'[k].run = kid[k].run
  BY <1>1 DEF Concludes, Waits, Requests, Applies, Tells, Finishes, Keeps
<1>5. co'[p].pc \notin SpawnPCs \union {"off"}
  <2>1. co'[p].pc \in {"returning", "sleeping", "listing", "recovering", "expired", "reporting",
                       "synthesis", "done"}
    BY <1>1 DEF Concludes, Waits, Requests, Applies, Tells, Finishes
  <2> QED BY <2>1 DEF SpawnPCs
<1>6. Hands(p)' = {}
  BY <1>5 DEF Hands, Todo, Held, SpawnPCs
<1>7. Polled(p)' \subseteq KidsOf(active)
  <2>1. CASE Requests(p)
    BY <2>1 DEF Requests, Polled, Pending
  <2>2. CASE Applies(p)
    BY <2>2 DEF Applies, OneRun, Polled
  <2>3. CASE Concludes(p) \/ Waits(p) \/ Tells(p) \/ Finishes(p)
    BY <2>3 DEF Concludes, Waits, Tells, Finishes, Polled
  <2> QED BY <1>1, <2>1, <2>2, <2>3
<1>8. co'[p].pc = "returning" => co'[p].todo = {} /\ co'[p].kid = 0
  BY <1>1 DEF Concludes, Waits, Requests, Applies, Tells, Finishes
<1>9. co'[p].pc \in {"reporting", "synthesis"} => co'[p].run = active
  BY <1>1 DEF Concludes, Waits, Requests, Applies, Tells, Finishes, OneRun
<1>10. UNCHANGED <<closer, canceller>> /\ active' = active
  BY <1>1
<1> QED BY <1>1, <1>2, <1>3, <1>4, <1>5, <1>6, <1>7, <1>8, <1>9, <1>10, OneRunKept

Command ==
  \/ Cancel
  \/ \E x \in Cancellers : CancellerStep(x)
  \/ \E c \in Clicks : \E k \in Kids : Close(c, k)
  \/ \E c \in Clicks : CloserStep(c)
  \/ \E s \in Sessions : TaskStarts(s) \/ TaskEnds(s)

LEMMA OneRunCommand ==
  ASSUME TypeOK, Honest, OneRun, Command, "archive_fails" \notin Env,
         \A c \in Clicks : closer[c].pc = "archiving" => kid[closer[c].kid].sess # 0
  PROVE  OneRun'
<1>0. "task" \in Cancellers /\ Cancellers = {"owner", "task"}
  BY DEF Cancellers
<1>1. ASSUME UNCHANGED <<active, co, kid, closer>>,
             \A x \in Cancellers : canceller'[x].pc # "idle" => active \in Runs,
             canceller'["task"].pc # "idle" => canceller["task"].pc # "idle"
      PROVE  OneRun'
  BY <1>1, OneRunRest DEF OneRun
<1>2. CASE Cancel
  <2>1. active \in Runs /\ canceller'["task"] = canceller["task"]
        /\ UNCHANGED <<active, co, kid, closer>>
    BY <1>2, CancelEffect
  <2> QED BY <1>1, <2>1
<1>3. ASSUME NEW x \in Cancellers, CancelLists(x) \/ CancelListed(x) \/ CancelTask(x)
      PROVE  OneRun'
  <2>1. canceller[x].pc # "idle" /\ \A y \in Cancellers \ {x} : canceller'[y] = canceller[y]
    BY <1>3, CancelMoves
  <2>2. UNCHANGED <<active, co, kid, closer>>
    BY <1>3, CancelMoves
  <2>3. active \in Runs
    BY <2>1 DEF OneRun
  <2>4. canceller'["task"].pc # "idle" => canceller["task"].pc # "idle"
    BY <1>0, <2>1
  <2> QED BY <1>1, <2>2, <2>3, <2>4
<1>4. ASSUME NEW x \in Cancellers, CancelEnds(x)
      PROVE  OneRun'
  <2>1. active \in Runs
    BY <1>4 DEF CancelEnds, OneRun
  <2>2. /\ canceller'[x].pc = "idle" /\ \A y \in Cancellers \ {x} : canceller'[y] = canceller[y]
        /\ UNCHANGED <<active, co, closer>>
        /\ \A j \in Kids : Keeps(j)
    BY <1>4, <2>1, CancelEndsEffect
  <2>3. \A j \in Kids : kid'[j].run = kid[j].run
    BY <2>2 DEF Keeps
  <2>4. canceller'["task"].pc # "idle" => canceller["task"].pc # "idle"
    BY <1>0, <2>2
  <2>5. \A c \in Clicks : closer'[c].pc # "idle" => closer'[c].kid \in KidsOf(active)
    BY <2>2 DEF OneRun
  <2> QED BY <2>1, <2>2, <2>3, <2>4, <2>5, OneRunRest
<1>5. ASSUME NEW c \in Clicks, NEW k \in Kids, Close(c, k)
      PROVE  OneRun'
  <2>1. Marks(c, k) /\ OnlyCloser(c) /\ UNCHANGED <<active, co, canceller>>
    BY <1>5, MarksEffect
  <2>2. \A j \in Kids : kid'[j].run = kid[j].run
    BY <2>1 DEF Marks
  <2>3. \A d \in Clicks : closer'[d].pc # "idle" => closer'[d].kid \in KidsOf(active)
    BY <2>1 DEF Marks, OnlyCloser, OneRun
  <2>4. /\ \A x \in Cancellers : canceller'[x].pc # "idle" => active \in Runs
        /\ canceller'["task"].pc # "idle" => canceller["task"].pc # "idle"
    BY <2>1 DEF OneRun
  <2> QED BY <2>1, <2>2, <2>3, <2>4, OneRunRest
<1>6. ASSUME NEW c \in Clicks, CloserStep(c)
      PROVE  OneRun'
  <2>1. /\ closer[c].kid \in Kids /\ closer[c].pc # "idle"
        /\ Sends(c) \/ Hides(c)
        /\ OnlyCloser(c) /\ UNCHANGED <<active, co, canceller>>
    BY <1>6, CloserEffect
  <2>2. \A j \in Kids : kid'[j].run = kid[j].run
    BY <2>1 DEF Sends, Hides, OnlyKid
  <2>3. \A d \in Clicks : closer'[d].pc # "idle" => closer'[d].kid \in KidsOf(active)
    BY <2>1 DEF Sends, Hides, OnlyCloser, OneRun
  <2>4. /\ \A x \in Cancellers : canceller'[x].pc # "idle" => active \in Runs
        /\ canceller'["task"].pc # "idle" => canceller["task"].pc # "idle"
    BY <2>1 DEF OneRun
  <2> QED BY <2>1, <2>2, <2>3, <2>4, OneRunRest
<1>7. ASSUME NEW s \in Sessions, TaskStarts(s) \/ TaskEnds(s)
      PROVE  OneRun'
  BY <1>1, <1>7 DEF TaskStarts, TaskEnds, OneRun
<1> QED BY <1>2, <1>3, <1>4, <1>5, <1>6, <1>7 DEF Command, CancellerStep

\* The interrupts of the task of a plan.
Interrupts == InterruptedAgain \/ \E p \in Coroutines : Interrupted(p)

LEMMA OneRunInterrupted ==
  ASSUME TypeOK, OneRun, Interrupts, "backpressure" \notin Env
  PROVE  OneRun'
<1>0. "task" \in Cancellers /\ Cancellers = {"owner", "task"}
  BY DEF Cancellers
<1>1. ASSUME NEW p \in Coroutines, Interrupted(p)
      PROVE  OneRun'
  <2>1. /\ p = <<"execute", active>> /\ active \in Runs /\ Alive(p) /\ co'[p].pc = "done"
        /\ OnlyCo(p) /\ canceller'["owner"] = canceller["owner"]
        /\ UNCHANGED <<active, closer>>
        /\ \A k \in Kids : SameCard(k)
    BY <1>1, InterruptFields
  <2>2. p[1] = "execute" /\ \A k \in Kids : kid'[k].run = kid[k].run
    BY <2>1 DEF SameCard
  <2>3. Hands(p)' = {} /\ Polled(p)' = {}
    BY <2>1 DEF Hands, Todo, Held, Polled, SpawnPCs
  <2> HIDE DEF Interrupts
  <2> QED BY <2>1, <2>2, <2>3, OneRunKept
<1>2. CASE InterruptedAgain
  <2>1. /\ active \in Runs /\ canceller'["task"].pc = "idle"
        /\ UNCHANGED <<active, co, closer>>
        /\ \A k \in Kids : SameCard(k)
    BY <1>2, AgainFields
  <2>2. \A k \in Kids : kid'[k].run = kid[k].run
    BY <2>1 DEF SameCard
  <2>3. \A c \in Clicks : closer'[c].pc # "idle" => closer'[c].kid \in KidsOf(active)
    BY <2>1 DEF OneRun
  <2> QED BY <2>1, <2>2, <2>3, OneRunRest
<1> QED BY <1>1, <1>2 DEF Interrupts

LEMMA OneRunStart ==
  ASSUME TypeOK, OneRun, Spawners, PlanRun \/ ManualRun \/ AddChild, "overlap" \notin Env
  PROVE  OneRun'
<1>0. active \in Nat /\ \A r \in Runs : r \in Nat /\ r # 0
  BY MultiAgentAssumption DEF TypeOK, Runs
<1>1. ASSUME NEW n, NEW plan \in BOOLEAN, Execute(n, plan)
      PROVE  OneRun'
  <2> DEFINE p == <<"execute", active + 1>>
  <2>1. /\ Quiet /\ active' = active + 1 /\ active' \in Runs
        /\ Starts(p, NewKids(n), active') /\ co[p].pc = "off"
    BY <1>1, ExecuteEffect
  <2>2. p \in Coroutines /\ co'[p].pc = "created" /\ OnlyCo(p) /\ UNCHANGED <<closer, canceller>>
    BY <2>1 DEF Starts
  <2>3. \A q \in Coroutines : q # p => co'[q] = co[q] /\ co[q].pc \in {"off", "done"}
    BY <2>1, <2>2 DEF OnlyCo, Quiet
  <2>4. ASSUME NEW r \in Runs
        PROVE  /\ r < active' => co'[<<"execute", r>>].pc = "done"
               /\ r = active' => co'[<<"execute", r>>].pc # "off"
               /\ r > active' => co'[<<"execute", r>>].pc = "off"
    <3>1. <<"execute", r>> \in Coroutines
      BY DEF Coroutines
    <3>2. CASE r = active'
      BY <1>0, <2>1, <2>2, <3>2
    <3>3. CASE r # active'
      <4>1. <<"execute", r>> # p
        BY <2>1, <3>3
      <4>2. co'[<<"execute", r>>] = co[<<"execute", r>>] /\ co[<<"execute", r>>].pc \in {"off", "done"}
        BY <2>3, <3>1, <4>1
      <4>3. (r < active' => r <= active) /\ (r > active' => r > active)
        BY <1>0, <2>1, <3>3
      <4>4. CASE r > active
        BY <1>0, <2>1, <3>3, <4>2, <4>3, <4>4 DEF OneRun
      <4>5. CASE r <= active
        <5>1. co[<<"execute", r>>].pc # "off"
          BY <1>0, <4>5 DEF OneRun
        <5>2. co'[<<"execute", r>>].pc = "done"
          BY <4>2, <5>1
        <5>3. ~(r > active')
          BY <1>0, <2>1, <4>5
        <5> QED BY <3>3, <5>2, <5>3
      <4> QED BY <1>0, <4>4, <4>5
    <3> QED BY <3>2, <3>3
  <2>5. ASSUME NEW k \in Kids
        PROVE  /\ co'[<<"add", k>>].pc \in SpawnPCs \union {"off", "done"}
               /\ ~Alive(<<"add", k>>)'
    <3>1. <<"add", k>> \in Coroutines /\ <<"add", k>> # p
      BY DEF Coroutines
    <3> QED BY <2>3, <3>1 DEF Alive
  <2>6. /\ \A c \in Clicks : closer'[c].pc = "idle"
        /\ \A x \in Cancellers : canceller'[x].pc = "idle"
    BY <2>1, <2>2 DEF Quiet
  <2>7. ASSUME NEW q \in Coroutines
        PROVE  /\ (Hands(q) \union Polled(q))' \subseteq KidsOf(active)'
               /\ co'[q].pc \notin {"returning", "reporting", "synthesis"}
    <3>1. CASE q = p
      BY <2>2, <3>1 DEF Hands, Todo, Held, Polled
    <3>2. CASE q # p
      BY <2>3, <3>2 DEF Hands, Todo, Held, Polled, SpawnPCs
    <3> QED BY <3>1, <3>2
  <2>8. canceller'["task"].pc = "idle"
    BY <2>6 DEF Cancellers
  <2> QED BY <2>1, <2>2, <2>4, <2>5, <2>6, <2>7, <2>8 DEF OneRun
<1>2. CASE AddChild
  <2>1. PICK k \in Kids :
           LET p == <<"add", k>>
           IN  /\ active \in Runs /\ UNCHANGED <<active, run, flag>>
               /\ Starts(p, {k}, active) /\ co'[p].todo = {k}
    BY <1>2, AddEffect
  <2> DEFINE p == <<"add", k>>
  <2>2. p \in Coroutines /\ co'[p].pc = "created" /\ OnlyCo(p) /\ UNCHANGED <<closer, canceller>>
        /\ p[1] = "add"
    BY <2>1 DEF Starts
  <2>3. KidsOf(active)' = KidsOf(active) \union {k}
    <3>1. kid'[k].run = active /\ \A j \in Kids \ {k} : kid'[j] = kid[j]
      BY <2>1 DEF Starts
    <3>2. active # 0 /\ active' = active
      BY <1>0, <2>1
    <3> QED BY <3>1, <3>2 DEF KidsOf
  <2>4. \A q \in Coroutines : q # p => co'[q] = co[q]
    BY <2>2 DEF OnlyCo
  <2>5. ASSUME NEW r \in Runs
        PROVE  /\ r < active => co'[<<"execute", r>>].pc = "done"
               /\ r = active => co'[<<"execute", r>>].pc # "off"
               /\ r > active => co'[<<"execute", r>>].pc = "off"
    <3>1. <<"execute", r>> \in Coroutines /\ <<"execute", r>> # p
      BY DEF Coroutines
    <3> QED BY <2>4, <3>1 DEF OneRun
  <2>6. ASSUME NEW j \in Kids
        PROVE  /\ co'[<<"add", j>>].pc \in SpawnPCs \union {"off", "done"}
               /\ Alive(<<"add", j>>)' => j \in KidsOf(active)'
    <3>1. <<"add", j>> \in Coroutines
      BY DEF Coroutines
    <3>2. CASE j = k
      BY <2>2, <2>3, <3>2 DEF SpawnPCs
    <3>3. CASE j # k
      <4>1. co'[<<"add", j>>] = co[<<"add", j>>]
        BY <2>4, <3>1, <3>3
      <4> QED BY <2>3, <4>1 DEF OneRun, Alive
    <3> QED BY <3>2, <3>3
  <2>7. ASSUME NEW q \in Coroutines
        PROVE  /\ (Hands(q) \union Polled(q))' \subseteq KidsOf(active)'
               /\ co'[q].pc = "returning" => co'[q].todo = {} /\ co'[q].kid = 0
               /\ co'[q].pc \in {"reporting", "synthesis"} => co'[q].run = active
    <3>1. CASE q = p
      <4>1. Todo(p)' = {k} /\ Held(p)' = {} /\ Polled(p)' = {}
        BY <2>1, <2>2 DEF Todo, Held, Polled, SpawnPCs
      <4> QED BY <2>2, <2>3, <3>1, <4>1 DEF Hands
    <3>2. CASE q # p
      <4>1. co'[q] = co[q]
        BY <2>4, <3>2
      <4>2. Hands(q) \union Polled(q) \subseteq KidsOf(active)
        BY DEF OneRun
      <4>3. Hands(q)' \subseteq Hands(q) \union KidsOf(active)' /\ Polled(q)' = Polled(q)
        BY <4>1 DEF Hands, Todo, Held, Polled
      <4> QED BY <2>3, <4>1, <4>2, <4>3 DEF OneRun
    <3> QED BY <3>1, <3>2
  <2>8. active' = active /\ closer' = closer /\ canceller' = canceller
    BY <2>1, <2>2
  <2>9. ASSUME NEW r \in Runs
        PROVE  Alive(<<"execute", r>>)' = Alive(<<"execute", r>>)
    <3>1. <<"execute", r>> \in Coroutines /\ <<"execute", r>> # p
      BY DEF Coroutines
    <3> QED BY <2>4, <3>1 DEF Alive
  <2> HIDE DEF p
  <2> QED BY <2>3, <2>5, <2>6, <2>7, <2>8, <2>9 DEF OneRun
<1> QED BY <1>1, <1>2 DEF PlanRun, ManualRun

-----------------------------------------------------------------------------
(***************************************************************************)
(* What the coroutines know of the cards they work on.  It makes success   *)
(* stable: no close, cancel, late receipt or later poll takes it back.     *)
(***************************************************************************)
Succeeded(k) == kid[k].status = "succeeded"

\* A child whose answer is pending has its receipt and is not over, and what
\* the ledger said of a task that is over still holds.
PollKnows(p) ==
  \A k \in Polled(p) :
    /\ kid[k].sess # 0 /\ ~Succeeded(k)
    /\ co[p].asked[k].sess = kid[k].sess
    /\ co[p].asked[k].status \notin Unfinished => task[kid[k].sess] = co[p].asked[k].status

\* An unwanted session is archived for a child that no poll will report.
ArchiveKnows(p) ==
  co[p].pc = "archiving" =>
    LET k == co[p].kid
    IN  /\ kid[k].sess # 0 /\ ~Succeeded(k) /\ Refused(k)
        /\ \A q \in Coroutines : k \in Polled(q) => kid[k].closeReq

CloserKnows(c) ==
  closer[c].pc # "idle" =>
    LET k == closer[c].kid
    IN  /\ kid[k].closeReq
        /\ closer[c].pc = "archiving" => kid[k].sess # 0
        /\ Succeeded(k) => closer[c].prev \in Terminal

Cards ==
  /\ \A k \in Kids : kid[k].status \in {"running", "succeeded"} => kid[k].sess # 0
  /\ \A p \in Coroutines : PollKnows(p) /\ ArchiveKnows(p)
  /\ \A c \in Clicks : CloserKnows(c)

\* No card succeeds before it belongs to a run.
Fresh == \A k \in Kids : kid[k].run = 0 => ~Succeeded(k)

\* Success stays, and comes from the answer to a poll only.
SuccessStays ==
  \A k \in Kids : /\ Succeeded(k) => Succeeded(k)'
                  /\ Succeeded(k)' => \/ Succeeded(k)
                                      \/ \E p \in Coroutines : k \in Polled(p) \ Polled(p)'

LEMMA OnlyExecutePolls ==
  ASSUME TypeOK, OneRun, NEW p \in Coroutines, Polled(p) # {}
  PROVE  p = <<"execute", active>>
<1>1. Alive(p) /\ co[p].pc \notin SpawnPCs
  BY DEF Polled, Alive, SpawnPCs
<1> QED BY <1>1, AliveIsActive

\* A card without receipt that nobody polls or archives gets new values.
LEMMA CardsTaken ==
  ASSUME TypeOK, Honest, Spawners, OneRun, Cards, NEW p \in Coroutines, Begin(p) \/ Spawned(p)
  PROVE  Cards' /\ SuccessStays
<1>1. /\ co[p].pc \in {"created", "spawned"} /\ OnlyCo(p)
      /\ UNCHANGED <<active, flag, closer, canceller, task, owner, archived>>
      /\ \/ \E k \in Kids : Takes(p, k)
         \/ co'[p].pc = "done" /\ kid' = kid
         \/ co'[p].pc = "launched" /\ kid' = kid
  BY TakesEffect
<1>2. co'[p].pc \in {"spawned", "spawning", "done", "launched"}
  BY <1>1 DEF Takes
<1>3. \A q \in Coroutines : q # p => co'[q] = co[q] /\ Polled(q)' = Polled(q)
  BY <1>1 DEF OnlyCo, Polled
<1>4. Polled(p)' = {}
  BY <1>2 DEF Polled
<1>5. ASSUME NEW k \in Kids, Takes(p, k)
      PROVE  Cards' /\ SuccessStays
  <2>1. kid[k].sess = 0 /\ k \in Untouched(p)
    BY <1>5 DEF Takes, Spawners, Untouched, Unspawned
  <2>2. /\ \A j \in Kids \ {k} : kid'[j] = kid[j]
        /\ kid'[k].sess = 0 /\ kid'[k].closeReq = kid[k].closeReq
        /\ kid'[k].status \in {"cancelled", "starting"}
    BY <1>5, <2>1 DEF Takes, OnlyKid
  <2>3. \A j \in Kids : kid'[j].status \in {"running", "succeeded"} => kid'[j].sess # 0
    BY <2>2 DEF Cards
  <2>4. ASSUME NEW q \in Coroutines PROVE PollKnows(q)'
    <3>1. CASE q = p
      BY <1>4, <3>1 DEF PollKnows
    <3>2. CASE q # p
      <4>1. \A j \in Polled(q) : j \in Kids /\ j # k
        BY <2>1 DEF Cards, PollKnows, OneRun, KidsOf
      <4> QED BY <1>1, <1>3, <2>2, <3>2, <4>1 DEF PollKnows, Cards, Succeeded
    <3> QED BY <3>1, <3>2
  <2>5. ASSUME NEW q \in Coroutines PROVE ArchiveKnows(q)'
    <3>1. CASE q = p
      BY <1>2, <3>1 DEF ArchiveKnows
    <3>2. CASE q # p /\ co[q].pc = "archiving"
      <4>1. co[q].kid \in Kids /\ co[q].kid # k
        BY <2>1, <3>2 DEF Cards, ArchiveKnows, Honest, CoHonest
      <4>2. kid'[co[q].kid] = kid[co[q].kid] /\ co'[q] = co[q] /\ flag' = flag
        BY <1>1, <1>3, <2>2, <3>2, <4>1
      <4>3. \A r \in Coroutines : Polled(r)' \subseteq Polled(r)
        BY <1>3, <1>4
      <4> QED BY <3>2, <4>2, <4>3 DEF ArchiveKnows, Cards, Succeeded, Refused
    <3>3. CASE q # p /\ co[q].pc # "archiving"
      BY <1>3, <3>3 DEF ArchiveKnows
    <3> QED BY <3>1, <3>2, <3>3
  <2>6. ASSUME NEW c \in Clicks PROVE CloserKnows(c)'
    <3>1. closer[c].pc # "idle" => closer[c].kid \in Kids
      BY DEF Honest, CloserHonest
    <3>2. closer'[c] = closer[c] /\ CloserKnows(c)
      BY <1>1 DEF Cards
    <3> QED BY <2>1, <2>2, <3>1, <3>2 DEF CloserKnows, Succeeded
  <2>7. SuccessStays
    <3>1. ~Succeeded(k)
      BY <2>1 DEF Cards, Succeeded
    <3>2. \A j \in Kids : Succeeded(j)' = Succeeded(j)
      BY <2>2, <3>1 DEF Succeeded
    <3> QED BY <3>2 DEF SuccessStays
  <2> QED BY <2>3, <2>4, <2>5, <2>6, <2>7 DEF Cards
<1>6. CASE kid' = kid /\ co'[p].pc \in {"done", "launched"}
  <2>1. ASSUME NEW q \in Coroutines PROVE PollKnows(q)' /\ ArchiveKnows(q)'
    <3>1. CASE q = p
      BY <1>4, <1>6, <3>1 DEF PollKnows, ArchiveKnows
    <3>2. CASE q # p
      <4>1. \A r \in Coroutines : Polled(r)' \subseteq Polled(r)
        BY <1>3, <1>4
      <4>2. kid' = kid /\ task' = task /\ flag' = flag /\ co'[q] = co[q]
        BY <1>1, <1>3, <1>6, <3>2
      <4>3. PollKnows(q) /\ ArchiveKnows(q)
        BY DEF Cards
      <4>4. PollKnows(q)'
        BY <1>3, <3>2, <4>2, <4>3 DEF PollKnows, Succeeded
      <4>5. ArchiveKnows(q)'
        BY <4>1, <4>2, <4>3 DEF ArchiveKnows, Succeeded, Refused
      <4> QED BY <4>4, <4>5
    <3> QED BY <3>1, <3>2
  <2>2. \A c \in Clicks : CloserKnows(c)'
    BY <1>1, <1>6 DEF Cards, CloserKnows, Succeeded
  <2>3. SuccessStays
    BY <1>6 DEF SuccessStays, Succeeded
  <2> QED BY <1>6, <2>1, <2>2, <2>3 DEF Cards
<1> QED BY <1>1, <1>5, <1>6

LEMMA CardsAnswered ==
  ASSUME TypeOK, Honest, Spawners, OneRun, Cards, NEW p \in Coroutines, Step(p),
         ~Begin(p), ~Spawned(p), "archive_fails" \notin Env
  PROVE  Cards' /\ SuccessStays
<1> DEFINE k == co[p].kid
<1>1. /\ k \in Kids /\ co[p].pc \in {"spawning", "archiving"}
      /\ OnlyKid(k) /\ OnlyCo(p)
      /\ co'[p].kid = k /\ co'[p].todo = co[p].todo
      /\ UNCHANGED <<active, run, flag, closer, canceller>>
      /\ Accepts(p) \/ GivesUp(p) \/ Archives(p)
  BY AnswerEffect DEF Cards, ArchiveKnows
<1>2. co'[p].pc \in {"spawned", "archiving"}
  BY <1>1 DEF Accepts, GivesUp, Archives
<1>3. \A q \in Coroutines : q # p => co'[q] = co[q] /\ Polled(q)' = Polled(q)
  BY <1>1 DEF OnlyCo, Polled
<1>4. Polled(p)' = {} /\ \A r \in Coroutines : Polled(r)' \subseteq Polled(r)
  BY <1>2, <1>3 DEF Polled
<1>5. co[p].pc = "spawning" => kid[k].sess = 0
  BY DEF Spawners, Untouched, Held, Unspawned
<1>6. 0 \notin Sessions
  BY MultiAgentAssumption DEF Sessions
<1>7. /\ kid'[k].status \in {"running", "cancelling", "failed", "cancelled"}
      /\ kid'[k].status = "running" => kid'[k].sess # 0
      /\ co[p].pc = "archiving" => kid'[k].sess = kid[k].sess
      /\ \A j \in Kids \ {k} : kid'[j] = kid[j]
      /\ kid'[k].closeReq = kid[k].closeReq
  BY <1>1, <1>6 DEF Accepts, GivesUp, Archives, OnlyKid, NewSession
<1>8. \A s \in Sessions : task[s] # "none" => task'[s] = task[s]
  BY <1>1 DEF Accepts, GivesUp, Archives, SameUpstream, NewSession
<1>9. ~Succeeded(k)
  BY <1>1, <1>5 DEF Cards, ArchiveKnows, Succeeded
<1>10. \A j \in Kids : kid'[j].status \in {"running", "succeeded"} => kid'[j].sess # 0
  BY <1>7 DEF Cards
<1>11. ASSUME NEW q \in Coroutines PROVE PollKnows(q)'
  <2>1. CASE q = p
    BY <1>4, <2>1 DEF PollKnows
  <2>2. CASE q # p
    <3> SUFFICES ASSUME NEW j \in Polled(q)
                 PROVE  /\ kid'[j].sess # 0 /\ ~Succeeded(j)'
                        /\ co[q].asked[j].sess = kid'[j].sess
                        /\ co[q].asked[j].status \notin Unfinished
                             => task'[kid'[j].sess] = co[q].asked[j].status
      BY <1>3, <2>2 DEF PollKnows
    <3>1. j \in Kids /\ kid[j] \in KidType
      BY DEF OneRun, KidsOf, TypeOK
    <3>2. /\ kid[j].sess # 0 /\ ~Succeeded(j)
          /\ co[q].asked[j].sess = kid[j].sess
          /\ co[q].asked[j].status \notin Unfinished => task[kid[j].sess] = co[q].asked[j].status
      BY DEF Cards, PollKnows
    <3>3. kid'[j].sess = kid[j].sess /\ ~Succeeded(j)'
      BY <1>1, <1>5, <1>7, <3>1, <3>2 DEF Succeeded
    <3>4. kid[j].sess \in Sessions /\ task[kid[j].sess] # "none"
      BY <3>1, <3>2, MultiAgentAssumption DEF Honest, KidHonest, KidType, Sessions
    <3>5. task'[kid[j].sess] = task[kid[j].sess]
      BY <1>8, <3>4
    <3> QED BY <3>2, <3>3, <3>5
  <2> QED BY <2>1, <2>2
<1>12. ASSUME NEW q \in Coroutines PROVE ArchiveKnows(q)'
  <2>1. CASE q = p
    <3>1. co'[p].pc = "archiving" =>
            kid'[k].sess # 0 /\ kid'[k].status = "cancelling" /\ Refused(k) /\ co[p].pc = "spawning"
      BY <1>1, <1>6 DEF Accepts, GivesUp, Archives, NewSession
    <3>2. co[p].pc = "spawning" => \A r \in Coroutines : k \notin Polled(r)'
      BY <1>4, <1>5 DEF Cards, PollKnows
    <3>3. Refused(k)' <=> Refused(k)
      BY <1>1, <1>7 DEF Refused
    <3> QED BY <1>1, <2>1, <3>1, <3>2, <3>3 DEF ArchiveKnows, Succeeded
  <2>2. CASE q # p /\ co[q].pc = "archiving"
    <3>1. co[q].kid \in Kids /\ co[q].kid # k
      BY <1>1, <2>2 DEF Spawners, Hands, Held, Honest, CoHonest
    <3>2. kid'[co[q].kid] = kid[co[q].kid] /\ co'[q] = co[q] /\ flag' = flag
      BY <1>1, <1>3, <1>7, <2>2, <3>1
    <3> QED BY <1>4, <2>2, <3>2 DEF ArchiveKnows, Cards, Succeeded, Refused
  <2>3. CASE q # p /\ co[q].pc # "archiving"
    BY <1>3, <2>3 DEF ArchiveKnows
  <2> QED BY <2>1, <2>2, <2>3
<1>13. ASSUME NEW c \in Clicks PROVE CloserKnows(c)'
  <2>1. closer[c].pc # "idle" => closer[c].kid \in Kids
    BY DEF Honest, CloserHonest
  <2>2. closer'[c] = closer[c] /\ CloserKnows(c)
    BY <1>1 DEF Cards
  <2>3. CASE closer[c].kid = k
    BY <1>1, <1>5, <1>7, <2>2, <2>3 DEF CloserKnows, Succeeded
  <2>4. CASE closer[c].kid # k
    BY <1>7, <2>1, <2>2, <2>4 DEF CloserKnows, Succeeded
  <2> QED BY <2>3, <2>4
<1>14. SuccessStays
  <2>1. \A j \in Kids : Succeeded(j)' = Succeeded(j)
    BY <1>7, <1>9 DEF Succeeded
  <2> QED BY <2>1 DEF SuccessStays
<1> QED BY <1>10, <1>11, <1>12, <1>13, <1>14 DEF Cards

LEMMA CardsResumed ==
  ASSUME TypeOK, Honest, LedgerKept, OneRun, Cards, NEW p \in Coroutines, Resume(p)
  PROVE  Cards' /\ SuccessStays
<1>1. /\ p = <<"execute", active>> /\ active \in Runs /\ OnlyCo(p)
      /\ UNCHANGED <<active, flag, closer, canceller, task, owner, archived>>
      /\ Concludes(p) \/ Waits(p) \/ Requests(p) \/ Applies(p) \/ Tells(p) \/ Finishes(p)
  BY ResumeEffect
<1>2. \A q \in Coroutines : q # p => co'[q] = co[q] /\ Polled(q) = {} /\ Polled(q)' = {}
  <2> TAKE q \in Coroutines
  <2>1. q # p => Polled(q) = {} /\ co'[q] = co[q]
    BY <1>1, OnlyExecutePolls DEF OnlyCo
  <2> QED BY <2>1 DEF Polled
<1>3. co'[p].pc # "archiving"
  BY <1>1 DEF Concludes, Waits, Requests, Applies, Tells, Finishes
<1>4. \A j \in Kids : Keeps(j)
  BY <1>1 DEF Concludes, Waits, Requests, Applies, Tells, Finishes, Keeps
<1>5. ASSUME NEW j \in Kids
      PROVE  \/ kid'[j].status = kid[j].status
             \/ kid'[j].status \in {"failed", "cancelled"} /\ IsLive(j)
             \/ Applies(p) /\ kid'[j].status = "timed_out" /\ (IsLive(j) \/ j \in Polled(p))
             \/ Applies(p) /\ j \in Polled(p) /\ j \notin Polled(p)' /\ ~kid[j].closeReq
  BY <1>1 DEF Concludes, Waits, Requests, Applies, Tells, Finishes, Polled
<1>6. \A j \in Kids : kid'[j].status \in {"running", "succeeded"} => kid'[j].sess # 0
  BY <1>4, <1>5 DEF Cards, PollKnows, Keeps
<1>7. \A j \in Kids : IsLive(j) => ~Succeeded(j)
  BY DEF IsLive, Succeeded, Terminal
<1>8. \A j \in Polled(p) : ~Succeeded(j) /\ j \in Kids
  BY DEF Cards, PollKnows, OneRun, KidsOf
<1>9. SuccessStays
  BY <1>5, <1>7, <1>8 DEF SuccessStays, Succeeded
<1>10. PollKnows(p)'
  <2>1. CASE Requests(p)
    <3>1. Polled(p)' = Pending /\ kid' = kid /\ task' = task
      BY <1>1, <2>1 DEF Requests, Polled
    <3>2. \A j \in Pending : kid[j].sess # 0 /\ ~Succeeded(j)
      BY DEF Pending, Succeeded
    <3>3. \A j \in Pending : /\ co'[p].asked[j].sess = kid[j].sess
                             /\ co'[p].asked[j].status = task[kid[j].sess]
      BY <2>1 DEF Requests
    <3>4. \A j : Succeeded(j)' = Succeeded(j)
      BY <3>1 DEF Succeeded
    <3> QED BY <3>1, <3>2, <3>3, <3>4 DEF PollKnows
  <2>2. CASE Applies(p)
    <3> SUFFICES ASSUME NEW j \in Polled(p)'
                 PROVE  /\ kid'[j].sess # 0 /\ ~Succeeded(j)'
                        /\ co'[p].asked[j].sess = kid'[j].sess
                        /\ co'[p].asked[j].status \notin Unfinished
                             => task'[kid'[j].sess] = co'[p].asked[j].status
      BY DEF PollKnows
    <3>1. j \in Polled(p) /\ co'[p].asked = co[p].asked /\ task' = task
      BY <1>1, <2>2 DEF Applies, Polled
    <3>2. j \in Kids /\ kid[j].sess # 0 /\ ~Succeeded(j) /\ co[p].asked[j].sess = kid[j].sess
          /\ (co[p].asked[j].status \notin Unfinished => task[kid[j].sess] = co[p].asked[j].status)
      BY <1>8, <3>1 DEF Cards, PollKnows
    <3>3. kid'[j].sess = kid[j].sess
      BY <1>4, <3>2 DEF Keeps
    <3>4. ~Succeeded(j)'
      BY <1>5, <3>2 DEF Succeeded
    <3> QED BY <3>1, <3>2, <3>3, <3>4
  <2>3. CASE Concludes(p) \/ Waits(p) \/ Tells(p) \/ Finishes(p)
    <3>1. Polled(p)' = {}
      BY <2>3 DEF Concludes, Waits, Tells, Finishes, Polled
    <3> QED BY <3>1 DEF PollKnows
  <2> QED BY <1>1, <2>1, <2>2, <2>3
<1>11. \A q \in Coroutines : PollKnows(q)'
  <2> TAKE q \in Coroutines
  <2>1. CASE q = p
    BY <1>10, <2>1
  <2>2. CASE q # p
    BY <1>2, <2>2 DEF PollKnows
  <2> QED BY <2>1, <2>2
<1>12. ASSUME NEW q \in Coroutines PROVE ArchiveKnows(q)'
  <2>1. CASE q = p \/ co[q].pc # "archiving"
    BY <1>2, <1>3, <2>1 DEF ArchiveKnows
  <2>2. CASE q # p /\ co[q].pc = "archiving"
    <3> DEFINE k == co[q].kid
    <3>1. k \in Kids /\ co'[q] = co[q] /\ flag' = flag
      BY <1>1, <1>2, <2>2 DEF Honest, CoHonest
    <3>2. kid[k].sess # 0 /\ ~Succeeded(k) /\ Refused(k)
          /\ \A r \in Coroutines : k \in Polled(r) => kid[k].closeReq
      BY <2>2 DEF Cards, ArchiveKnows
    <3>3. kid'[k].sess = kid[k].sess /\ kid'[k].closeReq = kid[k].closeReq
      BY <1>4, <3>1 DEF Keeps
    <3>4. ~Succeeded(k)'
      BY <1>5, <3>1, <3>2 DEF Succeeded
    <3>5. Refused(k)'
      BY <3>1, <3>2, <3>3 DEF Refused
    <3>6. k \in Polled(p)' => kid[k].closeReq
      <4>1. CASE Requests(p)
        BY <3>2, <4>1 DEF Requests, Refused
      <4>2. CASE Applies(p)
        BY <3>2, <4>2 DEF Applies, Polled
      <4>3. CASE Concludes(p) \/ Waits(p) \/ Tells(p) \/ Finishes(p)
        BY <4>3 DEF Concludes, Waits, Tells, Finishes, Polled
      <4> QED BY <1>1, <4>1, <4>2, <4>3
    <3>7. \A r \in Coroutines : k \in Polled(r)' => kid'[k].closeReq
      BY <1>2, <3>3, <3>6
    <3> HIDE DEF k
    <3> QED BY <3>1, <3>2, <3>3, <3>4, <3>5, <3>7 DEF ArchiveKnows, k
  <2> QED BY <2>1, <2>2
<1>13. ASSUME NEW c \in Clicks PROVE CloserKnows(c)'
  <2>1. closer[c].pc # "idle" => closer[c].kid \in Kids
    BY DEF Honest, CloserHonest
  <2>2. closer'[c] = closer[c] /\ CloserKnows(c)
    BY <1>1 DEF Cards
  <2>3. \A j \in Kids : kid[j].closeReq => (Succeeded(j)' => Succeeded(j))
    BY <1>5 DEF Succeeded
  <2>4. \A j \in Kids : kid'[j].sess = kid[j].sess /\ kid'[j].closeReq = kid[j].closeReq
    BY <1>4 DEF Keeps
  <2> QED BY <2>1, <2>2, <2>3, <2>4 DEF CloserKnows
<1> QED BY <1>6, <1>9, <1>11, <1>12, <1>13 DEF Cards

\* Cards whose receipts stay, with coroutines and polls as they were or done.
LEMMA CardsRest ==
  ASSUME TypeOK, Honest, OneRun, Cards, flag => flag',
         \A q \in Coroutines : co'[q] = co[q] \/ co'[q].pc = "done",
         \A j \in Kids : /\ kid'[j].sess = kid[j].sess /\ (kid[j].closeReq => kid'[j].closeReq)
                         /\ Succeeded(j)' = Succeeded(j)
                         /\ kid'[j].status = "running" => kid[j].status = "running",
         \A s \in Sessions : task[s] \notin Unfinished \union {"none"} => task'[s] = task[s],
         \A c \in Clicks : CloserKnows(c)'
  PROVE  Cards' /\ SuccessStays
<1>1. \A q \in Coroutines : Polled(q)' \subseteq Polled(q) /\ (Polled(q)' # {} => co'[q] = co[q])
  BY DEF Polled
<1>2. \A j \in Kids : kid'[j].status \in {"running", "succeeded"} => kid'[j].sess # 0
  BY DEF Cards, Succeeded
<1>3. ASSUME NEW q \in Coroutines PROVE PollKnows(q)'
  <2> SUFFICES ASSUME NEW j \in Polled(q)'
               PROVE  /\ kid'[j].sess # 0 /\ ~Succeeded(j)'
                      /\ co[q].asked[j].sess = kid'[j].sess
                      /\ co[q].asked[j].status \notin Unfinished
                           => task'[kid'[j].sess] = co[q].asked[j].status
    BY <1>1 DEF PollKnows
  <2>0. j \in Polled(q)
    BY <1>1
  <2>1. /\ kid[j].sess # 0 /\ ~Succeeded(j) /\ co[q].asked[j].sess = kid[j].sess
        /\ co[q].asked[j].status \notin Unfinished => task[kid[j].sess] = co[q].asked[j].status
    BY <2>0 DEF Cards, PollKnows
  <2>2. j \in Kids /\ kid[j] \in KidType
    BY <2>0 DEF OneRun, KidsOf, TypeOK
  <2>3. kid[j].sess \in Sessions /\ task[kid[j].sess] # "none"
    BY <2>1, <2>2, MultiAgentAssumption DEF KidType, Sessions, Honest, KidHonest
  <2> QED BY <2>1, <2>2, <2>3
<1>4. ASSUME NEW q \in Coroutines PROVE ArchiveKnows(q)'
  <2>1. co'[q].pc = "archiving" => co[q].kid \in Kids /\ co'[q] = co[q]
    BY DEF Honest, CoHonest
  <2> QED BY <1>1, <2>1 DEF ArchiveKnows, Cards, Refused
<1> QED BY <1>2, <1>3, <1>4 DEF Cards, SuccessStays

LEMMA CardsCommanded ==
  ASSUME TypeOK, Honest, OneRun, Cards, Command, "archive_fails" \notin Env
  PROVE  Cards' /\ SuccessStays
<1>0. \A c \in Clicks : closer[c].pc # "idle" => closer[c].kid \in Kids
  BY DEF Honest, CloserHonest
<1>1. \A j \in Kids : IsLive(j) => ~Succeeded(j)
  BY DEF IsLive, Succeeded, Terminal
<1>2. ASSUME UNCHANGED <<co, kid, closer>>, flag => flag',
             \A s \in Sessions : task[s] \notin Unfinished => task'[s] = task[s]
      PROVE  Cards' /\ SuccessStays
  <2>1. \A c \in Clicks : CloserKnows(c)'
    BY <1>2 DEF Cards, CloserKnows, Succeeded
  <2> QED BY <1>2, <2>1, CardsRest DEF Succeeded
<1>3. CASE Cancel
  BY <1>2, <1>3, CancelEffect
<1>4. ASSUME NEW x \in Cancellers, CancelLists(x) \/ CancelListed(x)
      PROVE  Cards' /\ SuccessStays
  BY <1>2, <1>4 DEF CancelLists, CancelListed, upstream
<1>5. ASSUME NEW x \in Cancellers, CancelTask(x)
      PROVE  Cards' /\ SuccessStays
  BY <1>2, <1>5 DEF CancelTask, TypeOK
<1>6. ASSUME NEW x \in Cancellers, CancelEnds(x)
      PROVE  Cards' /\ SuccessStays
  <2>1. active \in Runs
    BY <1>6 DEF CancelEnds, OneRun
  <2>2. /\ UNCHANGED <<flag, co, closer, task>>
        /\ \A j \in Kids : /\ Keeps(j)
                           /\ kid'[j].status = IF j \in KidsOf(active) /\ IsLive(j)
                                               THEN "cancelled" ELSE kid[j].status
    BY <1>6, <2>1, CancelEndsEffect
  <2>3. \A j \in Kids : /\ kid'[j].sess = kid[j].sess /\ kid'[j].closeReq = kid[j].closeReq
                        /\ Succeeded(j)' = Succeeded(j)
                        /\ kid'[j].status = "running" => kid[j].status = "running"
    BY <1>1, <2>2 DEF Keeps, Succeeded
  <2>4. \A c \in Clicks : CloserKnows(c)'
    BY <1>0, <2>2, <2>3 DEF Cards, CloserKnows
  <2> QED BY <2>2, <2>3, <2>4, CardsRest
<1>7. ASSUME NEW c \in Clicks, NEW k \in Kids, Close(c, k)
      PROVE  Cards' /\ SuccessStays
  <2>1. Marks(c, k) /\ OnlyCloser(c) /\ UNCHANGED <<flag, co, task>>
    BY <1>7, MarksEffect
  <2>2. \A j \in Kids : /\ kid'[j].sess = kid[j].sess /\ (kid[j].closeReq => kid'[j].closeReq)
                        /\ Succeeded(j)' = Succeeded(j)
                        /\ kid'[j].status = "running" => kid[j].status = "running"
    BY <1>1, <2>1 DEF Marks, Succeeded
  <2>3. ASSUME NEW d \in Clicks PROVE CloserKnows(d)'
    <3>1. CASE d = c
      <4>1. /\ kid'[k].closeReq /\ closer'[c].pc = "emitting" /\ closer'[c].kid = k
            /\ closer'[c].prev = kid[k].status
        BY <2>1 DEF Marks
      <4>2. Succeeded(k)' => kid[k].status \in Terminal
        BY <2>2 DEF Succeeded, Terminal
      <4> QED BY <3>1, <4>1, <4>2 DEF CloserKnows
    <3>2. CASE d # c
      BY <1>0, <2>1, <2>2, <3>2 DEF OnlyCloser, Cards, CloserKnows
    <3> QED BY <3>1, <3>2
  <2> QED BY <2>1, <2>2, <2>3, CardsRest
<1>8. ASSUME NEW c \in Clicks, CloserStep(c)
      PROVE  Cards' /\ SuccessStays
  <2>1. /\ closer[c].kid \in Kids /\ closer[c].pc # "idle"
        /\ Sends(c) \/ Hides(c)
        /\ OnlyCloser(c) /\ UNCHANGED <<flag, co, task>>
    BY <1>8, CloserEffect DEF Cards, CloserKnows
  <2>2. CloserKnows(c)
    BY DEF Cards
  <2>3. \A j \in Kids : /\ kid'[j].sess = kid[j].sess /\ (kid[j].closeReq => kid'[j].closeReq)
                        /\ Succeeded(j)' = Succeeded(j)
                        /\ kid'[j].status = "running" => kid[j].status = "running"
    <3>1. CASE Sends(c)
      BY <3>1 DEF Sends, Succeeded
    <3>2. CASE Hides(c)
      BY <2>1, <2>2, <3>2 DEF Hides, OnlyKid, Succeeded, CloserKnows
    <3> QED BY <2>1, <3>1, <3>2
  <2>4. ASSUME NEW d \in Clicks PROVE CloserKnows(d)'
    <3>1. CASE d = c
      BY <2>1, <2>2, <2>3, <3>1 DEF CloserKnows, Sends, Hides
    <3>2. CASE d # c
      BY <1>0, <2>1, <2>3, <3>2 DEF OnlyCloser, Cards, CloserKnows
    <3> QED BY <3>1, <3>2
  <2> QED BY <2>1, <2>3, <2>4, CardsRest
<1>9. ASSUME NEW s \in Sessions, TaskStarts(s) \/ TaskEnds(s)
      PROVE  Cards' /\ SuccessStays
  BY <1>2, <1>9 DEF TaskStarts, TaskEnds, TypeOK, Unfinished
<1> QED BY <1>3, <1>4, <1>5, <1>6, <1>7, <1>8, <1>9 DEF Command, CancellerStep

LEMMA CardsInterrupted ==
  ASSUME TypeOK, Honest, OneRun, Cards, Interrupts, "backpressure" \notin Env
  PROVE  Cards' /\ SuccessStays
<1>0. \A c \in Clicks : closer[c].pc # "idle" => closer[c].kid \in Kids
  BY DEF Honest, CloserHonest
<1>1. \A j \in Kids : IsLive(j) => ~Succeeded(j)
  BY DEF IsLive, Succeeded, Terminal
<1>2. ASSUME \A j \in Kids : kid'[j].sess = kid[j].sess /\ kid'[j].closeReq = kid[j].closeReq
                              /\ Succeeded(j)' = Succeeded(j),
             closer' = closer
      PROVE  \A c \in Clicks : CloserKnows(c)'
  BY <1>0, <1>2 DEF Cards, CloserKnows
<1>3. ASSUME NEW p \in Coroutines, Interrupted(p)
      PROVE  Cards' /\ SuccessStays
  <2>1. /\ co'[p].pc = "done" /\ OnlyCo(p) /\ closer' = closer
        /\ \A k \in Kids : SameCard(k) /\ kid'[k].status = kid[k].status
                           /\ kid'[k].closeReq = kid[k].closeReq
        /\ flag' = TRUE \/ flag' = flag
    BY <1>3, InterruptFields
  <2>2. \A s \in Sessions : task[s] # "none" => task'[s] = task[s]
    BY <1>3, CutOffEffect DEF SameUpstream, NewSession
  <2>3. \A j \in Kids : /\ kid'[j].sess = kid[j].sess /\ kid'[j].closeReq = kid[j].closeReq
                        /\ Succeeded(j)' = Succeeded(j)
                        /\ kid'[j].status = "running" => kid[j].status = "running"
    BY <2>1 DEF SameCard, Succeeded
  <2>4. \A q \in Coroutines : co'[q] = co[q] \/ co'[q].pc = "done"
    BY <2>1 DEF OnlyCo
  <2> QED BY <1>2, <2>1, <2>2, <2>3, <2>4, CardsRest
<1>4. CASE InterruptedAgain
  <2>1. /\ UNCHANGED <<flag, co, closer, task>>
        /\ \A k \in Kids : /\ SameCard(k) /\ kid'[k].closeReq = kid[k].closeReq
                           /\ kid'[k].status = IF k \in KidsOf(active) /\ IsLive(k)
                                               THEN "cancelled" ELSE kid[k].status
    BY <1>4, AgainFields
  <2>2. \A j \in Kids : /\ kid'[j].sess = kid[j].sess /\ kid'[j].closeReq = kid[j].closeReq
                        /\ Succeeded(j)' = Succeeded(j)
                        /\ kid'[j].status = "running" => kid[j].status = "running"
    BY <1>1, <2>1 DEF SameCard, Succeeded
  <2> QED BY <1>2, <2>1, <2>2, CardsRest
<1> QED BY <1>3, <1>4 DEF Interrupts

LEMMA CardsStarted ==
  ASSUME TypeOK, Honest, OneRun, Cards, Fresh, PlanRun \/ ManualRun \/ AddChild, "overlap" \notin Env
  PROVE  Cards' /\ SuccessStays /\ Fresh'
<1>1. ASSUME NEW p, NEW S, NEW r, Starts(p, S, r),
             (flag' = flag) \/ Quiet
      PROVE  Cards' /\ SuccessStays /\ Fresh'
  <2>1. /\ S \subseteq Kids \ UsedKids
        /\ \A j \in S : kid'[j].status = "queued"
        /\ \A j \in Kids \ S : kid'[j] = kid[j]
        /\ p \in Coroutines /\ co'[p].pc = "created"
        /\ \A q \in Coroutines : q # p => co'[q] = co[q]
        /\ UNCHANGED <<closer, canceller, task, owner, archived>>
    BY <1>1 DEF Starts, OnlyCo
  <2>2. \A q \in Coroutines : /\ Polled(q)' \subseteq Polled(q) /\ (q # p => Polled(q)' = Polled(q))
                              /\ q = p => Polled(q)' = {}
    BY <2>1 DEF Polled
  <2>3. \A j \in KidsOf(active) : j \in UsedKids /\ j \in Kids /\ j \notin S
    BY <2>1 DEF KidsOf, UsedKids
  <2>4. ASSUME NEW q \in Coroutines PROVE PollKnows(q)'
    <3>1. CASE q = p
      BY <2>2, <3>1 DEF PollKnows
    <3>2. CASE q # p
      <4>1. \A j \in Polled(q) : kid'[j] = kid[j]
        BY <2>1, <2>3 DEF OneRun
      <4> QED BY <2>1, <2>2, <3>2, <4>1 DEF PollKnows, Cards, Succeeded
    <3> QED BY <3>1, <3>2
  <2>5. ASSUME NEW q \in Coroutines PROVE ArchiveKnows(q)'
    <3>1. CASE q = p \/ co[q].pc # "archiving"
      BY <2>1, <3>1 DEF ArchiveKnows
    <3>2. CASE q # p /\ co[q].pc = "archiving"
      <4>1. co[q].kid \in KidsOf(active)
        BY <3>2 DEF OneRun, Hands, Held
      <4>2. ~Quiet
        BY <3>2 DEF Quiet
      <4>3. kid'[co[q].kid] = kid[co[q].kid] /\ co'[q] = co[q] /\ flag' = flag
        BY <1>1, <2>1, <2>3, <3>2, <4>1, <4>2
      <4> QED BY <2>2, <3>2, <4>3 DEF ArchiveKnows, Cards, Succeeded, Refused
    <3> QED BY <3>1, <3>2
  <2>6. ASSUME NEW c \in Clicks PROVE CloserKnows(c)'
    <3>1. closer[c].pc # "idle" => kid'[closer[c].kid] = kid[closer[c].kid]
      BY <2>1, <2>3 DEF OneRun
    <3> QED BY <2>1, <3>1 DEF CloserKnows, Cards, Succeeded
  <2>7. \A j \in Kids : kid'[j].status \in {"running", "succeeded"} => kid'[j].sess # 0
    BY <2>1 DEF Cards
  <2>8. \A j \in Kids : Succeeded(j)' = Succeeded(j)
    <3>1. \A j \in S : ~Succeeded(j)
      BY <2>1 DEF UsedKids, Fresh
    <3> QED BY <2>1, <3>1 DEF Succeeded
  <2>9. SuccessStays
    BY <2>8 DEF SuccessStays
  <2>10. Fresh'
    BY <2>1 DEF Fresh, Succeeded
  <2> QED BY <2>4, <2>5, <2>6, <2>7, <2>9, <2>10 DEF Cards
<1>2. ASSUME NEW n, NEW plan \in BOOLEAN, Execute(n, plan)
      PROVE  Cards' /\ SuccessStays /\ Fresh'
  BY <1>1, <1>2, ExecuteEffect
<1>3. CASE AddChild
  BY <1>1, <1>3, AddEffect
<1> QED BY <1>2, <1>3 DEF PlanRun, ManualRun

-----------------------------------------------------------------------------
\* A coroutine, a command or an interrupt leaves every child in its run.
LEMMA RunsStay ==
  ASSUME TypeOK, Honest, Spawners, LedgerKept, OneRun, Cards,
         "archive_fails" \notin Env, "backpressure" \notin Env,
         Command \/ Interrupts \/ \E p \in Coroutines : Step(p) \/ Resume(p)
  PROVE  active' = active /\ \A k \in Kids : kid'[k].run = kid[k].run
<1>1. ASSUME NEW p \in Coroutines, Begin(p) \/ Spawned(p)
      PROVE  active' = active /\ \A k \in Kids : kid'[k].run = kid[k].run
  BY <1>1, TakesEffect DEF Takes, OnlyKid
<1>2. ASSUME NEW p \in Coroutines, Step(p), ~Begin(p), ~Spawned(p)
      PROVE  active' = active /\ \A k \in Kids : kid'[k].run = kid[k].run
  BY <1>2, AnswerEffect DEF OnlyKid, Cards, ArchiveKnows
<1>3. ASSUME NEW p \in Coroutines, Resume(p)
      PROVE  active' = active /\ \A k \in Kids : kid'[k].run = kid[k].run
  BY <1>3, ResumeEffect DEF Concludes, Waits, Requests, Applies, Tells, Finishes, Keeps
<1>4. ASSUME Command
      PROVE  active' = active /\ \A k \in Kids : kid'[k].run = kid[k].run
  <2>1. CASE Cancel \/ \E x \in Cancellers : CancelLists(x) \/ CancelListed(x) \/ CancelTask(x)
    BY <2>1 DEF Cancel, CancelLists, CancelListed, CancelTask
  <2>2. ASSUME NEW x \in Cancellers, CancelEnds(x)
        PROVE  active' = active /\ \A k \in Kids : kid'[k].run = kid[k].run
    <3>1. active \in Runs
      BY <2>2 DEF CancelEnds, OneRun
    <3> QED BY <2>2, <3>1, CancelEndsEffect DEF Keeps
  <2>3. CASE \E c \in Clicks : \E k \in Kids : Close(c, k)
    BY <2>3, MarksEffect DEF Marks
  <2>4. CASE \E c \in Clicks : CloserStep(c)
    BY <2>4, CloserEffect DEF Sends, Hides, OnlyKid, Cards, CloserKnows
  <2>5. CASE \E s \in Sessions : TaskStarts(s) \/ TaskEnds(s)
    BY <2>5 DEF TaskStarts, TaskEnds
  <2> QED BY <1>4, <2>1, <2>2, <2>3, <2>4, <2>5 DEF Command, CancellerStep
<1>5. ASSUME Interrupts
      PROVE  active' = active /\ \A k \in Kids : kid'[k].run = kid[k].run
  BY <1>5, InterruptFields, AgainFields DEF Interrupts, SameCard
<1> QED BY <1>1, <1>2, <1>3, <1>4, <1>5

\* The inductive invariant the promises rest on.
Board == TypeOK /\ Honest /\ Spawners /\ ClosedIsArchived /\ OneRun /\ Cards /\ Fresh

LEMMA BoardInit == Init => Board
<1> SUFFICES ASSUME Init PROVE Board
  OBVIOUS
<1>1. TypeOK /\ Honest /\ Spawners /\ ClosedIsArchived
  BY InitHonest, InitPlaces
<1>2. active = 0 /\ \A r \in Runs : r \in Nat /\ r > 0
  BY DEF Init, Runs
<1>3. \A p \in Coroutines : co[p].pc = "off"
  BY DEF Init, Off
<1>4. \A p \in Coroutines : Hands(p) = {} /\ Polled(p) = {} /\ ~Alive(p)
  BY <1>3 DEF Hands, Todo, Held, Polled, Alive, SpawnPCs
<1>5. (\A c \in Clicks : closer[c].pc = "idle") /\ (\A x \in Cancellers : canceller[x].pc = "idle")
  BY DEF Init, IdleCloser, IdleCanceller
<1>6. \A r \in Runs : <<"execute", r>> \in Coroutines
  BY DEF Coroutines
<1>7. \A k \in Kids : <<"add", k>> \in Coroutines
  BY DEF Coroutines
<1>8. OneRun
  <2>1. \A r \in Runs : ~(r < active) /\ r # active
    BY <1>2
  <2>3. \A r \in Runs : co[<<"execute", r>>].pc = "off"
    BY <1>3, <1>6
  <2>2. \A k \in Kids : co[<<"add", k>>].pc = "off" /\ ~Alive(<<"add", k>>)
    BY <1>3, <1>4, <1>7
  <2>4. canceller["task"].pc = "idle"
    BY <1>5 DEF Cancellers
  <2> QED BY <1>3, <1>4, <1>5, <2>1, <2>2, <2>3, <2>4 DEF OneRun
<1>9. \A k \in Kids : kid[k].status = "queued"
  BY DEF Init, NoKid
<1>10. Cards /\ Fresh
  BY <1>3, <1>4, <1>5, <1>9 DEF Cards, Fresh, PollKnows, ArchiveKnows, CloserKnows, Succeeded
<1> QED BY <1>1, <1>8, <1>10 DEF Board

LEMMA BoardStep ==
  ASSUME Smooth, Board, [Next]_vars
  PROVE  Board' /\ SuccessStays
<1>0. "backpressure" \notin Env /\ "archive_fails" \notin Env /\ "overlap" \notin Env
  BY DEF Smooth
<1>1. TypeOK /\ Honest /\ Spawners /\ ClosedIsArchived /\ OneRun /\ Cards /\ Fresh
  BY DEF Board
<1>2. LedgerKept /\ TypeOK' /\ Honest'
  BY <1>1, LedgerStep, TypeStep, KidsStep, CoStep, ClosersStep DEF Honest
<1>3. Spawners' /\ ClosedIsArchived'
  BY <1>0, <1>1, NextPlaces
<1>4. \A c \in Clicks : closer[c].pc = "archiving" => kid[closer[c].kid].sess # 0
  BY <1>1 DEF Cards, CloserKnows
<1>5. ASSUME OneRun', Cards', SuccessStays, active' = active, \A k \in Kids : kid'[k].run = kid[k].run
      PROVE  OneRun' /\ Cards' /\ SuccessStays /\ Fresh'
  <2>1. \A p \in Coroutines : \A k \in Polled(p) : k \in Kids /\ kid[k].run # 0
    BY <1>1, MultiAgentAssumption DEF OneRun, KidsOf, TypeOK
  <2> QED BY <1>1, <1>5, <2>1 DEF Fresh, SuccessStays
<1>6. ASSUME NEW p \in Coroutines, Step(p) \/ Resume(p)
      PROVE  OneRun' /\ Cards' /\ SuccessStays /\ Fresh'
  <2>1. OneRun'
    BY <1>0, <1>1, <1>2, <1>6, OneRunSpawn, OneRunResume DEF Cards, ArchiveKnows
  <2>2. Cards' /\ SuccessStays
    BY <1>0, <1>1, <1>2, <1>6, CardsTaken, CardsAnswered, CardsResumed
  <2> QED BY <1>0, <1>1, <1>2, <1>5, <1>6, <2>1, <2>2, RunsStay
<1>7. ASSUME Command
      PROVE  OneRun' /\ Cards' /\ SuccessStays /\ Fresh'
  <2>1. OneRun' /\ Cards' /\ SuccessStays
    BY <1>0, <1>1, <1>4, <1>7, OneRunCommand, CardsCommanded
  <2>2. active' = active /\ \A k \in Kids : kid'[k].run = kid[k].run
    BY <1>0, <1>1, <1>2, <1>7, RunsStay
  <2> QED BY <1>5, <2>1, <2>2
<1>11. ASSUME Interrupts
      PROVE  OneRun' /\ Cards' /\ SuccessStays /\ Fresh'
  <2>1. OneRun' /\ Cards' /\ SuccessStays
    BY <1>0, <1>1, <1>11, OneRunInterrupted, CardsInterrupted
  <2>2. active' = active /\ \A k \in Kids : kid'[k].run = kid[k].run
    BY <1>0, <1>1, <1>2, <1>11, RunsStay
  <2> QED BY <1>5, <2>1, <2>2
<1>8. ASSUME PlanRun \/ ManualRun \/ AddChild
      PROVE  OneRun' /\ Cards' /\ SuccessStays /\ Fresh'
  <2>1. OneRun'
    BY <1>0, <1>1, <1>8, OneRunStart
  <2>2. Cards' /\ SuccessStays /\ Fresh'
    BY <1>0, <1>1, <1>8, CardsStarted
  <2> QED BY <2>1, <2>2
<1>9. ASSUME UNCHANGED vars
      PROVE  OneRun' /\ Cards' /\ SuccessStays /\ Fresh'
  <2>1. UNCHANGED <<active, kid, co, closer, canceller, task, flag>>
    BY <1>9 DEF vars, upstream
  <2>2. OneRun'
    BY <1>1, <2>1, OneRunRest DEF OneRun
  <2>3. Cards' /\ SuccessStays
    <3>1. \A c \in Clicks : CloserKnows(c)'
      BY <1>1, <2>1 DEF Cards, CloserKnows, Succeeded
    <3> QED BY <1>1, <2>1, <3>1, CardsRest DEF Succeeded
  <2>4. active' = active /\ \A k \in Kids : kid'[k].run = kid[k].run
    BY <2>1
  <2> QED BY <1>5, <2>2, <2>3, <2>4
<1>10. OneRun' /\ Cards' /\ SuccessStays /\ Fresh'
  <2>1. \/ PlanRun \/ ManualRun \/ AddChild
        \/ Command \/ Interrupts
        \/ \E p \in Coroutines : Step(p) \/ Resume(p)
        \/ UNCHANGED vars
    BY DEF Next, Command, Interrupts
  <2> QED BY <1>6, <1>7, <1>8, <1>9, <1>11, <2>1
<1> QED BY <1>2, <1>3, <1>10 DEF Board

-----------------------------------------------------------------------------
(***************************************************************************)
(* Outcomes.  While the caller of execute walks the children it has passed *)
(* exactly those that succeeded, so the status it ends the run with is the *)
(* one they justify.  A run claims nothing before its loop is left, and an *)
(* interrupt that ends its task earlier leaves it cancelled or as it was.  *)
(***************************************************************************)
Justified(r) ==
  /\ run[r].status = "succeeded" => WonOf(r) = KidsOf(r)
  /\ run[r].status = "partial" => WonOf(r) # {} /\ WonOf(r) # KidsOf(r)

\* execute is not out of its loop.
Looping == SpawnPCs \union {"launched", "sleeping", "listing", "recovering", "expired"}
Claims == {"succeeded", "partial"}

Reports ==
  /\ \A p \in Coroutines :
       /\ co[p].pc = "reporting" => co[p].todo = {k \in WonOf(active) : k <= co[p].kid}
       /\ co[p].pc = "synthesis" => co[p].todo = WonOf(active) /\ co[p].todo # {}
  /\ \A r \in Runs :
       /\ Justified(r)
       /\ r > active => run[r].status = "none"
       /\ co[<<"execute", r>>].pc \in Looping => run[r].status \notin Claims
       /\ co[<<"execute", r>>].pc \in SpawnPCs => WonOf(r) = {}

\* Only execute's loop makes a child of its own run succeed.
LEMMA WonElsewhere ==
  ASSUME TypeOK, OneRun, SuccessStays, NEW r \in Runs,
         \A k \in Kids : kid'[k].run = kid[k].run,
         \/ r # active
         \/ \A k \in Kids : Succeeded(k)' = Succeeded(k)
  PROVE  KidsOf(r)' = KidsOf(r) /\ WonOf(r)' = WonOf(r)
<1>1. ASSUME NEW k \in KidsOf(r)
      PROVE  Succeeded(k)' = Succeeded(k)
  <2>1. k \in Kids /\ kid[k].run = r
    BY DEF KidsOf
  <2>2. r # active => \A p \in Coroutines : k \notin Polled(p)
    BY <2>1 DEF OneRun, KidsOf
  <2> QED BY <2>1, <2>2 DEF SuccessStays, Succeeded
<1>2. KidsOf(r)' = KidsOf(r)
  BY DEF KidsOf
<1> QED BY <1>1, <1>2 DEF WonOf, Succeeded

Telling == {"reporting", "synthesis", "done"}

\* A step outside the tail of execute's caller.
LEMMA ReportsRest ==
  ASSUME TypeOK, OneRun, OneRun', Reports, SuccessStays, active' = active,
         \A k \in Kids : kid'[k].run = kid[k].run,
         \A p \in Coroutines :
           co'[p] = co[p] \/ co'[p].pc \notin {"reporting", "synthesis"} \/ p[1] = "add",
         \/ \A k \in Kids : Succeeded(k)' = Succeeded(k)
         \/ /\ co[<<"execute", active>>].pc \in Looping /\ run' = run
            /\ co'[<<"execute", active>>].pc \in Looping \ SpawnPCs,
         run' = run \/ (OnlyRun(active) /\ Justified(active)'),
         co'[<<"execute", active>>].pc \in Looping =>
           /\ co[<<"execute", active>>].pc \in Looping
           /\ run' = run \/ run'[active].status \notin Claims,
         co'[<<"execute", active>>].pc \in SpawnPCs => co[<<"execute", active>>].pc \in SpawnPCs
  PROVE  Reports'
<1>0. SpawnPCs \subseteq Looping /\ Looping \intersect {"off", "done", "reporting", "synthesis"} = {}
  BY DEF Looping, SpawnPCs
<1>1. ASSUME NEW p \in Coroutines, co'[p].pc \in {"reporting", "synthesis"}
      PROVE  co'[p] = co[p] /\ p = <<"execute", active>> /\ active \in Runs
             /\ WonOf(active)' = WonOf(active)
  <2>1. p[1] # "add"
    <3>1. \A k \in Kids : co'[<<"add", k>>].pc \in SpawnPCs \union {"off", "done"}
      BY DEF OneRun
    <3>2. \A k \in Kids : p # <<"add", k>>
      BY <1>1, <3>1 DEF SpawnPCs
    <3> QED BY <3>2, CoroutineCases
  <2>2. co'[p] = co[p]
    BY <1>1, <2>1
  <2>3. Alive(p)
    BY <1>1, <2>2 DEF Alive
  <2>4. p = <<"execute", active>> /\ active \in Runs
    BY <2>1, <2>3, AliveIsActive
  <2>5. \A k \in Kids : Succeeded(k)' = Succeeded(k)
    BY <1>0, <1>1, <2>4
  <2> QED BY <2>2, <2>4, <2>5, WonElsewhere
<1>2. ASSUME NEW p \in Coroutines
      PROVE  /\ co'[p].pc = "reporting" => co'[p].todo = {k \in WonOf(active)' : k <= co'[p].kid}
             /\ co'[p].pc = "synthesis" => co'[p].todo = WonOf(active)' /\ co'[p].todo # {}
  BY <1>1 DEF Reports
<1>3. ASSUME NEW r \in Runs
      PROVE  /\ Justified(r)'
             /\ r > active => run'[r].status = "none"
             /\ co'[<<"execute", r>>].pc \in Looping => run'[r].status \notin Claims
             /\ co'[<<"execute", r>>].pc \in SpawnPCs => WonOf(r)' = {}
  <2>1. active \in Nat /\ r \in Nat
    BY DEF TypeOK, Runs
  <2>2. /\ Justified(r) /\ (r > active => run[r].status = "none")
        /\ co[<<"execute", r>>].pc \in Looping => run[r].status \notin Claims
        /\ co[<<"execute", r>>].pc \in SpawnPCs => WonOf(r) = {}
    BY DEF Reports
  <2>3. ASSUME run'[r] = run[r], KidsOf(r)' = KidsOf(r), WonOf(r)' = WonOf(r)
        PROVE  Justified(r)'
    BY <2>2, <2>3 DEF Justified
  <2>4. CASE r # active
    <3>1. KidsOf(r)' = KidsOf(r) /\ WonOf(r)' = WonOf(r)
      BY <2>4, WonElsewhere
    <3>2. run'[r] = run[r]
      BY <2>4 DEF OnlyRun
    <3>3. co'[<<"execute", r>>].pc \in {"off", "done"}
      BY <2>1, <2>4 DEF OneRun
    <3> QED BY <1>0, <2>2, <2>3, <3>1, <3>2, <3>3
  <2>5. CASE r = active /\ \A k \in Kids : Succeeded(k)' = Succeeded(k)
    <3>1. KidsOf(r)' = KidsOf(r) /\ WonOf(r)' = WonOf(r)
      BY <2>5, WonElsewhere
    <3>2. Justified(r)'
      BY <2>3, <2>5, <3>1
    <3> QED BY <2>1, <2>2, <2>5, <3>1, <3>2
  <2>6. CASE /\ r = active /\ run' = run
             /\ co[<<"execute", active>>].pc \in Looping
             /\ co'[<<"execute", active>>].pc \in Looping \ SpawnPCs
    <3>1. run'[r].status \notin Claims
      BY <2>2, <2>6
    <3>2. Justified(r)'
      BY <3>1 DEF Justified, Claims
    <3> QED BY <2>1, <2>6, <3>1, <3>2
  <2> QED BY <2>4, <2>5, <2>6
<1> QED BY <1>2, <1>3 DEF Reports

LEMMA OtherCo ==
  ASSUME TypeOK, OneRun, NEW p \in Coroutines, Alive(p), OnlyCo(p), p # <<"execute", active>>
  PROVE  co'[<<"execute", active>>] = co[<<"execute", active>>]
<1>1. <<"execute", active>> \in Coroutines
  BY AliveIsActive DEF Coroutines
<1> QED BY <1>1 DEF OnlyCo

\* A status the children add up to is one they justify.
LEMMA SumsJustified ==
  ASSUME TypeOK, NEW r, Sums(r), active' = active, \A k \in Kids : kid'[k].run = kid[k].run
  PROVE  Justified(r)'
<1>1. KidsOf(r)' = KidsOf(r)
  BY DEF KidsOf
<1> QED BY <1>1 DEF Sums, Justified, WonOf

\* The caller of execute passes the next child, or sets the status of the run.
LEMMA ReportsTold ==
  ASSUME TypeOK, OneRun, OneRun', Reports, SuccessStays, NEW p \in Coroutines,
         p = <<"execute", active>>, active \in Runs, OnlyCo(p), active' = active,
         Tells(p) \/ Finishes(p)
  PROVE  Reports'
<1>0. kid' = kid /\ co[p].pc \in {"returning", "reporting", "synthesis"}
  BY DEF Tells, Finishes
<1>1. \A r : KidsOf(r)' = KidsOf(r) /\ WonOf(r)' = WonOf(r)
  BY <1>0 DEF KidsOf, WonOf
<1>2. \A k \in WonOf(active) : k \in Nat /\ k > 0
  BY DEF WonOf, KidsOf, Kids
<1>3. co[p].todo = {k \in WonOf(active) : k <= co[p].kid} \/ co[p].pc = "synthesis"
  BY <1>0, <1>2 DEF Reports, OneRun
<1>4. co[p].kid \in Nat
  BY DEF TypeOK, CoType
<1>5. OnlyRun(active)
  BY DEF Tells, Finishes, StatusIs, OnlyRun
<1>6. co'[p].pc = "reporting" => co'[p].todo = {k \in WonOf(active) : k <= co'[p].kid}
  <2> SUFFICES ASSUME co'[p].pc = "reporting"
               PROVE  co'[p].todo = {k \in WonOf(active) : k <= co'[p].kid}
    OBVIOUS
  <2>1. PICK k \in First({j \in WonOf(active) : j > co[p].kid}) :
          co'[p].kid = k /\ co'[p].todo = co[p].todo \union {k} /\ co[p].pc # "synthesis"
    BY DEF Tells, Finishes
  <2>2. k \in WonOf(active) /\ k > co[p].kid /\ \A j \in WonOf(active) : j > co[p].kid => k <= j
    BY <2>1 DEF First
  <2> QED BY <1>2, <1>3, <1>4, <2>1, <2>2
<1>7. co'[p].pc = "synthesis" => co'[p].todo = WonOf(active) /\ co'[p].todo # {}
  <2> SUFFICES ASSUME co'[p].pc = "synthesis"
               PROVE  co'[p].todo = WonOf(active) /\ co'[p].todo # {}
    OBVIOUS
  <2>1. /\ {j \in WonOf(active) : j > co[p].kid} = {} /\ co[p].todo # {}
        /\ co'[p].todo = co[p].todo /\ co[p].pc # "synthesis"
    BY DEF Tells, Finishes
  <2>2. \A k \in WonOf(active) : k <= co[p].kid
    BY <1>2, <1>4, <2>1
  <2> QED BY <1>3, <2>1, <2>2
<1>8. Justified(active)'
  <2>1. CASE Tells(p)
    <3>1. CASE run' = run
      BY <1>1, <3>1 DEF Reports, Justified
    <3>2. CASE run'[active].status \in {"cancelled", "failed", "synthesizing"}
      BY <3>2 DEF Justified
    <3> QED BY <2>1, <3>1, <3>2 DEF Tells, StatusIs
  <2>2. CASE Finishes(p) /\ co[p].pc = "returning"
    <3>1. run'[active].status = FinalStatus(active)
      BY <2>2 DEF Finishes, StatusIs
    <3> DEFINE states == {kid[k].status : k \in KidsOf(active)}
    <3>2. /\ FinalStatus(active) = "succeeded" => states = {"succeeded"}
          /\ FinalStatus(active) = "partial" => "succeeded" \in states /\ states # {"succeeded"}
      BY DEF FinalStatus
    <3>3. states = {"succeeded"} => WonOf(active) = KidsOf(active)
      BY DEF WonOf
    <3>4. "succeeded" \in states => WonOf(active) # {}
      BY DEF WonOf
    <3>5. WonOf(active) = KidsOf(active) => states \subseteq {"succeeded"}
      BY DEF WonOf
    <3> HIDE DEF states
    <3>6. "succeeded" \in states /\ states # {"succeeded"} => WonOf(active) # KidsOf(active)
      BY <3>5
    <3> QED BY <1>1, <3>1, <3>2, <3>3, <3>4, <3>6 DEF Justified
  <2>3. CASE Finishes(p) /\ co[p].pc = "synthesis"
    <3>1. co[p].todo = WonOf(active) /\ co[p].todo # {}
      BY <2>3 DEF Reports
    <3> QED BY <1>1, <2>3, <3>1 DEF Finishes, StatusIs, Justified
  <2> QED BY <2>1, <2>2, <2>3 DEF Finishes
<1>11. co'[p].pc \notin Looping /\ SpawnPCs \subseteq Looping
  BY DEF Tells, Finishes, Looping, SpawnPCs
<1>9. ASSUME NEW q \in Coroutines
      PROVE  /\ co'[q].pc = "reporting" => co'[q].todo = {k \in WonOf(active)' : k <= co'[q].kid}
             /\ co'[q].pc = "synthesis" => co'[q].todo = WonOf(active)' /\ co'[q].todo # {}
  <2>1. CASE q = p
    BY <1>1, <1>6, <1>7, <2>1
  <2>2. CASE q # p
    BY <1>1, <2>2 DEF OnlyCo, Reports
  <2> QED BY <2>1, <2>2
<1>10. ASSUME NEW r \in Runs
       PROVE  /\ Justified(r)'
              /\ r > active => run'[r].status = "none"
              /\ co'[<<"execute", r>>].pc \in Looping => run'[r].status \notin Claims
              /\ co'[<<"execute", r>>].pc \in SpawnPCs => WonOf(r)' = {}
  <2>1. <<"execute", r>> \in Coroutines /\ active \in Nat /\ r \in Nat
    BY DEF Coroutines, TypeOK, Runs
  <2>2. CASE r = active
    BY <1>8, <1>11, <2>1, <2>2
  <2>3. CASE r # active
    <3>1. run'[r] = run[r]
      BY <1>5, <2>3 DEF OnlyRun
    <3>2. co'[<<"execute", r>>] = co[<<"execute", r>>]
      <4>1. <<"execute", r>> # p
        BY <2>3
      <4> QED BY <2>1, <4>1 DEF OnlyCo
    <3> QED BY <1>1, <3>1, <3>2 DEF Reports, Justified
  <2> QED BY <2>2, <2>3
<1> QED BY <1>9, <1>10 DEF Reports

LEMMA ReportsInit == Init => Reports
<1> SUFFICES ASSUME Init PROVE Reports
  OBVIOUS
<1>1. \A p \in Coroutines : co[p].pc = "off"
  BY DEF Init, Off
<1>2. \A r \in Runs : <<"execute", r>> \in Coroutines /\ run[r].status = "none"
  BY DEF Coroutines, Init
<1>3. \A r \in Runs : Justified(r) /\ co[<<"execute", r>>].pc = "off"
  BY <1>1, <1>2 DEF Justified
<1>4. "off" \notin Looping /\ "off" \notin SpawnPCs
  BY DEF Looping, SpawnPCs
<1> QED BY <1>1, <1>2, <1>3, <1>4 DEF Reports

LEMMA ReportsStep ==
  ASSUME Smooth, Board, Reports, [Next]_vars
  PROVE  Reports'
<1>0. "backpressure" \notin Env /\ "archive_fails" \notin Env /\ "overlap" \notin Env
  BY DEF Smooth
<1>1. TypeOK /\ Honest /\ Spawners /\ OneRun /\ Cards /\ Fresh
  BY DEF Board
<1>2. LedgerKept
  BY <1>1, LedgerStep
<1>3. OneRun' /\ SuccessStays
  BY BoardStep DEF Board
<1>4. \A p \in Coroutines : p[1] = "execute" /\ Alive(p) => p = <<"execute", active>>
  <2> SUFFICES ASSUME NEW p \in Coroutines, p[1] = "execute", Alive(p)
               PROVE  p = <<"execute", active>>
    OBVIOUS
  <2> QED BY <1>1, AliveIsActive
<1>15. SpawnPCs \subseteq Looping /\ "done" \notin Looping /\ "returning" \notin Looping
       /\ SpawnPCs \subseteq {"created", "spawning", "archiving", "spawned"}
  BY DEF Looping, SpawnPCs
<1>5. ASSUME NEW p \in Coroutines, Begin(p) \/ Spawned(p)
      PROVE  Reports'
  <2>1. /\ co[p].pc \in {"created", "spawned"} /\ OnlyCo(p) /\ active' = active
        /\ \/ \E k \in Kids : Takes(p, k)
           \/ p[1] = "add" /\ co'[p].pc = "done" /\ UNCHANGED <<run, kid>>
           \/ /\ p[1] = "execute" /\ co'[p].pc = "launched" /\ UNCHANGED kid
              /\ run' = [run EXCEPT ![active].status = Aggregate(active, kid)]
    BY <1>1, <1>5, TakesEffect
  <2>2. \A k \in Kids : kid'[k].run = kid[k].run
    BY <2>1 DEF Takes, OnlyKid
  <2>3. co[p].pc \in SpawnPCs /\ co'[p].pc \in SpawnPCs \union {"launched", "done"}
    BY <2>1 DEF Takes, SpawnPCs
  <2>4. \A q \in Coroutines : co'[q] = co[q] \/ co'[q].pc \notin {"reporting", "synthesis"}
    BY <2>1, <2>3 DEF OnlyCo, SpawnPCs
  <2>5. \A k \in Kids : Succeeded(k)' = Succeeded(k)
    <3>1. Polled(p) = {}
      BY <2>1 DEF Polled
    <3>2. \A q \in Coroutines : Polled(q) \subseteq Polled(q)'
      BY <2>1, <3>1 DEF OnlyCo, Polled
    <3> QED BY <1>3, <3>2 DEF SuccessStays, Succeeded
  <2>6. run' = run \/ (OnlyRun(active) /\ Justified(active)' /\ run'[active].status \notin Claims)
    <3>1. CASE run' = [run EXCEPT ![active].status = Aggregate(active, kid)] /\ p[1] = "execute"
               /\ co'[p].pc = "launched" /\ kid' = kid
      <4>1. Alive(p)
        BY <2>1 DEF Alive
      <4>2. p = <<"execute", active>> /\ active \in Runs
        BY <1>1, <1>4, <3>1, <4>1, AliveIsActive
      <4>3. WonOf(active) = {}
        BY <2>3, <4>2 DEF Reports
      <4>4. kid' = kid
        BY <3>1
      <4>5. Sums(active)
        BY <1>1, <3>1, <4>2, <4>4, SumsEffect
      <4>6. Justified(active)'
        BY <1>1, <2>1, <4>4, <4>5, SumsJustified
      <4>7. run'[active].status \notin Claims
        BY <4>3, <4>4, <4>5 DEF Sums, Claims, WonOf
      <4> QED BY <4>5, <4>6, <4>7 DEF Sums
    <3>2. CASE run' = run
      BY <3>2
    <3> QED BY <2>1, <3>1, <3>2 DEF Takes
  <2>7. CASE p = <<"execute", active>>
    <3>1. co'[p].pc \in SpawnPCs => co[p].pc \in SpawnPCs
      BY <2>3
    <3>2. co[p].pc \in Looping
      BY <1>15, <2>3
    <3> QED BY <1>1, <1>3, <2>1, <2>2, <2>4, <2>5, <2>6, <2>7, <3>1, <3>2, ReportsRest
  <2>8. CASE p # <<"execute", active>>
    <3>0. Alive(p)
      BY <2>3 DEF Alive, SpawnPCs
    <3>1. p[1] # "execute"
      BY <1>4, <2>8, <3>0
    <3>2. run' = run
      BY <2>1, <3>1 DEF Takes
    <3>3. co'[<<"execute", active>>] = co[<<"execute", active>>]
      BY <1>1, <2>1, <2>8, <3>0, OtherCo
    <3> QED BY <1>1, <1>3, <2>1, <2>2, <2>4, <2>5, <3>2, <3>3, ReportsRest
  <2> QED BY <2>7, <2>8
<1>6. ASSUME NEW p \in Coroutines, Step(p), ~Begin(p), ~Spawned(p)
      PROVE  Reports'
  <2>1. /\ co[p].kid \in Kids /\ co[p].pc \in {"spawning", "archiving"}
        /\ OnlyKid(co[p].kid) /\ OnlyCo(p)
        /\ UNCHANGED <<active, run, flag, closer, canceller>>
        /\ Accepts(p) \/ GivesUp(p) \/ Archives(p)
    BY <1>0, <1>1, <1>6, AnswerEffect DEF Cards, ArchiveKnows
  <2>2. \A k \in Kids : kid'[k].run = kid[k].run
    BY <2>1 DEF OnlyKid
  <2>3. co'[p].pc \in SpawnPCs /\ co[p].pc \in SpawnPCs
    BY <2>1 DEF Accepts, GivesUp, Archives, SpawnPCs
  <2>4. \A q \in Coroutines : co'[q] = co[q] \/ co'[q].pc \notin {"reporting", "synthesis"}
    BY <2>1, <2>3 DEF OnlyCo, SpawnPCs
  <2>6. \/ co'[<<"execute", active>>] = co[<<"execute", active>>]
        \/ co[<<"execute", active>>].pc \in SpawnPCs
    <3>1. Alive(p)
      BY <2>3 DEF Alive, SpawnPCs
    <3> QED BY <1>1, <2>1, <2>3, <3>1, OtherCo
  <2>5. \A k \in Kids : Succeeded(k)' = Succeeded(k)
    <3>1. Polled(p) = {}
      BY <2>1 DEF Polled
    <3>2. \A q \in Coroutines : Polled(q) \subseteq Polled(q)'
      BY <2>1, <3>1 DEF OnlyCo, Polled
    <3> QED BY <1>3, <3>2 DEF SuccessStays, Succeeded
  <2> QED BY <1>1, <1>3, <1>15, <2>1, <2>2, <2>4, <2>5, <2>6, ReportsRest
<1>7. ASSUME NEW p \in Coroutines, Resume(p)
      PROVE  Reports'
  <2>1. /\ p = <<"execute", active>> /\ active \in Runs /\ OnlyCo(p) /\ active' = active
        /\ Concludes(p) \/ Waits(p) \/ Requests(p) \/ Applies(p) \/ Tells(p) \/ Finishes(p)
    BY <1>1, <1>2, <1>7, ResumeEffect
  <2>2. CASE Tells(p) \/ Finishes(p)
    BY <1>1, <1>3, <2>1, <2>2, ReportsTold
  <2>3. CASE Waits(p) \/ Requests(p) \/ Applies(p)
    <3>1. /\ co'[p].pc \in {"sleeping", "listing", "recovering", "expired"} /\ run' = run
          /\ co[p].pc \in {"launched", "sleeping", "listing", "recovering"}
      BY <2>3 DEF Waits, Requests, Applies
    <3>2. \A q \in Coroutines : co'[q] = co[q] \/ co'[q].pc \notin {"reporting", "synthesis"}
      BY <2>1, <3>1 DEF OnlyCo
    <3>3. \A k \in Kids : kid'[k].run = kid[k].run
      BY <2>3 DEF Waits, Requests, Applies, Keeps
    <3>4. co[p].pc \in Looping /\ co'[p].pc \in Looping \ SpawnPCs
      BY <3>1 DEF Looping, SpawnPCs
    <3> QED BY <1>1, <1>3, <2>1, <3>1, <3>2, <3>3, <3>4, ReportsRest
  <2>4. CASE Concludes(p)
    <3>1. co'[p].pc = "returning" /\ Sums(active)
      BY <2>4 DEF Concludes
    <3>2. \A q \in Coroutines : co'[q] = co[q] \/ co'[q].pc \notin {"reporting", "synthesis"}
      BY <2>1, <3>1 DEF OnlyCo
    <3>3. \A k \in Kids : kid'[k].run = kid[k].run /\ Succeeded(k)' = Succeeded(k)
      BY <2>4 DEF Concludes, Keeps, Succeeded, IsLive, Terminal
    <3>4. Justified(active)' /\ OnlyRun(active)
      BY <1>1, <2>1, <3>1, <3>3, SumsJustified DEF Sums
    <3>5. co'[p].pc \notin Looping
      BY <3>1 DEF Looping, SpawnPCs
    <3> QED BY <1>1, <1>3, <1>15, <2>1, <3>2, <3>3, <3>4, <3>5, ReportsRest
  <2> QED BY <2>1, <2>2, <2>3, <2>4
<1>8. ASSUME co' = co, active' = active, \A k \in Kids : kid'[k].run = kid[k].run,
             \/ run' = run
             \/ OnlyRun(active) /\ run'[active].status \notin Claims
      PROVE  Reports'
  <2>1. \A k \in Kids : Succeeded(k)' = Succeeded(k)
    BY <1>3, <1>8 DEF SuccessStays, Succeeded, Polled
  <2>2. run'[active].status \notin Claims => Justified(active)'
    BY <1>8 DEF Justified, Claims
  <2> QED BY <1>1, <1>3, <1>8, <2>1, <2>2, ReportsRest
<1>9. ASSUME Command
      PROVE  Reports'
  <2>1. active' = active /\ \A k \in Kids : kid'[k].run = kid[k].run
    BY <1>0, <1>1, <1>2, <1>9, RunsStay
  <2>2. CASE Cancel
    BY <1>1, <1>8, <2>1, <2>2, CancelEffect DEF StatusIs, Claims
  <2>3. ASSUME NEW x \in Cancellers, CancelEnds(x)
        PROVE  Reports'
    <3>1. active \in Runs
      BY <1>1, <2>3 DEF CancelEnds, OneRun
    <3> QED BY <1>1, <1>8, <2>1, <2>3, <3>1, CancelEndsEffect DEF StatusIs, Claims
  <2>4. CASE ~Cancel /\ \A x \in Cancellers : ~CancelEnds(x)
    <3>1. co' = co /\ run' = run
      BY <1>9, <2>4 DEF Command, CancellerStep, CancelLists, CancelListed, CancelTask, Close, CloserStep,
                        CloseSent, CloseArchived, CloseFails, TaskStarts, TaskEnds, upstream
    <3> QED BY <1>8, <2>1, <3>1
  <2> QED BY <2>2, <2>3, <2>4
<1>16. ASSUME Interrupts
       PROVE  Reports'
  <2>1. active' = active /\ \A k \in Kids : kid'[k].run = kid[k].run
    BY <1>0, <1>1, <1>2, <1>16, RunsStay
  <2>2. CASE InterruptedAgain
    <3>1. co' = co /\ OnlyRun(active) /\ run'[active].status = "cancelled"
      BY <1>0, <1>1, <2>2, AgainFields DEF StatusIs
    <3> QED BY <1>8, <2>1, <3>1 DEF Claims
  <2>3. ASSUME NEW p \in Coroutines, Interrupted(p)
        PROVE  Reports'
    <3>1. /\ p = <<"execute", active>> /\ co'[p].pc = "done" /\ OnlyCo(p)
          /\ \A k \in Kids : kid'[k].status = kid[k].status
          /\ run' = run \/ (OnlyRun(active) /\ run'[active].status = "cancelling")
      BY <1>1, <2>3, InterruptFields DEF StatusIs
    <3>2. \A k \in Kids : Succeeded(k)' = Succeeded(k)
      BY <3>1 DEF Succeeded
    <3>3. run'[active].status = "cancelling" => Justified(active)'
      BY <2>1 DEF Justified
    <3>4. \A q \in Coroutines : co'[q] = co[q] \/ co'[q].pc \notin {"reporting", "synthesis"}
      BY <3>1 DEF OnlyCo
    <3> QED BY <1>1, <1>3, <1>15, <2>1, <3>1, <3>2, <3>3, <3>4, ReportsRest
  <2> QED BY <1>16, <2>2, <2>3 DEF Interrupts
<1>10. CASE UNCHANGED vars
  BY <1>8, <1>10 DEF vars
<1>11. ASSUME NEW p, NEW S, NEW r, Starts(p, S, r)
       PROVE  /\ p \in Coroutines /\ co'[p].pc = "created"
              /\ \A q \in Coroutines : q # p => co'[q] = co[q]
              /\ \A q : WonOf(q)' = WonOf(q) /\ (q # r => KidsOf(q)' = KidsOf(q))
  <2>1. /\ S \subseteq Kids \ UsedKids /\ OnlyCo(p) /\ p \in Coroutines /\ co'[p].pc = "created"
        /\ \A j \in S : kid'[j].run = r /\ kid'[j].status = "queued"
        /\ \A j \in Kids \ S : kid'[j] = kid[j]
    BY <1>11 DEF Starts
  <2>2. \A q \in Coroutines : q # p => co'[q] = co[q]
    BY <2>1 DEF OnlyCo
  <2>3. \A q : WonOf(q)' = WonOf(q)
    BY <1>1, <2>1 DEF WonOf, KidsOf, UsedKids, Fresh, Succeeded
  <2>4. \A q : q # r => KidsOf(q)' = KidsOf(q)
    BY <2>1 DEF KidsOf, UsedKids
  <2> QED BY <2>1, <2>2, <2>3, <2>4
<1>12. active \in Nat /\ \A r \in Runs : r \in Nat /\ <<"execute", r>> \in Coroutines
  BY <1>1 DEF TypeOK, Runs, Coroutines
<1>13. ASSUME NEW n, NEW plan \in BOOLEAN, Execute(n, plan)
       PROVE  Reports'
  <2> DEFINE p == <<"execute", active + 1>>
  <2>1. /\ Quiet /\ active' = active + 1 /\ Starts(p, NewKids(n), active') /\ OnlyRun(active')
        /\ run'[active'].status = "starting"
    BY <1>0, <1>1, <1>13, ExecuteEffect
  <2>2. /\ p \in Coroutines /\ co'[p].pc = "created"
        /\ \A q \in Coroutines : q # p => co'[q] = co[q]
        /\ \A q : WonOf(q)' = WonOf(q) /\ (q # active' => KidsOf(q)' = KidsOf(q))
    BY <1>11, <2>1
  <2>3. ASSUME NEW q \in Coroutines PROVE co'[q].pc \notin {"reporting", "synthesis"}
    BY <2>1, <2>2 DEF Quiet
  <2>4. ASSUME NEW r \in Runs
        PROVE  /\ Justified(r)'
               /\ r > active' => run'[r].status = "none"
               /\ co'[<<"execute", r>>].pc \in Looping => run'[r].status \notin Claims
               /\ co'[<<"execute", r>>].pc \in SpawnPCs => WonOf(r)' = {}
    <3>1. CASE r = active'
      <4>1. r > active /\ ~(r > active')
        BY <1>12, <2>1, <3>1
      <4>2. KidsOf(r) = {}
        BY <1>1, <1>12, <4>1 DEF KidsOf, Spawners, TypeOK, KidType
      <4>3. WonOf(r)' = {}
        BY <2>2, <4>2 DEF WonOf
      <4>4. run'[r].status = "starting"
        BY <2>1, <3>1
      <4> QED BY <4>1, <4>3, <4>4 DEF Justified, Claims
    <3>2. CASE r # active'
      <4>1. <<"execute", r>> # p
        BY <2>1, <3>2
      <4>2. run'[r] = run[r] /\ co'[<<"execute", r>>] = co[<<"execute", r>>]
        BY <1>12, <2>1, <2>2, <3>2, <4>1 DEF OnlyRun
      <4>3. r > active' => r > active
        <5>1. active' = active + 1 /\ active \in Nat /\ r \in Nat
          BY <1>12, <2>1
        <5> HIDE DEF p
        <5> QED BY <5>1
      <4> QED BY <2>2, <3>2, <4>2, <4>3 DEF Reports, Justified
    <3> QED BY <3>1, <3>2
  <2> QED BY <2>3, <2>4 DEF Reports
<1>14. CASE AddChild
  <2>1. PICK k \in Kids :
          LET p == <<"add", k>>
          IN  /\ run[active].status \in {"starting", "running"}
              /\ UNCHANGED <<active, run>> /\ Starts(p, {k}, active)
    BY <1>1, <1>14, AddEffect
  <2> DEFINE p == <<"add", k>>
  <2>2. /\ p \in Coroutines /\ co'[p].pc = "created"
        /\ \A q \in Coroutines : q # p => co'[q] = co[q]
        /\ \A q : WonOf(q)' = WonOf(q) /\ (q # active => KidsOf(q)' = KidsOf(q))
    BY <1>11, <2>1
  <2>3. ASSUME NEW q \in Coroutines
        PROVE  /\ co'[q].pc = "reporting" => co'[q].todo = {j \in WonOf(active)' : j <= co'[q].kid}
               /\ co'[q].pc = "synthesis" => co'[q].todo = WonOf(active)' /\ co'[q].todo # {}
    <3>1. CASE q = p
      BY <2>2, <3>1
    <3>2. CASE q # p
      <4>1. WonOf(active)' = WonOf(active)
        <5>1. \A m : m = active => WonOf(m)' = WonOf(active)
          BY <2>2
        <5> QED BY <2>1, <5>1 DEF WonOf, KidsOf
      <4> QED BY <2>2, <3>2, <4>1 DEF Reports
    <3> QED BY <3>1, <3>2
  <2>4. ASSUME NEW r \in Runs
        PROVE  /\ Justified(r)'
               /\ r > active => run'[r].status = "none"
               /\ co'[<<"execute", r>>].pc \in Looping => run'[r].status \notin Claims
               /\ co'[<<"execute", r>>].pc \in SpawnPCs => WonOf(r)' = {}
    <3>1. <<"execute", r>> # p
      OBVIOUS
    <3>2. co'[<<"execute", r>>] = co[<<"execute", r>>] /\ run' = run
      BY <1>12, <2>1, <2>2, <3>1
    <3>3. Justified(r)'
      <4>1. CASE r = active
        BY <2>1, <4>1 DEF Justified
      <4>2. CASE r # active
        BY <2>2, <3>2, <4>2 DEF Reports, Justified
      <4> QED BY <4>1, <4>2
    <3> QED BY <2>1, <2>2, <3>2, <3>3 DEF Reports
  <2>5. active' = active
    BY <2>1
  <2> QED BY <2>3, <2>4, <2>5 DEF Reports
<1> QED
  <2>1. \/ PlanRun \/ ManualRun \/ AddChild
        \/ Command \/ Interrupts
        \/ \E p \in Coroutines : Step(p) \/ Resume(p)
        \/ UNCHANGED vars
    BY DEF Next, Command, Interrupts
  <2> QED BY <1>5, <1>6, <1>7, <1>9, <1>10, <1>13, <1>14, <1>16, <2>1 DEF PlanRun, ManualRun

\* Sends do not suspend, archive calls do not fail and runs do not overlap:
\* then, whatever the owner appends, closes, cancels or interrupts and whichever other
\* gateway calls fail, a run that is over is shown as succeeded only when every
\* child succeeded, and as partial only when some did and some did not.
THEOREM OutcomeIsJustified ==
  ASSUME Smooth
  PROVE  Spec => []OutcomeTellsChildren
<1> DEFINE Inv == Board /\ Reports
<1>1. Init => Inv
  BY BoardInit, ReportsInit
<1>2. Inv /\ [Next]_vars => Inv'
  BY BoardStep, ReportsStep
<1>3. Inv => OutcomeTellsChildren
  <2> SUFFICES ASSUME Board, Reports, Quiet, NEW r \in Runs
               PROVE  LET won == {k \in KidsOf(r) : kid[k].status = "succeeded"}
                      IN  /\ run[r].status = "succeeded" => won = KidsOf(r)
                          /\ run[r].status = "partial" => won # {} /\ won # KidsOf(r)
    BY DEF OutcomeTellsChildren
  <2> QED BY DEF Reports, Justified, WonOf
<1> HIDE DEF Inv
<1> QED BY <1>1, <1>2, <1>3, PTL DEF Spec

-----------------------------------------------------------------------------
(***************************************************************************)
(* Sessions that work on.  A session belongs to the card that holds its    *)
(* receipt, or to one that failed without it or whose spawn was cut off.   *)
(* While a cancel is at work, a session of the run that works is still to  *)
(* be listed or stopped by it, or to be archived by _spawn_child, unless   *)
(* an interrupt cut that off; the owner's cancel owes it until execute,    *)
(* which settles the children of a cancelled run, is over.                 *)
(***************************************************************************)
Working(s) == task[s] \in Unfinished /\ s \notin archived

Lost(k) ==
  /\ kid[k].sess = 0 /\ (kid[k].status = "failed" \/ kid[k].cut) /\ ~kid[k].closed
  /\ \A p \in Coroutines : k \notin Hands(p)

Attended(x, k) ==
  \/ kid[k].cut
  \/ canceller[x].pc = "emitting"
  \/ canceller[x].pc \in {"listing", "stopping"} /\ kid[k].sess \in canceller[x].todo
  \/ \E p \in Coroutines : co[p].pc = "archiving" /\ co[p].kid = k

Owed(x) ==
  \/ canceller[x].pc # "idle"
  \/ x = "owner" /\ flag /\ Alive(<<"execute", active>>)

Receipts ==
  /\ \A x \in Cancellers : canceller[x].pc # "idle" => flag
  /\ \A s \in Sessions : \A k \in Kids : owner[s] = k =>
       kid[k].run # 0 /\ (kid[k].sess = s \/ Lost(k))
  /\ \A k \in Kids : kid[k].status = "cancelled" /\ kid[k].sess # 0 /\ Working(kid[k].sess)
       => kid[k].cut \/ (flag /\ kid[k].run = active /\ Attended("owner", k))
  /\ \A x \in Cancellers : Owed(x) =>
       \A k \in KidsOf(active) : kid[k].sess # 0 /\ Working(kid[k].sess) => Attended(x, k)

\* A step that keeps a card's receipt, and lets no cancelled session loose.
StaysTame(k) ==
  /\ kid'[k].run = kid[k].run /\ kid'[k].sess = kid[k].sess
  /\ kid[k].cut => kid'[k].cut
  /\ Lost(k) => (kid'[k].status = "failed" \/ kid'[k].cut) /\ ~kid'[k].closed
  /\ kid'[k].status = "cancelled" =>
       \/ kid[k].status = "cancelled"
       \/ flag /\ k \in KidsOf(active) /\ Attended("owner", k)'
       \/ kid[k].sess = 0
       \/ ~Working(kid[k].sess)'

StaysAttended(x, k) ==
  kid[k].run = active /\ kid[k].sess # 0 /\ Attended(x, k)
    => Attended(x, k)' \/ ~Working(kid[k].sess)'

LEMMA ReceiptsRest ==
  ASSUME TypeOK, Receipts, active' = active, flag' = flag, owner' = owner,
         \A k \in Kids : StaysTame(k),
         \A k \in Kids, x \in Cancellers : x = "owner" \/ Owed(x)' => StaysAttended(x, k),
         \A p \in Coroutines : Hands(p)' \subseteq Hands(p),
         \A s \in Sessions : Working(s)' => Working(s),
         \A x \in Cancellers : (canceller'[x].pc # "idle" => flag) /\ (Owed(x)' => Owed(x))
  PROVE  Receipts'
<1>0. \A k \in Kids : /\ kid'[k].run = kid[k].run /\ kid'[k].sess = kid[k].sess
                      /\ kid[k].cut => kid'[k].cut
  BY DEF StaysTame
<1>1. KidsOf(active)' = KidsOf(active)
  BY <1>0, RunsKept
<1>2. \A k \in Kids : Lost(k) => Lost(k)'
  BY <1>0 DEF Lost, StaysTame
<1>3. \A k \in Kids : kid[k].sess # 0 => kid[k].sess \in Sessions
  BY MultiAgentAssumption DEF TypeOK, KidType, Sessions
<1>4. \A s \in Sessions : \A k \in Kids : owner'[s] = k =>
        kid'[k].run # 0 /\ (kid'[k].sess = s \/ Lost(k)')
  BY <1>0, <1>2 DEF Receipts
<1>5. ASSUME NEW k \in Kids, kid'[k].sess # 0, Working(kid[k].sess)'
      PROVE  /\ kid'[k].sess = kid[k].sess /\ kid'[k].run = kid[k].run
             /\ kid[k].sess # 0 /\ Working(kid[k].sess)
             /\ \A x \in Cancellers : (x = "owner" \/ Owed(x)') /\ kid[k].run = active /\ Attended(x, k)
                                     => Attended(x, k)'
  <2>1. kid'[k].sess = kid[k].sess /\ kid'[k].run = kid[k].run /\ kid[k].sess \in Sessions
    BY <1>0, <1>3, <1>5
  <2>2. kid[k].sess # 0 /\ Working(kid[k].sess)'
    BY <1>5, <2>1 DEF Working
  <2>3. \A x \in Cancellers : (x = "owner" \/ Owed(x)') /\ kid[k].run = active /\ Attended(x, k)
                              => Attended(x, k)'
    BY <2>2 DEF StaysAttended
  <2>4. Working(kid[k].sess)
    BY <2>1, <2>2 DEF Working
  <2> QED BY <2>1, <2>2, <2>3, <2>4
<1>6. "owner" \in Cancellers
  BY DEF Cancellers
<1>7. ASSUME NEW k \in Kids, kid'[k].status = "cancelled", kid'[k].sess # 0, Working(kid[k].sess)'
      PROVE  kid'[k].cut \/ (flag' /\ kid'[k].run = active' /\ Attended("owner", k)')
  <2>1. /\ kid'[k].run = kid[k].run /\ kid[k].sess # 0 /\ Working(kid[k].sess)
        /\ kid[k].run = active /\ Attended("owner", k) => Attended("owner", k)'
        /\ kid[k].cut => kid'[k].cut
    BY <1>0, <1>5, <1>6, <1>7
  <2>2. CASE kid[k].status = "cancelled"
    BY <2>1, <2>2 DEF Receipts
  <2>3. CASE flag /\ k \in KidsOf(active) /\ Attended("owner", k)'
    BY <2>1, <2>3 DEF KidsOf
  <2>4. ~(kid[k].sess = 0) /\ Working(kid[k].sess)'
    BY <1>0, <1>7, <2>1 DEF Working
  <2> QED BY <1>7, <2>2, <2>3, <2>4 DEF StaysTame
<1>8. ASSUME NEW x \in Cancellers, Owed(x)', NEW k \in KidsOf(active)', kid'[k].sess # 0,
             Working(kid[k].sess)'
      PROVE  Attended(x, k)'
  <2>1. Owed(x) /\ k \in KidsOf(active) /\ k \in Kids /\ kid[k].run = active
    BY <1>1, <1>8 DEF KidsOf
  <2> QED BY <1>5, <1>8, <2>1 DEF Receipts
<1> QED BY <1>4, <1>7, <1>8 DEF Receipts

\* A coroutine that resumes was alive, so no cancel starts to owe anything.
LEMMA OwedKept ==
  ASSUME NEW p \in Coroutines, Alive(p), OnlyCo(p), NEW x,
         UNCHANGED <<active, flag, canceller>>, active \in Runs
  PROVE  Owed(x)' => Owed(x)
<1>1. <<"execute", active>> \in Coroutines
  BY DEF Coroutines
<1>2. Alive(<<"execute", active>>)' => Alive(<<"execute", active>>)
  BY <1>1 DEF Alive, OnlyCo
<1> QED BY <1>2 DEF Owed

LEMMA ReceiptsTaken ==
  ASSUME Board, Receipts, NEW p \in Coroutines, Begin(p) \/ Spawned(p)
  PROVE  Receipts'
<1>0. TypeOK /\ Spawners
  BY DEF Board
<1>1. /\ co[p].pc \in {"created", "spawned"} /\ OnlyCo(p)
      /\ UNCHANGED <<active, flag, closer, canceller, task, owner, archived>>
      /\ \/ \E k \in Kids : Takes(p, k)
         \/ co'[p].pc = "done" /\ kid' = kid
         \/ co'[p].pc = "launched" /\ kid' = kid
  BY <1>0, TakesEffect
<1>2. \A q \in Coroutines : q # p => co'[q] = co[q]
  BY <1>1 DEF OnlyCo
<1>3. ASSUME NEW x \in Cancellers, NEW k \in Kids, kid'[k].sess = kid[k].sess,
             kid'[k].cut = kid[k].cut
      PROVE  StaysAttended(x, k)
  <2>1. \A q \in Coroutines : co[q].pc = "archiving" => co'[q] = co[q]
    BY <1>1, <1>2
  <2> QED BY <1>1, <1>3, <2>1 DEF StaysAttended, Attended
<1>4. \A s : Working(s)' <=> Working(s)
  BY <1>1 DEF Working
<1>5. \A x \in Cancellers : (canceller'[x].pc # "idle" => flag) /\ (Owed(x)' => Owed(x))
  <2>1. Alive(p)
    BY <1>1 DEF Alive
  <2>2. active \in Runs
    BY <1>0, <2>1, AliveIsActive DEF Board
  <2>3. \A x \in Cancellers : Owed(x)' => Owed(x)
    BY <1>1, <2>1, <2>2, OwedKept
  <2> QED BY <1>1, <2>3 DEF Receipts
<1>6. CASE kid' = kid /\ co'[p].pc \in {"done", "launched"}
  <2>1. \A q \in Coroutines : Hands(q)' \subseteq Hands(q)
    <3> SUFFICES ASSUME NEW q \in Coroutines PROVE Hands(q)' \subseteq Hands(q)
      OBVIOUS
    <3>1. CASE q = p
      BY <1>6, <3>1 DEF Hands, Todo, Held, SpawnPCs
    <3>2. CASE q # p
      BY <1>1, <1>2, <1>6, <3>2, HandsKept
    <3> QED BY <3>1, <3>2
  <2>3. \A k \in Kids : StaysTame(k) /\ \A x \in Cancellers : StaysAttended(x, k)
    BY <1>3, <1>6 DEF StaysTame, Lost
  <2> QED BY <1>0, <1>1, <1>4, <1>5, <2>1, <2>3, ReceiptsRest
<1>7. ASSUME NEW k \in Kids, Takes(p, k)
      PROVE  Receipts'
  <2>1. k \in Todo(p) /\ k \in Hands(p) /\ kid[k].sess = 0
    BY <1>0, <1>7 DEF Takes, Hands, Untouched, Spawners, Unspawned
  <2>2. /\ \A j \in Kids \ {k} : kid'[j] = kid[j]
        /\ kid'[k].run = kid[k].run /\ kid'[k].sess = 0 /\ kid'[k].cut = kid[k].cut
    BY <1>7, <2>1 DEF Takes, OnlyKid
  <2>3. \A j \in Kids : /\ kid'[j].run = kid[j].run /\ kid'[j].sess = kid[j].sess
                        /\ kid'[j].cut = kid[j].cut
    BY <2>1, <2>2
  <2>4. \A q \in Coroutines : Hands(q)' \subseteq Hands(q)
    <3> SUFFICES ASSUME NEW q \in Coroutines PROVE Hands(q)' \subseteq Hands(q)
      OBVIOUS
    <3>1. CASE q = p
      BY <1>1, <1>7, <2>1, <3>1, HandsAfterTake DEF Hands
    <3>2. CASE q # p
      BY <1>1, <1>2, <2>3, <3>2, HandsKept
    <3> QED BY <3>1, <3>2
  <2>6. ASSUME NEW j \in Kids
        PROVE  /\ Lost(j) => (kid'[j].status = "failed" \/ kid'[j].cut) /\ ~kid'[j].closed
               /\ kid'[j].status = "cancelled" => kid[j].status = "cancelled" \/ kid[j].sess = 0
    BY <2>1, <2>2 DEF Lost
  <2>7. \A j \in Kids : StaysTame(j) /\ \A x \in Cancellers : StaysAttended(x, j)
    BY <1>3, <2>3, <2>6 DEF StaysTame
  <2> QED BY <1>0, <1>1, <1>4, <1>5, <2>4, <2>7, ReceiptsRest
<1> QED BY <1>1, <1>6, <1>7

LEMMA ReceiptsAnswered ==
  ASSUME Board, Receipts, NEW p \in Coroutines, Step(p), ~Begin(p), ~Spawned(p),
         "archive_fails" \notin Env
  PROVE  Receipts'
<1>0. TypeOK /\ Honest /\ Spawners /\ OneRun /\ Cards
  BY DEF Board
<1>1. PICK k \in Kids :
      /\ co[p].kid = k /\ co[p].pc \in {"spawning", "archiving"}
      /\ OnlyKid(k) /\ OnlyCo(p)
      /\ co'[p].kid = k /\ co'[p].todo = co[p].todo
      /\ UNCHANGED <<active, run, flag, closer, canceller>>
      /\ Accepts(p) \/ GivesUp(p) \/ Archives(p)
  BY <1>0, AnswerEffect DEF Cards, ArchiveKnows
<1>2. co'[p].pc \in {"spawned", "archiving"}
  BY <1>1 DEF Accepts, GivesUp, Archives
<1>3. \A q \in Coroutines : q # p => co'[q] = co[q]
  BY <1>1 DEF OnlyCo
<1>4. /\ k \in Hands(p) /\ k \notin Todo(p) /\ k \in KidsOf(active)
      /\ \A q \in Coroutines : q # p => k \notin Hands(q)
      /\ co[p].pc = "spawning" => kid[k].sess = 0
  BY <1>0, <1>1 DEF Hands, Held, Untouched, Unspawned, Spawners, OneRun
<1>5. /\ \A j \in Kids \ {k} : kid'[j] = kid[j]
      /\ \A j \in Kids : kid'[j].run = kid[j].run /\ kid'[j].cut = kid[j].cut
  BY <1>1 DEF OnlyKid
<1>6. /\ \A q \in Coroutines : Hands(q)' \subseteq Hands(q)
      /\ co'[p].pc = "spawned" => k \notin Hands(p)'
  <2>1. /\ Todo(p)' = Todo(p) /\ Held(p) = {k}
        /\ Held(p)' = (IF co'[p].pc = "archiving" THEN {k} ELSE {})
    BY <1>0, <1>1, <1>2, HandsAfterAnswer
  <2>2. ASSUME NEW q \in Coroutines, q # p PROVE Hands(q)' = Hands(q)
    BY <1>1, <1>3, <1>5, <2>2, HandsKept
  <2> QED BY <1>4, <2>1, <2>2 DEF Hands
<1>7. \A j \in Kids \ {k} : Lost(j) => Lost(j)'
  BY <1>5, <1>6 DEF Lost
<1>10. /\ \A x \in Cancellers : canceller'[x].pc # "idle" => flag
       /\ \A x \in Cancellers : Owed(x)' => Owed(x)
  <2>1. Alive(p)
    BY <1>1 DEF Alive
  <2>2. active \in Runs
    BY <1>0, <2>1, AliveIsActive
  <2>3. \A x \in Cancellers : Owed(x)' => Owed(x)
    BY <1>1, <2>1, <2>2, OwedKept
  <2> QED BY <1>1, <2>3 DEF Receipts
<1>8. CASE Archives(p)
  <2>1. /\ kid'[k].status = "cancelled" /\ kid[k].sess # 0 /\ kid'[k].sess = kid[k].sess
        /\ archived' = archived \union {kid[k].sess} /\ task' = task /\ owner' = owner
    BY <1>1, <1>8 DEF Archives, SameUpstream
  <2>2. \A s : Working(s)' => Working(s) /\ s # kid[k].sess
    BY <2>1 DEF Working
  <2>3. \A j \in Kids : /\ kid'[j].run = kid[j].run /\ kid'[j].sess = kid[j].sess
                        /\ kid'[j].cut = kid[j].cut
    BY <1>5, <2>1
  <2>4. ASSUME NEW j \in Kids
        PROVE  /\ Lost(j) => (kid'[j].status = "failed" \/ kid'[j].cut) /\ ~kid'[j].closed
               /\ kid'[j].status = "cancelled" => kid[j].status = "cancelled" \/ ~Working(kid[j].sess)'
    <3>1. CASE j = k
      BY <2>1, <2>2, <3>1 DEF Lost
    <3>2. CASE j # k
      BY <1>5, <3>2 DEF Lost
    <3> QED BY <3>1, <3>2
  <2>5. ASSUME NEW x \in Cancellers, NEW j \in Kids, Attended(x, j)
        PROVE  Attended(x, j)' \/ ~Working(kid[j].sess)'
    <3>1. CASE j = k
      BY <2>1, <2>2, <3>1
    <3>2. CASE j # k
      <4>1. \A q \in Coroutines : co[q].pc = "archiving" /\ co[q].kid = j => q # p
        BY <1>1, <3>2
      <4> QED BY <1>1, <1>3, <2>3, <2>5, <4>1 DEF Attended
    <3> QED BY <3>1, <3>2
  <2>7. \A j \in Kids : StaysTame(j) /\ \A x \in Cancellers : StaysAttended(x, j)
    BY <2>3, <2>4, <2>5 DEF StaysTame, StaysAttended
  <2> QED BY <1>0, <1>1, <1>6, <1>10, <2>1, <2>2, <2>7, ReceiptsRest
<1>9. CASE Accepts(p) \/ GivesUp(p)
  <2>1. /\ co[p].pc = "spawning" /\ archived' = archived
        /\ SameUpstream \/ \E s \in Sessions : NewSession(s, k)
    BY <1>1, <1>9 DEF Accepts, GivesUp, NewSession
  <2>2. kid[k].sess = 0
    BY <1>4, <2>1
  <2>3. 0 \notin Sessions /\ \A j \in Kids : kid[j].sess # 0 => kid[j].sess \in Sessions
    BY <1>0, MultiAgentAssumption DEF TypeOK, KidType, Sessions
  <2>4. \A s \in Sessions : \A j \in Kids : owner[s] = j => j # k
    BY <1>4, <2>2, <2>3 DEF Receipts, Lost
  <2>10. ASSUME NEW x \in Cancellers, NEW j \in Kids \ {k}, Attended(x, j)
         PROVE  Attended(x, j)'
    <3>1. \A q \in Coroutines : co[q].pc = "archiving" => co'[q] = co[q]
      BY <1>3, <2>1
    <3>2. kid'[j] = kid[j]
      BY <1>5
    <3> QED BY <1>1, <2>10, <3>1, <3>2 DEF Attended
  <2>5. ASSUME NEW j \in Kids \ {k}, kid[j].sess # 0, Working(kid[j].sess)'
        PROVE  Working(kid[j].sess) /\ kid'[j] = kid[j]
    <3>1. kid[j].sess \in Sessions /\ task[kid[j].sess] # "none" /\ kid'[j] = kid[j]
      BY <1>0, <1>5, <2>3, <2>5 DEF Honest, KidHonest
    <3>2. task'[kid[j].sess] = task[kid[j].sess]
      BY <2>1, <3>1 DEF SameUpstream, NewSession
    <3> QED BY <2>1, <2>5, <3>1, <3>2 DEF Working
  <2>6. \A x \in Cancellers : canceller'[x].pc # "idle" => flag'
    BY <1>1, <1>10
  <2>11. "owner" \in Cancellers
    BY DEF Cancellers
  <2>7. ASSUME NEW s \in Sessions, NEW j \in Kids, owner'[s] = j
        PROVE  kid'[j].run # 0 /\ (kid'[j].sess = s \/ Lost(j)')
    <3>1. CASE j # k
      <4>1. owner[s] = j
        BY <2>1, <2>7, <3>1 DEF SameUpstream, NewSession
      <4> QED BY <1>5, <1>7, <3>1, <4>1 DEF Receipts
    <3>2. CASE j = k
      <4>1. kid'[k].run # 0
        BY <1>4, <1>5 DEF KidsOf
      <4>2. CASE Accepts(p)
        <5>1. NewSession(kid'[k].sess, k)
          BY <1>1, <4>2 DEF Accepts
        <5>2. s = kid'[k].sess
          BY <1>1, <2>4, <2>7, <3>2, <5>1 DEF NewSession
        <5> QED BY <3>2, <4>1, <5>2
      <4>3. CASE GivesUp(p)
        <5>1. kid'[k].status = "failed" /\ kid'[k].sess = 0 /\ ~kid'[k].closed /\ co'[p].pc = "spawned"
          BY <1>1, <4>3 DEF GivesUp
        <5>2. \A q \in Coroutines : k \notin Hands(q)'
          BY <1>4, <1>6, <5>1
        <5>3. Lost(k)'
          BY <5>1, <5>2 DEF Lost
        <5> QED BY <3>2, <4>1, <5>3
      <4> QED BY <1>9, <4>2, <4>3
    <3> QED BY <3>1, <3>2
  <2>8. ASSUME NEW j \in Kids, kid'[j].status = "cancelled", kid'[j].sess # 0, Working(kid[j].sess)'
        PROVE  kid'[j].cut \/ (flag' /\ kid'[j].run = active' /\ Attended("owner", j)')
    <3>1. j # k
      BY <1>1, <1>9, <2>8 DEF Accepts, GivesUp
    <3>2. kid'[j] = kid[j]
      BY <1>5, <3>1
    <3>3. Working(kid[j].sess)
      BY <2>5, <2>8, <3>1, <3>2
    <3>4. kid[j].cut \/ (flag /\ kid[j].run = active /\ Attended("owner", j))
      BY <2>8, <3>2, <3>3 DEF Receipts
    <3>5. Attended("owner", j) => Attended("owner", j)'
      BY <2>10, <2>11, <3>1
    <3> QED BY <1>1, <3>2, <3>4, <3>5
  <2>9. ASSUME NEW x \in Cancellers, Owed(x)', NEW j \in KidsOf(active)', kid'[j].sess # 0,
               Working(kid[j].sess)'
        PROVE  Attended(x, j)'
    <3>0. Owed(x) /\ flag
      BY <1>10, <2>9 DEF Owed, Receipts
    <3>1. j \in Kids /\ j \in KidsOf(active)
      BY <1>1, <1>5 DEF KidsOf
    <3>2. CASE j = k
      <4>1. kid'[k].sess # 0 /\ Refused(k)
        BY <1>1, <2>9, <3>0, <3>2 DEF Refused
      <4>2. co'[p].pc = "archiving" /\ co'[p].kid = k
        BY <1>1, <1>9, <4>1 DEF Accepts, GivesUp
      <4> QED BY <3>2, <4>2 DEF Attended
    <3>3. CASE j # k
      <4>1. kid'[j] = kid[j]
        BY <1>5, <3>1, <3>3
      <4>2. Working(kid[j].sess) /\ kid[j].sess # 0
        BY <2>5, <2>9, <3>1, <3>3, <4>1
      <4>3. Attended(x, j)
        BY <3>0, <3>1, <4>2 DEF Receipts
      <4> QED BY <2>10, <3>1, <3>3, <4>3
    <3> QED BY <3>2, <3>3
  <2> QED BY <2>6, <2>7, <2>8, <2>9 DEF Receipts
<1> QED BY <1>1, <1>8, <1>9

LEMMA ReceiptsResumed ==
  ASSUME Board, Receipts, NEW p \in Coroutines, Resume(p)
  PROVE  Receipts'
<1>0. TypeOK /\ Honest /\ OneRun /\ Cards /\ LedgerKept
  <2>1. [Next]_vars
    BY DEF Next
  <2> QED BY <2>1, LedgerStep DEF Board
<1>1. /\ p = <<"execute", active>> /\ active \in Runs /\ OnlyCo(p)
      /\ UNCHANGED <<active, flag, closer, canceller, task, owner, archived>>
      /\ Concludes(p) \/ Waits(p) \/ Requests(p) \/ Applies(p) \/ Tells(p) \/ Finishes(p)
  BY <1>0, ResumeEffect
<1>2. co[p].pc \notin SpawnPCs /\ Alive(p)
  BY <1>0, OnlyExecuteResumes
<1>3. \A q \in Coroutines : q # p => co'[q] = co[q]
  BY <1>1 DEF OnlyCo
<1>4. \A j \in Kids : Keeps(j)
  BY <1>1 DEF Concludes, Waits, Requests, Applies, Tells, Finishes, Keeps
<1>5. \A j \in Polled(p) : kid[j].sess # 0
  BY <1>0 DEF Cards, PollKnows
<1>7. ASSUME NEW x \in Cancellers, NEW j \in Kids
      PROVE  StaysAttended(x, j)
  <2>1. \A q \in Coroutines : co[q].pc = "archiving" => co'[q] = co[q]
    BY <1>2, <1>3 DEF SpawnPCs
  <2> QED BY <1>1, <1>4, <2>1 DEF StaysAttended, Attended, Keeps
<1>11. ASSUME flag, NEW j \in KidsOf(active), kid[j].sess # 0, Working(kid[j].sess)'
       PROVE  Attended("owner", j)'
  <2>1. "owner" \in Cancellers /\ j \in Kids /\ kid[j].run = active /\ Owed("owner")
    BY <1>1, <1>2, <1>11 DEF Cancellers, KidsOf, Owed
  <2>2. Working(kid[j].sess)
    BY <1>1, <1>4, <1>11, <2>1 DEF Working, Keeps
  <2>3. Attended("owner", j)
    BY <1>11, <2>1, <2>2 DEF Receipts
  <2> QED BY <1>7, <1>11, <2>1, <2>3 DEF StaysAttended
<1>6. ASSUME NEW j \in Kids
      PROVE  StaysTame(j)
  <2>1. /\ kid'[j].run = kid[j].run /\ kid'[j].sess = kid[j].sess /\ kid'[j].cut = kid[j].cut
        /\ ~kid[j].closed => ~kid'[j].closed
    BY <1>4 DEF Keeps
  <2>2. CASE Concludes(p)
    <3>1. \/ kid'[j].status = kid[j].status
          \/ IsLive(j) /\ kid'[j].status = "failed"
          \/ IsLive(j) /\ flag /\ j \in KidsOf(active)
      BY <2>2 DEF Concludes
    <3>2. kid[j].status = "failed" => ~IsLive(j)
      BY DEF IsLive, Terminal
    <3>3. /\ Lost(j) => kid'[j].status = "failed" \/ kid'[j].cut
          /\ kid[j].status = "cancelled" => ~IsLive(j)
      BY <2>1, <3>1, <3>2 DEF Lost, IsLive, Terminal
    <3>4. kid'[j].status = "cancelled" =>
            \/ kid[j].status = "cancelled" \/ kid[j].sess = 0 \/ ~Working(kid[j].sess)'
            \/ flag /\ j \in KidsOf(active) /\ Attended("owner", j)'
      BY <1>11, <3>1
    <3> QED BY <2>1, <3>3, <3>4 DEF StaysTame, Lost
  <2>3. CASE Applies(p)
    <3>1. \/ kid'[j].status = kid[j].status
          \/ j \in Polled(p) /\ kid'[j].status \in {task[co[p].asked[j].sess], co[p].asked[j].status}
          \/ (IsLive(j) \/ j \in Polled(p)) /\ kid'[j].status = "timed_out"
      BY <2>3 DEF Applies, Polled
    <3>2. kid[j].status = "failed" => ~IsLive(j)
      BY DEF IsLive, Terminal
    <3>3. Lost(j) => kid'[j].status = "failed" \/ kid'[j].cut
      BY <1>5, <2>1, <3>1, <3>2 DEF Lost
    <3>4. ASSUME j \in Polled(p), kid'[j].status = "cancelled",
                 kid'[j].status \in {task[co[p].asked[j].sess], co[p].asked[j].status}
          PROVE  ~Working(kid[j].sess)'
      <4>1. /\ co[p].asked[j].sess = kid[j].sess
            /\ co[p].asked[j].status \notin Unfinished => task[kid[j].sess] = co[p].asked[j].status
        BY <1>0, <3>4 DEF Cards, PollKnows
      <4>2. "cancelled" \notin Unfinished
        BY DEF Unfinished
      <4>3. task[kid[j].sess] \notin Unfinished
        BY <3>4, <4>1, <4>2
      <4> QED BY <1>1, <2>1, <4>3 DEF Working
    <3> QED BY <2>1, <3>1, <3>3, <3>4 DEF StaysTame, Lost
  <2>4. CASE kid' = kid
    BY <2>1, <2>4 DEF StaysTame, Lost
  <2> QED BY <1>1, <2>2, <2>3, <2>4 DEF Waits, Requests, Tells, Finishes
<1>8. \A q \in Coroutines : Hands(q)' \subseteq Hands(q)
  <2>1. co'[p].pc \notin SpawnPCs
    <3>1. co'[p].pc \in {"returning", "sleeping", "listing", "recovering", "expired", "reporting",
                         "synthesis", "done"}
      BY <1>1 DEF Concludes, Waits, Requests, Applies, Tells, Finishes
    <3> QED BY <3>1 DEF SpawnPCs
  <2>2. Hands(p)' = {}
    BY <2>1 DEF Hands, Todo, Held, SpawnPCs
  <2>3. \A k \in Kids : kid'[k].run = kid[k].run
    BY <1>4 DEF Keeps
  <2>4. ASSUME NEW q \in Coroutines, q # p PROVE Hands(q)' = Hands(q)
    BY <1>1, <1>3, <2>3, <2>4, HandsKept
  <2> QED BY <2>2, <2>4
<1>9. \A s \in Sessions : Working(s)' => Working(s)
  BY <1>1 DEF Working
<1>10. \A x \in Cancellers : (canceller'[x].pc # "idle" => flag) /\ (Owed(x)' => Owed(x))
  <2>1. \A x \in Cancellers : Owed(x)' => Owed(x)
    BY <1>1, <1>2, OwedKept
  <2> QED BY <1>1, <2>1 DEF Receipts
<1> QED BY <1>0, <1>1, <1>6, <1>7, <1>8, <1>9, <1>10, ReceiptsRest

\* cancel lists and stops the sessions of the run; close_child archives one.
LEMMA ReceiptsCommanded ==
  ASSUME Board, Receipts, Command, "archive_fails" \notin Env, "cancel_fails" \notin Env
  PROVE  Receipts'
<1>0. TypeOK /\ Honest /\ OneRun /\ Cards
  BY DEF Board
<1>1. ASSUME co' = co, active' = active, flag' = flag, owner' = owner,
             \A k \in Kids : StaysTame(k) /\ \A x \in Cancellers : StaysAttended(x, k),
             \A s \in Sessions : Working(s)' => Working(s),
             \A x \in Cancellers : canceller'[x].pc # "idle" => canceller[x].pc # "idle"
      PROVE  Receipts'
  <2>1. \A q \in Coroutines : Hands(q)' \subseteq Hands(q)
    <3>1. \A k \in Kids : kid'[k].run = kid[k].run
      BY <1>1 DEF StaysTame
    <3> QED BY <1>1, <3>1, HandsKept
  <2>2. \A x \in Cancellers : (canceller'[x].pc # "idle" => flag) /\ (Owed(x)' => Owed(x))
    BY <1>1 DEF Receipts, Owed, Alive
  <2> QED BY <1>0, <1>1, <2>1, <2>2, ReceiptsRest
<1>2. ASSUME kid' = kid
      PROVE  \A k \in Kids : StaysTame(k)
  BY <1>2 DEF StaysTame, Lost
<1>3. CASE Cancel
  <2>1. /\ active \in Runs /\ flag' = TRUE /\ canceller'["owner"].pc = "emitting"
        /\ canceller'["task"] = canceller["task"]
        /\ UNCHANGED <<active, kid, co, closer, task, owner, archived>>
    BY <1>0, <1>3, CancelEffect
  <2>2. \A k \in Kids : Lost(k)' <=> Lost(k)
    <3>1. \A q \in Coroutines : Hands(q)' = Hands(q)
      BY <2>1, HandsKept
    <3> QED BY <2>1, <3>1 DEF Lost
  <2>3. \A k \in Kids : Attended("owner", k)'
    BY <2>1 DEF Attended
  <2>4. \A s \in Sessions : \A k \in Kids : owner'[s] = k =>
          kid'[k].run # 0 /\ (kid'[k].sess = s \/ Lost(k)')
    BY <2>1, <2>2 DEF Receipts
  <2>5. \A k \in Kids : kid'[k].status = "cancelled" /\ kid'[k].sess # 0 /\ Working(kid[k].sess)'
          => kid'[k].cut \/ (flag' /\ kid'[k].run = active' /\ Attended("owner", k)')
    BY <2>1, <2>3 DEF Receipts, Working
  <2>6. ASSUME NEW x \in Cancellers, Owed(x)', NEW k \in KidsOf(active)', kid'[k].sess # 0,
               Working(kid[k].sess)'
        PROVE  Attended(x, k)'
    <3>1. CASE x = "owner"
      BY <2>3, <2>6, <3>1 DEF KidsOf
    <3>2. CASE x = "task"
      <4>1. Owed("task") /\ k \in KidsOf(active) /\ kid[k].sess # 0 /\ Working(kid[k].sess)
        BY <2>1, <2>6, <3>2 DEF Owed, KidsOf, Working
      <4>2. Attended("task", k)
        BY <2>6, <3>2, <4>1 DEF Receipts
      <4> QED BY <2>1, <3>2, <4>2 DEF Attended
    <3> QED BY <3>1, <3>2 DEF Cancellers
  <2> QED BY <2>1, <2>4, <2>5, <2>6 DEF Receipts
<1>10. ASSUME NEW x \in Cancellers, NEW y \in Cancellers, NEW k \in Kids, y # x,
              UNCHANGED <<kid, co>>, canceller'[y] = canceller[y]
       PROVE  StaysAttended(y, k)
  BY <1>10 DEF StaysAttended, Attended
<1>4. ASSUME NEW x \in Cancellers, CancelLists(x) \/ CancelListed(x)
      PROVE  Receipts'
  <2>1. /\ UNCHANGED <<active, flag, kid, co, task, owner, archived>> /\ canceller[x].pc # "idle"
        /\ \A y \in Cancellers \ {x} : canceller'[y] = canceller[y]
    <3>1. task' = task
      BY <1>4 DEF CancelLists, CancelListed, upstream
    <3> QED BY <1>0, <1>4, <3>1, CancelMoves
  <2>2. ASSUME NEW k \in Kids PROVE StaysAttended(x, k)
    <3>1. CASE CancelLists(x)
      <4>1. /\ canceller[x].pc = "emitting" /\ canceller'[x].pc = "listing"
            /\ canceller'[x].todo = {kid[j].sess : j \in KidsOf(active)} \ {0}
        BY <1>0, <3>1 DEF CancelLists, TypeOK
      <4>2. active # 0
        BY <1>0, <2>1, MultiAgentAssumption DEF OneRun, Runs
      <4>3. kid[k].run = active => k \in KidsOf(active)
        BY <4>2 DEF KidsOf
      <4> QED BY <2>1, <4>1, <4>3 DEF StaysAttended, Attended
    <3>2. CASE CancelListed(x)
      <4>1. /\ canceller[x].pc = "listing" /\ canceller'[x].pc = "stopping"
            /\ canceller'[x].todo = {s \in canceller[x].todo : task[s] \in Unfinished}
        BY <1>0, <3>2 DEF CancelListed, TypeOK
      <4> QED BY <2>1, <4>1 DEF StaysAttended, Attended, Working
    <3> QED BY <1>4, <3>1, <3>2
  <2>3. \A k \in Kids, y \in Cancellers : StaysAttended(y, k)
    BY <1>10, <2>1, <2>2
  <2>4. \A y \in Cancellers : canceller'[y].pc # "idle" => canceller[y].pc # "idle"
    BY <2>1
  <2> QED BY <1>1, <1>2, <2>1, <2>3, <2>4 DEF Working
<1>5. ASSUME NEW x \in Cancellers, CancelTask(x)
      PROVE  Receipts'
  <2>1. /\ UNCHANGED <<active, flag, kid, co, owner, archived>> /\ canceller[x].pc = "stopping"
        /\ \A y \in Cancellers \ {x} : canceller'[y] = canceller[y]
    <3>1. canceller[x].pc = "stopping"
      BY <1>5 DEF CancelTask
    <3> QED BY <1>0, <1>5, <3>1, CancelMoves
  <2>2. PICK s \in canceller[x].todo :
          /\ task' = [task EXCEPT ![s] = IF @ \in Unfinished THEN "cancelled" ELSE @]
          /\ canceller' = [canceller EXCEPT ![x].todo = @ \ {s}]
    BY <1>5 DEF CancelTask
  <2>3. s \in Sessions /\ canceller'[x].pc = "stopping" /\ canceller'[x].todo = canceller[x].todo \ {s}
    <3>1. canceller \in [Cancellers -> CancellerType] /\ canceller[x] \in CancellerType
      BY <1>0 DEF TypeOK
    <3> QED BY <2>1, <2>2, <3>1 DEF CancellerType
  <2>4. task'[s] \notin Unfinished /\ \A r \in Sessions : r # s => task'[r] = task[r]
    BY <1>0, <2>2, <2>3 DEF TypeOK, Unfinished
  <2>5. \A r \in Sessions : Working(r)' => Working(r) /\ r # s
    BY <2>1, <2>4 DEF Working
  <2>6. ASSUME NEW k \in Kids PROVE StaysAttended(x, k)
    <3>1. ASSUME Working(kid[k].sess)' PROVE kid[k].sess # s
      BY <2>1, <2>4, <3>1 DEF Working
    <3> QED BY <2>1, <2>3, <3>1 DEF StaysAttended, Attended
  <2>7. \A k \in Kids, y \in Cancellers : StaysAttended(y, k)
    BY <1>10, <2>1, <2>6
  <2>8. \A y \in Cancellers : canceller'[y].pc # "idle" => canceller[y].pc # "idle"
    BY <2>1
  <2> QED BY <1>1, <1>2, <2>1, <2>5, <2>7, <2>8
<1>6. ASSUME NEW x \in Cancellers, CancelEnds(x)
      PROVE  Receipts'
  <2>1. canceller[x].pc = "stopping" /\ canceller[x].todo = {} /\ flag /\ active \in Runs
    BY <1>0, <1>6 DEF CancelEnds, OneRun, Receipts
  <2>2. /\ canceller'[x].pc = "idle"
        /\ \A y \in Cancellers \ {x} : canceller'[y] = canceller[y]
        /\ UNCHANGED <<active, flag, co, closer, task, owner, archived>>
        /\ \A j \in Kids : /\ Keeps(j)
                           /\ kid'[j].status = IF j \in KidsOf(active) /\ IsLive(j)
                                               THEN "cancelled" ELSE kid[j].status
    BY <1>0, <1>6, <2>1, CancelEndsEffect
  <2>3. ASSUME NEW k \in Kids, NEW y \in Cancellers
        PROVE  StaysAttended(y, k)
    BY <2>1, <2>2 DEF StaysAttended, Attended, Keeps
  <2>5. ASSUME NEW k \in KidsOf(active), kid[k].sess # 0, Working(kid[k].sess)'
        PROVE  Attended("owner", k)'
    <3>1. k \in Kids /\ Working(kid[k].sess) /\ Owed(x)
      BY <2>1, <2>2, <2>5 DEF Keeps, Working, Owed, KidsOf
    <3>2. Attended(x, k)
      BY <2>5, <3>1 DEF Receipts
    <3>3. kid[k].cut \/ \E p \in Coroutines : co[p].pc = "archiving" /\ co[p].kid = k
      BY <2>1, <3>2 DEF Attended
    <3> QED BY <2>2, <3>1, <3>3 DEF Attended, Keeps
  <2>6. ASSUME NEW k \in Kids PROVE StaysTame(k)
    <3>1. kid[k].status = "failed" => ~IsLive(k)
      BY DEF IsLive, Terminal
    <3>2. /\ kid'[k].status = "cancelled" =>
                kid[k].status = "cancelled" \/ k \in KidsOf(active)
          /\ Lost(k) => kid'[k].status = "failed" \/ kid'[k].cut
      BY <2>2, <3>1 DEF Lost, Keeps
    <3> QED BY <2>1, <2>2, <2>5, <3>2 DEF StaysTame, Lost, Keeps
  <2>4. \A s \in Sessions : Working(s)' => Working(s)
    BY <2>2 DEF Working
  <2>7. \A y \in Cancellers : canceller'[y].pc # "idle" => canceller[y].pc # "idle"
    BY <2>2
  <2> QED BY <1>1, <2>2, <2>3, <2>4, <2>6, <2>7
<1>7. ASSUME NEW c \in Clicks, NEW k \in Kids, Close(c, k)
      PROVE  Receipts'
  <2>1. Marks(c, k) /\ UNCHANGED <<active, run, flag, co, canceller, task, owner, archived>>
    BY <1>0, <1>7, MarksEffect
  <2>2. ASSUME NEW j \in Kids
        PROVE  StaysTame(j) /\ \A x \in Cancellers : StaysAttended(x, j)
    <3>1. /\ kid'[j].run = kid[j].run /\ kid'[j].sess = kid[j].sess /\ kid'[j].cut = kid[j].cut
          /\ ~kid[j].closed => ~kid'[j].closed
      BY <2>1 DEF Marks
    <3>2. /\ kid'[j].status = "cancelled" => kid[j].status = "cancelled"
          /\ kid[j].status = "failed" => kid'[j].status = "failed"
      BY <2>1 DEF Marks, IsLive, Terminal
    <3>3. StaysTame(j)
      BY <3>1, <3>2 DEF StaysTame, Lost
    <3>4. \A x \in Cancellers : StaysAttended(x, j)
      BY <2>1, <3>1 DEF StaysAttended, Attended
    <3> QED BY <3>3, <3>4
  <2> QED BY <1>1, <2>1, <2>2 DEF Working
<1>8. ASSUME NEW c \in Clicks, CloserStep(c)
      PROVE  Receipts'
  <2>1. /\ closer[c].kid \in Kids /\ (Sends(c) \/ Hides(c))
        /\ UNCHANGED <<active, run, flag, co, canceller, task, owner>>
    BY <1>0, <1>8, CloserEffect DEF Cards, CloserKnows
  <2>2. \A s \in Sessions : Working(s)' => Working(s)
    BY <2>1 DEF Working, Sends, Hides
  <2>3. ASSUME NEW j \in Kids
        PROVE  StaysTame(j) /\ \A x \in Cancellers : StaysAttended(x, j)
    <3>1. kid'[j].run = kid[j].run /\ kid'[j].sess = kid[j].sess /\ kid'[j].cut = kid[j].cut
      BY <2>1 DEF Sends, Hides, OnlyKid
    <3>2. StaysTame(j)
      <4>1. CASE kid'[j] = kid[j]
        BY <4>1 DEF StaysTame, Lost
      <4>2. CASE Hides(c) /\ j = closer[c].kid
        <5>1. kid[j].sess # 0 /\ archived' = archived \union {kid[j].sess}
          BY <4>2 DEF Hides
        <5> QED BY <3>1, <5>1 DEF StaysTame, Lost, Working
      <4> QED BY <2>1, <4>1, <4>2 DEF Sends, Hides, OnlyKid
    <3>3. \A x \in Cancellers : StaysAttended(x, j)
      BY <2>1, <3>1 DEF StaysAttended, Attended
    <3> QED BY <3>2, <3>3
  <2> QED BY <1>1, <2>1, <2>2, <2>3
<1>9. ASSUME NEW s \in Sessions, TaskStarts(s) \/ TaskEnds(s)
      PROVE  Receipts'
  <2>1. UNCHANGED <<active, flag, kid, co, canceller, owner, archived>>
    BY <1>9 DEF TaskStarts, TaskEnds
  <2>2. \A r \in Sessions : Working(r)' => Working(r)
    BY <1>0, <1>9, <2>1 DEF TaskStarts, TaskEnds, TypeOK, Working, Unfinished
  <2>3. \A k \in Kids, x \in Cancellers : StaysAttended(x, k)
    BY <2>1 DEF StaysAttended, Attended
  <2> QED BY <1>1, <1>2, <2>1, <2>2, <2>3
<1> QED BY <1>3, <1>4, <1>5, <1>6, <1>7, <1>8, <1>9 DEF Command, CancellerStep

\* An interrupt while sessions_spawn is in flight leaves a card that lost its
\* receipt; one while the archive is, a card whose session may work on.
LEMMA ReceiptsInterrupted ==
  ASSUME Board, Receipts, Interrupts, "backpressure" \notin Env
  PROVE  Receipts'
<1>0. TypeOK /\ Honest /\ Spawners /\ OneRun /\ Cancellers = {"owner", "task"}
  BY DEF Board, Cancellers
<1>1. ASSUME NEW p \in Coroutines, Interrupted(p)
      PROVE  Receipts'
  <2>1. /\ p = <<"execute", active>> /\ active \in Runs /\ Alive(p) /\ co'[p].pc = "done"
        /\ OnlyCo(p)
        /\ \A k \in Kids : SameCard(k) /\ kid'[k].status = kid[k].status
                           /\ kid'[k].closed = kid[k].closed
                           /\ kid'[k].cut = (k \in Abandoned(p) \/ kid[k].cut)
        /\ canceller'["owner"] = canceller["owner"]
        /\ \/ flag' = TRUE /\ canceller'["task"].pc = "emitting"
           \/ UNCHANGED <<flag, canceller>>
        /\ archived \subseteq archived'
        /\ active' = active
    BY <1>0, <1>1, InterruptFields
  <2>2. /\ \A q \in Coroutines : q # p => co'[q] = co[q]
        /\ \A k \in Kids : kid'[k].run = kid[k].run /\ kid'[k].sess = kid[k].sess
                           /\ (kid[k].cut => kid'[k].cut)
    BY <2>1 DEF OnlyCo, SameCard
  <2>3. /\ Hands(p)' = {}
        /\ \A q \in Coroutines : Hands(q)' \subseteq Hands(q)
    <3>1. Hands(p)' = {}
      BY <2>1 DEF Hands, Todo, Held, SpawnPCs
    <3>2. \A q \in Coroutines : q # p => Hands(q)' = Hands(q)
      BY <2>1, <2>2, HandsKept
    <3> QED BY <3>1, <3>2
  <2>4. \A k \in Kids : Lost(k) => Lost(k)'
    BY <2>1, <2>2, <2>3 DEF Lost
  <2>5. \/ SameUpstream
        \/ co[p].pc = "spawning" /\ \E s \in Sessions : NewSession(s, co[p].kid)
    BY <1>1, <1>0, CutOffEffect
  <2>6. ASSUME NEW k \in Kids, kid[k].sess # 0, Working(kid[k].sess)'
        PROVE  Working(kid[k].sess)
    <3>1. kid[k].sess \in Sessions /\ task[kid[k].sess] # "none" /\ kid'[k].sess = kid[k].sess
      BY <1>0, <2>2, <2>6, MultiAgentAssumption DEF Honest, KidHonest, TypeOK, KidType, Sessions
    <3>2. task'[kid[k].sess] = task[kid[k].sess]
      BY <2>5, <3>1 DEF SameUpstream, NewSession
    <3> QED BY <2>1, <2>6, <3>1, <3>2 DEF Working
  <2>7. ASSUME NEW k \in Kids, Attended("owner", k)
        PROVE  Attended("owner", k)'
    <3>1. CASE kid[k].cut
      BY <2>2, <3>1 DEF Attended
    <3>2. CASE \E q \in Coroutines : co[q].pc = "archiving" /\ co[q].kid = k
      <4>1. PICK q \in Coroutines : co[q].pc = "archiving" /\ co[q].kid = k
        BY <3>2
      <4>2. CASE q = p
        BY <2>1, <4>1, <4>2 DEF Abandoned, Attended
      <4>3. CASE q # p
        BY <2>2, <4>1, <4>3 DEF Attended
      <4> QED BY <4>2, <4>3
    <3> QED BY <2>1, <2>2, <2>7, <3>1, <3>2 DEF Attended
  <2>8. \A x \in Cancellers : canceller'[x].pc # "idle" => flag'
    BY <1>0, <2>1 DEF Receipts
  <2>9. ASSUME NEW s \in Sessions, NEW k \in Kids, owner'[s] = k
        PROVE  kid'[k].run # 0 /\ (kid'[k].sess = s \/ Lost(k)')
    <3>1. CASE owner[s] = k
      BY <2>2, <2>4, <3>1 DEF Receipts
    <3>2. CASE co[p].pc = "spawning" /\ co[p].kid = k
      <4>1. k \in Untouched(p) /\ k \in Hands(p) /\ k \in KidsOf(active)
        BY <1>0, <3>2 DEF Untouched, Hands, Held, OneRun
      <4>2. kid[k].sess = 0 /\ ~kid[k].closed /\ kid[k].run # 0
            /\ \A q \in Coroutines : q # p => k \notin Hands(q)
        BY <1>0, <4>1 DEF Spawners, Unspawned, KidsOf
      <4>3. kid'[k].cut
        BY <2>1, <3>2 DEF Abandoned
      <4>4. \A q \in Coroutines : k \notin Hands(q)'
        BY <2>3, <4>2
      <4> QED BY <2>1, <2>2, <4>2, <4>3, <4>4 DEF Lost
    <3> QED BY <2>5, <2>9, <3>1, <3>2 DEF SameUpstream, NewSession
  <2>10. ASSUME NEW k \in Kids, kid'[k].status = "cancelled", kid'[k].sess # 0,
                Working(kid[k].sess)'
         PROVE  kid'[k].cut \/ (flag' /\ kid'[k].run = active' /\ Attended("owner", k)')
    <3>1. kid[k].cut \/ (flag /\ kid[k].run = active /\ Attended("owner", k))
      BY <2>1, <2>2, <2>6, <2>10 DEF Receipts
    <3> QED BY <2>1, <2>2, <2>7, <3>1
  <2>11. ASSUME NEW x \in Cancellers, Owed(x)', NEW k \in KidsOf(active)', kid'[k].sess # 0,
                Working(kid[k].sess)'
         PROVE  Attended(x, k)'
    <3>0. k \in Kids /\ k \in KidsOf(active) /\ kid[k].sess # 0 /\ Working(kid[k].sess)
      BY <2>1, <2>2, <2>6, <2>11 DEF KidsOf
    <3>1. CASE x = "owner"
      <4>1. ~Alive(<<"execute", active>>)'
        BY <2>1 DEF Alive
      <4>2. Owed("owner")
        BY <2>1, <2>11, <3>1, <4>1 DEF Owed
      <4>3. Attended("owner", k)
        BY <2>11, <3>0, <3>1, <4>2 DEF Receipts
      <4> QED BY <2>7, <3>0, <3>1, <4>3
    <3>2. CASE x = "task"
      <4>1. canceller["task"].pc = "idle"
        BY <1>0, <2>1 DEF OneRun
      <4>2. canceller'["task"].pc = "emitting"
        BY <2>1, <2>11, <3>2, <4>1 DEF Owed
      <4> QED BY <3>2, <4>2 DEF Attended
    <3> QED BY <1>0, <3>1, <3>2
  <2> QED BY <2>8, <2>9, <2>10, <2>11 DEF Receipts
<1>2. CASE InterruptedAgain
  <2>1. /\ active \in Runs
        /\ canceller["task"].pc \in {"listing", "stopping"} /\ canceller'["task"].pc = "idle"
        /\ canceller'["owner"] = canceller["owner"]
        /\ \A k \in Kids :
             /\ SameCard(k) /\ kid'[k].closed = kid[k].closed
             /\ kid'[k].status = IF k \in KidsOf(active) /\ IsLive(k)
                                 THEN "cancelled" ELSE kid[k].status
             /\ kid'[k].cut = ((k \in KidsOf(active) /\ IsLive(k)) \/ kid[k].cut)
        /\ UNCHANGED <<active, flag, co, task, owner, archived>>
    BY <1>0, <1>2, AgainFields
  <2>2. flag /\ \A x \in Cancellers : canceller'[x].pc # "idle" => flag
    BY <1>0, <2>1 DEF Receipts
  <2>3. \A k \in Kids : kid'[k].run = kid[k].run /\ kid'[k].sess = kid[k].sess
                        /\ (kid[k].cut => kid'[k].cut)
    BY <2>1 DEF SameCard
  <2>8. ~Owed("task")'
    BY <2>1 DEF Owed
  <2>4. ASSUME NEW k \in Kids, NEW x \in Cancellers, x = "owner" \/ Owed(x)'
        PROVE  StaysAttended(x, k)
    <3>1. CASE x = "owner"
      BY <2>1, <2>3, <3>1 DEF StaysAttended, Attended
    <3> QED BY <1>0, <2>4, <2>8, <3>1
  <2>5. ASSUME NEW k \in Kids PROVE StaysTame(k)
    <3>1. kid[k].status = "failed" => ~IsLive(k)
      BY DEF IsLive, Terminal
    <3>2. k \in KidsOf(active) /\ IsLive(k) => Attended("owner", k)'
      BY <2>1 DEF Attended
    <3> QED BY <2>1, <2>2, <2>3, <3>1, <3>2 DEF StaysTame, Lost
  <2>6. \A q \in Coroutines : Hands(q)' \subseteq Hands(q)
    BY <2>1, <2>3, HandsKept
  <2>7. \A x \in Cancellers : Owed(x)' => Owed(x)
    BY <1>0, <2>1 DEF Owed, Alive
  <2> QED BY <1>0, <2>1, <2>2, <2>4, <2>5, <2>6, <2>7, ReceiptsRest DEF Working
<1> QED BY <1>1, <1>2 DEF Interrupts

\* What is in hand after a start: nothing but the new children is added.
LEMMA HandsStarted ==
  ASSUME TypeOK, OneRun, Spawners, "overlap" \notin Env, NEW p, NEW S,
         \/ /\ Quiet /\ active' = active + 1 /\ p = <<"execute", active'>>
         \/ /\ active' = active /\ active \in Runs /\ p[1] = "add" /\ co'[p].todo = S,
         Starts(p, S, active')
  PROVE  \A q \in Coroutines : Hands(q)' \subseteq Hands(q) \union S
<1>1. /\ S \subseteq Kids \ UsedKids /\ OnlyCo(p) /\ p \in Coroutines /\ co'[p].pc = "created"
      /\ \A j \in S : kid'[j].run = active'
      /\ \A j \in Kids \ S : kid'[j] = kid[j]
  BY DEF Starts
<1>2. \A q \in Coroutines : q # p => co'[q] = co[q]
  BY <1>1 DEF OnlyCo
<1>3. active \in Nat /\ \A k \in Kids : kid[k].run \in Nat /\ kid[k].run <= active
  BY DEF TypeOK, KidType, Spawners
<1>4. ASSUME NEW q \in Coroutines
      PROVE  Hands(q)' \subseteq Hands(q) \union S
  <2>1. CASE q = p
    <3>1. Held(q)' = {}
      BY <1>1, <2>1 DEF Held
    <3>2. CASE active' = active + 1 /\ p[1] = "execute"
      <4>1. Todo(q)' = KidsOf(active)'
        BY <1>1, <2>1, <3>2 DEF Todo
      <4>2. KidsOf(active)' \subseteq S
        BY <1>1, <1>3, <3>2 DEF KidsOf
      <4> QED BY <3>1, <4>1, <4>2 DEF Hands
    <3>3. CASE p[1] = "add" /\ co'[p].todo = S
      <4>1. Todo(q)' = S
        BY <1>1, <2>1, <3>3 DEF Todo, SpawnPCs
      <4> QED BY <3>1, <4>1 DEF Hands
    <3>4. p = <<"execute", active'>> => p[1] = "execute"
      OBVIOUS
    <3> QED BY <3>2, <3>3, <3>4
  <2>2. CASE q # p /\ Quiet
    <3>1. Hands(q)' = {}
      BY <1>2, <2>2 DEF Quiet, Hands, Todo, Held, SpawnPCs
    <3> QED BY <3>1
  <2>3. CASE q # p /\ active' = active
    <3>1. KidsOf(active)' \subseteq KidsOf(active) \union S
      BY <1>1, <2>3 DEF KidsOf
    <3>2. co'[q] = co[q]
      BY <1>2, <2>3
    <3> QED BY <3>1, <3>2 DEF Hands, Todo, Held
  <2> QED BY <2>1, <2>2, <2>3
<1> QED BY <1>4

LEMMA ReceiptsStarted ==
  ASSUME Board, Receipts, PlanRun \/ ManualRun \/ AddChild, "overlap" \notin Env
  PROVE  Receipts'
<1>0. TypeOK /\ Honest /\ OneRun /\ Spawners /\ active \in Nat
  BY DEF Board, TypeOK
<1>1. ASSUME NEW p, NEW S, NEW r, Starts(p, S, r),
             \A q \in Coroutines : Hands(q)' \subseteq Hands(q) \union S
      PROVE  /\ \A s \in Sessions : \A k \in Kids : owner'[s] = k =>
                  kid'[k].run # 0 /\ (kid'[k].sess = s \/ Lost(k)')
             /\ \A s : Working(s)' <=> Working(s)
             /\ \A k \in S : kid'[k].sess = 0
             /\ \A k \in Kids \ S : kid'[k] = kid[k]
             /\ \A q \in Coroutines : co[q].pc = "archiving" => co'[q] = co[q] \/ q = p
             /\ \A k \in S : kid[k].run = 0
             /\ UNCHANGED <<canceller, owner>>
  <2>1. /\ S \subseteq Kids \ UsedKids /\ OnlyCo(p)
        /\ \A k \in S : kid'[k].sess = 0
        /\ \A k \in Kids \ S : kid'[k] = kid[k]
        /\ UNCHANGED <<canceller, owner, task, archived>>
    BY <1>1 DEF Starts
  <2>2. \A k \in S : kid[k].run = 0
    BY <2>1 DEF UsedKids
  <2>3. \A k \in Kids \ S : Lost(k) => Lost(k)'
    BY <1>1, <2>1 DEF Lost
  <2>4. \A s \in Sessions : \A k \in Kids : owner'[s] = k =>
          kid'[k].run # 0 /\ (kid'[k].sess = s \/ Lost(k)')
    BY <2>1, <2>2, <2>3 DEF Receipts
  <2>5. \A s : Working(s)' <=> Working(s)
    BY <2>1 DEF Working
  <2> QED BY <2>1, <2>2, <2>4, <2>5 DEF OnlyCo
<1>2. ASSUME NEW n, NEW plan \in BOOLEAN, Execute(n, plan)
      PROVE  Receipts'
  <2> DEFINE p == <<"execute", active + 1>>
             S == NewKids(n)
  <2>1. /\ Quiet /\ active' = active + 1 /\ flag' = FALSE /\ Starts(p, S, active')
    BY <1>0, <1>2, ExecuteEffect
  <2>2. p = <<"execute", active'>>
    BY <2>1
  <2> HIDE DEF p, S
  <2>3. \A q \in Coroutines : Hands(q)' \subseteq Hands(q) \union S
    BY <1>0, <2>1, <2>2, HandsStarted
  <2>4. /\ \A s \in Sessions : \A k \in Kids : owner'[s] = k =>
             kid'[k].run # 0 /\ (kid'[k].sess = s \/ Lost(k)')
        /\ \A s : Working(s)' <=> Working(s)
        /\ \A k \in S : kid'[k].sess = 0
        /\ \A k \in Kids \ S : kid'[k] = kid[k]
        /\ canceller' = canceller
    BY <1>1, <2>1, <2>3
  <2>5. \A x \in Cancellers : canceller'[x].pc = "idle" /\ ~Owed(x)'
    BY <2>1, <2>4 DEF Quiet, Owed
  <2>6. ASSUME NEW k \in Kids, kid'[k].status = "cancelled", kid'[k].sess # 0, Working(kid[k].sess)'
        PROVE  kid'[k].cut
    <3>1. kid'[k] = kid[k]
      BY <2>4, <2>6
    <3>2. Working(kid[k].sess)
      BY <2>4, <2>6, <3>1 DEF Working
    <3>3. Attended("owner", k) \/ kid[k].cut
      BY <2>6, <3>1, <3>2 DEF Receipts
    <3> QED BY <2>1, <3>1, <3>3 DEF Quiet, Attended, Cancellers
  <2> QED BY <2>1, <2>4, <2>5, <2>6 DEF Receipts
<1>3. CASE AddChild
  <2>1. PICK k \in Kids :
          LET p == <<"add", k>>
          IN  /\ active \in Runs /\ UNCHANGED <<active, run, flag>>
              /\ Starts(p, {k}, active) /\ co'[p].todo = {k}
    BY <1>0, <1>3, AddEffect
  <2> DEFINE p == <<"add", k>>
  <2>2. p[1] = "add" /\ co'[p].todo = {k} /\ Starts(p, {k}, active') /\ active' = active /\ flag' = flag
    BY <2>1
  <2> HIDE DEF p
  <2>3. \A q \in Coroutines : Hands(q)' \subseteq Hands(q) \union {k}
    BY <1>0, <2>1, <2>2, HandsStarted
  <2>4. /\ \A s \in Sessions : \A j \in Kids : owner'[s] = j =>
             kid'[j].run # 0 /\ (kid'[j].sess = s \/ Lost(j)')
        /\ \A s : Working(s)' <=> Working(s)
        /\ kid'[k].sess = 0
        /\ \A j \in Kids \ {k} : kid'[j] = kid[j]
        /\ \A q \in Coroutines : co[q].pc = "archiving" => co'[q] = co[q] \/ q = p
        /\ kid[k].run = 0
        /\ canceller' = canceller
    BY <1>1, <2>2, <2>3
  <2>5. ASSUME NEW j \in Kids, kid'[j].sess # 0, Working(kid[j].sess)'
        PROVE  j # k /\ kid'[j] = kid[j] /\ Working(kid[j].sess)
    BY <2>4, <2>5 DEF Working
  <2>7. ASSUME NEW x \in Cancellers, NEW j \in Kids, j # k, kid[j].run = active, Attended(x, j)
        PROVE  Attended(x, j)'
    <3>1. kid'[j] = kid[j]
      BY <2>4, <2>7
    <3>3. \A q \in Coroutines : co[q].pc = "archiving" /\ co[q].kid = j => q # p
      <4>1. ASSUME co[p].pc = "archiving" PROVE co[p].kid # j
        <5>1. co[p].kid \in KidsOf(active) /\ p[2] \in KidsOf(active)
          <6>1. p \in Coroutines /\ Alive(p)
            BY <2>2, <4>1 DEF Starts, Alive
          <6>2. p # <<"execute", active>>
            BY <2>2
          <6> QED BY <1>0, <4>1, <6>1, <6>2, AliveIsActive DEF OneRun, Hands, Held
        <5>2. p[2] = k
          BY DEF p
        <5> QED BY <2>1, <2>4, <5>1, <5>2 DEF KidsOf
      <4> QED BY <4>1
    <3> QED BY <2>4, <2>7, <3>1, <3>3 DEF Attended
  <2>6. ASSUME NEW j \in Kids, kid'[j].status = "cancelled", kid'[j].sess # 0, Working(kid[j].sess)'
        PROVE  kid'[j].cut \/ (flag' /\ kid'[j].run = active' /\ Attended("owner", j)')
    <3>1. j # k /\ kid'[j] = kid[j]
          /\ (kid[j].cut \/ (flag /\ kid[j].run = active /\ Attended("owner", j)))
      BY <2>5, <2>6 DEF Receipts
    <3>2. "owner" \in Cancellers
      BY DEF Cancellers
    <3> QED BY <2>2, <2>7, <3>1, <3>2
  <2>8. \A x \in Cancellers : canceller'[x].pc # "idle" => flag'
    BY <2>2, <2>4 DEF Receipts
  <2>9. ASSUME NEW x \in Cancellers, Owed(x)', NEW j \in KidsOf(active)', kid'[j].sess # 0,
               Working(kid[j].sess)'
        PROVE  Attended(x, j)'
    <3>1. j \in Kids /\ j # k /\ kid'[j] = kid[j] /\ Working(kid[j].sess)
      BY <2>5, <2>9 DEF KidsOf
    <3>2. j \in KidsOf(active) /\ kid[j].run = active
      BY <2>2, <2>9, <3>1 DEF KidsOf
    <3>3. Owed(x)
      <4>1. <<"execute", active>> \in Coroutines /\ <<"execute", active>> # p
        BY <2>1, <2>2 DEF Coroutines
      <4>2. co'[<<"execute", active>>] = co[<<"execute", active>>]
        BY <2>2, <4>1 DEF Starts, OnlyCo
      <4> QED BY <2>2, <2>4, <2>9, <4>2 DEF Owed, Alive
    <3>4. Attended(x, j)
      BY <2>9, <3>1, <3>2, <3>3 DEF Receipts
    <3> QED BY <2>7, <3>1, <3>2, <3>4
  <2> QED BY <2>4, <2>6, <2>8, <2>9 DEF Receipts
<1> QED BY <1>2, <1>3 DEF PlanRun, ManualRun

LEMMA ReceiptsInit == Init => Receipts
<1> SUFFICES ASSUME Init PROVE Receipts
  OBVIOUS
<1>1. \A k \in Kids : kid[k].sess = 0 /\ kid[k].run = 0 /\ k # 0
  BY DEF Init, NoKid, Kids
<1>2. \A s \in Sessions : owner[s] = 0
  BY DEF Init
<1>3. (\A x \in Cancellers : canceller[x].pc = "idle") /\ flag = FALSE
  BY DEF Init, IdleCanceller
<1> QED BY <1>1, <1>2, <1>3 DEF Receipts, Owed

LEMMA ReceiptsStep ==
  ASSUME Smooth, "cancel_fails" \notin Env, Board, Receipts, [Next]_vars
  PROVE  Receipts'
<1>0. "backpressure" \notin Env /\ "archive_fails" \notin Env /\ "overlap" \notin Env
  BY DEF Smooth
<1>1. CASE UNCHANGED vars
  <2>1. UNCHANGED <<active, kid, flag, co, canceller, task, owner, archived>>
    BY <1>1 DEF vars, upstream
  <2>2. \A k \in Kids : StaysTame(k) /\ \A x \in Cancellers : StaysAttended(x, k)
    BY <2>1 DEF StaysTame, StaysAttended, Lost, Attended
  <2>3. \A q \in Coroutines : Hands(q)' \subseteq Hands(q)
    BY <2>1, HandsKept
  <2>4. \A x \in Cancellers : Owed(x)' <=> Owed(x)
    BY <2>1 DEF Owed, Alive
  <2> QED BY <2>1, <2>2, <2>3, <2>4, ReceiptsRest DEF Board, Working, Receipts
<1>2. ASSUME NEW p \in Coroutines, Step(p) \/ Resume(p)
      PROVE  Receipts'
  BY <1>0, <1>2, ReceiptsTaken, ReceiptsAnswered, ReceiptsResumed
<1>3. CASE Command
  BY <1>0, <1>3, ReceiptsCommanded
<1>4. CASE PlanRun \/ ManualRun \/ AddChild
  BY <1>0, <1>4, ReceiptsStarted
<1>5. CASE Interrupts
  BY <1>0, <1>5, ReceiptsInterrupted
<1> QED
  <2>1. \/ PlanRun \/ ManualRun \/ AddChild
        \/ Command \/ Interrupts
        \/ \E p \in Coroutines : Step(p) \/ Resume(p)
        \/ UNCHANGED vars
    BY DEF Next, Command, Interrupts
  <2> QED BY <1>1, <1>2, <1>3, <1>4, <1>5, <2>1

\* When, in addition, no call of cancel fails, nothing works on behind a card
\* that is hidden or says it succeeded, and behind one that says it was
\* cancelled only what an interrupt cut loose: for any runs, appended children,
\* closes, cancels and interrupts, and whatever the gateway refuses, loses,
\* queues or fails to list.
THEOREM NothingWorksOn ==
  ASSUME Smooth, "cancel_fails" \notin Env
  PROVE  Spec => []NoRunawayWork
<1> DEFINE Inv == Board /\ Receipts
<1>1. Init => Inv
  BY BoardInit, ReceiptsInit
<1>2. Inv /\ [Next]_vars => Inv'
  BY BoardStep, ReceiptsStep
<1>3. Inv => NoRunawayWork
  <2> SUFFICES ASSUME Board, Receipts, Quiet, NEW s \in Sessions, NEW k \in Kids, WorksFor(s, k)
               PROVE  /\ ~kid[k].closed
                      /\ kid[k].status # "succeeded"
                      /\ kid[k].status = "cancelled" => kid[k].cut
    BY DEF NoRunawayWork
  <2>1. owner[s] = k /\ s # 0 /\ Working(s)
    BY DEF WorksFor, Sessions, Working
  <2>2. kid[k].run # 0 /\ (kid[k].sess = s \/ Lost(k))
    BY <2>1 DEF Receipts
  <2>3. ~kid[k].closed
    BY <2>1, <2>2 DEF Board, ClosedIsArchived, Working, Lost
  <2>4. kid[k].status # "succeeded"
    <3> SUFFICES ASSUME kid[k].status = "succeeded" PROVE FALSE
      OBVIOUS
    <3>1. PICK t \in Sessions : owner[t] = k /\ task[t] = "succeeded"
      BY DEF Board, Honest, KidHonest, Won
    <3>2. t # 0 /\ kid[k].sess # 0
      BY DEF Board, Cards, Sessions
    <3>3. kid[k].sess = s /\ kid[k].sess = t
      BY <2>1, <3>1, <3>2 DEF Receipts, Lost
    <3> QED BY <2>1, <3>1, <3>3 DEF Working, Unfinished
  <2>5. kid[k].status = "cancelled" => kid[k].cut
    <3> SUFFICES ASSUME kid[k].status = "cancelled" PROVE kid[k].cut
      OBVIOUS
    <3>1. CASE Lost(k)
      BY <3>1 DEF Lost
    <3>2. CASE kid[k].sess = s
      <4>1. kid[k].cut \/ Attended("owner", k)
        BY <2>1, <3>2 DEF Receipts
      <4> QED BY <4>1 DEF Quiet, Attended, Cancellers
    <3> QED BY <2>2, <3>1, <3>2
  <2> QED BY <2>3, <2>4, <2>5
<1> HIDE DEF Inv
<1> QED BY <1>1, <1>2, <1>3, PTL DEF Spec

-----------------------------------------------------------------------------
(***************************************************************************)
(* Nothing is left behind.  Every live child of the active run that no     *)
(* interrupt left to nobody has its receipt and is polled, or some         *)
(* coroutine has it in hand, or a cancel is at work that settles it; once  *)
(* execute has left its loop or was cut off, what is still in hand is      *)
(* unwanted, so _spawn_child ends it.  That a poll cannot fail, the limit  *)
(* not expire and no child be appended while results are reported is what  *)
(* Patient says.                                                           *)
(***************************************************************************)
Patient == Env \intersect {"list_fails", "timeout", "late_add"} = {}

LoopOver ==
  active # 0 => co[<<"execute", active>>].pc \in {"returning", "reporting", "synthesis", "done"}

Settling == \E x \in Cancellers : canceller[x].pc # "idle"

Minded(k) ==
  k \in UsedKids /\ IsLive(k) /\ ~kid[k].cut =>
    /\ kid[k].run = active
    /\ kid[k].sess = 0 \/ LoopOver => Settling \/ \E p \in Coroutines : k \in Hands(p)

Wanted(k) == flag \/ kid[k].status \in {"queued", "starting"} \/ kid[k].closeReq

RunEnds(r) ==
  /\ co[<<"execute", r>>].pc # "off" => run[r].status # "none"
  /\ run[r].status = "cancelling" => r = active /\ Settling
  /\ co[<<"execute", r>>].pc = "done" => run[r].status \notin {"starting", "running", "synthesizing"}
  /\ co[<<"execute", r>>].pc = "synthesis" => run[r].status \notin {"starting", "running"}

Ends ==
  /\ \A x \in Cancellers : canceller[x].pc # "idle" => flag
  /\ \A r \in Runs : RunEnds(r)
  /\ \A k \in Kids : Minded(k) /\ (kid[k].status = "cancelling" /\ kid[k].sess = 0 => kid[k].closeReq)
  /\ \A p \in Coroutines : /\ co[p].pc # "expired"
                           /\ \A k \in Untouched(p) : Wanted(k)
                           /\ LoopOver => \A k \in Hands(p) : Refused(k) \/ kid[k].cut

\* What a step that does not leave the loop may do to a card.
StaysMinded(k) ==
  /\ kid'[k].run = kid[k].run
  /\ (kid[k].closeReq => kid'[k].closeReq) /\ (kid[k].cut => kid'[k].cut)
  /\ k \in UsedKids /\ IsLive(k)' /\ ~kid'[k].cut =>
       \/ /\ IsLive(k) /\ kid'[k].sess = kid[k].sess /\ (Settling => Settling')
          /\ \A q \in Coroutines : k \in Hands(q) => k \in Hands(q)'
       \/ k \in KidsOf(active) /\ kid'[k].sess # 0 /\ ~LoopOver'
       \/ k \in KidsOf(active) /\ \E q \in Coroutines : k \in Hands(q)'
  /\ kid'[k].status = "cancelling" /\ kid'[k].sess = 0 => kid'[k].closeReq
  /\ \A q \in Coroutines : k \in Untouched(q)' /\ Wanted(k) => Wanted(k)'

LEMMA EndsRest ==
  ASSUME Ends, active' = active, flag => flag',
         \A x \in Cancellers : canceller'[x].pc # "idle" => flag',
         LoopOver' => LoopOver, \A r \in Runs : RunEnds(r)',
         \A k \in Kids : StaysMinded(k),
         \A q \in Coroutines : /\ Hands(q)' \subseteq Hands(q) /\ Hands(q) \subseteq Kids
                               /\ Untouched(q)' \subseteq Untouched(q) /\ Untouched(q) \subseteq Kids
                               /\ co'[q].pc # "expired"
  PROVE  Ends'
<1>1. ASSUME NEW k \in Kids PROVE Minded(k)'
  <2> SUFFICES ASSUME k \in UsedKids', IsLive(k)', ~kid'[k].cut
               PROVE  /\ kid'[k].run = active
                      /\ kid'[k].sess = 0 \/ LoopOver' =>
                           Settling' \/ \E q \in Coroutines : k \in Hands(q)'
    BY DEF Minded
  <2>1. k \in UsedKids /\ kid'[k].run = kid[k].run /\ ~kid[k].cut
    BY DEF UsedKids, StaysMinded
  <2>2. CASE /\ IsLive(k) /\ kid'[k].sess = kid[k].sess /\ (Settling => Settling')
             /\ \A q \in Coroutines : k \in Hands(q) => k \in Hands(q)'
    BY <2>1, <2>2 DEF Ends, Minded
  <2>3. CASE k \in KidsOf(active) /\ kid'[k].sess # 0 /\ ~LoopOver'
    BY <2>1, <2>3 DEF KidsOf
  <2>4. CASE k \in KidsOf(active) /\ \E q \in Coroutines : k \in Hands(q)'
    BY <2>1, <2>4 DEF KidsOf
  <2> QED BY <2>1, <2>2, <2>3, <2>4 DEF StaysMinded
<1>2. \A k \in Kids : kid'[k].status = "cancelling" /\ kid'[k].sess = 0 => kid'[k].closeReq
  BY DEF StaysMinded
<1>3. ASSUME NEW q \in Coroutines, NEW k \in Untouched(q)' PROVE Wanted(k)'
  <2>1. k \in Kids /\ k \in Untouched(q)
    BY <1>3
  <2>2. Wanted(k)
    BY <2>1 DEF Ends
  <2> QED BY <1>3, <2>1, <2>2 DEF StaysMinded
<1>4. ASSUME NEW q \in Coroutines, LoopOver', NEW k \in Hands(q)' PROVE Refused(k)' \/ kid'[k].cut
  <2>1. k \in Kids /\ k \in Hands(q)
    BY <1>4
  <2>2. Refused(k) \/ kid[k].cut
    BY <1>4, <2>1 DEF Ends
  <2> QED BY <2>1, <2>2 DEF StaysMinded, Refused
<1> QED BY <1>1, <1>2, <1>3, <1>4 DEF Ends

\* What ends a run, or sets the status it is reported with.
LEMMA RunEndsRest ==
  ASSUME Ends, active' = active,
         \A p \in Coroutines : \/ co'[p] = co[p] \/ p[1] = "add"
                               \/ co'[p].pc \notin Telling /\ co[p].pc # "off",
         Settling => Settling' \/ run'[active].status # "cancelling",
         \/ run' = run
         \/ /\ active \in Runs /\ OnlyRun(active) /\ run'[active].status # "none"
            /\ run'[active].status = "cancelling" => Settling'
            /\ \/ co'[<<"execute", active>>].pc \notin Telling
               \/ run'[active].status \notin {"starting", "running", "synthesizing"}
  PROVE  \A r \in Runs : RunEnds(r)'
<1> SUFFICES ASSUME NEW r \in Runs PROVE RunEnds(r)'
  OBVIOUS
<1>1. <<"execute", r>> \in Coroutines /\ <<"execute", r>>[1] # "add"
  BY DEF Coroutines
<1>2. /\ co'[<<"execute", r>>].pc \in Telling => co'[<<"execute", r>>] = co[<<"execute", r>>]
      /\ co'[<<"execute", r>>].pc # "off" => co[<<"execute", r>>].pc # "off"
  BY <1>1
<1>3. RunEnds(r)
  BY DEF Ends
<1>4. CASE run'[r] = run[r]
  BY <1>2, <1>3, <1>4 DEF RunEnds, Telling
<1>5. CASE run'[r] # run[r]
  <2>1. r = active
    BY <1>5 DEF OnlyRun
  <2>2. /\ run'[active].status # "none" /\ (run'[active].status = "cancelling" => Settling')
        /\ \/ co'[<<"execute", active>>].pc \notin Telling
           \/ run'[active].status \notin {"starting", "running", "synthesizing"}
    BY <1>5
  <2> QED BY <2>1, <2>2 DEF RunEnds, Telling
<1> QED BY <1>4, <1>5

LEMMA HandsAreKids ==
  ASSUME Board
  PROVE  /\ \A q \in Coroutines : /\ Hands(q) \subseteq Kids /\ Hands(q) \subseteq KidsOf(active)
                                  /\ Untouched(q) \subseteq Hands(q)
         /\ \A q \in Coroutines : q[1] = "execute" /\ Alive(q) => q = <<"execute", active>>
<1>1. TypeOK /\ OneRun
  BY DEF Board
<1>2. \A q \in Coroutines : Hands(q) \subseteq KidsOf(active)
  BY <1>1 DEF OneRun
<1>3. ASSUME NEW q \in Coroutines, q[1] = "execute", Alive(q)
      PROVE  q = <<"execute", active>>
  BY <1>1, <1>3, AliveIsActive
<1> QED BY <1>2, <1>3 DEF KidsOf, Untouched, Hands

LEMMA EndsTaken ==
  ASSUME Board, Ends, NEW p \in Coroutines, Begin(p) \/ Spawned(p)
  PROVE  Ends'
<1>0. TypeOK /\ Spawners
  BY DEF Board
<1>1. /\ co[p].pc \in {"created", "spawned"} /\ OnlyCo(p)
      /\ UNCHANGED <<active, flag, closer, canceller, task, owner, archived>>
      /\ \/ \E k \in Kids : Takes(p, k)
         \/ Todo(p) = {} /\ p[1] = "add" /\ co'[p].pc = "done" /\ UNCHANGED <<run, kid>>
         \/ /\ Todo(p) = {} /\ p[1] = "execute" /\ co'[p].pc = "launched" /\ kid' = kid
            /\ run' = [run EXCEPT ![active].status = Aggregate(active, kid)]
  BY <1>0, TakesEffect
<1>2. \A q \in Coroutines : q # p => co'[q] = co[q]
  BY <1>1 DEF OnlyCo
<1>3. p[1] = "execute" => p = <<"execute", active>> /\ active \in Runs
  <2>1. Alive(p)
    BY <1>1 DEF Alive
  <2> QED BY <2>1, HandsAreKids, AliveIsActive DEF Board
<1>4. co'[p].pc \in {"spawned", "spawning", "launched", "done"} /\ (co'[p].pc = "done" => p[1] = "add")
  BY <1>1 DEF Takes
<1>5. \A q \in Coroutines : /\ \/ co'[q] = co[q] \/ q[1] = "add"
                               \/ co'[q].pc \notin Telling /\ co[q].pc # "off"
                            /\ co'[q].pc # "expired"
  BY <1>1, <1>2, <1>4 DEF Ends, Telling
<1>12. Settling' <=> Settling
  BY <1>1 DEF Settling
<1>6. LoopOver' => LoopOver
  <2>1. ASSUME active \in Runs,
               co'[<<"execute", active>>].pc \in {"returning", "reporting", "synthesis", "done"}
        PROVE  LoopOver
    <3>1. <<"execute", active>> \in Coroutines /\ <<"execute", active>>[1] # "add"
      BY <2>1 DEF Coroutines
    <3>2. <<"execute", active>> # p
      BY <1>4, <2>1, <3>1
    <3> QED BY <1>2, <2>1, <3>1, <3>2 DEF LoopOver
  <2>2. active = 0 \/ active \in Runs
    BY <1>0, MultiAgentAssumption DEF TypeOK, Runs
  <2> QED BY <1>1, <2>1, <2>2 DEF LoopOver
<1>7. \A r \in Runs : RunEnds(r)'
  <2>1. \/ run' = run
        \/ /\ active \in Runs /\ OnlyRun(active) /\ co'[<<"execute", active>>].pc \notin Telling
           /\ run'[active].status \notin {"none", "cancelling"}
    <3>1. CASE run' = [run EXCEPT ![active].status = Aggregate(active, kid)] /\ p[1] = "execute"
               /\ co'[p].pc = "launched" /\ kid' = kid
      <4>1. Sums(active)
        BY <1>0, <1>3, <3>1, SumsEffect
      <4> QED BY <1>3, <3>1, <4>1 DEF Telling, Sums
    <3>2. CASE run' = run
      BY <3>2
    <3> QED BY <1>1, <3>1, <3>2 DEF Takes
  <2> QED BY <1>1, <1>5, <1>12, <2>1, RunEndsRest
<1>8. \A x \in Cancellers : canceller'[x].pc # "idle" => flag'
  BY <1>1 DEF Ends
<1>9. Hands(p) = Todo(p) /\ Untouched(p) = Todo(p)
  BY <1>1 DEF Hands, Held, Untouched
<1>10. CASE kid' = kid /\ Todo(p) = {} /\ co'[p].pc \in {"launched", "done"}
  <2>1. Hands(p)' = {} /\ Untouched(p)' = {}
    BY <1>10 DEF Hands, Todo, Held, Untouched, SpawnPCs
  <2>2. ASSUME NEW q \in Coroutines
        PROVE  Hands(q)' = Hands(q) /\ Untouched(q)' = Untouched(q)
    <3>1. CASE q = p
      BY <1>9, <1>10, <2>1, <3>1
    <3>2. CASE q # p
      BY <1>1, <1>2, <1>10, <3>2, HandsKept
    <3> QED BY <3>1, <3>2
  <2>3. \A j \in Kids : StaysMinded(j)
    BY <1>1, <1>10, <1>12, <2>2 DEF StaysMinded, Ends, IsLive, Wanted
  <2>4. \A q \in Coroutines : /\ Hands(q)' \subseteq Hands(q) /\ Hands(q) \subseteq Kids
                              /\ Untouched(q)' \subseteq Untouched(q) /\ Untouched(q) \subseteq Kids
                              /\ co'[q].pc # "expired"
    BY <1>5, <2>2, HandsAreKids
  <2> QED BY <1>1, <1>6, <1>7, <1>8, <2>3, <2>4, EndsRest
<1>11. ASSUME NEW k \in Kids, Takes(p, k)
       PROVE  Ends'
  <2>1. /\ k \in Todo(p)
        /\ \A j \in Kids \ {k} : kid'[j] = kid[j]
        /\ kid'[k].run = kid[k].run /\ kid'[k].sess = kid[k].sess
        /\ kid'[k].closeReq = kid[k].closeReq /\ kid'[k].cut = kid[k].cut
        /\ \/ Refused(k) /\ kid'[k].status = "cancelled"
           \/ ~Refused(k) /\ kid'[k].status = "starting"
    BY <1>11 DEF Takes, OnlyKid
  <2>2. \A j \in Kids : kid'[j].run = kid[j].run
    BY <2>1
  <2>3. /\ Hands(p)' = (Hands(p) \ {k}) \union (IF Refused(k) THEN {} ELSE {k})
        /\ Untouched(p)' = Hands(p)' /\ Untouched(p) = Hands(p)
    BY <1>1, <1>11, HandsAfterTake DEF Hands
  <2>4. k \in Hands(p) /\ k \in KidsOf(active)
    BY <1>9, <2>1, HandsAreKids
  <2>5. ASSUME NEW q \in Coroutines, q # p
        PROVE  Hands(q)' = Hands(q) /\ Untouched(q)' = Untouched(q)
    BY <1>1, <1>2, <2>2, <2>5, HandsKept
  <2>6. ASSUME NEW j \in Kids
        PROVE  StaysMinded(j)
    <3>1. CASE j # k
      <4>1. kid'[j] = kid[j]
        BY <2>1, <3>1
      <4>2. \A q \in Coroutines : j \in Hands(q) => j \in Hands(q)'
        BY <2>3, <2>5, <3>1
      <4> QED BY <1>1, <1>12, <4>1, <4>2 DEF StaysMinded, Ends, IsLive, Wanted
    <3>2. CASE j = k
      <4>1. IsLive(k)' => k \in Hands(p)'
        BY <2>1, <2>3 DEF IsLive, Terminal
      <4>2. kid'[k].status # "cancelling"
        BY <2>1
      <4>3. Wanted(k)' \/ k \notin Untouched(p)'
        BY <1>1, <2>1, <2>3 DEF Wanted, Refused
      <4>4. \A q \in Coroutines : k \in Untouched(q)' => q = p
        BY <1>0, <2>4, <2>5, HandsAreKids DEF Spawners
      <4> QED BY <2>1, <2>4, <3>2, <4>1, <4>2, <4>3, <4>4 DEF StaysMinded
    <3> QED BY <3>1, <3>2
  <2>7. ASSUME NEW q \in Coroutines
        PROVE  /\ Hands(q)' \subseteq Hands(q) /\ Hands(q) \subseteq Kids
               /\ Untouched(q)' \subseteq Untouched(q) /\ Untouched(q) \subseteq Kids
               /\ co'[q].pc # "expired"
    <3>1. CASE q = p
      BY <1>5, <2>3, <2>4, <3>1, HandsAreKids
    <3>2. CASE q # p
      BY <1>5, <2>5, <3>2, HandsAreKids
    <3> QED BY <3>1, <3>2
  <2> QED BY <1>1, <1>6, <1>7, <1>8, <2>6, <2>7, EndsRest
<1> QED BY <1>1, <1>4, <1>10, <1>11

LEMMA EndsAnswered ==
  ASSUME Board, Ends, NEW p \in Coroutines, Step(p), ~Begin(p), ~Spawned(p),
         "archive_fails" \notin Env
  PROVE  Ends'
<1>0. TypeOK /\ Honest /\ Spawners /\ OneRun /\ Cards
  BY DEF Board
<1>1. PICK k \in Kids :
      /\ co[p].kid = k /\ co[p].pc \in {"spawning", "archiving"}
      /\ OnlyKid(k) /\ OnlyCo(p)
      /\ co'[p].kid = k /\ co'[p].todo = co[p].todo
      /\ UNCHANGED <<active, run, flag, closer, canceller>>
      /\ Accepts(p) \/ GivesUp(p) \/ Archives(p)
  BY <1>0, AnswerEffect DEF Cards, ArchiveKnows
<1>2. co'[p].pc \in {"spawned", "archiving"}
  BY <1>1 DEF Accepts, GivesUp, Archives
<1>3. \A q \in Coroutines : q # p => co'[q] = co[q]
  BY <1>1 DEF OnlyCo
<1>4. /\ k \in Hands(p) /\ k \notin Todo(p) /\ k \in KidsOf(active)
      /\ \A q \in Coroutines : q # p => k \notin Hands(q)
  BY <1>0, <1>1 DEF Hands, Held, Spawners, OneRun
<1>5. /\ \A j \in Kids \ {k} : kid'[j] = kid[j]
      /\ \A j \in Kids : kid'[j].run = kid[j].run
      /\ kid'[k].closeReq = kid[k].closeReq /\ kid'[k].cut = kid[k].cut
  BY <1>1 DEF OnlyKid
<1>6. \A q \in Coroutines : /\ co'[q] = co[q] \/ (co'[q].pc \notin Telling /\ co[q].pc # "off")
                            /\ co'[q].pc # "expired"
  BY <1>1, <1>2, <1>3 DEF Ends, Telling
<1>14. Settling' <=> Settling
  BY <1>1 DEF Settling
<1>7. LoopOver' => LoopOver
  <2>1. ASSUME active \in Runs,
               co'[<<"execute", active>>].pc \in {"returning", "reporting", "synthesis", "done"}
        PROVE  LoopOver
    <3>1. <<"execute", active>> \in Coroutines
      BY <2>1 DEF Coroutines
    <3>2. <<"execute", active>> # p
      BY <1>2, <2>1
    <3> QED BY <1>3, <2>1, <3>1, <3>2 DEF LoopOver
  <2>2. active = 0 \/ active \in Runs
    BY <1>0, MultiAgentAssumption DEF TypeOK, Runs
  <2> QED BY <1>1, <2>1, <2>2 DEF LoopOver
<1>8. \A r \in Runs : RunEnds(r)'
  BY <1>1, <1>6, <1>14, RunEndsRest
<1>9. /\ Hands(p)' = Todo(p) \union (IF co'[p].pc = "archiving" THEN {k} ELSE {})
      /\ Hands(p) = Todo(p) \union {k} /\ Untouched(p)' = Todo(p) /\ Todo(p) \subseteq Untouched(p)
  BY <1>0, <1>1, <1>2, HandsAfterAnswer DEF Hands, Untouched
<1>10. ASSUME NEW q \in Coroutines, q # p
       PROVE  Hands(q)' = Hands(q) /\ Untouched(q)' = Untouched(q)
  BY <1>1, <1>3, <1>5, <1>10, HandsKept
<1>11. ASSUME NEW j \in Kids
       PROVE  StaysMinded(j)
  <2>1. CASE j # k
    <3>1. kid'[j] = kid[j]
      BY <1>5, <2>1
    <3>2. \A q \in Coroutines : j \in Hands(q) => j \in Hands(q)'
      BY <1>9, <1>10, <2>1
    <3> QED BY <1>1, <1>14, <3>1, <3>2 DEF StaysMinded, Ends, IsLive, Wanted
  <2>2. CASE j = k
    <3>1. IsLive(k)' => \/ kid'[k].sess # 0 /\ ~LoopOver'
                        \/ k \in Hands(p)' \/ kid'[k].cut
      <4>1. CASE GivesUp(p) \/ Archives(p)
        BY <1>1, <4>1 DEF GivesUp, Archives, IsLive, Terminal
      <4>2. CASE Accepts(p)
        <5>1. kid'[k].sess # 0
          BY <1>1, <4>2 DEF Accepts, NewSession, Sessions
        <5>2. CASE co'[p].pc = "archiving"
          BY <1>9, <5>2
        <5>3. CASE ~Refused(k)
          BY <1>4, <1>5, <1>7, <5>1, <5>3 DEF Ends
        <5> QED BY <1>1, <4>2, <5>2, <5>3 DEF Accepts
      <4> QED BY <1>1, <4>1, <4>2
    <3>2. kid'[k].status = "cancelling" => kid'[k].sess # 0
      <4>1. Accepts(p) => kid'[k].sess # 0
        BY <1>1 DEF Accepts, NewSession, Sessions
      <4> QED BY <1>1, <4>1 DEF GivesUp, Archives
    <3>3. \A q \in Coroutines : k \notin Untouched(q)'
      BY <1>4, <1>9, <1>10, HandsAreKids
    <3> QED BY <1>4, <1>5, <2>2, <3>1, <3>2, <3>3 DEF StaysMinded
  <2> QED BY <2>1, <2>2
<1>12. ASSUME NEW q \in Coroutines
       PROVE  /\ Hands(q)' \subseteq Hands(q) /\ Hands(q) \subseteq Kids
              /\ Untouched(q)' \subseteq Untouched(q) /\ Untouched(q) \subseteq Kids
              /\ co'[q].pc # "expired"
  <2>1. CASE q = p
    BY <1>6, <1>9, <2>1, HandsAreKids
  <2>2. CASE q # p
    BY <1>6, <1>10, <2>2, HandsAreKids
  <2> QED BY <2>1, <2>2
<1>13. \A x \in Cancellers : canceller'[x].pc # "idle" => flag'
  BY <1>1 DEF Ends
<1> QED BY <1>1, <1>7, <1>8, <1>11, <1>12, <1>13, EndsRest

\* execute leaves its loop: what is live is unwanted and in some hand.
LEMMA EndsConcluded ==
  ASSUME Board, Ends, Patient, NEW p \in Coroutines, p = <<"execute", active>>, active \in Runs,
         OnlyCo(p), UNCHANGED <<active, flag, canceller>>, Concludes(p), Hands(p) = {},
         \/ co[p].pc \in {"launched", "sleeping"} /\ (flag \/ (Pending = {} /\ ~Spawning))
         \/ "list_fails" \in Env /\ co[p].pc = "listing"
         \/ co[p].pc = "expired"
  PROVE  Ends'
<1>0. TypeOK /\ Spawners /\ Cards
  BY DEF Board
<1>1. co'[p].pc = "returning" /\ OnlyRun(active) /\ run'[active].status \notin {"none", "cancelling"}
      /\ \A j \in Kids : kid'[j].run = kid[j].run /\ kid'[j].sess = kid[j].sess
                         /\ kid'[j].closeReq = kid[j].closeReq /\ kid'[j].cut = kid[j].cut
  BY DEF Concludes, Keeps, Sums
<1>15. (Settling' <=> Settling) /\ (Settling => flag)
  BY DEF Settling, Ends
<1>2. "list_fails" \notin Env /\ (flag \/ (Pending = {} /\ ~Spawning))
  BY DEF Patient, Ends
<1>3. \A q \in Coroutines : q # p => co'[q] = co[q]
  BY DEF OnlyCo
<1>4. ASSUME NEW q \in Coroutines
      PROVE  Hands(q)' = Hands(q) /\ Untouched(q)' \subseteq Untouched(q)
  <2>1. CASE q = p
    BY <1>1, <2>1 DEF Hands, Todo, Held, Untouched, SpawnPCs
  <2>2. CASE q # p
    BY <1>1, <1>3, <2>2, HandsKept
  <2> QED BY <2>1, <2>2
<1>5. ASSUME NEW j \in Kids
      PROVE  /\ kid'[j].status = kid[j].status \/ (flag /\ j \in KidsOf(active))
             /\ IsLive(j)' => kid'[j].status = kid[j].status /\ (j \in KidsOf(active) => ~flag)
  BY <1>2 DEF Concludes, IsLive, Terminal
<1>6. ASSUME NEW j \in KidsOf(active), IsLive(j), ~flag
      PROVE  kid[j].status = "cancelling" /\ kid[j].sess = 0
  <2>1. j \in Kids /\ kid[j].status \in ChildStatuses
    BY <1>0 DEF KidsOf, TypeOK, KidType
  <2>2. kid[j].status \notin {"queued", "starting"}
    BY <1>2, <1>6 DEF Spawning
  <2>3. kid[j].status = "running" => kid[j].sess # 0
    BY <1>0, <2>1 DEF Cards
  <2>4. ~(kid[j].sess # 0 /\ kid[j].status \in {"running", "cancelling"})
    BY <1>2, <1>6 DEF Pending
  <2> QED BY <1>6, <2>1, <2>2, <2>3, <2>4 DEF ChildStatuses, IsLive
<1>7. ASSUME NEW j \in Kids, j \in UsedKids', IsLive(j)', ~kid'[j].cut
      PROVE  kid'[j].run = active /\ \E q \in Coroutines : j \in Hands(q)'
  <2>1. IsLive(j) /\ j \in UsedKids /\ ~kid[j].cut
    BY <1>1, <1>5, <1>7 DEF IsLive, UsedKids
  <2>2. j \in KidsOf(active)
    BY <2>1 DEF Ends, Minded, UsedKids, KidsOf
  <2>3. kid[j].sess = 0
    BY <1>5, <1>6, <1>7, <2>1, <2>2
  <2>4. \E q \in Coroutines : j \in Hands(q)
    BY <1>5, <1>7, <1>15, <2>1, <2>2, <2>3 DEF Ends, Minded
  <2> QED BY <1>1, <1>4, <2>2, <2>4 DEF KidsOf
<1>8. ASSUME NEW j \in Kids, kid'[j].status = "cancelling", kid'[j].sess = 0
      PROVE  kid'[j].closeReq
  <2>1. kid[j].status = "cancelling"
    BY <1>5, <1>8 DEF IsLive, Terminal
  <2> QED BY <1>1, <1>8, <2>1 DEF Ends
<1>9. ASSUME NEW q \in Coroutines, NEW j \in Untouched(q)'
      PROVE  Wanted(j)'
  <2>1. j \in Untouched(q) /\ j \in Kids
    BY <1>4, <1>9, HandsAreKids
  <2>2. Wanted(j)
    BY <2>1 DEF Ends
  <2> QED BY <1>1, <1>5, <2>1, <2>2 DEF Wanted
<1>10. ASSUME NEW q \in Coroutines, NEW j \in Hands(q)'
       PROVE  Refused(j)'
  <2>1. j \in Hands(q) /\ j \in KidsOf(active) /\ j \in Kids
    BY <1>4, <1>10, HandsAreKids
  <2>2. Refused(j)
    <3>1. CASE flag
      BY <3>1 DEF Refused
    <3>2. CASE ~flag /\ j \in Untouched(q)
      <4>1. kid[j].status \notin {"queued", "starting"}
        BY <1>2, <2>1, <3>2 DEF Spawning
      <4>2. Wanted(j)
        BY <3>2 DEF Ends
      <4> QED BY <4>1, <4>2 DEF Wanted, Refused
    <3>3. CASE j \notin Untouched(q)
      <4>1. co[q].pc = "archiving" /\ co[q].kid = j
        BY <2>1, <3>3 DEF Hands, Held, Untouched
      <4> QED BY <1>0, <4>1 DEF Cards, ArchiveKnows
    <3> QED BY <3>1, <3>2, <3>3
  <2> QED BY <1>1, <2>1, <2>2 DEF Refused
<1>11. \A r \in Runs : RunEnds(r)'
  <2>1. \A q \in Coroutines : co'[q] = co[q] \/ (co'[q].pc \notin Telling /\ co[q].pc # "off")
    BY <1>1, <1>3 DEF Telling
  <2>2. co'[<<"execute", active>>].pc \notin Telling
    BY <1>1 DEF Telling
  <2> QED BY <1>1, <1>15, <2>1, <2>2, RunEndsRest
<1>12. \A q \in Coroutines : co'[q].pc # "expired"
  BY <1>1, <1>3 DEF Ends
<1>13. \A x \in Cancellers : canceller'[x].pc # "idle" => flag'
  BY DEF Ends
<1>14. \A j \in Kids : Minded(j)'
  BY <1>7 DEF Minded
<1> QED BY <1>8, <1>9, <1>10, <1>11, <1>12, <1>13, <1>14 DEF Ends

\* The caller of execute ends the run.
LEMMA RunEndsTold ==
  ASSUME TypeOK, Ends, NEW p \in Coroutines, p = <<"execute", active>>, active \in Runs,
         OnlyCo(p), Tells(p) \/ Finishes(p), UNCHANGED <<active, canceller>>
  PROVE  \A r \in Runs : RunEnds(r)'
<1> SUFFICES ASSUME NEW r \in Runs PROVE RunEnds(r)'
  OBVIOUS
<1>0. Settling' <=> Settling
  BY DEF Settling
<1>1. CASE r # active
  <2>1. <<"execute", r>> \in Coroutines /\ <<"execute", r>> # p
    BY <1>1 DEF Coroutines
  <2>2. co'[<<"execute", r>>] = co[<<"execute", r>>]
    BY <2>1 DEF OnlyCo
  <2>3. run'[r] = run[r]
    BY <1>1 DEF Tells, Finishes, StatusIs, OnlyRun
  <2> QED BY <1>0, <2>2, <2>3 DEF Ends, RunEnds
<1>2. CASE r = active
  <2>1. FinalStatus(active) \in {"succeeded", "partial", "cancelled", "failed"}
    BY DEF FinalStatus
  <2>2. co'[p].pc = "done" => run'[active].status \in {"succeeded", "partial", "cancelled", "failed"}
    BY <2>1 DEF Tells, Finishes, StatusIs
  <2>3. co'[p].pc = "synthesis" => run'[active].status = "synthesizing"
    BY DEF Tells, Finishes, StatusIs
  <2>4. co'[p].pc \notin {"done", "synthesis"} => co'[p].pc = "reporting" /\ run' = run
    BY DEF Tells, Finishes
  <2>5. run[active].status # "none" /\ (run[active].status = "cancelling" => Settling)
    BY DEF Ends, RunEnds, Tells, Finishes
  <2> QED BY <1>0, <1>2, <2>2, <2>3, <2>4, <2>5 DEF RunEnds
<1> QED BY <1>1, <1>2

LEMMA EndsResumed ==
  ASSUME Board, Ends, Patient, NEW p \in Coroutines, Resume(p)
  PROVE  Ends'
<1>0. TypeOK /\ Honest /\ Spawners /\ OneRun /\ Cards /\ LedgerKept
  <2>1. [Next]_vars
    BY DEF Next
  <2> QED BY <2>1, LedgerStep DEF Board
<1>1. /\ p = <<"execute", active>> /\ active \in Runs /\ OnlyCo(p)
      /\ UNCHANGED <<active, flag, closer, canceller, task, owner, archived>>
      /\ \/ /\ Concludes(p)
            /\ \/ co[p].pc \in {"launched", "sleeping"} /\ (flag \/ (Pending = {} /\ ~Spawning))
               \/ "list_fails" \in Env /\ co[p].pc = "listing"
               \/ co[p].pc = "expired"
         \/ Waits(p) \/ Requests(p) \/ Applies(p) \/ Tells(p) \/ Finishes(p)
  BY <1>0, ResumeEffect
<1>2. Hands(p) = {} /\ Untouched(p) = {}
  <2>1. co[p].pc \notin SpawnPCs
    BY <1>0, OnlyExecuteResumes
  <2> QED BY <2>1 DEF Hands, Todo, Held, Untouched, SpawnPCs
<1>3. CASE Concludes(p)
  <2>1. \/ co[p].pc \in {"launched", "sleeping"} /\ (flag \/ (Pending = {} /\ ~Spawning))
        \/ "list_fails" \in Env /\ co[p].pc = "listing"
        \/ co[p].pc = "expired"
    BY <1>1, <1>3 DEF Concludes, Waits, Requests, Applies, Tells, Finishes
  <2> QED BY <1>1, <1>2, <1>3, <2>1, EndsConcluded
<1>4. CASE Waits(p) \/ Requests(p) \/ Applies(p) \/ Tells(p) \/ Finishes(p)
  <2>1. \A q \in Coroutines : q # p => co'[q] = co[q]
    BY <1>1 DEF OnlyCo
  <2>2. \A j \in Kids : kid'[j].run = kid[j].run /\ kid'[j].sess = kid[j].sess
                        /\ kid'[j].closeReq = kid[j].closeReq /\ kid'[j].cut = kid[j].cut
    BY <1>4 DEF Waits, Requests, Applies, Tells, Finishes, Keeps
  <2>3. co'[p].pc \in {"sleeping", "listing", "recovering", "reporting", "synthesis", "done"}
    <3>1. "timeout" \notin Env
      BY DEF Patient
    <3> QED BY <1>4, <3>1 DEF Waits, Requests, Applies, Tells, Finishes
  <2>4. ASSUME NEW q \in Coroutines
        PROVE  Hands(q)' = Hands(q) /\ Untouched(q)' = Untouched(q) /\ co'[q].pc # "expired"
    <3>1. CASE q = p
      BY <1>2, <2>3, <3>1 DEF Hands, Todo, Held, Untouched, SpawnPCs
    <3>2. CASE q # p
      BY <1>1, <2>1, <2>2, <3>2, HandsKept DEF Ends
    <3> QED BY <3>1, <3>2
  <2>5. LoopOver' => LoopOver
    <3>1. active # 0
      BY <1>1, MultiAgentAssumption DEF Runs
    <3>2. CASE Waits(p) \/ Requests(p) \/ Applies(p)
      <4>1. co'[p].pc \in {"sleeping", "listing", "recovering"}
        BY <2>3, <3>2 DEF Waits, Requests, Applies
      <4> QED BY <1>1, <3>1, <4>1 DEF LoopOver
    <3>3. CASE Tells(p) \/ Finishes(p)
      <4>1. co[p].pc \in {"returning", "reporting", "synthesis"}
        BY <3>3 DEF Tells, Finishes
      <4> QED BY <1>1, <4>1 DEF LoopOver
    <3> QED BY <1>4, <3>2, <3>3
  <2>10. Settling' <=> Settling
    BY <1>1 DEF Settling
  <2>6. \A r \in Runs : RunEnds(r)'
    <3>1. CASE Tells(p) \/ Finishes(p)
      BY <1>0, <1>1, <3>1, RunEndsTold
    <3>2. CASE Waits(p) \/ Requests(p) \/ Applies(p)
      <4>1. co'[p].pc \notin Telling /\ run' = run /\ co[p].pc # "off"
        BY <2>3, <3>2 DEF Waits, Requests, Applies, Telling
      <4> QED BY <1>1, <2>1, <2>10, <4>1, RunEndsRest
    <3> QED BY <1>4, <3>1, <3>2
  <2>7. ASSUME NEW j \in Kids
        PROVE  StaysMinded(j)
    <3>1. CASE kid'[j].status = kid[j].status
      BY <1>1, <2>2, <2>4, <2>10, <3>1 DEF StaysMinded, Ends, IsLive, Wanted
    <3>2. CASE kid'[j].status # kid[j].status
      <4>1. Applies(p) /\ "timeout" \notin Env
        BY <1>4, <3>2 DEF Waits, Requests, Tells, Finishes, Patient
      <4>2. j \in Polled(p)
        BY <3>2, <4>1 DEF Applies, Polled
      <4>3. kid[j].sess # 0 /\ j \in KidsOf(active)
        BY <1>0, <4>2 DEF Cards, PollKnows, OneRun
      <4>4. \A q \in Coroutines : j \notin Untouched(q)
        BY <1>0, <4>3 DEF Spawners, Unspawned
      <4>5. ~LoopOver'
        <5>1. co'[p].pc \in {"sleeping", "recovering"}
          BY <4>1 DEF Applies
        <5>2. active # 0
          BY <1>1 DEF Runs
        <5> QED BY <1>1, <5>1, <5>2 DEF LoopOver
      <4> QED BY <2>2, <2>4, <4>3, <4>4, <4>5 DEF StaysMinded
    <3> QED BY <3>1, <3>2
  <2>8. \A q \in Coroutines : /\ Hands(q)' \subseteq Hands(q) /\ Hands(q) \subseteq Kids
                              /\ Untouched(q)' \subseteq Untouched(q) /\ Untouched(q) \subseteq Kids
                              /\ co'[q].pc # "expired"
    BY <2>4, HandsAreKids
  <2>9. \A x \in Cancellers : canceller'[x].pc # "idle" => flag'
    BY <1>1 DEF Ends
  <2> QED BY <1>1, <2>5, <2>6, <2>7, <2>8, <2>9, EndsRest
<1> QED BY <1>1, <1>3, <1>4

\* Cancel stops every live child of the run; close_child marks one it wants ended.
LEMMA EndsCommanded ==
  ASSUME Board, Ends, Command, "archive_fails" \notin Env
  PROVE  Ends'
<1>0. TypeOK /\ Honest /\ Spawners /\ OneRun /\ Cards
  BY DEF Board
<1>1. ASSUME co' = co, active' = active, flag => flag',
             \A x \in Cancellers : canceller'[x].pc # "idle" => flag',
             \A k \in Kids : StaysMinded(k),
             Settling => Settling' \/ run'[active].status # "cancelling",
             \/ run' = run
             \/ /\ active \in Runs /\ OnlyRun(active)
                /\ \/ run'[active].status = "cancelled"
                   \/ run'[active].status = "cancelling" /\ Settling'
      PROVE  Ends'
  <2>1. \A k \in Kids : kid'[k].run = kid[k].run
    BY <1>1 DEF StaysMinded
  <2>2. ASSUME NEW q \in Coroutines
        PROVE  /\ Hands(q)' \subseteq Hands(q) /\ Hands(q) \subseteq Kids
               /\ Untouched(q)' \subseteq Untouched(q) /\ Untouched(q) \subseteq Kids
               /\ co'[q].pc # "expired"
    BY <1>1, <2>1, HandsKept, HandsAreKids DEF Ends
  <2>3. LoopOver' => LoopOver
    BY <1>1 DEF LoopOver
  <2>4. \A r \in Runs : RunEnds(r)'
    <3>1. \/ run' = run
          \/ /\ active \in Runs /\ OnlyRun(active) /\ run'[active].status # "none"
             /\ run'[active].status = "cancelling" => Settling'
             /\ run'[active].status \notin {"starting", "running", "synthesizing"}
      BY <1>1
    <3> QED BY <1>1, <3>1, RunEndsRest
  <2> QED BY <1>1, <2>2, <2>3, <2>4, EndsRest
<1>2. ASSUME co' = co, active' = active, kid' = kid, flag => flag', Settling => Settling'
      PROVE  \A k \in Kids : StaysMinded(k)
  <2>1. \A q : Hands(q)' = Hands(q) /\ Untouched(q)' = Untouched(q)
    BY <1>2, HandsKept
  <2> QED BY <1>2, <2>1 DEF StaysMinded, IsLive, Wanted, Ends
<1>3. CASE Cancel
  <2>1. /\ active \in Runs /\ flag' = TRUE /\ StatusIs(active, "cancelling") /\ Settling'
        /\ UNCHANGED <<active, kid, co>>
    BY <1>0, <1>3, CancelEffect DEF Settling, Cancellers
  <2>2. \A k \in Kids : StaysMinded(k)
    BY <1>2, <2>1
  <2> QED BY <1>1, <2>1, <2>2 DEF StatusIs
<1>4. ASSUME NEW x \in Cancellers, CancelLists(x) \/ CancelListed(x) \/ CancelTask(x)
      PROVE  Ends'
  <2>1. /\ UNCHANGED <<active, run, kid, flag, co>> /\ canceller[x].pc # "idle"
        /\ canceller'[x].pc # "idle" /\ \A y \in Cancellers \ {x} : canceller'[y] = canceller[y]
    BY <1>0, <1>4, CancelMoves
  <2>2. Settling' /\ \A y \in Cancellers : canceller'[y].pc # "idle" => flag'
    BY <2>1 DEF Settling, Ends
  <2>3. \A k \in Kids : StaysMinded(k)
    BY <1>2, <2>1, <2>2
  <2> QED BY <1>1, <2>1, <2>2, <2>3
<1>5. ASSUME NEW x \in Cancellers, CancelEnds(x)
      PROVE  Ends'
  <2>1. flag /\ active \in Runs /\ active # 0
    BY <1>0, <1>5 DEF CancelEnds, OneRun, Ends, Runs
  <2>2. /\ StatusIs(active, "cancelled")
        /\ UNCHANGED <<active, flag, co>>
        /\ \A j \in Kids : /\ Keeps(j)
                           /\ kid'[j].status = IF j \in KidsOf(active) /\ IsLive(j)
                                               THEN "cancelled" ELSE kid[j].status
    BY <1>0, <1>5, <2>1, CancelEndsEffect
  <2>3. \A k \in Kids : kid'[k].run = kid[k].run
    BY <2>2 DEF Keeps
  <2>4. \A q : Hands(q)' = Hands(q) /\ Untouched(q)' = Untouched(q)
    <3> SUFFICES ASSUME NEW q PROVE Hands(q)' = Hands(q) /\ Untouched(q)' = Untouched(q)
      OBVIOUS
    <3>1. co'[q] = co[q]
      BY <2>2
    <3> QED BY <2>2, <2>3, <3>1, HandsKept
  <2>5. \A k \in Kids : IsLive(k)' => IsLive(k) /\ k \notin KidsOf(active)
    BY <2>2 DEF IsLive, Terminal
  <2>6. ASSUME NEW k \in Kids, k \in UsedKids, IsLive(k)', ~kid'[k].cut
        PROVE  FALSE
    <3>1. IsLive(k) /\ k \notin KidsOf(active) /\ ~kid[k].cut
      BY <2>2, <2>5, <2>6 DEF Keeps
    <3>2. kid[k].run = active
      BY <2>6, <3>1 DEF Ends, Minded
    <3> QED BY <2>1, <3>1, <3>2 DEF KidsOf
  <2>7. ASSUME NEW k \in Kids PROVE StaysMinded(k)
    <3>1. /\ kid'[k].run = kid[k].run /\ kid'[k].sess = kid[k].sess
          /\ kid'[k].closeReq = kid[k].closeReq /\ kid'[k].cut = kid[k].cut
          /\ kid'[k].status = "cancelling" => kid[k].status = "cancelling"
      BY <2>2 DEF Keeps
    <3> QED BY <2>1, <2>2, <2>6, <3>1 DEF StaysMinded, Wanted, Ends
  <2>8. \A y \in Cancellers : canceller'[y].pc # "idle" => flag'
    BY <2>1, <2>2
  <2>9. run'[active].status = "cancelled"
    BY <2>2 DEF StatusIs
  <2> QED BY <1>1, <2>1, <2>2, <2>7, <2>8, <2>9 DEF StatusIs
<1>6. ASSUME NEW c \in Clicks, NEW k \in Kids, Close(c, k)
      PROVE  Ends'
  <2>1. Marks(c, k) /\ UNCHANGED <<active, run, flag, co, canceller>>
    BY <1>0, <1>6, MarksEffect
  <2>2. \A j \in Kids : /\ kid'[j].run = kid[j].run /\ kid'[j].sess = kid[j].sess
                        /\ kid'[j].cut = kid[j].cut
    BY <2>1 DEF Marks
  <2>6. Settling' <=> Settling
    BY <2>1 DEF Settling
  <2>3. \A q : Hands(q)' = Hands(q) /\ Untouched(q)' = Untouched(q)
    BY <2>1, <2>2, HandsKept
  <2>4. ASSUME NEW j \in Kids PROVE StaysMinded(j)
    <3>1. CASE j = k
      <4>1. kid'[k].closeReq /\ (IsLive(k)' => IsLive(k))
        BY <2>1 DEF Marks, IsLive
      <4> QED BY <2>2, <2>3, <2>6, <3>1, <4>1 DEF StaysMinded, Wanted
    <3>2. CASE j # k
      <4>1. kid'[j] = kid[j]
        BY <2>1, <3>2 DEF Marks
      <4> QED BY <2>1, <2>3, <2>6, <4>1 DEF StaysMinded, Wanted, IsLive, Ends
    <3> QED BY <3>1, <3>2
  <2> QED BY <1>1, <2>1, <2>4, <2>6 DEF Ends
<1>7. ASSUME NEW c \in Clicks, CloserStep(c)
      PROVE  Ends'
  <2>1. /\ closer[c].kid \in Kids /\ (Sends(c) \/ Hides(c))
        /\ UNCHANGED <<active, run, flag, co, canceller>>
    BY <1>0, <1>7, CloserEffect DEF Cards, CloserKnows
  <2>4. Settling' <=> Settling
    BY <2>1 DEF Settling
  <2>2. CASE Sends(c)
    BY <1>1, <1>2, <2>1, <2>2, <2>4 DEF Sends, Ends
  <2>3. CASE Hides(c)
    <3>1. PICK k \in Kids : k = closer[c].kid
      BY <2>1
    <3>2. /\ kid[k].sess # 0 /\ OnlyKid(k) /\ kid'[k].sess = kid[k].sess
          /\ kid'[k].status \in {kid[k].status, "cancelled"}
      BY <2>3, <3>1 DEF Hides
    <3>3. \A j \in Kids : kid'[j].run = kid[j].run
      BY <3>2 DEF OnlyKid
    <3>4. \A q : Hands(q)' = Hands(q) /\ Untouched(q)' = Untouched(q)
      BY <2>1, <3>3, HandsKept
    <3>5. \A q \in Coroutines : k \notin Untouched(q)
      BY <1>0, <3>2 DEF Spawners, Unspawned
    <3>6. ASSUME NEW j \in Kids PROVE StaysMinded(j)
      <4>1. CASE j = k
        <5>1. IsLive(k)' => IsLive(k)
          BY <3>2 DEF IsLive, Terminal
        <5> QED BY <2>4, <3>2, <3>4, <3>5, <4>1, <5>1 DEF StaysMinded, OnlyKid
      <4>2. CASE j # k
        <5>1. kid'[j] = kid[j]
          BY <3>2, <4>2 DEF OnlyKid
        <5> QED BY <2>1, <2>4, <3>4, <5>1 DEF StaysMinded, Wanted, IsLive, Ends
      <4> QED BY <4>1, <4>2
    <3> QED BY <1>1, <2>1, <2>4, <3>6 DEF Ends
  <2> QED BY <2>1, <2>2, <2>3
<1>8. ASSUME NEW s \in Sessions, TaskStarts(s) \/ TaskEnds(s)
      PROVE  Ends'
  <2>1. UNCHANGED <<active, run, flag, kid, co, canceller>>
    BY <1>8 DEF TaskStarts, TaskEnds
  <2>2. Settling' <=> Settling
    BY <2>1 DEF Settling
  <2> QED BY <1>1, <1>2, <2>1, <2>2 DEF Ends
<1> QED BY <1>3, <1>4, <1>5, <1>6, <1>7, <1>8 DEF Command, CancellerStep

\* An interrupt cuts the task of a plan off and calls a cancel that settles the
\* board, or leaves it to the owner's cancel; what it leaves to nobody is cut.
LEMMA EndsInterrupted ==
  ASSUME Board, Ends, Interrupts, "backpressure" \notin Env
  PROVE  Ends'
<1>0. TypeOK /\ Spawners /\ OneRun /\ Cards /\ "owner" \in Cancellers /\ "task" \in Cancellers
      /\ \A x \in Cancellers : x = "owner" \/ x = "task"
  BY DEF Board, Cancellers
<1>1. ASSUME NEW p \in Coroutines, Interrupted(p)
      PROVE  Ends'
  <2>1. /\ p = <<"execute", active>> /\ active \in Runs /\ Alive(p) /\ co'[p].pc = "done"
        /\ OnlyCo(p)
        /\ \A k \in Kids : SameCard(k) /\ kid'[k].status = kid[k].status
                           /\ kid'[k].closeReq = kid[k].closeReq
                           /\ kid'[k].cut = (k \in Abandoned(p) \/ kid[k].cut)
        /\ canceller'["owner"] = canceller["owner"]
        /\ \/ /\ run[active].status \in {"starting", "running", "synthesizing"}
              /\ flag' = TRUE /\ canceller'["task"].pc = "emitting"
              /\ StatusIs(active, "cancelling")
           \/ ~Cancellable /\ UNCHANGED <<run, flag, canceller>>
        /\ active' = active
    BY <1>0, <1>1, InterruptFields
  <2>2. /\ \A q \in Coroutines : q # p => co'[q] = co[q]
        /\ \A k \in Kids : kid'[k].run = kid[k].run /\ kid'[k].sess = kid[k].sess
                           /\ kid'[k].status = kid[k].status /\ kid'[k].closeReq = kid[k].closeReq
                           /\ (kid[k].cut => kid'[k].cut)
                           /\ (k \in Abandoned(p) => kid'[k].cut)
    BY <2>1 DEF OnlyCo, SameCard
  <2>3. p[2] = active /\ active # 0 /\ LoopOver'
    BY <2>1 DEF LoopOver, Runs
  <2>4. /\ Hands(p)' = {} /\ Untouched(p)' = {}
        /\ \A q \in Coroutines : q # p => Hands(q)' = Hands(q) /\ Untouched(q)' = Untouched(q)
    <3>1. Hands(p)' = {} /\ Untouched(p)' = {}
      BY <2>1 DEF Hands, Untouched, Todo, Held, SpawnPCs
    <3>2. \A q \in Coroutines : q # p => Hands(q)' = Hands(q) /\ Untouched(q)' = Untouched(q)
      BY <2>1, <2>2, HandsKept
    <3> QED BY <3>1, <3>2
  <2>5. (flag => flag') /\ \A x \in Cancellers : canceller'[x].pc # "idle" => flag'
    BY <1>0, <2>1 DEF Ends
  <2>6. Settling => Settling'
    <3>1. canceller["task"].pc = "idle"
      BY <1>0, <2>1 DEF OneRun
    <3> QED BY <1>0, <2>1, <3>1 DEF Settling
  <2>7. ASSUME NEW k \in KidsOf(active), IsLive(k), ~kid'[k].cut
        PROVE  Settling'
    <3>1. k \in Kids /\ k \notin Abandoned(p)
      BY <2>2, <2>7 DEF KidsOf
    <3>2. CASE Cancellable
      BY <1>0, <2>1, <3>2 DEF Settling
    <3>3. CASE canceller["owner"].pc # "idle"
      BY <1>0, <2>1, <3>3 DEF Settling
    <3> QED BY <2>3, <2>7, <3>1, <3>2, <3>3 DEF Abandoned
  <2>8. ASSUME NEW k \in Kids PROVE Minded(k)'
    <3> SUFFICES ASSUME k \in UsedKids', IsLive(k)', ~kid'[k].cut
                 PROVE  kid'[k].run = active /\ Settling'
      BY <2>1 DEF Minded
    <3>1. k \in UsedKids /\ IsLive(k) /\ ~kid[k].cut
      BY <2>2 DEF UsedKids, IsLive
    <3>2. kid[k].run = active
      BY <3>1 DEF Ends, Minded
    <3>3. k \in KidsOf(active)
      BY <2>3, <3>2 DEF KidsOf
    <3> QED BY <2>2, <2>7, <3>1, <3>2, <3>3
  <2>9. ASSUME NEW q \in Coroutines
        PROVE  /\ co'[q].pc # "expired"
               /\ \A k \in Untouched(q)' : Wanted(k)'
               /\ \A k \in Hands(q)' : Refused(k)' \/ kid'[k].cut
    <3>1. CASE q = p
      BY <2>1, <2>4, <3>1
    <3>2. CASE q # p
      <4>1. /\ co'[q] = co[q] /\ Hands(q)' = Hands(q) /\ Untouched(q)' = Untouched(q)
            /\ Hands(q) \subseteq Kids /\ Hands(q) \subseteq KidsOf(active)
            /\ Untouched(q) \subseteq Hands(q)
        BY <2>2, <2>4, <3>2, HandsAreKids
      <4>2. ASSUME NEW k \in Untouched(q)'
            PROVE  Wanted(k)'
        <5>1. Wanted(k) /\ k \in Kids
          BY <4>1, <4>2 DEF Ends
        <5> QED BY <2>2, <2>5, <5>1 DEF Wanted
      <4>3. ASSUME NEW k \in Hands(q)'
            PROVE  Refused(k)' \/ kid'[k].cut
        <5>1. k \in Kids /\ k \in Hands(q) /\ k \in KidsOf(active)
          BY <4>1, <4>3
        <5>2. CASE k \in Untouched(q)
          <6>1. Wanted(k)
            BY <5>2 DEF Ends
          <6>2. CASE flag \/ kid[k].closeReq
            BY <2>2, <2>5, <5>1, <6>2 DEF Refused
          <6>3. CASE kid[k].status \in {"queued", "starting"}
            <7>1. IsLive(k)
              BY <6>3 DEF IsLive, Terminal
            <7>2. CASE kid'[k].cut
              BY <7>2
            <7>3. CASE ~kid'[k].cut
              <8>1. Settling'
                BY <2>7, <5>1, <7>1, <7>3
              <8> QED BY <2>5, <8>1 DEF Settling, Refused
            <7> QED BY <7>2, <7>3
          <6> QED BY <6>1, <6>2, <6>3 DEF Wanted
        <5>3. CASE k \notin Untouched(q)
          <6>1. co[q].pc = "archiving" /\ co[q].kid = k
            BY <5>1, <5>3 DEF Hands, Untouched, Held
          <6>2. Refused(k)
            BY <1>0, <6>1 DEF Cards, ArchiveKnows
          <6> QED BY <2>2, <2>5, <5>1, <6>2 DEF Refused
        <5> QED BY <5>2, <5>3
      <4>4. co'[q].pc # "expired"
        BY <4>1 DEF Ends
      <4> QED BY <4>2, <4>3, <4>4
    <3> QED BY <3>1, <3>2
  <2>10. ASSUME NEW r \in Runs PROVE RunEnds(r)'
    <3>1. RunEnds(r)
      BY DEF Ends
    <3>2. CASE r # active
      <4>1. <<"execute", r>> \in Coroutines /\ <<"execute", r>> # p
        BY <2>1, <3>2 DEF Coroutines
      <4>2. co'[<<"execute", r>>] = co[<<"execute", r>>] /\ run'[r] = run[r]
        BY <2>1, <2>2, <3>2, <4>1 DEF StatusIs, OnlyRun
      <4> QED BY <2>1, <3>1, <3>2, <4>2 DEF RunEnds
    <3>3. CASE r = active /\ StatusIs(active, "cancelling") /\ canceller'["task"].pc = "emitting"
      BY <1>0, <2>1, <3>3 DEF StatusIs, RunEnds, Settling
    <3>4. CASE r = active /\ ~Cancellable /\ run' = run
      <4>1. run[active].status \notin {"starting", "running", "synthesizing"}
        BY <2>3, <3>4 DEF Cancellable
      <4>2. co[p].pc # "off"
        BY <2>1 DEF Alive
      <4> QED BY <2>1, <2>6, <3>1, <3>4, <4>1, <4>2 DEF RunEnds
    <3> QED BY <2>1, <3>2, <3>3, <3>4
  <2>11. \A k \in Kids : kid'[k].status = "cancelling" /\ kid'[k].sess = 0 => kid'[k].closeReq
    BY <2>2 DEF Ends
  <2> QED BY <2>5, <2>8, <2>9, <2>10, <2>11 DEF Ends
<1>2. CASE InterruptedAgain
  <2>1. /\ active \in Runs
        /\ canceller["task"].pc \in {"listing", "stopping"} /\ canceller'["task"].pc = "idle"
        /\ canceller'["owner"] = canceller["owner"]
        /\ StatusIs(active, "cancelled")
        /\ \A k \in Kids :
             /\ SameCard(k) /\ kid'[k].closeReq = kid[k].closeReq
             /\ kid'[k].status = IF k \in KidsOf(active) /\ IsLive(k)
                                 THEN "cancelled" ELSE kid[k].status
             /\ kid'[k].cut = ((k \in KidsOf(active) /\ IsLive(k)) \/ kid[k].cut)
        /\ UNCHANGED <<active, flag, co>>
    BY <1>0, <1>2, AgainFields
  <2>2. /\ \A k \in Kids : kid'[k].run = kid[k].run /\ kid'[k].sess = kid[k].sess
                           /\ (kid[k].cut => kid'[k].cut)
        /\ flag /\ active # 0
    <3>1. flag
      BY <1>0, <2>1 DEF Ends
    <3>2. active # 0
      BY <2>1 DEF Runs
    <3> QED BY <2>1, <3>1, <3>2 DEF SameCard
  <2>3. \A q \in Coroutines : Hands(q)' = Hands(q) /\ Untouched(q)' = Untouched(q)
    BY <2>1, <2>2, HandsKept
  <2>4. ASSUME NEW k \in Kids, k \in UsedKids, IsLive(k)', ~kid'[k].cut
        PROVE  FALSE
    <3>1. IsLive(k) /\ k \notin KidsOf(active) /\ ~kid[k].cut
      BY <2>1, <2>4 DEF IsLive, Terminal
    <3>2. kid[k].run = active
      BY <2>4, <3>1 DEF Ends, Minded
    <3> QED BY <2>2, <3>1, <3>2 DEF KidsOf
  <2>5. ASSUME NEW k \in Kids PROVE StaysMinded(k)
    <3>1. /\ kid'[k].run = kid[k].run /\ kid'[k].sess = kid[k].sess
          /\ kid'[k].closeReq = kid[k].closeReq /\ (kid[k].cut => kid'[k].cut)
          /\ kid'[k].status = "cancelling" => kid[k].status = "cancelling"
      BY <2>1, <2>2
    <3> QED BY <2>1, <2>2, <2>4, <3>1 DEF StaysMinded, Wanted, Ends
  <2>6. \A x \in Cancellers : canceller'[x].pc # "idle" => flag'
    BY <2>1, <2>2
  <2>7. \A r \in Runs : RunEnds(r)'
    <3>1. /\ run'[active].status = "cancelled" /\ OnlyRun(active)
          /\ \A q \in Coroutines : co'[q] = co[q]
      BY <2>1 DEF StatusIs
    <3> QED BY <2>1, <3>1, RunEndsRest
  <2>8. \A q \in Coroutines : /\ Hands(q)' \subseteq Hands(q) /\ Hands(q) \subseteq Kids
                              /\ Untouched(q)' \subseteq Untouched(q) /\ Untouched(q) \subseteq Kids
                              /\ co'[q].pc # "expired"
    BY <2>1, <2>3, HandsAreKids DEF Ends
  <2>9. LoopOver' => LoopOver
    BY <2>1 DEF LoopOver
  <2> QED BY <2>1, <2>2, <2>5, <2>6, <2>7, <2>8, <2>9, EndsRest
<1> QED BY <1>1, <1>2 DEF Interrupts

\* A run starts when no child of the last one is live or in hand.
LEMMA EndsExecuted ==
  ASSUME Board, Ends, NEW n, NEW plan \in BOOLEAN, Execute(n, plan), "overlap" \notin Env
  PROVE  Ends'
<1>0. TypeOK /\ OneRun /\ Spawners /\ active \in Nat
  BY DEF Board, TypeOK
<1> DEFINE p == <<"execute", active + 1>>
           S == NewKids(n)
<1>1. /\ Quiet /\ active' = active + 1 /\ active' \in Runs /\ flag' = FALSE /\ Starts(p, S, active')
      /\ run'[active'].status = "starting" /\ OnlyRun(active')
  BY <1>0, ExecuteEffect
<1>2. p = <<"execute", active'>> /\ p[1] = "execute"
  BY <1>1
<1> HIDE DEF p, S
<1>3. /\ p \in Coroutines /\ co'[p].pc = "created" /\ canceller' = canceller
      /\ \A q \in Coroutines : q # p => co'[q] = co[q]
      /\ \A j \in S : kid'[j].run = active' /\ kid'[j].status = "queued" /\ kid'[j].sess = 0
      /\ \A j \in Kids \ S : kid'[j] = kid[j]
  BY <1>1 DEF Starts, OnlyCo
<1>4. \A q \in Coroutines : co[q].pc \in {"off", "done"} /\ Hands(q) = {}
  BY <1>1 DEF Quiet, Hands, Todo, Held, SpawnPCs
<1>5. \A q \in Coroutines : Hands(q)' \subseteq S
  BY <1>0, <1>1, <1>2, <1>4, HandsStarted
<1>14. ~Settling /\ ~Settling'
  BY <1>1, <1>3 DEF Quiet, Settling
<1>6. \A j \in UsedKids : IsLive(j) => kid[j].cut
  <2> SUFFICES ASSUME NEW j \in UsedKids, IsLive(j), ~kid[j].cut PROVE FALSE
    OBVIOUS
  <2>1. kid[j].run = active /\ active # 0
    BY DEF Ends, Minded, UsedKids
  <2>2. active \in Runs
    BY <1>0, <2>1, MultiAgentAssumption DEF TypeOK, Runs
  <2>3. <<"execute", active>> \in Coroutines /\ co[<<"execute", active>>].pc # "off"
    BY <1>0, <2>2 DEF Coroutines, OneRun
  <2>4. LoopOver
    BY <1>4, <2>3 DEF LoopOver
  <2>5. \E q \in Coroutines : j \in Hands(q)
    BY <1>14, <2>4 DEF Ends, Minded, UsedKids
  <2> QED BY <1>4, <2>5
<1>7. \A r \in Runs : RunEnds(r)'
  <2> SUFFICES ASSUME NEW r \in Runs PROVE RunEnds(r)'
    OBVIOUS
  <2>1. CASE r = active'
    <3>1. co'[<<"execute", r>>].pc = "created" /\ run'[r].status = "starting"
      BY <1>1, <1>2, <1>3, <2>1
    <3> QED BY <3>1 DEF RunEnds
  <2>2. CASE r # active'
    <3>1. <<"execute", r>> \in Coroutines /\ <<"execute", r>> # p
      BY <1>2, <2>2 DEF Coroutines
    <3>2. co'[<<"execute", r>>] = co[<<"execute", r>>] /\ run'[r] = run[r]
      BY <1>1, <1>3, <2>2, <3>1 DEF OnlyRun
    <3>3. RunEnds(r)
      BY DEF Ends
    <3> QED BY <1>14, <3>2, <3>3 DEF RunEnds
  <2> QED BY <2>1, <2>2
<1>8. ASSUME NEW j \in Kids, j \in UsedKids', IsLive(j)', ~kid'[j].cut
      PROVE  kid'[j].run = active' /\ kid'[j].sess = 0 /\ \E q \in Coroutines : j \in Hands(q)'
  <2>1. j \in S
    BY <1>3, <1>6, <1>8 DEF UsedKids, IsLive
  <2>2. kid'[j].run = active' /\ kid'[j].sess = 0
    BY <1>3, <2>1
  <2>3. j \in KidsOf(active)'
    BY <1>1, <2>2, <1>0 DEF KidsOf
  <2>4. PICK e \in Coroutines : e = p
    BY <1>3
  <2>5. Todo(e)' = KidsOf(active)'
    BY <1>2, <1>3, <2>4 DEF Todo
  <2> QED BY <2>2, <2>3, <2>5 DEF Hands
<1>9. \A j \in Kids : kid'[j].status = "cancelling" /\ kid'[j].sess = 0 => kid'[j].closeReq
  BY <1>3 DEF Ends
<1>10. \A q \in Coroutines : co'[q].pc # "expired"
  BY <1>3, <1>4
<1>11. ASSUME NEW q \in Coroutines, NEW j \in Untouched(q)'
       PROVE  Wanted(j)'
  <2>1. j \in S
    BY <1>5, <1>11 DEF Untouched, Hands
  <2> QED BY <1>3, <2>1 DEF Wanted
<1>12. ~LoopOver'
  <2>1. co'[<<"execute", active'>>].pc = "created" /\ active' # 0
    BY <1>0, <1>1, <1>2, <1>3
  <2> QED BY <2>1 DEF LoopOver
<1>13. \A x \in Cancellers : canceller'[x].pc = "idle"
  BY <1>1, <1>3 DEF Quiet
<1> QED BY <1>7, <1>8, <1>9, <1>10, <1>11, <1>12, <1>13 DEF Ends, Minded

\* A child is appended while the loop of execute still goes round.
LEMMA EndsAppended ==
  ASSUME Smooth, Patient, Board, Ends, AddChild
  PROVE  Ends'
<1>0. TypeOK /\ OneRun /\ Spawners /\ active \in Nat /\ "overlap" \notin Env
      /\ "backpressure" \notin Env /\ "late_add" \notin Env
  BY DEF Board, TypeOK, Smooth, Patient
<1>1. PICK k \in Kids :
        LET p == <<"add", k>>
        IN  /\ IdleTurn /\ active \in Runs /\ run[active].status \in {"starting", "running"}
            /\ "late_add" \in Env \/ co[<<"execute", active>>].pc # "reporting"
            /\ UNCHANGED <<active, run, flag>>
            /\ Starts(p, {k}, active) /\ co'[p].todo = {k}
  BY <1>0, AddEffect
<1> DEFINE p == <<"add", k>>
           e == <<"execute", active>>
<1>2. /\ IdleTurn /\ active \in Runs /\ run[active].status \in {"starting", "running"}
      /\ co[e].pc # "reporting" /\ UNCHANGED <<active, run, flag>>
      /\ Starts(p, {k}, active) /\ co'[p].todo = {k} /\ p[1] = "add" /\ p[2] = k
  BY <1>0, <1>1
<1>3. e \in Coroutines /\ e # p /\ e[1] = "execute"
  BY <1>2 DEF Coroutines
<1>4. /\ p \in Coroutines /\ co'[p].pc = "created" /\ canceller' = canceller
      /\ \A q \in Coroutines : q # p => co'[q] = co[q]
      /\ k \notin UsedKids /\ kid'[k].run = active /\ kid'[k].status = "queued" /\ kid'[k].sess = 0
      /\ \A j \in Kids \ {k} : kid'[j] = kid[j]
  BY <1>2 DEF Starts, OnlyCo
<1>5. ~LoopOver /\ ~LoopOver'
  <2>1. co[e].pc # "returning"
    BY <1>0, <1>2, <1>3 DEF IdleTurn, Turn, Busy, Emitting
  <2>2. co[e].pc # "synthesis"
    BY <1>2 DEF Ends, RunEnds
  <2>3. co[e].pc # "done"
    BY <1>2 DEF Ends, RunEnds
  <2>4. co'[e] = co[e] /\ active # 0 /\ active' = active
    BY <1>2, <1>3, <1>4 DEF Runs
  <2> QED BY <1>2, <2>1, <2>2, <2>3, <2>4 DEF LoopOver
<1>6. Hands(p) = {}
  <2> SUFFICES ASSUME Hands(p) # {} PROVE FALSE
    OBVIOUS
  <2>1. Alive(p)
    BY DEF Hands, Todo, Held, Alive, SpawnPCs
  <2>2. k \in KidsOf(active)
    BY <2>1, <1>0 DEF OneRun
  <2> QED BY <1>4, <2>2 DEF KidsOf, UsedKids
<1>7. Hands(p)' = {k} /\ Untouched(p)' = {k}
  BY <1>2, <1>4 DEF Hands, Untouched, Todo, Held, SpawnPCs
<1> HIDE DEF p, e
<1>8. KidsOf(active) \subseteq KidsOf(active)' /\ KidsOf(active)' \subseteq KidsOf(active) \union {k}
  BY <1>2, <1>4 DEF KidsOf, UsedKids
<1>9. ASSUME NEW q \in Coroutines
      PROVE  Hands(q) \subseteq Hands(q)' /\ Untouched(q)' \subseteq Untouched(q) \union {k}
  <2>1. CASE q = p
    BY <1>6, <1>7, <2>1
  <2>2. CASE q # p
    <3>1. co'[q] = co[q]
      BY <1>4, <2>2
    <3> QED BY <1>8, <3>1 DEF Hands, Untouched, Todo, Held
  <2> QED BY <2>1, <2>2
<1>16. Settling' <=> Settling
  BY <1>4 DEF Settling
<1>10. ASSUME NEW j \in Kids PROVE Minded(j)'
  <2> SUFFICES ASSUME j \in UsedKids', IsLive(j)', ~kid'[j].cut
               PROVE  /\ kid'[j].run = active
                      /\ kid'[j].sess = 0 => Settling' \/ \E q \in Coroutines : j \in Hands(q)'
    BY <1>2, <1>5 DEF Minded
  <2>1. CASE j = k
    BY <1>4, <1>7, <2>1
  <2>2. CASE j # k
    <3>1. kid'[j] = kid[j] /\ j \in UsedKids /\ IsLive(j) /\ ~kid[j].cut
      BY <1>4, <2>2 DEF UsedKids, IsLive
    <3>2. /\ kid[j].run = active
          /\ kid[j].sess = 0 => Settling \/ \E q \in Coroutines : j \in Hands(q)
      BY <3>1 DEF Ends, Minded
    <3> QED BY <1>9, <1>16, <3>1, <3>2
  <2> QED BY <2>1, <2>2
<1>11. \A j \in Kids : kid'[j].status = "cancelling" /\ kid'[j].sess = 0 => kid'[j].closeReq
  BY <1>4 DEF Ends
<1>12. ASSUME NEW q \in Coroutines, NEW j \in Untouched(q)'
       PROVE  Wanted(j)'
  <2>1. CASE j = k
    BY <1>4, <2>1 DEF Wanted
  <2>2. CASE j # k
    <3>1. j \in Untouched(q) /\ j \in Kids
      BY <1>9, <1>12, <2>2, HandsAreKids
    <3>2. Wanted(j) /\ kid'[j] = kid[j]
      BY <1>4, <2>2, <3>1 DEF Ends
    <3> QED BY <1>2, <3>2 DEF Wanted
  <2> QED BY <2>1, <2>2
<1>13. \A q \in Coroutines : co'[q].pc # "expired"
  BY <1>4 DEF Ends
<1>14. \A r \in Runs : RunEnds(r)'
  <2> SUFFICES ASSUME NEW r \in Runs PROVE RunEnds(r)'
    OBVIOUS
  <2>1. <<"execute", r>> \in Coroutines /\ <<"execute", r>> # p
    BY DEF Coroutines, p
  <2> QED BY <1>2, <1>4, <1>16, <2>1 DEF Ends, RunEnds
<1>15. \A x \in Cancellers : canceller'[x].pc # "idle" => flag'
  BY <1>2, <1>4 DEF Ends
<1> QED BY <1>5, <1>10, <1>11, <1>12, <1>13, <1>14, <1>15 DEF Ends

LEMMA EndsInit == Init => Ends
<1> SUFFICES ASSUME Init PROVE Ends
  OBVIOUS
<1>1. \A p \in Coroutines : co[p].pc = "off"
  BY DEF Init, Off
<1>2. \A k \in Kids : kid[k].run = 0 /\ kid[k].status = "queued"
  BY DEF Init, NoKid
<1>3. \A p \in Coroutines : Hands(p) = {} /\ Untouched(p) = {}
  BY <1>1 DEF Hands, Untouched, Todo, Held, SpawnPCs
<1>4. \A r \in Runs : RunEnds(r)
  <2>1. \A r \in Runs : run[r].status = "none" /\ <<"execute", r>> \in Coroutines
    BY DEF Init, Coroutines
  <2> QED BY <1>1, <2>1 DEF RunEnds
<1>5. \A x \in Cancellers : canceller[x].pc = "idle"
  BY DEF Init, IdleCanceller
<1> QED BY <1>1, <1>2, <1>3, <1>4, <1>5 DEF Ends, Minded, UsedKids

LEMMA EndsStep ==
  ASSUME Smooth, Patient, Board, Ends, [Next]_vars
  PROVE  Ends'
<1>0. "archive_fails" \notin Env /\ "overlap" \notin Env /\ "backpressure" \notin Env
  BY DEF Smooth
<1>1. CASE UNCHANGED vars
  <2>1. UNCHANGED <<active, run, kid, flag, co, canceller>>
    BY <1>1 DEF vars
  <2>2. \A q : Hands(q)' = Hands(q) /\ Untouched(q)' = Untouched(q)
    BY <2>1, HandsKept
  <2>8. Settling' <=> Settling
    BY <2>1 DEF Settling
  <2>3. \A k \in Kids : StaysMinded(k)
    BY <2>1, <2>2, <2>8 DEF StaysMinded, IsLive, Wanted, Ends
  <2>4. LoopOver' => LoopOver
    BY <2>1 DEF LoopOver
  <2>5. \A r \in Runs : RunEnds(r)'
    BY <2>1, <2>8, RunEndsRest
  <2>6. \A q \in Coroutines : /\ Hands(q)' \subseteq Hands(q) /\ Hands(q) \subseteq Kids
                              /\ Untouched(q)' \subseteq Untouched(q) /\ Untouched(q) \subseteq Kids
                              /\ co'[q].pc # "expired"
    BY <2>1, <2>2, HandsAreKids DEF Ends
  <2>7. \A x \in Cancellers : canceller'[x].pc # "idle" => flag'
    BY <2>1 DEF Ends
  <2> QED BY <2>1, <2>3, <2>4, <2>5, <2>6, <2>7, EndsRest
<1>2. ASSUME NEW p \in Coroutines, Step(p) \/ Resume(p)
      PROVE  Ends'
  BY <1>0, <1>2, EndsTaken, EndsAnswered, EndsResumed
<1>3. CASE Command
  BY <1>0, <1>3, EndsCommanded
<1>4. CASE PlanRun \/ ManualRun
  BY <1>0, <1>4, EndsExecuted DEF PlanRun, ManualRun
<1>5. CASE AddChild
  BY <1>5, EndsAppended
<1>6. CASE Interrupts
  BY <1>0, <1>6, EndsInterrupted
<1> QED
  <2>1. \/ PlanRun \/ ManualRun \/ AddChild
        \/ Command \/ Interrupts
        \/ \E p \in Coroutines : Step(p) \/ Resume(p)
        \/ UNCHANGED vars
    BY DEF Next, Command, Interrupts
  <2> QED BY <1>1, <1>2, <1>3, <1>4, <1>5, <1>6, <2>1

\* When, besides what Smooth says, polls do not fail, their limit does not
\* expire and no child is appended while results are reported, a quiet board
\* is settled: every run that started is over, and every one of its children,
\* whichever were appended, closed, cancelled, refused or lost meanwhile, except
\* a child that an interrupt cut off what was to settle it.
THEOREM BoardSettles ==
  ASSUME Smooth, Patient
  PROVE  Spec => []QuietIsSettled
<1> DEFINE Inv == Board /\ Reports /\ Ends
<1>1. Init => Inv
  BY BoardInit, ReportsInit, EndsInit
<1>2. Inv /\ [Next]_vars => Inv'
  BY BoardStep, ReportsStep, EndsStep
<1>3. Inv => QuietIsSettled
  <2> SUFFICES ASSUME Board, Reports, Ends, Quiet, NEW r \in Runs, run[r].status # "none"
               PROVE  Over(r) /\ \A k \in KidsOf(r) : IsLive(k) => kid[k].cut
    BY DEF QuietIsSettled
  <2>1. <<"execute", r>> \in Coroutines /\ active \in Nat /\ r \in Nat /\ r <= active
    BY DEF Coroutines, Board, TypeOK, Runs, Reports
  <2>2. co[<<"execute", r>>].pc = "done"
    BY <2>1 DEF Board, OneRun, Quiet
  <2>3. ~Settling
    BY DEF Quiet, Settling
  <2>4. Over(r)
    BY <2>2, <2>3 DEF Ends, RunEnds, Over, Ongoing
  <2>5. ASSUME NEW k \in KidsOf(r), IsLive(k), ~kid[k].cut
        PROVE  FALSE
    <3>1. k \in Kids /\ k \in UsedKids /\ kid[k].run = r
      BY <2>5 DEF KidsOf, UsedKids
    <3>2. r = active
      BY <2>5, <3>1 DEF Ends, Minded
    <3>3. LoopOver
      BY <2>2, <3>2 DEF LoopOver
    <3>4. PICK p \in Coroutines : k \in Hands(p)
      BY <2>3, <2>5, <3>1, <3>3 DEF Ends, Minded
    <3> QED BY <3>4 DEF Quiet, Hands, Todo, Held, SpawnPCs
  <2> QED BY <2>4, <2>5
<1> HIDE DEF Inv
<1> QED BY <1>1, <1>2, <1>3, PTL DEF Spec
=============================================================================
