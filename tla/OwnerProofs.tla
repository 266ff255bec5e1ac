---------------------------- MODULE OwnerProofs ----------------------------
(***************************************************************************)
(* What needs the owner's word.                                            *)
(*                                                                         *)
(* First the theorems of Approvals, for every set of approvals, any number *)
(* of responses and every environment: only the owner allows what a tool   *)
(* asks for, and no card is left that would answer nothing.  Then those of *)
(* Memory, for every set of values, any number of threads, imports and     *)
(* stops of the process: what is kept of the owner was confirmed or heard. *)
(***************************************************************************)
EXTENDS Approvals, Memory, SequenceTheorems, FiniteSetTheorems, TLAPS

Decisions == {"allow", "deny"}
Requests == [type : {"request", "closed"}, id : Asked]
Closed(a) == [type |-> "closed", id |-> a]
States == [pc : {"off", "starting", "listening", "asking", "resolving", "over"},
           id : Asked \cup {Nobody}, decision : {"none"} \cup Decisions]
Waiters == [by : Forwarders \cup {Nobody}, res : {"none"} \cup Decisions, age : Nat]

\* The state is well typed.
TypeOK ==
  /\ stream \in {"off", "arming", "open", "late"} /\ streams \in 0..MaxStreams /\ silent \in Nat
  /\ gate \in [Asked -> [st : {"none", "pending", "expired"} \cup Decisions, age : Nat]]
  /\ events \in [Forwarders -> Seq(Asked)]
  /\ fwd \in [Forwarders -> States] /\ leaked \subseteq 1..streams
  /\ pending \in [Asked -> Waiters]
  /\ toPage \in Seq(Requests)
  /\ toServer \in Seq([id : Asked, decision : Decisions])
  /\ cards \subseteq Asked
  /\ clicked \subseteq Asked \X Decisions

\* The forwarding tasks and the table of waiters agree: a task asks about one
\* approval and an approval is asked about by one task; the tasks alive are the
\* response's own and those interrupted while arming.
OneWaiter ==
  /\ stream \in {"arming", "open"} => streams # 0
  /\ \A f \in Forwarders :
       /\ fwd[f].pc # "off" => f \in leaked \/ (stream \in {"arming", "open"} /\ f = streams)
       /\ fwd[f].pc = "asking" => fwd[f].id \in Asked /\ pending[fwd[f].id].by = f
       /\ fwd[f].pc = "resolving" <=> fwd[f].decision # "none"
       /\ fwd[f].pc = "resolving" => fwd[f].id \in Asked
  /\ \A a \in Asked : pending[a].by # Nobody => fwd[pending[a].by].pc = "asking" /\ fwd[pending[a].by].id = a

\* Wherever a decision is on its way to the gateway, the owner has made it.
Grounded ==
  /\ \A i \in DOMAIN toServer : <<toServer[i].id, toServer[i].decision>> \in clicked
  /\ \A a \in Asked : pending[a].res # "none" => <<a, pending[a].res>> \in clicked
  /\ \A f \in Forwarders : fwd[f].decision = "allow" => <<fwd[f].id, "allow">> \in clicked
  /\ OwnerDecides

\* A card, shown or still on its way to the page, has a waiter or its dismissal
\* is on its way behind it.
DismissedIn(q, a, n) == \E j \in DOMAIN q : j > n /\ q[j] = Closed(a)
Waited(a) == pending[a].by # Nobody
CardsDismissed ==
  /\ \A a \in cards : Waited(a) \/ DismissedIn(toPage, a, 0)
  /\ \A i \in DOMAIN toPage : toPage[i].type = "request" =>
       Waited(toPage[i].id) \/ DismissedIn(toPage, toPage[i].id, i)

IInv == TypeOK /\ OneWaiter /\ Grounded /\ CardsDismissed

-----------------------------------------------------------------------------
\* Appending to a sequence and taking its tail, index by index.
LEMMA AppendFacts ==
  ASSUME NEW S, NEW q \in Seq(S), NEW e \in S
  PROVE  /\ Append(q, e) \in Seq(S)
         /\ DOMAIN Append(q, e) = 1 .. Len(q) + 1
         /\ \A i \in DOMAIN q : i \in DOMAIN Append(q, e) /\ Append(q, e)[i] = q[i]
         /\ Append(q, e)[Len(q) + 1] = e
         /\ \A i \in DOMAIN q : i < Len(q) + 1
         /\ \A i \in DOMAIN Append(q, e) : i \in DOMAIN q \/ i = Len(q) + 1
  OBVIOUS

LEMMA TailFacts ==
  ASSUME NEW S, NEW q \in Seq(S), q # <<>>
  PROVE  /\ Tail(q) \in Seq(S)
         /\ Head(q) \in S
         /\ Head(q) = q[1] /\ 1 \in DOMAIN q
         /\ \A i \in DOMAIN Tail(q) : i + 1 \in DOMAIN q /\ Tail(q)[i] = q[i + 1]
         /\ \A i \in DOMAIN q : i > 1 => i - 1 \in DOMAIN Tail(q) /\ Tail(q)[i - 1] = q[i]
<1>1. /\ Head(q) = q[1] /\ Len(q) \in Nat \ {0} /\ DOMAIN q = 1 .. Len(q)
  BY EmptySeq, LenProperties
<1>2. /\ Tail(q) \in Seq(S) /\ Head(q) \in S
      /\ Len(Tail(q)) = Len(q) - 1
      /\ \A i \in 1 .. Len(Tail(q)) : Tail(q)[i] = q[i + 1]
  BY HeadTailProperties
<1>3. DOMAIN Tail(q) = 1 .. Len(Tail(q))
  BY <1>2, LenProperties
<1> QED
  BY <1>1, <1>2, <1>3

-----------------------------------------------------------------------------
\* The page is told of a waiter that leaves; the requests stay well typed.
LEMMA WithdrawTyped ==
  ASSUME TypeOK, NEW a \in Asked, Withdraw(a)
  PROVE  pending' \in [Asked -> Waiters] /\ toPage' \in Seq(Requests)
<1>1. Closed(a) \in Requests /\ toPage \in Seq(Requests)
  BY DEF TypeOK, Requests, Closed
<1>2. toPage' = Append(toPage, Closed(a)) /\ pending' = [pending EXCEPT ![a] = NoWaiter]
  BY DEF Withdraw, Closed
<1>3. NoWaiter \in Waiters
  BY DEF NoWaiter, Waiters
<1> QED
  BY <1>1, <1>2, <1>3, AppendFacts DEF TypeOK

\* A task that is interrupted, answered or refused is idle again.
LEMMA IdleTyped ==
  /\ Idle \in States
  /\ \A pc \in {"starting", "listening", "over"} : [Idle EXCEPT !.pc = pc] \in States
  BY DEF Idle, States, Decisions

\* Every action keeps the state well typed.
LEMMA TypeStep == TypeOK /\ OneWaiter /\ [Next]_vars => TypeOK'
<1> SUFFICES ASSUME TypeOK, OneWaiter, [Next]_vars PROVE TypeOK'
  OBVIOUS
<1> USE ApprovalsAssumption DEF Decisions
<1>1. CASE Opens
  <2>1. streams + 1 \in Forwarders /\ streams' \in 0..MaxStreams /\ leaked' \subseteq 1..streams'
    BY <1>1 DEF Opens, TypeOK, Forwarders
  <2>2. fwd' \in [Forwarders -> States]
    BY <1>1, <2>1, IdleTyped DEF Opens, TypeOK
  <2> QED
    BY <1>1, <2>1, <2>2 DEF Opens, TypeOK
<1>2. ASSUME NEW f \in Forwarders, Subscribes(f) PROVE TypeOK'
  <2>1. \A pc \in {"listening", "over"} : [fwd[f] EXCEPT !.pc = pc] \in States
    BY DEF TypeOK, States
  <2>2. fwd' \in [Forwarders -> States]
    BY <1>2, <2>1 DEF Subscribes, TypeOK
  <2> QED
    BY <1>2, <2>2 DEF Subscribes, TypeOK
<1>3. CASE Posts
  BY <1>3 DEF Posts, TypeOK
<1>4. CASE Speaks
  BY <1>4 DEF Speaks, TypeOK
<1>5. ASSUME NEW f \in Forwarders, Presents(f) PROVE TypeOK'
  <2> DEFINE a == Head(events[f])
  <2>1. a \in Asked /\ Tail(events[f]) \in Seq(Asked)
    <3>1. events[f] \in Seq(Asked) /\ events[f] # <<>>
      BY <1>5 DEF Presents, TypeOK
    <3> QED
      BY <3>1, TailFacts
  <2>2. events' \in [Forwarders -> Seq(Asked)]
    BY <1>5, <2>1 DEF Presents, TypeOK
  <2>3. CASE pending[a].by = Nobody
    <3>1. [type |-> "request", id |-> a] \in Requests
      BY <2>1 DEF Requests
    <3>2. toPage' \in Seq(Requests)
      <4>1. toPage \in Seq(Requests) /\ toPage' = Append(toPage, [type |-> "request", id |-> a])
        BY <1>5, <2>3 DEF Presents, TypeOK
      <4> QED
        BY <3>1, <4>1, AppendFacts
    <3>3. fwd' \in [Forwarders -> States]
      <4>1. fwd' = [fwd EXCEPT ![f].pc = "asking", ![f].id = a]
        BY <1>5, <2>3 DEF Presents
      <4>2. [fwd[f] EXCEPT !.pc = "asking", !.id = a] \in States
        BY <2>1 DEF TypeOK, States
      <4> HIDE DEF a
      <4>3. fwd' = [fwd EXCEPT ![f] = [fwd[f] EXCEPT !.pc = "asking", !.id = a]]
        BY <4>1 DEF TypeOK, States
      <4> QED
        BY <4>2, <4>3 DEF TypeOK
    <3>4. [NoWaiter EXCEPT !.by = f] \in Waiters
      BY DEF NoWaiter, Waiters
    <3>5. pending' \in [Asked -> Waiters]
      BY <1>5, <2>1, <2>3, <3>4 DEF Presents, TypeOK
    <3> QED
      BY <1>5, <2>2, <3>2, <3>3, <3>5 DEF Presents, TypeOK
  <2>4. CASE pending[a].by # Nobody
    <3>1. fwd' \in [Forwarders -> States]
      <4>1. [pc |-> "resolving", id |-> a, decision |-> "deny"] \in States
        BY <2>1 DEF States
      <4>2. fwd' = [fwd EXCEPT ![f] = [pc |-> "resolving", id |-> a, decision |-> "deny"]]
        BY <1>5, <2>4 DEF Presents
      <4> QED
        BY <4>1, <4>2 DEF TypeOK
    <3> QED
      BY <1>5, <2>2, <2>4, <3>1 DEF Presents, TypeOK
  <2> QED
    BY <2>3, <2>4
<1>6. ASSUME NEW f \in Forwarders, Decides(f) PROVE TypeOK'
  <2>1. fwd[f].id \in Asked
    BY <1>6 DEF Decides, OneWaiter
  <2>2. Decided(fwd[f].id) \in Decisions
    BY <2>1 DEF Decided, TypeOK, Waiters
  <2>3. fwd' \in [Forwarders -> States]
    BY <1>6, <2>2 DEF Decides, TypeOK, States
  <2> QED
    BY <1>6, <2>1, <2>3, WithdrawTyped DEF Decides, TypeOK
<1>7. ASSUME NEW f \in Forwarders, Resolves(f) PROVE TypeOK'
  <2>1. fwd' \in [Forwarders -> States]
    BY <1>7, IdleTyped DEF Resolves, TypeOK
  <2>2. events' \in [Forwarders -> Seq(Asked)]
    <3>1. events' = events \/ events' = [events EXCEPT ![f] = <<>>]
      BY <1>7 DEF Resolves
    <3>2. <<>> \in Seq(Asked)
      BY EmptySeq
    <3> QED
      BY <3>1, <3>2 DEF TypeOK
  <2>3. fwd[f].decision \in Decisions
    BY <1>7 DEF Resolves, TypeOK, OneWaiter, States
  <2>4. CASE Settle(fwd[f].id, fwd[f].decision)
    BY <1>7, <2>1, <2>2, <2>3, <2>4 DEF Resolves, Settle, TypeOK
  <2>5. CASE UNCHANGED <<gate, silent>>
    BY <1>7, <2>1, <2>2, <2>5 DEF Resolves, TypeOK
  <2> QED
    BY <1>7, <2>4, <2>5 DEF Resolves
<1>8. ASSUME NEW st \in {"off", "late"}, Closes(st) PROVE TypeOK'
  <2>1. fwd' \in [Forwarders -> States] /\ events' \in [Forwarders -> Seq(Asked)]
    BY <1>8, IdleTyped, EmptySeq DEF Closes, TypeOK
  <2>2. streams \in Forwarders
    BY <1>8 DEF Closes, TypeOK, OneWaiter, Forwarders
  <2>3. pending' \in [Asked -> Waiters] /\ toPage' \in Seq(Requests)
    BY <1>8, <2>2, WithdrawTyped DEF Closes, TypeOK, OneWaiter
  <2> QED
    BY <1>8, <2>1, <2>3 DEF Closes, TypeOK
<1>9. CASE PageReads
  <2>1. Head(toPage) \in Requests /\ Tail(toPage) \in Seq(Requests)
    BY <1>9, TailFacts DEF PageReads, TypeOK
  <2> QED
    BY <1>9, <2>1 DEF PageReads, TypeOK, Requests
<1>10. CASE Responds
  <2>1. /\ Head(toServer) \in [id : Asked, decision : Decisions]
        /\ Tail(toServer) \in Seq([id : Asked, decision : Decisions])
    BY <1>10, TailFacts DEF Responds, TypeOK
  <2>2. pending' \in [Asked -> Waiters]
    <3> DEFINE a == Head(toServer).id
    <3>1. pending' = pending \/ pending' = [pending EXCEPT ![a].res = Head(toServer).decision]
      BY <1>10 DEF Responds
    <3>2. pending[a] \in Waiters
      BY <2>1 DEF TypeOK
    <3>3. [pending[a] EXCEPT !.res = Head(toServer).decision] \in Waiters
      BY <2>1, <3>2 DEF Waiters
    <3> QED
      BY <2>1, <3>1, <3>3 DEF TypeOK
  <2> QED
    BY <1>10, <2>1, <2>2 DEF Responds, TypeOK
<1>11. CASE Tick
  <2>1. gate' \in [Asked -> [st : {"none", "pending", "expired"} \cup Decisions, age : Nat]]
    <3>1. gate' = [a \in Asked |-> IF a \in Pending THEN [gate[a] EXCEPT !.age = gate[a].age + 1] ELSE gate[a]]
      BY <1>11 DEF Tick
    <3>2. ASSUME NEW a \in Asked
          PROVE  [gate[a] EXCEPT !.age = gate[a].age + 1]
                   \in [st : {"none", "pending", "expired"} \cup Decisions, age : Nat]
      <4>1. gate[a] \in [st : {"none", "pending", "expired"} \cup Decisions, age : Nat]
        BY DEF TypeOK
      <4> QED
        BY <4>1
    <3> QED
      BY <3>1, <3>2 DEF TypeOK
  <2>2. silent' \in Nat
    BY <1>11 DEF Tick, TypeOK
  <2>3. pending' \in [Asked -> Waiters]
    <3>1. pending' = [a \in Asked |-> IF a \in Waiting THEN [pending[a] EXCEPT !.age = pending[a].age + 1] ELSE pending[a]]
      BY <1>11 DEF Tick
    <3>2. ASSUME NEW a \in Asked PROVE [pending[a] EXCEPT !.age = pending[a].age + 1] \in Waiters
      <4>1. pending[a] \in Waiters
        BY DEF TypeOK
      <4> QED
        BY <4>1 DEF Waiters
    <3> QED
      BY <3>1, <3>2 DEF TypeOK
  <2> QED
    BY <1>11, <2>1, <2>2, <2>3 DEF Tick, TypeOK
<1>12. ASSUME NEW a \in Asked, Raises(a) PROVE TypeOK'
  <2>1. events' \in [Forwarders -> Seq(Asked)]
    <3>1. \A f \in Forwarders : Append(events[f], a) \in Seq(Asked) /\ events[f] \in Seq(Asked)
      BY AppendFacts DEF TypeOK
    <3> QED
      BY <1>12, <3>1 DEF Raises
  <2> QED
    BY <1>12, <2>1 DEF Raises, Settle, TypeOK
<1>13. ASSUME NEW a \in Asked, Expires(a) PROVE TypeOK'
  BY <1>13 DEF Expires, Settle, TypeOK
<1>14. ASSUME NEW a \in Asked, NEW d \in {"allow", "deny"}, Clicks(a, d) PROVE TypeOK'
  <2>1. toServer' \in Seq([id : Asked, decision : Decisions])
    BY <1>14, AppendFacts DEF Clicks, TypeOK
  <2> QED
    BY <1>14, <2>1 DEF Clicks, TypeOK
<1>15. CASE InterruptedArming
  <2>1. leaked' \subseteq 1..streams
    <3>1. streams \in 1..streams
      BY <1>15 DEF InterruptedArming, TypeOK, OneWaiter
    <3> QED
      BY <1>15, <3>1 DEF InterruptedArming, TypeOK
  <2> QED
    BY <1>15, <2>1 DEF InterruptedArming, TypeOK
<1>16. CASE UNCHANGED vars
  BY <1>16 DEF vars, TypeOK
<1> QED
  BY <1>1, <1>2, <1>3, <1>4, <1>5, <1>6, <1>7, <1>8, <1>9, <1>10, <1>11, <1>12, <1>13,
     <1>14, <1>15, <1>16 DEF Next, Completes, Interrupted, ReadTimesOut

\* Every action keeps the forwarding tasks and the waiters together.
LEMMA WaiterStep == TypeOK /\ OneWaiter /\ [Next]_vars => OneWaiter'
<1> SUFFICES ASSUME TypeOK, OneWaiter, [Next]_vars PROVE OneWaiter'
  OBVIOUS
<1> USE DEF OneWaiter
<1>0. /\ \A a \in Asked : pending[a].by # Nobody => pending[a].by \in Forwarders
      /\ \A f \in Forwarders : f # Nobody
  BY DEF TypeOK, Waiters, Forwarders, Nobody
<1>1. CASE Opens
  <2>1. streams + 1 \in Forwarders /\ \A f \in Forwarders : fwd[f].pc # "off" => f # streams + 1
    <3>1. streams \in 0..MaxStreams /\ streams < MaxStreams /\ MaxStreams \in Nat /\ leaked \subseteq 1..streams
      BY <1>1, ApprovalsAssumption DEF Opens, TypeOK
    <3>2. \A f \in Forwarders : fwd[f].pc # "off" => f \in leaked
      BY <1>1 DEF Opens
    <3> QED
      BY <3>1, <3>2 DEF Forwarders
  <2>2. /\ \A f \in Forwarders \ {streams + 1} : fwd'[f] = fwd[f]
        /\ fwd'[streams + 1].pc = "starting" /\ fwd'[streams + 1].decision = "none"
    BY <1>1, <2>1 DEF Opens, TypeOK, Idle
  <2>4. stream' = "arming" /\ streams' = streams + 1 /\ streams' # 0 /\ UNCHANGED <<leaked, pending>>
    BY <1>1 DEF Opens, TypeOK
  <2>5. \A f \in Forwarders : fwd[f].pc # "off" => f \in leaked
    BY <1>1 DEF Opens
  <2> QED
    BY <1>0, <2>1, <2>2, <2>4, <2>5
<1>2. ASSUME NEW f \in Forwarders, Subscribes(f) PROVE OneWaiter'
  <2>1. /\ \A g \in Forwarders \ {f} : fwd'[g] = fwd[g]
        /\ fwd[f].pc = "starting" /\ fwd'[f].pc \in {"listening", "over"}
        /\ fwd'[f].decision = fwd[f].decision
    BY <1>2 DEF Subscribes, TypeOK, States
  <2> QED
    BY <1>0, <1>2, <2>1 DEF Subscribes
<1>3. CASE Posts
  BY <1>3 DEF Posts
<1>5. ASSUME NEW f \in Forwarders, Presents(f) PROVE OneWaiter'
  <2> DEFINE a == Head(events[f])
  <2>1. a \in Asked
    <3>1. events[f] \in Seq(Asked) /\ events[f] # <<>>
      BY <1>5 DEF Presents, TypeOK
    <3> QED
      BY <3>1, TailFacts
  <2>2. \A g \in Forwarders \ {f} : fwd'[g] = fwd[g]
    BY <1>5 DEF Presents, TypeOK
  <2>3. UNCHANGED <<stream, streams, leaked>> /\ fwd[f].pc = "listening" /\ fwd[f].decision = "none"
    BY <1>5 DEF Presents, TypeOK, States
  <2> HIDE DEF a
  <2>4. CASE pending[a].by = Nobody
    <3>1. fwd'[f].pc = "asking" /\ fwd'[f].id = a /\ fwd'[f].decision = "none"
      BY <1>5, <2>3, <2>4 DEF Presents, TypeOK, States, a
    <3>2. pending'[a].by = f /\ \A b \in Asked \ {a} : pending'[b] = pending[b]
      BY <1>5, <2>1, <2>4 DEF Presents, TypeOK, NoWaiter, a
    <3> QED
      BY <1>0, <2>1, <2>2, <2>3, <2>4, <3>1, <3>2
  <2>5. CASE pending[a].by # Nobody
    <3>1. fwd'[f].pc = "resolving" /\ fwd'[f].id = a /\ fwd'[f].decision = "deny" /\ pending' = pending
      BY <1>5, <2>5 DEF Presents, TypeOK, a
    <3> QED
      BY <1>0, <2>1, <2>2, <2>3, <3>1
  <2> QED
    BY <2>4, <2>5
<1>6. ASSUME NEW f \in Forwarders, Decides(f) PROVE OneWaiter'
  <2>1. fwd[f].pc = "asking" /\ fwd[f].id \in Asked /\ pending[fwd[f].id].by = f
    BY <1>6 DEF Decides
  <2>2. Decided(fwd[f].id) \in Decisions
    BY <2>1 DEF Decided, TypeOK, Waiters, Decisions
  <2>3. /\ \A g \in Forwarders \ {f} : fwd'[g] = fwd[g]
        /\ fwd'[f].pc = "resolving" /\ fwd'[f].id = fwd[f].id /\ fwd'[f].decision # "none"
    BY <1>6, <2>2 DEF Decides, TypeOK, States, Decisions
  <2>4. /\ \A b \in Asked \ {fwd[f].id} : pending'[b] = pending[b]
        /\ pending'[fwd[f].id].by = Nobody
    BY <1>6, <2>1 DEF Decides, Withdraw, NoWaiter, TypeOK
  <2>5. UNCHANGED <<stream, streams, leaked>>
    BY <1>6 DEF Decides
  <2> QED
    BY <1>0, <2>1, <2>3, <2>4, <2>5
<1>7. ASSUME NEW f \in Forwarders, Resolves(f) PROVE OneWaiter'
  <2>1. /\ \A g \in Forwarders \ {f} : fwd'[g] = fwd[g]
        /\ fwd[f].pc = "resolving" /\ fwd'[f].pc \in {"listening", "over"} /\ fwd'[f].decision = "none"
    BY <1>7 DEF Resolves, TypeOK, Idle
  <2> QED
    BY <1>0, <1>7, <2>1 DEF Resolves
<1>8. ASSUME NEW st \in {"off", "late"}, Closes(st) PROVE OneWaiter'
  <2> DEFINE a == fwd[streams].id
  <2>1. streams \in Forwarders
    BY <1>8 DEF Closes, TypeOK, Forwarders
  <2>2. \A g \in Forwarders \ {streams} : fwd'[g] = fwd[g]
    BY <1>8 DEF Closes, TypeOK
  <2>3. fwd'[streams].pc = "off" /\ fwd'[streams].decision = "none"
    BY <1>8, <2>1 DEF Closes, TypeOK, Idle
  <2>4. stream' \in {"off", "late"} /\ UNCHANGED <<streams, leaked>>
    BY <1>8 DEF Closes
  <2>5. \A b \in Asked : /\ pending[b].by = streams => pending'[b].by = Nobody
                         /\ pending[b].by # streams => pending'[b].by = pending[b].by
    <3>1. CASE fwd[streams].pc = "asking"
      <4>1. a \in Asked /\ pending[a].by = streams
        BY <2>1, <3>1
      <4>2. pending' = [pending EXCEPT ![a] = NoWaiter]
        BY <1>8, <3>1 DEF Closes, Withdraw
      <4>3. pending'[a].by = Nobody /\ \A b \in Asked \ {a} : pending'[b] = pending[b]
        BY <4>1, <4>2 DEF NoWaiter, TypeOK
      <4> QED
        BY <1>0, <2>1, <4>1, <4>3
    <3>2. CASE fwd[streams].pc # "asking"
      BY <1>0, <1>8, <2>1, <3>2 DEF Closes
    <3> QED
      BY <3>1, <3>2
  <2> QED
    BY <1>0, <2>1, <2>2, <2>3, <2>4, <2>5
<1>10. CASE Responds
  <2>1. \A a \in Asked : pending'[a].by = pending[a].by
    BY <1>10 DEF Responds, TypeOK, Waiters
  <2> QED
    BY <1>10, <2>1 DEF Responds
<1>11. CASE Tick
  <2>1. \A a \in Asked : pending'[a].by = pending[a].by
    BY <1>11 DEF Tick, TypeOK, Waiters
  <2> QED
    BY <1>11, <2>1 DEF Tick
<1>12. CASE PageReads \/ Speaks \/ \E a \in Asked : Raises(a) \/ Expires(a) \/ \E d \in {"allow", "deny"} : Clicks(a, d)
  <2>1. UNCHANGED <<stream, streams, fwd, leaked, pending>>
    BY <1>12 DEF PageReads, Speaks, Raises, Expires, Clicks
  <2> QED
    BY <2>1
<1>13. CASE InterruptedArming
  BY <1>13 DEF InterruptedArming, TypeOK
<1>15. CASE UNCHANGED vars
  BY <1>15 DEF vars
<1> QED
  BY <1>1, <1>2, <1>3, <1>5, <1>6, <1>7, <1>8, <1>10, <1>11, <1>12, <1>13, <1>15
  DEF Next, Completes, Interrupted, ReadTimesOut

\* Every action carries only decisions the owner made.
LEMMA GroundedStep == TypeOK /\ OneWaiter /\ Grounded /\ [Next]_vars => Grounded'
<1> SUFFICES ASSUME TypeOK, OneWaiter, Grounded, [Next]_vars PROVE Grounded'
  OBVIOUS
<1> USE ApprovalsAssumption DEF Grounded, OwnerDecides
<1>1. CASE Opens
  <2>1. \A f \in Forwarders : fwd'[f] = fwd[f] \/ fwd'[f].decision = "none"
    BY <1>1 DEF Opens, TypeOK, Idle
  <2>2. UNCHANGED <<gate, pending, toServer, clicked>>
    BY <1>1 DEF Opens
  <2> QED
    BY <2>1, <2>2
<1>2. ASSUME NEW f \in Forwarders, Subscribes(f) PROVE Grounded'
  <2>1. ASSUME NEW g \in Forwarders PROVE fwd'[g].decision = fwd[g].decision /\ fwd'[g].id = fwd[g].id
    <3>1. fwd[g] \in States
      BY DEF TypeOK
    <3>2. fwd'[g] = fwd[g] \/ \E pc \in {"listening", "over"} : fwd'[g] = [fwd[g] EXCEPT !.pc = pc]
      BY <1>2 DEF Subscribes, TypeOK
    <3> QED
      BY <3>1, <3>2 DEF States
  <2>2. UNCHANGED <<gate, pending, toServer, clicked>>
    BY <1>2 DEF Subscribes
  <2> QED
    BY <2>1, <2>2
<1>3. CASE Posts \/ Speaks \/ PageReads \/ InterruptedArming
  BY <1>3 DEF Posts, Speaks, PageReads, InterruptedArming
<1>5. ASSUME NEW f \in Forwarders, Presents(f) PROVE Grounded'
  <2>1. \A g \in Forwarders : fwd'[g] = fwd[g] \/ fwd'[g].decision # "allow"
    <3>1. fwd[f] \in States /\ fwd[f].decision = "none"
      BY <1>5 DEF Presents, TypeOK, OneWaiter, States
    <3> DEFINE a == Head(events[f])
    <3>2. \/ fwd' = [fwd EXCEPT ![f].pc = "asking", ![f].id = a]
          \/ fwd' = [fwd EXCEPT ![f] = [pc |-> "resolving", id |-> a, decision |-> "deny"]]
      BY <1>5 DEF Presents
    <3> HIDE DEF a
    <3>3. \A g \in Forwarders \ {f} : fwd'[g] = fwd[g]
      BY <3>2 DEF TypeOK
    <3>4. fwd'[f].decision \in {"none", "deny"}
      BY <3>1, <3>2 DEF TypeOK, States
    <3> QED
      BY <3>3, <3>4
  <2>2. \A a \in Asked : pending'[a] = pending[a] \/ pending'[a].res = "none"
    BY <1>5 DEF Presents, TypeOK, NoWaiter
  <2> QED
    BY <1>5, <2>1, <2>2 DEF Presents
<1>6. ASSUME NEW f \in Forwarders, Decides(f) PROVE Grounded'
  <2>1. fwd[f].id \in Asked
    BY <1>6 DEF Decides, OneWaiter
  <2>2. Decided(fwd[f].id) = "allow" => <<fwd[f].id, "allow">> \in clicked
    BY <2>1 DEF Decided
  <2>3. \A g \in Forwarders : fwd'[g] = fwd[g] \/ (g = f /\ fwd'[g].id = fwd[f].id /\ fwd'[g].decision = Decided(fwd[f].id))
    BY <1>6 DEF Decides, TypeOK, States
  <2>4. \A a \in Asked : pending'[a] = pending[a] \/ pending'[a].res = "none"
    BY <1>6 DEF Decides, Withdraw, TypeOK, NoWaiter
  <2>5. UNCHANGED <<gate, toServer, clicked>>
    BY <1>6 DEF Decides
  <2> QED
    BY <2>2, <2>3, <2>4, <2>5
<1>7. ASSUME NEW f \in Forwarders, Resolves(f) PROVE Grounded'
  <2>1. \A a \in Asked : gate'[a].st = "allow" =>
          gate[a].st = "allow" \/ (a = fwd[f].id /\ fwd[f].decision = "allow")
    BY <1>7 DEF Resolves, Settle, TypeOK
  <2>2. \A g \in Forwarders : fwd'[g] = fwd[g] \/ fwd'[g].decision = "none"
    BY <1>7 DEF Resolves, TypeOK, Idle
  <2> QED
    BY <1>7, <2>1, <2>2 DEF Resolves
<1>8. ASSUME NEW st \in {"off", "late"}, Closes(st) PROVE Grounded'
  <2>1. \A g \in Forwarders : fwd'[g] = fwd[g] \/ fwd'[g].decision = "none"
    BY <1>8 DEF Closes, TypeOK, Idle
  <2>2. \A a \in Asked : pending'[a] = pending[a] \/ pending'[a].res = "none"
    BY <1>8 DEF Closes, Withdraw, TypeOK, NoWaiter
  <2> QED
    BY <1>8, <2>1, <2>2 DEF Closes
<1>10. CASE Responds
  <2>1. /\ <<Head(toServer).id, Head(toServer).decision>> \in clicked
        /\ Head(toServer) \in [id : Asked, decision : Decisions]
    BY <1>10, TailFacts DEF Responds, TypeOK
  <2>2. \A i \in DOMAIN toServer' : <<toServer'[i].id, toServer'[i].decision>> \in clicked
    <3>1. /\ toServer \in Seq([id : Asked, decision : Decisions]) /\ toServer # <<>>
          /\ toServer' = Tail(toServer)
      BY <1>10 DEF Responds, TypeOK
    <3> QED
      BY <3>1, TailFacts
  <2>3. \A a \in Asked : pending'[a].res # "none" => <<a, pending'[a].res>> \in clicked
    <3>1. \A a \in Asked : \/ pending'[a] = pending[a]
                           \/ a = Head(toServer).id /\ pending'[a].res = Head(toServer).decision
      BY <1>10, <2>1 DEF Responds, TypeOK, Waiters
    <3> QED
      BY <2>1, <3>1
  <2> QED
    BY <1>10, <2>2, <2>3 DEF Responds
<1>11. CASE Tick
  <2>1. \A a \in Asked : gate'[a].st = gate[a].st
    BY <1>11 DEF Tick, TypeOK, Pending
  <2>2. \A a \in Asked : pending'[a].res = pending[a].res
    BY <1>11 DEF Tick, TypeOK, Waiters
  <2> QED
    BY <1>11, <2>1, <2>2 DEF Tick
<1>12. ASSUME NEW a \in Asked, Raises(a) \/ Expires(a) PROVE Grounded'
  <2>1. \A b \in Asked : gate'[b].st = "allow" => gate[b].st = "allow"
    <3>1. PICK st \in {"pending", "expired"} : gate' = [gate EXCEPT ![a] = [st |-> st, age |-> 0]]
      BY <1>12 DEF Raises, Expires, Settle
    <3> QED
      BY <3>1 DEF TypeOK
  <2> QED
    BY <1>12, <2>1 DEF Raises, Expires
<1>14. ASSUME NEW a \in Asked, NEW d \in {"allow", "deny"}, Clicks(a, d) PROVE Grounded'
  <2>1. clicked \subseteq clicked' /\ <<a, d>> \in clicked'
    BY <1>14 DEF Clicks
  <2>2. \A i \in DOMAIN toServer' : <<toServer'[i].id, toServer'[i].decision>> \in clicked'
    BY <1>14, <2>1, AppendFacts DEF Clicks, TypeOK, Decisions
  <2> QED
    BY <1>14, <2>1, <2>2 DEF Clicks
<1>15. CASE UNCHANGED vars
  BY <1>15 DEF vars
<1> QED
  BY <1>1, <1>2, <1>3, <1>5, <1>6, <1>7, <1>8, <1>10, <1>11, <1>12, <1>14, <1>15
  DEF Next, Completes, Interrupted, ReadTimesOut

-----------------------------------------------------------------------------
\* A waiter that leaves has its dismissal behind every card of its approval.
LEMMA WithdrawDismisses ==
  ASSUME TypeOK, CardsDismissed, NEW w \in Asked, Withdraw(w), UNCHANGED cards
  PROVE  CardsDismissed'
<1>1. Closed(w) \in Requests /\ toPage \in Seq(Requests)
  BY DEF TypeOK, Requests, Closed
<1>2. toPage' = Append(toPage, Closed(w)) /\ \A a \in Asked : a = w \/ pending'[a] = pending[a]
  BY DEF Withdraw, Closed, TypeOK
<1> DEFINE last == Len(toPage) + 1
<1>3. /\ \A i \in DOMAIN toPage : i \in DOMAIN toPage' /\ toPage'[i] = toPage[i] /\ i < last
      /\ last \in DOMAIN toPage' /\ toPage'[last] = Closed(w) /\ last > 0
      /\ \A i \in DOMAIN toPage' : i \in DOMAIN toPage \/ i = last
  BY <1>1, <1>2, AppendFacts
<1> HIDE DEF last
<1>4. \A a, n : DismissedIn(toPage, a, n) => DismissedIn(toPage', a, n)
  BY <1>3 DEF DismissedIn
<1>5. \A n \in DOMAIN toPage \cup {0} : DismissedIn(toPage', w, n)
  BY <1>3 DEF DismissedIn
<1>6. \A a \in cards' : Waited(a)' \/ DismissedIn(toPage', a, 0)
  BY <1>2, <1>4, <1>5 DEF CardsDismissed, Waited, TypeOK
<1>7. ASSUME NEW i \in DOMAIN toPage', toPage'[i].type = "request"
      PROVE  Waited(toPage[i].id)' \/ DismissedIn(toPage', toPage'[i].id, i)
  <2>1. i \in DOMAIN toPage /\ toPage'[i] = toPage[i]
    BY <1>3, <1>7 DEF Closed
  <2>2. toPage[i].id \in Asked
    <3>1. toPage[i] \in Requests
      BY <1>1, <2>1, LenProperties
    <3> QED
      BY <3>1 DEF Requests
  <2>3. Waited(toPage[i].id) \/ DismissedIn(toPage, toPage[i].id, i)
    BY <1>7, <2>1 DEF CardsDismissed
  <2> QED
    BY <1>2, <1>4, <1>5, <2>1, <2>2, <2>3 DEF Waited
<1> QED
  BY <1>3, <1>6, <1>7 DEF CardsDismissed, Waited

\* Every action leaves each card to its waiter or to its dismissal.
LEMMA CardsStep == TypeOK /\ OneWaiter /\ CardsDismissed /\ [Next]_vars => CardsDismissed'
<1> SUFFICES ASSUME TypeOK, OneWaiter, CardsDismissed, [Next]_vars PROVE CardsDismissed'
  OBVIOUS
<1> USE ApprovalsAssumption
<1>0. \A i \in DOMAIN toPage : toPage[i].id \in Asked
  <2>1. \A i \in DOMAIN toPage : toPage[i] \in Requests
    BY LenProperties DEF TypeOK
  <2> QED
    BY <2>1 DEF Requests
<1>1. ASSUME UNCHANGED <<toPage, cards>>, \A a \in Asked : pending'[a].by = pending[a].by
      PROVE  CardsDismissed'
  <2>1. \A a \in Asked : Waited(a)' <=> Waited(a)
    BY <1>1 DEF Waited
  <2>2. cards \subseteq Asked
    BY DEF TypeOK
  <2> QED
    BY <1>0, <1>1, <2>1, <2>2 DEF CardsDismissed, DismissedIn, Waited
<1>2. CASE \/ Opens \/ Posts \/ Speaks \/ InterruptedArming \/ UNCHANGED vars
           \/ \E f \in Forwarders : Subscribes(f) \/ Resolves(f)
           \/ \E a \in Asked : Raises(a) \/ Expires(a)
  <2>1. UNCHANGED <<toPage, cards, pending>>
    BY <1>2 DEF Opens, Posts, Speaks, InterruptedArming, vars, Subscribes, Resolves, Raises, Expires
  <2> QED
    BY <1>1, <2>1
<1>8. CASE Responds \/ Tick
  <2>1. UNCHANGED <<toPage, cards>> /\ \A a \in Asked : pending'[a].by = pending[a].by
    <3>1. CASE Responds
      <4>1. \A a \in Asked : pending[a] \in Waiters
        BY DEF TypeOK
      <4>2. \A a \in Asked : pending'[a] = pending[a] \/ pending'[a] = [pending[a] EXCEPT !.res = Head(toServer).decision]
        BY <3>1 DEF Responds, TypeOK
      <4> QED
        BY <3>1, <4>1, <4>2 DEF Responds, Waiters
    <3>2. CASE Tick
      <4>1. \A a \in Asked : pending[a] \in Waiters
        BY DEF TypeOK
      <4>2. \A a \in Asked : pending'[a] = pending[a] \/ pending'[a] = [pending[a] EXCEPT !.age = pending[a].age + 1]
        BY <3>2 DEF Tick, TypeOK
      <4> QED
        BY <3>2, <4>1, <4>2 DEF Tick, Waiters
    <3> QED
      BY <1>8, <3>1, <3>2
  <2> QED
    BY <1>1, <2>1
<1>3. ASSUME NEW f \in Forwarders, Presents(f) PROVE CardsDismissed'
  <2> DEFINE a == Head(events[f])
             m == [type |-> "request", id |-> a]
             last == Len(toPage) + 1
  <2>0. CASE pending[a].by # Nobody
    BY <1>1, <1>3, <2>0 DEF Presents
  <2>10. CASE pending[a].by = Nobody
    <3>1. a \in Asked /\ m \in Requests
      <4>1. events[f] \in Seq(Asked) /\ events[f] # <<>>
        BY <1>3 DEF Presents, TypeOK
      <4> QED
        BY <4>1, TailFacts DEF Requests
    <3>2. /\ toPage' = Append(toPage, m) /\ cards' = cards
          /\ pending' = [pending EXCEPT ![a] = [NoWaiter EXCEPT !.by = f]]
      BY <1>3, <2>10 DEF Presents
    <3>3. f # Nobody
      BY DEF Forwarders, Nobody
    <3>4. \A b \in Asked : pending'[b].by = pending[b].by \/ (b = a /\ pending'[b].by = f)
      BY <3>1, <3>2 DEF TypeOK, NoWaiter
    <3>5. /\ \A i \in DOMAIN toPage : i \in DOMAIN toPage' /\ toPage'[i] = toPage[i] /\ i < last
          /\ toPage'[last] = m
          /\ \A i \in DOMAIN toPage' : i \in DOMAIN toPage \/ i = last
      BY <3>1, <3>2, AppendFacts DEF TypeOK
    <3>6. pending'[a].by = f
      BY <3>1, <3>2 DEF TypeOK, NoWaiter
    <3> HIDE DEF a, last
    <3>7. \A b, n : DismissedIn(toPage, b, n) => DismissedIn(toPage', b, n)
      BY <3>5 DEF DismissedIn
    <3>8. \A b \in Asked : Waited(b) => Waited(b)'
      BY <3>3, <3>4 DEF Waited
    <3>10. \A b \in cards' : Waited(b)' \/ DismissedIn(toPage', b, 0)
      BY <3>2, <3>7, <3>8 DEF CardsDismissed, TypeOK
    <3>11. ASSUME NEW i \in DOMAIN toPage', toPage'[i].type = "request"
           PROVE  pending'[toPage'[i].id].by # Nobody \/ DismissedIn(toPage', toPage'[i].id, i)
      <4>1. CASE i = last
        BY <3>3, <3>5, <3>6, <4>1
      <4>2. CASE i \in DOMAIN toPage
        <5>1. toPage'[i] = toPage[i] /\ toPage[i].id \in Asked
          BY <1>0, <3>5, <4>2
        <5>2. Waited(toPage[i].id) \/ DismissedIn(toPage, toPage[i].id, i)
          BY <3>11, <4>2, <5>1 DEF CardsDismissed
        <5> QED
          BY <3>7, <3>8, <5>1, <5>2 DEF Waited
      <4> QED
        BY <3>5, <4>1, <4>2
    <3> QED
      BY <3>10, <3>11 DEF CardsDismissed, Waited
  <2> QED
    BY <2>0, <2>10
<1>4. ASSUME NEW f \in Forwarders, Decides(f) PROVE CardsDismissed'
  BY <1>4, WithdrawDismisses DEF Decides, OneWaiter
<1>5. ASSUME NEW st \in {"off", "late"}, Closes(st) PROVE CardsDismissed'
  <2>1. CASE fwd[streams].pc = "asking"
    <3>1. streams \in Forwarders
      BY <1>5 DEF Closes, TypeOK, OneWaiter, Forwarders
    <3> QED
      BY <1>5, <2>1, <3>1, WithdrawDismisses DEF Closes, OneWaiter
  <2>2. CASE fwd[streams].pc # "asking"
    BY <1>1, <1>5, <2>2 DEF Closes
  <2> QED
    BY <2>1, <2>2
<1>6. CASE PageReads
  <2> DEFINE m == Head(toPage)
  <2>1. /\ toPage \in Seq(Requests) /\ toPage # <<>> /\ toPage' = Tail(toPage)
        /\ pending' = pending
        /\ cards' = IF m.type = "request" THEN cards \cup {m.id} ELSE cards \ {m.id}
    BY <1>6 DEF PageReads, TypeOK
  <2>2. m \in Requests /\ m = toPage[1] /\ 1 \in DOMAIN toPage
    BY <2>1, TailFacts
  <2>3. DOMAIN toPage \subseteq Nat \ {0}
    BY <2>1, LenProperties
  <2>4. \A i \in DOMAIN toPage' : i \in Nat \ {0} /\ i + 1 \in DOMAIN toPage /\ toPage'[i] = toPage[i + 1]
    BY <2>1, TailFacts, LenProperties
  <2>5. ASSUME NEW a, NEW n \in Nat, DismissedIn(toPage, a, n + 1) PROVE DismissedIn(toPage', a, n)
    <3>1. PICK j \in DOMAIN toPage : j > n + 1 /\ toPage[j] = Closed(a)
      BY <2>5 DEF DismissedIn
    <3>2. j - 1 \in DOMAIN toPage' /\ toPage'[j - 1] = Closed(a) /\ j - 1 > n
      BY <2>1, <2>3, <3>1, TailFacts
    <3> QED
      BY <3>2 DEF DismissedIn
  <2> HIDE DEF m
  <2>6. ASSUME NEW a \in cards' PROVE Waited(a)' \/ DismissedIn(toPage', a, 0)
    <3>1. CASE m.type = "request" /\ a = m.id
      <4>1. Waited(a) \/ DismissedIn(toPage, a, 1)
        BY <2>2, <3>1 DEF CardsDismissed
      <4> QED
        BY <2>1, <2>5, <4>1 DEF Waited
    <3>2. CASE a \in cards /\ m # Closed(a)
      <4>1. Waited(a) \/ DismissedIn(toPage, a, 1)
        BY <2>2, <2>3, <3>2 DEF CardsDismissed, DismissedIn
      <4> QED
        BY <2>1, <2>5, <4>1 DEF Waited
    <3> QED
      BY <2>1, <2>2, <2>6, <3>1, <3>2 DEF Requests, Closed
  <2>7. ASSUME NEW i \in DOMAIN toPage', toPage'[i].type = "request"
        PROVE pending'[toPage'[i].id].by # Nobody \/ DismissedIn(toPage', toPage'[i].id, i)
    BY <2>1, <2>4, <2>5, <2>7 DEF CardsDismissed, Waited
  <2> QED
    BY <2>6, <2>7 DEF CardsDismissed, Waited
<1>7. ASSUME NEW a \in Asked, NEW d \in {"allow", "deny"}, Clicks(a, d) PROVE CardsDismissed'
  BY <1>7 DEF Clicks, CardsDismissed, DismissedIn, Waited
<1> QED
  BY <1>2, <1>3, <1>4, <1>5, <1>6, <1>7, <1>8 DEF Next, Completes, Interrupted, ReadTimesOut

-----------------------------------------------------------------------------
LEMMA InitIInv == Init => IInv
<1> SUFFICES ASSUME Init PROVE IInv
  OBVIOUS
<1>1. NoWaiter \in Waiters /\ Idle \in States
  BY IdleTyped DEF NoWaiter, Waiters
<1>2. /\ events \in [Forwarders -> Seq(Asked)] /\ fwd \in [Forwarders -> States]
      /\ pending \in [Asked -> Waiters]
  BY <1>1 DEF Init
<1>3. TypeOK
  BY <1>2, ApprovalsAssumption DEF Init, TypeOK, Decisions
<1>4. OneWaiter /\ Grounded /\ CardsDismissed
  BY DEF Init, OneWaiter, Grounded, CardsDismissed, DismissedIn, Idle, NoWaiter, OwnerDecides
<1> QED
  BY <1>3, <1>4 DEF IInv

LEMMA NextIInv == IInv /\ [Next]_vars => IInv'
  BY TypeStep, WaiterStep, GroundedStep, CardsStep DEF IInv

LEMMA NoCardLeft == IInv => NoDeadCard
<1> SUFFICES ASSUME IInv, toPage = <<>>, NEW a \in cards
             PROVE  /\ pending[a].by # Nobody
                    /\ stream \in {"off", "late"} => pending[a].by \in leaked
  BY DEF NoDeadCard
<1>1. a \in Asked /\ Waited(a)
  BY DEF IInv, TypeOK, CardsDismissed, DismissedIn
<1>2. pending[a].by \in Forwarders /\ fwd[pending[a].by].pc = "asking"
  BY <1>1 DEF IInv, TypeOK, OneWaiter, Waiters, Waited
<1> QED
  BY <1>1, <1>2 DEF IInv, OneWaiter, Waited

LEMMA InvariantHolds == Spec => []IInv
  BY InitIInv, NextIInv, PTL DEF Spec

\* The values of every variable, for any number of approvals and responses.
THEOREM TypeCorrect == Spec => []TypeOK
<1>1. IInv => TypeOK
  BY DEF IInv
<1> QED
  BY <1>1, InvariantHolds, PTL

\* What the gateway allows the owner allowed on that very card, whatever is
\* lost, late, interrupted or answered twice on the way.
THEOREM OnlyTheOwnerAllows == Spec => []OwnerDecides
<1>1. IInv => OwnerDecides
  BY DEF IInv, Grounded
<1> QED
  BY <1>1, InvariantHolds, PTL

\* Every card the page shows has a task that waits for its answer, once the page
\* has read its socket; and of a response that is over only one that was
\* interrupted while arming has left such a task, whichever way the others ended.
THEOREM NoCardAnswersNothing == Spec => []NoDeadCard
  BY InvariantHolds, NoCardLeft, PTL

-----------------------------------------------------------------------------
(***************************************************************************)
(* Memory.                                                                 *)
(***************************************************************************)

Valued == Values \cup {NoValue}
Revisions == [rev : Nat, value : Valued]
\* The rows SQLite can hold: none has evidence before it is a candidate, and
\* none is proposed without the evidence for it.
Rows == {r \in [stage : {"none", "candidate", "proposed", "active", "superseded"}, evidence : Nat] :
           /\ r.stage = "none" => r.evidence = 0
           /\ r.stage = "proposed" => r.evidence >= ProposalEvidence}
Thinking == [pc : {"read", "write"}, value : Values, row : Rows]
Steps == {"audit", "card", "snapshot", "life", "wiki", "no"}

\* The state is well typed, the rows as above.
MemoryTypeOK ==
  /\ audit \in Revisions /\ card \in Revisions /\ snapshot \in Valued
  /\ life \in [Values -> Rows]
  /\ writer \in [next : Steps, rev : Revisions]
  /\ threads \in Seq(Thinking)
  /\ boot \in [Boots -> [pc : {"off", "consolidate", "cards", "activate"}, stale : BOOLEAN, value : Valued]]
  /\ episode \in [there : BOOLEAN, consolidated : BOOLEAN, observed : Nat]
  /\ turns \in [said : Nat, saved : Nat, part : Nat]
  /\ saving \in Nat /\ archive \in Seq(Nat)
  /\ wiki \in [hash : Valued, calls : SUBSET Valued]
  /\ said \in [confirmed : SUBSET Values, heard : [Values -> Nat], turns : Nat, forgot : BOOLEAN]
  /\ crashes \in Nat

\* Where a revision has got to: the files it has reached hold it, the next ones
\* do not, and the card is never ahead of the audit.
RevisionInOrder ==
  /\ writer.next = "audit" => writer.rev.rev = audit.rev + 1
  /\ writer.next = "card" => audit = writer.rev
  /\ CardsFollowAudit

\* Wherever a value is kept, or about to be written, the owner confirmed it.
Confirmed == said.confirmed \cup {NoValue}
OnlyConfirmed ==
  /\ writer.rev.value \in Confirmed
  /\ audit.value \in Confirmed /\ card.value \in Confirmed /\ snapshot \in Confirmed
  /\ \A b \in Boots : boot[b].value \in Confirmed
  /\ \A v \in Values : life[v].stage = "active" => v \in said.confirmed

\* The evidence of a row, kept or read, and the turns a thread is still to count
\* are turns the owner spoke: a lost update counts too few, never too many.
Spoken(v) == {i \in DOMAIN threads : threads[i].value = v}
Supported(v, row) ==
  row.stage \in {"none", "candidate", "proposed"} => row.evidence + Cardinality(Spoken(v)) <= said.heard[v]
EvidenceWasHeard ==
  /\ \A v \in Values : Cardinality(Spoken(v)) <= said.heard[v] /\ Supported(v, life[v])
  /\ \A i \in DOMAIN threads : threads[i].pc = "write" => Supported(threads[i].value, threads[i].row)

\* The archive holds the saved parts and at most the one being saved.
PartsInArchive ==
  /\ turns.part <= Len(archive) /\ Len(archive) <= turns.part + 1
  /\ SavedIsArchived

MemoryInv == MemoryTypeOK /\ RevisionInOrder /\ OnlyConfirmed /\ EvidenceWasHeard /\ PartsInArchive

-----------------------------------------------------------------------------
\* The writes of a revision follow the code's order.
LEMMA WritesFollowOrder ==
  /\ ToSet(Order) = Steps
  /\ After("audit") = "card" /\ After("card") = "snapshot" /\ After("snapshot") = "life"
  /\ After("life") = "wiki" /\ After("wiki") = "no"
<1>1. /\ DOMAIN Order = 1 .. 6
      /\ Order[1] = "audit" /\ Order[2] = "card" /\ Order[3] = "snapshot"
      /\ Order[4] = "life" /\ Order[5] = "wiki" /\ Order[6] = "no"
  BY DEF Order
<1>2. ToSet(Order) = Steps
  <2>1. \A i \in 1 .. 6 : i = 1 \/ i = 2 \/ i = 3 \/ i = 4 \/ i = 5 \/ i = 6
    OBVIOUS
  <2> QED
    BY <1>1, <2>1 DEF ToSet, Steps
<1>3. \A i \in 1 .. 5 : i = 1 \/ i = 2 \/ i = 3 \/ i = 4 \/ i = 5
  OBVIOUS
<1>4. ASSUME NEW k \in 1 .. 5
      PROVE  After(Order[k]) = Order[k + 1]
  <2> DEFINE Follows(next) == \E i \in 1 .. 5 : Order[i] = Order[k] /\ Order[i + 1] = next
  <2>1. Order[k + 1] \in ToSet(Order) /\ Follows(Order[k + 1])
    BY <1>1 DEF ToSet
  <2>2. \A i \in 1 .. 5 : Order[i] = Order[k] => i = k
    BY <1>1, <1>3
  <2>3. \A next \in ToSet(Order) : Follows(next) => next = Order[k + 1]
    BY <2>2
  <2>4. After(Order[k]) = CHOOSE next \in ToSet(Order) : Follows(next)
    BY DEF After
  <2> HIDE DEF Follows
  <2> QED
    BY <2>1, <2>3, <2>4
<1>5. /\ 1 \in 1 .. 5 /\ 2 \in 1 .. 5 /\ 3 \in 1 .. 5 /\ 4 \in 1 .. 5 /\ 5 \in 1 .. 5
      /\ 1 + 1 = 2 /\ 2 + 1 = 3 /\ 3 + 1 = 4 /\ 4 + 1 = 5 /\ 5 + 1 = 6
  OBVIOUS
<1>6. /\ After(Order[1]) = Order[2] /\ After(Order[2]) = Order[3] /\ After(Order[3]) = Order[4]
      /\ After(Order[4]) = Order[5] /\ After(Order[5]) = Order[6]
  BY <1>4, <1>5
<1> QED
  BY <1>1, <1>2, <1>6

LEMMA NextWrite ==
  ASSUME NEW step \in Steps \ {"no"}
  PROVE  After(step) \in Steps
BY WritesFollowOrder DEF Steps

\* What is left of a sequence without one of its elements.
LEMMA Removed ==
  ASSUME NEW S, NEW q \in Seq(S), NEW i \in DOMAIN q
  PROVE  /\ RemoveAt(q, i) \in Seq(S)
         /\ DOMAIN RemoveAt(q, i) = 1 .. Len(q) - 1
         /\ \A j \in DOMAIN RemoveAt(q, i) :
              /\ j < i => j \in DOMAIN q /\ RemoveAt(q, i)[j] = q[j]
              /\ j >= i => j + 1 \in DOMAIN q /\ RemoveAt(q, i)[j] = q[j + 1]
<1> DEFINE a == SubSeq(q, 1, i - 1)
           b == SubSeq(q, i + 1, Len(q))
<1>1. Len(q) \in Nat /\ DOMAIN q = 1 .. Len(q) /\ i \in 1 .. Len(q)
  BY LenProperties
<1>2. /\ a \in Seq(S) /\ Len(a) = i - 1
      /\ \A j \in 1 .. i - 1 : a[j] = q[j]
  BY <1>1, SubSeqProperties
<1>3. /\ b \in Seq(S) /\ Len(b) = Len(q) - i
      /\ \A j \in 1 .. Len(q) - i : b[j] = q[i + j]
  BY <1>1, SubSeqProperties
<1> HIDE DEF a, b
<1>4. /\ a \o b \in Seq(S) /\ Len(a \o b) = Len(a) + Len(b)
      /\ \A j \in 1 .. Len(a) + Len(b) : (a \o b)[j] = IF j <= Len(a) THEN a[j] ELSE b[j - Len(a)]
  BY <1>2, <1>3, ConcatProperties, Zenon
<1>5. Len(a) + Len(b) = Len(q) - 1
  BY <1>1, <1>2, <1>3
<1>6. RemoveAt(q, i) = a \o b
  BY DEF RemoveAt, a, b
<1>7. DOMAIN (a \o b) = 1 .. Len(q) - 1
  BY <1>4, <1>5, LenProperties
<1>8. ASSUME NEW j \in 1 .. Len(q) - 1
      PROVE  /\ j < i => j \in DOMAIN q /\ (a \o b)[j] = q[j]
             /\ j >= i => j + 1 \in DOMAIN q /\ (a \o b)[j] = q[j + 1]
  <2>1. (a \o b)[j] = IF j <= i - 1 THEN a[j] ELSE b[j - (i - 1)]
    BY <1>2, <1>4, <1>5
  <2>2. j < i => a[j] = q[j]
    BY <1>1, <1>2
  <2>3. j >= i => b[j - (i - 1)] = q[i + (j - (i - 1))] /\ i + (j - (i - 1)) = j + 1
    BY <1>1, <1>3
  <2> QED
    BY <1>1, <2>1, <2>2, <2>3
<1> QED
  BY <1>4, <1>6, <1>7, <1>8

\* Only an Activate that finds no evidence makes any.
LEMMA ActivateTyped ==
  ASSUME MemoryTypeOK, NEW v \in Values, Activate(v)
  PROVE  /\ life' \in [Values -> Rows]
         /\ life'[v].stage = "active"
         /\ \A u \in Values \ {v} : life'[u].stage \in {"none", "superseded"} /\ (life'[u].stage = "none" => life'[u].evidence = 0)
<1>1. ASSUME NEW u \in Values
      PROVE  /\ life'[u] \in Rows
             /\ u = v => life'[u].stage = "active"
             /\ u # v => life'[u].stage \in {"none", "superseded"}
  <2>1. life[u] \in Rows
    BY DEF MemoryTypeOK
  <2>2. life'[u] = IF u = v THEN [life[u] EXCEPT !.stage = "active", !.evidence = IF @ = 0 THEN 1 ELSE @]
                   ELSE IF life[u].stage = "none" THEN NoRow ELSE [life[u] EXCEPT !.stage = "superseded"]
    BY DEF Activate
  <2> DEFINE seen == IF life[u].evidence = 0 THEN 1 ELSE life[u].evidence
             active == [life[u] EXCEPT !.stage = "active", !.evidence = seen]
             past == [life[u] EXCEPT !.stage = "superseded"]
  <2>3. life[u] \in [stage : {"none", "candidate", "proposed", "active", "superseded"}, evidence : Nat]
    BY <2>1 DEF Rows
  <2>4. seen \in Nat
    BY <2>3
  <2>5. life'[u] = IF u = v THEN active ELSE IF life[u].stage = "none" THEN NoRow ELSE past
    BY <2>2
  <2> HIDE DEF seen
  <2>6. /\ active \in [stage : {"none", "candidate", "proposed", "active", "superseded"}, evidence : Nat]
        /\ active.stage = "active"
    BY <2>3, <2>4
  <2>7. /\ past \in [stage : {"none", "candidate", "proposed", "active", "superseded"}, evidence : Nat]
        /\ past.stage = "superseded"
    BY <2>3
  <2> HIDE DEF active, past
  <2>8. active \in Rows /\ past \in Rows
    BY <2>6, <2>7 DEF Rows
  <2>9. NoRow \in Rows /\ NoRow.stage = "none"
    BY DEF NoRow, Rows
  <2> QED
    BY <2>5, <2>6, <2>7, <2>8, <2>9
<1> QED
  BY <1>1 DEF Activate, Rows

LEMMA ObservedTyped ==
  ASSUME NEW row \in Rows
  PROVE  /\ Observed(row) \in Rows
         /\ Observed(row).stage = "active" => row.stage = "active"
BY DEF Observed, Rows, ProposalEvidence

LEMMA MemoryTypeInit == MemoryInit => MemoryTypeOK
<1> SUFFICES ASSUME MemoryInit
             PROVE  MemoryTypeOK
  OBVIOUS
<1>1. /\ audit \in Revisions /\ card \in Revisions /\ snapshot \in Valued
      /\ writer \in [next : Steps, rev : Revisions]
  BY DEF MemoryInit, Revisions, Valued, NoRevision, NotWriting, Steps
<1>2. life \in [Values -> Rows] /\ threads \in Seq(Thinking) /\ archive \in Seq(Nat)
  <2>1. NoRow \in Rows
    BY DEF NoRow, Rows
  <2> QED
    BY <2>1 DEF MemoryInit
<1>3. boot \in [Boots -> [pc : {"off", "consolidate", "cards", "activate"}, stale : BOOLEAN, value : Valued]]
  BY DEF MemoryInit, NoBoot, Valued
<1>4. /\ turns \in [said : Nat, saved : Nat, part : Nat] /\ saving \in Nat /\ crashes \in Nat
      /\ episode \in [there : BOOLEAN, consolidated : BOOLEAN, observed : Nat]
  BY DEF MemoryInit, NoTurns
<1>5. /\ wiki \in [hash : Valued, calls : SUBSET Valued]
      /\ said \in [confirmed : SUBSET Values, heard : [Values -> Nat], turns : Nat, forgot : BOOLEAN]
  BY DEF MemoryInit, Valued
<1> QED
  BY <1>1, <1>2, <1>3, <1>4, <1>5 DEF MemoryTypeOK

\* An import goes on, or takes the cards it has read.
LEMMA BootSteps ==
  ASSUME NEW f \in [Boots -> [pc : {"off", "consolidate", "cards", "activate"}, stale : BOOLEAN, value : Valued]],
         NEW b \in Boots
  PROVE  [f EXCEPT ![b].pc = "cards"]
           \in [Boots -> [pc : {"off", "consolidate", "cards", "activate"}, stale : BOOLEAN, value : Valued]]
OBVIOUS

LEMMA BootReads ==
  ASSUME NEW f \in [Boots -> [pc : {"off", "consolidate", "cards", "activate"}, stale : BOOLEAN, value : Valued]],
         NEW b \in Boots, NEW value \in Valued
  PROVE  [f EXCEPT ![b] = [f[b] EXCEPT !.pc = "activate", !.value = value]]
           \in [Boots -> [pc : {"off", "consolidate", "cards", "activate"}, stale : BOOLEAN, value : Valued]]
OBVIOUS

LEMMA MemoryTypeStep == MemoryTypeOK /\ PartsInArchive /\ [MemoryNext]_memoryVars => MemoryTypeOK'
<1> SUFFICES ASSUME MemoryTypeOK, PartsInArchive, [MemoryNext]_memoryVars
             PROVE  MemoryTypeOK'
  OBVIOUS
<1> USE DEF Files, Thoughts, Transcript
<1>0. Current \in Valued
  BY DEF MemoryTypeOK, Current, Revisions
<1>1. ASSUME NEW v \in Values, NEW kind \in {"set", "revoke", "tendency"}, Remember(v, kind)
      PROVE  /\ said' \in [confirmed : SUBSET Values, heard : [Values -> Nat], turns : Nat, forgot : BOOLEAN]
             /\ turns' \in [said : Nat, saved : Nat, part : Nat]
             /\ threads' \in Seq(Thinking)
  <2>1. [pc |-> "read", value |-> v, row |-> NoRow] \in Thinking
    BY DEF Thinking, NoRow, Rows
  <2>2. threads' \in Seq(Thinking)
    BY <1>1, <2>1, AppendProperties DEF Remember, MemoryTypeOK
  <2>3. turns' \in [said : Nat, saved : Nat, part : Nat]
    <3>1. turns \in [said : Nat, saved : Nat, part : Nat] /\ turns' = [turns EXCEPT !.said = @ + 1]
      BY <1>1 DEF Remember, MemoryTypeOK
    <3> QED
      BY <3>1
  <2>4. said' \in [confirmed : SUBSET Values, heard : [Values -> Nat], turns : Nat, forgot : BOOLEAN]
    <3> DEFINE known == IF kind = "set" THEN said.confirmed \cup {v} ELSE said.confirmed
               counts == [said.heard EXCEPT ![v] = IF kind = "tendency" THEN @ + 1 ELSE @]
               quiet == said.forgot /\ kind = "revoke"
    <3>1. said \in [confirmed : SUBSET Values, heard : [Values -> Nat], turns : Nat, forgot : BOOLEAN]
      BY DEF MemoryTypeOK
    <3>2. said' = [confirmed |-> known, heard |-> counts, turns |-> said.turns + 1, forgot |-> quiet]
      BY <1>1, <3>1 DEF Remember
    <3>3. known \in SUBSET Values /\ said.turns + 1 \in Nat
      BY <3>1
    <3>4. counts \in [Values -> Nat]
      BY <3>1
    <3>5. quiet \in BOOLEAN
      OBVIOUS
    <3> HIDE DEF known, counts, quiet
    <3> QED
      BY <3>2, <3>3, <3>4, <3>5
  <2> QED
    BY <2>2, <2>3, <2>4
<1>2. ASSUME NEW v \in Values, NEW kind \in {"set", "revoke"}, Confirms(v, kind)
      PROVE  MemoryTypeOK'
  <2>1. Order[1] \in Steps
    BY DEF Order, Steps
  <2>2. writer' \in [next : Steps, rev : Revisions]
    <3>1. audit.rev + 1 \in Nat /\ (IF kind = "set" THEN v ELSE NoValue) \in Valued
      BY DEF MemoryTypeOK, Revisions, Valued
    <3> QED
      BY <1>2, <2>1, <3>1 DEF Confirms, Revisions
  <2>3. saving' \in Nat
    BY <1>2, <1>1 DEF Confirms, Persist, MemoryTypeOK
  <2> QED
    BY <1>1, <1>2, <2>2, <2>3 DEF Confirms, MemoryTypeOK
<1>3. ASSUME NEW v \in Values, Tends(v)
      PROVE  MemoryTypeOK'
  <2>1. saving' \in Nat
    BY <1>3, <1>1 DEF Tends, Persist, MemoryTypeOK
  <2> QED
    BY <1>1, <1>3, <2>1 DEF Tends, MemoryTypeOK
<1>4. ASSUME NEW step \in Steps \ {"no"}, Writes(step)
      PROVE  writer' \in [next : Steps, rev : Revisions]
  BY <1>4, NextWrite DEF Writes, MemoryTypeOK
<1>5. CASE WritesAudit
  BY <1>4, <1>5 DEF WritesAudit, Steps, MemoryTypeOK
<1>6. CASE WritesCard
  BY <1>4, <1>6 DEF WritesCard, Steps, MemoryTypeOK
<1>7. CASE WritesSnapshot
  BY <1>4, <1>7 DEF WritesSnapshot, Steps, MemoryTypeOK, Revisions
<1>8. CASE DiskFails
  BY <1>8 DEF DiskFails, MemoryTypeOK, NotWriting, NoRevision, Steps, Revisions, Valued
<1>9. CASE WritesLife
  <2>1. writer' \in [next : Steps, rev : Revisions]
    BY <1>4, <1>9 DEF WritesLife, Steps
  <2>2. writer.rev.value # NoValue => writer.rev.value \in Values
    BY DEF MemoryTypeOK, Revisions, Valued
  <2>3. life' \in [Values -> Rows]
    <3>1. NoRow \in Rows /\ life \in [Values -> Rows]
      BY DEF NoRow, Rows, MemoryTypeOK
    <3> QED
      BY <1>9, <2>2, <3>1, ActivateTyped DEF WritesLife, Forget
  <2>4. said' \in [confirmed : SUBSET Values, heard : [Values -> Nat], turns : Nat, forgot : BOOLEAN]
    BY <1>9 DEF WritesLife, MemoryTypeOK
  <2> QED
    BY <1>9, <2>1, <2>3, <2>4 DEF WritesLife, MemoryTypeOK
<1>10. CASE StartsSync
  <2>1. wiki' \in [hash : Valued, calls : SUBSET Valued]
    BY <1>0, <1>10 DEF StartsSync, MemoryTypeOK
  <2> QED
    BY <1>4, <1>10, <2>1 DEF StartsSync, MemoryTypeOK, Steps
<1>11. ASSUME NEW c \in wiki.calls, SyncEnds(c)
       PROVE  MemoryTypeOK'
  <2>1. wiki' \in [hash : Valued, calls : SUBSET Valued]
    <3>1. wiki \in [hash : Valued, calls : SUBSET Valued] /\ c \in Valued
      BY <1>11 DEF MemoryTypeOK
    <3>2. \/ wiki' = [hash |-> c, calls |-> wiki.calls \ {c}]
          \/ wiki' = [hash |-> wiki.hash, calls |-> wiki.calls \ {c}]
      BY <1>11, <3>1 DEF SyncEnds
    <3> QED
      BY <3>1, <3>2
  <2> QED
    BY <1>11, <2>1 DEF SyncEnds, MemoryTypeOK
<1>12. ASSUME NEW i \in DOMAIN threads, ThreadReads(i)
       PROVE  MemoryTypeOK'
  <2>1. threads[i] \in Thinking
    BY DEF MemoryTypeOK
  <2>2. [threads[i] EXCEPT !.pc = "write", !.row = life[threads[i].value]] \in Thinking
    BY <2>1 DEF MemoryTypeOK, Thinking
  <2>3. threads' \in Seq(Thinking)
    BY <1>12, <2>2, ExceptSeq DEF ThreadReads, MemoryTypeOK
  <2> QED
    BY <1>12, <2>3 DEF ThreadReads, MemoryTypeOK
<1>13. ASSUME NEW i \in DOMAIN threads, ThreadWrites(i)
       PROVE  MemoryTypeOK'
  <2>0. threads[i] \in Thinking
    BY DEF MemoryTypeOK
  <2>1. threads[i] \in Thinking /\ threads[i].row \in Rows
    BY <2>0 DEF Thinking
  <2>2. threads' \in Seq(Thinking)
    BY <1>13, Removed DEF ThreadWrites, MemoryTypeOK
  <2>3. life' \in [Values -> Rows]
    BY <1>13, <2>1, ObservedTyped DEF ThreadWrites, MemoryTypeOK
  <2> QED
    BY <1>13, <2>2, <2>3 DEF ThreadWrites, MemoryTypeOK
<1>14. ASSUME NEW b \in Boots, BootRecords(b)
       PROVE  MemoryTypeOK'
  BY <1>14 DEF BootRecords, NoBoot, Valued, MemoryTypeOK
<1>15. ASSUME NEW b \in Boots, BootConsolidates(b)
       PROVE  MemoryTypeOK'
  <2>1. episode' \in [there : BOOLEAN, consolidated : BOOLEAN, observed : Nat]
    <3>1. episode \in [there : BOOLEAN, consolidated : BOOLEAN, observed : Nat]
      BY DEF MemoryTypeOK
    <3> DEFINE n == episode.observed + 1
    <3>2. episode' = [there |-> episode.there, consolidated |-> TRUE, observed |-> n] \/ episode' = episode
      BY <1>15, <3>1 DEF BootConsolidates
    <3>3. n \in Nat
      BY <3>1
    <3>4. episode.there \in BOOLEAN
      BY <3>1, Zenon
    <3>5. TRUE \in BOOLEAN
      OBVIOUS
    <3> HIDE DEF n
    <3>6. [there |-> episode.there, consolidated |-> TRUE, observed |-> n]
            \in [there : BOOLEAN, consolidated : BOOLEAN, observed : Nat]
      BY <3>3, <3>4, <3>5
    <3> QED
      BY <3>1, <3>2, <3>6
  <2>2. boot' \in [Boots -> [pc : {"off", "consolidate", "cards", "activate"}, stale : BOOLEAN, value : Valued]]
    <3>1. boot \in [Boots -> [pc : {"off", "consolidate", "cards", "activate"}, stale : BOOLEAN, value : Valued]]
      BY DEF MemoryTypeOK
    <3>2. boot' = [boot EXCEPT ![b].pc = "cards"]
      BY <1>15 DEF BootConsolidates
    <3> QED
      BY <3>1, <3>2, BootSteps
  <2> QED
    BY <1>15, <2>1, <2>2, Zenon DEF BootConsolidates, MemoryTypeOK
<1>16. ASSUME NEW b \in Boots, BootReadsCards(b)
       PROVE  MemoryTypeOK'
  <2>1. boot \in [Boots -> [pc : {"off", "consolidate", "cards", "activate"}, stale : BOOLEAN, value : Valued]]
    BY DEF MemoryTypeOK
  <2>2. boot' = [boot EXCEPT ![b] = [boot[b] EXCEPT !.pc = "activate", !.value = Current]]
    BY <1>16 DEF BootReadsCards
  <2>3. boot' \in [Boots -> [pc : {"off", "consolidate", "cards", "activate"}, stale : BOOLEAN, value : Valued]]
    BY <1>0, <2>1, <2>2, BootReads
  <2> QED
    BY <1>16, <2>3, Zenon DEF BootReadsCards, MemoryTypeOK
<1>17. ASSUME NEW b \in Boots, BootActivates(b)
       PROVE  MemoryTypeOK'
  <2>1. boot[b].value # NoValue => boot[b].value \in Values
    BY DEF MemoryTypeOK, Valued
  <2>2. life' \in [Values -> Rows]
    BY <1>17, <2>1, ActivateTyped DEF BootActivates, MemoryTypeOK
  <2> QED
    BY <1>17, <2>2 DEF BootActivates, NoBoot, Valued, MemoryTypeOK
<1>18. CASE Saves
  <2>1. /\ Len(archive) \in Nat /\ turns.part \in Nat
        /\ \A k \in 1 .. Len(archive) : archive[k] \in Nat
    BY LenProperties DEF MemoryTypeOK
  <2>2. \A k \in 1 .. turns.part : archive[k] \in Nat
    BY <2>1 DEF PartsInArchive
  <2>3. SubSeq(archive, 1, turns.part) \in Seq(Nat)
    BY <2>1, <2>2, SubSeqProperties
  <2> QED
    BY <1>18, <2>3, AppendProperties DEF Saves, MemoryTypeOK
<1>19. CASE SaveEnds
  <2>1. turns' \in [said : Nat, saved : Nat, part : Nat]
    <3>1. turns \in [said : Nat, saved : Nat, part : Nat] /\ saving \in Nat
      BY DEF MemoryTypeOK
    <3>2. \/ turns' = [said |-> turns.said, saved |-> saving, part |-> turns.part + 1]
          \/ turns' = turns
      BY <1>19, <3>1 DEF SaveEnds, Saved
    <3> QED
      BY <3>1, <3>2
  <2> QED
    BY <1>19, <2>1 DEF SaveEnds, MemoryTypeOK
<1>20. CASE Leaves
  BY <1>20 DEF Leaves, MemoryTypeOK
<1>21. CASE Crash
  <2>1. writer' \in [next : Steps, rev : Revisions]
    BY <1>21 DEF Crash, NotWriting, NoRevision, Steps, Revisions, Valued
  <2>3. boot' \in [Boots -> [pc : {"off", "consolidate", "cards", "activate"}, stale : BOOLEAN, value : Valued]]
    BY <1>21 DEF Crash, NoBoot, Valued
  <2>4. turns' \in [said : Nat, saved : Nat, part : Nat] /\ archive' \in Seq(Nat) /\ threads' \in Seq(Thinking)
    BY <1>21 DEF Crash, NoTurns
  <2>2. wiki' \in [hash : Valued, calls : SUBSET Valued]
    BY <1>21 DEF Crash, MemoryTypeOK, Valued
  <2> QED
    BY <1>21, <2>1, <2>2, <2>3, <2>4 DEF Crash, MemoryTypeOK
<1>22. CASE UNCHANGED memoryVars
  BY <1>22 DEF memoryVars, MemoryTypeOK
<1> QED
  BY <1>2, <1>3, <1>5, <1>6, <1>7, <1>8, <1>9, <1>10, <1>11, <1>12, <1>13, <1>14, <1>15, <1>16, <1>17,
     <1>18, <1>19, <1>20, <1>21, <1>22 DEF MemoryNext, Directs, Revokes

LEMMA RevisionStep == MemoryTypeOK /\ RevisionInOrder /\ [MemoryNext]_memoryVars => RevisionInOrder'
<1> SUFFICES ASSUME MemoryTypeOK, RevisionInOrder, [MemoryNext]_memoryVars
             PROVE  RevisionInOrder'
  OBVIOUS
<1> USE DEF Files
<1>1. audit.rev \in Nat /\ card.rev \in Nat /\ writer.rev.rev \in Nat /\ writer.next \in Steps
  BY DEF MemoryTypeOK, Revisions
<1>2. CASE UNCHANGED <<audit, card, writer>>
  BY <1>2 DEF RevisionInOrder, CardsFollowAudit
<1>3. ASSUME NEW v \in Values, NEW kind \in {"set", "revoke"}, Confirms(v, kind)
      PROVE  RevisionInOrder'
  <2>1. writer'.next = "audit" /\ writer'.rev.rev = audit.rev + 1 /\ UNCHANGED <<audit, card>>
    BY <1>3 DEF Confirms, Order
  <2> QED
    BY <2>1 DEF RevisionInOrder, CardsFollowAudit
<1>4. CASE WritesAudit
  <2>1. audit' = writer.rev /\ writer.next = "audit" /\ writer'.next = "card" /\ writer'.rev = writer.rev /\ card' = card
    BY <1>4, WritesFollowOrder DEF WritesAudit, Writes, MemoryTypeOK
  <2> QED
    BY <1>1, <2>1 DEF RevisionInOrder, CardsFollowAudit
<1>5. CASE WritesCard
  <2>1. card' = writer.rev /\ writer.next = "card" /\ writer'.next = "snapshot" /\ audit' = audit
    BY <1>5, WritesFollowOrder DEF WritesCard, Writes, MemoryTypeOK
  <2> QED
    BY <1>1, <2>1 DEF RevisionInOrder, CardsFollowAudit
<1>6. CASE \E step \in {"snapshot", "life", "wiki"} : Writes(step) /\ UNCHANGED <<audit, card>>
  <2>1. writer'.next \notin {"audit", "card"} /\ UNCHANGED <<audit, card>>
    BY <1>6, WritesFollowOrder DEF Writes, MemoryTypeOK
  <2> QED
    BY <2>1 DEF RevisionInOrder, CardsFollowAudit
<1>7. CASE writer' = NotWriting /\ UNCHANGED <<audit, card>>
  BY <1>7 DEF NotWriting, RevisionInOrder, CardsFollowAudit
<1>8. (WritesSnapshot \/ WritesLife \/ StartsSync) => \E step \in {"snapshot", "life", "wiki"} : Writes(step) /\ UNCHANGED <<audit, card>>
  BY DEF WritesSnapshot, WritesLife, StartsSync
<1>9. (DiskFails \/ Crash) => writer' = NotWriting /\ UNCHANGED <<audit, card>>
  BY DEF DiskFails, Crash
<1>10. /\ \A v \in Values : Tends(v) => UNCHANGED <<audit, card, writer>>
       /\ \A c \in wiki.calls : SyncEnds(c) => UNCHANGED <<audit, card, writer>>
       /\ \A i \in DOMAIN threads : ThreadReads(i) \/ ThreadWrites(i) => UNCHANGED <<audit, card, writer>>
       /\ Saves \/ SaveEnds \/ Leaves \/ UNCHANGED memoryVars => UNCHANGED <<audit, card, writer>>
  BY DEF Tends, SyncEnds, ThreadReads, ThreadWrites, Saves, SaveEnds, Leaves, memoryVars
<1>11. \A b \in Boots : BootRecords(b) \/ BootConsolidates(b) \/ BootReadsCards(b) \/ BootActivates(b)
         => UNCHANGED <<audit, card, writer>>
  BY DEF BootRecords, BootConsolidates, BootReadsCards, BootActivates
<1> QED
  BY <1>2, <1>3, <1>4, <1>5, <1>6, <1>7, <1>8, <1>9, <1>10, <1>11 DEF MemoryNext, Directs, Revokes

LEMMA ConfirmedStep == MemoryTypeOK /\ OnlyConfirmed /\ [MemoryNext]_memoryVars => OnlyConfirmed'
<1> SUFFICES ASSUME MemoryTypeOK, OnlyConfirmed, [MemoryNext]_memoryVars
             PROVE  OnlyConfirmed'
  OBVIOUS
<1> USE DEF Files, Thoughts, Transcript
<1>1. NoValue \in Confirmed /\ NoRevision.value = NoValue /\ NotWriting.rev = NoRevision /\ NoBoot.value = NoValue
  BY DEF Confirmed, NoRevision, NotWriting, NoBoot
<1>2. Current \in Confirmed
  BY DEF Current, OnlyConfirmed
<1>3. CASE /\ UNCHANGED <<audit, card, snapshot, writer, boot>> /\ said'.confirmed = said.confirmed
           /\ \A v \in Values : life'[v].stage = "active" => life[v].stage = "active"
  BY <1>3 DEF OnlyConfirmed, Confirmed
<1>4. ASSUME NEW v \in Values, NEW kind \in {"set", "revoke"}, Confirms(v, kind)
      PROVE  OnlyConfirmed'
  <2>1. /\ said'.confirmed = IF kind = "set" THEN said.confirmed \cup {v} ELSE said.confirmed
        /\ writer'.rev.value = IF kind = "set" THEN v ELSE NoValue
        /\ UNCHANGED <<audit, card, snapshot, life, boot>>
    BY <1>4 DEF Confirms, Remember, MemoryTypeOK
  <2>2. said.confirmed \subseteq said'.confirmed /\ writer'.rev.value \in Confirmed'
    BY <2>1 DEF Confirmed
  <2> QED
    BY <2>1, <2>2 DEF OnlyConfirmed, Confirmed
<1>5. ASSUME NEW v \in Values, Tends(v)
      PROVE  OnlyConfirmed'
  <2>1. said'.confirmed = said.confirmed /\ UNCHANGED <<audit, card, snapshot, life, writer, boot>>
    BY <1>5 DEF Tends, Remember, MemoryTypeOK
  <2> QED
    BY <1>3, <2>1
<1>6. CASE WritesAudit \/ WritesCard \/ WritesSnapshot \/ DiskFails \/ StartsSync \/ Crash
  <2>1. /\ UNCHANGED <<life, said>>
        /\ writer'.rev \in {writer.rev, NoRevision}
        /\ audit' \in {audit, writer.rev} /\ card' \in {card, writer.rev} /\ snapshot' \in {snapshot, writer.rev.value}
        /\ boot' = boot \/ boot' = [b \in Boots |-> NoBoot]
    BY <1>1, <1>6 DEF WritesAudit, WritesCard, WritesSnapshot, DiskFails, StartsSync, Crash, Writes, MemoryTypeOK
  <2>2. \A b \in Boots : boot'[b].value \in {boot[b].value, NoValue}
    BY <1>1, <2>1
  <2> QED
    BY <1>1, <2>1, <2>2 DEF OnlyConfirmed, Confirmed
<1>7. ASSUME NEW v \in Values, v \in said.confirmed, Activate(v)
      PROVE  \A u \in Values : life'[u].stage = "active" => u \in said.confirmed
  BY <1>7, ActivateTyped
<1>8. CASE WritesLife
  <2>1. writer.rev.value # NoValue => writer.rev.value \in Values /\ writer.rev.value \in said.confirmed
    BY DEF MemoryTypeOK, Revisions, Valued, OnlyConfirmed, Confirmed
  <2>2. \A u \in Values : life'[u].stage = "active" => u \in said.confirmed
    BY <1>7, <1>8, <2>1 DEF WritesLife, Forget, NoRow, OnlyConfirmed
  <2>3. /\ UNCHANGED <<audit, card, snapshot, boot>> /\ writer'.rev = writer.rev
        /\ said'.confirmed = said.confirmed
    BY <1>8 DEF WritesLife, Writes, MemoryTypeOK
  <2> QED
    BY <2>2, <2>3 DEF OnlyConfirmed, Confirmed
<1>9. ASSUME NEW i \in DOMAIN threads, ThreadWrites(i)
      PROVE  OnlyConfirmed'
  <2>1. threads[i] \in Thinking
    BY DEF MemoryTypeOK
  <2>2. threads[i].row \in Rows /\ threads[i].value \in Values
    BY <2>1 DEF Thinking
  <2>3. \A v \in Values : life'[v] = life[v] \/ (life'[v] = Observed(threads[i].row) /\ threads[i].row.stage # "active")
    BY <1>9, <2>2 DEF ThreadWrites, MemoryTypeOK
  <2>4. \A v \in Values : life'[v].stage = "active" => life[v].stage = "active"
    BY <2>2, <2>3, ObservedTyped
  <2> QED
    BY <1>3, <1>9, <2>4 DEF ThreadWrites
<1>10. ASSUME NEW b \in Boots, BootRecords(b) \/ BootConsolidates(b) \/ BootReadsCards(b)
       PROVE  OnlyConfirmed'
  <2>1. /\ UNCHANGED <<audit, card, snapshot, life, writer, said>>
        /\ \A c \in Boots : boot'[c].value \in {boot[c].value, NoValue, Current}
    <3>0. boot \in [Boots -> [pc : {"off", "consolidate", "cards", "activate"}, stale : BOOLEAN, value : Valued]]
      BY DEF MemoryTypeOK
    <3>1. CASE BootRecords(b)
      BY <3>0, <3>1 DEF BootRecords, NoBoot
    <3>2. CASE BootConsolidates(b)
      BY <3>0, <3>2 DEF BootConsolidates
    <3>3. CASE BootReadsCards(b)
      BY <3>0, <3>3 DEF BootReadsCards
    <3> QED
      BY <1>10, <3>1, <3>2, <3>3
  <2> QED
    BY <1>1, <1>2, <2>1 DEF OnlyConfirmed, Confirmed
<1>11. ASSUME NEW b \in Boots, BootActivates(b)
       PROVE  OnlyConfirmed'
  <2>1. boot[b].value # NoValue => boot[b].value \in Values /\ boot[b].value \in said.confirmed
    BY DEF MemoryTypeOK, Valued, OnlyConfirmed, Confirmed
  <2>2. \A u \in Values : life'[u].stage = "active" => u \in said.confirmed
    BY <1>7, <1>11, <2>1 DEF BootActivates, OnlyConfirmed
  <2>3. UNCHANGED <<audit, card, snapshot, writer, said>> /\ \A c \in Boots : boot'[c].value \in {boot[c].value, NoValue}
    BY <1>1, <1>11 DEF BootActivates, MemoryTypeOK
  <2> QED
    BY <1>1, <2>2, <2>3 DEF OnlyConfirmed, Confirmed
<1>12. /\ \A c \in wiki.calls : SyncEnds(c) => UNCHANGED <<audit, card, snapshot, life, writer, boot, said>>
       /\ \A i \in DOMAIN threads : ThreadReads(i) => UNCHANGED <<audit, card, snapshot, life, writer, boot, said>>
       /\ Saves \/ SaveEnds \/ Leaves \/ UNCHANGED memoryVars => UNCHANGED <<audit, card, snapshot, life, writer, boot, said>>
  BY DEF SyncEnds, ThreadReads, Saves, SaveEnds, Leaves, memoryVars
<1> QED
  BY <1>3, <1>4, <1>5, <1>6, <1>8, <1>9, <1>10, <1>11, <1>12 DEF MemoryNext, Directs, Revokes

\* A turn heard adds at most one thread about its value and none about another;
\* a thread that ends is no longer about its value.
LEMMA SpokenFinite ==
  ASSUME MemoryTypeOK, NEW v
  PROVE  IsFiniteSet(Spoken(v)) /\ Cardinality(Spoken(v)) \in Nat
<1>1. DOMAIN threads = 1 .. Len(threads) /\ Len(threads) \in Nat
  BY LenProperties DEF MemoryTypeOK
<1>2. IsFiniteSet(1 .. Len(threads))
  BY <1>1, FS_Interval
<1> QED
  BY <1>1, <1>2, FS_Subset, FS_CardinalityType DEF Spoken

LEMMA SpokenGrows ==
  ASSUME MemoryTypeOK, NEW v \in Values, NEW e \in Thinking, threads' = Append(threads, e)
  PROVE  Cardinality(Spoken(v)') <= Cardinality(Spoken(v)) + (IF e.value = v THEN 1 ELSE 0)
<1>1. DOMAIN threads = 1 .. Len(threads) /\ Len(threads) \in Nat
  BY LenProperties DEF MemoryTypeOK
<1>2. /\ DOMAIN Append(threads, e) = 1 .. Len(threads) + 1
      /\ \A i \in 1 .. Len(threads) : Append(threads, e)[i] = threads[i]
      /\ Append(threads, e)[Len(threads) + 1] = e
  BY <1>1, AppendProperties, LenProperties DEF MemoryTypeOK
<1>3. IsFiniteSet(Spoken(v)) /\ Cardinality(Spoken(v)) \in Nat
  BY SpokenFinite
<1>4. CASE e.value = v
  <2>1. Spoken(v)' \subseteq Spoken(v) \cup {Len(threads) + 1}
    BY <1>1, <1>2 DEF Spoken
  <2>2. /\ IsFiniteSet(Spoken(v) \cup {Len(threads) + 1})
        /\ Cardinality(Spoken(v) \cup {Len(threads) + 1}) <= Cardinality(Spoken(v)) + 1
    <3> DEFINE n == Len(threads) + 1
    <3>1. /\ IsFiniteSet(Spoken(v) \cup {n})
          /\ Cardinality(Spoken(v) \cup {n}) = IF n \in Spoken(v) THEN Cardinality(Spoken(v)) ELSE Cardinality(Spoken(v)) + 1
      BY <1>3, FS_AddElement, Zenon
    <3> HIDE DEF n
    <3>2. Cardinality(Spoken(v) \cup {n}) <= Cardinality(Spoken(v)) + 1
      BY <1>3, <3>1
    <3> QED
      BY <3>1, <3>2 DEF n
  <2>3. /\ Cardinality(Spoken(v)') <= Cardinality(Spoken(v) \cup {Len(threads) + 1})
        /\ Cardinality(Spoken(v)') \in Nat /\ Cardinality(Spoken(v) \cup {Len(threads) + 1}) \in Nat
    BY <2>1, <2>2, FS_Subset, FS_CardinalityType
  <2> QED
    BY <1>3, <1>4, <2>2, <2>3
<1>5. CASE e.value # v
  <2>1. Spoken(v)' \subseteq Spoken(v)
    BY <1>1, <1>2, <1>5 DEF Spoken
  <2>2. Cardinality(Spoken(v)') <= Cardinality(Spoken(v)) /\ Cardinality(Spoken(v)') \in Nat
    BY <1>3, <2>1, FS_Subset, FS_CardinalityType
  <2> QED
    BY <1>3, <1>5, <2>2
<1> QED
  BY <1>4, <1>5

LEMMA SpokenShrinks ==
  ASSUME MemoryTypeOK, NEW v \in Values, NEW i \in DOMAIN threads, threads' = RemoveAt(threads, i)
  PROVE  /\ Cardinality(Spoken(v)') \in Nat
         /\ Cardinality(Spoken(v)') + (IF threads[i].value = v THEN 1 ELSE 0) <= Cardinality(Spoken(v))
<1> DEFINE rest == Spoken(v) \ {i}
           f == [j \in Spoken(v)' |-> IF j < i THEN j ELSE j + 1]
<1>1. DOMAIN threads = 1 .. Len(threads) /\ Len(threads) \in Nat
  BY LenProperties DEF MemoryTypeOK
<1>2. /\ DOMAIN threads' = 1 .. Len(threads) - 1
      /\ \A j \in DOMAIN threads' :
              /\ j < i => j \in DOMAIN threads /\ threads'[j] = threads[j]
              /\ j >= i => j + 1 \in DOMAIN threads /\ threads'[j] = threads[j + 1]
  BY Removed DEF MemoryTypeOK
<1>3. IsFiniteSet(Spoken(v)) /\ Cardinality(Spoken(v)) \in Nat
  BY SpokenFinite
<1>4. /\ IsFiniteSet(rest) /\ Cardinality(rest) \in Nat
      /\ Cardinality(rest) + (IF threads[i].value = v THEN 1 ELSE 0) <= Cardinality(Spoken(v))
  <2>1. threads[i].value = v => i \in Spoken(v)
    BY DEF Spoken
  <2> QED
    BY <1>3, <2>1, FS_RemoveElement, FS_CardinalityType
<1>5. \A j \in Spoken(v)' : j \in 1 .. Len(threads) - 1 /\ threads'[j].value = v
  BY <1>2 DEF Spoken
<1>6. \A j \in Spoken(v)' : f[j] \in rest
  BY <1>1, <1>2, <1>5 DEF Spoken
<1>7. \A j, k \in Spoken(v)' : f[j] = f[k] => j = k
  BY <1>1, <1>5
<1>8. f \in Injection(Spoken(v)', rest)
  <2>1. f \in [Spoken(v)' -> rest]
    BY <1>6
  <2> QED
    BY <2>1, <1>7 DEF Injection, IsInjective
<1>9. Cardinality(Spoken(v)') <= Cardinality(rest) /\ Cardinality(Spoken(v)') \in Nat
  BY <1>4, <1>8, FS_Injection, FS_CardinalityType
<1> QED
  BY <1>3, <1>4, <1>9

LEMMA EvidenceStep == MemoryTypeOK /\ EvidenceWasHeard /\ [MemoryNext]_memoryVars => EvidenceWasHeard'
<1> SUFFICES ASSUME MemoryTypeOK, EvidenceWasHeard, [MemoryNext]_memoryVars
             PROVE  EvidenceWasHeard'
  OBVIOUS
<1> USE DEF Files, Thoughts, Transcript
<1>1. /\ \A v \in Values : life[v] \in Rows /\ Cardinality(Spoken(v)) \in Nat /\ said.heard[v] \in Nat
      /\ \A i \in DOMAIN threads : threads[i] \in Thinking
  BY SpokenFinite DEF MemoryTypeOK
<1>2. \A i \in DOMAIN threads : threads[i].value \in Values /\ threads[i].row \in Rows
  BY <1>1 DEF Thinking
<1>3. \A r \in Rows : r.evidence \in Nat /\ (r.stage = "none" => r.evidence = 0)
  BY DEF Rows
<1>4. NoRow \in Rows /\ NoRow.evidence = 0 /\ NoRow.stage = "none"
  BY DEF NoRow, Rows
\* A row that only became settled, or went, claims nothing new.
<1>5. CASE /\ UNCHANGED threads /\ said'.heard = said.heard
           /\ \A v \in Values : \/ life'[v] = life[v]
                               \/ life'[v].stage \in {"active", "superseded"}
                               \/ life'[v] = NoRow
  <2>1. \A v \in Values : Spoken(v)' = Spoken(v)
    BY <1>5 DEF Spoken
  <2>2. \A v \in Values : Cardinality(Spoken(v)) <= said.heard[v] /\ Supported(v, life[v])
    BY DEF EvidenceWasHeard
  <2>3. \A v \in Values : Supported(v, life'[v])
    BY <1>1, <1>4, <1>5, <2>2 DEF Supported
  <2>4. \A v \in Values : Cardinality(Spoken(v)') <= said'.heard[v] /\ Supported(v, life[v])'
    BY <1>5, <2>1, <2>2, <2>3 DEF Supported
  <2>5. \A i \in DOMAIN threads : threads[i].pc = "write" => Supported(threads[i].value, threads[i].row)'
    BY <1>2, <1>5, <2>1 DEF EvidenceWasHeard, Supported
  <2> QED
    BY <1>5, <2>4, <2>5 DEF EvidenceWasHeard
<1>6. ASSUME NEW v \in Values, NEW kind \in {"set", "revoke"}, Confirms(v, kind)
      PROVE  EvidenceWasHeard'
  <2>1. threads' = threads /\ life' = life
    BY <1>6 DEF Confirms, Remember
  <2>2. said'.heard = said.heard
    <3>1. said'.heard = [said.heard EXCEPT ![v] = said.heard[v]]
      BY <1>6 DEF Confirms, Remember, MemoryTypeOK
    <3> QED
      BY <3>1 DEF MemoryTypeOK
  <2> QED
    BY <1>5, <2>1, <2>2
<1>7. ASSUME NEW v \in Values, Tends(v)
      PROVE  EvidenceWasHeard'
  <2> DEFINE e == [pc |-> "read", value |-> v, row |-> NoRow]
  <2>1. e \in Thinking /\ e.value = v /\ e.pc = "read"
    BY <1>4 DEF Thinking
  <2>2. life' = life /\ threads' = Append(threads, e) /\ said'.heard = [said.heard EXCEPT ![v] = said.heard[v] + 1]
    BY <1>7 DEF Tends, Remember, MemoryTypeOK
  <2> HIDE DEF e
  <2>3. \A u \in Values : Cardinality(Spoken(u)') <= Cardinality(Spoken(u)) + (IF v = u THEN 1 ELSE 0)
    BY <2>1, <2>2, SpokenGrows
  <2>4. \A u \in Values : said'.heard[u] = said.heard[u] + (IF v = u THEN 1 ELSE 0)
    BY <1>1, <2>2 DEF MemoryTypeOK
  <2>5. \A u \in Values : Cardinality(Spoken(u)') \in Nat
    <3>1. threads' \in Seq(Thinking)
      BY <2>1, <2>2, AppendProperties DEF MemoryTypeOK
    <3>2. \A u : IsFiniteSet(Spoken(u)')
      <4>1. DOMAIN threads' = 1 .. Len(threads') /\ Len(threads') \in Nat
        BY <3>1, LenProperties
      <4>2. IsFiniteSet(1 .. Len(threads'))
        BY <4>1, FS_Interval
      <4> QED
        BY <4>1, <4>2, FS_Subset DEF Spoken
    <3> QED
      BY <3>2, FS_CardinalityType
  <2>6. ASSUME NEW u \in Values, NEW r \in Rows, Supported(u, r)
        PROVE  Supported(u, r)'
    BY <1>1, <1>3, <2>3, <2>4, <2>5, <2>6 DEF Supported
  <2>7. \A u \in Values : Cardinality(Spoken(u)') <= said'.heard[u]
    BY <1>1, <2>3, <2>4, <2>5 DEF EvidenceWasHeard
  <2>8. \A i \in DOMAIN threads' : (i \in DOMAIN threads /\ threads'[i] = threads[i]) \/ threads'[i] = e
    BY <2>1, <2>2, LenProperties, AppendProperties DEF MemoryTypeOK
  <2>9. \A i \in DOMAIN threads' : threads'[i].pc = "write" => Supported(threads[i].value, threads[i].row)'
    <3>1. \A i \in DOMAIN threads : threads[i].pc = "write" => Supported(threads[i].value, threads[i].row)
      BY DEF EvidenceWasHeard
    <3> QED
      BY <1>2, <2>1, <2>6, <2>8, <3>1 DEF Supported
  <2> QED
    BY <1>1, <2>2, <2>6, <2>7, <2>9 DEF EvidenceWasHeard
<1>8. ASSUME NEW i \in DOMAIN threads, ThreadReads(i)
      PROVE  EvidenceWasHeard'
  <2> DEFINE e == [threads[i] EXCEPT !.pc = "write", !.row = life[threads[i].value]]
  <2>1. e.value = threads[i].value /\ e.row = life[threads[i].value]
    BY <1>1 DEF Thinking
  <2>2. threads' = [threads EXCEPT ![i] = e] /\ life' = life /\ said' = said
    BY <1>8 DEF ThreadReads
  <2> HIDE DEF e
  <2>3. /\ DOMAIN threads' = DOMAIN threads /\ threads'[i] = e
        /\ \A j \in DOMAIN threads : j # i => threads'[j] = threads[j]
    BY <2>2
  <2>4. \A u \in Values : Spoken(u)' = Spoken(u)
    BY <2>1, <2>3 DEF Spoken
  <2>5. /\ \A u \in Values : Cardinality(Spoken(u)) <= said.heard[u] /\ Supported(u, life[u])
        /\ \A j \in DOMAIN threads : threads[j].pc = "write" => Supported(threads[j].value, threads[j].row)
    BY DEF EvidenceWasHeard
  <2>6. \A j \in DOMAIN threads' : threads'[j].pc = "write" =>
           threads'[j].value \in Values /\ Supported(threads'[j].value, threads'[j].row)
    BY <1>2, <2>1, <2>3, <2>5
  <2>7. \A u \in Values : Cardinality(Spoken(u)') <= said'.heard[u] /\ Supported(u, life[u])'
    BY <2>2, <2>4, <2>5 DEF Supported
  <2>8. \A j \in DOMAIN threads' : threads'[j].pc = "write" => Supported(threads[j].value, threads[j].row)'
    BY <2>2, <2>4, <2>6 DEF Supported
  <2> QED
    BY <2>7, <2>8 DEF EvidenceWasHeard
<1>9. ASSUME NEW i \in DOMAIN threads, ThreadWrites(i)
      PROVE  EvidenceWasHeard'
  <2>0. PICK r \in Rows, v \in Values : r = threads[i].row /\ v = threads[i].value
    BY <1>2
  <2>1. Supported(v, r) /\ said' = said
    BY <1>9, <2>0 DEF ThreadWrites, EvidenceWasHeard
  <2>2. threads' = RemoveAt(threads, i)
    BY <1>9 DEF ThreadWrites
  <2>3. \A u \in Values : life'[u] = life[u] \/ (u = v /\ r.stage \notin {"active", "superseded"} /\ life'[u] = Observed(r))
    <3>1. \/ life' = life
          \/ r.stage \notin {"active", "superseded"} /\ life' = [life EXCEPT ![v] = Observed(r)]
      BY <1>9, <2>0 DEF ThreadWrites
    <3>2. life \in [Values -> Rows]
      BY DEF MemoryTypeOK
    <3>3. ASSUME NEW u \in Values, life' = [life EXCEPT ![v] = Observed(r)]
          PROVE  life'[u] = IF u = v THEN Observed(r) ELSE life[u]
      BY <3>2, <3>3
    <3> QED
      BY <3>1, <3>3
  <2>4. \A j \in DOMAIN threads' : \E k \in DOMAIN threads : threads'[j] = threads[k]
    <3>1. /\ DOMAIN threads' = 1 .. Len(threads) - 1 /\ i \in 1 .. Len(threads) /\ Len(threads) \in Nat
          /\ \A j \in DOMAIN threads' :
               /\ j < i => j \in DOMAIN threads /\ threads'[j] = threads[j]
               /\ j >= i => j + 1 \in DOMAIN threads /\ threads'[j] = threads[j + 1]
      BY <2>2, Removed, LenProperties DEF MemoryTypeOK
    <3>2. \A j \in DOMAIN threads' : j < i \/ j >= i
      BY <3>1
    <3> QED
      BY <3>1, <3>2
  <2>5. \A u \in Values : /\ Cardinality(Spoken(u)') \in Nat
                       /\ Cardinality(Spoken(u)') + (IF v = u THEN 1 ELSE 0) <= Cardinality(Spoken(u))
    BY <2>0, <2>2, SpokenShrinks
  <2>6. ASSUME NEW u \in Values, NEW row \in Rows, Supported(u, row)
        PROVE  Supported(u, row)'
    BY <1>1, <1>3, <2>1, <2>5, <2>6 DEF Supported
  <2>7. \A u \in Values : Cardinality(Spoken(u)') <= said'.heard[u]
    BY <1>1, <2>1, <2>5 DEF EvidenceWasHeard
  <2>8. r.stage \notin {"active", "superseded"} => Supported(v, Observed(r))'
    <3> SUFFICES ASSUME r.stage \notin {"active", "superseded"}
                 PROVE  Supported(v, Observed(r))'
      OBVIOUS
    <3>1. r.stage \in {"none", "candidate", "proposed"} /\ r.evidence \in Nat /\ Observed(r).evidence = r.evidence + 1
      BY DEF Observed, Rows
    <3>2. r.evidence + Cardinality(Spoken(v)) <= said.heard[v]
      BY <2>1, <3>1 DEF Supported
    <3>3. Cardinality(Spoken(v)') + 1 <= Cardinality(Spoken(v)) /\ Cardinality(Spoken(v)') \in Nat
      BY <2>5
    <3>4. r.evidence + 1 + Cardinality(Spoken(v)') <= said'.heard[v]
      BY <1>1, <2>1, <3>1, <3>2, <3>3
    <3> QED
      BY <3>1, <3>4 DEF Supported
  <2>9. \A u \in Values : Supported(u, life[u])'
    <3>1. \A u \in Values : Supported(u, life[u])
      BY DEF EvidenceWasHeard
    <3> SUFFICES ASSUME NEW u \in Values
                 PROVE  Supported(u, life[u])'
      OBVIOUS
    <3>2. CASE life'[u] = life[u]
      <4>1. PICK row \in Rows : row = life[u]
        BY <1>1
      <4>2. Supported(u, row)'
        BY <2>6, <3>1, <4>1
      <4> QED
        BY <3>2, <4>1, <4>2 DEF Supported
    <3>3. CASE u = v /\ r.stage \notin {"active", "superseded"} /\ life'[u] = Observed(r)
      BY <2>8, <3>3 DEF Supported
    <3> QED
      BY <2>3, <3>2, <3>3
  <2>10. \A j \in DOMAIN threads' : threads'[j].pc = "write" => Supported(threads[j].value, threads[j].row)'
    <3> SUFFICES ASSUME NEW j \in DOMAIN threads', threads'[j].pc = "write"
                 PROVE  Supported(threads[j].value, threads[j].row)'
      OBVIOUS
    <3>1. PICK k \in DOMAIN threads : threads'[j] = threads[k]
      BY <2>4
    <3>2. Supported(threads[k].value, threads[k].row) /\ threads[k].value \in Values /\ threads[k].row \in Rows
      BY <1>2, <3>1 DEF EvidenceWasHeard
    <3>3. PICK u \in Values, row \in Rows : u = threads[k].value /\ row = threads[k].row
      BY <3>2
    <3>4. Supported(u, row)'
      BY <2>6, <3>2, <3>3
    <3> QED
      BY <3>1, <3>3, <3>4 DEF Supported, Spoken
  <2> QED
    BY <2>7, <2>9, <2>10 DEF EvidenceWasHeard
<1>10. CASE WritesLife
  <2>1. \A v \in Values : Activate(v) => \A u \in Values : life'[u].stage \in {"active", "superseded"} \/ life'[u] = NoRow
    <3> SUFFICES ASSUME NEW v \in Values, Activate(v), NEW u \in Values
                 PROVE  life'[u].stage \in {"active", "superseded"} \/ life'[u] = NoRow
      OBVIOUS
    <3>1. life[u] \in [stage : {"none", "candidate", "proposed", "active", "superseded"}, evidence : Nat]
      BY <1>1 DEF Rows
    <3> QED
      BY <3>1 DEF Activate
  <2>2. writer.rev.value # NoValue => writer.rev.value \in Values
    BY DEF MemoryTypeOK, Revisions, Valued
  <2>3. \A u \in Values : life'[u] = life[u] \/ life'[u].stage \in {"active", "superseded"} \/ life'[u] = NoRow
    BY <1>10, <2>1, <2>2 DEF WritesLife, Forget
  <2>4. UNCHANGED threads /\ said'.heard = said.heard
    BY <1>10 DEF WritesLife, MemoryTypeOK
  <2> QED
    BY <1>5, <2>3, <2>4
<1>11. ASSUME NEW b \in Boots, BootActivates(b)
       PROVE  EvidenceWasHeard'
  <2>1. \A v \in Values : Activate(v) => \A u \in Values : life'[u].stage \in {"active", "superseded"} \/ life'[u] = NoRow
    <3> SUFFICES ASSUME NEW v \in Values, Activate(v), NEW u \in Values
                 PROVE  life'[u].stage \in {"active", "superseded"} \/ life'[u] = NoRow
      OBVIOUS
    <3>1. life[u] \in [stage : {"none", "candidate", "proposed", "active", "superseded"}, evidence : Nat]
      BY <1>1 DEF Rows
    <3> QED
      BY <3>1 DEF Activate
  <2>2. boot[b].value # NoValue => boot[b].value \in Values
    BY DEF MemoryTypeOK, Valued
  <2>3. \A u \in Values : life'[u] = life[u] \/ life'[u].stage \in {"active", "superseded"} \/ life'[u] = NoRow
    BY <1>11, <2>1, <2>2 DEF BootActivates
  <2> QED
    BY <1>5, <1>11, <2>3 DEF BootActivates
<1>12. CASE Crash
  <2>1. threads' = <<>> /\ life' = life /\ said' = said
    BY <1>12 DEF Crash
  <2>2. \A u : Spoken(u)' = {}
    BY <2>1 DEF Spoken
  <2>3. \A u : Cardinality(Spoken(u)') = 0
    BY <2>2, FS_EmptySet
  <2>4. \A v \in Values : Supported(v, life[v])'
    BY <1>1, <1>3, <2>1, <2>3 DEF EvidenceWasHeard, Supported
  <2> QED
    BY <1>1, <2>1, <2>3, <2>4 DEF EvidenceWasHeard
<1>13. CASE UNCHANGED <<life, threads, said>>
  BY <1>5, <1>13
<1>14. /\ WritesAudit \/ WritesCard \/ WritesSnapshot \/ DiskFails \/ StartsSync => UNCHANGED <<life, threads, said>>
       /\ \A c \in wiki.calls : SyncEnds(c) => UNCHANGED <<life, threads, said>>
       /\ \A b \in Boots : BootRecords(b) \/ BootConsolidates(b) \/ BootReadsCards(b) => UNCHANGED <<life, threads, said>>
       /\ Saves \/ SaveEnds \/ Leaves \/ UNCHANGED memoryVars => UNCHANGED <<life, threads, said>>
  BY DEF WritesAudit, WritesCard, WritesSnapshot, DiskFails, StartsSync, SyncEnds, BootRecords, BootConsolidates,
         BootReadsCards, Saves, SaveEnds, Leaves, memoryVars
<1> QED
  BY <1>6, <1>7, <1>8, <1>9, <1>10, <1>11, <1>12, <1>13, <1>14 DEF MemoryNext, Directs, Revokes

LEMMA PartsStep == MemoryTypeOK /\ PartsInArchive /\ [MemoryNext]_memoryVars => PartsInArchive'
<1> SUFFICES ASSUME MemoryTypeOK, PartsInArchive, [MemoryNext]_memoryVars
             PROVE  PartsInArchive'
  OBVIOUS
<1> USE DEF Transcript
<1>1. /\ turns \in [said : Nat, saved : Nat, part : Nat] /\ Len(archive) \in Nat
      /\ DOMAIN archive = 1 .. Len(archive)
      /\ \A k \in 1 .. Len(archive) : archive[k] \in Nat
  BY LenProperties DEF MemoryTypeOK
<1>2. CASE UNCHANGED archive /\ turns'.part = turns.part /\ turns'.saved = turns.saved
  BY <1>2 DEF PartsInArchive, SavedIsArchived
<1>3. \A v \in Values, kind \in {"set", "revoke", "tendency"} :
        Remember(v, kind) => turns'.part = turns.part /\ turns'.saved = turns.saved
  BY <1>1 DEF Remember
<1>4. /\ \A v \in Values, kind \in {"set", "revoke"} : Confirms(v, kind) => Remember(v, kind) /\ UNCHANGED archive
      /\ \A v \in Values : Tends(v) => Remember(v, "tendency") /\ UNCHANGED archive
  BY DEF Confirms, Tends
<1>5. CASE Saves
  <2> DEFINE kept == SubSeq(archive, 1, turns.part)
  <2>1. /\ kept \in Seq(Nat) /\ Len(kept) = turns.part
        /\ \A k \in 1 .. turns.part : kept[k] = archive[k]
    <3>1. \A k \in 1 .. turns.part : archive[k] \in Nat
      BY <1>1 DEF PartsInArchive
    <3> QED
      BY <1>1, <3>1, SubSeqProperties
  <2>2. archive' = Append(kept, saving) /\ turns' = turns /\ saving \in Nat
    BY <1>5 DEF Saves, MemoryTypeOK
  <2> HIDE DEF kept
  <2>3. /\ Len(archive') = turns.part + 1
        /\ \A k \in 1 .. turns.part : archive'[k] = archive[k]
    BY <2>1, <2>2, AppendProperties
  <2> QED
    BY <1>1, <2>2, <2>3 DEF PartsInArchive, SavedIsArchived
<1>6. CASE SaveEnds
  <2>1. archive' = archive
    BY <1>6 DEF SaveEnds
  <2>2. CASE turns' = turns
    BY <1>2, <2>1, <2>2
  <2>3. CASE turns.part < Len(archive) /\ Last(archive) = saving /\ turns' = Saved
    <3>1. turns'.part = turns.part + 1 /\ turns'.saved = saving
      BY <1>1, <2>3 DEF Saved
    <3>2. Len(archive) = turns.part + 1
      BY <1>1, <2>3 DEF PartsInArchive
    <3>3. archive[turns.part + 1] = saving /\ saving \in Nat
      BY <2>3, <3>2 DEF Last, MemoryTypeOK
    <3> QED
      BY <1>1, <2>1, <3>1, <3>2, <3>3 DEF PartsInArchive, SavedIsArchived
  <2> QED
    BY <1>6, <2>2, <2>3 DEF SaveEnds
<1>7. CASE Crash
  <2>1. turns'.part = 0 /\ turns'.saved = 0 /\ archive' = <<>>
    BY <1>7 DEF Crash, NoTurns
  <2> QED
    BY <2>1 DEF PartsInArchive, SavedIsArchived
<1>8. /\ WritesAudit \/ WritesCard \/ WritesSnapshot \/ WritesLife \/ DiskFails \/ StartsSync => UNCHANGED <<turns, archive>>
      /\ \A c \in wiki.calls : SyncEnds(c) => UNCHANGED <<turns, archive>>
      /\ \A i \in DOMAIN threads : ThreadReads(i) \/ ThreadWrites(i) => UNCHANGED <<turns, archive>>
      /\ \A b \in Boots : BootRecords(b) \/ BootConsolidates(b) \/ BootReadsCards(b) \/ BootActivates(b)
                             => UNCHANGED <<turns, archive>>
      /\ Leaves \/ UNCHANGED memoryVars => UNCHANGED <<turns, archive>>
  BY DEF WritesAudit, WritesCard, WritesSnapshot, WritesLife, DiskFails, StartsSync, SyncEnds, ThreadReads,
         ThreadWrites, BootRecords, BootConsolidates, BootReadsCards, BootActivates, Leaves, memoryVars
<1> QED
  BY <1>2, <1>3, <1>4, <1>5, <1>6, <1>7, <1>8 DEF MemoryNext, Directs, Revokes

LEMMA MemoryInvInit == MemoryInit => MemoryInv
<1> SUFFICES ASSUME MemoryInit
             PROVE  MemoryInv
  OBVIOUS
<1>1. MemoryTypeOK
  BY MemoryTypeInit
<1>2. RevisionInOrder
  BY DEF MemoryInit, RevisionInOrder, CardsFollowAudit, NotWriting, NoRevision
<1>3. OnlyConfirmed
  BY DEF MemoryInit, OnlyConfirmed, Confirmed, NotWriting, NoRevision, NoBoot, NoRow
<1>4. EvidenceWasHeard
  <2>1. \A v : Spoken(v) = {}
    BY DEF MemoryInit, Spoken
  <2>2. \A v : Cardinality(Spoken(v)) = 0
    BY <2>1, FS_EmptySet
  <2> QED
    BY <2>2 DEF MemoryInit, EvidenceWasHeard, Supported, NoRow
<1>5. PartsInArchive
  BY DEF MemoryInit, PartsInArchive, SavedIsArchived, NoTurns
<1> QED
  BY <1>1, <1>2, <1>3, <1>4, <1>5 DEF MemoryInv

LEMMA MemoryInvStep == MemoryInv /\ [MemoryNext]_memoryVars => MemoryInv'
BY MemoryTypeStep, RevisionStep, ConfirmedStep, EvidenceStep, PartsStep DEF MemoryInv

LEMMA MemoryInvHolds == MemorySpec => []MemoryInv
BY MemoryInvInit, MemoryInvStep, PTL DEF MemorySpec

\* The state of the memory is well typed in every reachable state, and a row of
\* the lifecycle is proposed only with evidence.
THEOREM MemoryTypeCorrect == MemorySpec => []MemoryTypeOK
<1>1. MemoryInv => MemoryTypeOK
  BY DEF MemoryInv
<1> QED
  BY <1>1, MemoryInvHolds, PTL

\* No card on disk is ahead of its audit, at whichever write of a revision the
\* process stopped or the disk refused.
THEOREM CardsNeverPassAudit == MemorySpec => []CardsFollowAudit
<1>1. MemoryInv => CardsFollowAudit
  BY DEF MemoryInv, RevisionInOrder
<1> QED
  BY <1>1, MemoryInvHolds, PTL

\* However many threads consolidate turns at once, a preference is active only
\* if the owner confirmed it and proposed only after three turns spoke of it.
THEOREM StagesAreGrounded == MemorySpec => []StagesNeedGrounds
<1>1. MemoryInv => StagesNeedGrounds
  <2> SUFFICES ASSUME MemoryInv, NEW v \in Values
               PROVE  /\ life[v].stage = "active" => v \in said.confirmed
                      /\ life[v].stage = "proposed" => said.heard[v] >= 3
    BY DEF StagesNeedGrounds
  <2>1. life[v].stage = "active" => v \in said.confirmed
    BY DEF MemoryInv, OnlyConfirmed
  <2>2. ASSUME life[v].stage = "proposed"
        PROVE  said.heard[v] >= 3
    <3>1. life[v] \in Rows /\ said.heard[v] \in Nat /\ Cardinality(Spoken(v)) \in Nat
      BY SpokenFinite DEF MemoryInv, MemoryTypeOK
    <3>2. life[v].evidence \in Nat /\ life[v].evidence >= 3
      BY <2>2, <3>1 DEF Rows, ProposalEvidence
    <3>3. life[v].evidence + Cardinality(Spoken(v)) <= said.heard[v]
      BY <2>2 DEF MemoryInv, EvidenceWasHeard, Supported
    <3> QED
      BY <3>1, <3>2, <3>3
  <2> QED
    BY <2>1, <2>2
<1> QED
  BY <1>1, MemoryInvHolds, PTL

\* The turns counted as saved are in the archive, for every size of a part and
\* however saves fail, are cut off by the session's end or overtaken by turns.
THEOREM SavedTurnsAreArchived == MemorySpec => []SavedIsArchived
<1>1. MemoryInv => SavedIsArchived
  BY DEF MemoryInv, PartsInArchive
<1> QED
  BY <1>1, MemoryInvHolds, PTL

\* Whatever MERRICK keeps or is about to write as the owner's preference, in the
\* files, in the lifecycle or in an import under way, the owner confirmed.
THEOREM NothingUnconfirmedIsKept == MemorySpec => []OnlyConfirmed
<1>1. MemoryInv => OnlyConfirmed
  BY DEF MemoryInv
<1> QED
  BY <1>1, MemoryInvHolds, PTL

\* An import that found the exchange stale is the only one that consolidates it.
OneImport ==
  /\ episode.observed = IF episode.consolidated THEN 1 ELSE 0
  /\ \A b \in Boots : boot[b].pc = "consolidate" /\ boot[b].stale => ~episode.consolidated

LEMMA OneImportStep ==
  ASSUME \A b, c \in Boots : b = c
  PROVE  MemoryTypeOK /\ OneImport /\ [MemoryNext]_memoryVars => OneImport'
<1> SUFFICES ASSUME MemoryTypeOK, OneImport, [MemoryNext]_memoryVars
             PROVE  OneImport'
  OBVIOUS
<1> USE DEF Files, Thoughts, Transcript
<1>1. /\ episode \in [there : BOOLEAN, consolidated : BOOLEAN, observed : Nat]
      /\ boot \in [Boots -> [pc : {"off", "consolidate", "cards", "activate"}, stale : BOOLEAN, value : Valued]]
  BY DEF MemoryTypeOK
<1>2. CASE UNCHANGED <<boot, episode>>
  BY <1>2 DEF OneImport
<1>3. ASSUME NEW b \in Boots, BootRecords(b)
      PROVE  OneImport'
  <2>1. /\ episode'.observed = episode.observed /\ episode'.consolidated = episode.consolidated
        /\ boot'[b].stale = ~episode.consolidated
    BY <1>1, <1>3 DEF BootRecords, NoBoot
  <2> QED
    BY <2>1 DEF OneImport
<1>4. ASSUME NEW b \in Boots, BootConsolidates(b)
      PROVE  OneImport'
  <2>1. boot'[b].pc = "cards" /\ boot[b].pc = "consolidate"
    BY <1>1, <1>4 DEF BootConsolidates
  <2>2. CASE boot[b].stale
    <3>1. ~episode.consolidated
      BY <2>1, <2>2 DEF OneImport
    <3>2. episode'.observed = episode.observed + 1 /\ episode'.consolidated = TRUE
      BY <1>1, <1>4, <2>2 DEF BootConsolidates
    <3> QED
      BY <2>1, <3>1, <3>2 DEF OneImport
  <2>3. CASE ~boot[b].stale
    <3>1. episode' = episode
      BY <1>4, <2>3 DEF BootConsolidates
    <3> QED
      BY <2>1, <3>1 DEF OneImport
  <2> QED
    BY <2>2, <2>3
<1>5. ASSUME NEW b \in Boots, BootReadsCards(b) \/ BootActivates(b)
      PROVE  OneImport'
  <2>1. episode' = episode /\ boot'[b].pc \in {"activate", "off"}
    <3>1. CASE BootReadsCards(b)
      BY <1>1, <3>1 DEF BootReadsCards
    <3>2. CASE BootActivates(b)
      BY <1>1, <3>2 DEF BootActivates, NoBoot
    <3> QED
      BY <1>5, <3>1, <3>2
  <2> QED
    BY <2>1 DEF OneImport
<1>6. CASE Crash
  BY <1>6 DEF Crash, NoBoot, OneImport
<1>7. /\ \A v \in Values, kind \in {"set", "revoke"} : Confirms(v, kind) => UNCHANGED <<boot, episode>>
      /\ \A v \in Values : Tends(v) => UNCHANGED <<boot, episode>>
      /\ WritesAudit \/ WritesCard \/ WritesSnapshot \/ WritesLife \/ DiskFails \/ StartsSync => UNCHANGED <<boot, episode>>
      /\ \A c \in wiki.calls : SyncEnds(c) => UNCHANGED <<boot, episode>>
      /\ \A i \in DOMAIN threads : ThreadReads(i) \/ ThreadWrites(i) => UNCHANGED <<boot, episode>>
      /\ Saves \/ SaveEnds \/ Leaves \/ UNCHANGED memoryVars => UNCHANGED <<boot, episode>>
  BY DEF Confirms, Tends, WritesAudit, WritesCard, WritesSnapshot, WritesLife, DiskFails, StartsSync, SyncEnds,
         ThreadReads, ThreadWrites, Saves, SaveEnds, Leaves, memoryVars
<1> QED
  BY <1>2, <1>3, <1>4, <1>5, <1>6, <1>7 DEF MemoryNext, Directs, Revokes

\* With one import at a time the archive's exchange is consolidated once, however
\* often the process stops in between.  Two at once can both consolidate it.
THEOREM OneImportConsolidatesOnce ==
  (\A b, c \in Boots : b = c) => (MemorySpec => []ConsolidatedOnce)
<1> SUFFICES ASSUME \A b, c \in Boots : b = c
             PROVE  MemorySpec => []ConsolidatedOnce
  OBVIOUS
<1>1. MemoryInit => OneImport
  BY DEF MemoryInit, OneImport, NoBoot
<1>2. MemoryTypeOK /\ OneImport /\ [MemoryNext]_memoryVars => OneImport'
  BY OneImportStep
<1>3. MemorySpec => []MemoryTypeOK
  BY MemoryTypeCorrect
<1>4. OneImport => ConsolidatedOnce
  BY DEF OneImport, ConsolidatedOnce
<1> QED
  BY <1>1, <1>2, <1>3, <1>4, PTL DEF MemorySpec
=============================================================================
