---------------------------- MODULE GatewayProofs ----------------------------
(***************************************************************************)
(* Theorems of GatewayLifecycle and GatewayRPC.  For any users, gateways,  *)
(* faults and repairs, one gateway at a time works on the state database.  *)
(* For every set of callers, any number of tasks that stop the connection  *)
(* and of bridge processes, every step of the RPC is a step of RPCCalls or *)
(* stutters; that every call ends is left to the runs.                     *)
(***************************************************************************)
EXTENDS GatewayLifecycle, FiniteSetTheorems, SequenceTheorems, WellFoundedInduction, TLAPS

Thens == {"off", "check", "startup"}
TaskType == [pc : PCs, on : 0..MaxGateways, seen : BOOLEAN, tries : 0..3, then : Thens]

\* A task inside the startup of ensure_ready, and one that has spawned there: it
\* holds the lock, through the shutdown of a failed attempt too.
Failing(r)  == r.pc \in Closing /\ r.then = "startup"
Starting(r) == r.pc \in {"poll", "polling"} \/ Failing(r)

\* What task t, suspended in r, relies on while l holds the lock, the gateways of
\* L are alive, the database needs b repairs and the record names p.
Relies(r, t, l, L, b, p) ==
  /\ r.pc \in Holding \/ Failing(r) => l = t
  /\ r.pc \in {"prepare", "spawn", "repair"} => L = {}
  /\ b > 0 /\ Starting(r) => L \subseteq {p}
  /\ r.pc = "repair" => r.tries < 3
Own(t) == Relies(task[t], t, lock, Live, broken, record.pid)

\* No script hides from the process list, and the gateways of an older bundle
\* are orphans.
Recognised == (\A g \in Gateways : gw[g] # "launching") /\ legacy \subseteq orphan

AtMostOne == \A g, h \in Live : g = h

\* No gateway of this bundle serves an unrepaired database.
ServesWhole == broken > 0 => Listening = {}

LifeInv == TypeOK /\ Recognised /\ AtMostOne /\ ServesWhole /\ \A t \in Tasks : Own(t)

-----------------------------------------------------------------------------
\* The updates of a task, field by field.
LEMMA GoesTo ==
  ASSUME NEW r \in TaskType
  PROVE  \A c \in PCs : LET n == [r EXCEPT !.pc = c, !.on = 0, !.seen = FALSE]
         IN  n \in TaskType /\ n.pc = c /\ n.then = r.then /\ n.tries = r.tries
<1>1. 0 \in 0..MaxGateways /\ FALSE \in BOOLEAN /\ "off" \in Thens
  BY GatewayLifecycleAssumption DEF Thens
<1> QED BY <1>1 DEF TaskType

LEMMA GoesOn ==
  ASSUME NEW r \in TaskType
  PROVE  \A c \in PCs, g \in 0..MaxGateways : LET n == [r EXCEPT !.pc = c, !.on = g]
         IN  n \in TaskType /\ n.pc = c /\ n.then = r.then /\ n.tries = r.tries
  BY GatewayLifecycleAssumption DEF TaskType, Thens

\* A task that is not in ensure_ready, or has come out of it with a gateway.
LEMMA Idle ==
  /\ Off \in TaskType /\ Off.pc = "off"
  /\ LET n == [Off EXCEPT !.pc = "link"] IN n \in TaskType /\ n.pc = "link"
<1>1. 0 \in 0..MaxGateways /\ "off" \in PCs /\ "link" \in PCs
  BY GatewayLifecycleAssumption DEF PCs
<1>2. Off \in TaskType
  BY <1>1 DEF Off, TaskType, Thens
<1>3. [Off EXCEPT !.pc = "link"] \in TaskType
  BY <1>1, <1>2 DEF TaskType
<1>4. Off.pc = "off" /\ [Off EXCEPT !.pc = "link"].pc = "link"
  BY DEF Off
<1> QED BY <1>2, <1>3, <1>4

\* The process spawned next is a new one, while there is one.
LEMMA FirstFresh ==
  Fresher \in 0..MaxGateways /\ (Fresh # {} => Fresher \in Fresh)
<1>1. CASE Fresh = {}
  BY GatewayLifecycleAssumption, <1>1 DEF Fresher
<1>2. CASE Fresh # {}
  <2>1. Fresh \subseteq Nat /\ Fresh \subseteq 0..MaxGateways
    BY GatewayLifecycleAssumption DEF Fresh, Gateways
  <2>2. PICK g \in Fresh : \A h \in Fresh : ~(<<h, g>> \in OpToRel(<, Nat))
    <3> HIDE DEF Fresh
    <3> QED BY <1>2, <2>1, WFMin, NatLessThanWellFounded
  <2>3. \A h \in Fresh : ~(h < g)
    BY <2>1, <2>2 DEF OpToRel
  <2>4. \A h \in Fresh : g <= h
    BY <2>1, <2>3
  <2>5. Fresher \in Fresh
    BY <1>2, <2>4 DEF Fresher
  <2> QED BY <2>1, <2>5
<1> QED BY <1>1, <1>2

\* A task that holds nothing relies on nothing.
LEMMA Idly ==
  ASSUME NEW r, r.pc \notin Holding \cup Closing, NEW t, NEW l, NEW L, NEW b, NEW p
  PROVE  Relies(r, t, l, L, b, p)
  BY DEF Relies, Failing, Starting, Holding

\* What the tasks rely on survives what the others do.
LEMMA OtherKept ==
  ASSUME LifeInv, NEW u \in Tasks, task'[u] = task[u],
         \/ lock # u
         \/ /\ lock' = u /\ Live' \subseteq Live
            /\ broken' > 0 => broken > 0 /\ (Live \subseteq {record.pid} => Live' \subseteq {record'.pid})
  PROVE  Own(u)'
<1>1. Own(u)
  BY DEF LifeInv
<1> QED BY <1>1 DEF Own, Relies, Starting, Holding

\* What is known of a state of the invariant, and of the gateways' states.
States == {"none", "booting", "migrating", "serving", "stopping", "dead"}
Rest == /\ lease \in 0..MaxGateways /\ record \in [pid : 0..MaxGateways, port : 0..MaxGateways]
        /\ process \in 0..MaxGateways /\ port \in 0..MaxGateways /\ bridge \in 0..MaxGateways
        /\ stray \in BOOLEAN /\ restoring \in 0..MaxGateways /\ faults \in 0..MaxFaults

LEMMA Given ==
  ASSUME LifeInv
  PROVE  /\ Rest /\ lock \in Tasks \cup {NoTask}
         /\ NoTask \notin Tasks /\ task \in [Tasks -> TaskType]
         /\ "warm" \in Tasks /\ "heal" \in Tasks
         /\ gw \in [Gateways -> States] /\ Live \subseteq Gateways
         /\ 0 \notin Gateways /\ 0 \in 0..MaxGateways
         /\ broken \in 0..Migrations /\ NoRecord \in [pid : 0..MaxGateways, port : 0..MaxGateways]
<1>1. 0 \notin Gateways /\ 0 \in 0..MaxGateways /\ NoTask \notin Tasks
  BY GatewayLifecycleAssumption DEF Gateways, NoTask, Tasks
<1>2. /\ Rest /\ lock \in Tasks \cup {NoTask}
      /\ task \in [Tasks -> TaskType] /\ broken \in 0..Migrations
  BY DEF LifeInv, TypeOK, Rest, TaskType, Thens
<1>3. gw \in [Gateways -> States] /\ Live \subseteq Gateways
  BY DEF LifeInv, TypeOK, Recognised, States, Live
<1> QED BY <1>1, <1>2, <1>3 DEF NoRecord, Tasks

\* A task goes on to r.
LEMMA TaskActs ==
  ASSUME LifeInv, Rest', lock' \in Tasks \cup {NoTask}, NEW t \in Tasks,
         NEW r \in TaskType, task' = [task EXCEPT ![t] = r],
         legacy' = legacy, orphan' = orphan, gw' \in [Gateways -> States], AtMostOne',
         broken' \in 0..Migrations, broken' > 0 => broken > 0 /\ Listening' \subseteq Listening,
         \A u \in Tasks : u # t /\ lock = u => lock' = u,
         \/ lock = t
         \/ /\ Live' \subseteq Live
            /\ broken' > 0 /\ Live \subseteq {record.pid} => Live' \subseteq {record'.pid},
         Relies(r, t, lock', Live', broken', record'.pid)
  PROVE  LifeInv'
<1>1. TypeOK'
  <2>1. task' \in [Tasks -> TaskType]
    BY Given
  <2>2. orphan' \subseteq Gateways /\ legacy' \subseteq Gateways
    BY DEF LifeInv, TypeOK
  <2> QED BY <2>1, <2>2 DEF TypeOK, Rest, States, TaskType, Thens
<1>2. Recognised' /\ ServesWhole'
  BY DEF LifeInv, Recognised, ServesWhole, States
<1>3. ASSUME NEW u \in Tasks PROVE Own(u)'
  <2>1. task'[u] = IF u = t THEN r ELSE task[u]
    BY Given
  <2>2. CASE u = t
    BY <2>1, <2>2 DEF Own
  <2>3. CASE u # t
    BY <2>1, <2>3, OtherKept
  <2> QED BY <2>2, <2>3
<1> QED BY <1>1, <1>2, <1>3 DEF LifeInv

\* It leaves the gateways and the repairs alone.
LEMMA TaskGoes ==
  ASSUME LifeInv, Rest', lock' \in Tasks \cup {NoTask}, NEW t \in Tasks,
         NEW r \in TaskType, task' = [task EXCEPT ![t] = r], UNCHANGED <<gw, orphan, legacy, broken>>,
         \A u \in Tasks : u # t /\ lock = u => lock' = u,
         lock = t \/ (Live \subseteq {record.pid} => Live \subseteq {record'.pid}),
         Relies(r, t, lock', Live, broken, record'.pid)
  PROVE  LifeInv'
<1>1. Live' = Live /\ Listening' = Listening
  BY DEF Live, Listening
<1>2. AtMostOne'
  BY <1>1 DEF LifeInv, AtMostOne
<1> QED BY <1>1, <1>2, Given, TaskActs

\* It leaves ensure_ready.
LEMMA TaskLeaves ==
  ASSUME LifeInv, Rest', NEW t \in Tasks, Leaves(t),
         UNCHANGED <<gw, orphan, legacy, broken, record>>
  PROVE  LifeInv'
<1>1. task' = [task EXCEPT ![t] = Off] /\ lock' = IF lock = t THEN NoTask ELSE lock
  BY DEF Leaves
<1>2. Relies(Off, t, lock', Live, broken, record'.pid)
  BY Idle, Idly DEF Holding, Closing
<1> QED BY <1>1, <1>2, Given, Idle, TaskGoes

\* The world changes and no task does.
LEMMA WorldActs ==
  ASSUME LifeInv, Rest', task' = task, lock' = lock, legacy' = legacy, orphan' = orphan,
         gw' \in [Gateways -> States], Live' \subseteq Live, broken' \in 0..Migrations,
         broken' > 0 => broken > 0 /\ Listening' \subseteq Listening,
         broken' > 0 /\ Live \subseteq {record.pid} => Live' \subseteq {record'.pid}
  PROVE  LifeInv'
<1>1. TypeOK'
  BY DEF LifeInv, TypeOK, Rest, States
<1>2. Recognised' /\ AtMostOne' /\ ServesWhole'
  BY DEF LifeInv, Recognised, AtMostOne, ServesWhole, States
<1>3. ASSUME NEW u \in Tasks PROVE Own(u)'
  BY <1>3, OtherKept
<1> QED BY <1>1, <1>2, <1>3 DEF LifeInv

\* What is terminated is alive until it is gone.
LEMMA KillActs ==
  ASSUME LifeInv, NEW G \in SUBSET Live, Kill(G), legacy' = legacy
  PROVE  /\ gw' \in [Gateways -> States] /\ Live' = Live
         /\ Listening' \subseteq Listening /\ AtMostOne'
<1>1. gw' \in [Gateways -> States] /\ Live' = Live /\ Listening' \subseteq Listening
  BY Given DEF Kill, Live, Listening, States
<1> QED BY <1>1 DEF LifeInv, AtMostOne

-----------------------------------------------------------------------------
\* The steps of ensure_ready.
LEMMA BeginsKeeps ==
  ASSUME LifeInv, NEW t \in Tasks, Begins(t)
  PROVE  LifeInv'
<1> DEFINE r == [task[t] EXCEPT !.pc = "check", !.on = 0, !.seen = FALSE]
<1>1. "check" \in PCs /\ "check" \notin Holding \cup Closing /\ task[t] \in TaskType
  BY Given DEF PCs, Holding, Closing
<1>2. r \in TaskType /\ r.pc = "check"
  BY <1>1, GoesTo
<1>3. task' = [task EXCEPT ![t] = r] /\ UNCHANGED <<gw, orphan, legacy, broken, record, lock>> /\ Rest'
  BY Given DEF Begins, Goes, Rest
<1> HIDE DEF r
<1>4. Relies(r, t, lock', Live, broken, record'.pid)
  BY <1>1, <1>2, Idly
<1> QED BY <1>2, <1>3, <1>4, Given, TaskGoes

LEMMA Origins ==
  /\ DOMAIN Probing = {"check", "recheck", "poll"}
  /\ Probing["check"] = "checking"
  /\ Probing["recheck"] = "rechecking" /\ Probing["poll"] = "polling"
  /\ Origin("checking") = "check" /\ Origin("rechecking") = "recheck" /\ Origin("polling") = "poll"
  /\ Unready("check") = "wait" /\ Unready("recheck") = "clean" /\ Unready("poll") = "poll"
<1>1. /\ DOMAIN Probing = {"check", "recheck", "poll"}
      /\ Probing["check"] = "checking"
      /\ Probing["recheck"] = "rechecking" /\ Probing["poll"] = "polling"
  BY DEF Probing
<1>2. Origin("checking") = "check" /\ Origin("rechecking") = "recheck" /\ Origin("polling") = "poll"
  BY <1>1 DEF Origin
<1> QED BY <1>1, <1>2 DEF Unready

\* Any change of phase that leaves the record and the lock: what the task relied
\* on is enough for the next one.
LEMMA PhaseGoes ==
  ASSUME LifeInv, Rest', NEW t \in Tasks, NEW c \in PCs \ {"repair"}, NEW r \in TaskType,
         r.pc = c, r.then = task[t].then, task' = [task EXCEPT ![t] = r],
         UNCHANGED <<gw, orphan, legacy, broken, record, lock>>,
         c \in Closing => task[t].pc \in Closing,
         c \in Holding => task[t].pc \in Holding,
         c \in {"prepare", "spawn"} => Live = {},
         c \in {"poll", "polling"} => task[t].pc \in {"poll", "polling"}
  PROVE  LifeInv'
<1>1. Own(t)
  BY DEF LifeInv
<1>2. Relies(r, t, lock', Live, broken, record'.pid)
  BY <1>1 DEF Own, Relies, Starting, Failing
<1> QED BY <1>2, Given, TaskGoes

LEMMA ProbeKeeps ==
  ASSUME LifeInv, NEW t \in Tasks, Probe(t)
  PROVE  LifeInv'
<1>0. /\ task[t] \in TaskType /\ task[t].pc \in {"check", "recheck", "poll"}
      /\ UNCHANGED <<gw, orphan, legacy, broken, record>> /\ Rest' /\ process \in 0..MaxGateways
  BY Given, Origins DEF Probe, Rest
<1>1. ASSUME NEW up \in BOOLEAN, UNCHANGED lock,
             task' = [task EXCEPT ![t] =
                       [task[t] EXCEPT !.pc = Probing[task[t].pc], !.on = process, !.seen = up]]
      PROVE  LifeInv'
  <2> DEFINE c == Probing[task[t].pc]
             r == [task[t] EXCEPT !.pc = c, !.on = process, !.seen = up]
  <2>1. /\ c \in PCs \ {"repair"} /\ c \notin Closing /\ c \notin {"prepare", "spawn"}
        /\ c \in Holding => task[t].pc \in Holding
        /\ c \in {"poll", "polling"} => task[t].pc \in {"poll", "polling"}
    BY <1>0, Origins DEF PCs, Holding, Closing
  <2> HIDE DEF c
  <2>2. r \in TaskType /\ r.pc = c /\ r.then = task[t].then
    BY <1>0, <2>1 DEF TaskType
  <2>3. task' = [task EXCEPT ![t] = r]
    BY <1>1 DEF c
  <2> HIDE DEF r
  <2> QED BY <1>0, <1>1, <2>1, <2>2, <2>3, PhaseGoes
<1>2. CASE task[t].pc # "poll" /\ Goes(t, Unready(task[t].pc)) /\ UNCHANGED lock
  <2> DEFINE c == Unready(task[t].pc)
             r == [task[t] EXCEPT !.pc = c, !.on = 0, !.seen = FALSE]
  <2>1. /\ c \in PCs \ {"repair"} /\ c \notin Closing /\ c \notin {"prepare", "spawn", "poll", "polling"}
        /\ c \in Holding => task[t].pc \in Holding
    BY <1>0, <1>2, Origins DEF PCs, Holding, Closing
  <2>2. task' = [task EXCEPT ![t] = r]
    BY <1>2 DEF Goes
  <2> HIDE DEF c
  <2>3. r \in TaskType /\ r.pc = c /\ r.then = task[t].then
    BY <1>0, <2>1, GoesTo
  <2> HIDE DEF r
  <2> QED BY <1>0, <1>2, <2>1, <2>2, <2>3, PhaseGoes
<1>3. CASE Leaves(t)
  BY <1>0, <1>3, TaskLeaves
<1>4. \/ \E up \in BOOLEAN : UNCHANGED lock /\
           task' = [task EXCEPT ![t] =
                     [task[t] EXCEPT !.pc = Probing[task[t].pc], !.on = process, !.seen = up]]
      \/ task[t].pc # "poll" /\ Goes(t, Unready(task[t].pc)) /\ UNCHANGED lock
      \/ Leaves(t)
  <2>1. {port = process /\ process \in Listening} \cup (IF "slow_health" \in Env THEN {FALSE} ELSE {})
           \subseteq BOOLEAN
    OBVIOUS
  <2> DEFINE Ups == {port = process /\ process \in Listening}
                      \cup (IF "slow_health" \in Env THEN {FALSE} ELSE {})
  <2>2. \/ \E up \in Ups : UNCHANGED lock /\
           task' = [task EXCEPT ![t] =
                     [task[t] EXCEPT !.pc = Probing[task[t].pc], !.on = process, !.seen = up]]
        \/ task[t].pc # "poll" /\ Goes(t, Unready(task[t].pc)) /\ UNCHANGED lock
        \/ Leaves(t)
    BY DEF Probe
  <2>3. Ups \subseteq BOOLEAN
    BY <2>1
  <2> HIDE DEF Ups
  <2> QED BY <2>2, <2>3
<1> QED BY <1>1, <1>2, <1>3, <1>4

\* A record that comes back while the database needs repairs is of nobody.
LEMMA RecordsAlike ==
  ASSUME LifeInv, record = NoRecord, Live \subseteq {record.pid}
  PROVE  Live = {}
  BY Given DEF NoRecord

LEMMA ProbeEndsKeeps ==
  ASSUME LifeInv, NEW t \in Tasks, ProbeEnds(t)
  PROVE  LifeInv'
<1>0. /\ task[t] \in TaskType /\ task[t].pc \in {"checking", "rechecking", "polling"}
      /\ UNCHANGED <<gw, orphan, legacy, lease, broken, process, port, bridge, stray, faults, restoring>>
      /\ Rest /\ task[t].on \in 0..MaxGateways
  BY Given, Origins DEF ProbeEnds, TaskType
<1>1. CASE task[t].seen
  <2>1. /\ record' = IF record = NoRecord THEN [pid |-> task[t].on, port |-> port] ELSE record
        /\ lock' = IF lock = t THEN NoTask ELSE lock
        /\ task' = [task EXCEPT ![t] = IF t = "heal" THEN Off ELSE [Off EXCEPT !.pc = "link"]]
    BY <1>1 DEF ProbeEnds
  <2> DEFINE r == IF t = "heal" THEN Off ELSE [Off EXCEPT !.pc = "link"]
  <2>2. r \in TaskType /\ r.pc \in {"off", "link"}
    BY Idle
  <2>3. task' = [task EXCEPT ![t] = r]
    BY <2>1
  <2> HIDE DEF r
  <2>4. Rest'
    BY <1>0, <2>1 DEF Rest
  <2>5. Relies(r, t, lock', Live, broken, record'.pid)
    BY <2>2, Idly DEF Holding, Closing
  <2>6. lock = t \/ (Live \subseteq {record.pid} => Live \subseteq {record'.pid})
    BY <2>1, RecordsAlike
  <2> QED BY <1>0, <2>1, <2>2, <2>3, <2>4, <2>5, <2>6, Given, TaskGoes
<1>2. CASE ~task[t].seen
  <2> DEFINE c == Unready(Origin(task[t].pc))
             r == [task[t] EXCEPT !.pc = c, !.on = 0, !.seen = FALSE]
  <2>1. /\ c \in PCs \ {"repair"} /\ c \notin Closing /\ c \notin {"prepare", "spawn"}
        /\ c \in Holding => task[t].pc \in Holding
        /\ c \in {"poll", "polling"} => task[t].pc \in {"poll", "polling"}
    BY <1>0, Origins DEF PCs, Holding, Closing
  <2>2. task' = [task EXCEPT ![t] = r] /\ UNCHANGED <<record, lock>>
    BY <1>2 DEF ProbeEnds, Goes
  <2> HIDE DEF c
  <2>3. r \in TaskType /\ r.pc = c /\ r.then = task[t].then
    BY <1>0, <2>1, GoesTo
  <2>4. Rest'
    BY <1>0, <2>2 DEF Rest
  <2> HIDE DEF r
  <2> QED BY <1>0, <2>1, <2>2, <2>3, <2>4, PhaseGoes
<1> QED BY <1>1, <1>2

\* The lock is free, so nobody relies on it.
LEMMA LocksKeeps ==
  ASSUME LifeInv, NEW t \in Tasks, Locks(t)
  PROVE  LifeInv'
<1> DEFINE r == [task[t] EXCEPT !.pc = "recheck", !.on = 0, !.seen = FALSE]
<1>1. "recheck" \in PCs /\ task[t] \in TaskType
  BY Given DEF PCs, Holding
<1>2. r \in TaskType /\ r.pc = "recheck"
  BY <1>1, GoesTo
<1>3. /\ task' = [task EXCEPT ![t] = r] /\ lock = NoTask /\ lock' = t
      /\ UNCHANGED <<gw, orphan, legacy, broken, record>> /\ Rest'
  BY Given DEF Locks, Goes, Rest
<1> HIDE DEF r
<1>4. Relies(r, t, lock', Live, broken, record'.pid)
  BY <1>2, <1>3 DEF Relies, Starting, Failing, Closing
<1> QED BY <1>2, <1>3, <1>4, Given, TaskGoes

\* The holder of the lock tidies up.
LEMMA CleanOwnerKeeps ==
  ASSUME LifeInv, NEW t \in Tasks, CleanOwner(t) \/ OwnerGone(t)
  PROVE  LifeInv'
<1>0. /\ task[t] \in TaskType /\ task[t].pc \in {"clean", "reclaiming"} /\ lock = t
      /\ UNCHANGED <<orphan, legacy, lease, broken, process, port, bridge, lock, stray, faults, restoring>>
      /\ Rest /\ "sweep" \in PCs /\ "reclaiming" \in PCs
  BY Given DEF CleanOwner, OwnerGone, LifeInv, Own, Relies, Holding, PCs
<1>1. CASE record' \in {record, NoRecord} /\ Goes(t, "sweep") /\ UNCHANGED gw
  <2> DEFINE r == [task[t] EXCEPT !.pc = "sweep", !.on = 0, !.seen = FALSE]
  <2>1. task' = [task EXCEPT ![t] = r] /\ Rest'
    BY <1>0, <1>1, Given DEF Goes, Rest
  <2>2. r \in TaskType /\ r.pc = "sweep"
    BY <1>0, GoesTo
  <2> HIDE DEF r
  <2>3. Relies(r, t, lock', Live, broken, record'.pid)
    BY <1>0, <2>2 DEF Relies, Starting, Failing, Closing
  <2> QED BY <1>0, <1>1, <2>1, <2>2, <2>3, Given, TaskGoes
<1>2. CASE /\ record.pid \in Listening /\ Kill({record.pid}) /\ record' = record
           /\ task' = [task EXCEPT ![t] = [task[t] EXCEPT !.pc = "reclaiming", !.on = record.pid]]
  <2> DEFINE r == [task[t] EXCEPT !.pc = "reclaiming", !.on = record.pid]
  <2>1. {record.pid} \in SUBSET Live /\ Rest'
    BY <1>0, <1>2 DEF Listening, Live, Rest
  <2>2. r \in TaskType /\ r.pc = "reclaiming" /\ task' = [task EXCEPT ![t] = r]
    BY <1>0, <1>2 DEF TaskType, Rest
  <2>3. /\ gw' \in [Gateways -> States] /\ Live' = Live
        /\ Listening' \subseteq Listening /\ AtMostOne'
    BY <1>0, <1>2, <2>1, KillActs
  <2> HIDE DEF r
  <2>4. Relies(r, t, lock', Live', broken', record'.pid)
    BY <1>0, <2>2 DEF Relies, Starting, Failing, Closing
  <2> QED BY <1>0, <1>2, <2>1, <2>2, <2>3, <2>4, Given, TaskActs
<1>3. \/ record' \in {record, NoRecord} /\ Goes(t, "sweep") /\ UNCHANGED gw
      \/ /\ record.pid \in Listening /\ Kill({record.pid}) /\ record' = record
         /\ task' = [task EXCEPT ![t] = [task[t] EXCEPT !.pc = "reclaiming", !.on = record.pid]]
  BY DEF CleanOwner, OwnerGone
<1> QED BY <1>1, <1>2, <1>3

\* Only when nothing of its own and no orphan is alive does it go on.
LEMMA SweepKeeps ==
  ASSUME LifeInv, NEW t \in Tasks, Sweep(t)
  PROVE  LifeInv'
<1>0. /\ task[t] \in TaskType /\ task[t].pc = "sweep" /\ lock = t
      /\ UNCHANGED <<orphan, legacy, lease, broken, record, process, port, bridge, stray, faults, restoring>>
      /\ Rest /\ Rest' /\ "prepare" \in PCs /\ Kill(Reclaimable)
  BY Given DEF Sweep, LifeInv, Own, Relies, Holding, PCs, Rest
<1>1. /\ gw' \in [Gateways -> States] /\ Live' = Live
      /\ Listening' \subseteq Listening /\ AtMostOne'
  <2>1. Reclaimable \in SUBSET Live
    BY DEF Reclaimable, Managed
  <2> QED BY <1>0, <2>1, KillActs
<1>2. CASE Leaves(t)
  <2>1. task' = [task EXCEPT ![t] = Off] /\ lock' = NoTask
    BY <1>0, <1>2 DEF Leaves
  <2>2. Relies(Off, t, lock', Live', broken', record'.pid)
    BY Idle, Idly DEF Holding, Closing
  <2> QED BY <1>0, <1>1, <2>1, <2>2, Given, Idle, TaskActs
<1>3. CASE Managed \ orphan = {} /\ Reclaimable = {} /\ Goes(t, "prepare") /\ UNCHANGED lock
  <2> DEFINE r == [task[t] EXCEPT !.pc = "prepare", !.on = 0, !.seen = FALSE]
  <2>1. Live = {}
    BY <1>3, Given DEF Reclaimable, Managed, LifeInv, Recognised, States
  <2>2. task' = [task EXCEPT ![t] = r] /\ r \in TaskType /\ r.pc = "prepare"
    BY <1>0, <1>3, GoesTo DEF Goes
  <2> HIDE DEF r
  <2>3. Relies(r, t, lock', Live', broken', record'.pid)
    BY <1>0, <1>1, <1>3, <2>1, <2>2 DEF Relies
  <2> QED BY <1>0, <1>1, <1>3, <2>2, <2>3, Given, TaskActs
<1>4. CASE UNCHANGED <<task, lock>>
  BY <1>0, <1>1, <1>4, Given, WorldActs
<1>5. \/ Leaves(t)
      \/ Managed \ orphan = {} /\ Reclaimable = {} /\ Goes(t, "prepare") /\ UNCHANGED lock
      \/ UNCHANGED <<task, lock>>
  BY DEF Sweep
<1> QED BY <1>2, <1>3, <1>4, <1>5

\* The lease is taken from nobody alive.
LEMMA PrepareKeeps ==
  ASSUME LifeInv, NEW t \in Tasks, Prepare(t)
  PROVE  LifeInv'
<1> DEFINE r == [task[t] EXCEPT !.pc = "spawn", !.tries = 1]
<1>1. /\ task[t] \in TaskType /\ task[t].pc = "prepare" /\ Live = {} /\ lock = t
      /\ "spawn" \in PCs /\ 1 \in 0..3
  BY Given DEF Prepare, LifeInv, Own, Relies, Holding, PCs
<1>2. r \in TaskType /\ r.pc = "spawn"
  BY <1>1 DEF TaskType
<1>3. task' = [task EXCEPT ![t] = r] /\ UNCHANGED <<gw, orphan, legacy, broken, record, lock>> /\ Rest'
  BY Given, FirstFresh DEF Prepare, Rest
<1> HIDE DEF r
<1>4. Relies(r, t, lock', Live, broken, record'.pid)
  BY <1>1, <1>2, <1>3 DEF Relies
<1> QED BY <1>2, <1>3, <1>4, Given, TaskGoes

\* A step that ends in an exception, in a link, or in a cancel.
LEMMA FailsKeeps ==
  ASSUME LifeInv, NEW t \in Tasks,
         SetupFails(t) \/ NotSpawned(t) \/ Links(t) \/ Cancel(t)
  PROVE  LifeInv'
<1>1. Leaves(t) /\ UNCHANGED <<gw, orphan, legacy, broken, record>>
  BY DEF SetupFails, NotSpawned, Links, Cancel
<1>2. Rest'
  BY Given DEF SetupFails, NotSpawned, Links, Cancel, Rest
<1> QED BY <1>1, <1>2, TaskLeaves

\* The only step that makes a gateway: none is alive, and the record names it.
LEMMA SpawnKeeps ==
  ASSUME LifeInv, "slow_exec" \notin Env, NEW t \in Tasks, Spawn(t)
  PROVE  LifeInv'
<1> DEFINE r == [task[t] EXCEPT !.pc = "poll", !.on = 0, !.seen = FALSE]
<1>1. /\ task[t] \in TaskType /\ task[t].pc = "spawn" /\ Live = {} /\ lock = t /\ "poll" \in PCs
  BY Given DEF Spawn, LifeInv, Own, Relies, Holding, PCs
<1>2. r \in TaskType /\ r.pc = "poll"
  BY <1>1, GoesTo
<1>3. /\ task' = [task EXCEPT ![t] = r] /\ UNCHANGED <<orphan, legacy, broken, lock>>
      /\ gw' = [gw EXCEPT ![Fresher] = "booting"] /\ record' = [pid |-> Fresher, port |-> port]
  BY DEF Spawn, Goes
<1>4. Fresher \in Fresh /\ Fresher \in Gateways /\ Fresher \in 0..MaxGateways
  BY FirstFresh DEF Spawn, Fresh
<1>5. Rest'
  BY <1>4, Given DEF Spawn, Rest
<1> HIDE DEF r
<1>6. gw' \in [Gateways -> States] /\ Live' = {Fresher} /\ Listening' \subseteq Listening
  <2>1. /\ gw' \in [Gateways -> States]
        /\ \A g \in Gateways : gw'[g] = IF g = Fresher THEN "booting" ELSE gw[g]
    BY <1>3, <1>4, Given DEF States
  <2>2. \A g \in Gateways : g # Fresher => gw[g] \in {"none", "dead"}
    BY <1>1 DEF Live
  <2>3. Live' = {Fresher}
    BY <1>4, <2>1, <2>2 DEF Live
  <2>4. Listening' \subseteq Listening
    BY <1>3, <2>1 DEF Listening
  <2> QED BY <2>1, <2>3, <2>4
<1>7. AtMostOne'
  BY <1>6 DEF AtMostOne
<1>8. record'.pid = Fresher
  BY <1>3
<1>9. Relies(r, t, lock', Live', broken', record'.pid)
  BY <1>1, <1>2, <1>3, <1>6, <1>8 DEF Relies
<1> QED BY <1>1, <1>2, <1>3, <1>5, <1>6, <1>7, <1>9, Given, TaskActs

\* The failed start keeps the lock while it shuts down.
LEMMA GivesUpKeeps ==
  ASSUME LifeInv, NEW t \in Tasks, GivesUp(t)
  PROVE  LifeInv'
<1> DEFINE r == [task[t] EXCEPT !.pc = "unlinking", !.then = "startup"]
<1>1. /\ task[t] \in TaskType /\ task[t].pc = "poll" /\ lock = t /\ Own(t)
      /\ "unlinking" \in PCs /\ "startup" \in Thens
  BY Given DEF GivesUp, LifeInv, Own, Relies, Holding, PCs, Closing, Thens
<1>2. r \in TaskType /\ r.pc = "unlinking"
  BY <1>1 DEF TaskType
<1>3. task' = [task EXCEPT ![t] = r] /\ UNCHANGED <<gw, orphan, legacy, broken, record, lock>> /\ Rest'
  BY Given DEF GivesUp, Rest
<1> HIDE DEF r
<1>4. Relies(r, t, lock', Live, broken, record'.pid)
  BY <1>1, <1>2, <1>3 DEF Own, Relies, Starting, Holding
<1> QED BY <1>2, <1>3, <1>4, Given, TaskGoes

\* The repair runs while nothing is alive, and so does what follows it.
LEMMA RepairsKeeps ==
  ASSUME LifeInv, NEW t \in Tasks, Repairs(t)
  PROVE  LifeInv'
<1>0. /\ task[t] \in TaskType /\ task[t].pc = "repair" /\ lock = t /\ Live = {} /\ task[t].tries < 3
      /\ UNCHANGED <<gw, orphan, legacy, record>> /\ "spawn" \in PCs
  BY Given DEF Repairs, LifeInv, Own, Relies, Holding, PCs
<1>1. CASE Leaves(t) /\ UNCHANGED <<broken, port>>
  <2>1. Rest'
    BY <1>1, Given DEF Repairs, Rest
  <2> QED BY <1>0, <1>1, <2>1, TaskLeaves
<1>2. CASE /\ broken' = IF broken = 0 THEN 0 ELSE broken - 1
           /\ task' = [task EXCEPT ![t] = [task[t] EXCEPT !.pc = "spawn", !.tries = task[t].tries + 1]]
           /\ port' = Fresher /\ UNCHANGED lock
  <2> DEFINE k == task[t].tries + 1
             r == [task[t] EXCEPT !.pc = "spawn", !.tries = k]
  <2>1. k \in 0..3
    BY <1>0 DEF TaskType
  <2>2. task' = [task EXCEPT ![t] = r]
    BY <1>2
  <2> HIDE DEF k
  <2>3. r \in TaskType /\ r.pc = "spawn"
    BY <1>0, <2>1 DEF TaskType
  <2>4. Rest'
    BY <1>2, Given, FirstFresh DEF Repairs, Rest
  <2>5. broken' \in 0..Migrations /\ (broken' > 0 => broken > 0)
    BY GatewayLifecycleAssumption, <1>2, Given
  <2>6. Live' = Live /\ Listening' = Listening /\ AtMostOne'
    BY <1>0 DEF Live, Listening, AtMostOne
  <2> HIDE DEF r
  <2>7. Relies(r, t, lock', Live', broken', record'.pid)
    BY <1>0, <1>2, <2>3, <2>6 DEF Relies, Starting, Failing, Closing
  <2> QED BY <1>0, <1>2, <2>2, <2>3, <2>4, <2>5, <2>6, <2>7, Given, TaskActs
<1>3. \/ Leaves(t) /\ UNCHANGED <<broken, port>>
      \/ /\ broken' = IF broken = 0 THEN 0 ELSE broken - 1
         /\ task' = [task EXCEPT ![t] = [task[t] EXCEPT !.pc = "spawn", !.tries = task[t].tries + 1]]
         /\ port' = Fresher /\ UNCHANGED lock
  BY DEF Repairs
<1> QED BY <1>1, <1>2, <1>3

-----------------------------------------------------------------------------
\* The steps of shutdown.
LEMMA HealsKeeps ==
  ASSUME LifeInv, Heals
  PROVE  LifeInv'
<1> DEFINE t == "heal"
           r == [task[t] EXCEPT !.pc = "unlinking", !.then = "check"]
<1>1. t \in Tasks /\ task[t] \in TaskType /\ "unlinking" \in PCs /\ "check" \in Thens
  BY Given DEF PCs, Closing, Thens
<1>2. r \in TaskType /\ r.pc = "unlinking" /\ r.then = "check"
  BY <1>1 DEF TaskType
<1>3. task' = [task EXCEPT ![t] = r] /\ UNCHANGED <<gw, orphan, legacy, broken, record, lock>> /\ Rest'
  BY Given DEF Heals, Rest
<1> HIDE DEF r
<1>4. Relies(r, t, lock', Live, broken, record'.pid)
  BY <1>2 DEF Relies, Starting, Failing, Holding
<1> QED BY <1>1, <1>2, <1>3, <1>4, Given, TaskGoes

\* Two tasks move: the prewarm task is cancelled and loses the lock.
LEMMA UnlinkedKeeps ==
  ASSUME LifeInv, NEW t \in Tasks, Unlinked(t)
  PROVE  LifeInv'
<1>0. /\ task[t] \in TaskType /\ task[t].pc = "unlinking" /\ "warm" \in Tasks /\ "unwarming" \in PCs
      /\ UNCHANGED <<gw, orphan, legacy, lease, broken, record, process, port, bridge, faults, restoring>>
      /\ lock' = IF WarmEnds(t) /\ lock = "warm" THEN NoTask ELSE lock
      /\ stray' \in BOOLEAN /\ Rest /\ task \in [Tasks -> TaskType]
  BY Given DEF Unlinked, PCs, Closing, Rest
<1> DEFINE r == [task[t] EXCEPT !.pc = "unwarming"]
<1>1. r \in TaskType /\ r.pc = "unwarming" /\ r.then = task[t].then
  BY <1>0 DEF TaskType
<1>2. \A u \in Tasks :
        task'[u] = IF u = t THEN r ELSE IF u = "warm" /\ WarmEnds(t) THEN Off ELSE task[u]
  BY <1>0 DEF Unlinked, WarmEnds
<1>3. task' \in [Tasks -> TaskType]
  <2>1. DOMAIN task' = Tasks /\ task' = [u \in Tasks |-> task'[u]]
    BY <1>0 DEF Unlinked
  <2>2. \A u \in Tasks : task'[u] \in TaskType
    BY <1>0, <1>1, <1>2, Idle
  <2> QED BY <2>1, <2>2
<1> HIDE DEF r
<1>4. Rest' /\ lock' \in Tasks \cup {NoTask} /\ Live' = Live /\ Listening' = Listening
  BY <1>0, Given DEF Rest, Live, Listening
<1>5. TypeOK' /\ Recognised' /\ AtMostOne' /\ ServesWhole'
  BY <1>0, <1>3, <1>4 DEF LifeInv, TypeOK, Rest, TaskType, Thens, Recognised, AtMostOne, ServesWhole
<1>6. ASSUME NEW u \in Tasks PROVE Own(u)'
  <2>1. CASE u = t
    <3>1. Own(t)
      BY DEF LifeInv
    <3>2. lock = t => lock' = t
      BY <1>0 DEF WarmEnds
    <3>3. Relies(r, t, lock', Live, broken, record.pid)
      BY <1>0, <1>1, <3>1, <3>2 DEF Own, Relies, Starting, Failing, Closing, Holding
    <3> QED BY <1>0, <1>2, <1>4, <2>1, <3>3 DEF Own
  <2>2. CASE u # t /\ u = "warm" /\ WarmEnds(t)
    <3>1. task'[u] = Off
      BY <1>2, <2>2
    <3> QED BY <3>1, Idle, Idly DEF Own, Holding, Closing
  <2>3. CASE u # t /\ ~(u = "warm" /\ WarmEnds(t))
    <3>1. task'[u] = task[u] /\ (lock = u => lock' = u)
      BY <1>0, <1>2, <2>3
    <3> QED BY <1>0, <1>4, <3>1, OtherKept
  <2> QED BY <2>1, <2>2, <2>3
<1> QED BY <1>5, <1>6 DEF LifeInv

\* shutdown is also called without the lock: what it terminates stays alive until
\* it is gone, so no start goes on beside it.
LEMMA TerminatesKeeps ==
  ASSUME LifeInv, NEW t \in Tasks, Terminates(t)
  PROVE  LifeInv'
<1>0. /\ task[t] \in TaskType /\ task[t].pc = "unwarming"
      /\ "terminating" \in PCs /\ process \in 0..MaxGateways
      /\ UNCHANGED <<orphan, legacy, broken, record, lock>> /\ Rest' /\ Own(t)
  BY Given DEF Terminates, PCs, Closing, Rest, LifeInv
<1> DEFINE r == [task[t] EXCEPT !.pc = "terminating", !.on = process]
<1>1. r \in TaskType /\ r.pc = "terminating" /\ r.then = task[t].then
  BY <1>0, GoesOn
<1>2. task' = [task EXCEPT ![t] = r]
  BY DEF Terminates
<1>3. /\ gw' \in [Gateways -> States] /\ Live' = Live
      /\ Listening' \subseteq Listening /\ AtMostOne'
  <2>1. {process} \cap Live \in SUBSET Live /\ Kill({process} \cap Live)
    BY DEF Terminates
  <2> QED BY <1>0, <2>1, KillActs
<1> HIDE DEF r
<1>4. Relies(r, t, lock', Live', broken', record'.pid)
  BY <1>0, <1>1, <1>3 DEF Own, Relies, Starting, Failing, Closing, Holding
<1> QED BY <1>0, <1>1, <1>2, <1>3, <1>4, Given, TaskActs

\* A failed start repairs only after its own record is gone with its process.
LEMMA ShutDownKeeps ==
  ASSUME LifeInv, NEW t \in Tasks, ShutDown(t)
  PROVE  LifeInv'
<1>0. /\ task[t] \in TaskType /\ task[t].pc = "terminating" /\ task[t].on \notin Live /\ Own(t)
      /\ record' = IF task[t].on # 0 /\ record.pid = task[t].on THEN NoRecord ELSE record
      /\ UNCHANGED <<gw, orphan, legacy, lease, broken, process, bridge, stray, faults, restoring>>
      /\ Rest' /\ "check" \in PCs /\ "repair" \in PCs
  BY Given DEF ShutDown, LifeInv, PCs, Holding, Rest
<1>1. Live \subseteq {record.pid} => Live \subseteq {record'.pid}
  BY <1>0
<1>2. CASE Leaves(t)
  <2>1. task' = [task EXCEPT ![t] = Off] /\ lock' = IF lock = t THEN NoTask ELSE lock
    BY <1>2 DEF Leaves
  <2>2. Relies(Off, t, lock', Live, broken, record'.pid)
    BY Idle, Idly DEF Holding, Closing
  <2> QED BY <1>0, <1>1, <2>1, <2>2, Given, Idle, TaskGoes
<1>3. ASSUME NEW c \in {"repair", "check"}, UNCHANGED lock,
             c = "repair" => task[t].then = "startup" /\ MayRepair(t),
             task' = [task EXCEPT ![t] = [task[t] EXCEPT !.then = "off", !.on = 0, !.pc = c]]
      PROVE  LifeInv'
  <2> DEFINE r == [task[t] EXCEPT !.then = "off", !.on = 0, !.pc = c]
  <2>1. r \in TaskType /\ r.pc = c /\ r.tries = task[t].tries /\ task' = [task EXCEPT ![t] = r]
    <3>1. c \in PCs /\ "off" \in Thens /\ 0 \in 0..MaxGateways
      BY <1>0, Given DEF Thens
    <3> QED BY <1>0, <1>3, <3>1 DEF TaskType
  <2> HIDE DEF r
  <2>2. CASE c = "check"
    <3>1. Relies(r, t, lock', Live, broken, record'.pid)
      BY <2>1, <2>2, Idly DEF Holding, Closing
    <3> QED BY <1>0, <1>1, <1>3, <2>1, <3>1, Given, TaskGoes
  <2>3. CASE c = "repair"
    <3>1. broken > 0 /\ task[t].tries < 3 /\ record' = NoRecord /\ lock = t /\ Live \subseteq {record.pid}
      BY <1>0, <1>3, <2>3 DEF MayRepair, Own, Relies, Starting, Failing, Closing
    <3>2. Live = {}
      BY <1>0, <1>1, <3>1, Given DEF NoRecord
    <3>3. Relies(r, t, lock', Live, broken, record'.pid)
      BY <1>3, <2>1, <2>3, <3>1, <3>2 DEF Relies
    <3> QED BY <1>0, <1>1, <1>3, <2>1, <3>3, Given, TaskGoes
  <2> QED BY <2>2, <2>3
<1>4. \/ Leaves(t)
      \/ \E c \in {"repair", "check"} :
           /\ UNCHANGED lock /\ (c = "repair" => task[t].then = "startup" /\ MayRepair(t))
           /\ task' = [task EXCEPT ![t] = [task[t] EXCEPT !.then = "off", !.on = 0, !.pc = c]]
  BY DEF ShutDown
<1> QED BY <1>2, <1>3, <1>4

-----------------------------------------------------------------------------
\* The gateways, the record and the backend.
LEMMA WorldKeeps ==
  ASSUME LifeInv, StrayEnds \/ RecordLost \/ RestoreStarts \/ RestoreEnds
  PROVE  LifeInv'
<1>0. /\ UNCHANGED <<gw, orphan, legacy, lock, task>> /\ Live' = Live /\ Listening' = Listening
      /\ broken \in 0..Migrations /\ gw \in [Gateways -> States]
  BY Given DEF StrayEnds, RecordLost, RestoreStarts, RestoreEnds, Live, Listening
<1>1. Rest'
  <2>1. [pid |-> restoring, port |-> restoring] \in [pid : 0..MaxGateways, port : 0..MaxGateways]
    BY Given DEF Rest
  <2>2. CASE RestoreEnds
    <3>1. record' \in {record, [pid |-> restoring, port |-> restoring]} /\ restoring' = 0
      BY <2>2 DEF RestoreEnds
    <3>2. UNCHANGED <<lease, process, port, bridge, stray, faults>>
      BY <2>2 DEF RestoreEnds
    <3> QED BY <2>1, <3>1, <3>2, Given DEF Rest
  <2>3. CASE StrayEnds \/ RecordLost \/ RestoreStarts
    <3>1. CASE StrayEnds
      BY <3>1, Given DEF StrayEnds, Rest
    <3>2. CASE RecordLost
      BY GatewayLifecycleAssumption, <3>2, Given DEF RecordLost, Rest
    <3>3. CASE RestoreStarts
      BY <3>3, Given DEF RestoreStarts, Rest
    <3> QED BY <2>3, <3>1, <3>2, <3>3
  <2> QED BY <2>2, <2>3
<1>2. broken' \in 0..Migrations /\ (broken' > 0 => broken > 0)
  BY GatewayLifecycleAssumption, <1>0 DEF StrayEnds, RecordLost, RestoreStarts, RestoreEnds
<1>3. broken' > 0 /\ Live \subseteq {record.pid} => Live \subseteq {record'.pid}
  <2>1. CASE StrayEnds \/ RestoreStarts
    BY <2>1 DEF StrayEnds, RestoreStarts
  <2>2. CASE RestoreEnds
    BY <2>2, RecordsAlike DEF RestoreEnds
  <2>3. CASE RecordLost
    BY <2>3, <1>2 DEF RecordLost, LifeInv, ServesWhole
  <2> QED BY <2>1, <2>2, <2>3
<1> QED BY <1>0, <1>1, <1>2, <1>3, WorldActs

LEMMA BackendCrashKeeps ==
  ASSUME LifeInv, BackendCrash
  PROVE  LifeInv'
<1>1. /\ UNCHANGED <<gw, legacy, broken>> /\ Live' = Live
      /\ Listening' = Listening /\ orphan' = orphan \cup Live
      /\ lock' = NoTask /\ task' = [t \in Tasks |-> Off]
  BY DEF BackendCrash, Live, Listening
<1>2. Rest'
  BY GatewayLifecycleAssumption, Given DEF BackendCrash, Rest
<1>3. TypeOK'
  <2>1. task' \in [Tasks -> TaskType] /\ orphan' \subseteq Gateways
    BY <1>1, Idle, Given DEF LifeInv, TypeOK
  <2> QED BY <1>1, <1>2, <2>1 DEF LifeInv, TypeOK, Rest, TaskType, Thens
<1>4. Recognised' /\ AtMostOne' /\ ServesWhole'
  BY <1>1 DEF LifeInv, Recognised, AtMostOne, ServesWhole
<1>5. ASSUME NEW u \in Tasks PROVE Own(u)'
  <2>1. task'[u] = Off
    BY <1>1
  <2> QED BY <2>1, Idle, Idly DEF Own, Holding, Closing
<1> QED BY <1>3, <1>4, <1>5 DEF LifeInv

\* A gateway dies, or takes and leaves the lease; one serves a whole database.
LEMMA GatewaysKeep ==
  ASSUME LifeInv, NEW g \in Gateways, GatewayCrash(g) \/ GatewayMoves(g)
  PROVE  LifeInv'
<1>0. /\ UNCHANGED <<orphan, legacy, broken, record, lock, task>> /\ gw[g] \in States \ {"none", "dead"}
      /\ gw \in [Gateways -> States] /\ broken \in 0..Migrations
  BY Given DEF GatewayCrash, GatewayMoves, Live, States
<1>1. Rest'
  <2>1. g \in 0..MaxGateways
    BY GatewayLifecycleAssumption, Given DEF Gateways
  <2> QED BY GatewayLifecycleAssumption, <2>1, Given DEF GatewayCrash, GatewayMoves, Rest
<1>2. PICK s \in States \ {"none"} : gw' = [gw EXCEPT ![g] = s] /\ (s = "serving" => ~(broken > 0))
  BY <1>0, Given DEF GatewayCrash, GatewayMoves, States, LifeInv, Recognised
<1>3. gw' \in [Gateways -> States] /\ \A h \in Gateways : gw'[h] = IF h = g THEN s ELSE gw[h]
  BY <1>0, <1>2
<1>4. Live' \subseteq Live
  BY <1>0, <1>3 DEF Live
<1>5. broken > 0 => Listening' \subseteq Listening
  BY <1>0, <1>2, <1>3 DEF Listening
<1> QED BY <1>0, <1>1, <1>3, <1>4, <1>5, WorldActs

-----------------------------------------------------------------------------
\* A first start finds nothing, or the orphan of an older bundle.
LEMMA InitKeeps ==
  ASSUME Init
  PROVE  LifeInv
<1>1. /\ legacy \in {{}, {1}} /\ orphan = legacy /\ record \in [pid : 0..MaxGateways, port : 0..MaxGateways]
      /\ gw = [g \in Gateways |-> IF g \in legacy THEN "serving" ELSE "none"]
      /\ 1 \in Gateways /\ 0 \in 0..MaxGateways
  BY GatewayLifecycleAssumption DEF Init, NoRecord, Gateways
<1>2. TypeOK
  <2>1. task \in [Tasks -> TaskType] /\ lock \in Tasks \cup {NoTask}
    BY Idle DEF Init
  <2>2. gw \in [Gateways -> States] /\ legacy \subseteq Gateways
    BY <1>1 DEF States
  <2>3. broken \in 0..Migrations /\ faults \in 0..MaxFaults
    BY GatewayLifecycleAssumption DEF Init
  <2> QED BY <1>1, <2>1, <2>2, <2>3 DEF Init, TypeOK, States, TaskType, Thens
<1>3. Recognised /\ AtMostOne /\ ServesWhole
  BY <1>1 DEF Recognised, AtMostOne, ServesWhole, Live, Listening
<1>4. ASSUME NEW t \in Tasks PROVE Own(t)
  BY Idle, Idly DEF Own, Holding, Closing, Init
<1> QED BY <1>2, <1>3, <1>4 DEF LifeInv

LEMMA NextKeeps ==
  ASSUME "slow_exec" \notin Env, LifeInv, [Next]_vars
  PROVE  LifeInv'
<1>1. ASSUME NEW t \in Tasks, Begins(t) \/ Step(t) \/ Locks(t) \/ Cancel(t)
      PROVE  LifeInv'
  BY <1>1, BeginsKeeps, ProbeKeeps, ProbeEndsKeeps, LocksKeeps, CleanOwnerKeeps, SweepKeeps, PrepareKeeps,
     FailsKeeps, SpawnKeeps, GivesUpKeeps, RepairsKeeps, UnlinkedKeeps, TerminatesKeeps, ShutDownKeeps DEF Step
<1>2. ASSUME NEW g \in Gateways, GatewayCrash(g) \/ GatewayMoves(g)
      PROVE  LifeInv'
  BY <1>2, GatewaysKeep
<1>3. CASE \/ Heals \/ StrayEnds \/ BackendCrash
           \/ RecordLost \/ RestoreStarts \/ RestoreEnds
  BY <1>3, HealsKeeps, WorldKeeps, BackendCrashKeeps
<1>4. CASE UNCHANGED vars
  <2>1. /\ UNCHANGED <<gw, orphan, legacy, lock, task, broken, record>>
        /\ Live' = Live /\ Listening' = Listening /\ Rest'
    BY <1>4, Given DEF vars, Live, Listening, Rest
  <2> QED BY <2>1, Given, WorldActs
<1> QED BY <1>1, <1>2, <1>3, <1>4 DEF Next

LEMMA AlwaysLife == "slow_exec" \notin Env => (Spec => []LifeInv)
<1> SUFFICES ASSUME "slow_exec" \notin Env PROVE Spec => []LifeInv
  OBVIOUS
<1>1. Init => LifeInv
  BY InitKeeps
<1>2. LifeInv /\ [Next]_vars => LifeInv'
  BY NextKeeps
<1> QED BY <1>1, <1>2, PTL DEF Spec

\* Every variable of the gateway's life cycle keeps the kind of value the code
\* puts there, through crashes, cancels, recoveries and failed starts.
THEOREM TypeCorrect ==
  ASSUME "slow_exec" \notin Env
  PROVE  Spec => []TypeOK
<1>1. LifeInv => TypeOK
  BY DEF LifeInv
<1> QED BY <1>1, AlwaysLife, PTL

\* Whatever is cancelled, crashes, recovers or shuts down while ensure_ready
\* starts a gateway, two never work on the one state database: a gateway is
\* spawned only where the sweep, or the end of the shutdown before a repair, left
\* none alive.
THEOREM OneGatewayWorks ==
  ASSUME "slow_exec" \notin Env
  PROVE  Spec => []OneGateway
<1>1. LifeInv => OneGateway
  <2> SUFFICES ASSUME AtMostOne PROVE Cardinality(Live) <= 1
    <3>1. \A S : Cardinality(S) = Cardinality(S)
      BY DEF Cardinality, Cardinality
    <3> QED BY <3>1 DEF LifeInv, OneGateway
  <2>1. CASE Live = {}
    BY <2>1, FS_EmptySet
  <2>2. ASSUME NEW g \in Live PROVE Cardinality(Live) <= 1
    <3>1. Live = {g}
      BY <2>2 DEF AtMostOne
    <3>2. Cardinality({g}) = 1
      BY FS_Singleton
    <3> QED BY <3>1, <3>2
  <2> QED BY <2>1, <2>2
<1> QED BY <1>1, AlwaysLife, PTL

\* _clear_abandoned_gateway_migration_lease never takes the lease of a gateway
\* that is alive: only the holder gives it back, or dies.
THEOREM LeaseOfTheLivingIsKept ==
  ASSUME "slow_exec" \notin Env
  PROVE  Spec => LeaseIsKept
<1>1. LifeInv /\ [Next]_vars =>
        [(lease \in Live /\ lease' # lease) => gw'[lease] # gw[lease]]_vars
  <2> SUFFICES ASSUME LifeInv, Next, lease \in Live, lease' # lease PROVE gw'[lease] # gw[lease]
    OBVIOUS
  <2>1. CASE \E t \in Tasks : Prepare(t)
    BY <2>1 DEF LifeInv, Own, Relies, Prepare
  <2>2. CASE \E g \in Gateways : GatewayMoves(g)
    <3>1. PICK g \in Gateways : GatewayMoves(g)
      BY <2>2
    <3>2. lease # 0 /\ gw \in [Gateways -> States]
      BY Given
    <3>3. gw[g] = "migrating" /\ gw' = [gw EXCEPT ![g] = IF broken > 0 THEN "dead" ELSE "serving"]
      BY <3>1, <3>2 DEF GatewayMoves
    <3>4. g = lease
      BY <3>2, <3>3 DEF LifeInv, AtMostOne, Live
    <3> QED BY <3>2, <3>3, <3>4
  <2>3. \/ UNCHANGED lease
        \/ \E t \in Tasks : Prepare(t)
        \/ \E g \in Gateways : GatewayMoves(g)
    BY ZenonT(60) DEF Next, Step, Begins, Probe, ProbeEnds, Locks, CleanOwner,
           OwnerGone, Sweep, SetupFails, Spawn, NotSpawned, GivesUp,
           Repairs, Links, Unlinked, Terminates, ShutDown, Cancel,
           Heals, StrayEnds, BackendCrash, RecordLost, RestoreStarts,
           RestoreEnds, GatewayCrash
  <2> QED BY <2>1, <2>2, <2>3
<1> QED BY <1>1, AlwaysLife, PTL DEF Spec, LeaseIsKept
-----------------------------------------------------------------------------
(***************************************************************************)
(* The RPC connection.  Its constants and variables are declared here;     *)
(* client and bridges are the process and the bridge of GatewayRPC, whose  *)
(* names the life cycle of the gateway has taken.                          *)
(***************************************************************************)
CONSTANTS Calls, Stops, MaxBridges

VARIABLES client, bridges, inbox, pipe, reader, current, ready, readied, pending, pc, on, told, served

RPC == INSTANCE GatewayRPC WITH process <- client, bridge <- bridges

\* The assumption of GatewayRPC about its constants.
RPCAssumption == Calls \cap Stops = {} /\ MaxBridges \in Nat

\* A caller is told something exactly when its call is over.
ToldWhenEnded == \A c \in Calls : told[c] # "nothing" <=> pc[c] = "ended"

\* Only calls that were made are at a bridge or in the table.
OnlyMadeCalls ==
  /\ \A b \in RPC!Bridges : \A c \in inbox[b] : pc[c] # "new"
  /\ \A c \in pending : pc[c] # "new"

\* A result frame on its way is of a call the gateway executed.
ResultsAreServed ==
  \A b \in RPC!Bridges : \A i \in DOMAIN pipe[b] :
    pipe[b][i].kind = "result" => pipe[b][i].id \in served

RPCInv == RPC!TypeOK /\ ToldWhenEnded /\ OnlyMadeCalls /\ ResultsAreServed

-----------------------------------------------------------------------------
\* Appending to a sequence and taking its tail, index by index.
LEMMA AppendFacts ==
  ASSUME NEW S, NEW q \in Seq(S), NEW e \in S
  PROVE  /\ Append(q, e) \in Seq(S)
         /\ DOMAIN Append(q, e) = 1 .. Len(q) + 1
         /\ \A i \in DOMAIN q : i \in DOMAIN Append(q, e) /\ Append(q, e)[i] = q[i]
         /\ Append(q, e)[Len(q) + 1] = e
         /\ \A i \in DOMAIN q : i < Len(q) + 1
         /\ \A i \in DOMAIN Append(q, e) : i \in DOMAIN q \/ i = Len(q) + 1
  OBVIOUS

LEMMA TailFacts ==
  ASSUME NEW S, NEW q \in Seq(S), q # <<>>
  PROVE  /\ Tail(q) \in Seq(S)
         /\ Head(q) \in S
         /\ Head(q) = q[1] /\ 1 \in DOMAIN q
         /\ \A i \in DOMAIN Tail(q) : i + 1 \in DOMAIN q /\ Tail(q)[i] = q[i + 1]
         /\ \A i \in DOMAIN q : i > 1 => i - 1 \in DOMAIN Tail(q) /\ Tail(q)[i - 1] = q[i]
<1>1. /\ Head(q) = q[1] /\ Len(q) \in Nat \ {0} /\ DOMAIN q = 1 .. Len(q)
  BY EmptySeq, LenProperties
<1>2. /\ Tail(q) \in Seq(S) /\ Head(q) \in S
      /\ Len(Tail(q)) = Len(q) - 1
      /\ \A i \in 1 .. Len(Tail(q)) : Tail(q)[i] = q[i + 1]
  BY HeadTailProperties
<1>3. DOMAIN Tail(q) = 1 .. Len(Tail(q))
  BY <1>2, LenProperties
<1> QED
  BY <1>1, <1>2, <1>3

-----------------------------------------------------------------------------
(* The parts that several actions share. *)

PcStates == {"new", "starting", "waiting", "stopping", "joining", "ended"}
Outcomes == {"nothing", "result", "error", "cancelled"}

LEMMA TypedParts ==
  RPC!TypeOK <=>
  /\ client \in 0..MaxBridges /\ current \in 0..MaxBridges /\ ready \in 0..MaxBridges
  /\ bridges \in [RPC!Bridges -> {"none", "connecting", "connected", "refused", "closing", "dead"}]
  /\ inbox \in [RPC!Bridges -> SUBSET Calls]
  /\ pipe \in [RPC!Bridges -> Seq(RPC!Frames)]
  /\ reader \in [RPC!Bridges -> {"none", "created", "reading", "cancelled", "done"}]
  /\ readied \in [RPC!Bridges -> {"open", "ok", "failed"}]
  /\ pending \subseteq Calls /\ served \subseteq Calls
  /\ pc \in [RPC!Tasks -> PcStates]
  /\ on \in [RPC!Tasks -> 0..MaxBridges]
  /\ told \in [Calls -> Outcomes]
  BY DEF RPC!TypeOK, PcStates, Outcomes

\* Callers that fail together: the table is emptied, those that wait end.
Fails(S) ==
  /\ told' = [c \in Calls |-> IF c \in S THEN "error" ELSE told[c]]
  /\ pc' = [t \in RPC!Tasks |-> IF t \in S THEN "ended" ELSE pc[t]]
  /\ pending' = {}

LEMMA FailsTyped ==
  ASSUME RPC!TypeOK, NEW S, Fails(S)
  PROVE  pc' \in [RPC!Tasks -> PcStates] /\ told' \in [Calls -> Outcomes] /\ pending' \subseteq Calls
  BY TypedParts DEF Fails, PcStates, Outcomes

LEMMA FailPendingFails == RPC!FailPending => Fails(pending \cap RPC!Waiting)
  BY DEF RPC!FailPending, Fails

LEMMA EndStopFails == ASSUME NEW t PROVE RPC!EndStop(t) => Fails((pending \cap RPC!Waiting) \cup {t})
<1> SUFFICES ASSUME RPC!EndStop(t) PROVE Fails((pending \cap RPC!Waiting) \cup {t})
  OBVIOUS
<1>1. told' = [c \in Calls |-> IF c \in (pending \cap RPC!Waiting) \cup {t} THEN "error" ELSE told[c]]
  BY DEF RPC!EndStop
<1>2. pc' = [u \in RPC!Tasks |-> IF u \in (pending \cap RPC!Waiting) \cup {t} THEN "ended" ELSE pc[u]]
  BY DEF RPC!EndStop
<1> QED
  BY <1>1, <1>2 DEF RPC!EndStop, Fails

\* What stop() does to the tasks once it gave up the process: t moves on to a
\* wait, or ends with the callers that fail.
Suspends(t, s) == pc' = [pc EXCEPT ![t] = s] /\ UNCHANGED <<pending, told>>
LEMMA TakeReaderFields ==
  ASSUME RPC!TypeOK, NEW t \in RPC!Tasks, RPC!TakeReader(t)
  PROVE  /\ current' = 0
         /\ reader' \in [RPC!Bridges -> {"none", "created", "reading", "cancelled", "done"}]
         /\ on' \in [RPC!Tasks -> 0..MaxBridges]
         /\ Suspends(t, "joining") \/ Fails((pending \cap RPC!Waiting) \cup {t})
<1>1. CASE current # 0 /\ reader[current] = "reading"
  <2>1. current \in 0..MaxBridges
    BY TypedParts
  <2>2. /\ reader' = [reader EXCEPT ![current] = "cancelled"]
        /\ on' = [on EXCEPT ![t] = current]
        /\ Suspends(t, "joining")
    BY <1>1 DEF RPC!TakeReader, Suspends
  <2>3. reader' \in [RPC!Bridges -> {"none", "created", "reading", "cancelled", "done"}]
    BY <2>2, TypedParts
  <2>4. on' \in [RPC!Tasks -> 0..MaxBridges]
    BY <2>1, <2>2, TypedParts
  <2> QED
    BY <2>2, <2>3, <2>4 DEF RPC!TakeReader
<1>2. CASE ~(current # 0 /\ reader[current] = "reading")
  <2>1. /\ reader' = [b \in RPC!Bridges |-> IF b = current THEN "done" ELSE reader[b]]
        /\ RPC!EndStop(t) /\ UNCHANGED on
    BY <1>2 DEF RPC!TakeReader
  <2>2. reader' \in [RPC!Bridges -> {"none", "created", "reading", "cancelled", "done"}]
    BY <2>1, TypedParts
  <2> QED
    BY <2>1, <2>2, EndStopFails, TypedParts DEF RPC!TakeReader
<1> QED
  BY <1>1, <1>2

LEMMA GiveUpFields ==
  ASSUME RPCAssumption, RPC!TypeOK, NEW t \in RPC!Tasks, RPC!GiveUp(t)
  PROVE  /\ client' = 0 /\ current' \in 0..MaxBridges
         /\ bridges' \in [RPC!Bridges -> {"none", "connecting", "connected", "refused", "closing", "dead"}]
         /\ reader' \in [RPC!Bridges -> {"none", "created", "reading", "cancelled", "done"}]
         /\ on' \in [RPC!Tasks -> 0..MaxBridges]
         /\ UNCHANGED <<inbox, pipe, ready, readied, served>>
         /\ \/ \E s \in {"stopping", "joining"} : Suspends(t, s)
            \/ Fails((pending \cap RPC!Waiting) \cup {t})
<1>0. 0 \in 0..MaxBridges /\ current \in 0..MaxBridges
  BY TypedParts DEF RPCAssumption
<1>1. CASE RPC!Alive(client)
  <2>1. /\ Suspends(t, "stopping")
        /\ on' = [on EXCEPT ![t] = client]
        /\ bridges' = [bridges EXCEPT ![client] = "closing"]
        /\ UNCHANGED <<reader, current>>
    BY <1>1 DEF RPC!GiveUp, Suspends
  <2>2. client \in 0..MaxBridges
    BY TypedParts
  <2>3. on' \in [RPC!Tasks -> 0..MaxBridges]
    BY <2>1, <2>2, TypedParts
  <2>4. bridges' \in [RPC!Bridges -> {"none", "connecting", "connected", "refused", "closing", "dead"}]
    BY <2>1, TypedParts
  <2> QED
    BY <1>0, <2>1, <2>3, <2>4, TypedParts DEF RPC!GiveUp
<1>2. CASE ~RPC!Alive(client)
  <2>1. RPC!TakeReader(t) /\ UNCHANGED bridges
    BY <1>2 DEF RPC!GiveUp
  <2> QED
    BY <1>0, <2>1, TakeReaderFields, TypedParts DEF RPC!GiveUp
<1> QED
  BY <1>1, <1>2

LEMMA SuspendsTyped ==
  ASSUME RPC!TypeOK, NEW t, NEW s \in PcStates, Suspends(t, s)
  PROVE  pc' \in [RPC!Tasks -> PcStates] /\ told' \in [Calls -> Outcomes] /\ pending' \subseteq Calls
  BY TypedParts DEF Suspends

\* request(): the call is at a live bridge and in the table, or it failed.
Writes(c) ==
  /\ client \in RPC!Bridges
  /\ pending' = pending \cup {c} /\ inbox' = [inbox EXCEPT ![client] = inbox[client] \cup {c}]
  /\ pc' = [pc EXCEPT ![c] = "waiting"] /\ on' = [on EXCEPT ![c] = client] /\ UNCHANGED told
Refuses(c) ==
  /\ pc' = [pc EXCEPT ![c] = "ended"] /\ told' = [told EXCEPT ![c] = "error"]
  /\ UNCHANGED <<pending, inbox, on>>
LEMMA WriteFields ==
  ASSUME RPCAssumption, RPC!TypeOK, NEW c \in Calls, RPC!Write(c)
  PROVE  /\ (RPC!Alive(client) /\ Writes(c)) \/ (~RPC!Alive(client) /\ Refuses(c))
         /\ inbox' \in [RPC!Bridges -> SUBSET Calls] /\ on' \in [RPC!Tasks -> 0..MaxBridges]
         /\ pc' \in [RPC!Tasks -> PcStates] /\ told' \in [Calls -> Outcomes] /\ pending' \subseteq Calls
<1>1. c \in RPC!Tasks
  BY DEF RPC!Tasks
<1>2. CASE RPC!Alive(client)
  <2>1. Writes(c)
    BY <1>2, TypedParts DEF RPCAssumption, RPC!Write, Writes, RPC!Alive, RPC!Bridges
  <2>2. inbox' \in [RPC!Bridges -> SUBSET Calls]
    BY <2>1, TypedParts DEF Writes
  <2>3. on' \in [RPC!Tasks -> 0..MaxBridges] /\ pc' \in [RPC!Tasks -> PcStates]
    BY <2>1, TypedParts DEF Writes, PcStates
  <2> QED
    BY <1>2, <2>1, <2>2, <2>3, TypedParts DEF Writes
<1>3. CASE ~RPC!Alive(client)
  <2>1. Refuses(c)
    BY <1>3 DEF RPC!Write, Refuses
  <2> QED
    BY <1>3, <2>1, TypedParts DEF Refuses, PcStates, Outcomes
<1> QED
  BY <1>2, <1>3

\* A response ends at most the call it carries the id of.
LEMMA DeliverFields ==
  ASSUME RPC!TypeOK, NEW f, RPC!Deliver(f)
  PROVE  /\ pending' \subseteq pending
         /\ pc' \in [RPC!Tasks -> PcStates] /\ told' \in [Calls -> Outcomes]
         /\ \/ UNCHANGED <<pc, told>>
            \/ /\ f.id \in Calls /\ pc[f.id] = "waiting"
               /\ pc' = [pc EXCEPT ![f.id] = "ended"]
               /\ told' = [told EXCEPT ![f.id] = IF f.kind = "result" THEN "result" ELSE "error"]
<1>1. \/ UNCHANGED <<pc, told>>
      \/ /\ f.id \in Calls /\ pc[f.id] = "waiting"
         /\ pc' = [pc EXCEPT ![f.id] = "ended"]
         /\ told' = [told EXCEPT ![f.id] = IF f.kind = "result" THEN "result" ELSE "error"]
  BY DEF RPC!Deliver, RPC!Waiting
<1>2. pc' \in [RPC!Tasks -> PcStates] /\ told' \in [Calls -> Outcomes]
  BY <1>1, TypedParts DEF PcStates, Outcomes
<1> QED
  BY <1>1, <1>2 DEF RPC!Deliver

\* The number of the next bridge.
LEMMA NextBridge ==
  ASSUME RPCAssumption, RPC!TypeOK, RPC!Unspawned # {}
  PROVE  Cardinality(RPC!Bridges \ RPC!Unspawned) + 1 \in RPC!Bridges
<1>1. IsFiniteSet(RPC!Bridges) /\ Cardinality(RPC!Bridges) = MaxBridges
  BY FS_Interval DEF RPCAssumption, RPC!Bridges
<1>2. RPC!Bridges \ RPC!Unspawned \subseteq RPC!Bridges /\ RPC!Bridges \ RPC!Unspawned # RPC!Bridges
  BY DEF RPC!Unspawned
<1>3. /\ IsFiniteSet(RPC!Bridges \ RPC!Unspawned) /\ Cardinality(RPC!Bridges \ RPC!Unspawned) \in Nat
      /\ Cardinality(RPC!Bridges \ RPC!Unspawned) < Cardinality(RPC!Bridges)
  BY <1>1, <1>2, FS_Subset, FS_CardinalityType
<1> QED
  BY <1>1, <1>3 DEF RPCAssumption, RPC!Bridges

LEMMA ResolveTyped ==
  ASSUME RPC!TypeOK, NEW s \in {"ok", "failed"}, RPC!Resolve(s)
  PROVE  readied' \in [RPC!Bridges -> {"open", "ok", "failed"}]
  BY TypedParts DEF RPC!Resolve

LEMMA EmitTyped ==
  ASSUME RPC!TypeOK, NEW b \in RPC!Bridges, NEW f \in RPC!Frames, RPC!Emit(b, f)
  PROVE  pipe' \in [RPC!Bridges -> Seq(RPC!Frames)]
<1>1. pipe[b] \in Seq(RPC!Frames)
  BY TypedParts
<1>2. Append(pipe[b], f) \in Seq(RPC!Frames)
  BY <1>1, AppendFacts
<1>3. pipe' = [pipe EXCEPT ![b] = Append(pipe[b], f)]
  BY DEF RPC!Emit
<1> QED
  BY <1>2, <1>3, TypedParts

-----------------------------------------------------------------------------
\* A task that gives up a bridge or waits for one to end is at work.
AtWork(t) == t \in RPC!Tasks /\ (t \in Calls => pc[t] \notin {"new", "ended"})

LEMMA StopsAtWork ==
  ASSUME RPCAssumption, RPC!TypeOK, NEW t,
         (t \in Calls /\ pc[t] = "starting") \/ t \in Stops \/ (t \in RPC!Tasks /\ pc[t] \in {"stopping", "joining"})
  PROVE  AtWork(t)
  BY DEF RPCAssumption, AtWork, RPC!Tasks

\* What a step does to the tasks, their results and the table of calls.
Halts == \E t : /\ AtWork(t)
                /\ \/ \E s \in {"stopping", "joining"} : Suspends(t, s)
                   \/ Fails((pending \cap RPC!Waiting) \cup {t})
Answers(c, p, r) ==
  /\ pc[c] = "waiting" /\ pc' = [pc EXCEPT ![c] = "ended"]
  /\ r # "nothing" /\ told' = [told EXCEPT ![c] = r] /\ pending' = p
Spawns(c) == pc[c] = "new" /\ pc' = [pc EXCEPT ![c] = "starting"] /\ UNCHANGED <<pending, told>>
Requests(c) == pc[c] \in {"new", "starting"} /\ (Writes(c) \/ (pc[c] = "starting" /\ Refuses(c)))

LEMMA TaskEffects ==
  ASSUME RPCAssumption, RPC!TypeOK, RPC!Next
  PROVE  \/ UNCHANGED <<pc, told>> /\ pending' \subseteq pending
         \/ Halts \/ Fails(pending \cap RPC!Waiting)
         \/ \E c \in Calls : Spawns(c) \/ Requests(c) \/ \E p \in SUBSET pending, r \in Outcomes : Answers(c, p, r)
<1>1. ASSUME NEW c \in Calls, RPC!CallStep(c)
      PROVE  Halts \/ Spawns(c) \/ Requests(c) \/ \E p \in SUBSET pending, r \in Outcomes : Answers(c, p, r)
  <2>1. CASE RPC!StartFinds(c)
    BY <2>1, WriteFields DEF RPC!StartFinds, Requests
  <2>2. CASE RPC!StartSpawns(c)
    BY <2>2 DEF RPC!StartSpawns, Spawns
  <2>3. CASE RPC!StartReturns(c)
    BY <2>3, WriteFields DEF RPC!StartReturns, Requests
  <2>4. CASE RPC!StartFails(c)
    <3>1. AtWork(c) /\ c \in RPC!Tasks
      BY <2>4, StopsAtWork DEF RPC!StartFails, AtWork
    <3> QED
      BY <2>4, <3>1, GiveUpFields DEF RPC!StartFails, Halts
  <2>5. CASE RPC!TimesOut(c)
    BY <2>5 DEF RPC!TimesOut, Answers, Outcomes
  <2>6. CASE RPC!Cancelled(c)
    BY <2>6 DEF RPC!Cancelled, Answers, Outcomes
  <2> QED
    BY <1>1, <2>1, <2>2, <2>3, <2>4, <2>5, <2>6 DEF RPC!CallStep
<1>2. ASSUME NEW t \in RPC!Tasks, RPC!Stop(t) \/ RPC!TaskStep(t) PROVE Halts
  <2>1. AtWork(t)
    BY <1>2, StopsAtWork DEF RPC!Stop, RPC!TaskStep, RPC!StopJoins, RPC!StopEnds
  <2>2. (\E s \in {"stopping", "joining"} : Suspends(t, s)) \/ Fails((pending \cap RPC!Waiting) \cup {t})
    BY <1>2, GiveUpFields, TakeReaderFields, EndStopFails DEF RPC!Stop, RPC!TaskStep, RPC!StopJoins, RPC!StopEnds
  <2> QED
    BY <2>1, <2>2 DEF Halts
<1>3. ASSUME NEW b \in RPC!Bridges, RPC!BridgeStep(b) PROVE UNCHANGED <<pc, told, pending>>
  BY <1>3 DEF RPC!BridgeStep, RPC!Connects, RPC!Executes, RPC!Responds, RPC!Dies
<1>4. ASSUME NEW b \in RPC!Bridges, RPC!ReaderStep(b)
      PROVE  \/ UNCHANGED <<pc, told>> /\ pending' \subseteq pending
             \/ Fails(pending \cap RPC!Waiting)
             \/ \E c \in Calls : \E p \in SUBSET pending, r \in Outcomes : Answers(c, p, r)
  <2>1. CASE RPC!ReaderStarts(b)
    BY <2>1 DEF RPC!ReaderStarts
  <2>2. CASE RPC!ReaderEnds(b)
    BY <2>2, FailPendingFails DEF RPC!ReaderEnds
  <2>3. CASE RPC!Read(b)
    <3> DEFINE f == Head(pipe[b])
    <3>1. \/ UNCHANGED <<pending, pc, told>>
          \/ RPC!FailPending
          \/ RPC!Deliver(f)
      BY <2>3 DEF RPC!Read
    <3>2. ASSUME RPC!Deliver(f)
          PROVE  \/ UNCHANGED <<pc, told>> /\ pending' \subseteq pending
                 \/ Answers(f.id, pending', IF f.kind = "result" THEN "result" ELSE "error")
                    /\ f.id \in Calls /\ pending' \in SUBSET pending
      BY <3>2, DeliverFields DEF Answers
    <3>3. (IF f.kind = "result" THEN "result" ELSE "error") \in Outcomes
      BY DEF Outcomes
    <3> QED
      BY <3>1, <3>2, <3>3, FailPendingFails
  <2> QED
    BY <1>4, <2>1, <2>2, <2>3 DEF RPC!ReaderStep
<1>5. Stops \subseteq RPC!Tasks
  BY DEF RPC!Tasks
<1> QED
  BY <1>1, <1>2, <1>3, <1>4, <1>5 DEF RPC!Next

\* The inboxes grow only by the call a task writes.
LEMMA InboxEffects ==
  ASSUME RPCAssumption, RPC!TypeOK, RPC!Next
  PROVE  \/ \A b \in RPC!Bridges : inbox'[b] \subseteq inbox[b]
         \/ \E c \in Calls : Requests(c) /\ \A b \in RPC!Bridges : inbox'[b] \subseteq inbox[b] \cup {c}
<1>1. ASSUME NEW c \in Calls, RPC!CallStep(c)
      PROVE  \/ UNCHANGED inbox
             \/ Requests(c) /\ \A b \in RPC!Bridges : inbox'[b] \subseteq inbox[b] \cup {c}
  <2>1. CASE RPC!StartFinds(c) \/ RPC!StartReturns(c)
    <3>1. (RPC!Alive(client) /\ Writes(c)) \/ Refuses(c)
      BY <2>1, WriteFields DEF RPC!StartFinds, RPC!StartReturns
    <3>2. Writes(c) => \A b \in RPC!Bridges : inbox'[b] \subseteq inbox[b] \cup {c}
      BY TypedParts DEF Writes
    <3>3. pc[c] \in {"new", "starting"}
      BY <2>1 DEF RPC!StartFinds, RPC!StartReturns
    <3> QED
      BY <3>1, <3>2, <3>3 DEF Requests, Refuses
  <2>2. CASE RPC!StartSpawns(c) \/ RPC!StartFails(c) \/ RPC!TimesOut(c) \/ RPC!Cancelled(c)
    BY <2>2 DEF RPC!StartSpawns, RPC!StartFails, RPC!GiveUp, RPC!TimesOut, RPC!Cancelled
  <2> QED
    BY <1>1, <2>1, <2>2 DEF RPC!CallStep
<1>2. ASSUME NEW t, RPC!Stop(t) \/ RPC!TaskStep(t) PROVE UNCHANGED inbox
  BY <1>2 DEF RPC!Stop, RPC!TaskStep, RPC!StopJoins, RPC!StopEnds, RPC!GiveUp
<1>3. ASSUME NEW b \in RPC!Bridges, RPC!ReaderStep(b) PROVE UNCHANGED inbox
  BY <1>3 DEF RPC!ReaderStep, RPC!ReaderStarts, RPC!Read, RPC!ReaderEnds
<1>4. ASSUME NEW b \in RPC!Bridges, RPC!BridgeStep(b) PROVE \A d \in RPC!Bridges : inbox'[d] \subseteq inbox[d]
  <2>1. ASSUME NEW c, RPC!Responds(b, c) PROVE \A d \in RPC!Bridges : inbox'[d] \subseteq inbox[d]
    BY <2>1, TypedParts DEF RPC!Responds
  <2> QED
    BY <1>4, <2>1 DEF RPC!BridgeStep, RPC!Connects, RPC!Executes, RPC!Dies
<1> QED
  BY <1>1, <1>2, <1>3, <1>4 DEF RPC!Next

-----------------------------------------------------------------------------
\* Every action keeps the state well typed.
LEMMA TypeStep ==
  ASSUME RPCAssumption, RPC!TypeOK, [RPC!Next]_(RPC!vars)
  PROVE  RPC!TypeOK'
<1> USE DEF PcStates, Outcomes
<1>1. ASSUME NEW c \in Calls, RPC!CallStep(c) PROVE RPC!TypeOK'
  <2>0. c \in RPC!Tasks
    BY DEF RPC!Tasks
  <2>1. CASE RPC!StartFinds(c) \/ RPC!StartReturns(c)
    BY <2>1, WriteFields DEF RPC!StartFinds, RPC!StartReturns, RPC!TypeOK
  <2>2. CASE RPC!StartSpawns(c)
    <3> DEFINE b == Cardinality(RPC!Bridges \ RPC!Unspawned) + 1
    <3>1. b \in RPC!Bridges /\ b \in 0..MaxBridges
      BY <2>2, NextBridge DEF RPC!StartSpawns, RPC!Bridges
    <3>2. /\ client' = b /\ current' = b /\ ready' = b
          /\ bridges' = [bridges EXCEPT ![b] = "connecting"]
          /\ reader' = [reader EXCEPT ![b] = "created"]
          /\ on' = [on EXCEPT ![c] = b]
          /\ pc' = [pc EXCEPT ![c] = "starting"]
      BY <2>2 DEF RPC!StartSpawns, RPC!Cardinality, Cardinality
    <3> HIDE DEF b
    <3>3. bridges' \in [RPC!Bridges -> {"none", "connecting", "connected", "refused", "closing", "dead"}]
      BY <3>2, TypedParts
    <3>4. reader' \in [RPC!Bridges -> {"none", "created", "reading", "cancelled", "done"}]
      BY <3>2, TypedParts
    <3>5. on' \in [RPC!Tasks -> 0..MaxBridges] /\ pc' \in [RPC!Tasks -> PcStates]
      BY <3>1, <3>2, TypedParts
    <3> QED
      BY <2>2, <3>1, <3>2, <3>3, <3>4, <3>5 DEF RPC!StartSpawns, RPC!TypeOK
  <2>3. CASE RPC!StartFails(c)
    <3>1. pc' \in [RPC!Tasks -> PcStates] /\ told' \in [Calls -> Outcomes] /\ pending' \subseteq Calls
      BY <2>0, <2>3, GiveUpFields, FailsTyped, SuspendsTyped DEF RPC!StartFails
    <3>2. /\ client' = 0 /\ current' \in 0..MaxBridges
          /\ bridges' \in [RPC!Bridges -> {"none", "connecting", "connected", "refused", "closing", "dead"}]
          /\ reader' \in [RPC!Bridges -> {"none", "created", "reading", "cancelled", "done"}]
          /\ on' \in [RPC!Tasks -> 0..MaxBridges]
          /\ UNCHANGED <<inbox, pipe, ready, readied, served>>
      BY <2>0, <2>3, GiveUpFields DEF RPC!StartFails
    <3> QED
      BY <3>1, <3>2 DEF RPCAssumption, RPC!TypeOK
  <2>4. CASE RPC!TimesOut(c) \/ RPC!Cancelled(c)
    <3>1. pc' \in [RPC!Tasks -> PcStates]
      <4>1. pc' = [pc EXCEPT ![c] = "ended"]
        BY <2>4 DEF RPC!TimesOut, RPC!Cancelled
      <4> QED
        BY <4>1, TypedParts
    <3>2. told' \in [Calls -> Outcomes]
      BY <2>4, TypedParts DEF RPC!TimesOut, RPC!Cancelled
    <3> QED
      BY <2>4, <3>1, <3>2 DEF RPC!TimesOut, RPC!Cancelled, RPC!TypeOK
  <2> QED
    BY <1>1, <2>1, <2>2, <2>3, <2>4 DEF RPC!CallStep
<1>2. ASSUME NEW t \in RPC!Tasks, RPC!Stop(t) PROVE RPC!TypeOK'
  <2>1. pc' \in [RPC!Tasks -> PcStates] /\ told' \in [Calls -> Outcomes] /\ pending' \subseteq Calls
    BY <1>2, GiveUpFields, FailsTyped, SuspendsTyped DEF RPC!Stop
  <2>2. /\ client' = 0 /\ current' \in 0..MaxBridges
        /\ bridges' \in [RPC!Bridges -> {"none", "connecting", "connected", "refused", "closing", "dead"}]
        /\ reader' \in [RPC!Bridges -> {"none", "created", "reading", "cancelled", "done"}]
        /\ on' \in [RPC!Tasks -> 0..MaxBridges]
        /\ UNCHANGED <<inbox, pipe, ready, readied, served>>
    BY <1>2, GiveUpFields DEF RPC!Stop
  <2> QED
    BY <2>1, <2>2 DEF RPCAssumption, RPC!TypeOK
<1>3. ASSUME NEW t \in RPC!Tasks, RPC!TaskStep(t) PROVE RPC!TypeOK'
  <2>1. CASE RPC!StopJoins(t)
    <3>1. pc' \in [RPC!Tasks -> PcStates] /\ told' \in [Calls -> Outcomes] /\ pending' \subseteq Calls
      BY <2>1, TakeReaderFields, FailsTyped, SuspendsTyped DEF RPC!StopJoins
    <3>2. bridges' \in [RPC!Bridges -> {"none", "connecting", "connected", "refused", "closing", "dead"}]
      BY <2>1, TypedParts DEF RPC!StopJoins
    <3>3. /\ current' = 0 /\ on' \in [RPC!Tasks -> 0..MaxBridges]
          /\ reader' \in [RPC!Bridges -> {"none", "created", "reading", "cancelled", "done"}]
          /\ UNCHANGED <<client, inbox, pipe, ready, readied, served>>
      BY <2>1, TakeReaderFields DEF RPC!StopJoins
    <3> QED
      BY <3>1, <3>2, <3>3 DEF RPCAssumption, RPC!TypeOK
  <2>2. CASE RPC!StopEnds(t)
    <3>1. pc' \in [RPC!Tasks -> PcStates] /\ told' \in [Calls -> Outcomes] /\ pending' \subseteq Calls
      BY <2>2, EndStopFails, FailsTyped DEF RPC!StopEnds
    <3> QED
      BY <2>2, <3>1 DEF RPC!StopEnds, RPC!TypeOK
  <2> QED
    BY <1>3, <2>1, <2>2 DEF RPC!TaskStep
<1>4. ASSUME NEW b \in RPC!Bridges, RPC!ReaderStep(b) PROVE RPC!TypeOK'
  <2>1. CASE RPC!ReaderStarts(b)
    <3>1. reader' \in [RPC!Bridges -> {"none", "created", "reading", "cancelled", "done"}]
      BY <2>1, TypedParts DEF RPC!ReaderStarts
    <3> QED
      BY <2>1, <3>1 DEF RPC!ReaderStarts, RPC!TypeOK
  <2>2. CASE RPC!ReaderEnds(b)
    <3>1. reader' \in [RPC!Bridges -> {"none", "created", "reading", "cancelled", "done"}]
      BY <2>2, TypedParts DEF RPC!ReaderEnds
    <3>2. readied' \in [RPC!Bridges -> {"open", "ok", "failed"}]
      BY <2>2, ResolveTyped DEF RPC!ReaderEnds
    <3>3. pc' \in [RPC!Tasks -> PcStates] /\ told' \in [Calls -> Outcomes] /\ pending' \subseteq Calls
      BY <2>2, FailPendingFails, FailsTyped DEF RPC!ReaderEnds
    <3> QED
      BY <2>2, <3>1, <3>2, <3>3 DEF RPC!ReaderEnds, RPC!TypeOK
  <2>3. CASE RPC!Read(b)
    <3> DEFINE f == Head(pipe[b])
    <3>1. /\ pipe' = [pipe EXCEPT ![b] = Tail(pipe[b])]
          /\ \/ RPC!Resolve("ok") /\ UNCHANGED <<pending, pc, told>>
             \/ RPC!Resolve("failed") /\ RPC!FailPending
             \/ RPC!Deliver(f) /\ UNCHANGED readied
      BY <2>3 DEF RPC!Read
    <3>2. Tail(pipe[b]) \in Seq(RPC!Frames)
      BY <2>3, TypedParts, TailFacts DEF RPC!Read
    <3>3. pipe' \in [RPC!Bridges -> Seq(RPC!Frames)]
      BY <3>1, <3>2, TypedParts
    <3>4. readied' \in [RPC!Bridges -> {"open", "ok", "failed"}]
      BY <3>1, ResolveTyped, TypedParts
    <3>5. pc' \in [RPC!Tasks -> PcStates] /\ told' \in [Calls -> Outcomes] /\ pending' \subseteq Calls
      <4>1. CASE UNCHANGED <<pending, pc, told>>
        BY <4>1, TypedParts
      <4>2. CASE RPC!FailPending
        BY <4>2, FailPendingFails, FailsTyped
      <4>3. CASE RPC!Deliver(f)
        BY <4>3, DeliverFields, TypedParts
      <4> QED
        BY <3>1, <4>1, <4>2, <4>3
    <3> QED
      BY <2>3, <3>3, <3>4, <3>5 DEF RPC!Read, RPC!TypeOK
  <2> QED
    BY <1>4, <2>1, <2>2, <2>3 DEF RPC!ReaderStep
<1>5. ASSUME NEW b \in RPC!Bridges, RPC!BridgeStep(b) PROVE RPC!TypeOK'
  <2>1. ASSUME NEW f \in {"ready", "refused"}, RPC!Connects(b, f) PROVE RPC!TypeOK'
    <3>1. [kind |-> f] \in RPC!Frames
      BY DEF RPC!Frames
    <3>2. pipe' \in [RPC!Bridges -> Seq(RPC!Frames)]
      BY <2>1, <3>1, EmitTyped DEF RPC!Connects
    <3>3. bridges' \in [RPC!Bridges -> {"none", "connecting", "connected", "refused", "closing", "dead"}]
      BY <2>1, TypedParts DEF RPC!Connects
    <3> QED
      BY <2>1, <3>2, <3>3 DEF RPC!Connects, RPC!TypeOK
  <2>2. ASSUME NEW c \in Calls, RPC!Executes(b, c) PROVE RPC!TypeOK'
    BY <2>2 DEF RPC!Executes, RPC!TypeOK
  <2>3. ASSUME NEW c \in Calls, RPC!Responds(b, c) PROVE RPC!TypeOK'
    <3>1. PICK k \in {"result", "failure"} : RPC!Emit(b, [kind |-> k, id |-> c])
      BY <2>3 DEF RPC!Responds
    <3>2. [kind |-> k, id |-> c] \in RPC!Frames
      BY DEF RPC!Frames
    <3>3. pipe' \in [RPC!Bridges -> Seq(RPC!Frames)]
      BY <3>1, <3>2, EmitTyped
    <3>4. inbox' \in [RPC!Bridges -> SUBSET Calls]
      BY <2>3, TypedParts DEF RPC!Responds
    <3> QED
      BY <2>3, <3>3, <3>4 DEF RPC!Responds, RPC!TypeOK
  <2>4. CASE RPC!Dies(b)
    <3>1. bridges' \in [RPC!Bridges -> {"none", "connecting", "connected", "refused", "closing", "dead"}]
      BY <2>4, TypedParts DEF RPC!Dies
    <3> QED
      BY <2>4, <3>1 DEF RPC!Dies, RPC!TypeOK
  <2> QED
    BY <1>5, <2>1, <2>2, <2>3, <2>4 DEF RPC!BridgeStep
<1>6. CASE UNCHANGED RPC!vars
  BY <1>6 DEF RPC!vars, RPC!TypeOK
<1>7. Stops \subseteq RPC!Tasks
  BY DEF RPC!Tasks
<1> QED
  BY <1>1, <1>2, <1>3, <1>4, <1>5, <1>6, <1>7 DEF RPC!Next

-----------------------------------------------------------------------------
\* Every step ends a call and tells its caller in one go.
LEMMA CallsStep ==
  ASSUME RPCAssumption, RPC!TypeOK, ToldWhenEnded, OnlyMadeCalls, [RPC!Next]_(RPC!vars)
  PROVE  ToldWhenEnded' /\ OnlyMadeCalls'
<1> USE DEF ToldWhenEnded
<1>0. /\ pc \in [RPC!Tasks -> PcStates] /\ told \in [Calls -> Outcomes] /\ Calls \subseteq RPC!Tasks
      /\ pending \subseteq Calls /\ inbox \in [RPC!Bridges -> SUBSET Calls]
  BY TypedParts DEF RPC!Tasks
<1>1. CASE UNCHANGED RPC!vars
  BY <1>1 DEF RPC!vars, OnlyMadeCalls
<1>2. CASE RPC!Next
  <2>1. \/ UNCHANGED <<pc, told>> /\ pending' \subseteq pending
        \/ Halts \/ Fails(pending \cap RPC!Waiting)
        \/ \E c \in Calls : Spawns(c) \/ Requests(c) \/ \E p \in SUBSET pending, r \in Outcomes : Answers(c, p, r)
    BY <1>2, TaskEffects
  <2>2. ASSUME NEW S, Fails(S)
        PROVE ToldWhenEnded' /\ (\A c \in pending' : pc'[c] # "new") /\ \A c \in Calls : pc'[c] = "new" => pc[c] = "new"
    BY <1>0, <2>2 DEF Fails
  <2>3. ASSUME NEW t, AtWork(t), NEW s \in {"stopping", "joining"}, Suspends(t, s)
        PROVE ToldWhenEnded' /\ (\A c \in pending' : pc'[c] # "new") /\ \A c \in Calls : pc'[c] = "new" => pc[c] = "new"
    BY <1>0, <2>3 DEF Suspends, AtWork, OnlyMadeCalls
  <2>4. ASSUME NEW c \in Calls, Spawns(c)
        PROVE ToldWhenEnded' /\ (\A d \in pending' : pc'[d] # "new") /\ \A d \in Calls : pc'[d] = "new" => pc[d] = "new"
    BY <1>0, <2>4 DEF Spawns, OnlyMadeCalls
  <2>5. ASSUME NEW c \in Calls, Requests(c)
        PROVE /\ ToldWhenEnded' /\ (\A d \in pending' : pc'[d] # "new")
              /\ pc'[c] # "new" /\ \A d \in Calls : pc'[d] = "new" => pc[d] = "new"
    <3>1. CASE Writes(c)
      BY <1>0, <2>5, <3>1 DEF Requests, Writes, OnlyMadeCalls
    <3>2. CASE Refuses(c)
      BY <1>0, <2>5, <3>2 DEF Requests, Refuses, OnlyMadeCalls
    <3> QED
      BY <2>5, <3>1, <3>2 DEF Requests
  <2>6. ASSUME NEW c \in Calls, NEW p \in SUBSET pending, NEW r \in Outcomes, Answers(c, p, r)
        PROVE ToldWhenEnded' /\ (\A d \in pending' : pc'[d] # "new") /\ \A d \in Calls : pc'[d] = "new" => pc[d] = "new"
    BY <1>0, <2>6 DEF Answers, OnlyMadeCalls
  <2>7. ToldWhenEnded' /\ (\A c \in pending' : pc'[c] # "new") /\ \A c \in Calls : pc'[c] = "new" => pc[c] = "new"
    BY <2>1, <2>2, <2>3, <2>4, <2>5, <2>6 DEF Halts, OnlyMadeCalls
  <2>8. \A b \in RPC!Bridges : \A c \in inbox'[b] : pc'[c] # "new"
    <3>1. CASE \A b \in RPC!Bridges : inbox'[b] \subseteq inbox[b]
      BY <1>0, <2>7, <3>1 DEF OnlyMadeCalls
    <3>2. CASE \E c \in Calls : Requests(c) /\ \A b \in RPC!Bridges : inbox'[b] \subseteq inbox[b] \cup {c}
      <4>1. PICK c \in Calls : Requests(c) /\ \A b \in RPC!Bridges : inbox'[b] \subseteq inbox[b] \cup {c}
        BY <3>2
      <4>2. pc'[c] # "new"
        BY <2>5, <4>1
      <4> QED
        BY <1>0, <2>7, <4>1, <4>2 DEF OnlyMadeCalls
    <3> QED
      BY <1>2, <3>1, <3>2, InboxEffects
  <2> QED
    BY <2>7, <2>8 DEF OnlyMadeCalls
<1> QED
  BY <1>1, <1>2

\* Every step writes only results of calls the gateway executed.
LEMMA ResultsStep ==
  ASSUME RPC!TypeOK, ResultsAreServed, [RPC!Next]_(RPC!vars)
  PROVE  ResultsAreServed'
<1>1. ASSUME UNCHANGED pipe, served \subseteq served' PROVE ResultsAreServed'
  BY <1>1 DEF ResultsAreServed
<1>2. pipe \in [RPC!Bridges -> Seq(RPC!Frames)]
  BY TypedParts
<1>3. ASSUME NEW b \in RPC!Bridges, NEW f \in RPC!Frames, RPC!Emit(b, f), f.kind = "result" => f.id \in served, UNCHANGED served
      PROVE  ResultsAreServed'
  <2>1. pipe[b] \in Seq(RPC!Frames) /\ pipe' = [pipe EXCEPT ![b] = Append(pipe[b], f)]
    BY <1>2, <1>3 DEF RPC!Emit
  <2>2. \A i \in DOMAIN pipe'[b] : pipe'[b][i].kind = "result" => pipe'[b][i].id \in served
    BY <1>2, <1>3, <2>1, AppendFacts DEF ResultsAreServed
  <2> QED
    BY <1>2, <1>3, <2>1, <2>2 DEF ResultsAreServed
<1>4. ASSUME NEW b \in RPC!Bridges, RPC!Read(b) PROVE ResultsAreServed'
  <2>1. pipe[b] \in Seq(RPC!Frames) /\ pipe[b] # <<>> /\ pipe' = [pipe EXCEPT ![b] = Tail(pipe[b])] /\ UNCHANGED served
    BY <1>2, <1>4 DEF RPC!Read
  <2>2. \A i \in DOMAIN pipe'[b] : pipe'[b][i].kind = "result" => pipe'[b][i].id \in served
    BY <1>2, <2>1, TailFacts DEF ResultsAreServed
  <2> QED
    BY <1>2, <2>1, <2>2 DEF ResultsAreServed
<1>5. ASSUME NEW b \in RPC!Bridges, NEW c \in Calls, RPC!Responds(b, c) PROVE ResultsAreServed'
  <2>1. PICK k \in {"result", "failure"} : RPC!Emit(b, [kind |-> k, id |-> c]) /\ (k = "result" => c \in served)
    BY <1>5 DEF RPC!Responds
  <2>2. [kind |-> k, id |-> c] \in RPC!Frames
    BY DEF RPC!Frames
  <2> QED
    BY <1>3, <1>5, <2>1, <2>2 DEF RPC!Responds
<1>6. ASSUME NEW b \in RPC!Bridges, NEW f \in {"ready", "refused"}, RPC!Connects(b, f) PROVE ResultsAreServed'
  <2>1. [kind |-> f] \in RPC!Frames /\ [kind |-> f].kind # "result"
    BY DEF RPC!Frames
  <2> QED
    BY <1>3, <1>6, <2>1 DEF RPC!Connects
<1>7. ASSUME NEW c \in Calls, RPC!CallStep(c) PROVE ResultsAreServed'
  BY <1>1, <1>7 DEF RPC!CallStep, RPC!StartFinds, RPC!StartSpawns, RPC!StartReturns,
                   RPC!StartFails, RPC!GiveUp, RPC!TimesOut, RPC!Cancelled
<1>8. ASSUME NEW t, RPC!Stop(t) \/ RPC!TaskStep(t) PROVE ResultsAreServed'
  BY <1>1, <1>8 DEF RPC!Stop, RPC!GiveUp, RPC!TaskStep, RPC!StopJoins, RPC!StopEnds
<1>9. ASSUME NEW b \in RPC!Bridges, RPC!ReaderStarts(b) \/ RPC!ReaderEnds(b) \/ RPC!Dies(b) \/ \E c \in Calls : RPC!Executes(b, c)
      PROVE  ResultsAreServed'
  BY <1>1, <1>9 DEF RPC!ReaderStarts, RPC!ReaderEnds, RPC!Dies, RPC!Executes
<1>10. CASE UNCHANGED RPC!vars
  BY <1>1, <1>10 DEF RPC!vars
<1> QED
  BY <1>4, <1>5, <1>6, <1>7, <1>8, <1>9, <1>10 DEF RPC!Next, RPC!ReaderStep, RPC!BridgeStep

-----------------------------------------------------------------------------
LEMMA InitRPCInv ==
  ASSUME RPCAssumption, RPC!Init
  PROVE  RPCInv
<1>1. RPC!TypeOK
  BY EmptySeq DEF RPCAssumption, RPC!Init, RPC!TypeOK
<1> QED
  BY <1>1 DEF RPC!Init, RPCInv, ToldWhenEnded, OnlyMadeCalls, ResultsAreServed, RPC!Tasks

LEMMA AlwaysRPC == RPCAssumption => (RPC!Spec => []RPCInv)
<1> SUFFICES ASSUME RPCAssumption PROVE RPC!Spec => []RPCInv
  OBVIOUS
<1>1. RPC!Init => RPCInv
  BY InitRPCInv
<1>2. RPCInv /\ [RPC!Next]_(RPC!vars) => RPCInv'
  BY TypeStep, CallsStep, ResultsStep DEF RPCInv
<1> QED
  BY <1>1, <1>2, PTL DEF RPC!Spec

\* The values of every variable, for any callers, stops and bridges.
THEOREM RPCTypeCorrect ==
  ASSUME RPCAssumption
  PROVE  RPC!Spec => []RPC!TypeOK
<1>1. RPCInv => RPC!TypeOK
  BY DEF RPCInv
<1> QED
  BY <1>1, AlwaysRPC, PTL

-----------------------------------------------------------------------------
(* The refinement.  What each caller has been told, in the words of RPCCalls. *)
Told == [c \in Calls |-> RPC!Status(c)]
Same == \A c \in Calls : told'[c] = told[c] /\ (pc'[c] = "new" <=> pc[c] = "new")

LEMMA ToldOf ==
  ASSUME ToldWhenEnded, NEW c \in Calls
  PROVE  /\ pc[c] = "new" => RPC!Status(c) = "idle"
         /\ pc[c] \notin {"new", "ended"} => RPC!Status(c) = "made"
  BY DEF ToldWhenEnded, RPC!Status

\* A step that tells nobody anything and makes no call stutters.
LEMMA StutterSteps ==
  ASSUME Same, UNCHANGED served
  PROVE  UNCHANGED RPC!Abstract!vars
<1>1. \A c \in Calls : RPC!Status(c)' = RPC!Status(c)
  BY DEF Same, RPC!Status
<1>2. [c \in Calls |-> RPC!Status(c)]' = [c \in Calls |-> RPC!Status(c)]
  BY <1>1
<1> QED
  BY <1>2 DEF RPC!Abstract!vars

\* Calls that end with an error fail, however many end at once.
LEMMA FailSteps ==
  ASSUME ToldWhenEnded, UNCHANGED served, NEW C \in SUBSET Calls,
         \A c \in C : pc[c] \notin {"new", "ended"} /\ told'[c] \in {"error", "cancelled"},
         \A c \in Calls \ C : told'[c] = told[c] /\ (pc'[c] = "new" <=> pc[c] = "new")
  PROVE  RPC!Abstract!Next
<1>1. \A c \in C : RPC!Status(c) = "made" /\ RPC!Status(c)' = "error"
  BY ToldOf DEF RPC!Status
<1>2. \A c \in Calls \ C : RPC!Status(c)' = RPC!Status(c)
  BY DEF RPC!Status
<1>3. Told' = [c \in Calls |-> IF c \in C THEN "error" ELSE Told[c]]
  BY <1>1, <1>2 DEF Told
<1>4. C \in SUBSET {c \in Calls : Told[c] = "made"}
  BY <1>1 DEF Told
<1>5. RPC!Abstract!FailAll
  BY <1>3, <1>4 DEF RPC!Abstract!FailAll, Told
<1> QED
  BY <1>5 DEF RPC!Abstract!Next

\* A call that starts, or is written at once, is made.
LEMMA MakeSteps ==
  ASSUME ToldWhenEnded, UNCHANGED served, NEW c \in Calls, pc[c] = "new", pc'[c] \notin {"new", "ended"},
         \A d \in Calls : told'[d] = told[d], \A d \in Calls \ {c} : pc'[d] = "new" <=> pc[d] = "new"
  PROVE  RPC!Abstract!Next
<1>1. RPC!Status(c) = "idle" /\ RPC!Status(c)' = "made"
  BY ToldOf DEF RPC!Status, ToldWhenEnded
<1>2. \A d \in Calls \ {c} : RPC!Status(d)' = RPC!Status(d)
  BY DEF RPC!Status
<1>3. Told[c] = "idle" /\ Told' = [Told EXCEPT ![c] = "made"]
  BY <1>1, <1>2 DEF Told
<1>4. RPC!Abstract!Make(c)
  BY <1>3 DEF RPC!Abstract!Make, Told
<1> QED
  BY <1>4 DEF RPC!Abstract!Next

\* A caller that hears of a result is told of an executed call.
LEMMA AnswerSteps ==
  ASSUME ToldWhenEnded, UNCHANGED served, NEW c \in Calls, c \in served, pc[c] = "waiting",
         told'[c] = "result",
         \A d \in Calls \ {c} : told'[d] = told[d] /\ (pc'[d] = "new" <=> pc[d] = "new")
  PROVE  RPC!Abstract!Next
<1>1. RPC!Status(c) = "made" /\ RPC!Status(c)' = "result"
  BY ToldOf DEF RPC!Status
<1>2. \A d \in Calls \ {c} : RPC!Status(d)' = RPC!Status(d)
  BY DEF RPC!Status
<1>3. Told[c] = "made" /\ Told' = [Told EXCEPT ![c] = "result"]
  BY <1>1, <1>2 DEF Told
<1>4. RPC!Abstract!Answer(c)
  BY <1>3 DEF RPC!Abstract!Answer, Told
<1> QED
  BY <1>4 DEF RPC!Abstract!Next

\* The gateway executes a call that was made.
LEMMA ServeSteps ==
  ASSUME RPCInv, NEW b \in RPC!Bridges, NEW c \in Calls, RPC!Executes(b, c)
  PROVE  RPC!Abstract!Next
<1>1. c \notin served /\ served' = served \cup {c} /\ pc[c] # "new" /\ UNCHANGED <<pc, told>>
  BY DEF RPC!Executes, RPCInv, OnlyMadeCalls
<1>2. RPC!Status(c) # "idle"
  BY <1>1, TypedParts DEF RPC!Status, RPCInv, Outcomes
<1>3. Told' = Told /\ Told[c] # "idle"
  BY <1>1, <1>2 DEF Told, RPC!Status
<1>4. RPC!Abstract!Serve(c)
  BY <1>1, <1>3 DEF RPC!Abstract!Serve, Told
<1> QED
  BY <1>4 DEF RPC!Abstract!Next

\* A response that is read is told to its caller, or to nobody.
LEMMA ReadSteps ==
  ASSUME RPCAssumption, RPCInv, NEW b \in RPC!Bridges, RPC!Read(b)
  PROVE  RPC!Abstract!Next \/ UNCHANGED RPC!Abstract!vars
<1> DEFINE f == Head(pipe[b])
<1>0. RPC!TypeOK /\ ToldWhenEnded /\ pc \in [RPC!Tasks -> PcStates] /\ told \in [Calls -> Outcomes] /\ Calls \subseteq RPC!Tasks
  BY TypedParts DEF RPCInv, RPC!Tasks
<1>1. /\ UNCHANGED served
      /\ \/ UNCHANGED <<pc, told>>
         \/ RPC!FailPending
         \/ RPC!Deliver(f)
  BY DEF RPC!Read
<1>2. CASE UNCHANGED <<pc, told>>
  BY <1>1, <1>2, StutterSteps DEF Same
<1>3. CASE RPC!FailPending
  <2> DEFINE C == pending \cap RPC!Waiting
  <2>1. \A c \in C : pc[c] \notin {"new", "ended"} /\ told'[c] \in {"error", "cancelled"}
    BY <1>3 DEF RPC!FailPending, RPC!Waiting
  <2>2. \A c \in Calls \ C : told'[c] = told[c] /\ (pc'[c] = "new" <=> pc[c] = "new")
    BY <1>0, <1>3 DEF RPC!FailPending
  <2>3. C \in SUBSET Calls
    BY DEF RPC!Waiting
  <2> HIDE DEF C
  <2> QED
    BY <1>0, <1>1, <2>1, <2>2, <2>3, FailSteps
<1>4. CASE RPC!Deliver(f)
  <2>1. CASE UNCHANGED <<pc, told>>
    BY <1>2, <2>1
  <2>2. CASE /\ f.id \in Calls /\ pc[f.id] = "waiting"
             /\ pc' = [pc EXCEPT ![f.id] = "ended"]
             /\ told' = [told EXCEPT ![f.id] = IF f.kind = "result" THEN "result" ELSE "error"]
    <3> DEFINE c == f.id
    <3>1. \A d \in Calls \ {c} : told'[d] = told[d] /\ (pc'[d] = "new" <=> pc[d] = "new")
      BY <1>0, <2>2
    <3>2. CASE f.kind = "result"
      <4>1. pipe[b] \in Seq(RPC!Frames) /\ pipe[b] # <<>>
        BY <1>0, TypedParts DEF RPC!Read
      <4>2. c \in served
        BY <3>2, <4>1, TailFacts DEF RPCInv, ResultsAreServed
      <4>3. told'[c] = "result"
        BY <1>0, <2>2, <3>2
      <4> HIDE DEF c
      <4> QED
        BY <1>0, <1>1, <2>2, <3>1, <4>2, <4>3, AnswerSteps DEF c
    <3>3. CASE f.kind # "result"
      <4>1. told'[c] = "error" /\ {c} \in SUBSET Calls
        BY <1>0, <2>2, <3>3
      <4>2. \A d \in {c} : pc[d] \notin {"new", "ended"} /\ told'[d] \in {"error", "cancelled"}
        BY <2>2, <4>1
      <4> HIDE DEF c
      <4> QED
        BY <1>0, <1>1, <3>1, <4>1, <4>2, FailSteps
    <3> QED
      BY <3>2, <3>3
  <2> QED
    BY <1>0, <1>4, <2>1, <2>2, DeliverFields
<1> QED
  BY <1>1, <1>2, <1>3, <1>4

\* stop() and a start that fails end the calls that wait, and their own.
LEMMA HaltSteps ==
  ASSUME RPCAssumption, RPCInv, UNCHANGED served, Halts
  PROVE  RPC!Abstract!Next \/ UNCHANGED RPC!Abstract!vars
<1>0. RPC!TypeOK /\ ToldWhenEnded /\ pc \in [RPC!Tasks -> PcStates] /\ told \in [Calls -> Outcomes] /\ Calls \subseteq RPC!Tasks
  BY TypedParts DEF RPCInv, RPC!Tasks
<1>1. PICK t : /\ AtWork(t)
               /\ \/ \E s \in {"stopping", "joining"} : Suspends(t, s)
                  \/ Fails((pending \cap RPC!Waiting) \cup {t})
  BY DEF Halts
<1>2. CASE \E s \in {"stopping", "joining"} : Suspends(t, s)
  <2>1. Same
    BY <1>0, <1>1, <1>2 DEF Suspends, AtWork, Same
  <2> QED
    BY <2>1, StutterSteps
<1>3. CASE Fails((pending \cap RPC!Waiting) \cup {t})
  <2> DEFINE C == ((pending \cap RPC!Waiting) \cup {t}) \cap Calls
  <2>1. \A c \in C : pc[c] \notin {"new", "ended"} /\ told'[c] \in {"error", "cancelled"}
    BY <1>1, <1>3 DEF Fails, RPC!Waiting, AtWork
  <2>2. \A c \in Calls \ C : told'[c] = told[c] /\ (pc'[c] = "new" <=> pc[c] = "new")
    BY <1>0, <1>3 DEF Fails
  <2>3. C \in SUBSET Calls
    OBVIOUS
  <2> HIDE DEF C
  <2> QED
    BY <1>0, <2>1, <2>2, <2>3, FailSteps
<1> QED
  BY <1>1, <1>2, <1>3

\* The steps of a caller.
LEMMA CallSteps ==
  ASSUME RPCAssumption, RPCInv, NEW c \in Calls, RPC!CallStep(c)
  PROVE  RPC!Abstract!Next \/ UNCHANGED RPC!Abstract!vars
<1>0. RPC!TypeOK /\ ToldWhenEnded /\ pc \in [RPC!Tasks -> PcStates] /\ told \in [Calls -> Outcomes] /\ c \in RPC!Tasks
      /\ Calls \subseteq RPC!Tasks
  BY TypedParts DEF RPCInv, RPC!Tasks
<1>1. UNCHANGED served
  BY DEF RPC!CallStep, RPC!StartFinds, RPC!StartSpawns, RPC!StartReturns, RPC!StartFails, RPC!GiveUp, RPC!TimesOut, RPC!Cancelled
<1>2. CASE RPC!StartFinds(c) \/ RPC!StartSpawns(c)
  <2>1. pc[c] = "new" /\ (pc' = [pc EXCEPT ![c] = "waiting"] \/ pc' = [pc EXCEPT ![c] = "starting"]) /\ UNCHANGED told
    BY <1>0, <1>2, WriteFields DEF RPC!StartFinds, RPC!StartSpawns, Writes
  <2>2. pc'[c] \notin {"new", "ended"} /\ \A d \in Calls \ {c} : pc'[d] = pc[d]
    BY <1>0, <2>1
  <2> QED
    BY <1>0, <1>1, <2>1, <2>2, MakeSteps
<1>3. CASE RPC!StartReturns(c)
  <2>1. pc[c] = "starting" /\ (Writes(c) \/ Refuses(c))
    BY <1>0, <1>3, WriteFields DEF RPC!StartReturns
  <2>2. CASE Writes(c)
    <3>1. Same
      BY <1>0, <2>1, <2>2 DEF Writes, Same
    <3> QED
      BY <1>1, <3>1, StutterSteps
  <2>3. CASE Refuses(c)
    <3>1. told'[c] = "error" /\ \A d \in Calls \ {c} : told'[d] = told[d] /\ (pc'[d] = "new" <=> pc[d] = "new")
      BY <1>0, <2>3 DEF Refuses
    <3> QED
      BY <1>0, <1>1, <2>1, <3>1, FailSteps, {c} \in SUBSET Calls
  <2> QED
    BY <2>1, <2>2, <2>3
<1>4. CASE RPC!StartFails(c)
  <2>1. AtWork(c)
    BY <1>0, <1>4, StopsAtWork DEF RPC!StartFails
  <2>2. Halts
    BY <1>0, <1>4, <2>1, GiveUpFields DEF RPC!StartFails, Halts
  <2> QED
    BY <1>1, <2>2, HaltSteps
<1>5. CASE RPC!TimesOut(c) \/ RPC!Cancelled(c)
  <2>1. PICK r \in {"error", "cancelled"} :
          pc[c] = "waiting" /\ pc' = [pc EXCEPT ![c] = "ended"] /\ told' = [told EXCEPT ![c] = r]
    BY <1>5 DEF RPC!TimesOut, RPC!Cancelled
  <2>2. told'[c] = r /\ \A d \in Calls \ {c} : told'[d] = told[d] /\ (pc'[d] = "new" <=> pc[d] = "new")
    BY <1>0, <2>1
  <2> QED
    BY <1>0, <1>1, <2>1, <2>2, FailSteps, {c} \in SUBSET Calls
<1> QED
  BY <1>2, <1>3, <1>4, <1>5 DEF RPC!CallStep

\* Every step of the RPC is a step of RPCCalls, or one its callers do not see.
LEMMA RefinementStep ==
  ASSUME RPCAssumption, RPCInv, [RPC!Next]_(RPC!vars)
  PROVE  RPC!Abstract!Next \/ UNCHANGED RPC!Abstract!vars
<1>0. RPC!TypeOK
  BY DEF RPCInv
<1>1. ASSUME UNCHANGED <<pc, told, served>> PROVE UNCHANGED RPC!Abstract!vars
  BY <1>1, StutterSteps DEF Same
<1>2. CASE UNCHANGED RPC!vars
  BY <1>1, <1>2 DEF RPC!vars
<1>3. ASSUME NEW c \in Calls, RPC!CallStep(c) PROVE RPC!Abstract!Next \/ UNCHANGED RPC!Abstract!vars
  BY <1>3, CallSteps
<1>4. ASSUME NEW t \in RPC!Tasks, RPC!Stop(t) \/ RPC!TaskStep(t) PROVE RPC!Abstract!Next \/ UNCHANGED RPC!Abstract!vars
  <2>1. AtWork(t)
    BY <1>0, <1>4, StopsAtWork DEF RPC!Stop, RPC!TaskStep, RPC!StopJoins, RPC!StopEnds
  <2>2. (\E s \in {"stopping", "joining"} : Suspends(t, s)) \/ Fails((pending \cap RPC!Waiting) \cup {t})
    BY <1>0, <1>4, GiveUpFields, TakeReaderFields, EndStopFails DEF RPC!Stop, RPC!TaskStep, RPC!StopJoins, RPC!StopEnds
  <2>3. UNCHANGED served
    BY <1>4 DEF RPC!Stop, RPC!TaskStep, RPC!StopJoins, RPC!StopEnds, RPC!GiveUp
  <2> QED
    BY <2>1, <2>2, <2>3, HaltSteps DEF Halts
<1>5. ASSUME NEW b \in RPC!Bridges, RPC!ReaderStep(b) PROVE RPC!Abstract!Next \/ UNCHANGED RPC!Abstract!vars
  <2>1. CASE RPC!ReaderStarts(b)
    BY <1>1, <2>1 DEF RPC!ReaderStarts
  <2>2. CASE RPC!ReaderEnds(b)
    <3>1. Fails(pending \cap RPC!Waiting) /\ UNCHANGED served
      BY <2>2, FailPendingFails DEF RPC!ReaderEnds
    <3> DEFINE C == pending \cap RPC!Waiting
    <3>2. \A c \in C : pc[c] \notin {"new", "ended"} /\ told'[c] \in {"error", "cancelled"}
      BY <3>1 DEF Fails, RPC!Waiting
    <3>3. \A c \in Calls \ C : told'[c] = told[c] /\ (pc'[c] = "new" <=> pc[c] = "new")
      BY <1>0, <3>1, TypedParts DEF Fails, RPC!Tasks
    <3>4. C \in SUBSET Calls /\ ToldWhenEnded
      BY DEF RPC!Waiting, RPCInv
    <3> HIDE DEF C
    <3> QED
      BY <3>1, <3>2, <3>3, <3>4, FailSteps
  <2>3. CASE RPC!Read(b)
    BY <2>3, ReadSteps
  <2> QED
    BY <1>5, <2>1, <2>2, <2>3 DEF RPC!ReaderStep
<1>6. ASSUME NEW b \in RPC!Bridges, RPC!BridgeStep(b) PROVE RPC!Abstract!Next \/ UNCHANGED RPC!Abstract!vars
  <2>1. ASSUME NEW c \in Calls, RPC!Executes(b, c) PROVE RPC!Abstract!Next
    BY <2>1, ServeSteps
  <2>2. (\E f \in {"ready", "refused"} : RPC!Connects(b, f)) \/ (\E c \in Calls : RPC!Responds(b, c)) \/ RPC!Dies(b)
          => UNCHANGED <<pc, told, served>>
    BY DEF RPC!Connects, RPC!Responds, RPC!Dies
  <2> QED
    BY <1>1, <1>6, <2>1, <2>2 DEF RPC!BridgeStep
<1>7. Stops \subseteq RPC!Tasks
  BY DEF RPC!Tasks
<1> QED
  BY <1>2, <1>3, <1>4, <1>5, <1>6, <1>7 DEF RPC!Next

\* What the callers of the RPC see, whatever bridges and readers do: a call
\* answered with a result was executed, and each caller hears once.  This is
\* ImplementsRPCCalls without the fairness of RPCCalls.
THEOREM CallersSeeRPCCalls ==
  ASSUME RPCAssumption
  PROVE  RPC!Spec => RPC!Abstract!Init /\ [][RPC!Abstract!Next]_(RPC!Abstract!vars)
<1>1. RPC!Init => RPC!Abstract!Init
  <2> SUFFICES ASSUME RPC!Init PROVE RPC!Abstract!Init
    OBVIOUS
  <2>1. \A c \in Calls : RPC!Status(c) = "idle"
    BY DEF RPC!Init, RPC!Status, RPC!Tasks
  <2> QED
    BY <2>1 DEF RPC!Init, RPC!Abstract!Init
<1>2. RPCInv /\ [RPC!Next]_(RPC!vars) => [RPC!Abstract!Next]_(RPC!Abstract!vars)
  BY RefinementStep
<1> QED
  BY <1>1, <1>2, AlwaysRPC, PTL DEF RPC!Spec
=============================================================================
