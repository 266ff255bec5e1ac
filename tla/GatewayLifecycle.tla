--------------------------- MODULE GatewayLifecycle ---------------------------
(***************************************************************************)
(* How server/openclaw_client.py starts, adopts, links to, replaces and    *)
(* reclaims its OpenClaw gateway process: ensure_ready, prewarm, shutdown, *)
(* recovery, quitting, and the crash of the backend or of a gateway at any *)
(* await.  ensure_ready runs under _startup_lock; shutdown does not, and   *)
(* only the record on disk survives a backend.                             *)
(***************************************************************************)
EXTENDS Naturals, FiniteSets

CONSTANTS
  Users,       \* turns and polls that need the gateway
  MaxGateways, \* bound: gateway processes spawned
  MaxFaults,   \* bound: crashes of a gateway or of the backend
  Migrations,  \* offline repairs that the state database needs
  Env          \* what else may happen

\* "cancel": the task of a turn is cancelled; "slow_exec": a launched script is
\* not recognisable as a gateway at once; "slow_health": a serving gateway may
\* miss the 1.5 seconds of a health request; "lost_record": owner.json of a gateway
\* that serves is removed by other hands.
AllEnv == {"cancel", "lost_record", "slow_exec", "slow_health"}

ASSUME GatewayLifecycleAssumption ==
  /\ Users \cap {"warm", "heal", "none"} = {}
  /\ MaxGateways \in Nat \ {0} /\ MaxFaults \in Nat /\ Migrations \in Nat
  /\ Env \subseteq AllEnv

VARIABLES
  gw,      \* life cycle of each gateway process; gateway g listens on port g
  orphan,  \* the gateways whose parent is launchd
  legacy,  \* the gateways an older app bundle started
  lease,   \* holder of the startup-migration lease in the database, 0: free
  broken,  \* repairs the database still needs
  record,  \* owner.json
  process, port,  \* self.process and self.port
  bridge,  \* the port that the RPC bridge process dials, 0: no bridge
  lock,    \* holder of _startup_lock
  task,    \* what each task is suspended in
  stray,   \* an offline repair outlived the task that awaited it
  restoring, \* the gateway whose record watch_native_parent restores, 0: none
  faults

vars == <<gw, orphan, legacy, lease, broken, record, process, port, bridge, lock, task, stray, restoring, faults>>

Gateways == 1..MaxGateways
Tasks    == Users \cup {"warm", "heal"}
NoTask   == "none"
NoRecord == [pid |-> 0, port |-> 0]
Off      == [pc |-> "off", on |-> 0, seen |-> FALSE, tries |-> 0, then |-> "off"]

\* The probes of _owned_ready: where they are made, and while they are out.
Probing  == [check |-> "checking", recheck |-> "rechecking", poll |-> "polling"]
Closing  == {"unlinking", "unwarming", "terminating"}
Holding  == {"recheck", "rechecking", "clean", "reclaiming", "sweep", "prepare",
             "spawn", "poll", "polling", "repair"}
PCs == {"off", "check", "checking", "wait", "link"} \cup Holding \cup Closing

TypeOK ==
  /\ gw \in [Gateways -> {"none", "launching", "booting", "migrating", "serving", "stopping", "dead"}]
  /\ orphan \subseteq Gateways /\ legacy \subseteq Gateways /\ lease \in 0..MaxGateways /\ broken \in 0..Migrations
  /\ record \in [pid : 0..MaxGateways, port : 0..MaxGateways]
  /\ process \in 0..MaxGateways /\ port \in 0..MaxGateways /\ bridge \in 0..MaxGateways
  /\ lock \in Tasks \cup {NoTask}
  /\ task \in [Tasks -> [pc : PCs, on : 0..MaxGateways, seen : BOOLEAN, tries : 0..3,
                         then : {"off", "check", "startup"}]]
  /\ stray \in BOOLEAN /\ restoring \in 0..MaxGateways /\ faults \in 0..MaxFaults

Init ==
  /\ legacy \in {{}, {1}} /\ orphan = legacy
  /\ gw = [g \in Gateways |-> IF g \in legacy THEN "serving" ELSE "none"]
  /\ record = IF legacy = {} THEN NoRecord ELSE [pid |-> 1, port |-> 1]
  /\ lease = 0 /\ broken = Migrations /\ process = 0 /\ port = 0 /\ bridge = 0
  /\ lock = NoTask /\ task = [t \in Tasks |-> Off] /\ stray = FALSE /\ restoring = 0 /\ faults = 0

Live      == {g \in Gateways : gw[g] \notin {"none", "dead"}}
Fresh     == {g \in Gateways : gw[g] = "none"}
Fresher   == IF Fresh = {} THEN 0 ELSE CHOOSE g \in Fresh : \A h \in Fresh : g <= h

\* _process_owns_listener and _managed_gateway_processes go by a fingerprint of
\* this bundle; the orphans of an older one are recognised separately.
Listening == {g \in Gateways \ legacy : gw[g] = "serving"}
Managed   == {g \in Live \ legacy : gw[g] # "launching"}
Reclaimable == (Managed \cup (Live \cap legacy)) \cap orphan

Goes(t, c)    == task' = [task EXCEPT ![t] = [@ EXCEPT !.pc = c, !.on = 0, !.seen = FALSE]]
Leaves(t)     == /\ task' = [task EXCEPT ![t] = Off]
                 /\ lock' = IF lock = t THEN NoTask ELSE lock
Kill(G)       == gw' = [g \in Gateways |-> IF g \in G THEN "stopping" ELSE gw[g]]

-----------------------------------------------------------------------------
(* ensure_ready *)

\* A turn, a poll of the agent board, or prewarm() when its task is over.
Begins(t) ==
  /\ task[t].pc = "off" /\ t # "heal"
  /\ Goes(t, "check")
  /\ UNCHANGED <<gw, orphan, legacy, lease, broken, record, process, port, bridge, lock, stray, faults, restoring>>

\* _owned_ready: the process is alive, owns the listener of self.port and
\* answers; a missing record is rewritten with the port there is by then.
Unready(c) == IF c = "check" THEN "wait" ELSE IF c = "recheck" THEN "clean" ELSE "poll"
Origin(c)  == CHOOSE o \in DOMAIN Probing : Probing[o] = c

\* In the startup loop self.process.returncode is read first: None raises.
Askable == process \in Live /\ port # 0
Probe(t) ==
  /\ task[t].pc \in DOMAIN Probing
  /\ \/ /\ Askable
        /\ \E up \in {port = process /\ process \in Listening}
                     \cup (IF "slow_health" \in Env THEN {FALSE} ELSE {}) :
             task' = [task EXCEPT ![t] =
                        [@ EXCEPT !.pc = Probing[task[t].pc], !.on = process, !.seen = up]]
        /\ UNCHANGED lock
     \/ ~Askable /\ task[t].pc # "poll" /\ Goes(t, Unready(task[t].pc)) /\ UNCHANGED lock
     \/ process = 0 /\ task[t].pc = "poll" /\ Leaves(t)
  /\ UNCHANGED <<gw, orphan, legacy, lease, broken, record, process, port, bridge, stray, faults, restoring>>

ProbeEnds(t) ==
  /\ task[t].pc \in {Probing[c] : c \in DOMAIN Probing}
  /\ IF task[t].seen
       THEN /\ record' = IF record = NoRecord THEN [pid |-> task[t].on, port |-> port] ELSE record
            /\ lock' = IF lock = t THEN NoTask ELSE lock
            /\ task' = [task EXCEPT ![t] = IF t = "heal" THEN Off ELSE [Off EXCEPT !.pc = "link"]]
       ELSE Goes(t, Unready(Origin(task[t].pc))) /\ UNCHANGED <<record, lock>>
  /\ UNCHANGED <<gw, orphan, legacy, lease, broken, process, port, bridge, stray, faults, restoring>>

Locks(t) ==
  /\ task[t].pc = "wait" /\ lock = NoTask
  /\ lock' = t /\ Goes(t, "recheck")
  /\ UNCHANGED <<gw, orphan, legacy, lease, broken, record, process, port, bridge, stray, faults, restoring>>

\* _clean_previous_owner: the recorded gateway is terminated if it provably
\* listens on the recorded port; a record without a port is dropped.
CleanOwner(t) ==
  /\ task[t].pc = "clean"
  /\ IF record.port = 0
       THEN record' = NoRecord /\ Goes(t, "sweep") /\ UNCHANGED gw
       ELSE /\ UNCHANGED record
            /\ IF record.pid \in Listening /\ record.port = record.pid
                 THEN /\ Kill({record.pid})
                      /\ task' = [task EXCEPT ![t] = [@ EXCEPT !.pc = "reclaiming", !.on = record.pid]]
                 ELSE Goes(t, "sweep") /\ UNCHANGED gw
  /\ UNCHANGED <<orphan, legacy, lease, broken, process, port, bridge, lock, stray, faults, restoring>>

OwnerGone(t) ==
  /\ task[t].pc = "reclaiming" /\ task[t].on \notin Live
  /\ record' = NoRecord /\ Goes(t, "sweep")
  /\ UNCHANGED <<gw, orphan, legacy, lease, broken, process, port, bridge, lock, stray, faults, restoring>>

\* Orphans of an earlier backend are terminated; anything else that is alive
\* is taken for somebody else's gateway and raises.
Sweep_Mut(t) ==
  /\ task[t].pc = "sweep"
  /\ Kill(Reclaimable) /\ Goes(t, "prepare") /\ UNCHANGED lock
  /\ UNCHANGED <<orphan, legacy, lease, broken, record, process, port, bridge, stray, faults, restoring>>
Sweep(t) ==
  /\ task[t].pc = "sweep"
  /\ Kill(Reclaimable)
  /\ IF Managed \ orphan # {} THEN Leaves(t)
     ELSE /\ UNCHANGED lock
          /\ IF Reclaimable = {} THEN Goes(t, "prepare") ELSE UNCHANGED task
  /\ UNCHANGED <<orphan, legacy, lease, broken, record, process, port, bridge, stray, faults, restoring>>

\* An abandoned lease is removed if no process and no record stand for a holder.
Clears(t) == process \notin Live /\ record = NoRecord
Prepare(t) ==
  /\ task[t].pc = "prepare"
  /\ lease' = IF Clears(t) THEN 0 ELSE lease
  /\ task' = [task EXCEPT ![t] = [@ EXCEPT !.pc = "spawn", !.tries = 1]]
  /\ port' = Fresher
  /\ UNCHANGED <<gw, orphan, legacy, broken, record, process, bridge, lock, stray, faults, restoring>>

\* Migrating the codex record or the setup script raises.
SetupFails(t) ==
  /\ task[t].pc = "prepare"
  /\ Leaves(t)
  /\ UNCHANGED <<gw, orphan, legacy, lease, broken, record, process, port, bridge, stray, faults, restoring>>

\* The port was chosen before the environment was built; the record takes
\* whatever self.port is when the process exists.
Spawn(t) ==
  /\ task[t].pc = "spawn" /\ Fresh # {}
  /\ gw' = [gw EXCEPT ![Fresher] = IF "slow_exec" \in Env THEN "launching" ELSE "booting"]
  /\ process' = Fresher
  /\ record' = [pid |-> Fresher, port |-> port]
  /\ Goes(t, "poll")
  /\ UNCHANGED <<orphan, legacy, lease, broken, port, bridge, lock, stray, faults, restoring>>

NotSpawned(t) ==
  /\ task[t].pc = "spawn"
  /\ Leaves(t)
  /\ UNCHANGED <<gw, orphan, legacy, lease, broken, record, process, port, bridge, stray, faults, restoring>>

\* The process has exited, or the deadline passed: shutdown, then one of two
\* repairs if the log asks for it.
GivesUp(t) ==
  /\ task[t].pc = "poll" /\ process # 0
  /\ bridge' = 0
  /\ task' = [task EXCEPT ![t] = [@ EXCEPT !.pc = "unlinking", !.then = "startup"]]
  /\ UNCHANGED <<gw, orphan, legacy, lease, broken, record, process, port, lock, stray, faults, restoring>>

\* _run_offline_upgrade_repair, then the next attempt chooses its own port.
Repairs(t) ==
  /\ task[t].pc = "repair"
  /\ \/ /\ broken' = IF broken = 0 THEN 0 ELSE broken - 1
        /\ task' = [task EXCEPT ![t] = [@ EXCEPT !.pc = "spawn", !.tries = task[t].tries + 1]]
        /\ port' = Fresher
        /\ UNCHANGED lock
     \/ Leaves(t) /\ UNCHANGED <<broken, port>>
  /\ UNCHANGED <<gw, orphan, legacy, lease, record, process, bridge, stray, faults, restoring>>

\* rpc.start after ensure_ready: a bridge that runs is taken as it is; a new
\* one that cannot connect is stopped again.
Links(t) ==
  /\ task[t].pc = "link"
  /\ bridge' \in IF port = 0 \/ bridge # 0 THEN {bridge} ELSE {0} \cup ({port} \cap Listening)
  /\ Leaves(t)
  /\ UNCHANGED <<gw, orphan, legacy, lease, broken, record, process, port, stray, faults, restoring>>

-----------------------------------------------------------------------------
(* shutdown, called by a failed startup and by the recovery from a stall *)

Heals ==
  /\ task["heal"].pc = "off"
  /\ bridge' = 0
  /\ task' = [task EXCEPT !["heal"] = [@ EXCEPT !.pc = "unlinking", !.then = "check"]]
  /\ UNCHANGED <<gw, orphan, legacy, lease, broken, record, process, port, lock, stray, faults, restoring>>

WarmEnds(t) == t # "warm" /\ task["warm"].pc # "off"

\* The bridge is stopped; the prewarm task, unless it is the caller, is
\* cancelled and awaited.
Unlinked(t) ==
  /\ task[t].pc = "unlinking"
  /\ LET cancelled == IF WarmEnds(t) THEN [task EXCEPT !["warm"] = Off] ELSE task IN
       task' = [cancelled EXCEPT ![t].pc = "unwarming"]
  /\ lock' = IF WarmEnds(t) /\ lock = "warm" THEN NoTask ELSE lock
  /\ stray' = (stray \/ (WarmEnds(t) /\ task["warm"].pc = "repair"))
  /\ UNCHANGED <<gw, orphan, legacy, lease, broken, record, process, port, bridge, faults, restoring>>

Terminates(t) ==
  /\ task[t].pc = "unwarming"
  /\ Kill({process} \cap Live)
  /\ process' = 0
  /\ task' = [task EXCEPT ![t] = [@ EXCEPT !.pc = "terminating", !.on = process]]
  /\ UNCHANGED <<orphan, legacy, lease, broken, record, port, bridge, lock, stray, faults, restoring>>

\* The process is gone: its own record is removed and the port forgotten,
\* whoever has set it meanwhile.
MayRepair(t) == /\ broken > 0 /\ task[t].tries < 3
                /\ process \notin Live /\ record' = NoRecord
ShutDown(t) ==
  /\ task[t].pc = "terminating" /\ task[t].on \notin Live
  /\ record' = IF task[t].on # 0 /\ record.pid = task[t].on THEN NoRecord ELSE record
  /\ port' = 0
  /\ IF task[t].then = "startup" /\ ~MayRepair(t) THEN Leaves(t)
     ELSE /\ task' = [task EXCEPT ![t] = [@ EXCEPT !.then = "off", !.on = 0, !.pc =
                        IF task[t].then = "startup" THEN "repair" ELSE "check"]]
          /\ UNCHANGED lock
  /\ UNCHANGED <<gw, orphan, legacy, lease, broken, process, bridge, stray, faults, restoring>>

-----------------------------------------------------------------------------
(* Cancellation, crashes and the gateways themselves *)

\* A cancelled create_subprocess_exec kills its child, a cancelled repair does
\* not; any other await just ends.
Cancel(t) ==
  /\ "cancel" \in Env /\ t \in Users /\ task[t].pc # "off"
  /\ Leaves(t)
  /\ stray' = (stray \/ task[t].pc = "repair")
  /\ UNCHANGED <<gw, orphan, legacy, lease, broken, record, process, port, bridge, faults, restoring>>

StrayEnds ==
  /\ stray /\ stray' = FALSE
  /\ broken' \in {broken, IF broken = 0 THEN 0 ELSE broken - 1}
  /\ UNCHANGED <<gw, orphan, legacy, lease, record, process, port, bridge, lock, task, faults, restoring>>

\* The backend dies and is started again: memory is lost, gateways are orphans.
\* The next one comes too late to meet a script before its exec.
BackendCrash ==
  /\ faults < MaxFaults
  /\ \A g \in Gateways : gw[g] # "launching"
  /\ faults' = faults + 1
  /\ orphan' = orphan \cup Live
  /\ process' = 0 /\ port' = 0 /\ bridge' = 0
  /\ lock' = NoTask /\ task' = [t \in Tasks |-> Off]
  /\ stray' = (stray \/ \E t \in Tasks : task[t].pc = "repair")
  /\ UNCHANGED <<gw, legacy, lease, broken, record>> /\ restoring' = 0

GatewayCrash(g) ==
  /\ faults < MaxFaults /\ g \in Live \ {h \in Gateways : gw[h] = "stopping"}
  /\ faults' = faults + 1
  /\ gw' = [gw EXCEPT ![g] = "dead"]
  /\ UNCHANGED <<orphan, legacy, lease, broken, record, process, port, bridge, lock, task, stray, restoring>>

GatewayMoves(g) ==
  /\ \/ gw[g] = "booting" /\ lease = 0 /\ lease' = g
        /\ gw' = [gw EXCEPT ![g] = "migrating"]
     \/ gw[g] = "migrating" /\ lease' = 0
        /\ gw' = [gw EXCEPT ![g] = IF broken > 0 THEN "dead" ELSE "serving"]
     \/ gw[g] \in {"launching", "stopping"} /\ UNCHANGED lease
        /\ gw' = [gw EXCEPT ![g] = IF @ = "launching" THEN "booting" ELSE "dead"]
  /\ UNCHANGED <<orphan, legacy, broken, record, process, port, bridge, lock, task, stray, faults, restoring>>

RecordLost ==
  /\ "lost_record" \in Env /\ faults < MaxFaults /\ record # NoRecord /\ process \in Listening
  /\ faults' = faults + 1 /\ record' = NoRecord
  /\ UNCHANGED <<gw, orphan, legacy, lease, broken, process, port, bridge, lock, task, stray, restoring>>

\* watch_native_parent restores a record that is missing for a live gateway,
\* with the process and the port it read before its probes, if one of them has
\* not failed and no record has come in the meantime.
RestoreStarts ==
  /\ restoring = 0 /\ record = NoRecord /\ Askable /\ port = process /\ process \in Listening
  /\ restoring' = process
  /\ UNCHANGED <<gw, orphan, legacy, lease, broken, record, process, port, bridge, lock, task, stray, faults>>

RestoreEnds ==
  /\ restoring # 0 /\ restoring' = 0
  /\ record' \in {record, IF record = NoRecord THEN [pid |-> restoring, port |-> restoring] ELSE record}
  /\ UNCHANGED <<gw, orphan, legacy, lease, broken, process, port, bridge, lock, task, stray, faults>>

-----------------------------------------------------------------------------
Step(t) ==
  \/ Probe(t) \/ ProbeEnds(t) \/ CleanOwner(t) \/ OwnerGone(t) \/ Sweep(t) \/ Prepare(t) \/ SetupFails(t)
  \/ Spawn(t) \/ NotSpawned(t) \/ GivesUp(t) \/ Repairs(t) \/ Links(t) \/ Unlinked(t) \/ Terminates(t) \/ ShutDown(t)

Next == \/ \E t \in Tasks : Begins(t) \/ Step(t) \/ Locks(t) \/ Cancel(t)
        \/ Heals \/ StrayEnds \/ BackendCrash \/ RecordLost \/ RestoreStarts \/ RestoreEnds
        \/ \E g \in Gateways : GatewayCrash(g) \/ GatewayMoves(g)

Spec == Init /\ [][Next]_vars

-----------------------------------------------------------------------------
\* Two gateways never work on the one state database, whatever is cancelled,
\* crashes or shuts down while a new one is started.
OneGateway == Cardinality(Live) <= 1

\* The lease of a gateway that is alive is never taken away.
LeaseIsKept == [][(lease \in Live /\ lease' # lease) => (gw'[lease] # gw[lease])]_vars

\* OpenClaw's offline repair runs only while no writer is alive.
RepairsOffline == stray \/ (\E t \in Tasks : task[t].pc = "repair") => Live = {}

\* A bridge that rpc.start returned dials the gateway that serves by then.
BridgeFollows == [][\A t \in Tasks : Links(t) /\ port \in Listening => bridge' \in {port, 0}]_vars
=============================================================================
