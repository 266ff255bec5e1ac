------------------------------ MODULE GatewayRPC ------------------------------
(***************************************************************************)
(* server/openclaw_gateway_rpc.py with its Node bridge: calls multiplexed  *)
(* over the pipes of a child process that may refuse, stall or die, and be *)
(* stopped and replaced while calls are out.  The _ready future, the table *)
(* of pending calls and the reader task are shared by all bridges that     *)
(* ever ran.  Each action runs a coroutine to its next await.              *)
(***************************************************************************)
EXTENDS Naturals, Sequences, FiniteSets

CONSTANTS
  Calls,     \* tasks that each make one RPC call
  Stops,     \* tasks that call stop(), as the client's shutdown does
  MaxBridges \* bound: bridge processes spawned

ASSUME GatewayRPCAssumption == Calls \cap Stops = {} /\ MaxBridges \in Nat

VARIABLES
  process,  \* self.process, 0 for None
  bridge,   \* life cycle of each bridge process
  inbox,    \* frames written to a bridge and not yet answered
  pipe,     \* frames a bridge has written and its reader not yet read
  reader,   \* state of the reader task of each bridge
  current,  \* self._reader_task
  ready,    \* self._ready: the bridge it was created for
  readied,  \* the state of each _ready future that was created
  pending,  \* self._pending
  pc,       \* what each task is suspended in
  on,       \* the bridge it started, is stopping, or wrote its call to
  told,     \* what each caller has been told
  served    \* calls the gateway has executed

vars == <<process, bridge, inbox, pipe, reader, current, ready, readied, pending, pc, on, told, served>>

Tasks   == Calls \cup Stops
Bridges == 1..MaxBridges
Frames  == [kind : {"ready", "refused"}] \cup [kind : {"result", "failure"}, id : Calls]

TypeOK ==
  /\ process \in 0..MaxBridges /\ current \in 0..MaxBridges /\ ready \in 0..MaxBridges
  /\ bridge \in [Bridges -> {"none", "connecting", "connected", "refused", "closing", "dead"}]
  /\ inbox \in [Bridges -> SUBSET Calls]
  /\ pipe \in [Bridges -> Seq(Frames)]
  /\ reader \in [Bridges -> {"none", "created", "reading", "cancelled", "done"}]
  /\ readied \in [Bridges -> {"open", "ok", "failed"}]
  /\ pending \subseteq Calls /\ served \subseteq Calls
  /\ pc \in [Tasks -> {"new", "starting", "waiting", "stopping", "joining", "ended"}]
  /\ on \in [Tasks -> 0..MaxBridges]
  /\ told \in [Calls -> {"nothing", "result", "error", "cancelled"}]

Init ==
  /\ process = 0 /\ current = 0 /\ ready = 0
  /\ bridge = [b \in Bridges |-> "none"]
  /\ inbox = [b \in Bridges |-> {}] /\ pipe = [b \in Bridges |-> <<>>]
  /\ reader = [b \in Bridges |-> "none"] /\ readied = [b \in Bridges |-> "open"]
  /\ pending = {} /\ served = {}
  /\ pc = [t \in Tasks |-> "new"] /\ on = [t \in Tasks |-> 0]
  /\ told = [c \in Calls |-> "nothing"]

Alive(b)  == b # 0 /\ bridge[b] \notin {"none", "dead"}
Waiting   == {c \in Calls : pc[c] = "waiting"}
Unspawned == {b \in Bridges : bridge[b] = "none"}

\* The table is emptied and the callers that still wait get the error.
FailPending ==
  /\ told' = [c \in Calls |-> IF c \in pending \cap Waiting THEN "error" ELSE told[c]]
  /\ pc' = [t \in Tasks |-> IF t \in pending \cap Waiting THEN "ended" ELSE pc[t]]
  /\ pending' = {}

-----------------------------------------------------------------------------
(* start() and request() *)

\* request(): the frame is written to whatever process there is now.
Write(c) ==
  IF Alive(process)
    THEN /\ pending' = pending \cup {c}
         /\ inbox' = [inbox EXCEPT ![process] = @ \cup {c}]
         /\ pc' = [pc EXCEPT ![c] = "waiting"]
         /\ on' = [on EXCEPT ![c] = process]
         /\ UNCHANGED told
    ELSE /\ pc' = [pc EXCEPT ![c] = "ended"]
         /\ told' = [told EXCEPT ![c] = "error"]
         /\ UNCHANGED <<pending, inbox, on>>

\* start() finds a live bridge and does not wait for it to be ready.
StartFinds(c) ==
  /\ pc[c] = "new" /\ Alive(process)
  /\ Write(c)
  /\ UNCHANGED <<process, bridge, pipe, reader, current, ready, readied, served>>

StartSpawns(c) ==
  /\ pc[c] = "new" /\ ~Alive(process) /\ Unspawned # {}
  /\ LET b == Cardinality(Bridges \ Unspawned) + 1 IN
       /\ process' = b /\ current' = b /\ ready' = b
       /\ bridge' = [bridge EXCEPT ![b] = "connecting"]
       /\ reader' = [reader EXCEPT ![b] = "created"]
       /\ on' = [on EXCEPT ![c] = b]
  /\ pc' = [pc EXCEPT ![c] = "starting"]
  /\ UNCHANGED <<inbox, pipe, readied, pending, told, served>>

StartReturns(c) ==
  /\ pc[c] = "starting" /\ readied[on[c]] = "ok"
  /\ Write(c)
  /\ UNCHANGED <<process, bridge, pipe, reader, current, ready, readied, served>>

\* stop() once the process has ended: the reader task of the moment is taken
\* and cancelled, one that never ran ends without its finally.
EndStop(t) ==
  /\ told' = [c \in Calls |-> IF c \in pending \cap Waiting \/ c = t THEN "error" ELSE told[c]]
  /\ pc' = [u \in Tasks |-> IF u \in pending \cap Waiting \/ u = t THEN "ended" ELSE pc[u]]
  /\ pending' = {}

TakeReader(t) ==
  /\ current' = 0
  /\ IF current # 0 /\ reader[current] = "reading"
       THEN /\ reader' = [reader EXCEPT ![current] = "cancelled"]
            /\ pc' = [pc EXCEPT ![t] = "joining"]
            /\ on' = [on EXCEPT ![t] = current]
            /\ UNCHANGED <<pending, told>>
       ELSE /\ reader' = [b \in Bridges |-> IF b = current THEN "done" ELSE reader[b]]
            /\ EndStop(t) /\ UNCHANGED on

\* stop() up to its first await: the process is given up before it has ended.
GiveUp(t) ==
  /\ process' = 0
  /\ IF Alive(process)
       THEN /\ pc' = [pc EXCEPT ![t] = "stopping"]
            /\ on' = [on EXCEPT ![t] = process]
            /\ bridge' = [bridge EXCEPT ![process] = "closing"]
            /\ UNCHANGED <<reader, pending, told, current>>
       ELSE TakeReader(t) /\ UNCHANGED bridge
  /\ UNCHANGED <<inbox, pipe, ready, readied, served>>

\* The future failed, or 15 seconds passed without its being resolved.
StartFails(c) ==
  /\ pc[c] = "starting"
  /\ \/ readied[on[c]] = "failed"
     \/ readied[on[c]] = "open" /\ reader[on[c]] # "created"
  /\ GiveUp(c)

Stop(t) == t \in Stops /\ pc[t] = "new" /\ GiveUp(t)

\* The process has exited, by itself within 3 seconds or killed.
StopJoins(t) ==
  /\ pc[t] = "stopping"
  /\ bridge' = [bridge EXCEPT ![on[t]] = "dead"]
  /\ TakeReader(t)
  /\ UNCHANGED <<process, inbox, pipe, ready, readied, served>>

StopEnds(t) ==
  /\ pc[t] = "joining" /\ reader[on[t]] = "done"
  /\ EndStop(t)
  /\ UNCHANGED <<process, bridge, inbox, pipe, reader, current, ready, readied, on, served>>

\* request() times out and takes its entry back; a cancelled caller leaves it.
TimesOut(c) ==
  /\ pc[c] = "waiting"
  /\ pending' = pending \ {c}
  /\ pc' = [pc EXCEPT ![c] = "ended"]
  /\ told' = [told EXCEPT ![c] = "error"]
  /\ UNCHANGED <<process, bridge, inbox, pipe, reader, current, ready, readied, on, served>>

Cancelled(c) ==
  /\ pc[c] = "waiting"
  /\ pc' = [pc EXCEPT ![c] = "ended"]
  /\ told' = [told EXCEPT ![c] = "cancelled"]
  /\ UNCHANGED <<process, bridge, inbox, pipe, reader, current, ready, readied, pending, on, served>>

-----------------------------------------------------------------------------
(* _read_frames *)

ReaderStarts(b) ==
  /\ reader[b] = "created"
  /\ reader' = [reader EXCEPT ![b] = IF process = 0 THEN "done" ELSE "reading"]
  /\ UNCHANGED <<process, bridge, inbox, pipe, current, ready, readied, pending, pc, on, told, served>>

Resolve(state) == readied' = [b \in Bridges |-> IF b = ready /\ readied[b] = "open"
                                                THEN state ELSE readied[b]]

\* Responses are taken to arrive in the order of the calls.
Deliver_Mut(f) ==
  IF pending = {} THEN UNCHANGED <<pending, pc, told>> ELSE
  LET c == CHOOSE c \in pending : TRUE IN
  /\ pending' = pending \ {c}
  /\ IF c \in Waiting
       THEN /\ pc' = [pc EXCEPT ![c] = "ended"]
            /\ told' = [told EXCEPT ![c] = IF f.kind = "result" THEN "result" ELSE "error"]
       ELSE UNCHANGED <<pc, told>>

\* A response finds its caller by the id it carries, if the caller still waits.
Deliver(f) ==
  /\ pending' = pending \ {f.id}
  /\ IF f.id \in pending \cap Waiting
       THEN /\ pc' = [pc EXCEPT ![f.id] = "ended"]
            /\ told' = [told EXCEPT ![f.id] = IF f.kind = "result" THEN "result" ELSE "error"]
       ELSE UNCHANGED <<pc, told>>

Read(b) ==
  /\ reader[b] = "reading" /\ pipe[b] # <<>>
  /\ pipe' = [pipe EXCEPT ![b] = Tail(@)]
  /\ LET f == Head(pipe[b]) IN
       CASE f.kind = "ready"   -> Resolve("ok") /\ UNCHANGED <<pending, pc, told>>
         [] f.kind = "refused" -> Resolve("failed") /\ FailPending
         [] OTHER              -> Deliver(f) /\ UNCHANGED readied
  /\ UNCHANGED <<process, bridge, inbox, reader, current, ready, on, served>>

\* End of file or cancellation: whatever future and calls there are by now fail.
ReaderEnds(b) ==
  /\ \/ reader[b] = "reading" /\ bridge[b] = "dead" /\ pipe[b] = <<>>
     \/ reader[b] = "cancelled"
  /\ reader' = [reader EXCEPT ![b] = "done"]
  /\ Resolve("failed") /\ FailPending
  /\ UNCHANGED <<process, bridge, inbox, pipe, current, ready, on, served>>

-----------------------------------------------------------------------------
(* The bridge and the gateway behind it *)

Emit(b, f) == pipe' = [pipe EXCEPT ![b] = Append(@, f)]

Connects(b, f) ==
  /\ bridge[b] = "connecting"
  /\ bridge' = [bridge EXCEPT ![b] = IF f = "ready" THEN "connected" ELSE "refused"]
  /\ Emit(b, [kind |-> f])
  /\ UNCHANGED <<process, inbox, reader, current, ready, readied, pending, pc, on, told, served>>

\* Requests are handled concurrently and answered in any order; a bridge that
\* was refused, or whose gateway fails the request, answers with a failure.
Executes(b, c) ==
  /\ bridge[b] = "connected" /\ c \in inbox[b] \ served
  /\ served' = served \cup {c}
  /\ UNCHANGED <<process, bridge, inbox, pipe, reader, current, ready, readied, pending, pc, on, told>>

Responds(b, c) ==
  /\ c \in inbox[b]
  /\ inbox' = [inbox EXCEPT ![b] = @ \ {c}]
  /\ \/ bridge[b] = "connected" /\ c \in served /\ Emit(b, [kind |-> "result", id |-> c])
     \/ bridge[b] \in {"connected", "refused"} /\ Emit(b, [kind |-> "failure", id |-> c])
  /\ UNCHANGED <<process, bridge, reader, current, ready, readied, pending, pc, on, told, served>>

Dies(b) ==
  /\ Alive(b)
  /\ bridge' = [bridge EXCEPT ![b] = "dead"]
  /\ UNCHANGED <<process, inbox, pipe, reader, current, ready, readied, pending, pc, on, told, served>>

-----------------------------------------------------------------------------
CallStep(c) == \/ StartFinds(c) \/ StartSpawns(c) \/ StartReturns(c) \/ StartFails(c)
               \/ TimesOut(c) \/ Cancelled(c)
TaskStep(t) == StopJoins(t) \/ StopEnds(t)
ReaderStep(b) == ReaderStarts(b) \/ Read(b) \/ ReaderEnds(b)
BridgeStep(b) == \/ \E f \in {"ready", "refused"} : Connects(b, f)
                 \/ \E c \in Calls : Executes(b, c) \/ Responds(b, c)
                 \/ Dies(b)

Next == \/ \E c \in Calls : CallStep(c)
        \/ \E t \in Stops : Stop(t)
        \/ \E t \in Tasks : TaskStep(t)
        \/ \E b \in Bridges : ReaderStep(b) \/ BridgeStep(b)

Spec == Init /\ [][Next]_vars

\* wait_for ends every wait of start() and request(), a stopped process is
\* killed in the end, and the event loop resumes every reader.
FairSpec ==
  /\ Spec
  /\ \A c \in Calls : WF_vars(StartReturns(c) \/ StartFails(c)) /\ WF_vars(TimesOut(c))
  /\ \A t \in Tasks : WF_vars(TaskStep(t))
  /\ \A b \in Bridges : WF_vars(ReaderStep(b))

-----------------------------------------------------------------------------
(* What the callers see implements RPCCalls. *)

Status(c) == IF told[c] = "cancelled" THEN "error"
             ELSE IF told[c] # "nothing" THEN told[c]
             ELSE IF pc[c] = "new" THEN "idle" ELSE "made"

Abstract == INSTANCE RPCCalls WITH status <- [c \in Calls |-> Status(c)], served <- served

\* Whatever happens to bridges and readers, a result reaches only the caller
\* whose call was executed, each caller hears once, and every call ends.
ImplementsRPCCalls == Abstract!Spec

\* No call waits on a bridge in use that nobody reads: such a bridge executes
\* calls and start() takes it for a connection, but nobody hears of results.
NoSilentCalls == \A c \in Waiting : on[c] = process => reader[process] # "done"
=============================================================================
