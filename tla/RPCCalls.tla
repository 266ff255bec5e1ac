------------------------------- MODULE RPCCalls -------------------------------
(***************************************************************************)
(* What the gateway RPC promises its callers, whatever happens to bridge   *)
(* processes, pipes and readers: a call that is made ends, a call answered *)
(* with a result was executed by the gateway, and a caller hears of its    *)
(* call once.  An error promises nothing: the gateway may have executed    *)
(* the call, or may still do so.                                           *)
(***************************************************************************)
CONSTANT Calls

VARIABLES
  status,   \* what the caller of each call has been told
  served    \* the calls the gateway has executed

Init == status = [c \in Calls |-> "idle"] /\ served = {}

Make(c)   == status[c] = "idle" /\ status' = [status EXCEPT ![c] = "made"] /\ UNCHANGED served
Serve(c)  == c \notin served /\ status[c] # "idle"
             /\ served' = served \cup {c} /\ UNCHANGED status
Answer(c) == status[c] = "made" /\ c \in served
             /\ status' = [status EXCEPT ![c] = "result"] /\ UNCHANGED served
Fail(c)   == status[c] = "made" /\ status' = [status EXCEPT ![c] = "error"] /\ UNCHANGED served
\* A bridge that ends fails every call in one go.
FailAll   == \E C \in SUBSET {c \in Calls : status[c] = "made"} :
               status' = [c \in Calls |-> IF c \in C THEN "error" ELSE status[c]]
             /\ UNCHANGED served

Next == FailAll \/ \E c \in Calls : Make(c) \/ Serve(c) \/ Answer(c) \/ Fail(c)

vars == <<status, served>>
Spec == Init /\ [][Next]_vars /\ \A c \in Calls : WF_vars(Answer(c) \/ Fail(c))
=============================================================================
