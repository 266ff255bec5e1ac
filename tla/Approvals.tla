----------------------------- MODULE Approvals -----------------------------
(* The owner's approval of what OpenClaw's tools ask for while one model     *)
(* stream is open: stream_response and _forward_openclaw_user_approvals of   *)
(* openclaw_client.py, request_openclaw_user_approval of server/main.py, the *)
(* page with its cards, and the gateway that keeps an approval for 120 s.    *)
(* Time passes in units of 30 s; the event loop and the loopback sockets are *)
(* quicker than that.  All responses carry the same session key, so that     *)
(* every forwarding task alive takes an approval for its own.                *)
EXTENDS Naturals, Sequences, FiniteSets

CONSTANTS Asked,       \* the approvals the tools may ask for
          MaxStreams,  \* bound: streams opened
          Env          \* the inconvenient behaviours allowed, see below

\* 0 is Nobody: of no waiter, and about no approval.
ASSUME ApprovalsAssumption == MaxStreams \in Nat /\ 0 \notin Asked

\* "rpc_down": the approval transport cannot be started or a call on it fails;
\* "silent_tools": nothing is streamed when a tool asks or goes on.

VARIABLES
  stream,   \* the response: off, arming, open, late when its socket was silent
  streams,  \* streams opened so far
  silent,   \* units since the last byte of the response
  gate,     \* the gateway's approvals: state and age
  events,   \* per forwarding task: its event subscription
  fwd,      \* per forwarding task: where it is, the approval, the decision
  leaked,   \* history: the tasks nobody will cancel any more
  pending,  \* pending_openclaw_approvals: per approval the task that waits, result, age
  toPage,   \* websocket, server to page
  toServer, \* websocket, page to server
  cards,    \* approvals the page shows
  clicked   \* history: the decisions the owner made on a card
vars == <<stream, streams, silent, gate, events, fwd, leaked, pending, toPage, toServer, cards, clicked>>

GatewayKeeps == 4
WaitsForOwner == 6
\* 150 s when approvals are forwarded: longer than the gateway keeps one.
ReadTimeout == 5

Nobody == 0
NoWaiter == [by |-> Nobody, res |-> "none", age |-> 0]
Idle == [pc |-> "off", id |-> Nobody, decision |-> "none"]
Pending == {a \in Asked : gate[a].st = "pending"}
\* The forwarding task of the n-th response; the current one is `streams`.
Forwarders == 1..MaxStreams
Subscribed(f) == fwd[f].pc \in {"listening", "asking", "resolving"}

Init ==
  /\ stream = "off" /\ streams = 0 /\ silent = 0
  /\ gate = [a \in Asked |-> [st |-> "none", age |-> 0]]
  /\ events = [f \in Forwarders |-> <<>>] /\ fwd = [f \in Forwarders |-> Idle] /\ leaked = {}
  /\ pending = [a \in Asked |-> NoWaiter]
  /\ toPage = <<>> /\ toServer = <<>> /\ cards = {} /\ clicked = {}

\* stream_response: the forwarding task first, the request once it is ready.
Opens ==
  /\ stream \in {"off", "late"} /\ streams < MaxStreams
  /\ stream' = "arming" /\ streams' = streams + 1
  /\ fwd' = [fwd EXCEPT ![streams + 1] = [Idle EXCEPT !.pc = "starting"]]
  /\ UNCHANGED <<silent, gate, events, leaked, pending, toPage, toServer, cards, clicked>>
Subscribes(f) ==
  /\ fwd[f].pc = "starting"
  /\ \/ fwd' = [fwd EXCEPT ![f].pc = "listening"]
     \/ "rpc_down" \in Env /\ fwd' = [fwd EXCEPT ![f].pc = "over"]
  /\ UNCHANGED <<stream, streams, silent, gate, events, leaked, pending, toPage, toServer, cards, clicked>>
Posts ==
  /\ stream = "arming" /\ fwd[streams].pc # "starting"
  /\ stream' = "open" /\ silent' = 0
  /\ UNCHANGED <<streams, gate, events, fwd, leaked, pending, toPage, toServer, cards, clicked>>

\* A tool asks, or its approval is over and it goes on: the response tells it.
Settle(a, st) ==
  /\ gate' = [gate EXCEPT ![a] = [st |-> st, age |-> 0]]
  /\ silent' = IF "silent_tools" \in Env THEN silent ELSE 0

\* The gateway: a tool asks while its run is streamed, the event reaches all who
\* subscribed; an approval nobody resolves expires; the model speaks otherwise.
Raises(a) ==
  /\ stream = "open" /\ gate[a].st = "none"
  /\ Settle(a, "pending")
  /\ events' = [f \in Forwarders |-> IF Subscribed(f) THEN Append(events[f], a) ELSE events[f]]
  /\ UNCHANGED <<stream, streams, fwd, leaked, pending, toPage, toServer, cards, clicked>>
Expires(a) ==
  /\ gate[a].st = "pending" /\ gate[a].age = GatewayKeeps
  /\ Settle(a, "expired")
  /\ UNCHANGED <<stream, streams, events, fwd, leaked, pending, toPage, toServer, cards, clicked>>
Speaks ==
  /\ stream = "open" /\ Pending = {} /\ silent # 0
  /\ silent' = 0
  /\ UNCHANGED <<stream, streams, gate, events, fwd, leaked, pending, toPage, toServer, cards, clicked>>

\* The task takes the next event and shows its approval to the owner; one that
\* another task is asking about is denied at once.
Presents(f) ==
  /\ fwd[f].pc = "listening" /\ events[f] # <<>>
  /\ events' = [events EXCEPT ![f] = Tail(@)]
  /\ LET a == Head(events[f])
     IN \/ /\ pending[a].by = Nobody
           /\ fwd' = [fwd EXCEPT ![f].pc = "asking", ![f].id = a]
           /\ pending' = [pending EXCEPT ![a] = [NoWaiter EXCEPT !.by = f]]
           /\ toPage' = Append(toPage, [type |-> "request", id |-> a])
        \/ /\ pending[a].by # Nobody
           /\ fwd' = [fwd EXCEPT ![f] = [pc |-> "resolving", id |-> a, decision |-> "deny"]]
           /\ UNCHANGED <<pending, toPage>>
  /\ UNCHANGED <<stream, streams, silent, gate, leaked, toServer, cards, clicked>>

Withdraw_Mut(a) == pending' = [pending EXCEPT ![a] = NoWaiter] /\ UNCHANGED toPage
\* The waiter leaves the table and the page is told.
Withdraw(a) ==
  /\ pending' = [pending EXCEPT ![a] = NoWaiter]
  /\ toPage' = Append(toPage, [type |-> "closed", id |-> a])

\* The owner decided, or 180 s passed.
Decided(a) == IF pending[a].res = "none" THEN "deny" ELSE pending[a].res
Due(a) == pending[a].by # Nobody /\ (pending[a].res # "none" \/ pending[a].age = WaitsForOwner)
Decides(f) ==
  /\ fwd[f].pc = "asking" /\ Due(fwd[f].id)
  /\ fwd' = [fwd EXCEPT ![f].pc = "resolving", ![f].decision = Decided(fwd[f].id)]
  /\ Withdraw(fwd[f].id)
  /\ UNCHANGED <<stream, streams, silent, gate, events, leaked, toServer, cards, clicked>>
\* approval.resolve.  The gateway refuses one it no longer keeps; a call that
\* fails ends the forwarding, not the response.
Resolves(f) ==
  /\ fwd[f].pc = "resolving"
  /\ \/ /\ fwd[f].id \in Pending
        /\ Settle(fwd[f].id, fwd[f].decision)
        /\ fwd' = [fwd EXCEPT ![f] = [Idle EXCEPT !.pc = "listening"]]
        /\ UNCHANGED events
     \/ /\ fwd[f].id \notin Pending \/ "rpc_down" \in Env
        /\ fwd' = [fwd EXCEPT ![f] = [Idle EXCEPT !.pc = "over"]]
        /\ events' = [events EXCEPT ![f] = <<>>]
        /\ UNCHANGED <<gate, silent>>
  /\ UNCHANGED <<stream, streams, leaked, pending, toPage, toServer, cards, clicked>>

\* The response ends, is cancelled, or its socket is silent for too long: its
\* forwarding task is cancelled with it, and so is the task's waiter.
Closes(st) ==
  /\ stream = "open" /\ stream' = st
  /\ fwd' = [fwd EXCEPT ![streams] = Idle] /\ events' = [events EXCEPT ![streams] = <<>>]
  /\ IF fwd[streams].pc = "asking" THEN Withdraw(fwd[streams].id) ELSE UNCHANGED <<pending, toPage>>
  /\ UNCHANGED <<streams, silent, gate, leaked, toServer, cards, clicked>>
Completes == Pending = {} /\ Closes("off")
Interrupted == Closes("off")
ReadTimesOut == silent = ReadTimeout /\ Closes("late")

\* An interrupt before the request is sent: approval_ready.wait() stands before
\* the try that cancels the forwarding task, which listens on.
InterruptedArming ==
  /\ stream = "arming" /\ stream' = "off"
  /\ leaked' = leaked \cup {streams}
  /\ UNCHANGED <<streams, silent, gate, events, fwd, pending, toPage, toServer, cards, clicked>>

\* The page: cards come and go, the owner clicks on one.
PageReads ==
  /\ toPage # <<>>
  /\ LET m == Head(toPage)
     IN cards' = IF m.type = "request" THEN cards \cup {m.id} ELSE cards \ {m.id}
  /\ toPage' = Tail(toPage)
  /\ UNCHANGED <<stream, streams, silent, gate, events, fwd, leaked, pending, toServer, clicked>>
Clicks(a, d) ==
  /\ a \in cards
  /\ cards' = cards \ {a} /\ clicked' = clicked \cup {<<a, d>>}
  /\ toServer' = Append(toServer, [id |-> a, decision |-> d])
  /\ UNCHANGED <<stream, streams, silent, gate, events, fwd, leaked, pending, toPage>>
Responds_Mut ==
  /\ toServer # <<>>
  /\ pending' = [a \in Asked |->
       IF pending[a].by # Nobody /\ pending[a].res = "none"
       THEN [pending[a] EXCEPT !.res = Head(toServer).decision] ELSE pending[a]]
  /\ toServer' = Tail(toServer)
  /\ UNCHANGED <<stream, streams, silent, gate, events, fwd, leaked, toPage, cards, clicked>>
\* openclaw_approval_response: for the approval that waits, once.
Responds ==
  /\ toServer # <<>>
  /\ LET a == Head(toServer).id
     IN pending' = IF pending[a].by # Nobody /\ pending[a].res = "none"
                   THEN [pending EXCEPT ![a].res = Head(toServer).decision] ELSE pending
  /\ toServer' = Tail(toServer)
  /\ UNCHANGED <<stream, streams, silent, gate, events, fwd, leaked, toPage, cards, clicked>>

\* 30 s pass when nothing is ready to run and no deadline is due.
Ready ==
  \/ stream = "arming" \/ toPage # <<>> \/ toServer # <<>>
  \/ \E f \in Forwarders :
       fwd[f].pc \in {"starting", "resolving"} \/ (fwd[f].pc = "listening" /\ events[f] # <<>>)
  \/ \E a \in Asked : Due(a)
  \/ stream = "open" /\ silent = ReadTimeout
  \/ \E a \in Pending : gate[a].age = GatewayKeeps
Waiting == {a \in Asked : pending[a].by # Nobody}
Tick ==
  /\ ~Ready
  /\ silent' = IF stream = "open" THEN silent + 1 ELSE silent
  /\ gate' = [a \in Asked |-> IF a \in Pending THEN [gate[a] EXCEPT !.age = @ + 1] ELSE gate[a]]
  /\ pending' = [a \in Asked |-> IF a \in Waiting THEN [pending[a] EXCEPT !.age = @ + 1] ELSE pending[a]]
  /\ stream = "open" \/ Pending # {} \/ Waiting # {}
  /\ UNCHANGED <<stream, streams, events, fwd, leaked, toPage, toServer, cards, clicked>>

Next ==
  \/ Opens \/ Posts \/ Speaks \/ Completes \/ Interrupted \/ InterruptedArming \/ ReadTimesOut
  \/ PageReads \/ Responds \/ Tick
  \/ \E f \in Forwarders : Subscribes(f) \/ Presents(f) \/ Decides(f) \/ Resolves(f)
  \/ \E a \in Asked : Raises(a) \/ Expires(a) \/ \E d \in {"allow", "deny"} : Clicks(a, d)
Spec == Init /\ [][Next]_vars
\* The gateway's clock goes on and the loop runs what is ready.
FairSpec ==
  /\ Spec /\ WF_vars(Tick) /\ WF_vars(Posts) /\ WF_vars(PageReads) /\ WF_vars(Responds)
  /\ WF_vars(ReadTimesOut) /\ \A a \in Asked : WF_vars(Expires(a))
  /\ \A f \in Forwarders :
       WF_vars(Subscribes(f)) /\ WF_vars(Presents(f)) /\ WF_vars(Decides(f)) /\ WF_vars(Resolves(f))

\* What the gateway allows, the owner allowed on that very card: no deadline,
\* lost transport, interrupt or late click stands in for a decision.
OwnerDecides == \A a \in Asked : gate[a].st = "allow" => <<a, "allow">> \in clicked

\* Once the page has read its socket, no card is left that would answer nothing:
\* each has a task that waits for its answer, and once the response is over only
\* a task that was interrupted while arming still does.
NoDeadCard ==
  toPage = <<>> =>
    \A a \in cards : pending[a].by # Nobody /\ (stream \in {"off", "late"} => pending[a].by \in leaked)

\* A card goes with the response that showed it.  Refuted by TLC: the task of a
\* response interrupted while arming listens on and keeps a card for 180 s.
CardsEndWithResponse == stream \in {"off", "late"} /\ toPage = <<>> => cards = {}

\* What the gateway denies, the owner denied.  Refuted by TLC: of two tasks that
\* take the same event the second denies while the first one's card is up.
OwnerDenies == \A a \in Asked : gate[a].st = "deny" => <<a, "deny">> \in clicked

\* The response is not given up for its silence while an approval is pending:
\* the owner may take the time the gateway grants.
PatientStream == [][stream = "open" /\ stream' = "late" => Pending = {}]_vars

\* "Forward current-turn exec/plugin approvals to the MERRICK owner": none asked
\* for while the response is open expires without having been on a card.
Seen(a) == a \in cards \/ \E d \in {"allow", "deny"} : <<a, d>> \in clicked
NoneExpiresUnseen ==
  [][\A a \in Asked : stream = "open" /\ gate[a].st = "pending" /\ gate'[a].st = "expired" => Seen(a)]_vars
=============================================================================
