----------------------- MODULE CapabilityCatalogProofs -----------------------
(***************************************************************************)
(* Theorems of CapabilityCatalog, for every set of sessions, any versions, *)
(* policies and failures: what is installed was reviewed, a session never  *)
(* restarts the gateway under its own answer, a fresh panel is true, and   *)
(* changes are made one at a time.                                         *)
(***************************************************************************)
EXTENDS CapabilityCatalog, TLAPS

Kinds == {"enable", "disable", "install", "upgrade", "uninstall"}
Installations == {"install", "upgrade"}
Ops == {"idle", "list", "review", "toggle", "plugin"}
Applies == {"toggle", "plugin"}
Steps == {"idle", "lock", "call", "stop", "start", "inventory"}
Reviews == [kind : Kinds, live : BOOLEAN, pinned : BOOLEAN, version : Nat, token : Nat,
            policy : BOOLEAN, seen : SUBSET ({"policy", "tools"} \X Nat)]
Plugins == [version : Nat, enabled : BOOLEAN, loaded : BOOLEAN, deps : BOOLEAN]
Views == [version : Nat, enabled : BOOLEAN,
          readiness : {"ready", "dependency_missing", "disabled", "unhealthy"}]
Panels == [view : Views, stale : BOOLEAN]
Changes == [shown : Nat, version : Nat, seen : SUBSET ({"policy", "tools"} \X Nat)]

\* What a review that installs its own version acknowledges was in a stage of it.
Grounded(r) ==
  /\ "listed" \notin Env => r.pinned
  /\ r.kind \in Installations /\ r.pinned =>
       /\ r.policy => <<"policy", r.version>> \in r.seen
       /\ r.token = r.version => <<"tools", r.version>> \in r.seen

\* The message a session handles: a review names what is wanted, an apply has the
\* review it was made from, and only an apply restarts the gateway.
Handled(a) ==
  /\ a = [op |-> a.op, step |-> a.step, want |-> a.want]
  /\ a.op \in Ops /\ a.step \in Steps
  /\ a.op = "review" => a.want \in Kinds
  /\ a.op \in Applies => a.want \in Reviews /\ Grounded(a.want)
  /\ a.step \in {"stop", "start"} => a.op \in Applies
  /\ a.step = "idle" <=> a.op = "idle"

\* The values of the variables.
TypeOK ==
  /\ lock \in Sessions \cup {None}
  /\ at = [s \in Sessions |-> at[s]]
  /\ review \in [Sessions -> Reviews \cup {None}]
  /\ query \in [Sessions -> BOOLEAN]
  /\ plugin \in Plugins /\ latest \in Nat \ {0} /\ up \in BOOLEAN
  /\ cache \in Views \cup {None}
  /\ hud \in [Sessions -> Panels \cup {None}]
  /\ change \in Changes \cup {None} /\ asks \in Nat

SessionsHandle == \A s \in Sessions : Handled(at[s])
ReviewsGrounded == \A s \in Sessions : review[s] # None => Grounded(review[s])

\* A session that reviews or applies has no answer running.
BusyIsQuiet == \A s \in Sessions : at[s].op \in {"review", "toggle", "plugin"} => ~query[s]

\* Between taking the management lock and leaving it a session holds it.
Inside(s) == at[s].step \notin {"idle", "lock"}
LockHeld == \A s \in Sessions : Inside(s) <=> lock = s

IInv ==
  /\ TypeOK /\ SessionsHandle /\ ReviewsGrounded /\ BusyIsQuiet /\ LockHeld
  /\ "listed" \notin Env => InstalledAsReviewed

-----------------------------------------------------------------------------
(***************************************************************************)
(* What a session's step does to the message it handles: nothing, it takes *)
(* one up, it gets the lock, it goes on inside, or it is done.             *)
(***************************************************************************)
Staying(s) == at' = at /\ lock' = lock

Taking(s) ==
  /\ at[s] = Idle /\ lock' = lock
  /\ \E op \in {"list", "review", "toggle", "plugin"}, want \in {None} \cup Kinds \cup Reviews :
       /\ at' = [at EXCEPT ![s] = [op |-> op, step |-> "lock", want |-> want]]
       /\ op # "list" => ~query[s]
       /\ op = "review" => want \in Kinds
       /\ op \in Applies => want = review[s] /\ review[s] # None

Entering(s) ==
  /\ at[s].step = "lock" /\ lock = None /\ lock' = s
  /\ at' = [at EXCEPT ![s] = [op |-> at[s].op, step |-> "call", want |-> at[s].want]]

GoingOn(s) ==
  /\ Inside(s) /\ at[s].op \in Applies /\ lock' = lock
  /\ \E step \in {"stop", "start", "inventory"} :
       at' = [at EXCEPT ![s] = [op |-> at[s].op, step |-> step, want |-> at[s].want]]

Leaving(s) == Inside(s) /\ Leaves(s)

\* A field of a session's message is replaced within the message.
LEMMA Steps1 ==
  ASSUME TypeOK, SessionsHandle, NEW s \in Sessions, NEW x, at' = [at EXCEPT ![s].step = x]
  PROVE  at' = [at EXCEPT ![s] = [op |-> at[s].op, step |-> x, want |-> at[s].want]]
<1>1. at[s] = [op |-> at[s].op, step |-> at[s].step, want |-> at[s].want]
  BY DEF SessionsHandle, Handled
<1>2. [at[s] EXCEPT !.step = x] = [op |-> at[s].op, step |-> x, want |-> at[s].want]
  BY <1>1
<1> QED BY <1>2 DEF TypeOK

\* Every step of a session is one of the five.
LEMMA Shapes ==
  ASSUME TypeOK, SessionsHandle, NEW s \in Sessions, Session(s)
  PROVE  Staying(s) \/ Taking(s) \/ Entering(s) \/ GoingOn(s) \/ Leaving(s)
<1> USE DEF Handles
<1>0. Handled(at[s]) /\ review[s] \in Reviews \cup {None} /\ query[s] \in BOOLEAN
  BY DEF SessionsHandle, TypeOK
<1>1. CASE List(s) \/ ReviewRequest(s)
  <2>1. CASE List(s)
    BY <2>1 DEF List, Taking, Applies
  <2>2. CASE ReviewRequest(s)
    BY <2>2 DEF ReviewRequest, Taking, Kinds, Applies
  <2> QED BY <1>1, <2>1, <2>2
<1>2. CASE ToggleApply(s)
  BY <1>0, <1>2 DEF ToggleApply, Taking, Staying, Applies
<1>3. CASE PluginApply(s)
  BY <1>0, <1>3 DEF PluginApply, Taking, Staying, Applies
<1>4. CASE Enter(s)
  BY <1>4, Steps1 DEF Enter, Entering
<1>5. CASE CallFails(s) \/ Prepares(s) \/ ToggleRefused(s) \/ AsksConsent(s) \/ AsksPolicy(s) \/ UninstallRefused(s)
  <2>1. Leaves(s) /\ at[s].step = "call"
    BY <1>5 DEF CallFails, Prepares, ToggleRefused, AsksConsent, AsksPolicy, UninstallRefused,
                Errs, Calling, Installing
  <2> QED BY <2>1 DEF Leaving, Inside
<1>6. CASE SetsEnabled(s) \/ Installs(s) \/ Uninstalls(s)
  <2>1. /\ at[s].step = "call" /\ at[s].op \in Applies /\ lock' = lock
        /\ \E restart \in BOOLEAN : AfterChange(s, restart)
    <3>1. CASE SetsEnabled(s) BY <3>1 DEF SetsEnabled, Calling, Applies
    <3>2. CASE Installs(s) BY <3>2 DEF Installs, Installing, Calling, Applies
    <3>3. CASE Uninstalls(s) BY <3>3 DEF Uninstalls, Calling, Applies
    <3> QED BY <1>6, <3>1, <3>2, <3>3
  <2>2. PICK step \in {"stop", "inventory"} : at' = [at EXCEPT ![s].step = step]
    BY <2>1 DEF AfterChange
  <2> QED BY <2>1, <2>2, Steps1 DEF GoingOn, Inside
<1>7. CASE Stops(s) \/ Starts(s)
  <2>1. /\ at[s].step \in {"stop", "start"} /\ lock' = lock
        /\ \E step \in {"start", "inventory"} : at' = [at EXCEPT ![s].step = step]
    BY <1>7 DEF Stops, Starts
  <2>2. PICK step \in {"start", "inventory"} : at' = [at EXCEPT ![s].step = step]
    BY <2>1
  <2>3. at[s].op \in Applies
    BY <1>0, <2>1 DEF Handled
  <2> QED BY <2>1, <2>2, <2>3, Steps1 DEF GoingOn, Inside
<1>8. CASE StartFails(s) \/ Reads(s) \/ ReadsCached(s) \/ ReadFails(s)
  <2>1. Leaves(s) /\ at[s].step \in {"start", "inventory", "call"}
    BY <1>8 DEF StartFails, Reads, ReadsCached, ReadFails, Errs, Reading
  <2> QED BY <2>1 DEF Leaving, Inside
<1>9. CASE Expires(s) \/ QueryStarts(s) \/ QueryEnds(s)
  BY <1>9 DEF Expires, QueryStarts, QueryEnds, Staying
<1> QED BY <1>1, <1>2, <1>3, <1>4, <1>5, <1>6, <1>7, <1>8, <1>9 DEF Session

\* The sessions' messages stay what they are, whoever takes a step.
LEMMA MessagesStay ==
  ASSUME TypeOK, SessionsHandle, ReviewsGrounded, NEW s \in Sessions, Session(s)
  PROVE  SessionsHandle' /\ at' = [t \in Sessions |-> at'[t]]
<1>1. \/ at' = at
      \/ \E a : at' = [at EXCEPT ![s] = a] /\ Handled(a)
  <2>0. Handled(at[s])
    BY DEF SessionsHandle
  <2>1. CASE Staying(s) BY <2>1 DEF Staying
  <2>2. CASE Taking(s)
    <3>1. PICK op \in {"list", "review", "toggle", "plugin"}, want \in {None} \cup Kinds \cup Reviews :
            /\ at' = [at EXCEPT ![s] = [op |-> op, step |-> "lock", want |-> want]]
            /\ op = "review" => want \in Kinds
            /\ op \in Applies => want = review[s] /\ review[s] # None
      BY <2>2 DEF Taking
    <3>2. op \in Applies => want \in Reviews /\ Grounded(want)
      BY <3>1 DEF ReviewsGrounded, TypeOK
    <3>3. Handled([op |-> op, step |-> "lock", want |-> want])
      BY <3>1, <3>2 DEF Handled, Ops, Steps
    <3> QED BY <3>1, <3>3
  <2>3. CASE Entering(s)
    <3>1. Handled([op |-> at[s].op, step |-> "call", want |-> at[s].want])
      BY <2>0, <2>3 DEF Handled, Entering, Steps
    <3> QED BY <2>3, <3>1 DEF Entering
  <2>4. CASE GoingOn(s)
    <3>1. PICK step \in {"stop", "start", "inventory"} :
            at' = [at EXCEPT ![s] = [op |-> at[s].op, step |-> step, want |-> at[s].want]]
      BY <2>4 DEF GoingOn
    <3>2. Handled([op |-> at[s].op, step |-> step, want |-> at[s].want])
      BY <2>0, <2>4 DEF Handled, GoingOn, Steps, Inside
    <3> QED BY <3>1, <3>2
  <2>5. CASE Leaving(s)
    <3>1. Handled(Idle)
      BY DEF Handled, Idle, Ops, Steps, Applies
    <3> QED BY <2>5, <3>1 DEF Leaving, Leaves
  <2> QED BY <2>1, <2>2, <2>3, <2>4, <2>5, Shapes
<1>2. CASE at' = at
  BY <1>2 DEF TypeOK, SessionsHandle, Handled, Grounded
<1>3. ASSUME NEW a, at' = [at EXCEPT ![s] = a], Handled(a)
      PROVE  SessionsHandle' /\ at' = [t \in Sessions |-> at'[t]]
  <2>1. \A t \in Sessions : at'[t] = IF t = s THEN a ELSE at[t]
    BY <1>3 DEF TypeOK
  <2>2. \A t \in Sessions : Handled(at'[t])
    BY <1>3, <2>1 DEF SessionsHandle
  <2> QED BY <1>3, <2>2 DEF SessionsHandle, TypeOK
<1> QED BY <1>1, <1>2, <1>3

-----------------------------------------------------------------------------
\* The lock is with the one session inside, and stays with it until it leaves.
LEMMA LockStays ==
  ASSUME IInv, NEW s \in Sessions, Session(s)
  PROVE  LockHeld' /\ lock' \in Sessions \cup {None}
<1>0. /\ Handled(at[s]) /\ None \notin Sessions /\ lock \in Sessions \cup {None}
      /\ \A t \in Sessions : Inside(t) <=> lock = t
  BY CapabilityCatalogAssumption DEF IInv, SessionsHandle, LockHeld, TypeOK
<1>1. CASE Staying(s)
  BY <1>0, <1>1 DEF Staying, LockHeld, Inside
<1>2. CASE Taking(s)
  <2>1. PICK op, want : at' = [at EXCEPT ![s] = [op |-> op, step |-> "lock", want |-> want]]
    BY <1>2 DEF Taking
  <2>2. \A t \in Sessions :
          at'[t] = IF t = s THEN [op |-> op, step |-> "lock", want |-> want] ELSE at[t]
    BY <2>1 DEF IInv, TypeOK
  <2>3. at[s].step = "idle" /\ lock' = lock
    BY <1>2 DEF Taking, Idle
  <2> QED BY <1>0, <2>1, <2>2, <2>3 DEF LockHeld, Inside
<1>3. CASE Entering(s)
  <2>2. \A t \in Sessions :
          at'[t] = IF t = s THEN [op |-> at[s].op, step |-> "call", want |-> at[s].want] ELSE at[t]
    BY <1>3 DEF IInv, TypeOK, Entering
  <2>3. lock = None /\ lock' = s
    BY <1>3 DEF Entering
  <2> QED BY <1>0, <2>2, <2>3 DEF LockHeld, Inside
<1>4. CASE GoingOn(s)
  <2>1. PICK step \in {"stop", "start", "inventory"} :
          at' = [at EXCEPT ![s] = [op |-> at[s].op, step |-> step, want |-> at[s].want]]
    BY <1>4 DEF GoingOn
  <2>2. \A t \in Sessions :
          at'[t] = IF t = s THEN [op |-> at[s].op, step |-> step, want |-> at[s].want] ELSE at[t]
    BY <2>1 DEF IInv, TypeOK
  <2>3. Inside(s) /\ lock' = lock
    BY <1>4 DEF GoingOn
  <2> QED BY <1>0, <2>1, <2>2, <2>3 DEF LockHeld, Inside
<1>5. CASE Leaving(s)
  <2>1. \A t \in Sessions : at'[t] = IF t = s THEN Idle ELSE at[t]
    BY <1>5 DEF Leaving, Leaves, IInv, TypeOK
  <2>2. Inside(s) /\ lock' = None
    BY <1>5 DEF Leaving, Leaves
  <2> QED BY <1>0, <2>1, <2>2 DEF LockHeld, Inside, Idle
<1> QED BY <1>1, <1>2, <1>3, <1>4, <1>5, Shapes DEF IInv

\* An answer starts in an idle session only, and a busy session refuses to review
\* or apply; the restart ends answers, it starts none.
LEMMA BusyStays ==
  ASSUME IInv, NEW s \in Sessions, Session(s)
  PROVE  BusyIsQuiet' /\ query' \in [Sessions -> BOOLEAN]
<1>0. /\ query \in [Sessions -> BOOLEAN]
      /\ \A t \in Sessions : at[t].op \in {"review", "toggle", "plugin"} => ~query[t]
  BY DEF IInv, TypeOK, BusyIsQuiet
<1>1. \/ query' = query
      \/ query' = [t \in Sessions |-> FALSE]
      \/ at[s] = Idle /\ at' = at /\ query' = [query EXCEPT ![s] = TRUE]
      \/ at' = at /\ query' = [query EXCEPT ![s] = FALSE]
  <2>1. CASE QueryStarts(s) BY <2>1 DEF QueryStarts
  <2>2. CASE QueryEnds(s) BY <2>2 DEF QueryEnds
  <2>3. CASE Stops(s) BY <2>3 DEF Stops
  <2>4. CASE List(s) \/ ReviewRequest(s) \/ ToggleApply(s) \/ PluginApply(s) \/ Enter(s)
    BY <2>4 DEF List, ReviewRequest, ToggleApply, PluginApply, Enter
  <2>5. CASE CallFails(s) \/ Prepares(s) \/ Expires(s) \/ SetsEnabled(s) \/ ToggleRefused(s)
    BY <2>5 DEF CallFails, Prepares, Expires, SetsEnabled, ToggleRefused
  <2>6. CASE AsksConsent(s) \/ AsksPolicy(s) \/ Installs(s) \/ Uninstalls(s) \/ UninstallRefused(s)
    BY <2>6 DEF AsksConsent, AsksPolicy, Installs, Uninstalls, UninstallRefused
  <2>7. CASE Starts(s) \/ StartFails(s) \/ Reads(s) \/ ReadsCached(s) \/ ReadFails(s)
    BY <2>7 DEF Starts, StartFails, Reads, ReadsCached, ReadFails
  <2> QED BY <2>1, <2>2, <2>3, <2>4, <2>5, <2>6, <2>7 DEF Session
<1>2. CASE query' = [t \in Sessions |-> FALSE]
  BY <1>2 DEF BusyIsQuiet
<1>3. CASE at[s] = Idle /\ at' = at /\ query' = [query EXCEPT ![s] = TRUE]
  <2>1. \A t \in Sessions : t # s => query'[t] = query[t]
    BY <1>0, <1>3
  <2>2. at[s].op = "idle"
    BY <1>3 DEF Idle
  <2> QED BY <1>0, <1>3, <2>1, <2>2 DEF BusyIsQuiet
<1>4. CASE at' = at /\ query' = [query EXCEPT ![s] = FALSE]
  <2>1. \A t \in Sessions : query'[t] = IF t = s THEN FALSE ELSE query[t]
    BY <1>0, <1>4
  <2> QED BY <1>0, <1>4, <2>1 DEF BusyIsQuiet
<1>5. CASE query' = query
  <2>1. CASE Staying(s)
    BY <1>0, <1>5, <2>1 DEF Staying, BusyIsQuiet
  <2>2. CASE Taking(s)
    <3>1. PICK op, want : /\ at' = [at EXCEPT ![s] = [op |-> op, step |-> "lock", want |-> want]]
                          /\ op # "list" => ~query[s]
      BY <2>2 DEF Taking
    <3>2. \A t \in Sessions :
            at'[t] = IF t = s THEN [op |-> op, step |-> "lock", want |-> want] ELSE at[t]
      BY <3>1 DEF IInv, TypeOK
    <3> QED BY <1>0, <1>5, <3>1, <3>2 DEF BusyIsQuiet
  <2>3. CASE Entering(s) \/ GoingOn(s)
    <3>1. PICK a : at' = [at EXCEPT ![s] = a] /\ a.op = at[s].op
      BY <2>3 DEF Entering, GoingOn
    <3>2. \A t \in Sessions : at'[t] = IF t = s THEN a ELSE at[t]
      BY <3>1 DEF IInv, TypeOK
    <3> QED BY <1>0, <1>5, <3>1, <3>2 DEF BusyIsQuiet
  <2>4. CASE Leaving(s)
    <3>1. \A t \in Sessions : at'[t] = IF t = s THEN Idle ELSE at[t]
      BY <2>4 DEF Leaving, Leaves, IInv, TypeOK
    <3> QED BY <1>0, <1>5, <3>1 DEF BusyIsQuiet, Idle
  <2> QED BY <2>1, <2>2, <2>3, <2>4, Shapes DEF IInv
<1> QED BY <1>1, <1>2, <1>3, <1>4, <1>5

-----------------------------------------------------------------------------
(***************************************************************************)
(* The reviews: what a stage adds to one keeps it grounded.                *)
(***************************************************************************)
\* The review an install is being made from.
LEMMA Requests ==
  ASSUME IInv, NEW s \in Sessions, at[s].op \in Applies
  PROVE  at[s].want \in Reviews /\ Grounded(at[s].want) /\ Requested(at[s].want) \in Nat
<1>1. at[s].want \in Reviews /\ Grounded(at[s].want)
  BY DEF IInv, SessionsHandle, Handled
<1>2. Requested(at[s].want) \in Nat
  BY <1>1 DEF Requested, IInv, TypeOK, Reviews
<1> QED BY <1>1, <1>2

\* A new review acknowledges nothing yet.
LEMMA NewReview ==
  ASSUME IInv, NEW want \in Kinds, NEW pinned \in BOOLEAN, "listed" \notin Env => pinned
  PROVE  Prepared(want, pinned) \in Reviews /\ Grounded(Prepared(want, pinned))
<1>1. PICK version \in Nat, token \in Nat :
        /\ Prepared(want, pinned) =
             [kind |-> want, live |-> TRUE, pinned |-> pinned, version |-> version,
              token |-> token, policy |-> FALSE, seen |-> {}]
        /\ want \in Installations => token = 0 /\ version = latest
  <2>1. latest \in Nat /\ plugin.version \in Nat
    BY DEF IInv, TypeOK, Plugins
  <2> QED BY <2>1 DEF Prepared, Installations
<1>2. Prepared(want, pinned) \in Reviews
  BY <1>1 DEF Reviews
<1>3. latest # 0
  BY DEF IInv, TypeOK
<1>4. Grounded(Prepared(want, pinned))
  BY <1>1, <1>3 DEF Grounded
<1> QED BY <1>2, <1>4

\* What a review is when one of its fields is set.
LEMMA FieldsSet ==
  ASSUME NEW r \in Reviews, NEW x
  PROVE  /\ [r EXCEPT !.token = x] =
              [kind |-> r.kind, live |-> r.live, pinned |-> r.pinned, version |-> r.version,
               token |-> x, policy |-> r.policy, seen |-> r.seen]
         /\ [r EXCEPT !.live = x] =
              [kind |-> r.kind, live |-> x, pinned |-> r.pinned, version |-> r.version,
               token |-> r.token, policy |-> r.policy, seen |-> r.seen]
         /\ [r EXCEPT !.policy = x] =
              [kind |-> r.kind, live |-> r.live, pinned |-> r.pinned, version |-> r.version,
               token |-> r.token, policy |-> x, seen |-> r.seen]
         /\ [r EXCEPT !.seen = x] =
              [kind |-> r.kind, live |-> r.live, pinned |-> r.pinned, version |-> r.version,
               token |-> r.token, policy |-> r.policy, seen |-> x]
  BY DEF Reviews

\* OpenClaw asks for consent to version v: the next stage shows what v wants.
LEMMA ConsentStage ==
  ASSUME NEW r \in Reviews, Grounded(r), NEW v \in Nat, v = Requested(r)
  PROVE  LET n == [r EXCEPT !.token = v, !.live = TRUE, !.seen = @ \cup {<<"tools", v>>}]
         IN  n \in Reviews /\ Grounded(n)
<1> DEFINE n == [r EXCEPT !.token = v, !.live = TRUE, !.seen = @ \cup {<<"tools", v>>}]
           a == [r EXCEPT !.token = v]
           b == [a EXCEPT !.live = TRUE]
           seen == r.seen \cup {<<"tools", v>>}
<1>1. /\ a \in Reviews
      /\ a.kind = r.kind /\ a.pinned = r.pinned /\ a.version = r.version /\ a.seen = r.seen
      /\ a.token = v /\ a.policy = r.policy
  BY FieldsSet DEF Reviews
<1>2. /\ b \in Reviews
      /\ b.kind = r.kind /\ b.pinned = r.pinned /\ b.version = r.version
      /\ b.token = v /\ b.policy = r.policy
  <2> HIDE DEF a
  <2> QED BY <1>1, FieldsSet DEF Reviews
<1>3. n = [b EXCEPT !.seen = seen]
  BY DEF Reviews
<1>4. seen \in SUBSET ({"policy", "tools"} \X Nat)
  BY DEF Reviews
<1> HIDE DEF b, n
<1>5. /\ n \in Reviews
      /\ n.kind = r.kind /\ n.pinned = r.pinned /\ n.version = r.version /\ n.seen = seen
      /\ n.token = v /\ n.policy = r.policy
  <2> HIDE DEF seen
  <2> QED BY <1>2, <1>3, <1>4, FieldsSet DEF Reviews
<1>6. Grounded(n)
  BY <1>5 DEF Grounded, Requested
<1> QED BY <1>5, <1>6 DEF n

\* OpenClaw's policy warns of version v: the next stage shows the warning.
LEMMA PolicyStage ==
  ASSUME NEW r \in Reviews, Grounded(r), NEW v \in Nat, v = Requested(r)
  PROVE  LET n == [r EXCEPT !.policy = TRUE, !.live = TRUE, !.seen = @ \cup {<<"policy", v>>}]
         IN  n \in Reviews /\ Grounded(n)
<1> DEFINE n == [r EXCEPT !.policy = TRUE, !.live = TRUE, !.seen = @ \cup {<<"policy", v>>}]
           a == [r EXCEPT !.policy = TRUE]
           b == [a EXCEPT !.live = TRUE]
           seen == r.seen \cup {<<"policy", v>>}
<1>1. /\ a \in Reviews
      /\ a.kind = r.kind /\ a.pinned = r.pinned /\ a.version = r.version /\ a.seen = r.seen
      /\ a.policy /\ a.token = r.token
  BY FieldsSet DEF Reviews
<1>2. /\ b \in Reviews
      /\ b.kind = r.kind /\ b.pinned = r.pinned /\ b.version = r.version
      /\ b.policy /\ b.token = r.token
  <2> HIDE DEF a
  <2> QED BY <1>1, FieldsSet DEF Reviews
<1>3. n = [b EXCEPT !.seen = seen]
  BY DEF Reviews
<1>4. seen \in SUBSET ({"policy", "tools"} \X Nat)
  BY DEF Reviews
<1> HIDE DEF b, n
<1>5. /\ n \in Reviews
      /\ n.kind = r.kind /\ n.pinned = r.pinned /\ n.version = r.version /\ n.seen = seen
      /\ n.policy /\ n.token = r.token
  <2> HIDE DEF seen
  <2> QED BY <1>2, <1>3, <1>4, FieldsSet DEF Reviews
<1>6. Grounded(n)
  BY <1>5 DEF Grounded, Requested
<1> QED BY <1>5, <1>6 DEF n

\* A session's step drops its review, leaves it, or makes it a grounded one.
LEMMA ReviewsStay ==
  ASSUME IInv, NEW s \in Sessions, Session(s)
  PROVE  review' \in [Sessions -> Reviews \cup {None}] /\ ReviewsGrounded'
<1>0. review \in [Sessions -> Reviews \cup {None}] /\ Handled(at[s])
  BY DEF IInv, TypeOK, SessionsHandle
<1>1. \/ review' = review
      \/ review' = [review EXCEPT ![s] = None]
      \/ \E r \in Reviews : Grounded(r) /\ review' = [review EXCEPT ![s] = r]
  <2>1. CASE List(s) \/ ReviewRequest(s) \/ Enter(s) \/ SetsEnabled(s) \/ ToggleRefused(s)
    BY <2>1 DEF List, ReviewRequest, Enter, SetsEnabled, ToggleRefused
  <2>2. CASE ToggleApply(s) \/ PluginApply(s)
    BY <2>2 DEF ToggleApply, PluginApply
  <2>3. CASE CallFails(s) \/ UninstallRefused(s) \/ StartFails(s) \/ ReadFails(s)
    BY <2>3 DEF CallFails, UninstallRefused, StartFails, ReadFails, Errs
  <2>4. CASE Installs(s) \/ Uninstalls(s) \/ Stops(s) \/ Starts(s)
    BY <2>4 DEF Installs, Uninstalls, Stops, Starts
  <2>5. CASE Reads(s) \/ ReadsCached(s) \/ QueryStarts(s) \/ QueryEnds(s)
    BY <2>5 DEF Reads, ReadsCached, QueryStarts, QueryEnds
  <2>6. CASE Prepares(s)
    <3>1. at[s].want \in Kinds
      BY <1>0, <2>6 DEF Prepares, Calling, Handled
    <3>2. CASE Possible(at[s].want)
      <4>1. PICK pinned \in {TRUE} \cup {"listed" \notin Env} :
              review' = [review EXCEPT ![s] = Prepared(at[s].want, pinned)]
        BY <2>6, <3>2 DEF Prepares
      <4>2. pinned \in BOOLEAN /\ ("listed" \notin Env => pinned)
        OBVIOUS
      <4> QED BY <3>1, <4>1, <4>2, NewReview
    <3>3. CASE ~Possible(at[s].want)
      BY <2>6, <3>3 DEF Prepares
    <3> QED BY <3>2, <3>3
  <2>7. CASE Expires(s)
    <3> DEFINE n == [review[s] EXCEPT !.live = FALSE]
    <3>1. review[s] \in Reviews /\ Grounded(review[s]) /\ review' = [review EXCEPT ![s] = n]
      BY <1>0, <2>7 DEF Expires, IInv, ReviewsGrounded
    <3>2. n = [kind |-> review[s].kind, live |-> FALSE, pinned |-> review[s].pinned,
               version |-> review[s].version, token |-> review[s].token,
               policy |-> review[s].policy, seen |-> review[s].seen]
      BY <3>1, FieldsSet
    <3>3. n \in Reviews
      BY <3>1, <3>2 DEF Reviews
    <3>4. Grounded(n)
      BY <3>1, <3>2 DEF Grounded
    <3> HIDE DEF n
    <3> QED BY <3>1, <3>3, <3>4
  <2>8. CASE AsksConsent(s)
    <3>1. at[s].op \in Applies
      BY <2>8 DEF AsksConsent, Installing, Calling, Applies
    <3> DEFINE r == at[s].want  v == Requested(r)
               n == [r EXCEPT !.token = v, !.live = TRUE, !.seen = @ \cup {<<"tools", v>>}]
    <3>2. r \in Reviews /\ Grounded(r) /\ v \in Nat
      BY <3>1, Requests
    <3>3. n \in Reviews /\ Grounded(n)
      BY <3>2, ConsentStage
    <3>4. review' = [review EXCEPT ![s] = n]
      BY <2>8 DEF AsksConsent
    <3> HIDE DEF n
    <3> QED BY <3>3, <3>4
  <2>9. CASE AsksPolicy(s)
    <3>1. at[s].op \in Applies
      BY <2>9 DEF AsksPolicy, Installing, Calling, Applies
    <3> DEFINE r == at[s].want  v == Requested(r)
               n == [r EXCEPT !.policy = TRUE, !.live = TRUE, !.seen = @ \cup {<<"policy", v>>}]
    <3>2. r \in Reviews /\ Grounded(r) /\ v \in Nat
      BY <3>1, Requests
    <3>3. n \in Reviews /\ Grounded(n)
      BY <3>2, PolicyStage
    <3>4. review' = [review EXCEPT ![s] = n]
      BY <2>9 DEF AsksPolicy
    <3> HIDE DEF n
    <3> QED BY <3>3, <3>4
  <2> QED BY <2>1, <2>2, <2>3, <2>4, <2>5, <2>6, <2>7, <2>8, <2>9 DEF Session
<1>2. CASE review' = review
  BY <1>0, <1>2 DEF IInv, ReviewsGrounded, Grounded
<1>3. CASE review' = [review EXCEPT ![s] = None]
  <2>1. \A t \in Sessions : review'[t] = IF t = s THEN None ELSE review[t]
    BY <1>0, <1>3
  <2> QED BY <1>0, <1>3, <2>1 DEF IInv, ReviewsGrounded
<1>4. CASE \E r \in Reviews : Grounded(r) /\ review' = [review EXCEPT ![s] = r]
  <2>1. PICK r \in Reviews : Grounded(r) /\ review' = [review EXCEPT ![s] = r]
    BY <1>4
  <2>2. \A t \in Sessions : review'[t] = IF t = s THEN r ELSE review[t]
    BY <1>0, <2>1
  <2> QED BY <1>0, <2>1, <2>2 DEF IInv, ReviewsGrounded
<1> QED BY <1>1, <1>2, <1>3, <1>4

-----------------------------------------------------------------------------
(***************************************************************************)
(* The plugin, what is read of it and what the panels show.                *)
(***************************************************************************)
\* A plugin of which flags are set is a plugin of the same version.
LEMMA FlagsSet ==
  ASSUME NEW p \in Plugins, NEW x \in BOOLEAN, NEW y \in BOOLEAN
  PROVE  /\ [p EXCEPT !.loaded = x] \in Plugins
         /\ [p EXCEPT !.enabled = x, !.loaded = y] \in Plugins
<1>1. \A q \in Plugins, z \in BOOLEAN :
        /\ [q EXCEPT !.loaded = z] = [version |-> q.version, enabled |-> q.enabled, loaded |-> z, deps |-> q.deps]
        /\ [q EXCEPT !.enabled = z] = [version |-> q.version, enabled |-> z, loaded |-> q.loaded, deps |-> q.deps]
  BY DEF Plugins
<1>2. \A q \in Plugins, z \in BOOLEAN :
        /\ [version |-> q.version, enabled |-> q.enabled, loaded |-> z, deps |-> q.deps] \in Plugins
        /\ [version |-> q.version, enabled |-> z, loaded |-> q.loaded, deps |-> q.deps] \in Plugins
  BY DEF Plugins
<1>3. [p EXCEPT !.enabled = x, !.loaded = y] = [[p EXCEPT !.enabled = x] EXCEPT !.loaded = y]
  BY DEF Plugins
<1>4. ASSUME NEW q \in Plugins, NEW z \in BOOLEAN
      PROVE  [q EXCEPT !.loaded = z] \in Plugins /\ [q EXCEPT !.enabled = z] \in Plugins
  <2> DEFINE l == [q EXCEPT !.loaded = z]  e == [q EXCEPT !.enabled = z]
  <2>1. /\ l = [version |-> q.version, enabled |-> q.enabled, loaded |-> z, deps |-> q.deps]
        /\ e = [version |-> q.version, enabled |-> z, loaded |-> q.loaded, deps |-> q.deps]
    BY <1>1
  <2> HIDE DEF l, e
  <2>2. l \in Plugins /\ e \in Plugins
    BY <1>2, <2>1
  <2> QED BY <2>2 DEF l, e
<1>5. [p EXCEPT !.enabled = x] \in Plugins /\ [p EXCEPT !.loaded = x] \in Plugins
  BY <1>4
<1>6. [[p EXCEPT !.enabled = x] EXCEPT !.loaded = y] \in Plugins
  BY <1>4, <1>5, Zenon
<1> QED BY <1>3, <1>5, <1>6, Zenon

\* What the inventory says of a plugin.
LEMMA Viewed ==
  ASSUME NEW p \in Plugins
  PROVE  View(p) \in Views
<1>1. Readiness(p) \in {"ready", "dependency_missing", "disabled", "unhealthy"}
  BY DEF Readiness
<1> QED BY <1>1 DEF View, Views, Plugins

\* The values stay what they are, whichever session takes a step.
LEMMA ValuesStay ==
  ASSUME IInv, NEW s \in Sessions, Session(s)
  PROVE  /\ plugin' \in Plugins /\ latest' \in Nat \ {0} /\ up' \in BOOLEAN /\ asks' \in Nat
         /\ cache' \in Views \cup {None}
         /\ hud' \in [Sessions -> Panels \cup {None}]
         /\ change' \in Changes \cup {None}
<1>0. /\ plugin \in Plugins /\ latest \in Nat \ {0} /\ up \in BOOLEAN /\ asks \in Nat
      /\ cache \in Views \cup {None} /\ hud \in [Sessions -> Panels \cup {None}]
      /\ change \in Changes \cup {None}
  BY DEF IInv, TypeOK
<1>1. CASE UNCHANGED <<plugin, latest, up, cache, hud, change>> /\ asks' \in {asks, asks + 1}
  BY <1>0, <1>1
<1>2. CASE SetsEnabled(s)
  <2>1. PICK restart \in BOOLEAN :
          plugin' = [plugin EXCEPT !.enabled = (at[s].want.kind = "enable"),
                                   !.loaded = IF restart THEN @ ELSE (at[s].want.kind = "enable")]
    BY <1>2 DEF SetsEnabled
  <2> DEFINE on == at[s].want.kind = "enable"
             to == IF restart THEN plugin.loaded ELSE on
  <2>2. plugin' = [plugin EXCEPT !.enabled = on, !.loaded = to]
    BY <2>1 
  <2>3. on \in BOOLEAN /\ to \in BOOLEAN
    BY <1>0 DEF Plugins
  <2> HIDE DEF on, to
  <2>4. plugin' \in Plugins
    BY <1>0, <2>2, <2>3, FlagsSet
  <2> QED BY <1>0, <1>2, <2>4 DEF SetsEnabled
<1>3. CASE Installs(s)
  <2>1. at[s].op \in Applies
    BY <1>3 DEF Installs, Installing, Calling, Applies
  <2> DEFINE r == at[s].want  v == Requested(r)
  <2>2. r \in Reviews /\ v \in Nat
    BY <2>1, Requests
  <2>3. change' = [shown |-> r.version, version |-> v, seen |-> r.seen]
    BY <1>3 DEF Installs
  <2>4. change' \in Changes
    BY <2>2, <2>3 DEF Changes, Reviews
  <2>5. PICK deps \in BOOLEAN, restart \in BOOLEAN :
          plugin' = [version |-> v, enabled |-> TRUE, loaded |-> ~restart, deps |-> deps]
    BY <1>3 DEF Installs
  <2>6. plugin' \in Plugins
    BY <2>2, <2>5 DEF Plugins
  <2>7. UNCHANGED <<latest, up, cache, hud, asks>>
    BY <1>3 DEF Installs
  <2> QED BY <1>0, <2>4, <2>6, <2>7
<1>4. CASE Uninstalls(s)
  <2>1. Absent \in Plugins
    BY DEF Absent, Plugins
  <2> QED BY <1>0, <1>4, <2>1 DEF Uninstalls
<1>5. CASE Stops(s)
  BY <1>0, <1>5 DEF Stops
<1>6. CASE Starts(s)
  <2>1. plugin.enabled \in BOOLEAN
    BY <1>0 DEF Plugins
  <2> QED BY <1>0, <1>6, <2>1, FlagsSet DEF Starts
<1>7. CASE Reads(s) \/ ReadsCached(s)
  <2>1. \E view \in Views, stale \in BOOLEAN :
          hud' = [hud EXCEPT ![s] = [view |-> view, stale |-> stale]]
    BY <1>0, <1>7, Viewed DEF Reads, ReadsCached
  <2>2. cache' \in Views \cup {None}
    BY <1>0, <1>7, Viewed DEF Reads, ReadsCached
  <2>3. hud' \in [Sessions -> Panels \cup {None}]
    <3>1. PICK view \in Views, stale \in BOOLEAN :
            hud' = [hud EXCEPT ![s] = [view |-> view, stale |-> stale]]
      BY <2>1
    <3>2. [view |-> view, stale |-> stale] \in Panels
      BY DEF Panels
    <3> QED BY <1>0, <3>1, <3>2
  <2>4. UNCHANGED <<plugin, latest, up, change, asks>>
    BY <1>7 DEF Reads, ReadsCached
  <2> QED BY <1>0, <2>2, <2>3, <2>4
<1>8. CASE \/ List(s) \/ ReviewRequest(s) \/ ToggleApply(s) \/ PluginApply(s) \/ Enter(s)
           \/ CallFails(s) \/ Prepares(s) \/ Expires(s) \/ ToggleRefused(s)
           \/ AsksConsent(s) \/ AsksPolicy(s) \/ UninstallRefused(s)
           \/ StartFails(s) \/ ReadFails(s) \/ QueryStarts(s) \/ QueryEnds(s)
  BY <1>1, <1>8 DEF List, ReviewRequest, ToggleApply, PluginApply, Enter, CallFails, Prepares, Expires,
     ToggleRefused, AsksConsent, AsksPolicy, UninstallRefused, StartFails, ReadFails, QueryStarts, QueryEnds
<1> QED BY <1>2, <1>3, <1>4, <1>5, <1>6, <1>7, <1>8 DEF Session

\* What an install acknowledges for the version it was shown was in its stages.
LEMMA InstallsStay ==
  ASSUME IInv, NEW s \in Sessions, Session(s), "listed" \notin Env
  PROVE  InstalledAsReviewed'
<1>1. CASE change' = change
  BY <1>1 DEF IInv, InstalledAsReviewed
<1>2. CASE Installs(s)
  <2>1. at[s].op \in Applies /\ at[s].want.kind \in Installations
    BY <1>2 DEF Installs, Installing, Calling, Applies, Installations
  <2> DEFINE r == at[s].want
  <2>2. r \in Reviews /\ Grounded(r) /\ r.pinned
    BY <2>1, Requests DEF Grounded
  <2>3. Requested(r) = r.version
    BY <2>2 DEF Requested
  <2>4. /\ change' = [shown |-> r.version, version |-> r.version, seen |-> r.seen]
        /\ r.version \in Warned => r.policy
        /\ r.version \in Sensitive => r.token = r.version
    BY <1>2, <2>3 DEF Installs
  <2>5. Needs(r.version) \subseteq r.seen
    BY <2>1, <2>2, <2>4 DEF Needs, Grounded
  <2> QED BY <2>4, <2>5 DEF InstalledAsReviewed
<1>3. Installs(s) \/ change' = change
  <2>1. CASE \/ List(s) \/ ReviewRequest(s) \/ ToggleApply(s) \/ PluginApply(s) \/ Enter(s)
             \/ CallFails(s) \/ Prepares(s) \/ Expires(s) \/ ToggleRefused(s) \/ SetsEnabled(s)
             \/ AsksConsent(s) \/ AsksPolicy(s) \/ UninstallRefused(s) \/ Uninstalls(s)
    BY <2>1 DEF List, ReviewRequest, ToggleApply, PluginApply, Enter, CallFails, Prepares, Expires,
       ToggleRefused, SetsEnabled, AsksConsent, AsksPolicy, UninstallRefused, Uninstalls
  <2>2. CASE \/ Stops(s) \/ Starts(s) \/ StartFails(s) \/ Reads(s) \/ ReadsCached(s) \/ ReadFails(s)
             \/ QueryStarts(s) \/ QueryEnds(s)
    BY <2>2 DEF Stops, Starts, StartFails, Reads, ReadsCached, ReadFails, QueryStarts, QueryEnds
  <2> QED BY <2>1, <2>2 DEF Session
<1> QED BY <1>1, <1>2, <1>3

-----------------------------------------------------------------------------
(***************************************************************************)
(* The invariant, and what it says of every behaviour.                     *)
(***************************************************************************)
LEMMA InitIInv == Init => IInv
<1> SUFFICES ASSUME Init PROVE IInv
  OBVIOUS
<1> USE DEF Init
<1>1. plugin \in Plugins
  <2>1. Absent \in Plugins
    BY DEF Plugins, Absent
  <2>2. [version |-> 1, enabled |-> FALSE, loaded |-> FALSE, deps |-> TRUE] \in Plugins
    BY DEF Plugins
  <2> QED BY <2>1, <2>2
<1>2. TypeOK
  BY <1>1 DEF TypeOK
<1>3. Handled(Idle)
  BY DEF Handled, Idle, Ops, Steps, Applies
<1>4. SessionsHandle /\ ReviewsGrounded /\ BusyIsQuiet
  BY <1>3 DEF SessionsHandle, ReviewsGrounded, BusyIsQuiet
<1>5. LockHeld
  BY CapabilityCatalogAssumption DEF LockHeld, Inside, Idle
<1>6. InstalledAsReviewed
  BY DEF InstalledAsReviewed
<1> QED BY <1>2, <1>4, <1>5, <1>6 DEF IInv

LEMMA NextIInv == IInv /\ [Next]_vars => IInv'
<1> SUFFICES ASSUME IInv, [Next]_vars PROVE IInv'
  OBVIOUS
<1>1. ASSUME NEW s \in Sessions, Session(s) PROVE IInv'
  <2>1. SessionsHandle' /\ at' = [t \in Sessions |-> at'[t]]
    BY <1>1, MessagesStay DEF IInv
  <2>2. TypeOK'
    BY <1>1, <2>1, LockStays, BusyStays, ReviewsStay, ValuesStay DEF TypeOK
  <2> QED BY <1>1, <2>1, <2>2, LockStays, BusyStays, ReviewsStay, InstallsStay DEF IInv
<1>2. CASE Publishes \/ Returns
  <2>1. UNCHANGED <<lock, at, review, query, cache, hud, change, asks>>
    BY <1>2 DEF Publishes, Returns
  <2>2. latest' \in Nat \ {0} /\ up' \in BOOLEAN /\ plugin' \in Plugins
    <3>1. plugin.enabled \in BOOLEAN
      BY DEF IInv, TypeOK, Plugins
    <3>2. CASE Publishes
      BY <3>2 DEF Publishes, IInv, TypeOK
    <3>3. CASE Returns
      BY <3>1, <3>3, FlagsSet DEF Returns, IInv, TypeOK
    <3> QED BY <1>2, <3>2, <3>3
  <2>3. TypeOK'
    BY <2>1, <2>2 DEF IInv, TypeOK
  <2>4. SessionsHandle' /\ ReviewsGrounded'
    BY <2>1 DEF IInv, SessionsHandle, ReviewsGrounded, Handled, Grounded
  <2>5. BusyIsQuiet' /\ LockHeld'
    BY <2>1 DEF IInv, BusyIsQuiet, LockHeld, Inside
  <2> QED BY <2>1, <2>3, <2>4, <2>5 DEF IInv, InstalledAsReviewed
<1>3. CASE UNCHANGED vars
  BY <1>3 DEF vars, IInv, TypeOK, SessionsHandle, ReviewsGrounded, BusyIsQuiet, LockHeld, Inside,
     Handled, Grounded, InstalledAsReviewed
<1> QED BY <1>1, <1>2, <1>3 DEF Next

LEMMA AlwaysIInv == Spec => []IInv
  BY InitIInv, NextIInv, PTL DEF Spec

(***************************************************************************)
(* Every variable keeps its values, every message handled its shape        *)
(* (server/main.py:7440): in particular an apply is always made from a     *)
(* whole review.                                                           *)
(***************************************************************************)
THEOREM TypeCorrect == Spec => [](TypeOK /\ SessionsHandle)
<1>1. IInv => TypeOK /\ SessionsHandle
  BY DEF IInv
<1> QED BY <1>1, AlwaysIInv, PTL

(***************************************************************************)
(* capability_management_lock: of the sessions that call OpenClaw, restart *)
(* the gateway or read the inventory, there is never a second one.         *)
(***************************************************************************)
THEOREM OneManagerAtATime ==
  Spec => [](\A s, t \in Sessions : Inside(s) /\ Inside(t) => s = t)
<1>1. IInv => \A s, t \in Sessions : Inside(s) /\ Inside(t) => s = t
  BY DEF IInv, LockHeld
<1> QED BY <1>1, AlwaysIInv, PTL

(***************************************************************************)
(* When every review names its version (no entry of plugins.list is        *)
(* installed without one), whatever OpenClaw installed is the version the  *)
(* owner was shown, and every warning and capability it wanted seen was in *)
(* a stage of that review - for any policies, releases and refusals.       *)
(***************************************************************************)
THEOREM InstalledIsReviewed ==
  ASSUME "listed" \notin Env
  PROVE  Spec => []InstalledAsReviewed
<1>1. IInv => InstalledAsReviewed
  BY DEF IInv
<1> QED BY <1>1, AlwaysIInv, PTL

(***************************************************************************)
(* The gateway shutdown of a change (server/main.py:7601) is never done by *)
(* a session whose own answer is running, however long the change waited.  *)
(***************************************************************************)
THEOREM OwnAnswerIsSpared == Spec => OwnAnswerSurvives
<1>1. IInv /\ [Next]_vars =>
        [\A s \in Sessions : (at[s].step = "stop" /\ at'[s].step = "start") => ~query[s]]_vars
  <2>1. ASSUME IInv, NEW s \in Sessions, at[s].step = "stop" PROVE ~query[s]
    BY <2>1 DEF IInv, SessionsHandle, Handled, BusyIsQuiet, Applies
  <2> QED BY <2>1
<1> QED BY <1>1, AlwaysIInv, PTL DEF Spec, OwnAnswerSurvives

(***************************************************************************)
(* A panel drawn and not marked stale shows the plugin as OpenClaw has it  *)
(* at that step; only the snapshot of a failed listing may be old, and it  *)
(* is marked.                                                              *)
(***************************************************************************)
THEOREM FreshPanelsAreTrue == Spec => FreshIsTrue
<1> DEFINE Fresh == \A s \in Sessions : (hud'[s] # hud[s] /\ ~hud'[s].stale) => hud'[s].view = View(plugin)
<1>1. IInv /\ [Next]_vars => [Fresh]_vars
  <2> SUFFICES ASSUME IInv, Next PROVE Fresh
    OBVIOUS
  <2>0. hud \in [Sessions -> Panels \cup {None}]
    BY DEF IInv, TypeOK
  <2>1. CASE hud' = hud
    BY <2>1
  <2>2. ASSUME NEW s \in Sessions, Session(s) PROVE hud' = hud \/ Fresh
    <3>1. CASE Reads(s)
      <4>1. \A t \in Sessions : hud'[t] = IF t = s THEN [view |-> View(plugin), stale |-> FALSE] ELSE hud[t]
        BY <2>0, <3>1 DEF Reads
      <4> QED BY <4>1
    <3>2. CASE ReadsCached(s)
      <4>1. \A t \in Sessions : hud'[t] = IF t = s THEN [view |-> cache, stale |-> TRUE] ELSE hud[t]
        BY <2>0, <3>2 DEF ReadsCached
      <4> QED BY <4>1
    <3>3. CASE \/ List(s) \/ ReviewRequest(s) \/ ToggleApply(s) \/ PluginApply(s) \/ Enter(s)
               \/ CallFails(s) \/ Prepares(s) \/ Expires(s) \/ ToggleRefused(s) \/ SetsEnabled(s)
               \/ AsksConsent(s) \/ AsksPolicy(s)
      BY <3>3 DEF List, ReviewRequest, ToggleApply, PluginApply, Enter, CallFails, Prepares, Expires,
         ToggleRefused, SetsEnabled, AsksConsent, AsksPolicy
    <3>4. CASE \/ Installs(s) \/ Uninstalls(s) \/ UninstallRefused(s) \/ Stops(s) \/ Starts(s)
               \/ StartFails(s) \/ ReadFails(s) \/ QueryStarts(s) \/ QueryEnds(s)
      BY <3>4 DEF Installs, Uninstalls, UninstallRefused, Stops, Starts, StartFails, ReadFails,
         QueryStarts, QueryEnds
    <3> QED BY <2>2, <3>1, <3>2, <3>3, <3>4 DEF Session
  <2>3. CASE Publishes \/ Returns
    BY <2>1, <2>3 DEF Publishes, Returns
  <2> HIDE DEF Fresh
  <2> QED BY <2>1, <2>2, <2>3 DEF Next
<1> QED BY <1>1, AlwaysIInv, PTL DEF Spec, FreshIsTrue
=============================================================================
