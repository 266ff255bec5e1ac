-------------------------- MODULE CapabilityCatalog --------------------------
(***************************************************************************)
(* The Capabilities panel (server/capability_catalog.py and its handlers   *)
(* in server/main.py): one plugin, as OpenClaw holds it, is reviewed and   *)
(* then enabled, disabled, installed, upgraded or removed by HUD sessions  *)
(* that share one management lock and one gateway.  A session handles one  *)
(* message at a time; a change may restart the gateway under every answer. *)
(***************************************************************************)
EXTENDS Naturals, FiniteSets

CONSTANTS
  Sessions,     \* the HUD connections
  None,
  MaxVersions,  \* bound: versions the publisher releases
  MaxAsks,      \* bound: messages that start a listing or a review
  Warned,       \* versions OpenClaw's install policy warns of
  Sensitive,    \* versions whose capabilities need the owner's consent
  Env           \* what may go wrong: "listed" (an entry of plugins.list is
                \* installed without its version), "fails" (calls are refused
                \* or lose their answer, the restart or the CLI fails)

ASSUME CapabilityCatalogAssumption ==
  /\ MaxVersions \in Nat \ {0} /\ MaxAsks \in Nat
  /\ Warned \subseteq 1..MaxVersions /\ Sensitive \subseteq 1..MaxVersions
  /\ None \notin Sessions

VARIABLES
  lock,      \* capability_management_lock's holder, or None
  at,        \* per session: the message being handled and how far it is
  review,    \* per session: pending_capability_review, or None
  query,     \* per session: query_task is running
  plugin,    \* OpenClaw's plugin
  latest,    \* the newest version published
  up,        \* the gateway runs
  cache,     \* the snapshot file: the last inventory read
  hud,       \* per session: what the panel shows of the plugin
  change,    \* the last install: what was reviewed and what OpenClaw did
  asks

vars == <<lock, at, review, query, plugin, latest, up, cache, hud, change, asks>>

Versions == 1..MaxVersions
Idle == [op |-> "idle", step |-> "idle", want |-> None]
Absent == [version |-> 0, enabled |-> FALSE, loaded |-> FALSE, deps |-> TRUE]

Fails == "fails" \in Env

(* What the inventory makes of a plugin; `enabled' never counts as ready.  *)
Readiness(p) ==
  IF p.loaded /\ p.deps THEN "ready"
  ELSE IF ~p.deps THEN "dependency_missing"
  ELSE IF ~p.enabled THEN "disabled"
  ELSE "unhealthy"

View(p) == [version |-> p.version, enabled |-> p.enabled, readiness |-> Readiness(p)]

(* The version a reviewed install names to OpenClaw: its own if the entry  *)
(* came from a search, whatever is newest if it came from plugins.list.    *)
Requested(r) == IF r.pinned THEN r.version ELSE latest

(* What OpenClaw asks the owner to have seen before it installs version v. *)
Needs(v) == {<<"policy", w>> : w \in Warned \cap {v}} \cup {<<"tools", w>> : w \in Sensitive \cap {v}}

Init ==
  /\ lock = None
  /\ at = [s \in Sessions |-> Idle]
  /\ review = [s \in Sessions |-> None]
  /\ query = [s \in Sessions |-> FALSE]
  /\ plugin \in {Absent, [version |-> 1, enabled |-> FALSE, loaded |-> FALSE, deps |-> TRUE]}
  /\ latest = 1
  /\ up = TRUE
  /\ cache = None
  /\ hud = [s \in Sessions |-> None]
  /\ change = None
  /\ asks = 0

(***************************************************************************)
(* The owner's messages.  A busy session refuses a review and an apply; a  *)
(* refused toggle has already lost its review, a refused plugin keeps it.  *)
(***************************************************************************)
Handles(s, op, want) == at' = [at EXCEPT ![s] = [op |-> op, step |-> "lock", want |-> want]]

List(s) ==
  /\ at[s] = Idle /\ asks < MaxAsks
  /\ Handles(s, "list", None)
  /\ asks' = asks + 1
  /\ UNCHANGED <<lock, review, query, plugin, latest, up, cache, hud, change>>

ReviewRequest(s) ==
  /\ at[s] = Idle /\ asks < MaxAsks
  /\ ~query[s]
  /\ \E want \in {"enable", "disable", "install", "upgrade", "uninstall"} : Handles(s, "review", want)
  /\ asks' = asks + 1
  /\ UNCHANGED <<lock, review, query, plugin, latest, up, cache, hud, change>>

ToggleApply(s) ==
  /\ at[s] = Idle /\ review[s] # None /\ review[s].kind \in {"enable", "disable"}
  /\ review' = [review EXCEPT ![s] = None]
  /\ IF review[s].live /\ ~query[s]
     THEN Handles(s, "toggle", review[s])
     ELSE UNCHANGED at
  /\ UNCHANGED <<lock, query, plugin, latest, up, cache, hud, change, asks>>

PluginApply_Mut(s) ==
  /\ at[s] = Idle /\ review[s] # None /\ review[s].kind \notin {"enable", "disable"}
  /\ review[s].live
  /\ Handles(s, "plugin", review[s])
  /\ UNCHANGED <<lock, review, query, plugin, latest, up, cache, hud, change, asks>>

PluginApply(s) ==
  /\ at[s] = Idle /\ review[s] # None /\ review[s].kind \notin {"enable", "disable"}
  /\ IF review[s].live
     THEN /\ ~query[s]
          /\ Handles(s, "plugin", review[s])
          /\ UNCHANGED review
     ELSE /\ review' = [review EXCEPT ![s] = None]
          /\ UNCHANGED at
  /\ UNCHANGED <<lock, query, plugin, latest, up, cache, hud, change, asks>>

Enter(s) ==
  /\ at[s].step = "lock" /\ lock = None
  /\ lock' = s
  /\ at' = [at EXCEPT ![s].step = "call"]
  /\ UNCHANGED <<review, query, plugin, latest, up, cache, hud, change, asks>>

Calling(s, op) == up /\ at[s].step = "call" /\ at[s].op = op
Leaves(s) == at' = [at EXCEPT ![s] = Idle] /\ lock' = None

(* A refused or lost call: the lock is left, an apply's review is gone.    *)
Errs(s) ==
  /\ Leaves(s)
  /\ review' = IF at[s].op = "plugin" THEN [review EXCEPT ![s] = None] ELSE review

CallFails(s) ==
  /\ at[s].step = "call" /\ at[s].op # "list" /\ (Fails \/ ~up)
  /\ Errs(s)
  /\ UNCHANGED <<query, plugin, latest, up, cache, hud, change, asks>>

(***************************************************************************)
(* prepare_gateway_change and prepare_plugin_operation: what OpenClaw says *)
(* now becomes a review held by the server, shown without its token.       *)
(***************************************************************************)
Possible(want) ==
  IF want = "install" THEN plugin.version = 0 ELSE plugin.version > 0

Prepared_Mut(want, pinned) ==
  [kind |-> want, live |-> TRUE, pinned |-> pinned,
   version |-> IF want \in {"install", "upgrade"} THEN latest ELSE plugin.version,
   token |-> IF want = "enable" THEN plugin.version ELSE 0,
   policy |-> TRUE, seen |-> {}]

Prepared(want, pinned) ==
  [kind |-> want, live |-> TRUE, pinned |-> pinned,
   version |-> IF want \in {"install", "upgrade"} THEN latest ELSE plugin.version,
   token |-> IF want = "enable" THEN plugin.version ELSE 0,
   policy |-> FALSE, seen |-> {}]

Prepares(s) ==
  /\ Calling(s, "review")
  /\ Leaves(s)
  /\ IF Possible(at[s].want)
     THEN \E pinned \in {TRUE} \cup {"listed" \notin Env} :
            review' = [review EXCEPT ![s] = Prepared(at[s].want, pinned)]
     ELSE UNCHANGED review
  /\ UNCHANGED <<query, plugin, latest, up, cache, hud, change, asks>>

(* 120 s or 180 s go by before the owner answers.                          *)
Expires(s) ==
  /\ review[s] # None /\ review[s].live /\ at[s] = Idle
  /\ review' = [review EXCEPT ![s].live = FALSE]
  /\ UNCHANGED <<lock, at, query, plugin, latest, up, cache, hud, change, asks>>

(***************************************************************************)
(* apply_gateway_change: plugins.setEnabled with the token of the review.  *)
(* OpenClaw enables only the version whose token it is given.              *)
(***************************************************************************)
AfterChange(s, restart) ==
  at' = [at EXCEPT ![s].step = IF restart THEN "stop" ELSE "inventory"]

SetsEnabled(s) ==
  LET r == at[s].want on == r.kind = "enable" IN
  /\ Calling(s, "toggle")
  /\ plugin.version > 0 /\ (on => r.token = plugin.version)
  /\ \E restart \in BOOLEAN :
       /\ plugin' = [plugin EXCEPT !.enabled = on, !.loaded = IF restart THEN @ ELSE on]
       /\ AfterChange(s, restart)
  /\ UNCHANGED <<lock, review, query, latest, up, cache, hud, change, asks>>

ToggleRefused(s) ==
  LET r == at[s].want IN
  /\ Calling(s, "toggle")
  /\ plugin.version = 0 \/ (r.kind = "enable" /\ r.token # plugin.version)
  /\ Leaves(s)
  /\ UNCHANGED <<review, query, plugin, latest, up, cache, hud, change, asks>>

(***************************************************************************)
(* apply_plugin_operation.  OpenClaw refuses an install whose policy       *)
(* warning or capabilities are not acknowledged; the refusal becomes the   *)
(* next stage of the review, and only the owner's next apply goes on.      *)
(***************************************************************************)
Installing(s) == Calling(s, "plugin") /\ at[s].want.kind \in {"install", "upgrade"}

AsksConsent(s) ==
  LET r == at[s].want v == Requested(r) IN
  /\ Installing(s) /\ v \in Sensitive /\ r.token # v
  /\ review' = [review EXCEPT ![s] = [r EXCEPT !.token = v, !.live = TRUE, !.seen = @ \cup {<<"tools", v>>}]]
  /\ Leaves(s)
  /\ UNCHANGED <<query, plugin, latest, up, cache, hud, change, asks>>

AsksPolicy(s) ==
  LET r == at[s].want v == Requested(r) IN
  /\ Installing(s) /\ v \in Warned /\ ~r.policy
  /\ review' = [review EXCEPT ![s] = [r EXCEPT !.policy = TRUE, !.live = TRUE, !.seen = @ \cup {<<"policy", v>>}]]
  /\ Leaves(s)
  /\ UNCHANGED <<query, plugin, latest, up, cache, hud, change, asks>>

Installs(s) ==
  LET r == at[s].want v == Requested(r) IN
  /\ Installing(s)
  /\ v \in Warned => r.policy
  /\ v \in Sensitive => r.token = v
  /\ change' = [shown |-> r.version, version |-> v, seen |-> r.seen]
  /\ \E deps, restart \in BOOLEAN :
       /\ plugin' = [version |-> v, enabled |-> TRUE, loaded |-> ~restart, deps |-> deps]
       /\ AfterChange(s, restart)
  /\ review' = [review EXCEPT ![s] = None]
  /\ UNCHANGED <<lock, query, latest, up, cache, hud, asks>>

Uninstalls(s) ==
  /\ Calling(s, "plugin") /\ at[s].want.kind = "uninstall" /\ plugin.version > 0
  /\ plugin' = Absent
  /\ \E restart \in BOOLEAN : AfterChange(s, restart)
  /\ review' = [review EXCEPT ![s] = None]
  /\ UNCHANGED <<lock, query, latest, up, cache, hud, change, asks>>

UninstallRefused(s) ==
  /\ Calling(s, "plugin") /\ at[s].want.kind = "uninstall" /\ plugin.version = 0
  /\ Errs(s)
  /\ UNCHANGED <<query, plugin, latest, up, cache, hud, change, asks>>

(***************************************************************************)
(* The restart: shutdown ends whatever the gateway was answering, for      *)
(* every session; prewarm brings it back, or fails and leaves it down      *)
(* until the next call.                                                    *)
(***************************************************************************)
Stops(s) ==
  /\ at[s].step = "stop"
  /\ up' = FALSE
  /\ query' = [t \in Sessions |-> FALSE]
  /\ at' = [at EXCEPT ![s].step = "start"]
  /\ UNCHANGED <<lock, review, plugin, latest, cache, hud, change, asks>>

Starts(s) ==
  /\ at[s].step = "start"
  /\ up' = TRUE
  /\ plugin' = [plugin EXCEPT !.loaded = plugin.enabled]
  /\ at' = [at EXCEPT ![s].step = "inventory"]
  /\ UNCHANGED <<lock, review, query, latest, cache, hud, change, asks>>

StartFails(s) ==
  /\ at[s].step = "start" /\ Fails
  /\ Errs(s)
  /\ UNCHANGED <<query, plugin, latest, up, cache, hud, change, asks>>

(***************************************************************************)
(* inventory(): the CLI's list, saved as the snapshot; when the CLI fails, *)
(* the snapshot of before, marked stale, or an error if there is none.     *)
(***************************************************************************)
Reading(s) == at[s].step = "inventory" \/ (at[s].step = "call" /\ at[s].op = "list")

Reads(s) ==
  /\ Reading(s)
  /\ cache' = View(plugin)
  /\ hud' = [hud EXCEPT ![s] = [view |-> View(plugin), stale |-> FALSE]]
  /\ Leaves(s)
  /\ UNCHANGED <<review, query, plugin, latest, up, change, asks>>

ReadsCached_Mut(s) ==
  /\ Reading(s) /\ Fails /\ cache # None
  /\ hud' = [hud EXCEPT ![s] = [view |-> cache, stale |-> FALSE]]
  /\ Leaves(s)
  /\ UNCHANGED <<review, query, plugin, latest, up, cache, change, asks>>

ReadsCached(s) ==
  /\ Reading(s) /\ Fails /\ cache # None
  /\ hud' = [hud EXCEPT ![s] = [view |-> cache, stale |-> TRUE]]
  /\ Leaves(s)
  /\ UNCHANGED <<review, query, plugin, latest, up, cache, change, asks>>

ReadFails(s) ==
  /\ Reading(s) /\ Fails /\ cache = None
  /\ Errs(s)
  /\ UNCHANGED <<query, plugin, latest, up, cache, hud, change, asks>>

(***************************************************************************)
(* The surroundings: answers start and end, the publisher releases, and    *)
(* ensure_ready brings a gateway that is down back for the next call.      *)
(***************************************************************************)
Returns ==
  /\ ~up /\ \E s \in Sessions : query[s] \/ at[s].step = "call"
  /\ up' = TRUE
  /\ plugin' = [plugin EXCEPT !.loaded = plugin.enabled]
  /\ UNCHANGED <<lock, at, review, query, latest, cache, hud, change, asks>>

QueryStarts(s) ==
  /\ at[s] = Idle /\ ~query[s]
  /\ query' = [query EXCEPT ![s] = TRUE]
  /\ UNCHANGED <<lock, at, review, plugin, latest, up, cache, hud, change, asks>>

QueryEnds(s) ==
  /\ query[s]
  /\ query' = [query EXCEPT ![s] = FALSE]
  /\ UNCHANGED <<lock, at, review, plugin, latest, up, cache, hud, change, asks>>

Publishes ==
  /\ latest < MaxVersions
  /\ latest' = latest + 1
  /\ UNCHANGED <<lock, at, review, query, plugin, up, cache, hud, change, asks>>

Session(s) ==
  \/ List(s) \/ ReviewRequest(s) \/ ToggleApply(s) \/ PluginApply(s)
  \/ Enter(s) \/ CallFails(s) \/ Prepares(s) \/ Expires(s)
  \/ SetsEnabled(s) \/ ToggleRefused(s)
  \/ AsksConsent(s) \/ AsksPolicy(s) \/ Installs(s) \/ Uninstalls(s) \/ UninstallRefused(s)
  \/ Stops(s) \/ Starts(s) \/ StartFails(s)
  \/ Reads(s) \/ ReadsCached(s) \/ ReadFails(s)
  \/ QueryStarts(s) \/ QueryEnds(s)

Next == Publishes \/ Returns \/ \E s \in Sessions : Session(s)

Spec == Init /\ [][Next]_vars

(***************************************************************************)
(* The version installed is the one the owner was shown, however many      *)
(* stages and releases lie between, and whatever OpenClaw wanted seen      *)
(* first - a policy warning, widened capabilities - was in a stage of the  *)
(* review, for that very version, before the apply that installed it.      *)
(* (Refuted with "listed": an entry of plugins.list is installed without   *)
(* its version.)                                                           *)
(***************************************************************************)
InstalledAsReviewed ==
  change # None => change.version = change.shown /\ Needs(change.version) \subseteq change.seen

(***************************************************************************)
(* A session's own answer is never torn down by the restart its change     *)
(* needs, although the change waits for the lock, OpenClaw and the owner.  *)
(***************************************************************************)
OwnAnswerSurvives ==
  [][\A s \in Sessions : (at[s].step = "stop" /\ at'[s].step = "start") => ~query[s]]_vars

(***************************************************************************)
(* The comment's claim, for every answer: a restart tears none down.       *)
(* Refuted by TLC: the busy check looks at its own session only.           *)
(***************************************************************************)
RestartSparesAnswers == [][(up /\ ~up') => \A s \in Sessions : ~query[s]]_vars

(***************************************************************************)
(* A panel that is not marked stale shows the plugin as OpenClaw has it    *)
(* when the panel is drawn: no old enablement, nothing ready that a failed *)
(* restart left unloaded.                                                  *)
(***************************************************************************)
FreshIsTrue ==
  [][\A s \in Sessions :
       (hud'[s] # hud[s] /\ ~hud'[s].stale) => hud'[s].view = View(plugin)]_vars
=============================================================================
