------------------------------- MODULE Memory -------------------------------
(* What MERRICK keeps of the owner: the revisioned preference cards of       *)
(* server/main.py with their audit and snapshot files, the lifecycle of      *)
(* preferences and the episodes in SQLite (local_memory.py), the wiki page   *)
(* OpenClaw holds, and the transcript saved in parts.  The event loop writes *)
(* the cards; threads consolidate turns and import the old archive; the      *)
(* process may stop between any two writes.                                  *)
EXTENDS Naturals, Sequences, FiniteSets, SequencesExt

CONSTANTS Values,     \* what the one preference followed here can be
          ChunkSize,  \* turns saved at once: 4 in the code
          MaxTurns,   \* bound: completed turns of the owner
          MaxThreads, \* bound: consolidation threads at once
          Boots,      \* threads that may import the archive
          MaxCrashes  \* bound: stops of the process

NoValue == "none"   \* never set, or revoked

ASSUME MemoryAssumption ==
  /\ ChunkSize \in Nat /\ MaxTurns \in Nat /\ MaxThreads \in Nat /\ MaxCrashes \in Nat
  /\ NoValue \notin Values

VARIABLES
  audit,     \* jarvis-memory revisions: the key's one revision
  card,      \* its card: revision, value, none when revoked
  snapshot,  \* jarvis-preferences.md: its value
  life,      \* preference_lifecycle: stage and evidence of each value
  writer,    \* _apply_memory_revision: the next write, the revision written
  threads,   \* consolidations of turns under way
  boot,      \* imports of the archive under way
  episode,   \* the archive's one exchange: imported, consolidated, observations
  turns,     \* memory_turns: how many, how many saved, parts
  saving,    \* persist_memory: the end of the chunk being saved, 0 for none
  archive,   \* OpenClaw's transcript: the end of each part it holds
  wiki,      \* the synthesis page: the fingerprint kept, the calls under way
  said,      \* history: turns, values confirmed, tendencies heard, and that the
             \* owner had the preference forgotten and has not spoken of it since
  crashes
memoryVars ==
  <<audit, card, snapshot, life, writer, threads, boot, episode, turns, saving, archive, wiki, said, crashes>>

NoRow == [stage |-> "none", evidence |-> 0]
NoRevision == [rev |-> 0, value |-> NoValue]
NotWriting == [next |-> "no", rev |-> NoRevision]
NoTurns == [said |-> 0, saved |-> 0, part |-> 0]
NoBoot == [pc |-> "off", stale |-> FALSE, value |-> NoValue]
ProposalEvidence_Mut == 2
ProposalEvidence == 3

MemoryInit ==
  /\ audit = NoRevision /\ card = NoRevision /\ snapshot = NoValue
  /\ life = [v \in Values |-> NoRow]
  /\ writer = NotWriting /\ threads = <<>> /\ boot = [b \in Boots |-> NoBoot]
  /\ episode = [there |-> FALSE, consolidated |-> FALSE, observed |-> 0]
  /\ turns = NoTurns /\ saving = 0 /\ archive = <<>>
  /\ wiki = [hash |-> NoValue, calls |-> {}]
  /\ said = [confirmed |-> {}, heard |-> [v \in Values |-> 0], turns |-> 0, forgot |-> FALSE]
  /\ crashes = 0

Free == writer.next = "no"
Files == <<audit, card, snapshot>>
Thoughts == <<threads, boot, episode>>
Transcript == <<turns, saving, archive>>

\* The current value, read from the cards, or without any from the snapshot's
\* lines; what is told to the model, the wiki and the lifecycle.
Current == IF card.rev = 0 THEN snapshot ELSE card.value

\* remember_completed_turn: the turn joins the transcript and is consolidated.
Remember(v, kind) ==
  /\ Free /\ said.turns < MaxTurns /\ Len(threads) < MaxThreads
  /\ said' = [said EXCEPT !.turns = @ + 1,
                          !.forgot = @ /\ kind = "revoke",
                          !.confirmed = IF kind = "set" THEN @ \cup {v} ELSE @,
                          !.heard[v] = IF kind = "tendency" THEN @ + 1 ELSE @]
  /\ turns' = [turns EXCEPT !.said = @ + 1]
  /\ threads' = IF kind = "tendency" THEN Append(threads, [pc |-> "read", value |-> v, row |-> NoRow]) ELSE threads
\* The start of persist_memory by then: four turns are not saved, none is saving.
PersistDue(t) == t.said - t.saved >= ChunkSize /\ saving = 0
Persist(t) == saving' = IF PersistDue(t) THEN t.said ELSE saving

Order_Mut == <<"card", "audit", "snapshot", "life", "wiki", "no">>
\* The order of _apply_memory_revision's writes and of what follows them.
Order == <<"audit", "card", "snapshot", "life", "wiki", "no">>
After(step) == CHOOSE next \in ToSet(Order) : \E i \in 1..5 : Order[i] = step /\ Order[i + 1] = next

\* An explicit directive or revocation: the revision is written to the files and
\* to SQLite, one after the other, before the loop does anything else.
Confirms(v, kind) ==
  /\ Remember(v, kind)
  /\ writer' = [next |-> Order[1], rev |-> [rev |-> audit.rev + 1, value |-> IF kind = "set" THEN v ELSE NoValue]]
  /\ Persist(turns')
  /\ UNCHANGED <<Files, life, boot, episode, archive, wiki, crashes>>
\* A directive or a correction sets the preference, a revocation removes it, and
\* a stated taste is an observation only.
Directs(v) == Confirms(v, "set")
Revokes(v) == Confirms(v, "revoke")
Tends(v) ==
  /\ Remember(v, "tendency")
  /\ Persist(turns')
  /\ UNCHANGED <<Files, life, writer, boot, episode, archive, wiki, crashes>>

Writes(step) == writer.next = step /\ writer' = [writer EXCEPT !.next = After(step)]
WritesAudit ==
  /\ Writes("audit") /\ audit' = writer.rev
  /\ UNCHANGED <<card, snapshot, life, Thoughts, Transcript, wiki, said, crashes>>
\* Each file is replaced whole, or not at all when the disk refuses: then the
\* rest is given up.
DiskFails ==
  /\ writer.next \in {"audit", "card", "snapshot"}
  /\ writer' = NotWriting
  /\ UNCHANGED <<Files, life, Thoughts, Transcript, wiki, said, crashes>>
WritesCard ==
  /\ Writes("card") /\ card' = writer.rev
  /\ UNCHANGED <<audit, snapshot, life, Thoughts, Transcript, wiki, said, crashes>>
WritesSnapshot ==
  /\ Writes("snapshot") /\ snapshot' = writer.rev.value
  /\ UNCHANGED <<audit, card, life, Thoughts, Transcript, wiki, said, crashes>>
\* activate_preference: one transaction that begins with a write.
Activate(v) == life' = [u \in Values |->
  IF u = v THEN [life[u] EXCEPT !.stage = "active", !.evidence = IF @ = 0 THEN 1 ELSE @]
  ELSE IF life[u].stage = "none" THEN NoRow ELSE [life[u] EXCEPT !.stage = "superseded"]]
Forget == life' = [v \in Values |-> NoRow]
\* A busy or broken database leaves the lifecycle behind; the files are kept.
WritesLife ==
  /\ Writes("life")
  /\ \/ writer.rev.value = NoValue /\ Forget /\ said' = [said EXCEPT !.forgot = TRUE]
     \/ writer.rev.value # NoValue /\ Activate(writer.rev.value) /\ UNCHANGED said
     \/ UNCHANGED <<life, said>>
  /\ UNCHANGED <<Files, Thoughts, Transcript, wiki, crashes>>
\* sync_confirmed_memory_to_wiki up to its call: not when the page was last told
\* the same.
StartsSync ==
  /\ Writes("wiki")
  /\ wiki' = IF Current = wiki.hash THEN wiki ELSE [wiki EXCEPT !.calls = @ \cup {Current}]
  /\ UNCHANGED <<Files, life, Thoughts, Transcript, said, crashes>>
SyncEnds(c) ==
  /\ c \in wiki.calls
  /\ \/ wiki' = [hash |-> c, calls |-> wiki.calls \ {c}]
     \/ wiki' = [wiki EXCEPT !.calls = @ \ {c}]
  /\ UNCHANGED <<Files, life, writer, Thoughts, Transcript, said, crashes>>

\* record_preference_candidate in a thread: the row is read before the
\* transaction begins, and written from what was read.
ThreadReads(i) ==
  /\ threads[i].pc = "read"
  /\ threads' = [threads EXCEPT ![i] = [threads[i] EXCEPT !.pc = "write", !.row = life[threads[i].value]]]
  /\ UNCHANGED <<Files, life, writer, boot, episode, Transcript, wiki, said, crashes>>
Observed(row) ==
  IF row.stage = "none" THEN [stage |-> "candidate", evidence |-> 1]
  ELSE IF row.stage \in {"active", "superseded"} THEN row
  ELSE [evidence |-> row.evidence + 1,
        stage |-> IF row.evidence + 1 >= ProposalEvidence THEN "proposed" ELSE "candidate"]
\* An INSERT of a row another thread has inserted meanwhile is refused, an
\* UPDATE of one forgotten meanwhile changes nothing.
ThreadWrites(i) ==
  /\ threads[i].pc = "write"
  /\ LET t == threads[i]
         old == life[t.value]
     IN life' = IF t.row.stage \in {"active", "superseded"} \/ (t.row = NoRow) # (old = NoRow) THEN life
                ELSE [life EXCEPT ![t.value] = Observed(t.row)]
  /\ threads' = RemoveAt(threads, i)
  /\ UNCHANGED <<Files, writer, boot, episode, Transcript, wiki, said, crashes>>

\* _bootstrap_local_memory in a thread of its own: the archive's exchanges are
\* recorded once by their key, consolidated, and every active card activated.
BootRecords(b) ==
  /\ boot[b].pc = "off"
  /\ episode' = [episode EXCEPT !.there = TRUE]
  /\ boot' = [boot EXCEPT ![b] = [NoBoot EXCEPT !.pc = "consolidate", !.stale = ~episode.consolidated]]
  /\ UNCHANGED <<Files, life, writer, threads, Transcript, wiki, said, crashes>>
BootConsolidates(b) ==
  /\ boot[b].pc = "consolidate"
  /\ episode' = IF boot[b].stale THEN [episode EXCEPT !.consolidated = TRUE, !.observed = @ + 1] ELSE episode
  /\ boot' = [boot EXCEPT ![b].pc = "cards"]
  /\ UNCHANGED <<Files, life, writer, threads, Transcript, wiki, said, crashes>>
\* The cards, which may be revised before they are activated here.
BootReadsCards(b) ==
  /\ boot[b].pc = "cards"
  /\ boot' = [boot EXCEPT ![b] = [boot[b] EXCEPT !.pc = "activate", !.value = Current]]
  /\ UNCHANGED <<Files, life, writer, threads, episode, Transcript, wiki, said, crashes>>
BootActivates(b) ==
  /\ boot[b].pc = "activate"
  /\ IF boot[b].value = NoValue THEN UNCHANGED life ELSE Activate(boot[b].value)
  /\ boot' = [boot EXCEPT ![b] = NoBoot]
  /\ UNCHANGED <<Files, writer, threads, episode, Transcript, wiki, said, crashes>>

\* OpenClaw stores the part under its number, or the call fails before or after
\* it did.
Saves ==
  /\ saving # 0
  /\ archive' = Append(SubSeq(archive, 1, turns.part), saving)
  /\ UNCHANGED <<Files, life, writer, Thoughts, turns, saving, wiki, said, crashes>>
Saved_Mut == [turns EXCEPT !.saved = turns.said, !.part = @ + 1]
\* What the chunk held is saved, not what was said while it was being saved.
Saved == [turns EXCEPT !.saved = saving, !.part = @ + 1]
SaveEnds ==
  /\ Free /\ saving # 0
  /\ \/ /\ turns.part < Len(archive) /\ Last(archive) = saving /\ turns' = Saved
     \/ UNCHANGED turns
  /\ saving' = 0
  /\ UNCHANGED <<Files, life, writer, Thoughts, archive, wiki, said, crashes>>

\* The session ends: the save under way is cancelled, what is left is saved.  The
\* bound: after the last turn.
Leaves ==
  /\ Free /\ turns.said > turns.saved /\ said.turns = MaxTurns
  /\ saving' = turns.said
  /\ UNCHANGED <<Files, life, writer, Thoughts, turns, archive, wiki, said, crashes>>

\* A stop of the process keeps the files, the database, the wiki and the archive.
Crash ==
  /\ crashes < MaxCrashes
  /\ crashes' = crashes + 1
  /\ writer' = NotWriting /\ threads' = <<>> /\ boot' = [b \in Boots |-> NoBoot]
  /\ turns' = NoTurns /\ saving' = 0 /\ archive' = <<>>
  /\ wiki' = [wiki EXCEPT !.hash = NoValue, !.calls = {}]
  /\ UNCHANGED <<Files, life, episode, said>>

MemoryNext ==
  \/ \E v \in Values : Directs(v) \/ Revokes(v) \/ Tends(v)
  \/ WritesAudit \/ WritesCard \/ WritesSnapshot \/ WritesLife \/ DiskFails \/ StartsSync
  \/ \E c \in wiki.calls : SyncEnds(c)
  \/ \E i \in DOMAIN threads : ThreadReads(i) \/ ThreadWrites(i)
  \/ \E b \in Boots : BootRecords(b) \/ BootConsolidates(b) \/ BootReadsCards(b) \/ BootActivates(b)
  \/ Saves \/ SaveEnds \/ Leaves \/ Crash
MemorySpec == MemoryInit /\ [][MemoryNext]_memoryVars

\* No card on disk is newer than the audit: a stop or a full disk between the
\* writes never leaves a preference in force without a record of its revision.
CardsFollowAudit == card.rev <= audit.rev

\* A preference is active only if the owner confirmed that value, and proposed
\* only after three turns spoke of it, whatever threads ran at once.
StagesNeedGrounds ==
  \A v \in Values :
    /\ life[v].stage = "active" => v \in said.confirmed
    /\ life[v].stage = "proposed" => said.heard[v] >= 3

\* The turns counted as saved are in the archive: a turn that ends while a part
\* is being saved is left for the next part.
SavedIsArchived == turns.part > 0 => turns.part <= Len(archive) /\ turns.saved <= archive[turns.part]

\* "Remove one preference's lifecycle so old evidence cannot resurrect it".
ForgottenStaysForgotten == said.forgot => \A v \in Values : life[v] = NoRow

\* "One-way local import of the previous JSONL archive, deduplicated by hash".
ConsolidatedOnce == episode.observed <= 1

\* With no call under way, the page kept as current is the current card.
WikiFollowsCard == Free /\ wiki.calls = {} /\ wiki.hash # NoValue => wiki.hash = card.value
=============================================================================
