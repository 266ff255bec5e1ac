----------------------------- MODULE TurnProofs -----------------------------
(* Theorems of Turn, for any texts and any number of queries, turns and      *)
(* speech blocks: while the owner picks a topic only when nothing runs, one  *)
(* query runs at a time, a newer turn silences the one before it, no speech  *)
(* of an older answer is played, the watchdog comes before the restart, a    *)
(* session with nothing left to run has told the HUD so, and a draft does    *)
(* not answer before its endpoint.                                           *)
EXTENDS Turn, FiniteSetTheorems, SequenceTheorems, WellFoundedInduction, TLAPS

Names == Texts \cup {NoText}
QueryType == [pc : Phases, draft : BOOLEAN, text : Names, out : BOOLEAN, tried : BOOLEAN,
              attempt : 0..3, left : 0..5]
CallerType == [pc : {"ready", "warm", "await", "replace"}, prev : 0..MaxQueries, text : Names]
MicType == [latest : Names, finished : Names, commit : {"zero", "held", "now"}, spec : 0..MaxQueries]
DogType == [pc : {"off", "watch", "gather"}, q : 0..MaxQueries, turn : Nat, quiet : 0..StallUnits]
Blocks == [turn : Nat, q : 0..MaxQueries]
SoundType == [queue : Seq(Blocks), item : Blocks]

\* The values of the variables.
Typed ==
  /\ turn \in Nat /\ cur \in 0..MaxQueries
  /\ choice \in BOOLEAN /\ owns \in BOOLEAN /\ dropped \in BOOLEAN
  /\ query \in [Query -> QueryType]
  /\ caller \in [{"rx", "draft"} -> CallerType]
  /\ mic \in MicType /\ dog \in DogType
  /\ sound \in SoundType /\ Len(sound.queue) <= MaxQueue + 1
  /\ status \in {"idle", "thinking"} /\ silenced \in SUBSET Query

Ended == {"unwind", "ended"}

\* One query runs at a time: the one in self.query_task.
OneQuery == Alive \subseteq {cur}

\* Only the receive loop waits for a query, for the cancelled one in query_task,
\* and a slot is kept for its successor; a draft is prepared while nothing runs.
Waits ==
  /\ caller["draft"].pc \in {"ready", "warm"}
  /\ caller["draft"].pc = "warm" => Alive = {} /\ caller["rx"].pc = "ready"
  /\ caller["rx"].pc \in {"await", "replace"} =>
       caller["rx"].prev = cur /\ cur \in Query /\ query[cur].pc \in Ended
  /\ caller["rx"].pc = "await" => \E q \in Query : query[q].pc = "none"

\* What was at work when the turn advanced has been cancelled.
Silences == \A q \in silenced : query[q].pc \in Ended

\* No block of speech and no watchdog is ahead of the turn.
Tagged ==
  /\ sound.item.turn <= turn /\ dog.turn <= turn
  /\ \A i \in DOMAIN sound.queue : sound.queue[i].turn <= turn

\* A query that has not asked the model has made no attempt.
Fresh == \A q \in Query : query[q].pc \in {"new", "route", "think"} => query[q].attempt = 0

\* The model is asked with deadlines only in a turn OpenClaw does not own.
Attempting(r) == (r.pc = "stream" /\ r.attempt # 0) \/ r.pc = "restart"
DeadlinesAreOurs == \A q \in Query : Attempting(query[q]) => ~owns

\* While it watches the query of the turn, the watchdog has counted at least the
\* units the attempts have taken.
Watched ==
  \A q \in Query : (dog.pc = "watch" /\ dog.q = q /\ dog.turn = turn /\ ~dropped) =>
    /\ query[q].pc # "restart"
    /\ query[q].pc = "stream" /\ query[q].attempt = 1 => dog.quiet + query[q].left >= 2
    /\ query[q].pc = "stream" /\ query[q].attempt = 2 => dog.quiet + query[q].left >= 5

IInv ==
  /\ Typed /\ OneQuery /\ Waits /\ Silences /\ Tagged /\ NoStaleSpeech
  /\ Fresh /\ DeadlinesAreOurs /\ Watched

-----------------------------------------------------------------------------
(***************************************************************************)
(* The records: what a query is when fields of it are set.                 *)
(***************************************************************************)
LEMMA FieldSet ==
  ASSUME NEW r \in QueryType, NEW x
  PROVE  /\ [r EXCEPT !.pc = x] =
              [pc |-> x, draft |-> r.draft, text |-> r.text, out |-> r.out, tried |-> r.tried,
               attempt |-> r.attempt, left |-> r.left]
         /\ [r EXCEPT !.draft = x] =
              [pc |-> r.pc, draft |-> x, text |-> r.text, out |-> r.out, tried |-> r.tried,
               attempt |-> r.attempt, left |-> r.left]
         /\ [r EXCEPT !.text = x] =
              [pc |-> r.pc, draft |-> r.draft, text |-> x, out |-> r.out, tried |-> r.tried,
               attempt |-> r.attempt, left |-> r.left]
         /\ [r EXCEPT !.out = x] =
              [pc |-> r.pc, draft |-> r.draft, text |-> r.text, out |-> x, tried |-> r.tried,
               attempt |-> r.attempt, left |-> r.left]
         /\ [r EXCEPT !.tried = x] =
              [pc |-> r.pc, draft |-> r.draft, text |-> r.text, out |-> r.out, tried |-> x,
               attempt |-> r.attempt, left |-> r.left]
         /\ [r EXCEPT !.attempt = x] =
              [pc |-> r.pc, draft |-> r.draft, text |-> r.text, out |-> r.out, tried |-> r.tried,
               attempt |-> x, left |-> r.left]
         /\ [r EXCEPT !.left = x] =
              [pc |-> r.pc, draft |-> r.draft, text |-> r.text, out |-> r.out, tried |-> r.tried,
               attempt |-> r.attempt, left |-> x]
  BY DEF QueryType

\* Setting one field of a query of the right kind keeps the others.
LEMMA PhaseSet ==
  ASSUME NEW r \in QueryType, NEW pc \in Phases
  PROVE  LET n == [r EXCEPT !.pc = pc]
         IN  n \in QueryType /\ n.pc = pc /\ n.attempt = r.attempt /\ n.left = r.left
  BY FieldSet DEF QueryType

LEMMA FlagSet ==
  ASSUME NEW r \in QueryType, NEW b \in BOOLEAN
  PROVE  /\ LET n == [r EXCEPT !.out = b]
            IN  n \in QueryType /\ n.pc = r.pc /\ n.attempt = r.attempt /\ n.left = r.left
         /\ LET n == [r EXCEPT !.tried = b]
            IN  n \in QueryType /\ n.pc = r.pc /\ n.attempt = r.attempt /\ n.left = r.left
         /\ LET n == [r EXCEPT !.draft = b]
            IN  n \in QueryType /\ n.pc = r.pc /\ n.attempt = r.attempt /\ n.left = r.left
  BY FieldSet DEF QueryType

LEMMA ClockSet ==
  ASSUME NEW r \in QueryType, NEW a \in 0..3, NEW l \in 0..5
  PROVE  /\ LET n == [r EXCEPT !.attempt = a]
            IN  n \in QueryType /\ n.pc = r.pc /\ n.attempt = a /\ n.left = r.left
         /\ LET n == [r EXCEPT !.left = l]
            IN  n \in QueryType /\ n.pc = r.pc /\ n.attempt = r.attempt /\ n.left = l
  BY FieldSet DEF QueryType

LEMMA TextSet ==
  ASSUME NEW r \in QueryType, NEW t \in Names
  PROVE  LET n == [r EXCEPT !.text = t]
         IN  n \in QueryType /\ n.pc = r.pc /\ n.attempt = r.attempt /\ n.left = r.left
  BY FieldSet DEF QueryType

\* The updates the actions make.
LEMMA PhaseOutSet ==
  ASSUME NEW r \in QueryType, NEW pc \in Phases
  PROVE  LET n == [r EXCEPT !.pc = pc, !.out = TRUE]
         IN  n \in QueryType /\ n.pc = pc /\ n.attempt = r.attempt /\ n.left = r.left
<1> DEFINE a == [r EXCEPT !.pc = pc]
           n == [r EXCEPT !.pc = pc, !.out = TRUE]
<1>1. a \in QueryType /\ a.pc = pc /\ a.attempt = r.attempt /\ a.left = r.left
  BY PhaseSet
<1>2. n = [a EXCEPT !.out = TRUE]
  BY DEF QueryType
<1> HIDE DEF a, n
<1>3. n \in QueryType /\ n.pc = a.pc /\ n.attempt = a.attempt /\ n.left = a.left
  BY <1>1, <1>2, FlagSet
<1> QED BY <1>1, <1>3 DEF n

Begun(r, b) == [r EXCEPT !.pc = "think", !.tried = TRUE, !.out = b]

LEMMA BeginSet ==
  ASSUME NEW r \in QueryType, NEW b \in BOOLEAN
  PROVE  LET n == Begun(r, b)
         IN  n \in QueryType /\ n.pc = "think" /\ n.attempt = r.attempt
<1> DEFINE a == [r EXCEPT !.pc = "think"]
           c == [a EXCEPT !.tried = TRUE]
           n == Begun(r, b)
<1>1. a \in QueryType /\ a.pc = "think" /\ a.attempt = r.attempt
  BY PhaseSet DEF Phases
<1>2. c \in QueryType /\ c.pc = "think" /\ c.attempt = r.attempt
  <2> HIDE DEF a
  <2> QED BY <1>1, FlagSet
<1>3. n = [c EXCEPT !.out = b]
  BY DEF QueryType, Begun
<1> HIDE DEF c, n
<1>4. n \in QueryType /\ n.pc = c.pc /\ n.attempt = c.attempt
  BY <1>2, <1>3, FlagSet
<1> QED BY <1>2, <1>4 DEF n

Attempted(r, a) == [r EXCEPT !.pc = "stream", !.attempt = a, !.left = FirstDelta[a]]

LEMMA AttemptSet ==
  ASSUME NEW r \in QueryType, NEW a \in 1..3
  PROVE  LET n == Attempted(r, a)
         IN  n \in QueryType /\ n.pc = "stream" /\ n.attempt = a /\ n.left = FirstDelta[a]
<1> DEFINE c == [r EXCEPT !.pc = "stream"]
           d == [c EXCEPT !.attempt = a]
           n == Attempted(r, a)
<1>0. "stream" \in Phases /\ a \in 0..3 /\ FirstDelta[a] \in 0..5
  BY DEF Phases, FirstDelta
<1>1. c \in QueryType /\ c.pc = "stream"
  BY <1>0, PhaseSet
<1>2. d \in QueryType /\ d.pc = "stream" /\ d.attempt = a
  <2> HIDE DEF c
  <2> QED BY <1>0, <1>1, ClockSet
<1>3. n = [d EXCEPT !.left = FirstDelta[a]]
  BY DEF QueryType, Attempted
<1> HIDE DEF d, n
<1>4. n \in QueryType /\ n.pc = d.pc /\ n.attempt = d.attempt /\ n.left = FirstDelta[a]
  BY <1>0, <1>2, <1>3, ClockSet
<1> QED BY <1>2, <1>4 DEF n

\* The records queries start from and end as.
LEMMA Blank ==
  /\ Unused \in QueryType /\ Unused.pc = "none"
  /\ Over \in QueryType /\ Over.pc = "ended"
  /\ \A b \in BOOLEAN, t \in Names :
       LET n == [Unused EXCEPT !.pc = "new", !.draft = b, !.text = t]
       IN  n \in QueryType /\ n.pc = "new" /\ n.attempt = 0
  /\ LET n == [Unused EXCEPT !.pc = "local", !.out = TRUE]
     IN  n \in QueryType /\ n.pc = "local" /\ n.attempt = 0
<1>1. Unused \in QueryType /\ Unused.pc = "none" /\ Unused.attempt = 0
  BY DEF Unused, QueryType, Names, Phases
<1>2. {"ended", "new", "local"} \subseteq Phases
  BY DEF Phases
<1> HIDE DEF Unused
<1>3. Over \in QueryType /\ Over.pc = "ended"
  BY <1>1, <1>2, PhaseSet DEF Over
<1>4. ASSUME NEW b \in BOOLEAN, NEW t \in Names
      PROVE  LET n == [Unused EXCEPT !.pc = "new", !.draft = b, !.text = t]
             IN  n \in QueryType /\ n.pc = "new" /\ n.attempt = 0
  <2> DEFINE c == [Unused EXCEPT !.pc = "new"]
             d == [c EXCEPT !.draft = b]
             n == [Unused EXCEPT !.pc = "new", !.draft = b, !.text = t]
  <2>1. c \in QueryType /\ c.pc = "new" /\ c.attempt = 0
    BY <1>1, <1>2, PhaseSet
  <2>2. d \in QueryType /\ d.pc = "new" /\ d.attempt = 0
    <3> HIDE DEF c
    <3> QED BY <2>1, FlagSet
  <2>3. n = [d EXCEPT !.text = t]
    BY <1>1 DEF QueryType
  <2> HIDE DEF d, n
  <2>4. n \in QueryType /\ n.pc = d.pc /\ n.attempt = d.attempt
    BY <2>2, <2>3, TextSet
  <2> QED BY <2>2, <2>4 DEF n
<1>5. LET n == [Unused EXCEPT !.pc = "local", !.out = TRUE] IN n \in QueryType /\ n.pc = "local" /\ n.attempt = 0
  BY <1>1, <1>2, PhaseOutSet
<1> QED BY <1>1, <1>3, <1>4, <1>5

\* Task.cancel: over at once or unwinding, a query that is at work.
LEMMA Cancels ==
  ASSUME NEW r \in QueryType, r.pc \notin {"none", "ended"}
  PROVE  Cancelled(r) \in QueryType /\ Cancelled(r).pc \in Ended
<1>1. "unwind" \in Phases
  BY DEF Phases
<1>2. CASE r.pc = "new"
  BY <1>2, Blank DEF Cancelled, Ended
<1>3. CASE r.pc # "new"
  <2>1. Cancelled(r) = [r EXCEPT !.pc = "unwind"]
    BY <1>3 DEF Cancelled
  <2> QED BY <1>1, <2>1, PhaseSet DEF Ended
<1> QED BY <1>2, <1>3

-----------------------------------------------------------------------------
(***************************************************************************)
(* The slots: while there is room for a query there is a first free one.   *)
(***************************************************************************)
LEMMA FirstSlot ==
  ASSUME \E q \in Query : query[q].pc = "none"
  PROVE  Next1 \in Query /\ query[Next1].pc = "none"
<1> DEFINE T == {q \in Query : query[q].pc = "none"}
<1>1. T \subseteq Nat /\ T # {}
  BY TurnAssumption DEF Query
<1>2. PICK q \in T : \A p \in T : ~(<<p, q>> \in OpToRel(<, Nat))
  <2> HIDE DEF T
  <2> QED BY <1>1, WFMin, NatLessThanWellFounded
<1>3. \A p \in T : ~(p < q)
  BY <1>1, <1>2 DEF OpToRel
<1>4. \A p \in 1..(q - 1) : query[p].pc # "none"
  BY <1>1, <1>3, TurnAssumption DEF Query
<1>5. \E s \in Query : query[s].pc = "none" /\ \A p \in 1..(s - 1) : query[p].pc # "none"
  BY <1>4
<1> QED BY <1>5 DEF Next1

LEMMA RoomForOne ==
  ASSUME Typed, Room
  PROVE  \E q \in Query : query[q].pc = "none"
<1> DEFINE U == {q \in Query : query[q].pc # "none"}
<1>1. IsFiniteSet(Query) /\ Cardinality(Query) = MaxQueries
  BY FS_Interval, TurnAssumption DEF Query
<1>2. IsFiniteSet(Waiting) /\ Cardinality(Waiting) \in Nat
  <2>1. IsFiniteSet({"rx", "draft"})
    <3>1. IsFiniteSet({"rx"})
      BY FS_Singleton
    <3>2. IsFiniteSet({"rx"} \cup {"draft"})
      BY <3>1, FS_AddElement
    <3>3. {"rx", "draft"} = {"rx"} \cup {"draft"}
      OBVIOUS
    <3> QED BY <3>2, <3>3
  <2>2. Waiting \in SUBSET {"rx", "draft"}
    BY DEF Waiting, Typed
  <2> QED BY <2>1, <2>2, FS_Subset, FS_CardinalityType
<1>3. Cardinality(U) + Cardinality(Waiting) < MaxQueries
  BY DEF Room
<1>4. IsFiniteSet(U) /\ Cardinality(U) \in Nat
  BY <1>1, FS_Subset, FS_CardinalityType
<1>5. U # Query
  BY <1>1, <1>2, <1>3, <1>4, TurnAssumption
<1> QED BY <1>5

-----------------------------------------------------------------------------
(***************************************************************************)
(* What a query does in a step of its own: it stays at work or ends, a     *)
(* cancelled one only ends, and only one that is not cancelled is heard,   *)
(* under the turn number of the moment or a new one.                       *)
(***************************************************************************)
Others == choice' \in BOOLEAN /\ owns' \in BOOLEAN /\ status' \in {"idle", "thinking"} /\ mic' \in MicType

Moves(q) ==
  \E r \in QueryType :
    /\ query' = [query EXCEPT ![q] = r] /\ r.pc # "none"
    /\ query[q].pc = "unwind" => r.pc \in Ended

Voices(q) ==
  /\ query[q].pc # "unwind"
  /\ \/ /\ turn' = turn /\ Len(sound.queue) < MaxQueue
        /\ sound' = [sound EXCEPT !.queue = Append(@, [turn |-> turn, q |-> q])]
     \/ turn' = turn + 1 /\ sound' = [sound EXCEPT !.queue = <<[turn |-> turn + 1, q |-> q]>>]

Works(q) ==
  /\ q \in Alive /\ Moves(q)
  /\ UNCHANGED <<cur, silenced, dropped>>
  /\ caller' \in {caller, DraftCancelled}
  /\ dog' \in {dog, [dog EXCEPT !.quiet = 0]}
  /\ (turn' = turn /\ sound' = sound) \/ Voices(q)
  /\ Others

LEMMA Typing ==
  ASSUME Typed, NEW q \in Query
  PROVE  /\ query[q] \in QueryType /\ query[q].pc \in Phases /\ mic \in MicType
         /\ choice \in BOOLEAN /\ owns \in BOOLEAN /\ status \in {"idle", "thinking"}
         /\ q \in 0..MaxQueries
  BY TurnAssumption DEF Typed, QueryType, Query

LEMMA ToWorks ==
  ASSUME Typed, NEW q \in Alive, NEW pc \in Phases \ {"none"}, query[q].pc # "unwind" \/ pc \in Ended,
         To(q, pc)
  PROVE  Moves(q)
<1>1. q \in Query /\ query[q] \in QueryType
  BY Typing DEF Alive
<1> DEFINE r == [query[q] EXCEPT !.pc = pc]
<1>2. r \in QueryType /\ r.pc = pc
  BY <1>1, PhaseSet
<1>3. query' = [query EXCEPT ![q] = r]
  BY DEF To, Set
<1> HIDE DEF r
<1> QED BY <1>2, <1>3 DEF Moves

LEMMA MicForgets ==
  ASSUME NEW q, mic \in MicType
  PROVE  [mic EXCEPT !.latest = NoText, !.spec = IF @ = q THEN 0 ELSE @] \in MicType
<1>1. CASE mic.spec = q
  <2>1. NoText \in Names /\ 0 \in 0..MaxQueries
    BY TurnAssumption DEF Names
  <2>0. [mic EXCEPT !.latest = NoText, !.spec = 0] \in MicType
    BY <2>1 DEF MicType
  <2>2. [mic EXCEPT !.latest = NoText, !.spec = IF @ = q THEN 0 ELSE @] =
          [mic EXCEPT !.latest = NoText, !.spec = 0]
    BY <1>1
  <2> QED BY <2>0, <2>2
<1>2. CASE mic.spec # q
  BY <1>2, TurnAssumption DEF MicType, Names
<1> QED BY <1>1, <1>2

LEMMA EndsWork ==
  ASSUME Typed, NEW q \in Alive, Ends(q)
  PROVE  Works(q)
<1>1. Moves(q)
  BY Blank DEF Moves, Ends, Set, Ended
<1>2. mic' \in MicType
  BY MicForgets DEF Ends, Typed
<1>3. caller' \in {caller, DraftCancelled} /\ status' \in {"idle", "thinking"}
  BY DEF Ends, Typed
<1> QED BY <1>1, <1>2, <1>3 DEF Works, Ends, Others, Typed

LEMMA NoticeWorks ==
  ASSUME Typed, NEW q \in Alive, query[q].pc # "unwind", Notice(q), owns' \in BOOLEAN
  PROVE  Works(q)
<1>1. q \in Query /\ query[q] \in QueryType
  BY Typing DEF Alive
<1>2. Moves(q)
  <2> DEFINE r == [query[q] EXCEPT !.pc = "notice", !.out = TRUE]
  <2>1. r \in QueryType /\ r.pc = "notice"
    BY <1>1, PhaseOutSet DEF Phases
  <2>2. query' = [query EXCEPT ![q] = r]
    BY DEF Notice, Set
  <2> HIDE DEF r
  <2> QED BY <2>1, <2>2 DEF Moves
<1>3. mic' \in MicType
  BY TurnAssumption DEF Notice, MicType, Names, Typed
<1> QED BY <1>2, <1>3 DEF Works, Notice, Others, Typed, Progress, Voices

LEMMA ShowsWorks ==
  ASSUME Typed, NEW q \in Alive, NEW pc \in Phases \ {"none"}, query[q].pc # "unwind", Shows(q, pc)
  PROVE  Works(q)
<1>1. q \in Query /\ query[q] \in QueryType
  BY Typing DEF Alive
<1>2. Moves(q)
  <2> DEFINE r == [query[q] EXCEPT !.pc = pc, !.out = TRUE]
  <2>1. r \in QueryType /\ r.pc = pc
    BY <1>1, PhaseOutSet
  <2>2. query' = [query EXCEPT ![q] = r]
    BY DEF Shows, Set
  <2> HIDE DEF r
  <2> QED BY <2>1, <2>2 DEF Moves
<1>3. mic' \in MicType
  BY TurnAssumption DEF Shows, MicType, Names, Typed
<1>4. status' \in {"idle", "thinking"}
  BY DEF Shows, Typed
<1> QED BY <1>2, <1>3, <1>4 DEF Works, Shows, Others, Typed, Progress

LEMMA HostWorks ==
  ASSUME Typed, NEW q \in Query, HostStep(q)
  PROVE  Works(q)
<1> USE DEF Others
<1>0. /\ query[q] \in QueryType /\ mic \in MicType /\ choice \in BOOLEAN /\ owns \in BOOLEAN
      /\ status \in {"idle", "thinking"}
  BY Typing
<1>1. CASE Routes(q)
  <2>1. q \in Alive /\ query[q].pc # "unwind" /\ To(q, "route")
    BY <1>1 DEF Routes, Alive
  <2>2. Moves(q)
    BY <2>1, ToWorks DEF Phases
  <2> QED BY <1>0, <1>1, <2>1, <2>2 DEF Routes, Quietly, Works
<1>2. CASE OffersPlan(q)
  <2>1. q \in Alive /\ query[q].pc # "unwind" /\ Moves(q)
    BY <1>2, Blank DEF OffersPlan, Alive, Moves, Set
  <2> QED BY <1>0, <1>2, <2>1 DEF OffersPlan, Works
<1>3. CASE Refuses(q)
  <2>1. q \in Alive /\ query[q].pc # "unwind"
    BY <1>3 DEF Refuses, Entering, Alive
  <2>2. CASE query[q].draft
    <3>1. Moves(q)
      BY <1>3, <2>2, Blank DEF Refuses, Moves, Set, Ended
    <3> QED BY <1>0, <1>3, <2>1, <2>2, <3>1 DEF Refuses, Works
  <2>3. CASE ~query[q].draft
    <3>1. Notice(q) /\ owns' \in BOOLEAN
      BY <1>3, <2>3 DEF Refuses
    <3> QED BY <2>1, <3>1, NoticeWorks
  <2> QED BY <2>2, <2>3
<1>4. CASE Begins(q)
  <2>1. q \in Alive /\ query[q].pc # "unwind"
    BY <1>4 DEF Begins, Entering, Alive
  <2>2. Moves(q)
    <3>1. query' = [query EXCEPT ![q] = Begun(query[q], ~query[q].draft)]
      BY <1>4 DEF Begins, Set, Begun
    <3>2. LET r == Begun(query[q], ~query[q].draft) IN r \in QueryType /\ r.pc = "think"
      BY <1>0, BeginSet
    <3> QED BY <2>1, <3>1, <3>2 DEF Moves
  <2>3. mic' \in MicType
    BY <1>4, TurnAssumption DEF Begins, MicType, Names, Typed, Query
  <2>4. owns' \in BOOLEAN /\ status' \in {"idle", "thinking"}
    BY <1>0, <1>4 DEF Begins
  <2> QED BY <1>0, <1>4, <2>1, <2>2, <2>3, <2>4 DEF Begins, Works, Progress
<1>5. CASE Local(q) \/ Commits(q)
  <2>1. q \in Alive /\ query[q].pc # "unwind"
    BY <1>5 DEF Local, Commits, Alive
  <2>2. Shows(q, "local") \/ Shows(q, "speak")
    BY <1>5 DEF Local, Commits
  <2> QED BY <2>1, <2>2, ShowsWorks DEF Phases
<1>6. CASE LocalAnswers(q)
  <2>1. q \in Alive /\ query[q].pc # "unwind" /\ To(q, "drain")
    BY <1>6 DEF LocalAnswers, Alive
  <2>2. Moves(q)
    BY <2>1, ToWorks DEF Phases
  <2>3. (turn' = turn /\ sound' = sound) \/ Voices(q)
    BY <1>6, <2>1 DEF LocalAnswers, Voices, Say
  <2>4. choice' \in BOOLEAN
    BY <1>0, <1>6 DEF LocalAnswers
  <2> QED BY <1>0, <1>6, <2>1, <2>2, <2>3, <2>4 DEF LocalAnswers, Works, Progress
<1>7. CASE LocalFails(q)
  <2>1. q \in Alive /\ query[q].pc # "unwind" /\ Notice(q) /\ owns' \in BOOLEAN
    BY <1>0, <1>7 DEF LocalFails, Notice, Alive
  <2> QED BY <2>1, NoticeWorks
<1>8. CASE Asks(q)
  <2>1. q \in Alive /\ query[q].pc # "unwind"
    BY <1>8 DEF Asks, Alive
  <2>2. Moves(q)
    <3>1. CASE owns
      <4>1. To(q, "stream")
        BY <1>8, <3>1 DEF Asks, To
      <4> QED BY <2>1, <4>1, ToWorks DEF Phases
    <3>2. CASE ~owns
      <4>1. query' = [query EXCEPT ![q] = Attempted(query[q], 1)]
        BY <1>8, <3>2 DEF Asks, Set, Attempted
      <4>2. Attempted(query[q], 1) \in QueryType /\ Attempted(query[q], 1).pc = "stream"
        BY <1>0, AttemptSet
      <4> QED BY <2>1, <4>1, <4>2 DEF Moves
    <3> QED BY <3>1, <3>2
  <2> QED BY <1>0, <1>8, <2>1, <2>2 DEF Asks, Quietly, Works
<1>9. CASE FirstDeltaLate(q) \/ GatewayRestarted(q)
  <2>1. q \in Alive /\ query[q].pc # "unwind"
    BY <1>9 DEF FirstDeltaLate, GatewayRestarted, Due, Alive
  <2>2. CASE Notice(q) /\ owns' \in BOOLEAN
    BY <2>1, <2>2, NoticeWorks
  <2>3. CASE To(q, "restart") /\ Quietly
    <3>1. Moves(q)
      BY <2>1, <2>3, ToWorks DEF Phases
    <3> QED BY <1>0, <2>1, <2>3, <3>1 DEF Quietly, Works
  <2>4. CASE (\E n \in {2, 3} : Attempt(q, n)) /\ Quietly
    <3>1. PICK n \in {2, 3} : query' = [query EXCEPT ![q] = Attempted(query[q], n)]
      BY <2>4 DEF Attempt, Set, Attempted
    <3>2. Attempted(query[q], n) \in QueryType /\ Attempted(query[q], n).pc = "stream"
      BY <1>0, AttemptSet
    <3>5. Moves(q)
      BY <2>1, <3>1, <3>2 DEF Moves
    <3> QED BY <1>0, <2>1, <2>4, <3>5 DEF Quietly, Works
  <2> QED BY <1>0, <1>9, <2>2, <2>3, <2>4 DEF FirstDeltaLate, GatewayRestarted, Notice
<1>10. CASE Finishes(q) \/ Unwinds(q)
  <2>1. q \in Alive /\ Ends(q)
    BY <1>10 DEF Finishes, Unwinds, Alive
  <2> QED BY <2>1, EndsWork
<1>11. CASE NoticeEnds(q)
  <2>1. q \in Alive /\ query[q].pc # "unwind" /\ Moves(q)
    BY <1>11, Blank DEF NoticeEnds, Alive, Moves, Set
  <2>2. mic' \in MicType /\ caller' \in {caller, DraftCancelled}
    BY <1>0, <1>11, MicForgets DEF NoticeEnds
  <2> QED BY <1>0, <1>11, <2>1, <2>2 DEF NoticeEnds, Works
<1> QED BY <1>1, <1>2, <1>3, <1>4, <1>5, <1>6, <1>7, <1>8, <1>9, <1>10, <1>11 DEF HostStep

LEMMA ModelWorks ==
  ASSUME Typed, NEW q \in Query, ModelStep(q)
  PROVE  Works(q)
<1> USE DEF Others
<1>0. /\ query[q] \in QueryType /\ mic \in MicType /\ choice \in BOOLEAN /\ owns \in BOOLEAN
      /\ status \in {"idle", "thinking"}
  BY Typing
<1>1. q \in Alive /\ query[q].pc # "unwind"
  BY DEF ModelStep, Delta, Speaks, StreamEnds, StreamFails, Streaming, Hangs, Alive
<1>2. CASE Delta(q)
  <2>1. PICK pc \in {"speak", "hold"} : To(q, pc)
    BY <1>2 DEF Delta
  <2>2. Moves(q)
    BY <1>1, <2>1, ToWorks DEF Phases
  <2> QED BY <1>0, <1>1, <1>2, <2>2 DEF Delta, Quietly, Works
<1>3. CASE Speaks(q)
  <2>1. Moves(q)
    <3>1. query' = [query EXCEPT ![q] = query[q]]
      BY <1>3 DEF Speaks, Typed
    <3> QED BY <1>0, <1>1, <3>1 DEF Moves, Alive
  <2>2. Voices(q)
    BY <1>1, <1>3 DEF Speaks, Voices, Say
  <2> QED BY <1>0, <1>1, <1>3, <2>1, <2>2 DEF Speaks, Works, Progress
<1>4. CASE StreamEnds(q)
  <2>1. Moves(q)
    BY <1>1, <1>4, ToWorks DEF StreamEnds, Phases
  <2>2. mic' \in MicType
    BY <1>0, <1>4 DEF StreamEnds, MicType, QueryType
  <2> QED BY <1>0, <1>1, <1>4, <2>1, <2>2 DEF StreamEnds, Works
<1>5. CASE StreamFails(q)
  <2>1. CASE Ends(q)
    BY <1>1, <2>1, EndsWork
  <2>2. CASE Notice(q)
    BY <1>0, <1>1, <2>2, NoticeWorks DEF Notice
  <2> QED BY <1>5, <2>1, <2>2 DEF StreamFails
<1>6. CASE Hangs(q)
  <2>1. Moves(q)
    BY <1>1, <1>6, ToWorks DEF Hangs, Phases
  <2> QED BY <1>0, <1>1, <1>6, <2>1 DEF Hangs, Quietly, Works
<1> QED BY <1>2, <1>3, <1>4, <1>5, <1>6 DEF ModelStep

-----------------------------------------------------------------------------
(***************************************************************************)
(* Sequences of blocks.                                                    *)
(***************************************************************************)
\* Appending to a sequence and taking its tail, index by index.
LEMMA AppendFacts ==
  ASSUME NEW S, NEW q \in Seq(S), NEW e \in S
  PROVE  /\ Append(q, e) \in Seq(S)
         /\ DOMAIN Append(q, e) = 1 .. Len(q) + 1
         /\ \A i \in DOMAIN q : i \in DOMAIN Append(q, e) /\ Append(q, e)[i] = q[i]
         /\ Append(q, e)[Len(q) + 1] = e
         /\ \A i \in DOMAIN q : i < Len(q) + 1
         /\ \A i \in DOMAIN Append(q, e) : i \in DOMAIN q \/ i = Len(q) + 1
  OBVIOUS

LEMMA TailFacts ==
  ASSUME NEW S, NEW q \in Seq(S), q # <<>>
  PROVE  /\ Tail(q) \in Seq(S)
         /\ Head(q) \in S
         /\ Head(q) = q[1] /\ 1 \in DOMAIN q
         /\ \A i \in DOMAIN Tail(q) : i + 1 \in DOMAIN q /\ Tail(q)[i] = q[i + 1]
         /\ \A i \in DOMAIN q : i > 1 => i - 1 \in DOMAIN Tail(q) /\ Tail(q)[i - 1] = q[i]
<1>1. /\ Head(q) = q[1] /\ Len(q) \in Nat \ {0} /\ DOMAIN q = 1 .. Len(q)
  BY EmptySeq, LenProperties
<1>2. /\ Tail(q) \in Seq(S) /\ Head(q) \in S
      /\ Len(Tail(q)) = Len(q) - 1
      /\ \A i \in 1 .. Len(Tail(q)) : Tail(q)[i] = q[i + 1]
  BY HeadTailProperties
<1>3. DOMAIN Tail(q) = 1 .. Len(Tail(q))
  BY <1>2, LenProperties
<1> QED
  BY <1>1, <1>2, <1>3


-----------------------------------------------------------------------------
(***************************************************************************)
(* The speech queue: no block is ahead of the turn, and none of the turn   *)
(* belongs to a silenced query.                                            *)
(***************************************************************************)
\* The turn advances, what was queued is dropped or left to the older turn.
LEMMA SoundTurns ==
  ASSUME Typed, Tagged, turn' = turn + 1,
         sound' \in {sound, [sound EXCEPT !.queue = <<>>]}
  PROVE  /\ sound' \in SoundType /\ Len(sound'.queue) <= MaxQueue + 1
         /\ sound'.item.turn < turn'
         /\ \A i \in DOMAIN sound'.queue : sound'.queue[i].turn < turn'
<1>0. turn \in Nat /\ sound \in SoundType /\ Len(sound.queue) <= MaxQueue + 1 /\ sound.item.turn \in Nat
  BY DEF Typed, SoundType, Blocks
<1>1. CASE sound' = sound
  <2>1. \A i \in DOMAIN sound.queue : sound.queue[i] \in Blocks
    BY <1>0 DEF SoundType
  <2> QED BY <1>0, <1>1, <2>1 DEF Tagged, Blocks
<1>2. CASE sound' = [sound EXCEPT !.queue = <<>>]
  <2>1. sound' = [queue |-> <<>>, item |-> sound.item]
    BY <1>0, <1>2 DEF SoundType
  <2>2. <<>> \in Seq(Blocks) /\ Len(<<>>) = 0 /\ DOMAIN <<>> = {}
    OBVIOUS
  <2> QED BY <1>0, <2>1, <2>2, TurnAssumption DEF Tagged, SoundType
<1> QED BY <1>1, <1>2

\* A query that is at work is heard under the turn of the moment or a new one.
LEMMA SoundSpeaks ==
  ASSUME Typed, Tagged, NoStaleSpeech, NEW q \in Query, q \notin silenced, Voices(q), silenced' = silenced
  PROVE  /\ turn' \in Nat /\ turn' >= turn /\ sound' \in SoundType /\ Len(sound'.queue) <= MaxQueue + 1
         /\ sound'.item.turn <= turn'
         /\ \A i \in DOMAIN sound'.queue : sound'.queue[i].turn <= turn'
         /\ NoStaleSpeech'
<1>0. /\ turn \in Nat /\ sound \in SoundType /\ sound.item \in Blocks /\ sound.queue \in Seq(Blocks)
      /\ q \in 0..MaxQueries
  BY Typing DEF Typed, SoundType
<1>00. MaxQueue \in Nat /\ Len(sound.queue) \in Nat
  BY <1>0, TurnAssumption
<1>1. CASE /\ turn' = turn /\ Len(sound.queue) < MaxQueue
           /\ sound' = [sound EXCEPT !.queue = Append(@, [turn |-> turn, q |-> q])]
  <2> DEFINE b == [turn |-> turn, q |-> q]
             s == Append(sound.queue, b)
  <2>1. b \in Blocks /\ b.turn = turn /\ b.q = q
    BY <1>0 DEF Blocks
  <2>2. sound' = [queue |-> s, item |-> sound.item]
    BY <1>0, <1>1 DEF SoundType
  <2>3. s \in Seq(Blocks) /\ Len(s) = Len(sound.queue) + 1
    BY <1>0, <2>1 DEF SoundType
  <2>4. \A i \in DOMAIN s : (i \in DOMAIN sound.queue /\ s[i] = sound.queue[i]) \/ s[i] = b
    BY <1>0, <2>1, AppendFacts
  <2> HIDE DEF b, s
  <2>5. sound' \in SoundType /\ Len(sound'.queue) <= MaxQueue + 1
    <3>1. sound'.queue = s /\ Len(s) <= MaxQueue + 1
      BY <1>00, <1>1, <2>2, <2>3
    <3>2. sound' \in SoundType
      BY <1>0, <2>2, <2>3 DEF SoundType
    <3> QED BY <3>1, <3>2
  <2>6. \A i \in DOMAIN s : s[i].turn <= turn /\ (s[i].turn = turn => s[i].q \notin silenced)
    <3> SUFFICES ASSUME NEW i \in DOMAIN s
                 PROVE  s[i].turn <= turn /\ (s[i].turn = turn => s[i].q \notin silenced)
      OBVIOUS
    <3>1. CASE s[i] = b
      BY <1>0, <2>1, <3>1
    <3>2. CASE i \in DOMAIN sound.queue /\ s[i] = sound.queue[i]
      BY <3>2 DEF Tagged, NoStaleSpeech
    <3> QED BY <2>4, <3>1, <3>2
  <2>7. sound.item.turn <= turn /\ (sound.item.turn = turn => sound.item.q \notin silenced)
    BY DEF Tagged, NoStaleSpeech
  <2>8. NoStaleSpeech'
    BY <1>1, <2>2, <2>6, <2>7 DEF NoStaleSpeech
  <2> QED BY <1>0, <1>1, <2>2, <2>5, <2>6, <2>7, <2>8
<1>2. CASE turn' = turn + 1 /\ sound' = [sound EXCEPT !.queue = <<[turn |-> turn + 1, q |-> q]>>]
  <2> DEFINE b == [turn |-> turn + 1, q |-> q]
             s == <<b>>
  <2>1. b \in Blocks /\ b.turn = turn + 1 /\ b.q = q
    BY <1>0 DEF Blocks
  <2>2. sound' = [queue |-> s, item |-> sound.item]
    BY <1>0, <1>2 DEF SoundType
  <2> HIDE DEF b
  <2>3. s \in Seq(Blocks) /\ Len(s) = 1 /\ DOMAIN s = {1} /\ s[1] = b
    BY <2>1
  <2>4. \A i \in DOMAIN s : s[i] = b
    BY <2>3
  <2> HIDE DEF s
  <2>5. sound' \in SoundType /\ Len(sound'.queue) <= MaxQueue + 1
    <3>1. sound'.queue = s /\ Len(s) <= MaxQueue + 1
      BY <1>00, <2>2, <2>3
    <3>2. sound' \in SoundType
      BY <1>0, <2>2, <2>3 DEF SoundType
    <3> QED BY <3>1, <3>2
  <2>6. sound.item.turn < turn + 1
    BY <1>0 DEF Tagged, Blocks
  <2>7. sound.item.turn # turn'
    BY <1>0, <1>2, <2>6 DEF Blocks
  <2>8. NoStaleSpeech'
    BY <1>2, <2>1, <2>2, <2>4, <2>7 DEF NoStaleSpeech
  <2> QED BY <1>0, <1>2, <2>1, <2>2, <2>4, <2>5, <2>6, <2>8 DEF Blocks
<1> QED BY <1>1, <1>2 DEF Voices

-----------------------------------------------------------------------------
(***************************************************************************)
(* What the steps of a query keep.                                         *)
(***************************************************************************)
LEMMA DraftCancelledTyped ==
  ASSUME Typed
  PROVE  /\ DraftCancelled \in [{"rx", "draft"} -> CallerType]
         /\ DraftCancelled["rx"] = caller["rx"]
         /\ DraftCancelled["draft"].pc = IF caller["draft"].pc = "warm" THEN "ready" ELSE caller["draft"].pc
<1>1. Ready \in CallerType /\ Ready.pc = "ready"
  BY TurnAssumption DEF Ready, CallerType, Names
<1> QED BY <1>1 DEF Typed, DraftCancelled

\* The query at work is the one in query_task, and it has not been silenced.
LEMMA AtWork ==
  ASSUME IInv, NEW q \in Alive
  PROVE  /\ q = cur /\ q \in Query /\ query[q] \in QueryType
         /\ query[q].pc \notin Ended => q \notin silenced
         /\ caller["draft"].pc # "warm"
         /\ \A p \in Query : p # q => query[p].pc \in {"none", "ended"}
  BY Typing DEF IInv, OneQuery, Alive, Silences, Waits

LEMMA WorksTyped ==
  ASSUME IInv, NEW q \in Query, Works(q)
  PROVE  Typed' /\ NoStaleSpeech' /\ Tagged'
<1>0. q \in Alive /\ Typed /\ Tagged /\ NoStaleSpeech
  BY DEF Works, IInv
<1>1. query' \in [Query -> QueryType]
  BY <1>0 DEF Works, Moves, Typed
<1>2. caller' \in [{"rx", "draft"} -> CallerType]
  BY <1>0, DraftCancelledTyped DEF Works, Typed
<1>3. dog' \in DogType /\ dog'.turn = dog.turn
  BY <1>0 DEF Works, Typed, DogType, StallUnits
<1>4. dog.turn \in Nat
  BY <1>0 DEF Typed, DogType
<1>5. /\ turn' \in Nat /\ turn' >= turn /\ sound' \in SoundType /\ Len(sound'.queue) <= MaxQueue + 1
      /\ sound'.item.turn <= turn' /\ (\A i \in DOMAIN sound'.queue : sound'.queue[i].turn <= turn')
      /\ NoStaleSpeech'
  <2>1. CASE turn' = turn /\ sound' = sound
    BY <1>0, <2>1 DEF Typed, Tagged, NoStaleSpeech, Works
  <2>2. CASE Voices(q)
    <3>1. q \notin silenced
      BY <1>0, <2>2, AtWork DEF Voices, Ended, Alive
    <3> QED BY <1>0, <2>2, <3>1, SoundSpeaks DEF Works
  <2> QED BY <2>1, <2>2 DEF Works
<1>6. Tagged'
  BY <1>0, <1>3, <1>4, <1>5 DEF Tagged, Typed
<1>7. Typed'
  BY <1>0, <1>1, <1>2, <1>3, <1>5 DEF Typed, Works, Others
<1> QED BY <1>5, <1>6, <1>7

LEMMA WorksSafe ==
  ASSUME IInv, NEW q \in Query, Works(q)
  PROVE  OneQuery' /\ Waits' /\ Silences'
<1>0. q \in Alive /\ Typed /\ cur' = cur /\ silenced' = silenced /\ silenced \subseteq Query
  BY DEF Works, IInv, Typed
<1>1. /\ q = cur /\ caller["draft"].pc # "warm"
      /\ \A p \in Query : p # q => query[p].pc \in {"none", "ended"}
      /\ query[q].pc \notin Ended => q \notin silenced
  BY <1>0, AtWork
<1>2. PICK r \in QueryType : /\ query' = [query EXCEPT ![q] = r] /\ r.pc # "none"
                             /\ query[q].pc = "unwind" => r.pc \in Ended
  BY DEF Works, Moves
<1>3. \A p \in Query : query'[p] = IF p = q THEN r ELSE query[p]
  BY <1>0, <1>2 DEF Typed
<1>4. OneQuery'
  BY <1>0, <1>1, <1>3 DEF OneQuery, Alive
<1>5. query[q].pc \in Ended => r.pc \in Ended
  BY <1>0, <1>2 DEF Ended, Alive
<1>6. Silences'
  BY <1>0, <1>1, <1>3, <1>5 DEF IInv, Silences
<1>7. Waits'
  <2>1. /\ caller'["rx"] = caller["rx"]
        /\ caller'["draft"].pc = "ready"
    BY <1>0, <1>1, DraftCancelledTyped DEF Works, IInv, Waits
  <2>2. (\E p \in Query : query[p].pc = "none") => \E p \in Query : query'[p].pc = "none"
    BY <1>0, <1>3 DEF Alive
  <2>3. cur \in Query
    BY <1>0, <1>1 DEF Alive
  <2>4. caller["rx"].pc \in {"await", "replace"} => query'[cur].pc \in Ended
    BY <1>1, <1>3, <1>5, <2>3 DEF IInv, Waits
  <2> QED BY <1>0, <2>1, <2>2, <2>4 DEF IInv, Waits
<1> QED BY <1>4, <1>6, <1>7

-----------------------------------------------------------------------------
(***************************************************************************)
(* The clocks: the attempts of the query at work and the watchdog's count. *)
(***************************************************************************)
Clocks == Fresh /\ DeadlinesAreOurs /\ Watched

\* What the clocks ask of the query r that q has become.
ClocksOf(r, q) ==
  /\ r.pc \in {"new", "route", "think"} => r.attempt = 0
  /\ Attempting(r) => ~owns'
  /\ (dog'.pc = "watch" /\ dog'.q = q /\ dog'.turn = turn' /\ ~dropped') =>
       /\ r.pc # "restart"
       /\ r.pc = "stream" /\ r.attempt = 1 => dog'.quiet + r.left >= 2
       /\ r.pc = "stream" /\ r.attempt = 2 => dog'.quiet + r.left >= 5

LEMMA OneClock ==
  ASSUME IInv, NEW q \in Alive, NEW r, query' = [query EXCEPT ![q] = r], ClocksOf(r, q)
  PROVE  Clocks'
<1>1. \A p \in Query : p # q => query[p].pc \in {"none", "ended"}
  BY AtWork
<1>2. \A p \in Query : query'[p] = IF p = q THEN r ELSE query[p]
  BY DEF IInv, Typed
<1>3. ASSUME NEW p \in Query
      PROVE  /\ query'[p].pc \in {"new", "route", "think"} => query'[p].attempt = 0
             /\ Attempting(query'[p]) => ~owns'
             /\ (dog'.pc = "watch" /\ dog'.q = p /\ dog'.turn = turn' /\ ~dropped') =>
                   /\ query'[p].pc # "restart"
                   /\ query'[p].pc = "stream" /\ query'[p].attempt = 1 => dog'.quiet + query'[p].left >= 2
                   /\ query'[p].pc = "stream" /\ query'[p].attempt = 2 => dog'.quiet + query'[p].left >= 5
  <2>1. CASE p = q
    BY <1>2, <2>1 DEF ClocksOf
  <2>2. CASE p # q
    BY <1>1, <1>2, <2>2 DEF Attempting
  <2> QED BY <2>1, <2>2
<1> QED BY <1>3 DEF Clocks, Fresh, DeadlinesAreOurs, Watched, Attempting

\* No clock runs for a query that is past its stream or out of it.
Plain == {"ended", "unwind", "notice", "local", "drain", "speak", "hold", "hung"}

LEMMA PlainClock ==
  ASSUME IInv, NEW q \in Alive, NEW r, query' = [query EXCEPT ![q] = r], r.pc \in Plain
  PROVE  Clocks'
<1>1. ClocksOf(r, q)
  BY DEF ClocksOf, Attempting, Plain
<1> QED BY <1>1, OneClock

LEMMA PlainPhase ==
  ASSUME IInv, NEW q \in Alive, NEW pc \in Plain, To(q, pc)
  PROVE  Clocks'
<1> DEFINE r == [query[q] EXCEPT !.pc = pc]
<1>1. r.pc = pc /\ query' = [query EXCEPT ![q] = r]
  BY AtWork, PhaseSet DEF To, Set, Plain, Phases
<1> HIDE DEF r
<1> QED BY <1>1, PlainClock

LEMMA PlainOut ==
  ASSUME IInv, NEW q \in Alive, NEW pc \in Plain,
         Set(q, [query[q] EXCEPT !.pc = pc, !.out = TRUE])
  PROVE  Clocks'
<1> DEFINE r == [query[q] EXCEPT !.pc = pc, !.out = TRUE]
<1>0. query[q] \in QueryType /\ pc \in Phases
  BY AtWork DEF Plain, Phases
<1>1. r.pc = pc
  BY <1>0, PhaseOutSet
<1>2. query' = [query EXCEPT ![q] = r]
  BY DEF Set
<1> HIDE DEF r
<1> QED BY <1>1, <1>2, PlainClock

LEMMA PlainOver ==
  ASSUME IInv, NEW q \in Alive, Set(q, Over)
  PROVE  Clocks'
  BY Blank, PlainClock DEF Set, Plain

LEMMA HostClocks ==
  ASSUME IInv, NEW q \in Query, HostStep(q)
  PROVE  Clocks'
<1>0. /\ q \in Alive /\ query[q] \in QueryType /\ Typed
      /\ dog.turn <= turn /\ turn \in Nat /\ dog.turn \in Nat /\ dog.quiet \in 0..3 /\ query[q].left \in 0..5
  BY HostWorks, AtWork DEF Works, IInv, Tagged, Typed, DogType, StallUnits, QueryType
<1>1. CASE Routes(q)
  <2> DEFINE r == [query[q] EXCEPT !.pc = "route"]
  <2>1. r.pc = "route" /\ r.attempt = query[q].attempt /\ query[q].attempt = 0
    BY <1>0, <1>1, PhaseSet DEF Routes, Phases, IInv, Fresh, Alive
  <2>2. query' = [query EXCEPT ![q] = r]
    BY <1>1 DEF Routes, To, Set
  <2> HIDE DEF r
  <2>3. ClocksOf(r, q)
    BY <2>1 DEF ClocksOf, Attempting
  <2> QED BY <1>0, <2>2, <2>3, OneClock
<1>2. CASE OffersPlan(q) \/ Finishes(q) \/ Unwinds(q) \/ NoticeEnds(q)
  <2>1. Set(q, Over)
    BY <1>2 DEF OffersPlan, Finishes, Unwinds, NoticeEnds, Ends
  <2> QED BY <1>0, <2>1, PlainOver
<1>3. CASE Refuses(q) \/ LocalFails(q)
  <2>1. Set(q, Over) \/ Set(q, [query[q] EXCEPT !.pc = "notice", !.out = TRUE])
    BY <1>3 DEF Refuses, LocalFails, Notice
  <2> QED BY <1>0, <2>1, PlainOver, PlainOut DEF Plain
<1>4. CASE Begins(q)
  <2> DEFINE r == Begun(query[q], ~query[q].draft)
  <2>1. r.pc = "think" /\ r.attempt = query[q].attempt /\ query[q].attempt = 0
    BY <1>0, <1>4, BeginSet DEF Begins, Entering, IInv, Fresh, Alive
  <2>2. query' = [query EXCEPT ![q] = r]
    BY <1>4 DEF Begins, Set, Begun
  <2> HIDE DEF r
  <2>3. ClocksOf(r, q)
    BY <2>1 DEF ClocksOf, Attempting
  <2> QED BY <1>0, <2>2, <2>3, OneClock
<1>5. CASE Local(q) \/ Commits(q)
  <2>1. PICK pc \in {"local", "speak"} : Set(q, [query[q] EXCEPT !.pc = pc, !.out = TRUE])
    BY <1>5 DEF Local, Commits, Shows
  <2> QED BY <1>0, <2>1, PlainOut DEF Plain
<1>6. CASE LocalAnswers(q)
  BY <1>0, <1>6, PlainPhase DEF LocalAnswers, Plain
<1>7. CASE Asks(q)
  <2>1. CASE owns
    <3> DEFINE r == [query[q] EXCEPT !.pc = "stream"]
    <3>1. r.pc = "stream" /\ r.attempt = query[q].attempt /\ query[q].attempt = 0
      BY <1>0, <1>7, PhaseSet DEF Asks, Phases, IInv, Fresh, Alive
    <3>2. query' = [query EXCEPT ![q] = r]
      BY <1>7, <2>1 DEF Asks, Set
    <3> HIDE DEF r
    <3>3. ClocksOf(r, q)
      BY <3>1 DEF ClocksOf, Attempting
    <3> QED BY <1>0, <3>2, <3>3, OneClock
  <2>2. CASE ~owns
    <3> DEFINE r == Attempted(query[q], 1)
    <3>1. r.pc = "stream" /\ r.attempt = 1 /\ r.left = 2
      BY <1>0, AttemptSet DEF FirstDelta
    <3>2. query' = [query EXCEPT ![q] = r] /\ dog' = dog /\ owns' = owns
      BY <1>7, <2>2 DEF Asks, Set, Attempted, Quietly
    <3> HIDE DEF r
    <3>3. ClocksOf(r, q)
      BY <1>0, <2>2, <3>1, <3>2 DEF ClocksOf, Attempting
    <3> QED BY <1>0, <3>2, <3>3, OneClock
  <2> QED BY <2>1, <2>2
<1>8. CASE FirstDeltaLate(q)
  <2>0. Due(q) /\ query[q].pc = "stream" /\ query[q].attempt # 0 /\ query[q].left = 0
    BY <1>8 DEF FirstDeltaLate, Due
  <2>1. ~owns
    BY <1>0, <2>0 DEF IInv, DeadlinesAreOurs, Attempting, Alive
  <2>2. CASE query[q].attempt = 1
    <3> DEFINE r == Attempted(query[q], 2)
    <3>1. r.pc = "stream" /\ r.attempt = 2 /\ r.left = 3
      BY <1>0, AttemptSet DEF FirstDelta
    <3>2. query' = [query EXCEPT ![q] = r] /\ UNCHANGED <<dog, owns, turn, dropped>>
      BY <1>8, <2>2 DEF FirstDeltaLate, Set, Attempt, Attempted, Quietly
    <3>3. (dog.pc = "watch" /\ dog.q = q /\ dog.turn = turn /\ ~dropped) => dog.quiet >= 2
      BY <1>0, <2>0, <2>2 DEF IInv, Watched, Alive
    <3> HIDE DEF r
    <3>4. ClocksOf(r, q)
      BY <1>0, <2>1, <3>1, <3>2, <3>3 DEF ClocksOf, Attempting
    <3> QED BY <1>0, <3>2, <3>4, OneClock
  <2>3. CASE query[q].attempt = 2
    <3> DEFINE r == [query[q] EXCEPT !.pc = "restart"]
    <3>1. r.pc = "restart"
      BY <1>0, PhaseSet DEF Phases
    <3>2. query' = [query EXCEPT ![q] = r] /\ UNCHANGED <<dog, owns, turn, dropped>>
      BY <1>8, <2>3 DEF FirstDeltaLate, To, Set, Quietly
    <3>3. ~(dog.pc = "watch" /\ dog.q = q /\ dog.turn = turn /\ ~dropped)
      BY <1>0, <2>0, <2>3 DEF IInv, Watched, Alive
    <3> HIDE DEF r
    <3>4. ClocksOf(r, q)
      BY <2>1, <3>1, <3>2, <3>3 DEF ClocksOf, Attempting
    <3> QED BY <1>0, <3>2, <3>4, OneClock
  <2>4. CASE query[q].attempt \notin {1, 2}
    <3>1. Set(q, [query[q] EXCEPT !.pc = "notice", !.out = TRUE])
      BY <1>8, <2>4 DEF FirstDeltaLate, Notice
    <3> QED BY <1>0, <3>1, PlainOut DEF Plain
  <2> QED BY <2>2, <2>3, <2>4
<1>9. CASE GatewayRestarted(q)
  <2>1. ~owns /\ ~(dog.pc = "watch" /\ dog.q = q /\ dog.turn = turn /\ ~dropped)
    BY <1>0, <1>9 DEF GatewayRestarted, IInv, DeadlinesAreOurs, Attempting, Watched, Alive
  <2> DEFINE r == Attempted(query[q], 3)
  <2>2. query' = [query EXCEPT ![q] = r] /\ UNCHANGED <<dog, owns, turn, dropped>>
    BY <1>9 DEF GatewayRestarted, Set, Attempt, Attempted, Quietly
  <2>4. r.pc = "stream" /\ r.attempt = 3
    BY <1>0, AttemptSet
  <2> HIDE DEF r
  <2>3. ClocksOf(r, q)
    BY <2>1, <2>2, <2>4 DEF ClocksOf, Attempting
  <2> QED BY <1>0, <2>2, <2>3, OneClock
<1> QED BY <1>1, <1>2, <1>3, <1>4, <1>5, <1>6, <1>7, <1>8, <1>9 DEF HostStep

LEMMA ModelClocks ==
  ASSUME IInv, NEW q \in Query, ModelStep(q)
  PROVE  Clocks'
<1>0. q \in Alive /\ query[q] \in QueryType
  BY ModelWorks, AtWork DEF Works, IInv
<1>1. CASE Delta(q) \/ StreamEnds(q) \/ Hangs(q)
  <2>1. PICK pc \in {"speak", "hold", "drain", "hung"} : To(q, pc)
    BY <1>1 DEF Delta, StreamEnds, Hangs
  <2> QED BY <1>0, <2>1, PlainPhase DEF Plain
<1>2. CASE Speaks(q)
  <2>1. query' = [query EXCEPT ![q] = query[q]] /\ query[q].pc \in Plain
    BY <1>2 DEF Speaks, IInv, Typed, Plain
  <2> QED BY <1>0, <2>1, PlainClock
<1>3. CASE StreamFails(q)
  <2>1. Set(q, Over) \/ Set(q, [query[q] EXCEPT !.pc = "notice", !.out = TRUE])
    BY <1>3 DEF StreamFails, Ends, Notice
  <2> QED BY <1>0, <2>1, PlainOver, PlainOut DEF Plain
<1> QED BY <1>1, <1>2, <1>3 DEF ModelStep

-----------------------------------------------------------------------------
(***************************************************************************)
(* What the other steps do to the queries - nothing, cancel the one at     *)
(* work, create one when none is - and to the turn number.                 *)
(***************************************************************************)
Same == query' = query /\ cur' = cur
CancelsIt == cur' = cur /\ cur \in Alive /\ query' = [query EXCEPT ![cur] = Cancelled(query[cur])]
CreatesOne ==
  /\ Alive = {} /\ Next1 \in Query /\ query[Next1].pc = "none" /\ cur' = Next1
  /\ \E r \in QueryType : /\ r.pc \in {"new", "local"} /\ r.attempt = 0
                          /\ query' = [query EXCEPT ![Next1] = r]

Stays == turn' = turn /\ silenced' = silenced /\ sound' = sound
Turns ==
  /\ turn' = turn + 1 /\ silenced' = silenced \cup Alive
  /\ sound' \in {sound, [sound EXCEPT !.queue = <<>>]}
  /\ CancelsIt \/ Alive = {}

\* The watchdog goes on as it is, stops, or watches what was created.
DogStays ==
  /\ dog' \in DogType /\ dog'.turn <= turn'
  /\ dog' = dog \/ dog'.pc # "watch" \/ dropped' \/ CreatesOne

LEMMA ShapeQueries ==
  ASSUME IInv, Same \/ CancelsIt \/ CreatesOne, Stays \/ Turns
  PROVE  /\ query' \in [Query -> QueryType] /\ cur' \in 0..MaxQueries /\ silenced' \in SUBSET Query
         /\ OneQuery' /\ Silences'
<1>0. Typed /\ query \in [Query -> QueryType] /\ silenced \subseteq Query /\ cur \in 0..MaxQueries
  BY DEF IInv, Typed
<1>1. CASE Same /\ ~CancelsIt
  <2>1. silenced' = silenced
    BY <1>1 DEF Stays, Turns
  <2> QED BY <1>0, <1>1, <2>1 DEF Same, IInv, OneQuery, Alive, Silences
<1>2. CASE CancelsIt
  <2>1. cur \in Query /\ query[cur] \in QueryType /\ query[cur].pc \notin {"none", "ended"}
    BY <1>0, <1>2, Typing DEF CancelsIt, Alive
  <2> DEFINE r == Cancelled(query[cur])
  <2>2. r \in QueryType /\ r.pc \in Ended
    BY <2>1, Cancels
  <2> HIDE DEF r
  <2>3. query' = [query EXCEPT ![cur] = r] /\ cur' = cur
    BY <1>2 DEF CancelsIt, r
  <2>4. \A p \in Query : query'[p] = IF p = cur THEN r ELSE query[p]
    BY <1>0, <2>3
  <2>5. silenced' \subseteq silenced \cup Alive /\ Alive \subseteq Query
    BY DEF Stays, Turns, Alive
  <2>6. OneQuery'
    BY <2>3, <2>4 DEF IInv, OneQuery, Alive
  <2>7. Silences'
    BY <1>0, <2>2, <2>4, <2>5 DEF IInv, Silences, OneQuery
  <2> QED BY <1>0, <2>2, <2>3, <2>5, <2>6, <2>7
<1>3. CASE CreatesOne
  <2>1. PICK r \in QueryType : query' = [query EXCEPT ![Next1] = r] /\ r.pc \in {"new", "local"}
    BY <1>3 DEF CreatesOne
  <2>2. Next1 \in Query /\ query[Next1].pc = "none" /\ cur' = Next1 /\ Alive = {}
    BY <1>3 DEF CreatesOne
  <2>3. \A p \in Query : query'[p] = IF p = Next1 THEN r ELSE query[p]
    BY <1>0, <2>1, <2>2
  <2>4. silenced' = silenced
    BY <2>2 DEF Stays, Turns
  <2>5. OneQuery'
    BY <2>2, <2>3 DEF OneQuery, Alive
  <2>6. Next1 \notin silenced
    BY <2>2 DEF IInv, Silences, Ended
  <2>7. Silences'
    BY <1>0, <2>3, <2>4, <2>6 DEF IInv, Silences
  <2>8. Next1 \in 0..MaxQueries
    BY <2>2, TurnAssumption DEF Query
  <2> QED BY <1>0, <2>1, <2>2, <2>4, <2>5, <2>7, <2>8
<1> QED BY <1>1, <1>2, <1>3

LEMMA ShapeSound ==
  ASSUME IInv, Stays \/ Turns
  PROVE  /\ turn' \in Nat /\ sound' \in SoundType /\ Len(sound'.queue) <= MaxQueue + 1
         /\ sound'.item.turn <= turn' /\ (\A i \in DOMAIN sound'.queue : sound'.queue[i].turn <= turn')
         /\ NoStaleSpeech'
<1>0. Typed /\ Tagged /\ NoStaleSpeech /\ turn \in Nat
  BY DEF IInv, Typed
<1>1. CASE Stays
  BY <1>0, <1>1 DEF Stays, Typed, Tagged, NoStaleSpeech
<1>2. CASE Turns
  <2>1. turn' = turn + 1 /\ sound' \in {sound, [sound EXCEPT !.queue = <<>>]}
    BY <1>2 DEF Turns
  <2>2. /\ sound' \in SoundType /\ Len(sound'.queue) <= MaxQueue + 1
        /\ sound'.item.turn < turn'
        /\ \A i \in DOMAIN sound'.queue : sound'.queue[i].turn < turn'
    BY <1>0, <2>1, SoundTurns
  <2>3. turn' \in Nat /\ sound'.item.turn \in Nat /\ \A i \in DOMAIN sound'.queue : sound'.queue[i].turn \in Nat
    <3>1. sound'.queue \in Seq(Blocks) /\ sound'.item \in Blocks
      BY <2>2 DEF SoundType
    <3>2. \A i \in DOMAIN sound'.queue : sound'.queue[i] \in Blocks
      BY <3>1
    <3> QED BY <1>0, <2>1, <3>1, <3>2 DEF Blocks
  <2> QED BY <2>2, <2>3 DEF NoStaleSpeech
<1> QED BY <1>1, <1>2

LEMMA ShapeClocks ==
  ASSUME IInv, Same \/ CancelsIt \/ CreatesOne, Stays \/ Turns, DogStays, owns' = owns, dropped => dropped'
  PROVE  Clocks'
<1>0. Typed /\ query \in [Query -> QueryType] /\ Fresh /\ DeadlinesAreOurs /\ Watched /\ dog.turn <= turn
      /\ turn \in Nat /\ dog.turn \in Nat
  BY DEF IInv, Typed, Tagged, DogType
<1>1. CASE CancelsIt
  <2>1. cur \in Alive /\ cur \in Query /\ query[cur] \in QueryType /\ query[cur].pc \notin {"none", "ended"}
    BY <1>0, <1>1, Typing DEF CancelsIt, Alive
  <2> DEFINE r == Cancelled(query[cur])
  <2>2. r.pc \in Plain /\ query' = [query EXCEPT ![cur] = r]
    BY <1>1, <2>1, Cancels DEF CancelsIt, Ended, Plain
  <2> HIDE DEF r
  <2> QED BY <2>1, <2>2, PlainClock
<1>2. CASE CreatesOne
  <2>1. PICK r \in QueryType : /\ query' = [query EXCEPT ![Next1] = r]
                               /\ r.pc \in {"new", "local"} /\ r.attempt = 0
    BY <1>2 DEF CreatesOne
  <2>2. \A p \in Query : query'[p] = IF p = Next1 THEN r ELSE query[p]
    BY <1>0, <2>1
  <2>3. \A p \in Query : query[p].pc \in {"none", "ended"}
    BY <1>2 DEF CreatesOne, Alive
  <2>4. \A p \in Query : ~Attempting(query'[p]) /\ query'[p].pc \notin {"stream", "restart"}
                         /\ (query'[p].pc \in {"new", "route", "think"} => query'[p].attempt = 0)
    BY <2>1, <2>2, <2>3 DEF Attempting
  <2> QED BY <2>4 DEF Clocks, Fresh, DeadlinesAreOurs, Watched, Attempting
<1>3. CASE Same /\ ~CreatesOne
  <2>1. Fresh' /\ DeadlinesAreOurs'
    BY <1>0, <1>3 DEF Same, Fresh, DeadlinesAreOurs, Attempting
  <2>2. CASE dog'.pc # "watch" \/ dropped'
    BY <2>1, <2>2 DEF Clocks, Watched
  <2>3. CASE dog' = dog /\ ~dropped'
    <3>1. CASE turn' = turn
      BY <1>0, <1>3, <2>1, <2>3, <3>1 DEF Same, Clocks, Watched
    <3>2. CASE turn' = turn + 1
      BY <1>0, <2>1, <2>3, <3>2 DEF Clocks, Watched
    <3> QED BY <3>1, <3>2 DEF Stays, Turns
  <2> QED BY <1>3, <2>2, <2>3 DEF DogStays
<1> QED BY <1>1, <1>2, <1>3

LEMMA Assembled ==
  ASSUME IInv, Same \/ CancelsIt \/ CreatesOne, Stays \/ Turns, DogStays, owns' = owns,
         dropped => dropped', dropped' \in BOOLEAN, choice' \in BOOLEAN, status' \in {"idle", "thinking"},
         mic' \in MicType, caller' \in [{"rx", "draft"} -> CallerType], Waits'
  PROVE  IInv'
<1>1. Clocks'
  BY ShapeClocks
<1>2. dog' \in DogType /\ dog'.turn <= turn'
  BY DEF DogStays
<1>3. Typed'
  BY <1>2, ShapeQueries, ShapeSound DEF Typed, IInv
<1>4. Tagged'
  BY <1>2, ShapeSound DEF Tagged
<1> QED BY <1>1, <1>3, <1>4, ShapeQueries, ShapeSound DEF IInv, Clocks

-----------------------------------------------------------------------------
(***************************************************************************)
(* The steps of the owner, the receive loop, the draft and the watchdog.   *)
(***************************************************************************)
LEMMA NotActive ==
  ASSUME IInv
  PROVE  /\ ~Active => Alive = {}
         /\ caller["draft"].pc = "warm" => ~Active
         /\ caller["rx"].pc \in {"await", "replace"} /\ query[caller["rx"].prev].pc = "ended" => Alive = {}
<1>1. /\ Alive \subseteq {cur}
      /\ caller["draft"].pc = "warm" => Alive = {}
      /\ caller["rx"].pc \in {"await", "replace"} => caller["rx"].prev = cur
  BY DEF IInv, OneQuery, Waits
<1>2. query[cur].pc = "ended" => cur \notin Alive
  BY DEF Alive
<1> QED BY <1>1, <1>2 DEF Active

LEMMA Creating ==
  ASSUME IInv, Alive = {}, \E q \in Query : query[q].pc = "none", NEW t \in Names, NEW d \in BOOLEAN,
         NEW n \in Nat, Create(query, t, d, n)
  PROVE  CreatesOne /\ (dog' = dog \/ (dog' \in DogType /\ dog'.turn = n))
<1>1. Next1 \in Query /\ query[Next1].pc = "none"
  BY FirstSlot
<1> DEFINE r == [Unused EXCEPT !.pc = "new", !.draft = d, !.text = t]
<1>2. r \in QueryType /\ r.pc = "new" /\ r.attempt = 0
  BY Blank
<1>3. query' = [query EXCEPT ![Next1] = r] /\ cur' = Next1
  BY DEF Create
<1> HIDE DEF r
<1>4. CreatesOne
  BY <1>1, <1>2, <1>3 DEF CreatesOne
<1>5. dog' = dog \/ dog' = [pc |-> "watch", q |-> Next1, turn |-> n, quiet |-> 0]
  BY DEF Create, Watch
<1>6. Next1 \in 0..MaxQueries
  BY <1>1, TurnAssumption DEF Query
<1> QED BY <1>4, <1>5, <1>6 DEF DogType, StallUnits

\* user_text up to its first await or the creation of its query.
LEMMA TakingTurn ==
  ASSUME IInv, NEW w \in {"rx", "draft"}, NEW t \in Names, NEW d \in BOOLEAN, TakeTurn(w, t, d),
         w = "draft" => caller["draft"].pc = "warm"
  PROVE  /\ CancelsIt \/ CreatesOne
         /\ Turns /\ DogStays
         /\ caller' \in [{"rx", "draft"} -> CallerType]
         /\ Waits'
<1>0. /\ Typed /\ Waits /\ caller \in [{"rx", "draft"} -> CallerType] /\ turn \in Nat /\ cur \in 0..MaxQueries
      /\ dog \in DogType /\ dog.turn <= turn /\ dog.turn \in Nat /\ turn + 1 \in Nat
  BY DEF IInv, Typed, Tagged, DogType
<1>1. PICK slot \in Query : query[slot].pc = "none"
  BY <1>0, RoomForOne DEF TakeTurn
<1>2. turn' = turn + 1 /\ silenced' = silenced \cup Alive /\ sound' = [sound EXCEPT !.queue = <<>>]
  BY DEF TakeTurn, Invalidate, Advance
<1>3. CASE Active
  <2>1. w = "rx" /\ CancelsIt /\ dog' = dog
    BY <1>3, NotActive DEF TakeTurn, CancelsIt, Active
  <2>2. caller' = [DraftCancelled EXCEPT !["rx"] = [pc |-> "await", prev |-> cur, text |-> t]]
    BY <1>3, <2>1 DEF TakeTurn
  <2>3. [pc |-> "await", prev |-> cur, text |-> t] \in CallerType
    BY <1>0 DEF CallerType
  <2>4. caller' \in [{"rx", "draft"} -> CallerType] /\ caller'["draft"].pc = "ready"
        /\ caller'["rx"].prev = cur
    BY <1>0, <2>2, <2>3, DraftCancelledTyped DEF Waits
  <2>5. cur \in Query /\ query[cur] \in QueryType /\ query[cur].pc \notin {"none", "ended"}
    BY <1>0, <1>3, Typing DEF Active, Alive
  <2>6. query'[cur].pc \in Ended /\ query'[slot].pc = "none" /\ cur' = cur
    BY <1>0, <1>1, <2>1, <2>5, Cancels DEF CancelsIt, Typed
  <2>7. Waits'
    BY <1>1, <2>4, <2>5, <2>6 DEF Waits
  <2> QED BY <1>0, <1>2, <2>1, <2>4, <2>7 DEF Turns, DogStays
<1>4. CASE ~Active
  <2>1. Alive = {}
    BY <1>4, NotActive
  <2>2. Create(query, t, d, turn + 1) /\ caller' = [DraftCancelled EXCEPT ![w] = Ready]
    BY <1>4 DEF TakeTurn
  <2>3. CreatesOne /\ (dog' = dog \/ (dog' \in DogType /\ dog'.turn = turn + 1))
    BY <1>0, <1>1, <2>1, <2>2, Creating
  <2>4. Ready \in CallerType /\ Ready.pc = "ready"
    BY TurnAssumption DEF Ready, CallerType, Names
  <2>5. caller' \in [{"rx", "draft"} -> CallerType] /\ caller'["draft"].pc = "ready"
        /\ caller'["rx"].pc = "ready"
    <3>1. CASE w = "rx"
      BY <1>0, <2>2, <2>4, <3>1, DraftCancelledTyped DEF Waits
    <3>2. CASE w = "draft"
      BY <1>0, <2>2, <2>4, <3>2, DraftCancelledTyped DEF Waits
    <3> QED BY <3>1, <3>2
  <2>6. Waits'
    BY <2>5 DEF Waits
  <2> QED BY <1>0, <1>2, <2>1, <2>3, <2>5, <2>6 DEF Turns, DogStays
<1> QED BY <1>3, <1>4

\* The callers, when no query is waited for and none comes to work.
LEMMA WaitsCalm ==
  ASSUME Waits, Same, caller'["rx"].pc \notin {"await", "replace"} \/ caller'["rx"] = caller["rx"],
         caller'["draft"].pc \in {"ready", "warm"},
         caller'["draft"].pc = "warm" => Alive = {} /\ caller'["rx"].pc = "ready"
  PROVE  Waits'
  BY DEF Waits, Same, Alive

\* A final text: held back, left to its draft, or a new turn.
LEMMA FinalKeeps ==
  ASSUME IInv, NEW t \in Names, NEW m \in MicType, NEW c \in {caller, DraftCancelled},
         Final(t, m, c), UNCHANGED <<owns, choice>>
  PROVE  IInv'
<1>0. /\ Typed /\ Waits /\ caller \in [{"rx", "draft"} -> CallerType] /\ choice \in BOOLEAN /\ dropped \in BOOLEAN
      /\ status \in {"idle", "thinking"} /\ dog \in DogType /\ dog.turn <= turn /\ dog.turn \in Nat
  BY DEF IInv, Typed, Tagged, DogType
<1>1. NoText \in Names /\ "thinking" \in {"idle", "thinking"}
  BY DEF Names
<1>2. ASSUME caller' = [c EXCEPT !["rx"] = Ready], Same
      PROVE  caller' \in [{"rx", "draft"} -> CallerType] /\ Waits'
  <2>1. Ready \in CallerType /\ Ready.pc = "ready"
    BY TurnAssumption DEF Ready, CallerType, Names
  <2>2. /\ caller' \in [{"rx", "draft"} -> CallerType] /\ caller'["rx"].pc = "ready"
        /\ caller'["draft"].pc \in {"ready", caller["draft"].pc}
    BY <1>0, <1>2, <2>1, DraftCancelledTyped DEF Waits
  <2> QED BY <1>0, <1>2, <2>2, WaitsCalm DEF Waits
<1>3. CASE choice
  <2>1. Same /\ Stays /\ mic' = m /\ caller' = [c EXCEPT !["rx"] = Ready]
        /\ UNCHANGED <<dog, dropped, status>>
    BY <1>3 DEF Final, Same, Stays
  <2>2. DogStays
    BY <1>0, <2>1 DEF DogStays, Stays
  <2> QED BY <1>0, <1>2, <2>1, <2>2, Assembled
<1>4. CASE ~choice
  <2>0. status' = "thinking"
    BY <1>4 DEF Final
  <2>1. CASE /\ mic' \in MicType /\ dropped' = TRUE /\ caller' = [c EXCEPT !["rx"] = Ready]
             /\ Progress /\ UNCHANGED <<turn, query, cur, sound, silenced>>
    <3>1. Same /\ Stays
      BY <2>1 DEF Same, Stays
    <3>2. DogStays
      <4>1. dog' \in DogType /\ dog'.turn = dog.turn
        BY <1>0, <2>1 DEF Progress, DogType, StallUnits
      <4> QED BY <1>0, <2>1, <4>1 DEF DogStays
    <3> QED BY <1>0, <1>1, <1>2, <2>0, <2>1, <3>1, <3>2, Assembled
  <2>2. CASE mic' = [m EXCEPT !.latest = NoText] /\ TakeTurn("rx", t, FALSE) /\ UNCHANGED dropped
    <3>1. mic' \in MicType
      BY <1>1, <2>2 DEF MicType
    <3>2. /\ CancelsIt \/ CreatesOne
          /\ Turns /\ DogStays /\ caller' \in [{"rx", "draft"} -> CallerType] /\ Waits'
      BY <2>2, TakingTurn
    <3> QED BY <1>0, <1>1, <2>0, <2>2, <3>1, <3>2, Assembled
  <2>3. \/ /\ mic' \in MicType /\ dropped' = TRUE /\ caller' = [c EXCEPT !["rx"] = Ready]
           /\ Progress /\ UNCHANGED <<turn, query, cur, sound, silenced>>
        \/ mic' = [m EXCEPT !.latest = NoText] /\ TakeTurn("rx", t, FALSE) /\ UNCHANGED dropped
    <3>1. [m EXCEPT !.latest = NoText, !.finished = NoText] \in MicType
          /\ [m EXCEPT !.latest = NoText, !.finished = m.finished] \in MicType
      BY <1>1 DEF MicType
    <3> DEFINE twin == t = m.latest /\ Active
               over == t = m.finished /\ ~twin
    <3>2. \/ /\ mic' = [m EXCEPT !.latest = NoText, !.finished = IF over THEN NoText ELSE m.finished]
             /\ dropped' = TRUE /\ caller' = [c EXCEPT !["rx"] = Ready]
             /\ Progress /\ UNCHANGED <<turn, query, cur, sound, silenced>>
          \/ mic' = [m EXCEPT !.latest = NoText] /\ TakeTurn("rx", t, FALSE) /\ UNCHANGED dropped
      BY <1>4 DEF Final
    <3> HIDE DEF over
    <3> QED BY <3>1, <3>2
  <2> QED BY <2>1, <2>2, <2>3
<1> QED BY <1>3, <1>4

\* What is heard: remembered for a draft, or a final text.
LEMMA HeardKeeps ==
  ASSUME IInv, NEW t \in Names, NEW isFinal \in BOOLEAN, Heard(t, isFinal), ~isFinal => Alive = {} /\ caller["rx"].pc = "ready",
         UNCHANGED <<owns, choice>>
  PROVE  IInv'
<1>0. /\ Typed /\ Waits /\ caller \in [{"rx", "draft"} -> CallerType] /\ choice \in BOOLEAN /\ dropped \in BOOLEAN
      /\ status \in {"idle", "thinking"} /\ dog \in DogType /\ dog.turn <= turn
  BY DEF IInv, Typed, Tagged
<1> DEFINE heard == [mic EXCEPT !.commit = "zero", !.latest = t]
<1>1. heard \in MicType
  BY DEF IInv, Typed, MicType
<1>2. CASE isFinal
  <2>1. Final(t, heard, DraftCancelled)
    BY <1>2 DEF Heard
  <2> HIDE DEF heard
  <2> QED BY <1>1, <2>1, FinalKeeps
<1>3. CASE ~isFinal
  <2>1. /\ mic' = heard /\ Same /\ Stays /\ dog' = dog
        /\ caller' = [caller EXCEPT !["draft"].pc = IF @ = "ready" THEN "warm" ELSE @]
        /\ UNCHANGED <<dropped, status>>
    BY <1>3 DEF Heard, Same, Stays
  <2>2. caller' = [caller EXCEPT !["draft"] = [caller["draft"] EXCEPT !.pc = "warm"]]
    BY <1>0, <2>1 DEF Waits
  <2>3. [caller["draft"] EXCEPT !.pc = "warm"] \in CallerType /\ [caller["draft"] EXCEPT !.pc = "warm"].pc = "warm"
    BY <1>0 DEF CallerType
  <2>4. caller' \in [{"rx", "draft"} -> CallerType] /\ caller'["draft"].pc = "warm" /\ caller'["rx"] = caller["rx"]
    BY <1>0, <2>2, <2>3
  <2>5. Waits'
    BY <1>0, <1>3, <2>1, <2>4, WaitsCalm
  <2>6. DogStays
    BY <1>0, <2>1 DEF DogStays, Stays
  <2> HIDE DEF heard
  <2> QED BY <1>0, <1>1, <2>1, <2>4, <2>5, <2>6, Assembled
<1> QED BY <1>2, <1>3

LEMMA PartialKeeps ==
  ASSUME IInv, NEW t \in Texts, NEW isFinal \in BOOLEAN, SpeechPartial(t, isFinal)
  PROVE  IInv'
<1>0. /\ Typed /\ Waits /\ caller \in [{"rx", "draft"} -> CallerType] /\ choice \in BOOLEAN /\ dropped \in BOOLEAN
      /\ status \in {"idle", "thinking"} /\ dog \in DogType /\ dog.turn <= turn /\ cur \in 0..MaxQueries
      /\ mic \in MicType /\ t \in Names /\ owns' = owns /\ choice' = choice /\ caller["rx"].pc = "ready"
  BY DEF IInv, Typed, Tagged, Names, SpeechPartial
<1>1. CASE ~Active
  <2>1. Heard(t, isFinal) /\ UNCHANGED <<owns, choice>>
    BY <1>1 DEF SpeechPartial
  <2> QED BY <1>0, <1>1, <2>1, HeardKeeps, NotActive
<1>2. CASE Active
  <2>1. /\ Stays /\ cur' = cur /\ dog' = dog /\ UNCHANGED <<status, dropped>>
        /\ \/ mic' = [mic EXCEPT !.commit = "now"] /\ query' = query /\ caller' = caller
           \/ /\ query' = [query EXCEPT ![cur] = Cancelled(@)] /\ mic' = mic
              /\ caller' = [caller EXCEPT !["rx"] = [pc |-> "replace", prev |-> cur, text |-> t]]
    BY <1>2 DEF SpeechPartial, Stays
  <2>2. DogStays
    BY <1>0, <2>1 DEF DogStays, Stays
  <2>3. CASE mic' = [mic EXCEPT !.commit = "now"] /\ query' = query /\ caller' = caller
    <3>1. Same /\ mic' \in MicType
      BY <1>0, <2>1, <2>3 DEF Same, MicType
    <3>2. Waits'
      BY <1>0, <2>3, <3>1 DEF Waits, Same, Alive
    <3> QED BY <1>0, <2>1, <2>2, <2>3, <3>1, <3>2, Assembled
  <2>4. CASE /\ query' = [query EXCEPT ![cur] = Cancelled(@)] /\ mic' = mic
             /\ caller' = [caller EXCEPT !["rx"] = [pc |-> "replace", prev |-> cur, text |-> t]]
    <3>1. CancelsIt
      BY <1>2, <2>1, <2>4 DEF CancelsIt, Active
    <3>2. [pc |-> "replace", prev |-> cur, text |-> t] \in CallerType
      BY <1>0 DEF CallerType
    <3>3. caller' \in [{"rx", "draft"} -> CallerType] /\ caller'["draft"] = caller["draft"]
          /\ caller'["rx"].pc = "replace" /\ caller'["rx"].prev = cur
      BY <1>0, <2>4, <3>2
    <3>4. cur \in Query /\ query[cur] \in QueryType /\ query[cur].pc \notin {"none", "ended"}
      BY <1>0, <1>2, Typing DEF Active, Alive
    <3>5. query'[cur].pc \in Ended
      BY <1>0, <2>4, <3>4, Cancels DEF Typed
    <3>6. caller["draft"].pc = "ready"
      BY <1>0, <1>2, NotActive DEF Waits
    <3>7. Waits'
      BY <2>1, <3>3, <3>4, <3>5, <3>6 DEF Waits
    <3> QED BY <1>0, <2>1, <2>2, <2>4, <3>1, <3>3, <3>7, Assembled
  <2> QED BY <2>1, <2>3, <2>4
<1> QED BY <1>1, <1>2

LEMMA TextsKeep ==
  ASSUME IInv, NEW t \in Texts, UserText(t)
  PROVE  IInv'
<1>1. t \in Names /\ mic \in MicType
  BY DEF Names, IInv, Typed
<1>2. Final(t, mic, caller) /\ UNCHANGED <<owns, choice>>
  BY DEF UserText
<1> QED BY <1>1, <1>2, FinalKeeps

LEMMA ReplacesKeeps ==
  ASSUME IInv, Replaces
  PROVE  IInv'
<1>1. caller["rx"].text \in Names
  BY DEF IInv, Typed, CallerType
<1>2. Heard(caller["rx"].text, TRUE) /\ UNCHANGED <<owns, choice>>
  BY DEF Replaces
<1> QED BY <1>1, <1>2, HeardKeeps

\* preflight_voice_draft and the failsafe of its answer.
LEMMA DraftsKeep ==
  ASSUME IInv, DraftStarts \/ DraftGivesUp \/ Failsafe
  PROVE  IInv'
<1>0. /\ Typed /\ Waits /\ caller \in [{"rx", "draft"} -> CallerType] /\ choice \in BOOLEAN /\ dropped \in BOOLEAN
      /\ status \in {"idle", "thinking"} /\ dog \in DogType /\ dog.turn <= turn /\ mic \in MicType
  BY DEF IInv, Typed, Tagged
<1>1. [mic EXCEPT !.commit = "held"] \in MicType /\ [mic EXCEPT !.commit = "now"] \in MicType
      /\ mic.latest \in Names
  BY <1>0 DEF MicType
<1>2. CASE DraftStarts
  <2>1. TakeTurn("draft", mic.latest, TRUE) /\ caller["draft"].pc = "warm"
    BY <1>2 DEF DraftStarts
  <2>2. /\ CancelsIt \/ CreatesOne
        /\ Turns /\ DogStays /\ caller' \in [{"rx", "draft"} -> CallerType] /\ Waits'
    BY <1>1, <2>1, TakingTurn
  <2> QED BY <1>0, <1>1, <1>2, <2>2, Assembled DEF DraftStarts
<1>3. CASE DraftGivesUp \/ Failsafe
  <2>1. Same /\ Stays /\ mic' \in MicType /\ caller' \in {caller, DraftCancelled} /\ dog' = dog
        /\ UNCHANGED <<owns, status, choice, dropped>>
    BY <1>0, <1>1, <1>3 DEF DraftGivesUp, Failsafe, Same, Stays
  <2>2. caller' \in [{"rx", "draft"} -> CallerType] /\ caller'["rx"] = caller["rx"]
        /\ caller'["draft"].pc \in {"ready", caller["draft"].pc}
    BY <1>0, <2>1, DraftCancelledTyped DEF Waits
  <2>3. Waits'
    BY <1>0, <2>1, <2>2 DEF Waits, Same, Alive
  <2>4. DogStays
    BY <1>0, <2>1 DEF DogStays, Stays
  <2> QED BY <1>0, <2>1, <2>2, <2>3, <2>4, Assembled
<1> QED BY <1>2, <1>3

\* The awaited query is over: its successor is created in the slot kept for it.
LEMMA ResumesKeeps ==
  ASSUME IInv, NEW w \in {"rx", "draft"}, Resumes(w)
  PROVE  IInv'
<1>0. /\ Typed /\ Waits /\ caller \in [{"rx", "draft"} -> CallerType] /\ choice \in BOOLEAN /\ dropped \in BOOLEAN
      /\ status \in {"idle", "thinking"} /\ turn \in Nat /\ mic \in MicType /\ dog \in DogType /\ dog.turn <= turn
      /\ caller[w].text \in Names
  BY DEF IInv, Typed, CallerType, Tagged
<1>1. caller[w].pc = "await" /\ query[caller[w].prev].pc = "ended"
      /\ Create(query, caller[w].text, w = "draft", turn) /\ caller' = [caller EXCEPT ![w] = Ready]
      /\ UNCHANGED <<turn, mic, owns, sound, status, choice, silenced, dropped>>
  BY DEF Resumes
<1>2. w = "rx" /\ Alive = {} /\ \E q \in Query : query[q].pc = "none"
  BY <1>0, <1>1, NotActive DEF Waits
<1>3. CreatesOne /\ (dog' = dog \/ (dog' \in DogType /\ dog'.turn = turn))
  BY <1>0, <1>1, <1>2, Creating
<1>4. Ready \in CallerType /\ Ready.pc = "ready"
  BY TurnAssumption DEF Ready, CallerType, Names
<1>5. caller' \in [{"rx", "draft"} -> CallerType] /\ caller'["rx"].pc = "ready" /\ caller'["draft"] = caller["draft"]
  BY <1>0, <1>1, <1>2, <1>4
<1>6. caller["draft"].pc \in {"ready", "warm"} /\ caller["draft"].pc # "warm"
  BY <1>0, <1>1, <1>2 DEF Waits
<1>7. Waits'
  BY <1>5, <1>6 DEF Waits
<1>8. Stays /\ DogStays
  BY <1>0, <1>1, <1>3 DEF Stays, DogStays
<1> QED BY <1>0, <1>1, <1>3, <1>5, <1>7, <1>8, Assembled

\* interrupt_active_turn and the change of language.
LEMMA StopKeeps ==
  ASSUME IInv, NEW all \in BOOLEAN, Stop(all)
  PROVE  IInv'
<1>0. /\ Typed /\ Waits /\ caller \in [{"rx", "draft"} -> CallerType] /\ choice \in BOOLEAN /\ dropped \in BOOLEAN
      /\ turn \in Nat /\ mic \in MicType
  BY DEF IInv, Typed
<1>1. /\ caller["rx"].pc = "ready" /\ dog' = Off /\ status' = "idle" /\ cur' = cur
      /\ turn' = turn + 1 /\ sound' = [sound EXCEPT !.queue = <<>>] /\ silenced' = silenced \cup Alive
      /\ UNCHANGED <<owns, choice, dropped>>
  BY DEF Stop, Invalidate, Advance
<1>2. caller' \in {caller, DraftCancelled} /\ mic' \in MicType
  BY <1>0, TurnAssumption DEF Stop, MicType, Names
<1>3. /\ caller' \in [{"rx", "draft"} -> CallerType] /\ caller'["rx"].pc = "ready"
      /\ caller'["draft"].pc \in {"ready", caller["draft"].pc}
  BY <1>0, <1>1, <1>2, DraftCancelledTyped DEF Waits
<1>4. DogStays
  <2>1. Off \in DogType /\ Off.turn = 0 /\ Off.pc = "off"
    BY TurnAssumption DEF Off, DogType, StallUnits
  <2> QED BY <1>0, <1>1, <2>1 DEF DogStays
<1>5. CASE Active
  <2>1. CancelsIt
    BY <1>1, <1>5 DEF Stop, CancelsIt, Active
  <2>2. Waits'
    BY <1>0, <1>3, <1>5, NotActive DEF Waits
  <2> QED BY <1>0, <1>1, <1>2, <1>3, <1>4, <2>1, <2>2, Assembled DEF Turns
<1>6. CASE ~Active
  <2>1. Same /\ Alive = {}
    BY <1>1, <1>6, NotActive DEF Stop, Same
  <2>2. Waits'
    BY <1>0, <1>3, <2>1, WaitsCalm DEF Waits
  <2> QED BY <1>0, <1>1, <1>2, <1>3, <1>4, <2>1, <2>2, Assembled DEF Turns
<1> QED BY <1>5, <1>6

\* A topic is picked, or the chooser dismissed.
LEMMA ChoiceKeeps ==
  ASSUME IInv, "quick_click" \notin Env, Select \/ DismissChoice
  PROVE  IInv'
<1>0. /\ Typed /\ Waits /\ caller \in [{"rx", "draft"} -> CallerType] /\ choice \in BOOLEAN /\ dropped \in BOOLEAN
      /\ status \in {"idle", "thinking"} /\ turn \in Nat /\ mic \in MicType /\ dog \in DogType
      /\ dog.turn <= turn /\ owns \in BOOLEAN
  BY DEF IInv, Typed, Tagged
<1>1. CASE DismissChoice
  <2>1. Same /\ Stays /\ choice' = FALSE /\ UNCHANGED <<caller, mic, owns, dog, status, dropped>>
    BY <1>1 DEF DismissChoice, Same, Stays
  <2>2. Waits' /\ DogStays
    BY <1>0, <2>1 DEF Waits, Same, Alive, DogStays, Stays
  <2> QED BY <1>0, <2>1, <2>2, Assembled
<1>2. CASE Select
  <2>1. /\ Room /\ Alive = {} /\ caller["draft"].pc = "ready" /\ caller["rx"].pc = "ready"
        /\ choice' = FALSE /\ turn' = turn + 1 /\ silenced' = silenced \cup Alive
        /\ query' = [query EXCEPT ![Next1] = [Unused EXCEPT !.pc = "local", !.out = TRUE]]
        /\ cur' = Next1 /\ Watch(Next1, turn + 1)
        /\ UNCHANGED <<caller, mic, owns, sound, status, dropped>>
    BY <1>2 DEF Select
  <2>2. Next1 \in Query /\ query[Next1].pc = "none"
    BY <1>0, <2>1, RoomForOne, FirstSlot
  <2> DEFINE r == [Unused EXCEPT !.pc = "local", !.out = TRUE]
  <2>3. r \in QueryType /\ r.pc = "local" /\ r.attempt = 0
    BY Blank
  <2>4. query' = [query EXCEPT ![Next1] = r]
    BY <2>1
  <2> HIDE DEF r
  <2>5. CreatesOne
    BY <2>1, <2>2, <2>3, <2>4 DEF CreatesOne
  <2>6. Turns
    BY <2>1 DEF Turns
  <2>7. DogStays
    <3>1. dog' = [pc |-> "watch", q |-> Next1, turn |-> turn + 1, quiet |-> 0]
      BY <2>1 DEF Watch
    <3>2. Next1 \in 0..MaxQueries
      BY <2>2, TurnAssumption DEF Query
    <3> QED BY <1>0, <2>1, <2>5, <3>1, <3>2 DEF DogStays, DogType, StallUnits
  <2>8. Waits'
    BY <2>1 DEF Waits
  <2> QED BY <1>0, <2>1, <2>5, <2>6, <2>7, <2>8, Assembled
<1> QED BY <1>1, <1>2

\* tts_worker: a block leaves the queue, played only under its turn.
LEMMA WorkerKeeps ==
  ASSUME IInv, WorkerTakes \/ WorkerSends
  PROVE  IInv'
<1>0. /\ turn \in Nat /\ sound \in SoundType /\ sound.item \in Blocks /\ sound.queue \in Seq(Blocks)
      /\ Len(sound.queue) <= MaxQueue + 1 /\ Tagged /\ NoStaleSpeech
  BY DEF IInv, Typed, SoundType
<1>1. UNCHANGED <<turn, query, cur, caller, mic, owns, dog, status, choice, silenced, dropped>>
  BY DEF WorkerTakes, WorkerSends
<1>2. Nobody \in Blocks /\ Nobody.turn = 0 /\ Nobody.q = 0
  BY TurnAssumption DEF Nobody, Blocks
<1>3. 0 \notin silenced
  BY DEF IInv, Typed, Query
<1>4. /\ sound' \in SoundType /\ Len(sound'.queue) <= MaxQueue + 1
      /\ sound'.item.turn <= turn /\ (sound'.item.turn = turn => sound'.item.q \notin silenced)
      /\ \A i \in DOMAIN sound'.queue :
           sound'.queue[i].turn <= turn /\ (sound'.queue[i].turn = turn => sound'.queue[i].q \notin silenced)
  <2>1. CASE WorkerTakes
    <3>1. sound.queue # <<>> /\ sound' = [queue |-> Tail(sound.queue),
               item |-> IF Head(sound.queue).turn = turn THEN Head(sound.queue) ELSE Nobody]
      BY <2>1 DEF WorkerTakes
    <3> DEFINE s == Tail(sound.queue)
               h == Head(sound.queue)
    <3>2. /\ s \in Seq(Blocks) /\ h \in Blocks /\ h = sound.queue[1] /\ 1 \in DOMAIN sound.queue
          /\ \A i \in DOMAIN s : i + 1 \in DOMAIN sound.queue /\ s[i] = sound.queue[i + 1]
      BY <1>0, <3>1, TailFacts
    <3>3. Len(s) <= MaxQueue + 1
      BY <1>0, <3>1, TurnAssumption
    <3> HIDE DEF s, h
    <3>4. /\ sound'.queue = s
          /\ sound'.item = h \/ sound'.item = Nobody
          /\ sound' = [queue |-> s, item |-> sound'.item]
      BY <3>1 DEF s, h
    <3>5. \A i \in DOMAIN s : s[i].turn <= turn /\ (s[i].turn = turn => s[i].q \notin silenced)
      BY <1>0, <3>2 DEF Tagged, NoStaleSpeech
    <3>6. h.turn <= turn /\ (h.turn = turn => h.q \notin silenced)
      BY <1>0, <3>2 DEF Tagged, NoStaleSpeech
    <3>7. sound'.item \in Blocks /\ sound'.item.turn <= turn
          /\ (sound'.item.turn = turn => sound'.item.q \notin silenced)
      BY <1>0, <1>2, <1>3, <3>2, <3>4, <3>6
    <3>8. sound' \in SoundType
      BY <3>2, <3>4, <3>7 DEF SoundType
    <3> QED BY <3>3, <3>4, <3>5, <3>7, <3>8
  <2>2. CASE WorkerSends
    <3>1. sound' = [queue |-> sound.queue, item |-> Nobody]
      BY <1>0, <2>2 DEF WorkerSends, SoundType
    <3>2. sound' \in SoundType
      BY <1>0, <1>2, <3>1 DEF SoundType
    <3> QED BY <1>0, <1>2, <1>3, <3>1, <3>2 DEF Tagged, NoStaleSpeech
  <2> QED BY <2>1, <2>2
<1>5. Typed'
  BY <1>1, <1>4 DEF IInv, Typed
<1>6. OneQuery' /\ Waits' /\ Silences' /\ Fresh' /\ DeadlinesAreOurs' /\ Watched'
  BY <1>1 DEF IInv, OneQuery, Waits, Silences, Fresh, DeadlinesAreOurs, Watched, Alive
<1>7. Tagged' /\ NoStaleSpeech'
  BY <1>1, <1>4 DEF IInv, Tagged, NoStaleSpeech
<1> QED BY <1>5, <1>6, <1>7 DEF IInv

\* start_turn_progress_watchdog: it stands down, waits on, or ends the query.
LEMMA DogKeeps ==
  ASSUME IInv, DogActs \/ DogEnds
  PROVE  IInv'
<1>0. /\ Typed /\ Waits /\ caller \in [{"rx", "draft"} -> CallerType] /\ choice \in BOOLEAN /\ dropped \in BOOLEAN
      /\ status \in {"idle", "thinking"} /\ turn \in Nat /\ mic \in MicType /\ dog \in DogType
      /\ dog.turn <= turn /\ owns \in BOOLEAN
  BY DEF IInv, Typed, Tagged
<1>1. /\ Stays /\ cur' = cur /\ UNCHANGED <<caller, mic, owns, choice, dropped>>
      /\ status' \in {"idle", "thinking"}
  BY <1>0 DEF DogActs, DogEnds, Stays
<1>2. CASE dog' = Off /\ query' = query
  <2>1. Off \in DogType /\ Off.turn = 0 /\ Off.pc = "off"
    BY TurnAssumption DEF Off, DogType, StallUnits
  <2>2. Same /\ DogStays
    BY <1>0, <1>1, <1>2, <2>1 DEF Same, DogStays, Stays
  <2>3. Waits'
    BY <1>0, <1>1, <2>2 DEF Waits, Same, Alive
  <2> QED BY <1>0, <1>1, <2>2, <2>3, Assembled
<1>3. CASE Progress /\ owns /\ query' = query
  <2>1. /\ dog' = [dog EXCEPT !.quiet = 0] /\ dog' \in DogType /\ dog'.turn = dog.turn
    BY <1>0, <1>3 DEF Progress, DogType, StallUnits
  <2>2. sound' = sound /\ silenced' = silenced /\ turn' = turn
    BY <1>1 DEF Stays
  <2>3. Typed'
    BY <1>0, <1>1, <1>3, <2>1, <2>2 DEF Typed
  <2>4. OneQuery' /\ Waits' /\ Silences' /\ Tagged' /\ NoStaleSpeech' /\ Fresh' /\ DeadlinesAreOurs'
    BY <1>1, <1>3, <2>1, <2>2
    DEF IInv, OneQuery, Waits, Silences, Tagged, NoStaleSpeech, Fresh, DeadlinesAreOurs, Alive
  <2>5. Watched'
    <3>1. \A q \in Query : query[q].pc # "restart" /\ (query[q].pc = "stream" => query[q].attempt = 0)
      BY <1>3 DEF IInv, DeadlinesAreOurs, Attempting
    <3> QED BY <1>3, <3>1 DEF Watched
  <2> QED BY <2>3, <2>4, <2>5 DEF IInv
<1>4. CASE /\ dog.q \in Alive /\ Set(dog.q, Cancelled(query[dog.q]))
           /\ dog' = [dog EXCEPT !.pc = "gather"]
  <2>1. dog.q = cur /\ CancelsIt
    BY <1>1, <1>4, AtWork DEF CancelsIt, Set
  <2>2. dog' \in DogType /\ dog'.turn = dog.turn /\ dog'.pc = "gather"
    BY <1>0, <1>4 DEF DogType
  <2>3. DogStays
    BY <1>0, <1>1, <2>2 DEF DogStays, Stays
  <2>4. cur \in Query /\ query[cur] \in QueryType /\ query[cur].pc \notin {"none", "ended"}
    BY <1>0, <1>4, <2>1, Typing DEF Alive
  <2>5. query'[cur].pc \in Ended /\ \A p \in Query : p # cur => query'[p] = query[p]
    BY <1>0, <2>1, <2>4, Cancels DEF CancelsIt, Typed
  <2>6. Waits'
    <3>1. caller["draft"].pc # "warm"
      BY <1>4, AtWork
    <3>2. caller["rx"].pc = "await" => \E p \in Query : query'[p].pc = "none"
      BY <1>0, <2>4, <2>5 DEF Waits
    <3> QED BY <1>0, <1>1, <2>5, <3>1, <3>2 DEF Waits
  <2> QED BY <1>0, <1>1, <2>1, <2>3, <2>6, Assembled
<1>5. \/ dog' = Off /\ query' = query
      \/ Progress /\ owns /\ query' = query
      \/ dog.q \in Alive /\ Set(dog.q, Cancelled(query[dog.q])) /\ dog' = [dog EXCEPT !.pc = "gather"]
  BY DEF DogActs, DogEnds
<1> QED BY <1>2, <1>3, <1>4, <1>5

\* Time: the deadlines come nearer as the watchdog counts.
LEMMA TickKeeps ==
  ASSUME IInv, Tick
  PROVE  IInv'
<1>0. /\ Typed /\ query \in [Query -> QueryType] /\ dog \in DogType
  BY DEF IInv, Typed
<1>1. UNCHANGED <<turn, cur, caller, mic, owns, sound, status, choice, silenced, dropped>>
  BY DEF Tick
<1>2. ASSUME NEW q \in Query
      PROVE  /\ query'[q] \in QueryType /\ query'[q].pc = query[q].pc /\ query'[q].attempt = query[q].attempt
             /\ query[q].pc = "stream" /\ query[q].attempt # 0 => query'[q].left + 1 = query[q].left
  <2>0. query[q] \in QueryType /\ query[q].left \in 0..5
    BY <1>0 DEF QueryType
  <2>1. CASE query[q].pc = "stream" /\ query[q].left > 0
    <3>1. query[q].left - 1 \in 0..5
      BY <2>0, <2>1
    <3>2. query'[q] = [query[q] EXCEPT !.left = query[q].left - 1]
      BY <2>1 DEF Tick
    <3> DEFINE l == query[q].left - 1
    <3>3. l \in 0..5 /\ l + 1 = query[q].left
      BY <2>0, <3>1
    <3> HIDE DEF l
    <3>4. query'[q] = [query[q] EXCEPT !.left = l]
      BY <3>2 DEF l
    <3> DEFINE n == [query[q] EXCEPT !.left = l]
    <3>6. n \in QueryType /\ n.pc = query[q].pc /\ n.attempt = query[q].attempt /\ n.left = l
      <4>1. 0 \in 0..3
        OBVIOUS
      <4> QED BY <2>0, <3>3, <4>1, ClockSet
    <3>5. query'[q] = n
      BY <3>4
    <3> HIDE DEF n
    <3> QED BY <3>3, <3>5, <3>6
  <2>2. CASE ~(query[q].pc = "stream" /\ query[q].left > 0)
    <3>1. query'[q] = query[q]
      BY <2>2 DEF Tick
    <3>2. ~(query[q].pc = "stream" /\ query[q].attempt # 0)
      BY <2>0, <2>2 DEF Tick, Due
    <3> QED BY <2>0, <3>1, <3>2
  <2> QED BY <2>1, <2>2
<1>3. query' \in [Query -> QueryType]
  <2>1. query' = [q \in Query |-> query'[q]]
    BY DEF Tick
  <2> QED BY <1>2, <2>1
<1>4. /\ dog' \in DogType /\ dog'.pc = dog.pc /\ dog'.q = dog.q /\ dog'.turn = dog.turn
      /\ dog.pc = "watch" => dog'.quiet = dog.quiet + 1
  <2>1. CASE dog.pc = "watch"
    <3>1. dog.quiet \in 0..2
      BY <1>0, <2>1 DEF Tick, Stalled, DogType, StallUnits
    <3>2. dog' = [dog EXCEPT !.quiet = dog.quiet + 1] /\ dog.quiet + 1 \in 0..3
      BY <2>1, <3>1 DEF Tick
    <3> QED BY <1>0, <3>2 DEF DogType, StallUnits
  <2>2. CASE dog.pc # "watch"
    BY <1>0, <2>2 DEF Tick
  <2> QED BY <2>1, <2>2
<1>5. Typed'
  BY <1>0, <1>1, <1>3, <1>4 DEF Typed
<1>6. Alive' = Alive
  BY <1>2 DEF Alive
<1>7. OneQuery' /\ Silences' /\ Tagged' /\ NoStaleSpeech'
  <2>1. Silences'
    BY <1>0, <1>1, <1>2 DEF IInv, Silences, Typed
  <2> QED BY <1>1, <1>4, <1>6, <2>1 DEF IInv, OneQuery, Tagged, NoStaleSpeech
<1>8. Waits'
  BY <1>1, <1>2, <1>6 DEF IInv, Waits
<1>9. Fresh' /\ DeadlinesAreOurs'
  BY <1>1, <1>2 DEF IInv, Fresh, DeadlinesAreOurs, Attempting
<1>10. Watched'
  <2> SUFFICES ASSUME NEW q \in Query, dog'.pc = "watch", dog'.q = q, dog'.turn = turn', ~dropped'
               PROVE  /\ query'[q].pc # "restart"
                      /\ query'[q].pc = "stream" /\ query'[q].attempt = 1 => dog'.quiet + query'[q].left >= 2
                      /\ query'[q].pc = "stream" /\ query'[q].attempt = 2 => dog'.quiet + query'[q].left >= 5
    BY DEF Watched
  <2>1. /\ query[q].pc # "restart"
        /\ query[q].pc = "stream" /\ query[q].attempt = 1 => dog.quiet + query[q].left >= 2
        /\ query[q].pc = "stream" /\ query[q].attempt = 2 => dog.quiet + query[q].left >= 5
    BY <1>1, <1>4 DEF IInv, Watched
  <2>2. dog.quiet \in Nat /\ query[q].left \in Nat /\ query'[q].left \in Nat /\ dog'.quiet = dog.quiet + 1
    BY <1>0, <1>2, <1>4 DEF DogType, QueryType, StallUnits
  <2>3. query[q].pc = "stream" /\ query[q].attempt # 0 => dog'.quiet + query'[q].left = dog.quiet + query[q].left
    BY <1>2, <2>2
  <2> QED BY <1>2, <2>1, <2>3
<1> QED BY <1>5, <1>7, <1>8, <1>9, <1>10 DEF IInv

-----------------------------------------------------------------------------
(***************************************************************************)
(* The invariant.                                                          *)
(***************************************************************************)
LEMMA InitIInv ==
  ASSUME Init
  PROVE  IInv
<1>0. query = [q \in Query |-> Unused] /\ cur = 0 /\ turn = 0 /\ caller = [w \in {"rx", "draft"} |-> Ready]
      /\ dog = Off /\ sound = [queue |-> <<>>, item |-> Nobody] /\ silenced = {}
  BY DEF Init
<1>1. \A q \in Query : query[q] \in QueryType /\ query[q].pc = "none"
  BY <1>0, Blank
<1>2. Alive = {}
  BY <1>1 DEF Alive
<1>3. Ready \in CallerType /\ Ready.pc = "ready"
  BY TurnAssumption DEF Ready, CallerType, Names
<1>4. Off \in DogType /\ Off.turn = 0 /\ Off.pc = "off"
  BY TurnAssumption DEF Off, DogType, StallUnits
<1>5. Nobody \in Blocks /\ Nobody.turn = 0 /\ Nobody.q = 0 /\ <<>> \in Seq(Blocks) /\ Len(<<>>) = 0
      /\ DOMAIN <<>> = {}
  BY TurnAssumption DEF Nobody, Blocks
<1>6. sound \in SoundType /\ sound.item = Nobody /\ sound.queue = <<>>
  BY <1>0, <1>5 DEF SoundType
<1>7. mic \in MicType
  BY TurnAssumption DEF Init, MicType, Names
<1>8. query \in [Query -> QueryType] /\ caller \in [{"rx", "draft"} -> CallerType]
  BY <1>0, <1>1, <1>3
<1>9. Typed
  <2>1. Len(sound.queue) <= MaxQueue + 1 /\ 0 \in 0..MaxQueries
    BY <1>5, <1>6, TurnAssumption
  <2>2. turn \in Nat /\ cur \in 0..MaxQueries /\ choice \in BOOLEAN /\ owns \in BOOLEAN /\ dropped \in BOOLEAN
        /\ status \in {"idle", "thinking"} /\ silenced \in SUBSET Query
    BY <2>1 DEF Init
  <2> QED BY <1>0, <1>4, <1>6, <1>7, <1>8, <2>1, <2>2 DEF Typed
<1>10. Waits
  BY <1>0, <1>2, <1>3 DEF Waits
<1>11. Tagged /\ NoStaleSpeech
  BY <1>0, <1>4, <1>5, <1>6 DEF Tagged, NoStaleSpeech
<1>12. Fresh /\ DeadlinesAreOurs /\ Watched
  BY <1>0, <1>1, <1>4 DEF Fresh, DeadlinesAreOurs, Watched, Attempting
<1> QED BY <1>0, <1>2, <1>9, <1>10, <1>11, <1>12 DEF IInv, OneQuery, Silences

LEMMA NextIInv ==
  ASSUME "quick_click" \notin Env, IInv, [Next]_vars
  PROVE  IInv'
<1>1. ASSUME NEW q \in Query, HostStep(q) \/ ModelStep(q)
      PROVE  IInv'
  <2>1. Works(q) /\ Clocks'
    BY <1>1, HostWorks, ModelWorks, HostClocks, ModelClocks DEF IInv
  <2>2. Typed' /\ Tagged' /\ NoStaleSpeech' /\ OneQuery' /\ Waits' /\ Silences'
    BY <2>1, WorksTyped, WorksSafe
  <2> QED BY <2>1, <2>2 DEF IInv, Clocks
<1>2. CASE Owner
  <2>1. ASSUME NEW t \in Texts, UserText(t) PROVE IInv'
    BY <2>1, TextsKeep
  <2>2. ASSUME NEW t \in Texts, NEW final \in BOOLEAN, SpeechPartial(t, final) PROVE IInv'
    BY <2>2, PartialKeeps
  <2>3. CASE Interrupt \/ SetLanguage
    BY <2>3, StopKeeps DEF Interrupt, SetLanguage
  <2>4. CASE Select \/ DismissChoice
    BY <2>4, ChoiceKeeps
  <2> QED BY <1>2, <2>1, <2>2, <2>3, <2>4 DEF Owner
<1>3. ASSUME NEW w \in DOMAIN caller, Resumes(w) PROVE IInv'
  <2>1. w \in {"rx", "draft"}
    BY DEF IInv, Typed
  <2> QED BY <1>3, <2>1, ResumesKeeps
<1>4. CASE Replaces
  BY <1>4, ReplacesKeeps
<1>5. CASE DraftStarts \/ DraftGivesUp \/ Failsafe
  BY <1>5, DraftsKeep
<1>6. CASE WorkerTakes \/ WorkerSends
  BY <1>6, WorkerKeeps
<1>7. CASE DogActs \/ DogEnds
  BY <1>7, DogKeeps
<1>8. CASE Tick
  BY <1>8, TickKeeps
<1>9. CASE UNCHANGED vars
  <2>1. Typed'
    BY <1>9 DEF vars, IInv, Typed
  <2>2. OneQuery' /\ Waits' /\ Silences' /\ Tagged' /\ NoStaleSpeech'
    BY <1>9 DEF vars, IInv, OneQuery, Waits, Silences, Tagged, NoStaleSpeech, Alive
  <2>3. Fresh' /\ DeadlinesAreOurs' /\ Watched'
    BY <1>9 DEF vars, IInv, Fresh, DeadlinesAreOurs, Watched
  <2> QED BY <2>1, <2>2, <2>3 DEF IInv
<1> QED BY <1>1, <1>2, <1>3, <1>4, <1>5, <1>6, <1>7, <1>8, <1>9 DEF Next

LEMMA AlwaysIInv == ("quick_click" \notin Env) => (Spec => []IInv)
<1> SUFFICES ASSUME "quick_click" \notin Env PROVE Spec => []IInv
  OBVIOUS
<1>1. Init => IInv
  BY InitIInv
<1>2. IInv /\ [Next]_vars => IInv'
  BY NextIInv
<1> QED BY <1>1, <1>2, PTL DEF Spec

-----------------------------------------------------------------------------
(***************************************************************************)
(* Second layer: whoever is to tell the HUD that the session is idle.  The *)
(* last status is "thinking" only while someone is left who will say so.   *)
(***************************************************************************)
\* The phases run_query reaches inside its try, whose finally sends idle.
Entered == {"think", "stream", "restart", "hold", "speak", "hung"}

\* A query that will send idle, however it ends: inside its try, in a notice, or
\* not begun and not a draft (which may be refused in silence).
Idles(r) ==
  /\ r.pc \notin {"none", "ended"}
  /\ r.tried \/ r.pc = "notice" \/ (r.pc \in {"new", "route"} /\ ~r.draft)

TriedRightly(r) == (r.pc \in {"new", "route"} => ~r.tried) /\ (r.pc \in Entered => r.tried)

\* The watchdog is ending the query of this turn.
Ending == dog.pc = "gather" /\ dog.turn = turn

Settles ==
  status = "thinking" /\ ~dropped =>
    \/ caller["rx"].pc = "await"
    \/ \E q \in Query : Idles(query[q])
    \/ Ending /\ ~choice

Gathering == Ending => \A q \in Query : query[q].pc \in {"none", "unwind", "ended"}
Outrun == dog.pc = "watch" /\ dog.turn = turn => \A q \in Query : query[q].pc # "notice"

\* While the chooser is open no text is on its way to an answer.
Unchosen ==
  choice => /\ caller["rx"].pc # "await"
            /\ \A q \in Query : query[q].pc \in {"new", "route"} => query[q].draft

Tried == \A q \in Query : TriedRightly(query[q])
SpecTried == mic.spec # 0 => mic.spec \in Alive /\ query[mic.spec].tried

Calm == Settles /\ Gathering /\ Outrun /\ Unchosen /\ Tried /\ SpecTried

\* The fields Idles looks at, in the updates the actions make.
LEMMA KeepsTried ==
  ASSUME NEW r \in QueryType, NEW pc \in Phases
  PROVE  /\ LET n == [r EXCEPT !.pc = pc]
            IN  n.pc = pc /\ (n.tried <=> r.tried) /\ (n.draft <=> r.draft)
         /\ LET n == [r EXCEPT !.pc = pc, !.out = TRUE]
            IN  n.pc = pc /\ (n.tried <=> r.tried) /\ (n.draft <=> r.draft)
         /\ \A b \in BOOLEAN : LET n == Begun(r, b)
                               IN  n.pc = "think" /\ n.tried /\ (n.draft <=> r.draft)
         /\ \A a \in 1..3 : LET n == Attempted(r, a)
                            IN  n.pc = "stream" /\ (n.tried <=> r.tried) /\ (n.draft <=> r.draft)
  BY DEF QueryType, Begun, Attempted

LEMMA BlankTried ==
  /\ ~Over.tried /\ ~Unused.tried
  /\ \A b \in BOOLEAN, t \in Names :
       LET n == [Unused EXCEPT !.pc = "new", !.draft = b, !.text = t]
       IN  n.pc = "new" /\ ~n.tried /\ (n.draft <=> b)
  /\ LET n == [Unused EXCEPT !.pc = "local", !.out = TRUE] IN n.pc = "local" /\ ~n.tried
  BY DEF Over, Unused

LEMMA CancelTried ==
  ASSUME NEW r \in QueryType, r.pc \notin {"none", "ended"}
  PROVE  /\ r.pc = "new" => Cancelled(r).pc = "ended"
         /\ r.pc # "new" => Cancelled(r).pc = "unwind" /\ (Cancelled(r).tried <=> r.tried)
<1>1. CASE r.pc = "new"
  BY <1>1, Blank DEF Cancelled
<1>2. CASE r.pc # "new"
  <2>1. Cancelled(r) = [r EXCEPT !.pc = "unwind"] /\ "unwind" \in Phases
    BY <1>2 DEF Cancelled, Phases
  <2> QED BY <1>2, <2>1, KeepsTried
<1> QED BY <1>1, <1>2

\* A step of q, as seen by those who wait for "idle".
Settling(q) ==
  \E r \in QueryType :
    /\ query' = [query EXCEPT ![q] = r]
    /\ TriedRightly(r)
    /\ status' = "idle" \/ Idles(r) \/ (status' = status /\ ~Idles(query[q]))
    /\ r.pc = "notice" => turn' = turn + 1
    /\ query[q].pc = "unwind" => r.pc = "ended"
    /\ choice' = choice \/ query[q].pc = "local"
    /\ r.pc \in {"new", "route"} => query[q].pc \in {"new", "route"} /\ (r.draft <=> query[q].draft)
    /\ mic'.spec \in {mic.spec, 0, q}
    /\ mic'.spec = q => r.pc \notin {"none", "ended"} /\ r.tried

LEMMA SettlingKeeps ==
  ASSUME IInv, Calm, NEW q \in Query, Works(q), Settling(q)
  PROVE  Calm'
<1>0. /\ q \in Alive /\ Typed /\ dropped' = dropped /\ dog.turn <= turn /\ turn \in Nat /\ dog.turn \in Nat
      /\ turn' \in {turn, turn + 1} /\ q # 0
  BY DEF Works, Voices, IInv, Typed, Tagged, DogType, Query
<1>1. \A p \in Query : p # q => query[p].pc \in {"none", "ended"}
  BY <1>0, AtWork
<1>2. PICK r \in QueryType :
        /\ query' = [query EXCEPT ![q] = r]
        /\ TriedRightly(r)
        /\ status' = "idle" \/ Idles(r) \/ (status' = status /\ ~Idles(query[q]))
        /\ r.pc = "notice" => turn' = turn + 1
        /\ query[q].pc = "unwind" => r.pc = "ended"
        /\ choice' = choice \/ query[q].pc = "local"
        /\ r.pc \in {"new", "route"} => query[q].pc \in {"new", "route"} /\ (r.draft <=> query[q].draft)
        /\ mic'.spec \in {mic.spec, 0, q}
        /\ mic'.spec = q => r.pc \notin {"none", "ended"} /\ r.tried
  BY DEF Settling
<1>3. \A p \in Query : query'[p] = IF p = q THEN r ELSE query[p]
  BY <1>0, <1>2 DEF Typed
<1>4. dog'.pc = dog.pc /\ dog'.turn = dog.turn /\ caller'["rx"] = caller["rx"]
  BY <1>0, DraftCancelledTyped DEF Works, Typed, DogType
<1>5. Tried'
  BY <1>2, <1>3 DEF Calm, Tried
<1>6. Outrun'
  <2>1. dog.turn # turn + 1
    BY <1>0
  <2> QED BY <1>0, <1>1, <1>2, <1>3, <1>4, <2>1 DEF Calm, Outrun
<1>7. Ending' => Ending /\ turn' = turn
  BY <1>0, <1>4 DEF Ending
<1>8. Gathering'
  BY <1>0, <1>2, <1>3, <1>7 DEF Calm, Gathering, Alive
<1>9. Unchosen'
  <2>1. CASE choice' = choice
    BY <1>1, <1>2, <1>3, <1>4, <2>1 DEF Calm, Unchosen
  <2>2. CASE query[q].pc = "local"
    <3>1. caller["rx"].pc # "await"
      BY <1>0, <2>2, AtWork DEF IInv, Waits, Ended
    <3> QED BY <1>1, <1>2, <1>3, <1>4, <2>2, <3>1 DEF Unchosen
  <2> QED BY <1>2, <2>1, <2>2
<1>10. SpecTried'
  <2> SUFFICES ASSUME mic'.spec # 0 PROVE mic'.spec \in Alive' /\ query'[mic'.spec].tried
    BY DEF SpecTried
  <2>1. mic'.spec = q
    <3>1. mic.spec # 0 => mic.spec \in Alive
      BY DEF Calm, SpecTried
    <3> QED BY <1>0, <1>2, <3>1, AtWork
  <2> QED BY <1>2, <1>3, <2>1 DEF Alive
<1>11. Settles'
  <2> SUFFICES ASSUME status' = "thinking", ~dropped'
               PROVE  \/ caller'["rx"].pc = "await"
                      \/ \E p \in Query : Idles(query'[p])
                      \/ Ending' /\ ~choice'
    BY DEF Settles, Idles
  <2>1. CASE Idles(r)
    BY <1>3, <2>1
  <2>2. CASE ~Idles(r)
    <3>1. status = "thinking" /\ ~Idles(query[q]) /\ ~dropped
      BY <1>0, <1>2, <2>2
    <3>2. \A p \in Query : ~Idles(query[p])
      BY <1>1, <3>1 DEF Idles
    <3>3. caller["rx"].pc = "await" \/ (Ending /\ ~choice)
      BY <3>1, <3>2 DEF Calm, Settles
    <3>4. CASE Ending /\ ~choice
      <4>1. query[q].pc = "unwind"
        BY <1>0, <3>4 DEF Calm, Gathering, Alive
      <4>2. choice' = choice /\ turn' = turn
        BY <1>2, <4>1 DEF Works, Voices
      <4> QED BY <1>4, <3>4, <4>2 DEF Ending
    <3> QED BY <1>4, <3>3, <3>4
  <2> QED BY <2>1, <2>2
<1> QED BY <1>5, <1>6, <1>8, <1>9, <1>10, <1>11 DEF Calm

\* A query that goes on: what it will tell in the end stays.
LEMMA GoesOn ==
  ASSUME IInv, Calm, NEW q \in Alive, NEW r \in QueryType, query' = [query EXCEPT ![q] = r],
         query[q].pc \notin {"unwind", "notice"}, r.pc \notin {"none", "new", "notice", "unwind", "ended"},
         r.tried <=> query[q].tried, r.draft <=> query[q].draft,
         \/ query[q].pc \in Entered /\ r.pc # "route"
         \/ query[q].pc = "local" /\ r.pc = "drain"
         \/ query[q].pc = "new" /\ r.pc = "route",
         status' = status \/ query[q].pc \in Entered,
         choice' = choice \/ query[q].pc = "local", mic'.spec \in {mic.spec, 0}
  PROVE  Settling(q)
<1>1. TriedRightly(query[q]) /\ q # 0 /\ q \in Query
  BY AtWork DEF Calm, Tried, Query
<1>2. TriedRightly(r)
  BY <1>1 DEF TriedRightly, Entered
<1>3. Idles(r) \/ (status' = status /\ ~Idles(query[q]))
  BY <1>1 DEF TriedRightly, Entered, Idles
<1>4. r.pc \in {"new", "route"} => query[q].pc \in {"new", "route"}
  OBVIOUS
<1>5. mic'.spec = q => r.tried
  BY <1>1 DEF Calm, SpecTried
<1> QED BY <1>2, <1>3, <1>4, <1>5 DEF Settling

\* The two ways out: the finally of run_query, and a notice.
LEMMA EndsSettles ==
  ASSUME IInv, Calm, NEW q \in Alive, query[q].pc \notin {"new", "route", "notice"}, Ends(q)
  PROVE  Settling(q)
<1>1. q # 0 /\ mic \in MicType
  BY DEF Alive, Query, IInv, Typed
<1>2. status' = "idle" \/ (status' = status /\ ~Idles(query[q]))
  BY DEF Ends, Idles
<1>3. mic'.spec \in {mic.spec, 0} /\ mic'.spec # q
  <2>1. CASE query[q].tried
    BY <1>1, <2>1 DEF Ends, MicType
  <2>2. CASE ~query[q].tried
    BY <1>1, <2>2 DEF Ends, Calm, SpecTried
  <2> QED BY <2>1, <2>2
<1>4. Over \in QueryType /\ Over.pc = "ended" /\ TriedRightly(Over)
  BY Blank DEF TriedRightly, Entered
<1> QED BY <1>2, <1>3, <1>4 DEF Settling, Ends, Set

LEMMA NoticeSettles ==
  ASSUME IInv, Calm, NEW q \in Alive, query[q].pc # "unwind", Notice(q)
  PROVE  Settling(q)
<1> DEFINE r == [query[q] EXCEPT !.pc = "notice", !.out = TRUE]
<1>1. q # 0 /\ mic \in MicType /\ query[q] \in QueryType
  BY AtWork DEF Alive, Query, IInv, Typed
<1>2. r \in QueryType /\ r.pc = "notice" /\ query' = [query EXCEPT ![q] = r]
  BY <1>1, PhaseOutSet DEF Notice, Set, Phases
<1> HIDE DEF r
<1>3. mic'.spec \in {mic.spec, 0} /\ mic'.spec # q
  BY <1>1 DEF Notice, MicType
<1>4. Idles(r) /\ TriedRightly(r)
  BY <1>2 DEF Idles, TriedRightly, Entered
<1> QED BY <1>2, <1>3, <1>4 DEF Settling, Notice

\* A query that goes on to another phase, in silence or with its first words.
LEMMA PhaseSettles ==
  ASSUME IInv, Calm, NEW q \in Alive, NEW pc \in Phases,
         \/ To(q, pc)
         \/ Set(q, [query[q] EXCEPT !.pc = pc, !.out = TRUE])
         \/ \E a \in 1..3 : pc = "stream" /\ Set(q, Attempted(query[q], a)),
         query[q].pc \notin {"unwind", "notice"}, pc \notin {"none", "new", "notice", "unwind", "ended"},
         \/ query[q].pc \in Entered /\ pc # "route"
         \/ query[q].pc = "local" /\ pc = "drain"
         \/ query[q].pc = "new" /\ pc = "route",
         status' = status \/ query[q].pc \in Entered,
         choice' = choice \/ query[q].pc = "local", mic'.spec \in {mic.spec, 0}
  PROVE  Settling(q)
<1>1. query[q] \in QueryType
  BY AtWork
<1>2. PICK r \in QueryType : /\ query' = [query EXCEPT ![q] = r] /\ r.pc = pc
                             /\ (r.tried <=> query[q].tried) /\ (r.draft <=> query[q].draft)
  <2>1. CASE To(q, pc)
    BY <1>1, <2>1, PhaseSet, KeepsTried DEF To, Set
  <2>2. CASE Set(q, [query[q] EXCEPT !.pc = pc, !.out = TRUE])
    <3> DEFINE n == [query[q] EXCEPT !.pc = pc, !.out = TRUE]
    <3>1. n \in QueryType /\ n.pc = pc
      BY <1>1, PhaseOutSet
    <3>2. (n.tried <=> query[q].tried) /\ (n.draft <=> query[q].draft)
      BY <1>1, KeepsTried
    <3>3. query' = [query EXCEPT ![q] = n]
      BY <2>2 DEF Set
    <3> HIDE DEF n
    <3> QED BY <3>1, <3>2, <3>3
  <2>3. ASSUME NEW a \in 1..3, pc = "stream", Set(q, Attempted(query[q], a))
        PROVE  \E r \in QueryType : /\ query' = [query EXCEPT ![q] = r] /\ r.pc = pc
                                    /\ (r.tried <=> query[q].tried) /\ (r.draft <=> query[q].draft)
    <3> DEFINE n == Attempted(query[q], a)
    <3>1. n \in QueryType /\ n.pc = "stream"
      BY <1>1, AttemptSet
    <3>2. (n.tried <=> query[q].tried) /\ (n.draft <=> query[q].draft)
      BY <1>1, KeepsTried
    <3>3. query' = [query EXCEPT ![q] = n]
      BY <2>3 DEF Set
    <3> HIDE DEF n
    <3> QED BY <2>3, <3>1, <3>2, <3>3
  <2> QED BY <2>1, <2>2, <2>3
<1> QED BY <1>2, GoesOn

LEMMA HostSettles ==
  ASSUME IInv, Calm, NEW q \in Query, HostStep(q)
  PROVE  Settling(q)
<1>0. q \in Alive /\ query[q] \in QueryType /\ mic \in MicType /\ TriedRightly(query[q]) /\ q # 0
      /\ (mic.spec = q => query[q].tried)
  BY HostWorks, AtWork DEF Works, IInv, Typed, Calm, Tried, SpecTried, Query
<1>1. CASE Routes(q) \/ LocalAnswers(q)
  BY <1>0, <1>1, PhaseSettles DEF Routes, LocalAnswers, Quietly, Phases
<1>2. CASE OffersPlan(q)
  <2>1. query' = [query EXCEPT ![q] = Over] /\ status' = "idle" /\ choice' = choice /\ mic' = mic
        /\ query[q].pc = "route"
    BY <1>2 DEF OffersPlan, Set
  <2>2. Over \in QueryType /\ Over.pc = "ended" /\ TriedRightly(Over) /\ mic'.spec # q
    BY <1>0, <2>1, Blank DEF TriedRightly, Entered
  <2> QED BY <2>1, <2>2 DEF Settling
<1>3. CASE Refuses(q)
  <2>1. CASE query[q].draft
    <3>1. query' = [query EXCEPT ![q] = Over] /\ status' = status /\ choice' = choice /\ mic' = mic
          /\ query[q].pc \in {"new", "route"}
      BY <1>3, <2>1 DEF Refuses, Entering, Set
    <3>2. Over \in QueryType /\ Over.pc = "ended" /\ TriedRightly(Over) /\ mic'.spec # q /\ ~Idles(query[q])
      BY <1>0, <2>1, <3>1, Blank DEF TriedRightly, Entered, Idles
    <3> QED BY <3>1, <3>2 DEF Settling
  <2>2. CASE ~query[q].draft
    BY <1>0, <1>3, <2>2, NoticeSettles DEF Refuses, Entering
  <2> QED BY <2>1, <2>2
<1>4. CASE Begins(q)
  <2> DEFINE r == Begun(query[q], ~query[q].draft)
  <2>0. (~query[q].draft) \in BOOLEAN
    BY <1>0 DEF QueryType
  <2>1. r \in QueryType /\ r.pc = "think" /\ r.tried
    BY <1>0, <2>0, BeginSet, KeepsTried DEF Phases
  <2>2. query' = [query EXCEPT ![q] = r] /\ choice' = choice /\ mic'.spec \in {mic.spec, q}
        /\ query[q].pc \in {"new", "route"}
    BY <1>0, <1>4 DEF Begins, Entering, Set, Begun, MicType
  <2> HIDE DEF r
  <2>3. Idles(r) /\ TriedRightly(r)
    BY <2>1 DEF Idles, TriedRightly, Entered
  <2> QED BY <2>1, <2>2, <2>3 DEF Settling
<1>5. CASE Local(q) \/ Commits(q)
  <2>1. PICK pc \in {"local", "speak"} : Shows(q, pc)
    BY <1>5 DEF Local, Commits
  <2>2. query[q].pc \in Entered
    BY <1>5 DEF Local, Commits, Entered
  <2>3. mic'.spec \in {mic.spec, 0} /\ choice' = choice
    BY <1>0, <2>1 DEF Shows, MicType
  <2>4. Set(q, [query[q] EXCEPT !.pc = pc, !.out = TRUE])
    BY <2>1 DEF Shows
  <2> QED BY <1>0, <2>2, <2>3, <2>4, PhaseSettles DEF Phases, Entered
<1>6. CASE LocalFails(q)
  BY <1>0, <1>6, NoticeSettles DEF LocalFails
<1>7. CASE Asks(q)
  <2>1. query[q].pc = "think" /\ status' = status /\ choice' = choice /\ mic' = mic
    BY <1>7 DEF Asks, Quietly
  <2>2. To(q, "stream") \/ \E a \in 1..3 : Set(q, Attempted(query[q], a))
    <3>1. CASE owns
      BY <1>7, <3>1 DEF Asks, To
    <3>2. CASE ~owns
      BY <1>7, <3>2 DEF Asks, Attempted
    <3> QED BY <3>1, <3>2
  <2> QED BY <1>0, <2>1, <2>2, PhaseSettles DEF Phases, Entered
<1>8. CASE FirstDeltaLate(q) \/ GatewayRestarted(q)
  <2>1. query[q].pc \in {"stream", "restart"}
    BY <1>8 DEF FirstDeltaLate, GatewayRestarted, Due
  <2>2. CASE Notice(q)
    BY <1>0, <2>1, <2>2, NoticeSettles
  <2>3. CASE To(q, "restart") /\ Quietly
    BY <1>0, <2>1, <2>3, PhaseSettles DEF Quietly, Phases, Entered
  <2>4. CASE (\E n \in {2, 3} : Attempt(q, n)) /\ Quietly
    <3>1. \E a \in 1..3 : Set(q, Attempted(query[q], a))
      <4>1. PICK n \in {2, 3} : Set(q, Attempted(query[q], n))
        BY <2>4 DEF Attempt, Attempted
      <4>2. n \in 1..3
        OBVIOUS
      <4> QED BY <4>1, <4>2
    <3> QED BY <1>0, <2>1, <2>4, <3>1, PhaseSettles DEF Quietly, Phases, Entered
  <2> QED BY <1>8, <2>2, <2>3, <2>4 DEF FirstDeltaLate, GatewayRestarted
<1>9. CASE Finishes(q) \/ Unwinds(q)
  BY <1>0, <1>9, EndsSettles DEF Finishes, Unwinds
<1>10. CASE NoticeEnds(q)
  <2>1. query' = [query EXCEPT ![q] = Over] /\ status' = "idle" /\ choice' = choice /\ query[q].pc = "notice"
    BY <1>10 DEF NoticeEnds, Set
  <2>2. mic'.spec \in {mic.spec, 0} /\ mic'.spec # q
    <3>1. CASE query[q].tried
      BY <1>0, <1>10, <3>1 DEF NoticeEnds, MicType
    <3>2. CASE ~query[q].tried
      BY <1>0, <1>10, <3>2 DEF NoticeEnds
    <3> QED BY <3>1, <3>2
  <2>3. Over \in QueryType /\ Over.pc = "ended" /\ TriedRightly(Over)
    BY Blank DEF TriedRightly, Entered
  <2> QED BY <2>1, <2>2, <2>3 DEF Settling
<1> QED BY <1>1, <1>2, <1>3, <1>4, <1>5, <1>6, <1>7, <1>8, <1>9, <1>10 DEF HostStep

LEMMA ModelSettles ==
  ASSUME IInv, Calm, NEW q \in Query, ModelStep(q)
  PROVE  Settling(q)
<1>0. q \in Alive /\ query[q] \in QueryType /\ mic \in MicType /\ TriedRightly(query[q]) /\ q # 0
      /\ (mic.spec = q => query[q].tried)
  BY ModelWorks, AtWork DEF Works, IInv, Typed, Calm, Tried, SpecTried, Query
<1>1. CASE Delta(q) \/ StreamEnds(q) \/ Hangs(q)
  <2>1. PICK pc \in {"speak", "hold", "drain", "hung"} : To(q, pc)
    BY <1>1 DEF Delta, StreamEnds, Hangs
  <2>2. query[q].pc \in {"stream", "speak"} /\ status' = status /\ choice' = choice /\ mic'.spec = mic.spec
    BY <1>0, <1>1 DEF Delta, StreamEnds, Streaming, Hangs, Quietly, MicType
  <2> QED BY <1>0, <2>1, <2>2, PhaseSettles DEF Phases, Entered
<1>2. CASE Speaks(q)
  <2>1. query' = [query EXCEPT ![q] = query[q]] /\ query[q].pc = "speak"
        /\ status' = status /\ choice' = choice /\ mic' = mic
    BY <1>2 DEF Speaks, IInv, Typed
  <2> QED BY <1>0, <2>1, GoesOn DEF Entered
<1>3. CASE StreamFails(q)
  BY <1>0, <1>3, EndsSettles, NoticeSettles DEF StreamFails, Streaming
<1> QED BY <1>1, <1>2, <1>3 DEF ModelStep

\* The steps that are not of a query, by what they do to the queries: nothing
\* Idles looks at; cancel the one at work; create one.
LEMMA StillCalm ==
  ASSUME IInv, Calm,
         \A p \in Query : /\ query'[p].pc = query[p].pc
                          /\ (query'[p].tried <=> query[p].tried) /\ (query'[p].draft <=> query[p].draft),
         dog'.pc = "off" \/ (dog'.pc = dog.pc /\ dog'.turn = dog.turn /\ turn' = turn),
         mic'.spec = mic.spec, choice' => choice,
         caller'["rx"].pc = "await" <=> caller["rx"].pc = "await",
         \/ status' = "idle" \/ dropped'
         \/ status' = status /\ (dropped <=> dropped') /\ (dog'.pc = "off" => ~Ending)
  PROVE  Calm'
<1>1. Tried' /\ SpecTried'
  BY DEF Calm, Tried, SpecTried, TriedRightly, Alive
<1>2. Gathering' /\ Outrun'
  BY DEF Calm, Gathering, Outrun, Ending
<1>3. Unchosen'
  BY DEF Calm, Unchosen
<1>4. \A p \in Query : Idles(query'[p]) <=> Idles(query[p])
  BY DEF Idles
<1>5. Settles'
  <2> SUFFICES ASSUME status' = "thinking", ~dropped'
               PROVE  \/ caller'["rx"].pc = "await"
                      \/ \E p \in Query : Idles(query'[p])
                      \/ Ending' /\ ~choice'
    BY DEF Settles, Idles
  <2>1. status = "thinking" /\ ~dropped /\ (Ending => Ending')
    BY DEF Ending
  <2> QED BY <1>4, <2>1 DEF Calm, Settles
<1> QED BY <1>1, <1>2, <1>3, <1>5 DEF Calm

LEMMA CancelCalms ==
  ASSUME IInv, Calm, CancelsIt, mic'.spec = mic.spec
  PROVE  /\ Tried' /\ SpecTried' /\ Gathering' /\ Outrun'
         /\ (choice' => caller'["rx"].pc # "await") => Unchosen'
         /\ query[cur].tried => \E p \in Query : Idles(query'[p])
<1>1. cur \in Alive /\ cur \in Query /\ query[cur] \in QueryType /\ query[cur].pc \notin {"none", "ended"}
      /\ \A p \in Query : p # cur => query[p].pc \in {"none", "ended"}
  BY AtWork DEF CancelsIt, Alive
<1> DEFINE r == Cancelled(query[cur])
<1>2. /\ query[cur].pc = "new" => r.pc = "ended"
      /\ query[cur].pc # "new" => r.pc = "unwind" /\ (r.tried <=> query[cur].tried)
      /\ query' = [query EXCEPT ![cur] = r]
  BY <1>1, CancelTried DEF CancelsIt
<1> HIDE DEF r
<1>3. \A p \in Query : query'[p] = IF p = cur THEN r ELSE query[p]
  BY <1>1, <1>2 DEF IInv, Typed
<1>4. \A p \in Query : query'[p].pc \in {"none", "unwind", "ended"}
  BY <1>1, <1>2, <1>3
<1>5. Tried' /\ Gathering' /\ Outrun'
  BY <1>4 DEF Tried, TriedRightly, Entered, Gathering, Outrun
<1>6. (choice' => caller'["rx"].pc # "await") => Unchosen'
  BY <1>4 DEF Unchosen
<1>7. query[cur].tried => query[cur].pc # "new"
  BY <1>1 DEF Calm, Tried, TriedRightly
<1>8. SpecTried'
  BY <1>1, <1>2, <1>3, <1>7, AtWork DEF Calm, SpecTried, Alive
<1>9. query[cur].tried => Idles(query'[cur])
  BY <1>1, <1>2, <1>3, <1>7 DEF Idles
<1> QED BY <1>1, <1>5, <1>6, <1>8, <1>9

LEMMA CreateCalms ==
  ASSUME IInv, Calm, Alive = {}, Next1 \in Query, NEW r, query' = [query EXCEPT ![Next1] = r],
         r.pc \in {"new", "local"}, ~r.tried, mic'.spec = mic.spec, dog'.pc = "gather" => dog'.turn # turn',
         choice' => caller'["rx"].pc # "await" /\ (r.pc = "new" => r.draft)
  PROVE  /\ Tried' /\ SpecTried' /\ Gathering' /\ Outrun' /\ Unchosen'
         /\ r.pc = "new" /\ ~r.draft => \E p \in Query : Idles(query'[p])
<1>1. \A p \in Query : query'[p] = IF p = Next1 THEN r ELSE query[p]
  BY DEF IInv, Typed
<1>2. \A p \in Query : query[p].pc \in {"none", "ended"}
  BY DEF Alive
<1>3. Tried' /\ Outrun' /\ Unchosen'
  BY <1>1, <1>2 DEF Tried, TriedRightly, Entered, Outrun, Unchosen
<1>4. Gathering'
  BY DEF Gathering, Ending
<1>5. SpecTried'
  BY DEF Calm, SpecTried
<1>6. r.pc = "new" /\ ~r.draft => Idles(query'[Next1])
  BY <1>1 DEF Idles
<1> QED BY <1>3, <1>4, <1>5, <1>6

\* Create, with what Idles looks at.
LEMMA CreatingTried ==
  ASSUME IInv, Alive = {}, \E q \in Query : query[q].pc = "none", NEW t \in Names, NEW d \in BOOLEAN,
         NEW n, Create(query, t, d, n)
  PROVE  /\ Next1 \in Query
         /\ \E r : query' = [query EXCEPT ![Next1] = r] /\ r.pc = "new" /\ ~r.tried /\ (r.draft <=> d)
         /\ IF d THEN dog' = dog ELSE dog'.pc = "watch"
<1>1. Next1 \in Query
  BY FirstSlot
<1> DEFINE r == [Unused EXCEPT !.pc = "new", !.draft = d, !.text = t]
<1>2. r.pc = "new" /\ ~r.tried /\ (r.draft <=> d)
  BY BlankTried
<1>3. query' = [query EXCEPT ![Next1] = r]
  BY DEF Create
<1> HIDE DEF r
<1>4. IF d THEN dog' = dog ELSE dog'.pc = "watch"
  BY DEF Create, Watch
<1> QED BY <1>1, <1>2, <1>3, <1>4

LEMMA FinalCalm ==
  ASSUME IInv, Calm, caller["rx"].pc # "await", NEW t \in Names, NEW m \in MicType, m.spec = mic.spec,
         NEW c \in {caller, DraftCancelled}, Final(t, m, c), UNCHANGED <<owns, choice>>
  PROVE  Calm'
<1>0. /\ Typed /\ caller \in [{"rx", "draft"} -> CallerType] /\ choice' = choice /\ dog \in DogType
      /\ DraftCancelled \in [{"rx", "draft"} -> CallerType] /\ Ready.pc = "ready"
  BY DraftCancelledTyped DEF IInv, Typed, Ready
<1>1. CASE /\ caller' = [c EXCEPT !["rx"] = Ready] /\ query' = query /\ turn' = turn
           /\ mic'.spec = mic.spec /\ dog'.pc = dog.pc /\ dog'.turn = dog.turn
           /\ (status' = status /\ dropped' = dropped) \/ dropped'
  <2>1. caller'["rx"].pc = "ready"
    BY <1>0, <1>1
  <2>2. dog'.pc = "off" => ~Ending
    BY <1>1 DEF Ending
  <2> QED BY <1>0, <1>1, <2>1, <2>2, StillCalm
<1>2. CASE choice
  BY <1>1, <1>2 DEF Final
<1>3. CASE ~choice
  <2>1. CASE /\ mic' = [m EXCEPT !.latest = NoText, !.finished = NoText]
                \/ mic' = [m EXCEPT !.latest = NoText, !.finished = m.finished]
             /\ dropped' = TRUE /\ caller' = [c EXCEPT !["rx"] = Ready]
             /\ Progress /\ UNCHANGED <<turn, query, cur, sound, silenced>>
    <3>1. mic'.spec = mic.spec
      BY <2>1 DEF MicType
    <3>2. dog'.pc = dog.pc /\ dog'.turn = dog.turn
      BY <1>0, <2>1 DEF Progress, DogType
    <3> QED BY <1>1, <2>1, <3>1, <3>2
  <2>2. CASE mic' = [m EXCEPT !.latest = NoText] /\ TakeTurn("rx", t, FALSE) /\ UNCHANGED dropped
    <3>1. mic'.spec = mic.spec
      BY <2>2 DEF MicType
    <3>2. CASE Active
      <4>1. CancelsIt
        BY <2>2, <3>2 DEF TakeTurn, CancelsIt, Active
      <4>2. caller'["rx"].pc = "await"
        BY <1>0, <2>2, <3>2 DEF TakeTurn
      <4> QED BY <1>0, <1>3, <3>1, <4>1, <4>2, CancelCalms DEF Calm, Settles
    <3>3. CASE ~Active
      <4>1. Alive = {} /\ Create(query, t, FALSE, turn + 1) /\ \E q \in Query : query[q].pc = "none"
        BY <1>0, <2>2, <3>3, NotActive, RoomForOne DEF TakeTurn
      <4>2. /\ Next1 \in Query /\ dog'.pc = "watch"
            /\ \E r : query' = [query EXCEPT ![Next1] = r] /\ r.pc = "new" /\ ~r.tried /\ ~r.draft
        BY <4>1, CreatingTried
      <4>3. PICK r : query' = [query EXCEPT ![Next1] = r] /\ r.pc = "new" /\ ~r.tried /\ ~r.draft
        BY <4>2
      <4>4. /\ Tried' /\ SpecTried' /\ Gathering' /\ Outrun' /\ Unchosen'
            /\ \E p \in Query : Idles(query'[p])
        <5>1. ~choice'
          BY <1>0, <1>3
        <5>2. dog'.pc = "gather" => dog'.turn # turn'
          BY <4>2
        <5>3. choice' => caller'["rx"].pc # "await" /\ (r.pc = "new" => r.draft)
          BY <5>1
        <5> QED BY <3>1, <4>1, <4>2, <4>3, <5>2, <5>3, CreateCalms
      <4>5. Settles'
        BY <4>4 DEF Settles, Idles
      <4> QED BY <4>4, <4>5 DEF Calm
    <3> QED BY <3>2, <3>3
  <2>3. \/ /\ \/ mic' = [m EXCEPT !.latest = NoText, !.finished = NoText]
              \/ mic' = [m EXCEPT !.latest = NoText, !.finished = m.finished]
           /\ dropped' = TRUE /\ caller' = [c EXCEPT !["rx"] = Ready]
           /\ Progress /\ UNCHANGED <<turn, query, cur, sound, silenced>>
        \/ mic' = [m EXCEPT !.latest = NoText] /\ TakeTurn("rx", t, FALSE) /\ UNCHANGED dropped
    <3> DEFINE twin == t = m.latest /\ Active
               over == t = m.finished /\ ~twin
    <3>1. \/ /\ mic' = [m EXCEPT !.latest = NoText, !.finished = IF over THEN NoText ELSE m.finished]
             /\ dropped' = TRUE /\ caller' = [c EXCEPT !["rx"] = Ready]
             /\ Progress /\ UNCHANGED <<turn, query, cur, sound, silenced>>
          \/ mic' = [m EXCEPT !.latest = NoText] /\ TakeTurn("rx", t, FALSE) /\ UNCHANGED dropped
      BY <1>3 DEF Final
    <3> HIDE DEF over
    <3> QED BY <3>1
  <2> QED BY <2>1, <2>2, <2>3
<1> QED BY <1>2, <1>3

LEMMA HeardCalm ==
  ASSUME IInv, Calm, caller["rx"].pc # "await", NEW t \in Names, NEW isFinal \in BOOLEAN, Heard(t, isFinal),
         UNCHANGED <<owns, choice>>
  PROVE  Calm'
<1> DEFINE heard == [mic EXCEPT !.commit = "zero", !.latest = t]
<1>1. heard \in MicType /\ heard.spec = mic.spec
  BY DEF IInv, Typed, MicType
<1>2. CASE isFinal
  <2>1. Final(t, heard, DraftCancelled)
    BY <1>2 DEF Heard
  <2> HIDE DEF heard
  <2> QED BY <1>1, <2>1, FinalCalm
<1>3. CASE ~isFinal
  <2>1. mic'.spec = mic.spec
    BY <1>1, <1>3 DEF Heard
  <2>2. caller'["rx"] = caller["rx"]
    BY <1>3 DEF Heard, IInv, Typed
  <2>3. UNCHANGED <<query, dog, turn, choice, status, dropped>>
    BY <1>3 DEF Heard
  <2>4. dog'.pc = "off" => ~Ending
    BY <2>3 DEF Ending
  <2> HIDE DEF heard
  <2> QED BY <2>1, <2>2, <2>3, <2>4, StillCalm
<1> QED BY <1>2, <1>3

LEMMA PartialCalm ==
  ASSUME IInv, Calm, NEW t \in Texts, NEW isFinal \in BOOLEAN, SpeechPartial(t, isFinal)
  PROVE  Calm'
<1>0. /\ Typed /\ caller \in [{"rx", "draft"} -> CallerType] /\ mic \in MicType /\ t \in Names
      /\ UNCHANGED <<owns, choice>> /\ caller["rx"].pc = "ready"
  BY DEF IInv, Typed, Names, SpeechPartial
<1>1. CASE ~Active
  BY <1>0, <1>1, HeardCalm DEF SpeechPartial
<1>2. CASE Active
  <2>1. /\ mic.spec # 0 /\ cur' = cur /\ UNCHANGED <<turn, dog, status, dropped>>
        /\ \/ mic' = [mic EXCEPT !.commit = "now"] /\ query' = query /\ caller' = caller
           \/ /\ query' = [query EXCEPT ![cur] = Cancelled(@)] /\ mic' = mic
              /\ caller' = [caller EXCEPT !["rx"] = [pc |-> "replace", prev |-> cur, text |-> t]]
    BY <1>2 DEF SpeechPartial
  <2>2. CASE mic' = [mic EXCEPT !.commit = "now"] /\ query' = query /\ caller' = caller
    <3>1. mic'.spec = mic.spec /\ (dog'.pc = "off" => ~Ending)
      BY <1>0, <2>1, <2>2 DEF MicType, Ending
    <3> QED BY <1>0, <2>1, <2>2, <3>1, StillCalm
  <2>3. CASE /\ query' = [query EXCEPT ![cur] = Cancelled(@)] /\ mic' = mic
             /\ caller' = [caller EXCEPT !["rx"] = [pc |-> "replace", prev |-> cur, text |-> t]]
    <3>1. CancelsIt
      BY <1>2, <2>1, <2>3 DEF CancelsIt, Active
    <3>2. query[cur].tried
      BY <2>1, AtWork DEF Calm, SpecTried
    <3>3. caller'["rx"].pc = "replace"
      BY <1>0, <2>3
    <3>4. /\ Tried' /\ SpecTried' /\ Gathering' /\ Outrun' /\ Unchosen'
          /\ \E p \in Query : Idles(query'[p])
      BY <2>3, <3>1, <3>2, <3>3, CancelCalms
    <3>5. Settles'
      BY <3>4 DEF Settles, Idles
    <3> QED BY <3>4, <3>5 DEF Calm
  <2> QED BY <2>1, <2>2, <2>3
<1> QED BY <1>1, <1>2

\* preflight_voice_draft starts while nothing runs: then idle was sent already.
LEMMA DraftsCalm ==
  ASSUME IInv, Calm, DraftStarts \/ DraftGivesUp \/ Failsafe
  PROVE  Calm'
<1>0. /\ Typed /\ Waits /\ caller \in [{"rx", "draft"} -> CallerType] /\ mic \in MicType
      /\ dog.turn <= turn /\ turn \in Nat /\ dog.turn \in Nat
      /\ DraftCancelled \in [{"rx", "draft"} -> CallerType] /\ DraftCancelled["rx"] = caller["rx"]
  BY DraftCancelledTyped DEF IInv, Typed, Tagged, DogType
<1>1. CASE DraftGivesUp \/ Failsafe
  <2>1. /\ UNCHANGED <<query, turn, dog, status, choice, dropped>> /\ mic'.spec = mic.spec
        /\ caller'["rx"] = caller["rx"]
    BY <1>0, <1>1 DEF DraftGivesUp, Failsafe, MicType
  <2>2. dog'.pc = "off" => ~Ending
    BY <2>1 DEF Ending
  <2> QED BY <2>1, <2>2, StillCalm
<1>2. CASE DraftStarts
  <2>1. /\ Alive = {} /\ caller["rx"].pc = "ready" /\ ~Active /\ dog.pc # "gather"
        /\ TakeTurn("draft", mic.latest, TRUE) /\ UNCHANGED <<status, choice, dropped>>
        /\ mic'.spec = mic.spec
    BY <1>0, <1>2, NotActive DEF DraftStarts, Waits, MicType
  <2>2. /\ Create(query, mic.latest, TRUE, turn + 1) /\ turn' = turn + 1
        /\ caller' = [DraftCancelled EXCEPT !["draft"] = Ready]
        /\ mic.latest \in Names /\ \E q \in Query : query[q].pc = "none"
    BY <1>0, <2>1, RoomForOne DEF TakeTurn, Invalidate, Advance, MicType
  <2>3. /\ Next1 \in Query /\ dog' = dog
        /\ \E r : query' = [query EXCEPT ![Next1] = r] /\ r.pc = "new" /\ ~r.tried /\ r.draft
    BY <2>1, <2>2, CreatingTried
  <2>4. PICK r : query' = [query EXCEPT ![Next1] = r] /\ r.pc = "new" /\ ~r.tried /\ r.draft
    BY <2>3
  <2>5. caller'["rx"].pc = "ready"
    BY <1>0, <2>1, <2>2
  <2>6. Tried' /\ SpecTried' /\ Gathering' /\ Outrun' /\ Unchosen'
    BY <2>1, <2>3, <2>4, <2>5, CreateCalms
  <2>7. ~(status = "thinking" /\ ~dropped)
    BY <2>1 DEF Calm, Settles, Idles, Alive, Ending
  <2>8. Settles'
    BY <2>1, <2>7 DEF Settles
  <2> QED BY <2>6, <2>8 DEF Calm
<1> QED BY <1>1, <1>2

LEMMA ResumesCalm ==
  ASSUME IInv, Calm, NEW w \in {"rx", "draft"}, Resumes(w)
  PROVE  Calm'
<1>0. /\ Typed /\ Waits /\ caller \in [{"rx", "draft"} -> CallerType] /\ turn \in Nat
      /\ caller[w].text \in Names /\ Ready.pc = "ready"
  BY DEF IInv, Typed, CallerType, Ready
<1>1. /\ caller[w].pc = "await" /\ query[caller[w].prev].pc = "ended"
      /\ Create(query, caller[w].text, w = "draft", turn) /\ caller' = [caller EXCEPT ![w] = Ready]
      /\ UNCHANGED <<turn, mic, status, choice, dropped>>
  BY DEF Resumes
<1>2. w = "rx" /\ Alive = {} /\ \E q \in Query : query[q].pc = "none"
  BY <1>0, <1>1, NotActive DEF Waits
<1>3. Create(query, caller[w].text, FALSE, turn)
  BY <1>1, <1>2
<1>4. /\ Next1 \in Query /\ dog'.pc = "watch"
      /\ \E r : query' = [query EXCEPT ![Next1] = r] /\ r.pc = "new" /\ ~r.tried /\ ~r.draft
  BY <1>0, <1>2, <1>3, CreatingTried
<1>5. PICK r : query' = [query EXCEPT ![Next1] = r] /\ r.pc = "new" /\ ~r.tried /\ ~r.draft
  BY <1>4
<1>6. ~choice' /\ mic'.spec = mic.spec
  BY <1>1, <1>2 DEF Calm, Unchosen
<1>7. dog'.pc = "gather" => dog'.turn # turn'
  BY <1>4
<1>8. choice' => caller'["rx"].pc # "await" /\ (r.pc = "new" => r.draft)
  BY <1>6
<1>9. /\ Tried' /\ SpecTried' /\ Gathering' /\ Outrun' /\ Unchosen'
      /\ \E p \in Query : Idles(query'[p])
  BY <1>2, <1>4, <1>5, <1>6, <1>7, <1>8, CreateCalms
<1>10. Settles'
  BY <1>9 DEF Settles, Idles
<1> QED BY <1>9, <1>10 DEF Calm

LEMMA StopCalm ==
  ASSUME IInv, Calm, NEW all \in BOOLEAN, Stop(all)
  PROVE  Calm'
<1>0. /\ caller \in [{"rx", "draft"} -> CallerType] /\ mic \in MicType
      /\ DraftCancelled["rx"] = caller["rx"]
  BY DraftCancelledTyped DEF IInv, Typed
<1>1. /\ caller["rx"].pc = "ready" /\ dog'.pc = "off" /\ status' = "idle" /\ choice' = choice
  BY DEF Stop, Off
<1>2. mic'.spec = mic.spec /\ caller'["rx"].pc = "ready"
  BY <1>0, <1>1 DEF Stop, MicType
<1>3. Settles'
  BY <1>1 DEF Settles
<1>4. CASE Active
  <2>1. CancelsIt
    BY <1>4 DEF Stop, CancelsIt, Active
  <2> QED BY <1>2, <1>3, <2>1, CancelCalms DEF Calm
<1>5. CASE ~Active
  <2>1. query' = query
    BY <1>5 DEF Stop
  <2> QED BY <1>1, <1>2, <2>1, StillCalm
<1> QED BY <1>4, <1>5

LEMMA ChoiceCalm ==
  ASSUME IInv, Calm, "quick_click" \notin Env, Select \/ DismissChoice
  PROVE  Calm'
<1>1. CASE DismissChoice
  <2>1. UNCHANGED <<query, turn, caller, mic, dog, status, dropped>> /\ ~choice'
    BY <1>1 DEF DismissChoice
  <2>2. dog'.pc = "off" => ~Ending
    BY <2>1 DEF Ending
  <2> QED BY <2>1, <2>2, StillCalm
<1>2. CASE Select
  <2>1. /\ Room /\ Alive = {} /\ caller["rx"].pc = "ready" /\ choice /\ ~choice'
        /\ query' = [query EXCEPT ![Next1] = [Unused EXCEPT !.pc = "local", !.out = TRUE]]
        /\ Watch(Next1, turn + 1) /\ UNCHANGED <<caller, mic, status, dropped>>
    BY <1>2 DEF Select
  <2>2. Next1 \in Query
    BY <2>1, RoomForOne, FirstSlot DEF IInv
  <2> DEFINE r == [Unused EXCEPT !.pc = "local", !.out = TRUE]
  <2>3. r.pc = "local" /\ ~r.tried /\ query' = [query EXCEPT ![Next1] = r]
    BY <2>1, BlankTried
  <2> HIDE DEF r
  <2>4. dog'.pc = "watch"
    BY <2>1 DEF Watch
  <2>5. Tried' /\ SpecTried' /\ Gathering' /\ Outrun' /\ Unchosen'
    BY <2>1, <2>2, <2>3, <2>4, CreateCalms
  <2>6. ~(status = "thinking" /\ ~dropped)
    BY <2>1 DEF Calm, Settles, Idles, Alive
  <2>7. Settles'
    BY <2>1, <2>6 DEF Settles
  <2> QED BY <2>5, <2>7 DEF Calm
<1> QED BY <1>1, <1>2

\* The watchdog ends a query that would have sent idle: it sends it itself.
LEMMA DogCalm ==
  ASSUME IInv, Calm, DogActs \/ DogEnds
  PROVE  Calm'
<1>0. dog \in DogType /\ UNCHANGED <<turn, cur, caller, mic, choice, dropped>>
  BY DEF IInv, Typed, DogActs, DogEnds
<1>1. CASE /\ dog' = Off /\ query' = query
           /\ status' = "idle" \/ (status' = status /\ ~Ending)
  BY <1>0, <1>1, StillCalm DEF Off
<1>2. CASE Progress /\ query' = query /\ status' = status
  <2>1. dog'.pc = dog.pc /\ dog'.turn = dog.turn
    BY <1>0, <1>2 DEF Progress, DogType
  <2>2. dog'.pc = "off" => ~Ending
    BY <2>1 DEF Ending
  <2> QED BY <1>0, <1>2, <2>1, <2>2, StillCalm
<1>3. CASE /\ dog.pc = "watch" /\ dog.turn = turn /\ dog.q \in Alive
           /\ Set(dog.q, Cancelled(query[dog.q])) /\ dog' = [dog EXCEPT !.pc = "gather"] /\ status' = status
  <2>1. dog.q = cur /\ CancelsIt
    BY <1>0, <1>3, AtWork DEF CancelsIt, Set
  <2>2. dog'.pc = "gather" /\ dog'.turn = turn'
    BY <1>0, <1>3 DEF DogType
  <2>3. /\ Tried' /\ SpecTried' /\ Gathering' /\ Outrun' /\ Unchosen'
        /\ query[cur].tried => \E p \in Query : Idles(query'[p])
    BY <1>0, <2>1, CancelCalms DEF Calm, Unchosen
  <2>4. ASSUME status = "thinking", ~dropped, caller["rx"].pc # "await", ~query[cur].tried
        PROVE  ~choice
    <3>1. PICK p \in Query : Idles(query[p])
      BY <1>3, <2>4 DEF Calm, Settles, Ending
    <3>2. p = cur
      BY <3>1, AtWork DEF Idles, Alive
    <3>3. query[p].pc \in {"new", "route"} /\ ~query[p].draft
      BY <1>3, <2>4, <3>1, <3>2 DEF Idles, Calm, Outrun
    <3> QED BY <3>3 DEF Calm, Unchosen
  <2>5. Settles'
    BY <1>0, <1>3, <2>2, <2>3, <2>4 DEF Settles, Ending, Idles
  <2> QED BY <2>3, <2>5 DEF Calm
<1>4. \/ /\ dog' = Off /\ query' = query
         /\ status' = "idle" \/ (status' = status /\ ~Ending)
      \/ Progress /\ query' = query /\ status' = status
      \/ /\ dog.pc = "watch" /\ dog.turn = turn /\ dog.q \in Alive
         /\ Set(dog.q, Cancelled(query[dog.q])) /\ dog' = [dog EXCEPT !.pc = "gather"] /\ status' = status
  BY DEF DogActs, DogEnds, Stalled, Ending
<1> QED BY <1>1, <1>2, <1>3, <1>4

LEMMA TickCalm ==
  ASSUME IInv, Calm, Tick
  PROVE  Calm'
<1>0. query \in [Query -> QueryType] /\ dog \in DogType /\ UNCHANGED <<turn, caller, mic, status, choice, dropped>>
  BY DEF IInv, Typed, Tick
<1>1. ASSUME NEW p \in Query
      PROVE  /\ query'[p].pc = query[p].pc
             /\ (query'[p].tried <=> query[p].tried) /\ (query'[p].draft <=> query[p].draft)
  <2>1. query'[p] = query[p] \/ query'[p] = [query[p] EXCEPT !.left = query[p].left - 1]
    BY DEF Tick
  <2>2. query[p] \in QueryType
    BY <1>0
  <2> QED BY <2>1, <2>2 DEF QueryType
<1>2. dog'.pc = dog.pc /\ dog'.turn = dog.turn
  BY <1>0 DEF Tick, DogType
<1>3. dog'.pc = "off" => ~Ending
  BY <1>2 DEF Ending
<1> QED BY <1>0, <1>1, <1>2, <1>3, StillCalm

LEMMA InitCalm ==
  ASSUME Init
  PROVE  Calm
<1>1. status = "idle" /\ ~choice /\ mic.spec = 0 /\ dog = Off /\ query = [q \in Query |-> Unused]
  BY DEF Init
<1>2. dog.pc = "off" /\ \A q \in Query : query[q].pc = "none"
  BY <1>1, Blank DEF Off
<1> QED BY <1>1, <1>2
    DEF Calm, Settles, Gathering, Outrun, Unchosen, Tried, TriedRightly, Entered, SpecTried, Ending

LEMMA NextCalm ==
  ASSUME "quick_click" \notin Env, IInv, Calm, [Next]_vars
  PROVE  Calm'
<1>1. ASSUME NEW q \in Query, HostStep(q) \/ ModelStep(q) PROVE Calm'
  BY <1>1, HostWorks, ModelWorks, HostSettles, ModelSettles, SettlingKeeps DEF IInv
<1>2. CASE Owner
  <2>1. ASSUME NEW t \in Texts, UserText(t) PROVE Calm'
    <3>1. t \in Names /\ mic \in MicType
      BY DEF Names, IInv, Typed
    <3>2. Final(t, mic, caller) /\ UNCHANGED <<owns, choice>> /\ caller["rx"].pc # "await"
      BY <2>1 DEF UserText
    <3> QED BY <3>1, <3>2, FinalCalm
  <2>2. ASSUME NEW t \in Texts, NEW final \in BOOLEAN, SpeechPartial(t, final) PROVE Calm'
    BY <2>2, PartialCalm
  <2>3. CASE Interrupt \/ SetLanguage
    BY <2>3, StopCalm DEF Interrupt, SetLanguage
  <2>4. CASE Select \/ DismissChoice
    BY <2>4, ChoiceCalm
  <2> QED BY <1>2, <2>1, <2>2, <2>3, <2>4 DEF Owner
<1>3. ASSUME NEW w \in DOMAIN caller, Resumes(w) PROVE Calm'
  <2>1. w \in {"rx", "draft"}
    BY DEF IInv, Typed
  <2> QED BY <1>3, <2>1, ResumesCalm
<1>4. CASE Replaces
  <2>1. caller["rx"].text \in Names
    BY DEF IInv, Typed, CallerType
  <2>2. Heard(caller["rx"].text, TRUE) /\ UNCHANGED <<owns, choice>> /\ caller["rx"].pc # "await"
    BY <1>4 DEF Replaces
  <2> QED BY <2>1, <2>2, HeardCalm
<1>5. CASE DraftStarts \/ DraftGivesUp \/ Failsafe
  BY <1>5, DraftsCalm
<1>6. CASE WorkerTakes \/ WorkerSends \/ UNCHANGED vars
  <2>1. UNCHANGED <<turn, query, caller, mic, dog, status, choice, dropped>>
    BY <1>6 DEF WorkerTakes, WorkerSends, vars
  <2>2. dog'.pc = "off" => ~Ending
    BY <2>1 DEF Ending
  <2> QED BY <2>1, <2>2, StillCalm
<1>7. CASE DogActs \/ DogEnds
  BY <1>7, DogCalm
<1>8. CASE Tick
  BY <1>8, TickCalm
<1> QED BY <1>1, <1>2, <1>3, <1>4, <1>5, <1>6, <1>7, <1>8 DEF Next

-----------------------------------------------------------------------------
(***************************************************************************)
(* Third layer: a draft is hidden until its endpoint.  Until it speaks it  *)
(* is the one the microphone holds back, and was prepared with a hold.     *)
(***************************************************************************)
Undecided == {"think", "stream", "restart", "hold"}
Prepared == Undecided \cup {"new", "route"}

\* What a query r with number q owes to the microphone m.
Hidden(r, q, m) ==
  r.draft => /\ r.pc \in Undecided => ~r.out /\ m.spec = q
             /\ r.pc \in Prepared => m.commit \in {"held", "now"}

HiddenDrafts == \A q \in Query : Hidden(query[q], q, mic)

\* The step of DraftsWait.
Waited == \A q \in Query : (query[q].draft /\ query[q].pc # "speak" /\ query'[q].pc = "speak")
                             => mic.commit = "now"

LEMMA KeepsOut ==
  ASSUME NEW r \in QueryType, NEW pc \in Phases
  PROVE  /\ LET n == [r EXCEPT !.pc = pc]
            IN  n.pc = pc /\ (n.out <=> r.out) /\ (n.draft <=> r.draft)
         /\ LET n == [r EXCEPT !.pc = pc, !.out = TRUE]
            IN  n.pc = pc /\ (n.draft <=> r.draft)
         /\ \A b \in BOOLEAN : LET n == Begun(r, b)
                               IN  n.pc = "think" /\ (n.out <=> b) /\ (n.draft <=> r.draft)
         /\ \A a \in 1..3 : LET n == Attempted(r, a)
                            IN  n.pc = "stream" /\ (n.out <=> r.out) /\ (n.draft <=> r.draft)
  BY DEF QueryType, Begun, Attempted

\* A step of the query q.
LEMMA OneHidden ==
  ASSUME IInv, HiddenDrafts, NEW q \in Alive, NEW r, query' = [query EXCEPT ![q] = r],
         Hidden(r, q, mic'), query[q].draft /\ query[q].pc # "speak" /\ r.pc = "speak" => mic.commit = "now"
  PROVE  HiddenDrafts' /\ Waited
<1>1. \A p \in Query : p # q => query[p].pc \in {"none", "ended"}
  BY AtWork
<1>2. \A p \in Query : query'[p] = IF p = q THEN r ELSE query[p]
  BY DEF IInv, Typed
<1>3. \A p \in Query : p # q => Hidden(query'[p], p, mic')
  BY <1>1, <1>2 DEF Hidden, Undecided, Prepared
<1>4. HiddenDrafts'
  BY <1>2, <1>3 DEF HiddenDrafts, Hidden
<1>5. Waited
  BY <1>1, <1>2 DEF Waited
<1> QED BY <1>4, <1>5

\* It is past its answer, or out of it.
LEMMA PastHidden ==
  ASSUME IInv, HiddenDrafts, NEW q \in Alive, NEW r, query' = [query EXCEPT ![q] = r],
         r.pc \in {"local", "hung", "drain", "notice", "unwind", "ended"}
  PROVE  HiddenDrafts' /\ Waited
<1>1. Hidden(r, q, mic')
  BY DEF Hidden, Undecided, Prepared
<1> QED BY <1>1, OneHidden

LEMMA PastPhase ==
  ASSUME IInv, HiddenDrafts, NEW q \in Alive, NEW pc \in {"local", "hung", "drain", "notice", "unwind"},
         To(q, pc) \/ Set(q, [query[q] EXCEPT !.pc = pc, !.out = TRUE])
  PROVE  HiddenDrafts' /\ Waited
<1>1. query[q] \in QueryType /\ pc \in Phases
  BY AtWork DEF Phases
<1>2. CASE To(q, pc)
  <2> DEFINE r == [query[q] EXCEPT !.pc = pc]
  <2>1. r.pc = pc /\ query' = [query EXCEPT ![q] = r]
    BY <1>1, <1>2, KeepsOut DEF To, Set
  <2> HIDE DEF r
  <2> QED BY <2>1, PastHidden
<1>3. CASE Set(q, [query[q] EXCEPT !.pc = pc, !.out = TRUE])
  <2> DEFINE r == [query[q] EXCEPT !.pc = pc, !.out = TRUE]
  <2>1. r.pc = pc /\ query' = [query EXCEPT ![q] = r]
    BY <1>1, <1>3, KeepsOut DEF Set
  <2> HIDE DEF r
  <2> QED BY <2>1, PastHidden
<1> QED BY <1>2, <1>3

LEMMA OverHidden ==
  ASSUME IInv, HiddenDrafts, NEW q \in Alive, Set(q, Over)
  PROVE  HiddenDrafts' /\ Waited
  BY Blank, PastHidden DEF Set

\* It goes on without a word.
LEMMA StillHidden ==
  ASSUME IInv, HiddenDrafts, NEW q \in Alive, NEW pc \in {"route", "stream", "restart", "hold"},
         To(q, pc) \/ \E a \in 1..3 : pc = "stream" /\ Set(q, Attempted(query[q], a)),
         query[q].pc \in Undecided \/ (query[q].pc = "new" /\ pc = "route"), mic' = mic
  PROVE  HiddenDrafts' /\ Waited
<1>1. query[q] \in QueryType /\ pc \in Phases
  BY AtWork DEF Phases
<1>2. PICK r : /\ query' = [query EXCEPT ![q] = r] /\ r.pc = pc
               /\ (r.out <=> query[q].out) /\ (r.draft <=> query[q].draft)
  <2>1. CASE To(q, pc)
    <3> DEFINE n == [query[q] EXCEPT !.pc = pc]
    <3>1. n.pc = pc /\ (n.out <=> query[q].out) /\ (n.draft <=> query[q].draft)
      BY <1>1, KeepsOut
    <3>2. query' = [query EXCEPT ![q] = n]
      BY <2>1 DEF To, Set
    <3> HIDE DEF n
    <3> QED BY <3>1, <3>2
  <2>2. ASSUME NEW a \in 1..3, pc = "stream", Set(q, Attempted(query[q], a))
        PROVE  \E r : /\ query' = [query EXCEPT ![q] = r] /\ r.pc = pc
                      /\ (r.out <=> query[q].out) /\ (r.draft <=> query[q].draft)
    <3> DEFINE n == Attempted(query[q], a)
    <3>1. n.pc = "stream" /\ (n.out <=> query[q].out) /\ (n.draft <=> query[q].draft)
      BY <1>1, KeepsOut
    <3>2. query' = [query EXCEPT ![q] = n]
      BY <2>2 DEF Set
    <3> HIDE DEF n
    <3> QED BY <2>2, <3>1, <3>2
  <2> QED BY <2>1, <2>2
<1>3. Hidden(query[q], q, mic)
  BY AtWork DEF HiddenDrafts
<1>4. Hidden(r, q, mic')
  BY <1>2, <1>3 DEF Hidden, Undecided, Prepared
<1> QED BY <1>2, <1>4, OneHidden

LEMMA HostHidden ==
  ASSUME IInv, HiddenDrafts, NEW q \in Query, HostStep(q)
  PROVE  HiddenDrafts' /\ Waited
<1>0. q \in Alive /\ query[q] \in QueryType /\ mic \in MicType /\ Hidden(query[q], q, mic) /\ q \in 0..MaxQueries
  BY HostWorks, AtWork, Typing DEF Works, IInv, Typed, HiddenDrafts
<1>1. CASE Routes(q)
  BY <1>0, <1>1, StillHidden DEF Routes, Quietly
<1>2. CASE OffersPlan(q) \/ Finishes(q) \/ Unwinds(q) \/ NoticeEnds(q)
  <2>1. Set(q, Over)
    BY <1>2 DEF OffersPlan, Finishes, Unwinds, NoticeEnds, Ends
  <2> QED BY <1>0, <2>1, OverHidden
<1>3. CASE Refuses(q) \/ LocalFails(q)
  <2>1. Set(q, Over) \/ Set(q, [query[q] EXCEPT !.pc = "notice", !.out = TRUE])
    BY <1>3 DEF Refuses, LocalFails, Notice
  <2> QED BY <1>0, <2>1, OverHidden, PastPhase
<1>4. CASE Begins(q)
  <2> DEFINE r == Begun(query[q], ~query[q].draft)
  <2>0. (~query[q].draft) \in BOOLEAN
    BY <1>0 DEF QueryType
  <2>1. r.pc = "think" /\ (r.out <=> ~query[q].draft) /\ (r.draft <=> query[q].draft)
    <3> DEFINE b == ~query[q].draft
    <3>1. b \in BOOLEAN /\ "think" \in Phases
      BY <2>0 DEF Phases
    <3> HIDE DEF b
    <3>2. LET n == Begun(query[q], b) IN n.pc = "think" /\ (n.out <=> b) /\ (n.draft <=> query[q].draft)
      BY <1>0, <3>1, KeepsOut
    <3> QED BY <3>2 DEF b
  <2>2. query' = [query EXCEPT ![q] = r] /\ query[q].pc \in {"new", "route"}
    BY <1>4 DEF Begins, Entering, Set, Begun
  <2> HIDE DEF r
  <2>3. query[q].draft => mic'.spec = q /\ mic'.commit = mic.commit
    BY <1>0, <1>4 DEF Begins, MicType
  <2>4. Hidden(r, q, mic')
    BY <1>0, <2>1, <2>2, <2>3 DEF Hidden, Undecided, Prepared
  <2> QED BY <1>0, <2>1, <2>2, <2>4, OneHidden
<1>5. CASE Local(q)
  <2>1. Set(q, [query[q] EXCEPT !.pc = "local", !.out = TRUE])
    BY <1>5 DEF Local, Shows
  <2> QED BY <1>0, <2>1, PastPhase
<1>6. CASE Commits(q)
  <2>1. query[q].pc = "hold" /\ Released(q) /\ Set(q, [query[q] EXCEPT !.pc = "speak", !.out = TRUE])
    BY <1>6 DEF Commits, Shows
  <2>2. query[q].draft => mic.commit = "now"
    BY <1>0, <2>1 DEF Hidden, Undecided, Prepared, Released, MicType
  <2> DEFINE r == [query[q] EXCEPT !.pc = "speak", !.out = TRUE]
  <2>3. r.pc = "speak" /\ query' = [query EXCEPT ![q] = r]
    BY <1>0, <2>1, KeepsOut DEF Set, Phases
  <2> HIDE DEF r
  <2>4. Hidden(r, q, mic')
    BY <2>3 DEF Hidden, Undecided, Prepared
  <2> QED BY <1>0, <2>2, <2>3, <2>4, OneHidden
<1>7. CASE LocalAnswers(q)
  BY <1>0, <1>7, PastPhase DEF LocalAnswers
<1>8. CASE Asks(q)
  <2>1. query[q].pc \in Undecided /\ mic' = mic
    BY <1>8 DEF Asks, Quietly, Undecided
  <2>2. To(q, "stream") \/ \E a \in 1..3 : Set(q, Attempted(query[q], a))
    <3>1. CASE owns
      BY <1>8, <3>1 DEF Asks, To
    <3>2. CASE ~owns
      BY <1>8, <3>2 DEF Asks, Attempted
    <3> QED BY <3>1, <3>2
  <2> QED BY <1>0, <2>1, <2>2, StillHidden
<1>9. CASE FirstDeltaLate(q) \/ GatewayRestarted(q)
  <2>1. query[q].pc \in Undecided
    BY <1>9 DEF FirstDeltaLate, GatewayRestarted, Due, Undecided
  <2>2. CASE Notice(q)
    BY <1>0, <2>2, PastPhase DEF Notice
  <2>3. CASE To(q, "restart") /\ Quietly
    BY <1>0, <2>1, <2>3, StillHidden DEF Quietly
  <2>4. CASE (\E n \in {2, 3} : Attempt(q, n)) /\ Quietly
    <3>1. \E a \in 1..3 : Set(q, Attempted(query[q], a))
      <4>1. PICK n \in {2, 3} : Set(q, Attempted(query[q], n))
        BY <2>4 DEF Attempt, Attempted
      <4>2. n \in 1..3
        OBVIOUS
      <4> QED BY <4>1, <4>2
    <3> QED BY <1>0, <2>1, <2>4, <3>1, StillHidden DEF Quietly
  <2> QED BY <1>9, <2>2, <2>3, <2>4 DEF FirstDeltaLate, GatewayRestarted
<1> QED BY <1>1, <1>2, <1>3, <1>4, <1>5, <1>6, <1>7, <1>8, <1>9 DEF HostStep

LEMMA ModelHidden ==
  ASSUME IInv, HiddenDrafts, NEW q \in Query, ModelStep(q)
  PROVE  HiddenDrafts' /\ Waited
<1>0. q \in Alive /\ query[q] \in QueryType /\ mic \in MicType /\ Hidden(query[q], q, mic)
  BY ModelWorks, AtWork DEF Works, IInv, Typed, HiddenDrafts
<1>1. CASE Delta(q)
  <2>1. query[q].pc = "stream" /\ mic' = mic
    BY <1>1 DEF Delta, Quietly
  <2>2. CASE ~query[q].out
    BY <1>0, <1>1, <2>1, <2>2, StillHidden DEF Delta, Undecided
  <2>3. CASE query[q].out
    <3> DEFINE r == [query[q] EXCEPT !.pc = "speak"]
    <3>1. ~query[q].draft
      BY <1>0, <2>1, <2>3 DEF Hidden, Undecided
    <3>2. r.pc = "speak" /\ query' = [query EXCEPT ![q] = r]
      BY <1>0, <1>1, <2>3, KeepsOut DEF Delta, To, Set, Phases
    <3> HIDE DEF r
    <3>3. Hidden(r, q, mic')
      BY <3>2 DEF Hidden, Undecided, Prepared
    <3> QED BY <1>0, <3>1, <3>2, <3>3, OneHidden
  <2> QED BY <2>2, <2>3
<1>2. CASE StreamEnds(q) \/ Hangs(q)
  BY <1>0, <1>2, PastPhase DEF StreamEnds, Hangs
<1>3. CASE Speaks(q)
  <2>1. query' = [query EXCEPT ![q] = query[q]] /\ query[q].pc = "speak" /\ mic' = mic
    BY <1>3 DEF Speaks, IInv, Typed
  <2> QED BY <1>0, <2>1, OneHidden
<1>4. CASE StreamFails(q)
  <2>1. Set(q, Over) \/ Set(q, [query[q] EXCEPT !.pc = "notice", !.out = TRUE])
    BY <1>4 DEF StreamFails, Ends, Notice
  <2> QED BY <1>0, <2>1, OverHidden, PastPhase
<1> QED BY <1>1, <1>2, <1>3, <1>4 DEF ModelStep

\* The other steps: the queries stay what they are, and so does the hold while
\* one is at work; the one at work is cancelled; a new one is prepared.
LEMMA SameHidden ==
  ASSUME HiddenDrafts,
         \A p \in Query : /\ query'[p].pc = query[p].pc
                          /\ (query'[p].out <=> query[p].out) /\ (query'[p].draft <=> query[p].draft),
         mic'.spec = mic.spec, mic'.commit \in {mic.commit, "now"} \/ Alive = {}
  PROVE  HiddenDrafts' /\ Waited
<1>1. Waited
  BY DEF Waited
<1>2. Alive = {} => \A p \in Query : query[p].pc \in {"none", "ended"}
  BY DEF Alive
<1>3. \A p \in Query : Hidden(query'[p], p, mic')
  BY <1>2 DEF HiddenDrafts, Hidden, Undecided, Prepared
<1> QED BY <1>1, <1>3 DEF HiddenDrafts, Hidden

LEMMA CancelHidden ==
  ASSUME IInv, HiddenDrafts, CancelsIt
  PROVE  HiddenDrafts' /\ Waited
<1>1. cur \in Alive /\ query[cur] \in QueryType /\ query[cur].pc \notin {"none", "ended"}
  BY AtWork DEF CancelsIt, Alive
<1> DEFINE r == Cancelled(query[cur])
<1>2. r.pc \in Ended /\ query' = [query EXCEPT ![cur] = r]
  BY <1>1, Cancels DEF CancelsIt
<1> HIDE DEF r
<1> QED BY <1>1, <1>2, PastHidden DEF Ended

LEMMA CreateHidden ==
  ASSUME IInv, HiddenDrafts, Alive = {}, Next1 \in Query, NEW r, query' = [query EXCEPT ![Next1] = r],
         r.pc \in {"new", "local"}, r.draft /\ r.pc = "new" => mic'.commit = "held"
  PROVE  HiddenDrafts' /\ Waited
<1>1. \A p \in Query : query'[p] = IF p = Next1 THEN r ELSE query[p]
  BY DEF IInv, Typed
<1>2. \A p \in Query : query[p].pc \in {"none", "ended"}
  BY DEF Alive
<1>3. \A p \in Query : Hidden(query'[p], p, mic')
  BY <1>1, <1>2 DEF Hidden, Undecided, Prepared
<1>4. Waited
  BY <1>1, <1>2 DEF Waited
<1> QED BY <1>3, <1>4 DEF HiddenDrafts, Hidden

LEMMA TakingHidden ==
  ASSUME IInv, HiddenDrafts, NEW w \in {"rx", "draft"}, NEW t \in Names, NEW d \in BOOLEAN, TakeTurn(w, t, d),
         d => mic'.commit = "held"
  PROVE  HiddenDrafts' /\ Waited
<1>1. CASE Active
  <2>1. CancelsIt
    BY <1>1 DEF TakeTurn, CancelsIt, Active
  <2> QED BY <2>1, CancelHidden
<1>2. CASE ~Active
  <2>1. Alive = {} /\ Create(query, t, d, turn + 1) /\ \E q \in Query : query[q].pc = "none"
    BY <1>2, NotActive, RoomForOne DEF TakeTurn, IInv
  <2>2. /\ Next1 \in Query
        /\ \E r : query' = [query EXCEPT ![Next1] = r] /\ r.pc = "new" /\ ~r.tried /\ (r.draft <=> d)
    BY <2>1, CreatingTried
  <2> QED BY <2>1, <2>2, CreateHidden
<1> QED BY <1>1, <1>2

LEMMA FinalHidden ==
  ASSUME IInv, HiddenDrafts, NEW t \in Names, NEW m \in MicType, m.spec = mic.spec,
         m.commit = mic.commit \/ Alive = {}, NEW c, Final(t, m, c)
  PROVE  HiddenDrafts' /\ Waited
<1>1. CASE query' = query /\ mic'.spec = m.spec /\ mic'.commit = m.commit
  BY <1>1, SameHidden
<1>2. CASE choice
  BY <1>1, <1>2 DEF Final
<1>3. CASE ~choice
  <2>1. CASE query' = query /\ \/ mic' = [m EXCEPT !.latest = NoText, !.finished = NoText]
                               \/ mic' = [m EXCEPT !.latest = NoText, !.finished = m.finished]
    BY <1>1, <2>1 DEF MicType
  <2>2. CASE TakeTurn("rx", t, FALSE)
    BY <2>2, TakingHidden
  <2>3. \/ TakeTurn("rx", t, FALSE)
        \/ query' = query /\ \/ mic' = [m EXCEPT !.latest = NoText, !.finished = NoText]
                             \/ mic' = [m EXCEPT !.latest = NoText, !.finished = m.finished]
    BY <1>3 DEF Final
  <2> QED BY <2>1, <2>2, <2>3
<1> QED BY <1>2, <1>3

\* speech_partial clears the hold only when nothing runs.
LEMMA HeardHidden ==
  ASSUME IInv, HiddenDrafts, Alive = {}, NEW t \in Names, NEW isFinal \in BOOLEAN, Heard(t, isFinal)
  PROVE  HiddenDrafts' /\ Waited
<1> DEFINE heard == [mic EXCEPT !.commit = "zero", !.latest = t]
<1>1. heard \in MicType /\ heard.spec = mic.spec
  BY DEF IInv, Typed, MicType
<1>2. IF isFinal THEN Final(t, heard, DraftCancelled) ELSE mic' = heard /\ query' = query
  BY DEF Heard
<1> HIDE DEF heard
<1>3. CASE isFinal
  BY <1>1, <1>2, <1>3, FinalHidden
<1>4. CASE ~isFinal
  BY <1>1, <1>2, <1>4, SameHidden
<1> QED BY <1>3, <1>4

LEMMA PartialHidden ==
  ASSUME IInv, HiddenDrafts, NEW t \in Texts, NEW isFinal \in BOOLEAN, SpeechPartial(t, isFinal)
  PROVE  HiddenDrafts' /\ Waited
<1>1. CASE ~Active
  <2>1. Heard(t, isFinal) /\ Alive = {} /\ t \in Names
    BY <1>1, NotActive DEF SpeechPartial, Names
  <2> QED BY <2>1, HeardHidden
<1>2. CASE Active
  <2>1. \/ mic' = [mic EXCEPT !.commit = "now"] /\ query' = query
        \/ query' = [query EXCEPT ![cur] = Cancelled(@)] /\ cur' = cur
    BY <1>2 DEF SpeechPartial
  <2>2. CASE mic' = [mic EXCEPT !.commit = "now"] /\ query' = query
    <3>1. mic'.commit = "now" /\ mic'.spec = mic.spec
      BY <2>2 DEF IInv, Typed, MicType
    <3> QED BY <2>2, <3>1, SameHidden
  <2>3. CASE query' = [query EXCEPT ![cur] = Cancelled(@)] /\ cur' = cur
    BY <1>2, <2>3, CancelHidden DEF CancelsIt, Active
  <2> QED BY <2>1, <2>2, <2>3
<1> QED BY <1>1, <1>2

LEMMA DraftsHidden ==
  ASSUME IInv, HiddenDrafts, DraftStarts \/ DraftGivesUp \/ Failsafe
  PROVE  HiddenDrafts' /\ Waited
<1>1. CASE DraftGivesUp \/ Failsafe
  <2>1. query' = query /\ mic'.spec = mic.spec /\ mic'.commit \in {mic.commit, "now"}
    BY <1>1 DEF DraftGivesUp, Failsafe, IInv, Typed, MicType
  <2> QED BY <2>1, SameHidden
<1>2. CASE DraftStarts
  <2>1. TakeTurn("draft", mic.latest, TRUE) /\ mic.latest \in Names /\ mic'.commit = "held"
    BY <1>2 DEF DraftStarts, IInv, Typed, MicType
  <2> QED BY <2>1, TakingHidden
<1> QED BY <1>1, <1>2

LEMMA ResumesHidden ==
  ASSUME IInv, HiddenDrafts, NEW w \in {"rx", "draft"}, Resumes(w)
  PROVE  HiddenDrafts' /\ Waited
<1>1. /\ caller[w].pc = "await" /\ query[caller[w].prev].pc = "ended"
      /\ Create(query, caller[w].text, w = "draft", turn)
  BY DEF Resumes
<1>2. w = "rx" /\ Alive = {} /\ \E q \in Query : query[q].pc = "none"
  BY <1>1, NotActive DEF Waits, IInv
<1>3. Create(query, caller[w].text, FALSE, turn) /\ caller[w].text \in Names
  BY <1>1, <1>2 DEF IInv, Typed, CallerType
<1>4. /\ Next1 \in Query
      /\ \E r : query' = [query EXCEPT ![Next1] = r] /\ r.pc = "new" /\ ~r.tried /\ (r.draft <=> FALSE)
  BY <1>2, <1>3, CreatingTried
<1> QED BY <1>2, <1>4, CreateHidden

LEMMA StopHidden ==
  ASSUME IInv, HiddenDrafts, NEW all \in BOOLEAN, Stop(all)
  PROVE  HiddenDrafts' /\ Waited
<1>1. mic'.spec = mic.spec /\ mic'.commit = mic.commit
  BY DEF Stop, IInv, Typed, MicType
<1>2. CASE Active
  <2>1. CancelsIt
    BY <1>2 DEF Stop, CancelsIt, Active
  <2> QED BY <2>1, CancelHidden
<1>3. CASE ~Active
  <2>1. query' = query
    BY <1>3 DEF Stop
  <2> QED BY <1>1, <2>1, SameHidden
<1> QED BY <1>2, <1>3

LEMMA SelectHidden ==
  ASSUME IInv, HiddenDrafts, "quick_click" \notin Env, Select
  PROVE  HiddenDrafts' /\ Waited
<1>1. /\ Room /\ Alive = {}
      /\ query' = [query EXCEPT ![Next1] = [Unused EXCEPT !.pc = "local", !.out = TRUE]]
  BY DEF Select
<1>2. Next1 \in Query
  BY <1>1, RoomForOne, FirstSlot DEF IInv
<1> DEFINE r == [Unused EXCEPT !.pc = "local", !.out = TRUE]
<1>3. r.pc = "local" /\ query' = [query EXCEPT ![Next1] = r]
  BY <1>1, BlankTried
<1> HIDE DEF r
<1> QED BY <1>1, <1>2, <1>3, CreateHidden

LEMMA DogHidden ==
  ASSUME IInv, HiddenDrafts, DogActs \/ DogEnds
  PROVE  HiddenDrafts' /\ Waited
<1>1. CASE query' = query
  <2>1. mic' = mic
    BY DEF DogActs, DogEnds
  <2> QED BY <1>1, <2>1, SameHidden
<1>2. CASE dog.q \in Alive /\ Set(dog.q, Cancelled(query[dog.q]))
  <2>1. CancelsIt
    BY <1>2, AtWork DEF CancelsIt, Set, DogActs, DogEnds
  <2> QED BY <2>1, CancelHidden
<1>3. query' = query \/ (dog.q \in Alive /\ Set(dog.q, Cancelled(query[dog.q])))
  BY DEF DogActs, DogEnds
<1> QED BY <1>1, <1>2, <1>3

LEMMA TickHidden ==
  ASSUME IInv, HiddenDrafts, Tick
  PROVE  HiddenDrafts' /\ Waited
<1>1. mic' = mic
  BY DEF Tick
<1>2. ASSUME NEW p \in Query
      PROVE  /\ query'[p].pc = query[p].pc
             /\ (query'[p].out <=> query[p].out) /\ (query'[p].draft <=> query[p].draft)
  <2>1. query'[p] = query[p] \/ query'[p] = [query[p] EXCEPT !.left = query[p].left - 1]
    BY DEF Tick
  <2>2. query[p] \in QueryType
    BY DEF IInv, Typed
  <2> QED BY <2>1, <2>2 DEF QueryType
<1> QED BY <1>1, <1>2, SameHidden

LEMMA InitHidden ==
  ASSUME Init
  PROVE  HiddenDrafts
<1>1. \A q \in Query : query[q].pc = "none"
  BY Blank DEF Init
<1> QED BY <1>1 DEF HiddenDrafts, Hidden, Undecided, Prepared

LEMMA NextHidden ==
  ASSUME "quick_click" \notin Env, IInv, HiddenDrafts, [Next]_vars
  PROVE  HiddenDrafts' /\ Waited
<1>1. ASSUME NEW q \in Query, HostStep(q) \/ ModelStep(q) PROVE HiddenDrafts' /\ Waited
  BY <1>1, HostHidden, ModelHidden
<1>2. CASE Owner
  <2>1. ASSUME NEW t \in Texts, UserText(t) PROVE HiddenDrafts' /\ Waited
    <3>1. t \in Names /\ mic \in MicType /\ Final(t, mic, caller)
      BY <2>1 DEF Names, IInv, Typed, UserText
    <3> QED BY <3>1, FinalHidden
  <2>2. ASSUME NEW t \in Texts, NEW final \in BOOLEAN, SpeechPartial(t, final) PROVE HiddenDrafts' /\ Waited
    BY <2>2, PartialHidden
  <2>3. CASE Interrupt \/ SetLanguage
    BY <2>3, StopHidden DEF Interrupt, SetLanguage
  <2>4. CASE Select
    BY <2>4, SelectHidden
  <2>5. CASE DismissChoice
    BY <2>5, SameHidden DEF DismissChoice
  <2> QED BY <1>2, <2>1, <2>2, <2>3, <2>4, <2>5 DEF Owner
<1>3. ASSUME NEW w \in DOMAIN caller, Resumes(w) PROVE HiddenDrafts' /\ Waited
  <2>1. w \in {"rx", "draft"}
    BY DEF IInv, Typed
  <2> QED BY <1>3, <2>1, ResumesHidden
<1>4. CASE Replaces
  <2>1. caller["rx"].text \in Names /\ Heard(caller["rx"].text, TRUE) /\ Alive = {}
    BY <1>4, NotActive DEF IInv, Typed, CallerType, Replaces
  <2> QED BY <2>1, HeardHidden
<1>5. CASE DraftStarts \/ DraftGivesUp \/ Failsafe
  BY <1>5, DraftsHidden
<1>6. CASE WorkerTakes \/ WorkerSends \/ UNCHANGED vars
  <2>1. UNCHANGED <<query, mic>>
    BY <1>6 DEF WorkerTakes, WorkerSends, vars
  <2> QED BY <2>1, SameHidden
<1>7. CASE DogActs \/ DogEnds
  BY <1>7, DogHidden
<1>8. CASE Tick
  BY <1>8, TickHidden
<1> QED BY <1>1, <1>2, <1>3, <1>4, <1>5, <1>6, <1>7, <1>8 DEF Next

-----------------------------------------------------------------------------
(***************************************************************************)
(* The theorems.  They suppose that the owner picks a topic only when      *)
(* nothing runs: select_pending_research_query leaves a running query      *)
(* alone, and with "quick_click" TLC finds the states that break them.     *)
(***************************************************************************)
\* Every variable of the Session keeps the kind of value the code puts there,
\* whatever the owner says, and the speech queue its bound.
THEOREM TypeCorrect == ASSUME "quick_click" \notin Env PROVE Spec => [](TypeOK /\ Typed)
<1>1. IInv => TypeOK /\ Typed
  <2> SUFFICES ASSUME Typed PROVE TypeOK
    BY DEF IInv
  <2>1. FirstDelta[3] = 5
    BY DEF FirstDelta
  <2> QED BY <2>1 DEF Typed, TypeOK, QueryType, CallerType, MicType, DogType, Names
<1> QED BY <1>1, AlwaysIInv, PTL

\* user_text, speech_partial and preflight_voice_draft create a query only after
\* the one in query_task has ended: two never run together, whichever of the
\* three wakes first.
THEOREM OneQueryAtATime ==
  ASSUME "quick_click" \notin Env
  PROVE  Spec => [](\A p, q \in Query : p \in Alive /\ q \in Alive => p = q /\ p = cur)
<1>1. IInv => \A p, q \in Query : p \in Alive /\ q \in Alive => p = q /\ p = cur
  BY DEF IInv, OneQuery
<1> QED BY <1>1, AlwaysIInv, PTL

\* A newer text, an interrupt or a change of language ends what was at work: it
\* is unwinding or over, and answers nothing any more.
THEOREM NewerTurnSilences ==
  ASSUME "quick_click" \notin Env
  PROVE  Spec => []NewerTurnInvalidates
<1>1. IInv => NewerTurnInvalidates
  BY DEF IInv, Silences, NewerTurnInvalidates, Answering, Ended
<1> QED BY <1>1, AlwaysIInv, PTL

\* A block of speech is tagged when it enters the queue, not when its query
\* began, and still none of a silenced query carries the current turn number.
THEOREM NoOldSpeechIsPlayed ==
  ASSUME "quick_click" \notin Env
  PROVE  Spec => []NoStaleSpeech
<1>1. IInv => NoStaleSpeech
  BY DEF IInv
<1> QED BY <1>1, AlwaysIInv, PTL

\* Two deadlines and the watchdog's 35 seconds: the watchdog has always counted
\* enough to act before the second deadline restarts the gateway.
THEOREM NoWatchedRestart ==
  ASSUME "quick_click" \notin Env
  PROVE  Spec => []WatchdogComesFirst
<1>1. IInv => WatchdogComesFirst
  BY DEF IInv, Watched, WatchdogComesFirst
<1> QED BY <1>1, AlwaysIInv, PTL

\* When nothing is left to run, the HUD was told "idle" last: whichever of the
\* finally of run_query, the notice, the refused draft, the successor's query and
\* the watchdog comes last, someone who will send it is left until it is sent.
THEOREM QuietSessionIsIdle ==
  ASSUME "quick_click" \notin Env
  PROVE  Spec => []QuietIsIdle
<1>1. Init => IInv /\ Calm
  BY InitIInv, InitCalm
<1>2. (IInv /\ Calm) /\ [Next]_vars => (IInv /\ Calm)'
  BY NextIInv, NextCalm
<1>3. IInv /\ Calm => QuietIsIdle
  <2> SUFFICES ASSUME Calm, Alive = {}, caller["rx"].pc = "ready", dog.pc # "gather", ~dropped,
                      status \in {"idle", "thinking"}
               PROVE  status = "idle"
    BY DEF QuietIsIdle, IInv, Typed
  <2>1. \A q \in Query : ~Idles(query[q])
    BY DEF Idles, Alive
  <2> QED BY <2>1 DEF Calm, Settles, Ending
<1> QED BY <1>1, <1>2, <1>3, PTL DEF Spec

\* begin_visible_output and wait_for_draft_commit: a draft begins to speak only
\* after its own endpoint or the failsafe, whatever partials, endpoints and
\* other queries come between its preparation and its answer.
THEOREM DraftsWaitForEndpoint ==
  ASSUME "quick_click" \notin Env
  PROVE  Spec => DraftsWait
<1>1. Init => IInv /\ HiddenDrafts
  BY InitIInv, InitHidden
<1>2. (IInv /\ HiddenDrafts) /\ [Next]_vars => (IInv /\ HiddenDrafts)'
  BY NextIInv, NextHidden
<1>3. (IInv /\ HiddenDrafts) /\ [Next]_vars
        => [\A q \in Query : (query[q].draft /\ query[q].pc # "speak" /\ query'[q].pc = "speak")
                                => mic.commit = "now"]_vars
  BY NextHidden DEF Waited
<1> QED BY <1>1, <1>2, <1>3, PTL DEF Spec, DraftsWait
=============================================================================
