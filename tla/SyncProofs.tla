------------------------------ MODULE SyncProofs ------------------------------
(***************************************************************************)
(* Theorems about Sync, for every number of messages, every choice of the  *)
(* rejected ones and of the seconds they share, every limit and bound.     *)
(***************************************************************************)
EXTENDS Sync, Extremes, FiniteSetTheorems

\* The first place of a message that is not before a time.
Place(c, time) == CHOOSE p \in 1..(N + 1) : \A m \in Messages : m < p <=> c[m] < time

\* The newest message of 1..last before a time, or 0.
Top(c, time, last) == IF Place(c, time) > last THEN last ELSE Place(c, time) - 1

\* What a page that goes back from there holds.
Page(after, top, limit) == {m \in (after + 1)..top : top - m < limit}

\* What each program knows of the list in its hands.
PollerKnows ==
    poller.step = "listed" =>
        /\ polled <= poller.seen /\ poller.seen <= store
        /\ poller.batch = Normalized(Page(0, poller.seen, PollLimit))

BackfillerKnows ==
    backfiller.step = "listed" =>
        /\ reach <= backfiller.seen /\ backfiller.seen <= store
        /\ backfiller.batch =
             Normalized(Page(0, Top(clock, job.cursor, backfiller.seen), PageLimit))

\* A cursor is the time of an imported message, and the count is of imported ones.
CursorIsImported ==
    /\ job.cursor # NoCursor => \E m \in imported : clock[m] = job.cursor
    /\ job.imported <= Cardinality(imported)

\* What a page left out: nothing but older messages of a second it imported.
Kept(m) == m \in imported \/ Skipped(m)

\* A backfill has imported everything from its cursor to where it began.
BackfilledToCursor ==
    rejected = {} =>
        \A m \in 1..reach : clock[m] >= job.cursor => Kept(m)

CompletedKept ==
    rejected = {} /\ job.state = "completed" => \A m \in 1..reach : Kept(m)

IInv ==
    /\ TypeOK
    /\ polled <= store /\ reach <= store
    /\ PollerKnows /\ BackfillerKnows
    /\ CursorIsImported /\ BackfilledToCursor /\ CompletedKept

\* Whatever is newer than a message of S is in S or imported, up to the last poll.
Upward(S) ==
    \A a \in S, b \in (1..polled) \ rejected : a < b => b \in S \/ Kept(b)

\* Holds if no more new messages arrive between two polls than a poll lists.
OneStretch ==
    /\ store <= polled + Burst
    /\ Upward(imported)
    /\ Upward(recoverer.batch)
    /\ Upward(backfiller.batch)
-----------------------------------------------------------------------------
\* What the types need of the settings.
LEMMA Settings ==
    /\ N \in Nat /\ MaxInterrupts \in Nat /\ Burst \in Nat
    /\ RejectedSets \subseteq SUBSET (1..N)
    /\ PollLimit \in Nat \ {0} /\ PageLimit \in Nat \ {0}
  BY SyncAssumption DEF SyncAssumption, Messages

-----------------------------------------------------------------------------
(* What a list holds *)

LEMMA ClockTyped ==
    ASSUME clock \in Clocks
    PROVE  /\ N \in Nat /\ Messages = 1..N
           /\ \A m \in Messages : clock[m] \in 1..N
           /\ \A m, n \in Messages : m <= n => clock[m] <= clock[n]
  BY SyncAssumption DEF SyncAssumption, Messages

\* Time grows with the places, so that what is before a time is before a place.
LEMMA PlaceTyped ==
    ASSUME clock \in Clocks, NEW time \in Int
    PROVE  /\ Place(clock, time) \in 1..(N + 1)
           /\ \A m \in Messages : m < Place(clock, time) <=> clock[m] < time
<1> USE ClockTyped
<1> DEFINE late == {m \in Messages : ~(clock[m] < time)}
<1>1. \E p \in 1..(N + 1) : \A m \in Messages : m < p <=> clock[m] < time
  <2>1. CASE late = {}
    <3>1. \A m \in Messages : m < N + 1 /\ clock[m] < time
      BY <2>1
    <3> QED
      BY <3>1
  <2>2. CASE late # {}
    <3>1. PICK p \in late : \A n \in late : p <= n
      <4>1. late \subseteq Nat
        OBVIOUS
      <4> HIDE DEF late
      <4> QED
        BY <2>2, <4>1, HasLeast
    <3>2. ASSUME NEW m \in Messages PROVE m < p <=> clock[m] < time
      BY <3>1
    <3> QED
      BY <3>1, <3>2
  <2> QED
    BY <2>1, <2>2
<1> QED
  BY <1>1, Zenon DEF Place

LEMMA TopTyped ==
    ASSUME clock \in Clocks, NEW time \in Int, NEW last \in 0..N
    PROVE  /\ Top(clock, time, last) \in 0..last
           /\ \A m \in Messages : m <= Top(clock, time, last) <=> m <= last /\ clock[m] < time
<1>1. /\ Place(clock, time) \in 1..(N + 1) /\ N \in Nat /\ Messages = 1..N
      /\ \A m \in Messages : m < Place(clock, time) <=> clock[m] < time
  BY PlaceTyped, ClockTyped
<1> QED
  BY <1>1 DEF Top

\* Without a cursor, nothing is too late.
LEMMA TopOfAll ==
    ASSUME clock \in Clocks, NEW last \in 0..N PROVE Top(clock, NoCursor, last) = last
<1>1. /\ Top(clock, NoCursor, last) \in 0..last /\ N \in Nat /\ Messages = 1..N
      /\ \A m \in Messages : m <= Top(clock, NoCursor, last) <=> m <= last /\ clock[m] < NoCursor
  <2>1. NoCursor \in Int /\ N \in Nat /\ Messages = 1..N
    BY ClockTyped DEF NoCursor
  <2> QED
    BY <2>1, TopTyped
<1>2. \A m \in Messages : clock[m] < NoCursor
  BY ClockTyped DEF NoCursor
<1> QED
  BY <1>1, <1>2

\* The newest messages between two times are a page.
LEMMA ListIsAPage ==
    ASSUME clock \in Clocks, NEW after \in NoCheckpoint..N, NEW before \in 1..NoCursor,
           NEW limit \in Nat \ {0}, store \in 0..N
    PROVE  List(after, before, limit) =
             Page(Place(clock, after + 1) - 1, Top(clock, before, store), limit)
<1> DEFINE top == Top(clock, before, store)
           first == Place(clock, after + 1)
           found == {m \in 1..store : after < clock[m] /\ clock[m] < before}
<1>1. /\ N \in Nat /\ Messages = 1..N /\ after + 1 \in Int /\ before \in Int
      /\ \A m \in Messages : clock[m] \in 1..N
  BY ClockTyped DEF NoCheckpoint, NoCursor
<1>2. top \in 0..store /\ \A m \in Messages : m <= top <=> m <= store /\ clock[m] < before
  BY <1>1, TopTyped
<1>3. first \in 1..(N + 1) /\ \A m \in Messages : m < first <=> clock[m] < after + 1
  BY <1>1, PlaceTyped
<1> HIDE DEF top, first
<1>4. found = first..top
  <2>1. \A m \in Messages : after < clock[m] <=> ~(clock[m] < after + 1)
    BY <1>1 DEF NoCheckpoint
  <2>2. 1..store \subseteq Messages /\ first..top \subseteq Messages
    BY <1>1, <1>2, <1>3
  <2>3. \A m \in Messages : m \in found <=> first <= m /\ m <= top
    BY <1>1, <1>2, <1>3, <2>1
  <2> HIDE DEF found
  <2>4. found \subseteq Messages
    BY <2>2 DEF found
  <2>5. \A m \in first..top : m \in Messages /\ first <= m /\ m <= top
    BY <1>2, <1>3, <2>2
  <2>6. \A m \in Messages : first <= m /\ m <= top => m \in first..top
    BY <1>1, <1>2, <1>3
  <2> QED
    BY <2>3, <2>4, <2>5, <2>6
<1>5. ASSUME NEW m \in found PROVE Cardinality({n \in found : n > m}) = top - m
  <2>1. {n \in found : n > m} = (m + 1)..top
    BY <1>2, <1>3, <1>4
  <2>2. m + 1 \in Int /\ top \in Int /\ m <= top
    BY <1>2, <1>3, <1>4
  <2>3. \A a \in Int : Cardinality(a..top) = IF a > top THEN 0 ELSE top - a + 1
    BY <2>2, FS_Interval
  <2>4. Cardinality((m + 1)..top) = top - m
    <3>1. m + 1 \in Int /\ (m + 1 > top => top - m = 0) /\ top - (m + 1) + 1 = top - m
      BY <2>2
    <3> HIDE DEF found
    <3> QED
      BY <2>3, <3>1
  <2> QED
    BY <2>1, <2>4
<1>6. List(after, before, limit) = {m \in found : Cardinality({n \in found : n > m}) < limit}
  BY DEF List
<1>7. List(after, before, limit) = {m \in found : top - m < limit}
  BY <1>5, <1>6
<1>8. (first - 1) + 1 = first
  BY <1>3
<1> QED
  BY <1>4, <1>7, <1>8 DEF Page, top, first

\* Without a checkpoint, nothing is too early.
LEMMA ListFromTheStart ==
    ASSUME clock \in Clocks, NEW before \in 1..NoCursor, NEW limit \in Nat \ {0}, store \in 0..N
    PROVE  List(NoCheckpoint, before, limit) = Page(0, Top(clock, before, store), limit)
<1>1. NoCheckpoint \in NoCheckpoint..N /\ NoCheckpoint + 1 = 0
  BY ClockTyped DEF NoCheckpoint
<1>2. Place(clock, 0) \in 1..(N + 1) /\ \A m \in Messages : m < Place(clock, 0) <=> clock[m] < 0
  BY PlaceTyped
<1>3. N \in Nat /\ Messages = 1..N /\ \A m \in Messages : clock[m] \in 1..N
  BY ClockTyped
<1>4. Place(clock, 0) - 1 = 0
  <2> SUFFICES ASSUME Place(clock, 0) > 1 PROVE FALSE
    BY <1>2, <1>3
  <2>1. 1 \in Messages /\ 1 < Place(clock, 0)
    BY <1>2, <1>3
  <2> QED
    BY <1>2, <1>3, <2>1
<1>5. List(NoCheckpoint, before, limit) = Page(Place(clock, NoCheckpoint + 1) - 1, Top(clock, before, store), limit)
  BY <1>1, ListIsAPage
<1> QED
  BY <1>1, <1>4, <1>5

\* A page that is not full goes back to its lower bound.
LEMMA ShortPageIsTheLast ==
    ASSUME NEW top \in Nat, NEW limit \in Nat \ {0},
           Cardinality(Page(0, top, limit)) < limit
    PROVE  Page(0, top, limit) = 1..top
<1> SUFFICES ASSUME limit < top PROVE FALSE
  BY DEF Page
<1>1. Page(0, top, limit) = (top - limit + 1)..top
  BY DEF Page
<1>2. Cardinality((top - limit + 1)..top) = limit
  BY FS_Interval
<1> QED
  BY <1>1, <1>2

LEMMA PageIsFinite ==
    ASSUME NEW top \in Nat, NEW limit \in Nat \ {0}
    PROVE  IsFiniteSet(Normalized(Page(0, top, limit)))
<1>1. Normalized(Page(0, top, limit)) \subseteq 1..top
  BY DEF Page, Normalized
<1>2. IsFiniteSet(1..top)
  BY FS_Interval
<1> QED
  BY <1>1, <1>2, FS_Subset

LEMMA OldestIsIn ==
    ASSUME NEW S \in SUBSET Messages, S # {}
    PROVE  Oldest(S) \in S /\ \A n \in S : Oldest(S) <= n
<1>1. S \subseteq Nat
  BY Settings DEF Messages
<1> QED
  BY <1>1, HasLeast DEF Oldest

LEMMA NewestIsIn ==
    ASSUME NEW S \in SUBSET Messages, S # {}
    PROVE  Newest(S) \in S
<1>1. S \subseteq 0..N /\ N \in Nat
  BY Settings DEF Messages
<1>2. \E m \in S : \A n \in S : n <= m
  BY <1>1, HasGreatest
<1> QED
  BY <1>2 DEF Newest
-----------------------------------------------------------------------------
LEMMA InitEstablishes == Init => IInv
<1> SUFFICES ASSUME Init PROVE IInv
  OBVIOUS
<1>1. TypeOK
  BY Settings
     DEF Init, TypeOK, Messages, ContextStates, BackfillStates, NoJob, NoCursor,
         NoCheckpoint, IdlePoller, IdleRecoverer, IdleBackfiller
<1>2. polled <= store /\ reach <= store
  BY <1>1, Settings DEF Init, TypeOK
<1>3. PollerKnows /\ BackfillerKnows
  BY DEF Init, PollerKnows, BackfillerKnows, IdlePoller, IdleBackfiller
<1>4. CursorIsImported
  BY FS_EmptySet DEF Init, CursorIsImported, NoJob
<1>5. BackfilledToCursor /\ CompletedKept
  BY DEF Init, BackfilledToCursor, CompletedKept, NoJob
<1> QED
  BY <1>1, <1>2, <1>3, <1>4, <1>5 DEF IInv

LEMMA ImportedIsFinite ==
    ASSUME NEW S \in SUBSET Messages
    PROVE  IsFiniteSet(S) /\ Cardinality(S) \in 0..N
<1>1. IsFiniteSet(1..N) /\ Cardinality(1..N) = N
  BY SyncAssumption, FS_Interval DEF SyncAssumption
<1>2. IsFiniteSet(S) /\ Cardinality(S) <= N
  BY <1>1, FS_Subset DEF Messages
<1> QED
  BY <1>2, FS_CardinalityType, SyncAssumption DEF SyncAssumption

\* What an import adds is what the count of a page counts.
LEMMA ImportCounts ==
    ASSUME NEW S \in SUBSET Messages, NEW T \in SUBSET Messages
    PROVE  /\ Cardinality(S \cup T) = Cardinality(S) + Cardinality(T \ S)
           /\ Cardinality(S \cup T) >= Cardinality(S)
<1>1. S \cup T = S \cup (T \ S) /\ S \cap (T \ S) = {} /\ T \ S \subseteq Messages
  OBVIOUS
<1>2. /\ IsFiniteSet(S) /\ IsFiniteSet(T \ S)
      /\ Cardinality(S) \in Nat /\ Cardinality(T \ S) \in Nat
  BY <1>1, ImportedIsFinite
<1>3. Cardinality(S \cup (T \ S)) = Cardinality(S) + Cardinality(T \ S) - Cardinality({})
  BY <1>1, <1>2, FS_Union
<1>4. Cardinality({}) = 0
  BY FS_EmptySet
<1>5. Cardinality(S \cup T) = Cardinality(S \cup (T \ S))
  BY <1>1
<1> QED
  BY <1>2, <1>3, <1>4, <1>5

LEMMA ListTyped ==
    ASSUME NEW after, NEW before, NEW limit, store \in 0..N
    PROVE  Normalized(List(after, before, limit)) \subseteq Messages
  BY Settings DEF Normalized, List, Messages

\* No step takes a message back, or changes when one was sent.
LEMMA ImportsGrow == ASSUME [Next]_vars PROVE imported \subseteq imported' /\ UNCHANGED given
<1>1. CASE Poll \/ Recovery
  BY <1>1 DEF Poll, PollLists, PollImports, PollFails, Recovery, PrepareRecovery, RecoveryLists,
              RecoveryFails, RecoveryImports, rows
<1>2. CASE Backfill
  BY <1>2 DEF Backfill, BackfillReads, PrepareBackfill, BackfillLists, BackfillFails,
              BackfillImports, Import, rows
<1>3. CASE Arrive \/ Interrupt \/ UNCHANGED vars
  BY <1>3 DEF Arrive, Interrupt, vars, rows
<1> QED
  BY <1>1, <1>2, <1>3 DEF Next

LEMMA KeptStays ==
    ASSUME imported \subseteq imported', UNCHANGED given
    PROVE  \A m : Kept(m) => Kept(m)'
  BY DEF given, Kept, Skipped

LEMMA TypeStep == ASSUME IInv, [Next]_vars PROVE TypeOK'
<1> USE Settings
    DEF IInv, TypeOK, ContextStates, BackfillStates, given, rows, programs, ghosts,
        NoCursor, NoCheckpoint
<1>1. CASE Arrive
  BY <1>1 DEF Arrive
<1>2. CASE PollLists
  BY <1>2, ListTyped DEF PollLists
<1>3. CASE PollImports
  BY <1>3 DEF PollImports, UpsertConversation, IdlePoller
<1>4. CASE PollFails
  BY <1>4 DEF PollFails, IdlePoller
<1>5. CASE PrepareRecovery
  BY <1>5 DEF PrepareRecovery
<1>6. CASE RecoveryLists
  <2>1. Normalized(List(recoverer.cursor, NoCursor, PageLimit)) \in SUBSET Messages
    BY ListTyped
  <2> QED
    BY <1>6, <2>1 DEF RecoveryLists
<1>7. CASE RecoveryFails
  BY <1>7 DEF RecoveryFails, IdleRecoverer
<1>8. CASE RecoveryImports
  <2>1. recoverer.batch # {} => clock[Newest(recoverer.batch)] \in 1..N
    BY NewestIsIn, ClockTyped
  <2>2. checkpoint' \in NoCheckpoint..N
    BY <1>8, <2>1 DEF RecoveryImports, UpsertCheckpoint
  <2> QED
    BY <1>8, <2>2 DEF RecoveryImports, IdleRecoverer
<1>9. CASE BackfillReads
  BY <1>9 DEF BackfillReads
<1>10. CASE PrepareBackfill
  BY <1>10 DEF PrepareBackfill, NoJob
<1>11. CASE BackfillLists
  BY <1>11, ListTyped DEF BackfillLists
<1>12. CASE BackfillFails
  BY <1>12 DEF BackfillFails, IdleBackfiller
<1>13. CASE BackfillImports
  <2>1. imported' = imported \cup backfiller.batch /\ imported' \subseteq Messages
    BY <1>13 DEF BackfillImports, Import
  <2>2. job.imported + Cardinality(backfiller.batch \ imported) \in 0..N
    <3>1. /\ Cardinality(imported \cup backfiller.batch) =
                Cardinality(imported) + Cardinality(backfiller.batch \ imported)
      BY ImportCounts
    <3>2. /\ Cardinality(imported) \in 0..N
          /\ Cardinality(backfiller.batch \ imported) \in 0..N
          /\ Cardinality(imported \cup backfiller.batch) \in 0..N
      BY ImportedIsFinite
    <3> QED
      BY <3>1, <3>2 DEF CursorIsImported
  <2>3. backfiller.batch # {} => clock[Oldest(backfiller.batch)] \in 1..N
    BY OldestIsIn, ClockTyped
  <2>4. job' \in [state : BackfillStates, cursor : 1..NoCursor, imported : 0..N]
    BY <1>13, <2>2, <2>3 DEF BackfillImports, UpdateJob
  <2>5. context' \in ContextStates \cup {"absent"}
    BY <1>13 DEF BackfillImports, Import, UpsertConversation
  <2>6. reach' \in 0..N
    BY <1>13 DEF BackfillImports, FirstPageSeen
  <2>7. backfiller' \in [step : {"idle", "reading", "prepared", "listed"},
                         batch : SUBSET Messages, seen : 0..N, context : ContextStates]
    BY <1>13 DEF BackfillImports, IdleBackfiller
  <2> QED
    BY <1>13, <2>1, <2>4, <2>5, <2>6, <2>7 DEF BackfillImports
<1>14. CASE Interrupt
  BY <1>14 DEF Interrupt, IdleRecoverer, IdleBackfiller
<1>15. CASE UNCHANGED vars
  BY <1>15 DEF vars
<1> QED
  BY <1>1, <1>2, <1>3, <1>4, <1>5, <1>6, <1>7, <1>8, <1>9, <1>10, <1>11, <1>12, <1>13, <1>14,
     <1>15 DEF Next, Poll, Recovery, Backfill

\* The store and the counters only grow, and the lists stay what they were.
LEMMA ListsStep ==
    ASSUME IInv, [Next]_vars
    PROVE  /\ polled' <= store' /\ reach' <= store'
           /\ PollerKnows' /\ BackfillerKnows'
<1> USE Settings
    DEF IInv, TypeOK, given, rows, programs, ghosts, PollerKnows, BackfillerKnows,
        Normalized
<1>1. CASE Arrive
  BY <1>1 DEF Arrive
<1>2. CASE PollLists
  <2>1. List(NoCheckpoint, NoCursor, PollLimit) = Page(0, Top(clock, NoCursor, store), PollLimit)
    BY ListFromTheStart DEF NoCursor
  <2>2. Top(clock, NoCursor, store) = store
    BY TopOfAll
  <2> QED
    BY <1>2, <2>1, <2>2 DEF PollLists
<1>3. CASE PollImports
  BY <1>3 DEF PollImports, IdlePoller
<1>4. CASE PollFails
  BY <1>4 DEF PollFails, IdlePoller
<1>5. CASE Recovery
  BY <1>5 DEF Recovery, PrepareRecovery, RecoveryLists, RecoveryFails, RecoveryImports
<1>6. CASE BackfillReads
  BY <1>6 DEF BackfillReads
<1>7. CASE PrepareBackfill
  BY <1>7 DEF PrepareBackfill
<1>8. CASE BackfillLists
  <2>1. List(NoCheckpoint, job.cursor, PageLimit) = Page(0, Top(clock, job.cursor, store), PageLimit)
    BY ListFromTheStart
  <2> QED
    BY <1>8, <2>1 DEF BackfillLists
<1>9. CASE BackfillFails
  BY <1>9 DEF BackfillFails, IdleBackfiller
<1>10. CASE BackfillImports
  BY <1>10 DEF BackfillImports, IdleBackfiller, FirstPageSeen
<1>11. CASE Interrupt
  BY <1>11 DEF Interrupt, IdleBackfiller
<1>12. CASE UNCHANGED vars
  BY <1>12 DEF vars
<1> QED
  BY <1>1, <1>2, <1>3, <1>4, <1>5, <1>6, <1>7, <1>8, <1>9, <1>10, <1>11, <1>12
     DEF Next, Poll, Backfill

\* What a page, and its being the last one, adds to what is imported.
LEMMA PageStep ==
    ASSUME IInv, BackfillImports
    PROVE  CursorIsImported' /\ BackfilledToCursor' /\ CompletedKept'
<1> USE Settings DEF IInv, TypeOK
<1> DEFINE batch == backfiller.batch
           top == Top(clock, job.cursor, backfiller.seen)
<1>1. /\ imported' = imported \cup batch
      /\ job' = [state |-> IF Cardinality(batch) < PageLimit THEN "completed" ELSE "paused",
                 cursor |-> IF batch = {} THEN job.cursor ELSE clock[Oldest(batch)],
                 imported |-> job.imported + Cardinality(batch \ imported)]
      /\ reach' = IF job.cursor = NoCursor THEN backfiller.seen ELSE reach
      /\ UNCHANGED <<clock, rejected>>
  BY DEF BackfillImports, Import, UpdateJob, FirstPageSeen, given
<1>2. /\ reach <= backfiller.seen
      /\ batch = Normalized(Page(0, top, PageLimit))
      /\ batch \subseteq Messages
  BY DEF BackfillImports, BackfillerKnows
<1>3. /\ top \in 0..backfiller.seen
      /\ \A m \in Messages : m <= top <=> m <= backfiller.seen /\ clock[m] < job.cursor
  <2>1. job.cursor \in Int /\ backfiller.seen \in 0..N
    BY DEF NoCursor
  <2> QED
    BY <2>1, TopTyped
<1>4. /\ Messages = 1..N
      /\ \A m \in Messages : clock[m] \in 1..N
      /\ \A m, n \in Messages : m <= n => clock[m] <= clock[n]
  BY ClockTyped
<1> HIDE DEF batch, top
<1>5. batch # {} => Oldest(batch) \in batch /\ \A n \in batch : Oldest(batch) <= n
  BY <1>2, OldestIsIn
<1>6. \A m : Kept(m) => Kept(m)'
  BY <1>1, KeptStays DEF given
<1>7. \A m \in batch : Kept(m)'
  BY <1>1 DEF Kept
<1>8. CursorIsImported'
  <2>1. Cardinality(imported \cup batch) = Cardinality(imported) + Cardinality(batch \ imported)
    BY <1>2, ImportCounts
  <2>2. Cardinality(imported) \in Nat /\ Cardinality(batch \ imported) \in Nat
    BY <1>2, ImportedIsFinite
  <2>3. job'.imported <= Cardinality(imported')
    BY <1>1, <2>1, <2>2 DEF CursorIsImported
  <2>4. job'.cursor # NoCursor => \E m \in imported' : clock'[m] = job'.cursor
    BY <1>1, <1>5 DEF CursorIsImported
  <2> QED
    BY <2>3, <2>4 DEF CursorIsImported, NoCursor
<1>9. reach' \in 0..N /\ \A m \in 1..reach' : m \in Messages
  BY <1>1, <1>4
<1>10. ASSUME rejected = {}, NEW m \in 1..reach', ~(m <= top)
       PROVE  Kept(m)'
  <2>1. m \in Messages /\ m <= backfiller.seen
    BY <1>1, <1>2, <1>9
  <2>2. clock[m] >= job.cursor
    BY <1>3, <1>4, <1>10, <2>1
  <2>3. job.cursor # NoCursor
    BY <1>4, <2>1, <2>2 DEF NoCursor
  <2>4. m \in 1..reach
    BY <1>1, <2>3
  <2> QED
    BY <1>6, <1>10, <2>2, <2>4 DEF BackfilledToCursor
<1>11. BackfilledToCursor'
  <2> SUFFICES ASSUME rejected = {}, NEW m \in 1..reach', clock[m] >= job'.cursor
               PROVE  Kept(m)'
    BY <1>1 DEF BackfilledToCursor
  <2>1. batch = Page(0, top, PageLimit) /\ m \in Messages
    BY <1>2, <1>9 DEF Normalized
  <2>2. CASE ~(m <= top)
    BY <1>10, <2>2
  <2>3. CASE m <= top /\ batch = {}
    BY <1>1, <1>3, <1>4, <2>1, <2>3 DEF NoCursor
  <2>4. CASE m <= top /\ batch # {} /\ Oldest(batch) <= m
    <3>1. Oldest(batch) \in 1..top /\ top - Oldest(batch) < PageLimit
      BY <1>5, <2>1, <2>4 DEF Page
    <3>2. m \in (0 + 1)..top /\ top - m < PageLimit
      BY <1>3, <1>4, <2>1, <2>4, <3>1
    <3>3. m \in batch
      BY <2>1, <3>2 DEF Page
    <3> QED
      BY <1>7, <3>3
  <2>5. CASE m <= top /\ batch # {} /\ ~(Oldest(batch) <= m)
    <3>1. Oldest(batch) \in Messages /\ Oldest(batch) \in imported' /\ m < Oldest(batch)
      BY <1>1, <1>2, <1>4, <1>5, <2>1, <2>5
    <3>2. clock[Oldest(batch)] = clock[m]
      BY <1>1, <1>4, <2>1, <2>5, <3>1
    <3> QED
      BY <1>1, <3>1, <3>2 DEF Kept, Skipped
  <2> QED
    BY <2>2, <2>3, <2>4, <2>5
<1>12. CompletedKept'
  <2> SUFFICES ASSUME rejected = {}, Cardinality(batch) < PageLimit, NEW m \in 1..reach'
               PROVE  Kept(m)'
    BY <1>1 DEF CompletedKept
  <2>1. batch = 1..top
    BY <1>2, <1>3, ShortPageIsTheLast DEF Normalized
  <2>2. m \in 1..N
    BY <1>4, <1>9
  <2>3. m <= top => m \in batch
    BY <1>3, <2>1, <2>2
  <2> QED
    BY <1>7, <1>10, <2>3
<1> QED
  BY <1>8, <1>11, <1>12

LEMMA JobStep ==
    ASSUME IInv, [Next]_vars
    PROVE  CursorIsImported' /\ BackfilledToCursor' /\ CompletedKept'
<1> USE Settings DEF IInv, TypeOK, CursorIsImported, BackfilledToCursor, CompletedKept,
        given, rows, programs, ghosts
<1>0. \A m : Kept(m) => Kept(m)'
  BY ImportsGrow, KeptStays
<1>1. CASE BackfillImports
  BY <1>1, PageStep
<1>2. ASSUME NEW S \in SUBSET Messages, imported' = imported \cup S,
             UNCHANGED <<job, reach, given>>
      PROVE  CursorIsImported' /\ BackfilledToCursor' /\ CompletedKept'
  <2>1. Cardinality(imported') >= Cardinality(imported)
    BY <1>2, ImportCounts
  <2>2. Cardinality(imported) \in Nat /\ Cardinality(imported') \in Nat
    BY <1>2, ImportedIsFinite
  <2>3. CursorIsImported'
    BY <1>2, <2>1, <2>2 DEF NoCursor
  <2> QED
    BY <1>0, <1>2, <2>3
<1>3. CASE PollImports
  BY <1>2, <1>3 DEF PollImports
<1>4. CASE RecoveryImports
  BY <1>2, <1>4 DEF RecoveryImports
<1>5. CASE PrepareBackfill
  <2>1. Cardinality(imported) \in Nat
    BY ImportedIsFinite
  <2>2. /\ UNCHANGED <<imported, reach, clock, rejected>>
        /\ job'.state = "running"
        /\ \/ job'.cursor = job.cursor /\ job'.imported = job.imported
           \/ job'.cursor = NoCursor /\ job'.imported = 0
    BY <1>5 DEF PrepareBackfill, NoJob
  <2>3. \A m \in 1..reach : clock[m] < NoCursor
    BY ClockTyped DEF NoCursor
  <2>4. CursorIsImported' /\ CompletedKept'
    BY <2>1, <2>2 DEF NoCursor
  <2>5. BackfilledToCursor'
    <3>1. CASE job'.cursor = job.cursor
      BY <1>0, <2>2, <3>1
    <3>2. CASE job'.cursor = NoCursor
      <4>1. \A m \in 1..reach : ~(clock[m] >= NoCursor)
        BY ClockTyped DEF NoCursor
      <4> QED
        BY <2>2, <3>2, <4>1
    <3> QED
      BY <2>2, <3>1, <3>2
  <2> QED
    BY <2>4, <2>5
<1>6. CASE BackfillFails
  BY <1>0, <1>6 DEF BackfillFails
<1>7. CASE UNCHANGED <<imported, job, reach, given>>
  BY <1>0, <1>7
<1>8. CASE \/ Arrive \/ PollLists \/ PollFails \/ PrepareRecovery \/ RecoveryLists
           \/ RecoveryFails \/ BackfillReads \/ BackfillLists \/ Interrupt \/ UNCHANGED vars
  BY <1>7, <1>8 DEF Arrive, PollLists, PollFails, PrepareRecovery, RecoveryLists, RecoveryFails,
                    BackfillReads, BackfillLists, Interrupt, vars
<1> QED
  BY <1>1, <1>3, <1>4, <1>5, <1>6, <1>8 DEF Next, Poll, Recovery, Backfill

LEMMA StepPreserves == IInv /\ [Next]_vars => IInv'
  BY TypeStep, ListsStep, JobStep DEF IInv

\* The invariant that the theorems rest on holds.
THEOREM Invariance == Spec => []IInv
  BY InitEstablishes, StepPreserves, PTL DEF Spec

\* The state has the types of the tables, whatever overlaps.
THEOREM SyncTyped == Spec => []TypeOK
<1>1. IInv => TypeOK
  BY DEF IInv
<1> QED
  BY Invariance, <1>1, PTL

\* A backfill that says "completed" has imported the history down to its first
\* message, but for older messages of a second of which it has the newest, if nothing
\* was rejected, whatever failed or was resumed on the way.
THEOREM BackfillComplete == Spec => []CompletedIsComplete
<1>1. IInv => CompletedIsComplete
  BY DEF IInv, CompletedKept, Kept, CompletedIsComplete
<1> QED
  BY Invariance, <1>1, PTL
-----------------------------------------------------------------------------
(* One stretch of messages, provided no poll misses any *)

LEMMA StretchInit == ASSUME Init PROVE OneStretch
  BY Settings DEF Init, OneStretch, Upward, IdleRecoverer, IdleBackfiller

\* A page that goes back from what the store holds leaves nothing newer out.
LEMMA PagesAreUpward ==
    ASSUME IInv, NEW after \in NoCheckpoint..N, NEW before \in 1..NoCursor,
           NEW limit \in Nat \ {0},
           NEW a \in Normalized(List(after, before, limit)), NEW b \in (1..store) \ rejected,
           a < b, clock[b] < before
    PROVE  b \in Normalized(List(after, before, limit))
<1> USE Settings DEF IInv, TypeOK
<1> DEFINE top == Top(clock, before, store)
           first == Place(clock, after + 1)
<1>1. List(after, before, limit) = Page(first - 1, top, limit)
  BY ListIsAPage
<1>2. Messages = 1..N
  BY ClockTyped
<1>3. top \in 0..store /\ b <= top
  <2>1. before \in Int /\ store \in 0..N /\ b \in Messages /\ b <= store
    BY <1>2 DEF NoCursor
  <2>2. /\ Top(clock, before, store) \in 0..store
        /\ \A m \in Messages : m <= Top(clock, before, store) <=> m <= store /\ clock[m] < before
    BY <2>1, TopTyped
  <2> QED
    BY <2>1, <2>2
<1>4. first \in 1..(N + 1)
  <2>1. after + 1 \in Int
    BY DEF NoCheckpoint
  <2> QED
    BY <2>1, PlaceTyped
<1> HIDE DEF top, first
<1> QED
  BY <1>1, <1>3, <1>4 DEF Normalized, Page

\* What a poll imports and what it saw go together.
LEMMA PollStep ==
    ASSUME IInv, OneStretch, Burst <= PollLimit, PollImports
    PROVE  OneStretch'
<1> USE Settings DEF IInv, TypeOK, OneStretch
<1>1. /\ imported' = imported \cup poller.batch /\ polled' = poller.seen
      /\ UNCHANGED <<clock, rejected, store, recoverer, backfiller>>
  BY DEF PollImports, given
<1>2. /\ polled <= poller.seen /\ poller.seen <= store
      /\ poller.batch = Normalized(Page(0, poller.seen, PollLimit))
  BY DEF PollImports, PollerKnows
<1>3. ASSUME NEW b \in (1..polled') \ rejected PROVE b \in 1..polled \/ b \in poller.batch
  <2>1. CASE b <= polled
    BY <2>1
  <2>2. CASE b > polled
    BY <1>1, <1>2, <1>3, <2>2 DEF Normalized, Page
  <2> QED
    BY <2>1, <2>2, <1>1
<1>4. /\ \A m : Kept(m) => Kept(m)'
      /\ \A m \in poller.batch : Kept(m)'
  <2>1. \A m : Kept(m) => Kept(m)'
    BY <1>1, KeptStays DEF given
  <2>2. \A m \in poller.batch : Kept(m)'
    BY <1>1 DEF Kept
  <2> QED
    BY <2>1, <2>2
<1>5. ASSUME NEW S, S \subseteq Messages, Upward(S)
      PROVE  \A a \in S, b \in (1..polled') \ rejected : a < b => b \in S \/ Kept(b)'
  BY <1>3, <1>4, <1>5 DEF Upward
<1>6. \A a \in poller.batch, b \in (1..polled') \ rejected : a < b => b \in poller.batch
  BY <1>1, <1>2 DEF Normalized, Page
<1>7. Upward(imported)'
  BY <1>1, <1>4, <1>5, <1>6 DEF Upward
<1>8. Upward(recoverer.batch)' /\ Upward(backfiller.batch)'
  BY <1>1, <1>5 DEF Upward
<1>9. store' <= polled' + Burst
  BY <1>1, <1>2
<1> QED
  BY <1>7, <1>8, <1>9

LEMMA StretchStep ==
    ASSUME IInv, OneStretch, Burst <= PollLimit, [Next]_vars
    PROVE  OneStretch'
<1> USE Settings DEF IInv, TypeOK, OneStretch, rows, programs, ghosts, given
<1>0. \A m : Kept(m) => Kept(m)'
  BY ImportsGrow, KeptStays
<1>1. CASE Arrive
  BY <1>0, <1>1 DEF Arrive, Upward
<1>2. CASE PollLists \/ PollFails
  BY <1>0, <1>2 DEF PollLists, PollFails, Upward
<1>3. CASE PollImports
  BY <1>3, PollStep
<1>4. CASE PrepareRecovery
  BY <1>0, <1>4 DEF PrepareRecovery, Upward
<1>5. CASE RecoveryLists
  <2> DEFINE batch == Normalized(List(recoverer.cursor, NoCursor, PageLimit))
  <2>1. \A a \in batch, b \in (1..polled) \ rejected : a < b => b \in batch
    <3>1. \A b \in 1..polled : clock[b] < NoCursor /\ b \in 1..store
      BY ClockTyped DEF NoCursor
    <3> QED
      BY <3>1, PagesAreUpward DEF NoCursor
  <2>2. recoverer'.batch = batch
        /\ UNCHANGED <<clock, rejected, store, imported, polled, backfiller>>
    BY <1>5 DEF RecoveryLists
  <2> HIDE DEF batch
  <2> QED
    BY <1>0, <2>1, <2>2 DEF Upward
<1>6. CASE RecoveryFails
  BY <1>0, <1>6 DEF RecoveryFails, IdleRecoverer, Upward
<1>7. CASE RecoveryImports
  <2>1. /\ imported' = imported \cup recoverer.batch /\ recoverer'.batch = {}
        /\ UNCHANGED <<clock, rejected, store, polled, backfiller>>
    BY <1>7 DEF RecoveryImports, IdleRecoverer
  <2>2. \A m \in recoverer.batch : Kept(m)'
    BY <2>1 DEF Kept
  <2> QED
    BY <1>0, <2>1, <2>2 DEF Upward
<1>8. CASE BackfillReads \/ PrepareBackfill
  BY <1>0, <1>8 DEF BackfillReads, PrepareBackfill, Upward
<1>9. CASE BackfillLists
  <2> DEFINE batch == Normalized(List(NoCheckpoint, job.cursor, PageLimit))
  <2>0. /\ N \in Nat /\ Messages = 1..N
        /\ \A m \in Messages : clock[m] \in 1..N
        /\ \A m, n \in Messages : m <= n => clock[m] <= clock[n]
    BY ClockTyped
  <2>1. ASSUME NEW a \in batch, NEW b \in (1..polled) \ rejected, a < b
        PROVE  b \in batch \/ Kept(b)
    <3>0. b \in Messages /\ b \in (1..store) \ rejected
      BY <2>0
    <3>1. CASE clock[b] < job.cursor
      <4>1. NoCheckpoint \in NoCheckpoint..N
        BY DEF NoCheckpoint
      <4> QED
        BY <2>1, <3>0, <3>1, <4>1, PagesAreUpward
    <3>2. CASE ~(clock[b] < job.cursor)
      <4>1. job.cursor # NoCursor
        BY <2>0, <3>0, <3>2 DEF NoCursor
      <4>2. PICK m \in imported : clock[m] = job.cursor
        BY <4>1 DEF CursorIsImported
      <4>3. m \in Messages
        OBVIOUS
      <4>4. CASE m < b
        BY <4>2, <4>4 DEF Upward, Kept
      <4>5. CASE m = b
        BY <4>2, <4>5 DEF Kept
      <4>6. CASE b < m
        <5>1. clock[m] = clock[b]
          BY <2>0, <3>0, <3>2, <4>2, <4>3, <4>6 DEF NoCursor
        <5> QED
          BY <4>2, <4>6, <5>1 DEF Kept, Skipped
      <4> QED
        BY <2>0, <3>0, <4>3, <4>4, <4>5, <4>6
    <3> QED
      BY <3>1, <3>2
  <2>2. backfiller'.batch = batch
        /\ UNCHANGED <<clock, rejected, store, imported, polled, recoverer>>
    BY <1>9 DEF BackfillLists
  <2> HIDE DEF batch
  <2> QED
    BY <1>0, <2>1, <2>2 DEF Upward
<1>10. CASE BackfillFails
  BY <1>0, <1>10 DEF BackfillFails, IdleBackfiller, Upward
<1>11. CASE BackfillImports
  <2>1. /\ imported' = imported \cup backfiller.batch /\ backfiller'.batch = {}
        /\ UNCHANGED <<clock, rejected, store, polled, recoverer>>
    BY <1>11 DEF BackfillImports, Import, IdleBackfiller
  <2>2. \A m \in backfiller.batch : Kept(m)'
    BY <2>1 DEF Kept
  <2> QED
    BY <1>0, <2>1, <2>2 DEF Upward
<1>12. CASE Interrupt
  BY <1>0, <1>12 DEF Interrupt, IdleRecoverer, IdleBackfiller, Upward
<1>13. CASE UNCHANGED vars
  BY <1>0, <1>13 DEF vars, Upward
<1> QED
  BY <1>1, <1>2, <1>3, <1>4, <1>5, <1>6, <1>7, <1>8, <1>9, <1>10, <1>11, <1>12, <1>13
     DEF Next, Poll, Recovery, Backfill

\* If no more messages arrive between two polls than a poll lists, the imported
\* ones have no hole below what the last poll saw, but for messages that a page cut
\* off from a newer one of the same second, whichever of the three programs
\* imported them and in whatever order their lists were made and used.
THEOREM Stretch == ASSUME Burst <= PollLimit PROVE Spec => []NoHoles
<1>1. Init => IInv /\ OneStretch
  BY InitEstablishes, StretchInit
<1>2. IInv /\ OneStretch /\ [Next]_vars => IInv' /\ OneStretch'
  BY StepPreserves, StretchStep
<1>3. IInv /\ OneStretch => NoHoles
  <2> SUFFICES ASSUME IInv, OneStretch, NEW m \in (1..polled) \ (rejected \cup imported),
                      ~Skipped(m), NEW old \in imported
               PROVE  m < old
    BY DEF IInv, NoHoles
  <2>1. ~(old < m)
    BY DEF OneStretch, Upward, Kept
  <2>2. old \in Int /\ m \in Int /\ old # m
    BY ClockTyped DEF IInv, TypeOK
  <2> QED
    BY <2>1, <2>2
<1> QED
  BY <1>1, <1>2, <1>3, PTL DEF Spec
=============================================================================
