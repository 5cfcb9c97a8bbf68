----------------------------- MODULE LiveProofs -----------------------------
(***************************************************************************)
(* Theorems about Live, for every number of contacts, every setting of the  *)
(* scheduler and every configuration of the preflight.                      *)
(***************************************************************************)
EXTENDS Live, FiniteSetTheorems, TLAPS

Alive == {"running", "terminated", "killed"}

\* A process is alive exactly as long as its call is open.
ProcessesAreCalls ==
    /\ procs = IF call \in Alive THEN 1 ELSE 0
    /\ stack # "up" => call = "none"
    /\ stack \in {"down", "checking", "up"}

\* Side files that are left over are so only while there is no cache.
LogsHaveTheirCache == log \in IF cache = 0 THEN {"none", "stale"} ELSE {"none", "own"}

\* The rows that the preflight believes are there.
Counted == config.warmup /\ ~uncounted => cache \in {3, 4}

Prepared ==
    /\ session = "ok"
    /\ config.warmup => cache \in 1..4
    /\ Counted
    /\ config.warmup /\ config.required => cache = 4

\* Where the preflight is, it has seen what comes before.
CheckedSoFar ==
    /\ cache \in -1..4 /\ uncounted \in BOOLEAN
    /\ stack = "checking" =>
         /\ check \notin {"session", "failed", "none"} => session = "ok"
         /\ check \in {"rows", "chats", "recount", "recheck"} => cache \in 1..4
         /\ check \in {"chats", "recheck"} => Counted
         /\ ready => check = "none" /\ Prepared

\* The scheduler's numbers.
SchedulerTyped == failures \in 0..MaxFailures /\ backoff \in Nat

IInv ==
    /\ ProcessesAreCalls /\ LogsHaveTheirCache /\ CheckedSoFar
    /\ SchedulerTyped /\ BackoffFollowsFailures

LEMMA InitEstablishes == StackInit => IInv
<1> SUFFICES ASSUME StackInit PROVE IInv
  OBVIOUS
<1>1. ProcessesAreCalls /\ LogsHaveTheirCache /\ CheckedSoFar
  BY DEF StackInit, W!Init, W!Missing, W!Malformed, W!Full, ProcessesAreCalls, Alive,
         LogsHaveTheirCache, CheckedSoFar
<1>2. SchedulerTyped /\ BackoffFollowsFailures
  <2>1. RetryMin * 2^0 = RetryMin
    BY LiveSyncAssumption DEF LiveSyncAssumption
  <2> QED
    BY <2>1, LiveSyncAssumption
       DEF LiveSyncAssumption, StackInit, Init, SchedulerTyped, BackoffFollowsFailures, Lesser
<1> QED
  BY <1>1, <1>2 DEF IInv
-----------------------------------------------------------------------------
(* The scheduler *)

\* A set of n elements has 2^n subsets, and half of the subsets of a set with
\* one more.
LEMMA Subsets ==
    ASSUME NEW n \in Nat PROVE IsFiniteSet(SUBSET (1..n)) /\ Cardinality(SUBSET (1..n)) = 2^n
<1>1. IsFiniteSet(1..n) /\ Cardinality(1..n) = n
  BY FS_Interval
<1>2. /\ Cardinality(SUBSET (1..n)) = 2^Cardinality(1..n)
      /\ IsFiniteSet(SUBSET (1..n))
  BY <1>1, FS_SUBSET
<1> QED
  BY <1>1, <1>2

LEMMA Doubles == ASSUME NEW n \in Nat PROVE 2^n \in Nat /\ 2^(n + 1) = 2^n + 2^n
<1> DEFINE S == SUBSET (1..n)
           T == {A \cup {n + 1} : A \in S}
           f == [A \in S |-> A \cup {n + 1}]
<1>1. SUBSET (1..n+1) = S \cup T
  <2>1. 1..n+1 = (1..n) \cup {n+1}
    OBVIOUS
  <2>2. ASSUME NEW B \in SUBSET (1..n+1) PROVE B \in S \cup T
    <3>1. CASE n + 1 \in B
      <4>1. B \ {n+1} \in S /\ B = (B \ {n+1}) \cup {n+1}
        BY <2>1, <3>1
      <4> QED
        BY <4>1
    <3>2. CASE n + 1 \notin B
      BY <2>1, <3>2
    <3> QED
      BY <3>1, <3>2
  <2>3. \A A \in S : A \in SUBSET (1..n+1) /\ A \cup {n+1} \in SUBSET (1..n+1)
    BY <2>1
  <2>4. S \cup T \subseteq SUBSET (1..n+1)
    <3>1. ASSUME NEW B \in T PROVE B \in SUBSET (1..n+1)
      <4>1. PICK A \in S : B = A \cup {n+1}
        OBVIOUS
      <4> HIDE DEF S, T
      <4> QED
        BY <2>3, <4>1
    <3> HIDE DEF T
    <3> QED
      BY <2>3, <3>1
  <2> HIDE DEF S, T
  <2> QED
    BY <2>2, <2>4
<1>2. S \cap T = {}
  <2>1. \A A \in S : n + 1 \notin A
    OBVIOUS
  <2>2. \A B \in T : n + 1 \in B
    OBVIOUS
  <2> HIDE DEF S, T
  <2> QED
    BY <2>1, <2>2
<1>3. f \in Bijection(S, T)
  <2>1. f \in [S -> T]
    OBVIOUS
  <2>2. ASSUME NEW A \in S, NEW B \in S, f[A] = f[B] PROVE A = B
    <3>1. A \cup {n+1} = B \cup {n+1} /\ n + 1 \notin A /\ n + 1 \notin B
      BY <2>2
    <3> QED
      BY <3>1
  <2>3. \A t \in T : \E A \in S : f[A] = t
    OBVIOUS
  <2> HIDE DEF S, T, f
  <2> QED
    BY <2>1, <2>2, <2>3 DEF Bijection, Injection, Surjection, IsInjective
<1> HIDE DEF S, T, f
<1>4. IsFiniteSet(S) /\ Cardinality(S) = 2^n
  BY Subsets DEF S
<1>5. IsFiniteSet(T) /\ Cardinality(T) = Cardinality(S)
  BY <1>3, <1>4, FS_Bijection DEF ExistsBijection
<1>6. Cardinality(S \cup T) = Cardinality(S) + Cardinality(T)
  <2>1. Cardinality(S \cup T) = Cardinality(S) + Cardinality(T) - Cardinality(S \cap T)
    <3>1. IsFiniteSet(S) /\ IsFiniteSet(T)
      BY <1>4, <1>5
    <3> QED
      BY <3>1, FS_Union, Zenon
  <2>2. Cardinality(S \cap T) = 0
    BY <1>2, FS_EmptySet
  <2>3. Cardinality(S) \in Nat /\ Cardinality(T) \in Nat
    BY <1>4, <1>5, FS_CardinalityType
  <2> QED
    BY <2>1, <2>2, <2>3
<1>7. Cardinality(SUBSET (1..n+1)) = 2^(n+1)
  BY Subsets
<1> QED
  BY <1>1, <1>4, <1>5, <1>6, <1>7, FS_CardinalityType

LEMMA FailureDoubles ==
    ASSUME SchedulerTyped, BackoffFollowsFailures, RecordFailure
    PROVE  SchedulerTyped' /\ BackoffFollowsFailures'
<1> USE LiveSyncAssumption DEF LiveSyncAssumption, SchedulerTyped, BackoffFollowsFailures, Lesser
<1> DEFINE p == 2^failures
<1>1. p \in Nat /\ 2^(failures + 1) = 2 * p
  BY Doubles
<1>2. backoff' = IF RetryMax < backoff * 2 THEN RetryMax ELSE backoff * 2
  BY DEF RecordFailure
<1>3. failures' = IF MaxFailures < failures + 1 THEN MaxFailures ELSE failures + 1
  BY DEF RecordFailure
<1>4. RetryMin * (2 * p) = 2 * (RetryMin * p) /\ RetryMin * p \in Nat
  BY <1>1
<1> QED
  BY <1>1, <1>2, <1>3, <1>4

LEMMA SchedulerStep ==
    ASSUME IInv, [StackNext]_all
    PROVE  SchedulerTyped' /\ BackoffFollowsFailures'
<1> USE DEF IInv
<1>1. CASE UNCHANGED <<backoff, failures>>
  BY <1>1 DEF SchedulerTyped, BackoffFollowsFailures
<1>2. CASE RecordFailure
  BY <1>2, FailureDoubles
<1>3. CASE backoff' = RetryMin /\ failures' = 0
  <2>1. RetryMin * 2^0 = RetryMin
    BY LiveSyncAssumption DEF LiveSyncAssumption
  <2> QED
    BY <1>3, <2>1, LiveSyncAssumption
       DEF LiveSyncAssumption, SchedulerTyped, BackoffFollowsFailures, Lesser
<1>4. Restart \/ RecordSuccess => backoff' = RetryMin /\ failures' = 0
  BY DEF Restart, RecordSuccess
<1>5. ASSUME Without \/ SyncSucceeds \/ SyncFails
      PROVE  \/ UNCHANGED <<backoff, failures>> \/ RecordFailure \/ RecordSuccess
  BY <1>5 DEF Without, Decide, PollNext, PollEnds, CycleEnds, CycleThrows, Wake, StorageMissing,
              SyncSucceeds, SyncFails, scheduler
<1>6. ASSUME Worker PROVE UNCHANGED vars \/ Without \/ SyncSucceeds \/ SyncFails
  BY <1>6 DEF Worker, BeginCall, EndSync, EndList, Without
<1>7. UNCHANGED vars => UNCHANGED <<backoff, failures>>
  BY DEF vars, scheduler
<1>8. ASSUME [StackNext]_all PROVE UNCHANGED vars \/ Restart \/ Worker
  BY <1>8 DEF StackNext, LiveUp, Check, Started, WorkerRestarts, Child, Environment, all
<1> QED
  BY <1>1, <1>2, <1>3, <1>4, <1>5, <1>6, <1>7, <1>8
-----------------------------------------------------------------------------
(* The processes, the store and the preflight *)

LEMMA ProcessStep == ASSUME IInv, [StackNext]_all PROVE ProcessesAreCalls'
<1> USE DEF IInv, ProcessesAreCalls, Alive, calls, wacli, W!calls, W!store, W!preflight, W!vars
<1>1. CASE LiveUp
  BY <1>1 DEF LiveUp, W!Begin
<1>2. CASE Check
  <2>1. W!Preflight => UNCHANGED calls
    BY DEF W!Preflight, W!CheckSession, W!CheckCache, W!LookInside, W!LookAgain, W!CountRows,
           W!CheckChats, W!Move, W!WarmCache, W!Verify, W!Die
  <2> QED
    BY <1>2, <2>1 DEF Check
<1>3. CASE Started
  BY <1>3 DEF Started
<1>4. CASE WorkerRestarts
  BY <1>4 DEF WorkerRestarts
<1>5. CASE Worker
  BY <1>5 DEF Worker, BeginCall, EndSync, EndList, W!Spawn, W!Collect
<1>6. CASE Child
  BY <1>6 DEF Child, W!Close, W!Expire, W!Kill
<1>7. CASE Environment
  BY <1>7 DEF Environment, W!Damage, W!Login
<1>8. CASE UNCHANGED all
  BY <1>8 DEF all
<1> QED
  BY <1>1, <1>2, <1>3, <1>4, <1>5, <1>6, <1>7, <1>8 DEF StackNext

\* A count leads to the query only from a cache that it found no reason to refuse.
LEMMA CountStep ==
    ASSUME LogsHaveTheirCache, CheckedSoFar, stack = "checking", UNCHANGED stack,
           NEW at \in {"rows", "recount"}, NEW next \in {"chats", "recheck"},
           NEW lacking \in {"warm", "failed"}, W!CountRows(at, next, lacking)
    PROVE  LogsHaveTheirCache' /\ CheckedSoFar'
<1> USE DEF W!To, W!BreaksOff, W!store, W!calls, W!Empty, W!Rows, W!Full, W!Bare
<1>1. /\ UNCHANGED <<config, session, cache, log, ready>> /\ check = at
      /\ check' = lacking \/ check' = next
  BY DEF W!CountRows
<1>2. uncounted' = TRUE \/ (uncounted' = FALSE /\ (check' = next => cache \in {3, 4}))
  BY DEF W!CountRows
<1>3. LogsHaveTheirCache'
  BY <1>1 DEF LogsHaveTheirCache
<1>4. check' \in {"chats", "recheck"} => Counted'
  <2>1. CASE uncounted' = TRUE
    BY <2>1 DEF Counted
  <2>2. CASE cache \in {3, 4}
    BY <1>1, <2>2 DEF Counted
  <2> QED
    BY <1>1, <1>2, <2>1, <2>2
<1>5. session = "ok" /\ cache \in 1..4 /\ ~ready
  BY <1>1 DEF CheckedSoFar
<1>6. ~ready'
  BY <1>1, <1>5
<1>7. uncounted' \in BOOLEAN
  BY <1>2
<1> QED
  BY <1>1, <1>3, <1>4, <1>5, <1>6, <1>7 DEF CheckedSoFar

LEMMA StoreStep == ASSUME IInv, [StackNext]_all PROVE LogsHaveTheirCache' /\ CheckedSoFar'
<1> USE DEF IInv, LogsHaveTheirCache, CheckedSoFar, Prepared, Counted, calls, store, wacli, all,
            W!calls, W!store, W!preflight, W!vars, W!Missing, W!Malformed, W!Bare, W!Empty,
            W!Rows, W!Full, W!Required
<1>1. CASE LiveUp
  BY <1>1 DEF LiveUp, W!Begin
<1>2. ASSUME stack = "checking", UNCHANGED stack, W!Preflight
      PROVE  LogsHaveTheirCache' /\ CheckedSoFar'
  <2> USE DEF W!To, W!Fails, W!Completes, W!BreaksOff
  <2>1. CASE W!CheckSession
    BY <1>2, <2>1 DEF W!CheckSession
  <2>2. CASE W!CheckCache
    BY <1>2, <2>2 DEF W!CheckCache
  <2>3. CASE W!LookInside
    <3>1. CASE W!CountRows("rows", "chats", "warm")
      BY <1>2, <3>1, CountStep
    <3>2. CASE W!CheckChats("chats", "warm")
      BY <1>2, <3>2 DEF W!CheckChats
    <3> QED
      BY <2>3, <3>1, <3>2 DEF W!LookInside
  <2>4. CASE W!Move
    BY <1>2, <2>4 DEF W!Move
  <2>5. CASE W!WarmCache
    BY <1>2, <2>5 DEF W!WarmCache, W!Fill
  <2>6. CASE W!LookAgain
    <3>1. CASE W!Verify
      BY <1>2, <3>1 DEF W!Verify
    <3>2. CASE W!CountRows("recount", "recheck", "failed")
      BY <1>2, <3>2, CountStep
    <3>3. CASE W!CheckChats("recheck", "failed")
      BY <1>2, <3>3 DEF W!CheckChats
    <3> QED
      BY <2>6, <3>1, <3>2, <3>3 DEF W!LookAgain
  <2>7. CASE W!Die
    BY <1>2, <2>7 DEF W!Die
  <2> QED
    BY <1>2, <2>1, <2>2, <2>3, <2>4, <2>5, <2>6, <2>7 DEF W!Preflight
<1>3. CASE Started
  BY <1>3 DEF Started
<1>4. CASE WorkerRestarts
  BY <1>4 DEF WorkerRestarts
<1>5. CASE Worker
  BY <1>5 DEF Worker, BeginCall, EndSync, EndList, W!Spawn, W!Collect
<1>6. CASE Child
  BY <1>6 DEF Child, W!Close, W!Expire, W!Kill, W!Fill
<1>7. CASE Environment
  BY <1>7 DEF Environment, W!Damage, W!Login
<1>8. CASE UNCHANGED all
  BY <1>8
<1> QED
  BY <1>1, <1>2, <1>3, <1>4, <1>5, <1>6, <1>7, <1>8 DEF StackNext, Check
-----------------------------------------------------------------------------
(* Types *)

Spread(base) == IF Jitter = 0 THEN 0 ELSE base \div Jitter

\* What the types need of the settings.
LEMMA Settings ==
    /\ Contacts \in Nat /\ MaxFailures \in Nat /\ MaxDisruptions \in Nat
    /\ Interval \in Nat \ {0} /\ RetryMin \in Nat \ {0} /\ RetryMax \in Nat
    /\ RetryMin <= RetryMax
    /\ Jitter \in Nat /\ Rest \in Nat \ {0}
  BY LiveSyncAssumption DEF LiveSyncAssumption

LEMMA SpreadGrows ==
    ASSUME NEW a \in Nat, NEW b \in Nat, a <= b
    PROVE  Spread(a) \in Nat /\ Spread(b) \in Nat /\ Spread(a) <= Spread(b)
<1> USE Settings DEF Spread
<1>1. CASE Jitter = 0
  BY <1>1
<1>2. CASE Jitter # 0
  <2> DEFINE p == a \div Jitter
             q == b \div Jitter
  <2>1. /\ p \in Nat /\ q \in Nat
        /\ Jitter * p <= a /\ b < Jitter * (q + 1)
    BY <1>2
  <2> HIDE DEF p, q
  <2>2. p <= q
    <3> SUFFICES ASSUME q + 1 <= p PROVE FALSE
      BY <2>1
    <3>1. Jitter * (q + 1) <= Jitter * p
      BY <2>1
    <3> QED
      BY <2>1, <3>1
  <2> USE DEF p, q
  <2> QED
    BY <1>2, <2>1, <2>2
<1> QED
  BY <1>1, <1>2

\* No wait that the scheduler sets exceeds the longest one.
LEMMA WaitsAreBounded ==
    ASSUME NEW base \in Nat, base <= Interval \/ base <= RetryMax
    PROVE  WithJitter(base) \subseteq 0..LongestWait /\ {0, Interval} \subseteq 0..LongestWait
<1> DEFINE top == Greater(Interval, RetryMax)
<1>1. top \in Nat \ {0} /\ base <= top /\ Interval <= top /\ Interval \in Nat
  BY Settings DEF Greater
<1> HIDE DEF top
<1>2. Spread(base) \in Nat /\ Spread(top) \in Nat /\ Spread(base) <= Spread(top)
  BY <1>1, SpreadGrows
<1>3. LongestWait = top + Spread(top)
  BY DEF LongestWait, Spread, top
<1>4. WithJitter(base) = {Greater(1, base + d) : d \in -Spread(base)..Spread(base)}
  BY DEF WithJitter, Spread
<1>5. \A d \in -Spread(base)..Spread(base) : Greater(1, base + d) \in 0..LongestWait
  BY <1>1, <1>2, <1>3 DEF Greater
<1> QED
  BY <1>1, <1>2, <1>3, <1>4, <1>5

LEMMA TypesInit == StackInit => StackTypeOK
<1> SUFFICES ASSUME StackInit PROVE StackTypeOK
  OBVIOUS
<1>1. TypeOK
  <2>1. due \in 0..LongestWait
    <3>1. {0, Interval} \subseteq 0..LongestWait
      BY WaitsAreBounded, Settings
    <3> QED
      BY <3>1 DEF StackInit, Init
  <2>2. forced \in Forcing /\ shouldSync \in BOOLEAN
    BY DEF StackInit, Init
  <2>3. last \in {"never", "completed", "failed"} /\ step \in Steps
    BY DEF StackInit, Init, Steps
  <2>4. backoff \in RetryMin..RetryMax /\ contact \in 0..Contacts
        /\ failures \in 0..MaxFailures /\ disruptions \in 0..MaxDisruptions
    BY Settings DEF StackInit, Init
  <2> QED
    BY <2>1, <2>2, <2>3, <2>4 DEF TypeOK
<1>2. W!TypeOK
  <2>1. config \in Configs /\ ready \in BOOLEAN /\ uncounted \in BOOLEAN
    BY DEF StackInit, W!Init
  <2>2. /\ session \in {"missing", "malformed", "ok"} /\ cache \in W!Malformed..W!Full
        /\ log \in {"none", "own", "stale", "lost"}
        /\ check \in {"none", "failed", "session", "cache", "rows", "chats", "move", "moving",
                      "warm", "verify", "recount", "recheck"}
        /\ call \in {"none", "running", "terminated", "killed", "closed"}
        /\ exit \in {"none", "ok", "failed"}
    BY DEF StackInit, W!Init
  <2>3. procs \in Nat /\ faults \in 0..MaxFaults
    BY LiveAssumption DEF LiveAssumption, StackInit, W!Init
  <2> QED
    BY <2>1, <2>2, <2>3 DEF W!TypeOK
<1> QED
  BY <1>1, <1>2 DEF StackTypeOK, StackInit

LEMMA SchedulerTypes == ASSUME TypeOK, [StackNext]_all PROVE TypeOK'
<1> USE DEF TypeOK, Steps, scheduler, rest
<1>1. ASSUME RecordFailure PROVE /\ due' \in 0..LongestWait /\ backoff' \in RetryMin..RetryMax
                                 /\ last' = "failed" /\ failures' \in 0..MaxFailures
  <2>1. backoff \in Nat /\ backoff <= RetryMax
    BY Settings
  <2>2. due' \in 0..LongestWait
    BY <1>1, <2>1, WaitsAreBounded DEF RecordFailure
  <2> QED
    BY Settings, <1>1, <2>1, <2>2 DEF RecordFailure, Lesser
<1>2. ASSUME RecordSuccess PROVE /\ due' \in 0..LongestWait /\ backoff' \in RetryMin..RetryMax
                                 /\ last' = "completed" /\ failures' \in 0..MaxFailures
  <2>1. due' \in 0..LongestWait
    BY Settings, <1>2, WaitsAreBounded DEF RecordSuccess
  <2> QED
    BY Settings, <1>2, <2>1 DEF RecordSuccess
<1>3. ASSUME Restart PROVE TypeOK'
  <2>1. due' \in 0..LongestWait
    <3>1. {0, Interval} \subseteq 0..LongestWait
      BY Settings, WaitsAreBounded
    <3> QED
      BY <1>3, <3>1 DEF Restart
  <2>2. forced' \in Forcing /\ shouldSync' \in BOOLEAN
    BY <1>3 DEF Restart
  <2>3. last' \in {"never", "completed", "failed"} /\ step' \in Steps
    BY <1>3 DEF Restart
  <2>4. backoff' \in RetryMin..RetryMax /\ contact' \in 0..Contacts /\ failures' \in 0..MaxFailures
    BY Settings, <1>3 DEF Restart
  <2>5. disruptions' \in 0..MaxDisruptions
    BY Settings, <1>3 DEF Restart
  <2> QED
    BY <2>1, <2>2, <2>3, <2>4, <2>5
<1>4. ASSUME Decide \/ PollNext \/ PollEnds \/ StorageMissing \/ SyncSucceeds PROVE TypeOK'
  <2>1. CASE Decide
    <3>1. shouldSync' \in BOOLEAN /\ step' \in Steps
      BY <2>1 DEF Decide
    <3> QED
      BY Settings, <2>1, <3>1 DEF Decide
  <2>2. CASE PollNext
    BY Settings, <2>2 DEF PollNext
  <2>3. CASE PollEnds
    BY <2>3 DEF PollEnds
  <2>4. CASE StorageMissing
    BY Settings, <2>4 DEF StorageMissing
  <2>5. CASE SyncSucceeds
    BY <2>5 DEF SyncSucceeds
  <2> QED
    BY <1>4, <2>1, <2>2, <2>3, <2>4, <2>5
<1>5. ASSUME CycleEnds \/ CycleThrows \/ SyncFails PROVE TypeOK'
  <2>1. \/ UNCHANGED scheduler \/ RecordSuccess \/ RecordFailure
    BY <1>5 DEF CycleEnds, CycleThrows, SyncFails
  <2>2. /\ due' \in 0..LongestWait /\ backoff' \in RetryMin..RetryMax
        /\ last' \in {"never", "completed", "failed"} /\ failures' \in 0..MaxFailures
    BY <1>1, <1>2, <2>1
  <2>3. disruptions' \in 0..MaxDisruptions
    BY <1>5, Settings DEF CycleEnds, CycleThrows, SyncFails
  <2>4. step' = "resting" /\ UNCHANGED <<shouldSync, contact, forced>>
    BY <1>5 DEF CycleEnds, CycleThrows, SyncFails
  <2> QED
    BY <2>2, <2>3, <2>4
<1>6. ASSUME Wake PROVE TypeOK'
  <2>1. PICK t \in 1..Rest : due' = Greater(0, due - t)
    BY <1>6 DEF Wake
  <2>2. LongestWait \in Nat /\ Rest \in Nat
    <3>1. 0 \in 0..LongestWait /\ Interval \in 0..LongestWait
      BY Settings, WaitsAreBounded
    <3>2. Spread(Greater(Interval, RetryMax)) \in Nat
      BY Settings, SpreadGrows DEF Greater
    <3> QED
      BY Settings, <3>2 DEF LongestWait, Spread, Greater
  <2>3. due' \in 0..LongestWait
    BY <2>1, <2>2 DEF Greater
  <2> QED
    BY <1>6, <2>3 DEF Wake
<1>7. ASSUME UNCHANGED vars PROVE TypeOK'
  BY <1>7 DEF vars
<1>8. \/ UNCHANGED vars \/ Restart \/ Without \/ SyncSucceeds \/ SyncFails
  BY DEF StackNext, LiveUp, Check, Started, WorkerRestarts, Worker, BeginCall, EndSync, EndList,
         Without, Child, Environment, all
<1> QED
  BY <1>3, <1>4, <1>5, <1>6, <1>7, <1>8 DEF Without

Places ==
    {"none", "failed", "session", "cache", "rows", "chats", "move", "moving",
     "warm", "verify", "recount", "recheck"}

\* A count or a query keeps the types, wherever it leads.
LEMMA Counts ==
    ASSUME W!TypeOK, NEW at, NEW next \in Places, NEW lacking \in Places,
           W!CountRows(at, next, lacking)
    PROVE  W!TypeOK'
<1> USE LiveAssumption DEF LiveAssumption, W!TypeOK, W!store, W!calls, Places, W!To, W!BreaksOff,
        W!Missing, W!Malformed, W!Full
<1>1. UNCHANGED <<config, session, cache, log, ready, call, exit, procs>>
  BY DEF W!CountRows
<1>2. check' \in Places /\ uncounted' \in BOOLEAN
  BY DEF W!CountRows
<1>3. faults' \in 0..MaxFaults
  BY DEF W!CountRows
<1> QED
  BY <1>1, <1>2, <1>3

LEMMA Queries ==
    ASSUME W!TypeOK, NEW at, NEW lacking \in Places, W!CheckChats(at, lacking)
    PROVE  W!TypeOK'
<1> USE LiveAssumption DEF LiveAssumption, W!TypeOK, W!store, W!calls, Places, W!To, W!BreaksOff,
        W!Completes, W!Missing, W!Malformed, W!Full
<1>1. UNCHANGED <<config, session, cache, log, uncounted, call, exit, procs>>
  BY DEF W!CheckChats
<1>2. check' \in Places
  BY DEF W!CheckChats
<1>3. ready' \in BOOLEAN
  <2>1. ready' = TRUE \/ UNCHANGED ready
    BY DEF W!CheckChats
  <2> QED
    BY <2>1
<1>4. faults' \in 0..MaxFaults
  BY DEF W!CheckChats
<1> QED
  BY <1>1, <1>2, <1>3, <1>4

LEMMA StoreTypes == ASSUME IInv, W!TypeOK, [StackNext]_all PROVE W!TypeOK'
<1> USE LiveAssumption DEF LiveAssumption, W!TypeOK, W!store, W!calls, W!preflight, W!vars,
        W!Missing, W!Malformed, W!Full, store, calls, wacli
<1>0. procs' \in Nat
  <2>1. ProcessesAreCalls'
    BY ProcessStep
  <2> QED
    BY <2>1 DEF ProcessesAreCalls
<1>1. CASE LiveUp
  BY <1>1 DEF LiveUp, W!Begin
<1>2. CASE Check
  <2> USE DEF W!To, W!Fails, W!Completes, W!BreaksOff
  <2>1. CASE W!CheckSession
    BY <2>1 DEF W!CheckSession
  <2>2. CASE W!CheckCache
    BY <2>2 DEF W!CheckCache
  <2>3. CASE W!LookInside
    <3>1. "chats" \in Places /\ "warm" \in Places
      BY DEF Places
    <3>2. CASE W!CountRows("rows", "chats", "warm")
      BY <3>1, <3>2, Counts
    <3>3. CASE W!CheckChats("chats", "warm")
      BY <3>1, <3>3, Queries
    <3> QED
      BY <2>3, <3>2, <3>3 DEF W!LookInside
  <2>4. CASE W!Move
    BY <2>4 DEF W!Move
  <2>5. CASE W!WarmCache
    <3>1. cache' \in -1..4 /\ log' \in {"none", "own", "stale", "lost"}
      BY <2>5 DEF W!WarmCache, W!Fill
    <3>2. check' \in {"verify", "none"} /\ ready' \in BOOLEAN
          /\ UNCHANGED <<config, session, faults, uncounted>>
      BY <2>5 DEF W!WarmCache
    <3>3. UNCHANGED calls
      BY <2>5 DEF W!WarmCache
    <3> QED
      BY <3>1, <3>2, <3>3
  <2>6. CASE W!LookAgain
    <3>1. "failed" \in Places /\ "recheck" \in Places
      BY DEF Places
    <3>2. CASE W!Verify
      BY <3>2 DEF W!Verify
    <3>3. CASE W!CountRows("recount", "recheck", "failed")
      BY <3>1, <3>3, Counts
    <3>4. CASE W!CheckChats("recheck", "failed")
      BY <3>1, <3>4, Queries
    <3> QED
      BY <2>6, <3>2, <3>3, <3>4 DEF W!LookAgain
  <2>7. CASE W!Die
    BY <2>7 DEF W!Die
  <2> QED
    BY <1>2, <2>1, <2>2, <2>3, <2>4, <2>5, <2>6, <2>7 DEF Check, W!Preflight
<1>3. CASE Started
  BY <1>3 DEF Started
<1>4. CASE WorkerRestarts
  BY <1>4 DEF WorkerRestarts
<1>5. CASE Worker
  BY <1>0, <1>5 DEF Worker, BeginCall, EndSync, EndList, W!Spawn, W!Collect
<1>6. CASE Child
  BY <1>0, <1>6 DEF Child, W!Close, W!Expire, W!Kill, W!Fill
<1>7. CASE Environment
  BY <1>7 DEF Environment, W!Damage, W!Login
<1>8. CASE UNCHANGED all
  BY <1>8 DEF all
<1> QED
  BY <1>1, <1>2, <1>3, <1>4, <1>5, <1>6, <1>7, <1>8 DEF StackNext

-----------------------------------------------------------------------------
LEMMA StepPreserves == IInv /\ [StackNext]_all => IInv'
  BY SchedulerStep, ProcessStep, StoreStep DEF IInv

\* The invariant that the theorems rest on holds.
THEOREM Invariance == StackSpec => []IInv
  BY InitEstablishes, StepPreserves, PTL DEF StackSpec

\* The backoff is RetryMin doubled once for each failure since the last success.
THEOREM Backoff == StackSpec => []BackoffFollowsFailures
<1>1. IInv => BackoffFollowsFailures
  BY DEF IInv
<1> QED
  BY Invariance, <1>1, PTL

\* The worker and the preflight never have two processes on the store.
THEOREM OneProcess == StackSpec => []OneWacliAtATime
<1>1. IInv => OneWacliAtATime
  BY DEF IInv, ProcessesAreCalls, Alive, OneWacliAtATime
<1> QED
  BY Invariance, <1>1, PTL

\* No interruption leaves a cache with the side files of another.
THEOREM OwnLog == StackSpec => []LogStaysWithItsCache
<1>1. IInv => LogStaysWithItsCache
  BY DEF IInv, LogsHaveTheirCache, LogStaysWithItsCache, W!Missing
<1> QED
  BY Invariance, <1>1, PTL

\* The stack is started with a session and a cache that fits the configuration.
THEOREM StartedReady == StackSpec => ReadyWhenStarted
<1> DEFINE Fits == stack # "up" /\ stack' = "up" =>
                     /\ session = "ok"
                     /\ config.warmup => cache \in W!Bare..W!Full
                     /\ config.warmup /\ ~uncounted => cache \in {W!Rows, W!Full}
                     /\ config.warmup /\ config.required => cache = W!Full
<1>1. IInv /\ [StackNext]_all => [Fits]_all
  <2> SUFFICES ASSUME IInv, StackNext, stack # "up", stack' = "up" PROVE Fits
    BY DEF all
  <2>1. Started
    BY DEF StackNext, LiveUp, Check, WorkerRestarts, Worker, Child, Environment
  <2>2. stack = "checking" /\ ready
    BY <2>1 DEF Started
  <2> QED
    BY <2>2 DEF IInv, CheckedSoFar, Prepared, Counted, W!Bare, W!Rows, W!Full
<1>2. StackSpec => [][Fits]_all
  BY Invariance, <1>1, PTL DEF StackSpec
<1> QED
  BY <1>2 DEF ReadyWhenStarted

\* The scheduler, the loop, the calls and the preflight hold what their types admit,
\* and no wait for the next sync exceeds the longest the settings allow.
THEOREM StackTyped == StackSpec => []StackTypeOK
<1>1. IInv /\ StackTypeOK /\ [StackNext]_all => StackTypeOK'
  <2> SUFFICES ASSUME IInv, StackTypeOK, [StackNext]_all PROVE StackTypeOK'
    OBVIOUS
  <2>1. ProcessesAreCalls'
    BY ProcessStep
  <2> QED
    BY <2>1, SchedulerTypes, StoreTypes DEF StackTypeOK, ProcessesAreCalls
<1> QED
  BY Invariance, TypesInit, <1>1, PTL DEF StackSpec
=============================================================================
