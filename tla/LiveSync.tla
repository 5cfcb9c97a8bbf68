------------------------------ MODULE LiveSync ------------------------------
(***************************************************************************)
(* The live worker's loop around a cycle: the storage gate, the scheduler  *)
(* that decides when wacli synchronises with WhatsApp, and the poll that   *)
(* goes through the allowlisted contacts one after the other. What a poll  *)
(* of one contact does is the subject of module Sync, what comes after it  *)
(* of Automation and Media.                                                *)
(*                                                                         *)
(* Times are numbers of ticks, a tick being MIN_INTERVAL_MS; only the time *)
(* left until the next sync matters, so the clock itself is not kept.      *)
(***************************************************************************)
EXTENDS Integers

CONSTANTS
    Contacts,      \* number of allowlisted contacts, polled in this order
    Broken,        \* those whose import may fail inside its transaction
    Forcing,       \* values VIJI_LIVE_SYNC_BEFORE_POLL_ENABLED may have
    Interval,      \* VIJI_LIVE_SYNC_INTERVAL_MS
    RetryMin,      \* VIJI_LIVE_SYNC_RETRY_MIN_MS
    RetryMax,      \* VIJI_LIVE_SYNC_RETRY_MAX_MS
    Jitter,        \* one over VIJI_LIVE_SYNC_JITTER_RATIO, 0 for no jitter
    Rest,          \* assumption: most ticks between the end of a cycle and the next
    MaxFailures,   \* failures are counted up to here
    MaxDisruptions \* bound: restarts, exceptions in sync or poll, cycles without storage

ASSUME LiveSyncAssumption ==
    /\ Contacts \in Nat
    /\ Broken \subseteq 1..Contacts
    /\ Forcing \subseteq BOOLEAN
    /\ Interval \in Nat \ {0} /\ RetryMin \in Nat \ {0} /\ RetryMax \in Nat
    /\ RetryMin <= RetryMax
    /\ Jitter \in Nat
    /\ Rest \in Nat \ {0}
    /\ MaxFailures \in Nat /\ MaxDisruptions \in Nat
    /\ RetryMin * 2^MaxFailures >= RetryMax

VARIABLES
    forced,     \* forceSyncEveryCycle
    due,        \* nextSyncAtMs - now, 0 when it has passed
    backoff,    \* retryBackoffMs
    last,       \* lastStatus
    step,       \* where the daemon is
    shouldSync, \* the decision of this cycle
    contact,    \* the contact the poll is at, 0 before the first
    failures,   \* history: failures recorded since the last success
    disruptions \* counts these, up to MaxDisruptions

scheduler == <<due, backoff, last, failures>>
rest == <<forced, disruptions>>
vars == <<scheduler, step, shouldSync, contact, rest>>

Steps == {"deciding", "syncing", "polling", "automating", "resting"}

Lesser(a, b) == IF a < b THEN a ELSE b
Greater(a, b) == IF a > b THEN a ELSE b

\* withJitter: base plus or minus up to its Jitter-th part, at least one tick.
WithJitter(base) ==
    LET spread == IF Jitter = 0 THEN 0 ELSE base \div Jitter
    IN  {Greater(1, base + d) : d \in -spread..spread}

Init ==
    /\ forced \in Forcing
    /\ due \in {0, Interval}     \* startup sync enabled, or not
    /\ backoff = RetryMin
    /\ last = "never"
    /\ step = "deciding"
    /\ shouldSync = FALSE
    /\ contact = 0
    /\ failures = 0
    /\ disruptions = 0

\* Mutant: the backoff is not reset.
RecordSuccessMutant ==
    /\ last' = "completed"
    /\ UNCHANGED backoff
    /\ due' \in WithJitter(Interval)
    /\ failures' = 0

RecordSuccess ==
    /\ last' = "completed"
    /\ backoff' = RetryMin
    /\ due' \in WithJitter(Interval)
    /\ failures' = 0

\* Mutants: no next time is set; the last doubling passes the maximum.
RecordFailureAtOnce ==
    /\ last' = "failed"
    /\ due' = 0
    /\ backoff' = Lesser(RetryMax, backoff * 2)
    /\ failures' = Lesser(MaxFailures, failures + 1)

RecordFailureUnbounded ==
    /\ last' = "failed"
    /\ due' \in WithJitter(backoff)
    /\ backoff' = IF backoff >= RetryMax THEN backoff ELSE backoff * 2
    /\ failures' = Lesser(MaxFailures, failures + 1)

RecordFailure ==
    /\ last' = "failed"
    /\ due' \in WithJitter(backoff)
    /\ backoff' = Lesser(RetryMax, backoff * 2)
    /\ failures' = Lesser(MaxFailures, failures + 1)

\* A sync that every cycle makes is not the scheduler's business.
Recorded == shouldSync /\ ~forced

\* Without the data root or its sentinel the loop sleeps and asks again.
StorageMissing ==
    /\ step = "deciding" /\ disruptions < MaxDisruptions
    /\ step' = "resting"
    /\ disruptions' = disruptions + 1
    /\ UNCHANGED <<scheduler, shouldSync, contact, forced>>

Decide ==
    /\ step = "deciding"
    /\ shouldSync' = (forced \/ due = 0)
    /\ step' = IF shouldSync' THEN "syncing" ELSE "polling"
    /\ contact' = 0
    /\ UNCHANGED <<scheduler, rest>>

SyncSucceeds ==
    /\ step = "syncing"
    /\ step' = "polling"
    /\ UNCHANGED <<scheduler, shouldSync, contact, rest>>

\* A failed sync ends the cycle before the poll.
SyncFails ==
    /\ step = "syncing"
    /\ step' = "resting"
    /\ IF Recorded THEN RecordFailure ELSE UNCHANGED scheduler
    /\ UNCHANGED <<shouldSync, contact, rest>>

\* Polled, skipped, or failed in its adapter calls: on to the next contact.
PollNext ==
    /\ step = "polling" /\ contact < Contacts
    /\ contact' = contact + 1
    /\ UNCHANGED <<scheduler, step, shouldSync, rest>>

PollEnds ==
    /\ step = "polling" /\ contact = Contacts
    /\ step' = "automating"
    /\ UNCHANGED <<scheduler, shouldSync, contact, rest>>

CycleEnds ==
    /\ step = "automating"
    /\ step' = "resting"
    /\ IF Recorded THEN RecordSuccess ELSE UNCHANGED scheduler
    /\ UNCHANGED <<shouldSync, contact, rest>>

\* The transaction of a contact is returned without await, so that its failure
\* passes the catch around it and ends the poll, like an exception later on, or any
\* in sync or poll outside a catch: a database that is gone, a wacli that cannot be
\* spawned. The daemon then records a failed sync, even if the sync succeeded.
CycleThrows ==
    /\ \/ step = "polling" /\ contact \in Broken /\ UNCHANGED disruptions
       \/ step = "automating" /\ UNCHANGED disruptions
       \/ /\ step \in {"syncing", "polling"} /\ disruptions < MaxDisruptions
          /\ disruptions' = disruptions + 1
    /\ step' = "resting"
    /\ IF Recorded THEN RecordFailure ELSE UNCHANGED scheduler
    /\ UNCHANGED <<shouldSync, contact, forced>>

\* Media, audio and the sleep take time.
Wake ==
    /\ step = "resting"
    /\ step' = "deciding"
    /\ \E t \in 1..Rest : due' = Greater(0, due - t)
    /\ UNCHANGED <<backoff, last, shouldSync, contact, failures, rest>>

\* The scheduler's state is lost with the process.
Restart ==
    /\ disruptions < MaxDisruptions
    /\ disruptions' = disruptions + 1
    /\ due' \in {0, Interval} /\ backoff' = RetryMin /\ last' = "never"
    /\ step' = "deciding" /\ shouldSync' = FALSE /\ contact' = 0
    /\ failures' = 0
    /\ UNCHANGED forced

Cycle ==
    \/ Decide \/ SyncSucceeds \/ SyncFails
    \/ PollNext \/ PollEnds \/ CycleEnds \/ CycleThrows \/ Wake

Next == Cycle \/ StorageMissing \/ Restart

Spec == Init /\ [][Next]_vars

-----------------------------------------------------------------------------
(* Properties *)

LongestWait ==
    LET base == Greater(Interval, RetryMax)
    IN  base + (IF Jitter = 0 THEN 0 ELSE base \div Jitter)

\* The state is what the scheduler's types say; no wait exceeds the longest of
\* interval and maximal backoff, with its jitter.
TypeOK ==
    /\ forced \in Forcing
    /\ due \in 0..LongestWait
    /\ backoff \in RetryMin..RetryMax
    /\ last \in {"never", "completed", "failed"}
    /\ step \in Steps
    /\ shouldSync \in BOOLEAN
    /\ contact \in 0..Contacts
    /\ failures \in 0..MaxFailures
    /\ disruptions \in 0..MaxDisruptions

\* The backoff that is doubled, capped and reset step by step is RetryMin times
\* two to the number of failures since the last success, at most RetryMax.
BackoffFollowsFailures == backoff = Lesser(RetryMax, RetryMin * 2^failures)
=============================================================================
