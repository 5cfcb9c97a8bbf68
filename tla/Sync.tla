-------------------------------- MODULE Sync --------------------------------
(***************************************************************************)
(* How the messages of one conversation get from wacli's local store into  *)
(* the database. Three programs import them: the live worker polls the     *)
(* newest few, a reconnect recovery asks for what is newer than its        *)
(* checkpoint, and a history backfill goes back page by page. Each lists   *)
(* messages outside a transaction and imports them in a later one, so they *)
(* interleave, and each also writes the conversation's context state.      *)
(*                                                                         *)
(* A message's number is its place in wacli's list, and its clock what the *)
(* database keeps of its time: a whole second, which it may share with its *)
(* neighbours. Cursors and checkpoints are such times. wacli lists the      *)
(* newest messages first: only then does a poll without a cursor see new   *)
(* ones, and only then does paging back from the oldest one make progress. *)
(***************************************************************************)
EXTENDS Integers, FiniteSets

CONSTANTS
    N,             \* number of messages there will ever be
    Clocks,        \* at which seconds they may be sent, numbered from 1
    RejectedSets,  \* which messages the normalizer may be unable to read
    PollLimit,     \* VIJI_LIVE_INGEST_MESSAGE_LIMIT
    PageLimit,     \* the limit of recovery and backfill
    Burst,         \* assumption: new messages between two polls that succeed
    MaxInterrupts  \* bound: failed calls, exceptions and crashes

Messages == 1..N

ASSUME SyncAssumption ==
    /\ N \in Nat
    /\ Clocks \subseteq [Messages -> 1..N]
    /\ \A c \in Clocks : \A m, n \in Messages : m <= n => c[m] <= c[n]
    /\ RejectedSets \subseteq SUBSET Messages
    /\ PollLimit \in Nat \ {0} /\ PageLimit \in Nat \ {0}
    /\ Burst \in Nat /\ MaxInterrupts \in Nat

VARIABLES
    clock,       \* the received_at of each message
    store,       \* messages 1..store are in wacli's store
    rejected,    \* those the normalizer rejects
    imported,    \* msg_messages of the conversation
    context,     \* msg_conversation_context_state, "absent" before the row
    checkpoint,  \* ops_sync_cursors reconnect_checkpoint, a time
    job,         \* the latest row of msg_history_backfill_jobs
    poller, recoverer, backfiller,  \* program counters and locals
    polled,      \* history: what the store held for the last poll that succeeded
    reach,       \* history: what it held for the first page of job
    interrupts   \* counts interrupts, up to MaxInterrupts

given == <<clock, rejected>>
rows == <<imported, context, checkpoint, job>>
programs == <<poller, recoverer, backfiller>>
ghosts == <<polled, reach>>
vars == <<given, store, rows, programs, ghosts, interrupts>>

ContextStates == {"fresh", "stale", "recovering", "unknown"}
BackfillStates == {"none", "running", "paused", "completed", "failed"}

Newest(S) == CHOOSE m \in S : \A n \in S : n <= m
Oldest(S) == CHOOSE m \in S : \A n \in S : m <= n

\* listMessages: the newest messages of the store between two times.
List(after, before, limit) ==
    LET found == {m \in 1..store : after < clock[m] /\ clock[m] < before}
    IN  {m \in found : Cardinality({n \in found : n > m}) < limit}

\* The lists' bounds when the caller gives none.
NoCursor == N + 1
NoCheckpoint == -1

IdlePoller == [step |-> "idle", batch |-> {}, seen |-> 0]
IdleRecoverer == [step |-> "idle", batch |-> {}, cursor |-> NoCheckpoint]
IdleBackfiller == [step |-> "idle", batch |-> {}, seen |-> 0, context |-> "unknown"]

NoJob == [state |-> "none", cursor |-> NoCursor, imported |-> 0]

Init ==
    /\ clock \in Clocks /\ rejected \in RejectedSets
    /\ store \in 0..N
    /\ imported = {}
    /\ context = "absent"
    /\ checkpoint = NoCheckpoint
    /\ job = NoJob
    /\ poller = IdlePoller
    /\ recoverer = IdleRecoverer
    /\ backfiller = IdleBackfiller
    /\ polled = store
    /\ reach = 0
    /\ interrupts = 0

\* wacli's sync brings a message. How many arrive between two polls is an
\* assumption about the chat: what exceeds a poll's limit is never imported by
\* a poll.
Arrive ==
    /\ store < N
    /\ store < polled + Burst
    /\ store' = store + 1
    /\ UNCHANGED <<given, rows, programs, ghosts, interrupts>>

\* normalizeWacliMessagesFromJson parts a list into messages and rejected entries;
\* the callers count the rejected ones and go on with the rest.
Normalized(list) == list \ rejected

\* upsertDirectConversation: of a row that exists the context state is replaced.
UpsertConversation(state) == context' = state

\* ingestNormalizedInboundMessages: inserts are idempotent, and the conversation is
\* upserted once per message.
Import(batch, state) ==
    /\ imported' = imported \cup batch
    /\ IF batch = {} THEN UNCHANGED context ELSE UpsertConversation(state)
-----------------------------------------------------------------------------
(* pollAllowlistedContact *)

\* Mutant: the window is one message short.
PollListsMutant ==
    /\ poller.step = "idle"
    /\ poller' = [step |-> "listed", seen |-> store,
                  batch |-> Normalized(List(NoCheckpoint, NoCursor, PollLimit - 1))]
    /\ UNCHANGED <<given, store, rows, recoverer, backfiller, ghosts, interrupts>>

PollLists ==
    /\ poller.step = "idle"
    /\ poller' = [step |-> "listed", seen |-> store,
                  batch |-> Normalized(List(NoCheckpoint, NoCursor, PollLimit))]
    /\ UNCHANGED <<given, store, rows, recoverer, backfiller, ghosts, interrupts>>

\* Mutant: a conversation that exists keeps its context state.
PollImportsMutant ==
    /\ poller.step = "listed"
    /\ imported' = imported \cup poller.batch
    /\ context' = IF context = "absent" THEN "fresh" ELSE context
    /\ poller' = IdlePoller
    /\ polled' = poller.seen
    /\ UNCHANGED <<given, store, checkpoint, job, recoverer, backfiller, reach, interrupts>>

\* One transaction, whose upsert marks the conversation fresh whatever was listed.
PollImports ==
    /\ poller.step = "listed"
    /\ imported' = imported \cup poller.batch
    /\ UpsertConversation("fresh")
    /\ poller' = IdlePoller
    /\ polled' = poller.seen
    /\ UNCHANGED <<given, store, checkpoint, job, recoverer, backfiller, reach, interrupts>>

\* No chat, a failed call or a failed transaction: nothing is written.
PollFails ==
    /\ poller.step = "listed" /\ interrupts < MaxInterrupts
    /\ poller' = IdlePoller
    /\ interrupts' = interrupts + 1
    /\ UNCHANGED <<given, store, rows, recoverer, backfiller, ghosts>>
-----------------------------------------------------------------------------
(* recoverConversation *)

PrepareRecovery ==
    /\ recoverer.step = "idle" /\ context # "absent"
    /\ context' = "recovering"
    /\ recoverer' = [recoverer EXCEPT !.step = "prepared", !.cursor = checkpoint]
    /\ UNCHANGED <<given, store, imported, checkpoint, job, poller,
                   backfiller, ghosts, interrupts>>

RecoveryLists ==
    /\ recoverer.step = "prepared"
    /\ recoverer' = [recoverer EXCEPT !.step = "listed",
                       !.batch = Normalized(List(recoverer.cursor, NoCursor, PageLimit))]
    /\ UNCHANGED <<given, store, rows, poller, backfiller, ghosts, interrupts>>

\* failReconnect: the call failed or its answer is no batch.
RecoveryFails ==
    /\ recoverer.step = "prepared" /\ interrupts < MaxInterrupts
    /\ context' = "stale"
    /\ recoverer' = IdleRecoverer
    /\ interrupts' = interrupts + 1
    /\ UNCHANGED <<given, store, imported, checkpoint, job, poller,
                   backfiller, ghosts>>

\* upsertSyncCursor
UpsertCheckpoint(value) == checkpoint' = value

\* With nothing to import and no checkpoint yet, the checkpoint is the time: later
\* than what was sent so far, and perhaps than what has yet to reach the store.
RecoveryImports ==
    /\ recoverer.step = "listed"
    /\ imported' = imported \cup recoverer.batch
    /\ context' = "fresh"
    /\ \E now \in 0..N :
          /\ \A m \in 1..store : clock[m] <= now
          /\ UpsertCheckpoint(IF recoverer.batch # {} THEN clock[Newest(recoverer.batch)]
                              ELSE IF recoverer.cursor # NoCheckpoint THEN recoverer.cursor
                              ELSE now)
    /\ recoverer' = IdleRecoverer
    /\ UNCHANGED <<given, store, job, poller, backfiller, ghosts, interrupts>>
-----------------------------------------------------------------------------
(* runHistoryBackfillPage *)

\* The context state is read here and written back with the page.
BackfillReads ==
    /\ backfiller.step = "idle" /\ context # "absent"
    /\ backfiller' = [backfiller EXCEPT !.step = "reading", !.context = context]
    /\ UNCHANGED <<given, store, rows, poller, recoverer, ghosts, interrupts>>

\* The latest job is resumed, whatever stopped it, unless it is completed.
PrepareBackfill ==
    /\ backfiller.step = "reading"
    /\ job' = [(IF job.state = "completed" THEN NoJob ELSE job) EXCEPT !.state = "running"]
    /\ backfiller' = [backfiller EXCEPT !.step = "prepared"]
    /\ UNCHANGED <<given, store, imported, context, checkpoint, poller,
                   recoverer, ghosts, interrupts>>

BackfillLists ==
    /\ backfiller.step = "prepared"
    /\ backfiller' = [backfiller EXCEPT !.step = "listed", !.seen = store,
                        !.batch = Normalized(List(NoCheckpoint, job.cursor, PageLimit))]
    /\ UNCHANGED <<given, store, rows, poller, recoverer, ghosts, interrupts>>

\* failBackfill keeps cursor and count, and leaves the context state alone.
BackfillFails ==
    /\ backfiller.step = "prepared" /\ interrupts < MaxInterrupts
    /\ job' = [job EXCEPT !.state = "failed"]
    /\ backfiller' = IdleBackfiller
    /\ interrupts' = interrupts + 1
    /\ UNCHANGED <<given, store, imported, context, checkpoint, poller,
                   recoverer, ghosts>>

FirstPageSeen == IF job.cursor = NoCursor THEN backfiller.seen ELSE reach

\* updateBackfillJobState: no new cursor leaves the old one.
UpdateJob(last, cursor) ==
    job' = [state |-> IF last THEN "completed" ELSE "paused",
            cursor |-> IF backfiller.batch = {} THEN job.cursor ELSE cursor,
            imported |-> job.imported + Cardinality(backfiller.batch \ imported)]

\* Mutants: the cursor passes the second before; a full page counts as the last.
BackfillImportsSkipping ==
    /\ backfiller.step = "listed"
    /\ Import(backfiller.batch, backfiller.context)
    /\ UpdateJob(Cardinality(backfiller.batch) < PageLimit, clock[Oldest(backfiller.batch)] - 1)
    /\ reach' = FirstPageSeen
    /\ backfiller' = IdleBackfiller
    /\ UNCHANGED <<given, store, checkpoint, poller, recoverer, polled, interrupts>>

BackfillImportsShort ==
    /\ backfiller.step = "listed"
    /\ Import(backfiller.batch, backfiller.context)
    /\ UpdateJob(Cardinality(backfiller.batch) <= PageLimit, clock[Oldest(backfiller.batch)])
    /\ reach' = FirstPageSeen
    /\ backfiller' = IdleBackfiller
    /\ UNCHANGED <<given, store, checkpoint, poller, recoverer, polled, interrupts>>

\* One transaction: messages, cursor, count and state. A page is the last if
\* fewer messages than the limit could be read from it.
BackfillImports ==
    /\ backfiller.step = "listed"
    /\ Import(backfiller.batch, backfiller.context)
    /\ UpdateJob(Cardinality(backfiller.batch) < PageLimit, clock[Oldest(backfiller.batch)])
    /\ reach' = FirstPageSeen
    /\ backfiller' = IdleBackfiller
    /\ UNCHANGED <<given, store, checkpoint, poller, recoverer, polled, interrupts>>
-----------------------------------------------------------------------------
(* An exception or a crash ends a recovery or a backfill where it is. *)

Interrupt ==
    /\ interrupts < MaxInterrupts
    /\ \/ /\ recoverer.step # "idle"
          /\ recoverer' = IdleRecoverer
          /\ UNCHANGED backfiller
       \/ /\ backfiller.step # "idle"
          /\ backfiller' = IdleBackfiller
          /\ UNCHANGED recoverer
    /\ interrupts' = interrupts + 1
    /\ UNCHANGED <<given, store, rows, poller, ghosts>>

Poll == PollLists \/ PollImports \/ PollFails
Recovery == PrepareRecovery \/ RecoveryLists \/ RecoveryFails \/ RecoveryImports
Backfill == BackfillReads \/ PrepareBackfill \/ BackfillLists \/ BackfillFails \/ BackfillImports

Next == Arrive \/ Poll \/ Recovery \/ Backfill \/ Interrupt

Spec == Init /\ [][Next]_vars

\* The live worker polls in every cycle, and a poll ends. Recoveries and
\* backfills are started, and abandoned, by hand.
FairSpec == Spec /\ WF_vars(Poll)
-----------------------------------------------------------------------------
(* Properties *)

\* The state is what the tables' CHECK constraints and the code's types say.
TypeOK ==
    /\ clock \in Clocks /\ rejected \in RejectedSets
    /\ store \in 0..N /\ polled \in 0..N /\ reach \in 0..N
    /\ imported \subseteq Messages
    /\ context \in ContextStates \cup {"absent"}
    /\ checkpoint \in NoCheckpoint..N
    /\ job \in [state : BackfillStates, cursor : 1..NoCursor, imported : 0..N]
    /\ poller \in [step : {"idle", "listed"}, batch : SUBSET Messages, seen : 0..N]
    /\ recoverer \in [step : {"idle", "prepared", "listed"},
                      batch : SUBSET Messages, cursor : NoCheckpoint..N]
    /\ backfiller \in [step : {"idle", "reading", "prepared", "listed"},
                       batch : SUBSET Messages, seen : 0..N, context : ContextStates]
    /\ interrupts \in 0..MaxInterrupts

\* A page can end between messages of one second: the older of them are then neither
\* on it nor before its cursor.
Skipped(m) == \E n \in imported : m < n /\ clock[n] = clock[m]

\* However polls, recoveries and pages of history overlap, and whatever ends
\* them, they leave one stretch of the conversation: if no more new messages
\* arrive than a poll lists, whatever is newer than an imported message is
\* imported as well, up to what the last poll saw, but for those skipped within
\* a second. Newer than that, one may be missing: a first recovery that lists
\* nothing takes the time as its checkpoint, and the next one passes over what
\* was sent before it.
NoHoles ==
    /\ TypeOK
    /\ \A m \in (1..polled) \ (rejected \cup imported) :
          Skipped(m) \/ \A old \in imported : m < old

\* A backfill that says "completed" has imported the history down to its first
\* message, or skipped messages of a second of which it imported the newest, provided
\* none of it was rejected: a rejected message in a full page makes it look like the
\* last one.
CompletedIsComplete ==
    job.state = "completed" /\ rejected = {} =>
        \A m \in (1..reach) \ imported : Skipped(m)

\* A message that came after the last poll is imported in the end.
EveryMessageIsImported ==
    \A m \in Messages :
        polled < m /\ m <= store /\ m \notin rejected ~> m \in imported

\* "recovering", which forbids to answer, is left in the end, even when the
\* recovery that set it died.
RecoveringIsLeft == context = "recovering" ~> context # "recovering"
=============================================================================
