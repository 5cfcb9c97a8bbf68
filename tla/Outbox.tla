------------------------------- MODULE Outbox -------------------------------
(***************************************************************************)
(* The outbox and its dispatcher: jobs are inserted once per idempotency   *)
(* key, the live worker takes the oldest dispatchable one, re-reads the    *)
(* policy, and sends it through the WhatsApp adapter between database      *)
(* statements that a crash or an exception can separate. The operator's    *)
(* API pauses, resumes and denies at the same time on the same tables.     *)
(*                                                                         *)
(* A worker's job is one run of dispatchNextOutboundJob, or the insertion  *)
(* of one job by queuePolicyPermittedTextDraft or confirmResourceProposal; *)
(* each database statement and each adapter call is a step of its own.     *)
(***************************************************************************)
EXTENDS Naturals, Sequences, Policy

CONSTANTS
    Jobs,          \* idempotency keys; the unique index allows one row for each
    NoJob,         \* the value of a worker that handles no job
    Drafts,        \* agent drafts the jobs are made from
    Chats,         \* conversations
    Workers,       \* processes running the live worker's cycle
    KindOf,        \* [Jobs -> JobKinds]
    DraftOf,       \* [Jobs -> Drafts]
    ChatOf,        \* [Jobs -> Chats]
    Allowlisted,   \* chats whose contact is allowlisted
    Trusted,       \* chats whose contact has trust level "trusted"
    MaxFailures,   \* bound: reported failures of the adapter for one job
    MaxAborts,     \* bound: exceptions, crashes and restarts together
    MaxSwitches    \* bound: changes the API and the sync jobs make

ASSUME OutboxAssumption ==
    /\ NoJob \notin Jobs
    /\ KindOf \in [Jobs -> JobKinds]
    /\ DraftOf \in [Jobs -> Drafts]
    /\ ChatOf \in [Jobs -> Chats]
    /\ Allowlisted \subseteq Chats
    /\ Trusted \subseteq Chats
    /\ MaxFailures \in Nat /\ MaxAborts \in Nat /\ MaxSwitches \in Nat

VARIABLES
    job,        \* agent_outbound_job_state of each row, "absent" before INSERT
    older,      \* the jobs whose rows were created before this one's
    attempts,   \* agent_send_attempt_state by attempt number
    rows,       \* outbound msg_messages rows of a job: the attempt whose
                \* external id the row carries, 0 for the "outbox:<id>" stand-in
    draft,      \* agent_draft_policy_state
    chat,       \* conversation state and context state
    worker,     \* program counter and locals of each worker
    config,     \* environment of each worker's process
    delivered,  \* attempts whose message reached the recipient's phone
    late,       \* history: deliveries by each worker since the chat was paused
    aborts,     \* counts aborts, up to MaxAborts
    switches    \* counts environment changes, up to MaxSwitches

tables == <<job, older, attempts, rows, draft, chat>>
vars == <<job, older, attempts, rows, draft, chat,
          worker, config, delivered, late, aborts, switches>>

JobStates == {"absent", "queued", "sending", "sent", "failed", "blocked"}
AttemptStates == {"started", "succeeded", "failed"}
DraftStates == {"candidate", "auto_allowed", "confirm_resource", "blocked", "sent"}
Configs == [mode : DefaultModes, killSwitch : BOOLEAN]

\* Where a worker is. "permitted" .. "recorded" follow dispatchNextOutboundJob.
Steps == {"idle", "admitted", "inserted", "found", "permitted", "refused", "claimed",
          "attempting", "accepted", "rejected", "recorded"}

Idle == [step |-> "idle", job |-> NoJob, attempt |-> 0, hasId |-> FALSE]

Init ==
    /\ job = [j \in Jobs |-> "absent"]
    /\ older = [j \in Jobs |-> {}]
    /\ attempts = [j \in Jobs |-> <<>>]
    /\ rows = [j \in Jobs |-> {}]
    /\ draft \in [Drafts -> {"auto_allowed", "confirm_resource"}]
    /\ chat = [c \in Chats |-> [state |-> "active", context |-> "fresh"]]
    /\ worker = [w \in Workers |-> Idle]
    /\ config \in [Workers -> Configs]
    /\ delivered = [j \in Jobs |-> {}]
    /\ late = [c \in Chats |-> [w \in Workers |-> 0]]
    /\ aborts = 0
    /\ switches = 0
-----------------------------------------------------------------------------
\* Mutant: the conversation's own state is not looked at.
PolicyAllowsMutant(j, mode, killSwitch, tooOld) ==
    LET c == ChatOf[j] IN
    OutboundPolicyAllows(
        [kind |-> KindOf[j], killSwitch |-> killSwitch, tooOld |-> tooOld,
         allowlisted |-> c \in Allowlisted,
         trust |-> IF c \in Trusted THEN "trusted" ELSE "normal",
         mode |-> mode, context |-> chat[c].context])

\* What a policy evaluation for job j reads from the draft, its conversation
\* and its contact, under the given default mode and kill switch.
PolicyAllows(j, mode, killSwitch, tooOld) ==
    LET c == ChatOf[j] IN
    OutboundPolicyAllows(
        [kind |-> KindOf[j], killSwitch |-> killSwitch, tooOld |-> tooOld,
         allowlisted |-> c \in Allowlisted,
         trust |-> IF c \in Trusted THEN "trusted" ELSE "normal",
         mode |-> ToPolicyMode(chat[c].state, mode), context |-> chat[c].context])

Goto(w, step) == worker' = [worker EXCEPT ![w].step = step]

Release(w) == worker' = [worker EXCEPT ![w] = Idle]

\* The policy half of queuePolicyPermittedTextDraft and confirmResourceProposal:
\* a text reply is judged under the process's environment, a confirmed file
\* under the defaults, which hold no kill switch. A message past its age is
\* refused too, so the age of an admitted one is not too old.
Admit(w, j) ==
    /\ worker[w].step = "idle"
    /\ IF KindOf[j] = "text_reply"
       THEN PolicyAllows(j, config[w].mode, config[w].killSwitch, FALSE)
       ELSE /\ PolicyAllows(j, "confirm_resource", FALSE, FALSE)
            /\ draft[DraftOf[j]] \in {"confirm_resource", "auto_allowed", "sent"}
    /\ worker' = [worker EXCEPT ![w] = [Idle EXCEPT !.step = "admitted", !.job = j]]
    /\ UNCHANGED <<tables, config, delivered, late, aborts, switches>>

\* createQueuedJobIdempotent: INSERT .. ON CONFLICT (idempotency_key) DO NOTHING.
CreateQueuedJob(w) ==
    LET j == worker[w].job IN
    /\ worker[w].step = "admitted"
    /\ IF job[j] = "absent"
       THEN /\ job' = [job EXCEPT ![j] = "queued"]
            /\ older' = [older EXCEPT ![j] = {i \in Jobs : job[i] # "absent"}]
       ELSE UNCHANGED <<job, older>>
    /\ IF KindOf[j] = "resource_send" THEN Goto(w, "inserted") ELSE Release(w)
    /\ UNCHANGED <<attempts, rows, draft, chat, config, delivered, late, aborts, switches>>

\* confirmResourceProposal's second write: the draft counts as allowed.
AllowDraft(w) ==
    /\ worker[w].step = "inserted"
    /\ draft' = [draft EXCEPT ![DraftOf[worker[w].job]] = "auto_allowed"]
    /\ Release(w)
    /\ UNCHANGED <<job, older, attempts, rows, chat, config, delivered, late, aborts, switches>>
-----------------------------------------------------------------------------
(* dispatchNextOutboundJob *)

\* Mutants: jobs left "sending" are picked up again, failed ones are not.
DispatchableAgain == {j \in Jobs : job[j] \in {"queued", "failed", "sending"}}
DispatchableOnce == {j \in Jobs : job[j] = "queued"}

Dispatchable == {j \in Jobs : job[j] \in {"queued", "failed"}}

\* Mutant: no ORDER BY.
FindJobMutant(w) ==
    /\ worker[w].step = "idle"
    /\ \E j \in Dispatchable :
         worker' = [worker EXCEPT ![w] = [Idle EXCEPT !.step = "found", !.job = j]]
    /\ UNCHANGED <<tables, config, delivered, late, aborts, switches>>

\* findNextDispatchableJob: a plain SELECT of the oldest row. Every row has
\* the default priority and is scheduled at once, so creation order decides.
FindJob(w) ==
    /\ worker[w].step = "idle"
    /\ \E j \in Dispatchable :
         /\ older[j] \cap Dispatchable = {}
         /\ worker' = [worker EXCEPT ![w] = [Idle EXCEPT !.step = "found", !.job = j]]
    /\ UNCHANGED <<tables, config, delivered, late, aborts, switches>>

\* evaluatePolicyForDispatch: no message age, and the draft's own policy
\* state is not consulted.
EvaluatePolicy(w) ==
    /\ worker[w].step = "found"
    /\ IF PolicyAllows(worker[w].job, config[w].mode, config[w].killSwitch, FALSE)
       THEN Goto(w, "permitted")
       ELSE Goto(w, "refused")
    /\ UNCHANGED <<tables, config, delivered, late, aborts, switches>>

\* Mutant: the UPDATE only finds jobs that are already "sending".
MarkBlockedMutant(w) ==
    /\ worker[w].step = "refused"
    /\ Release(w)
    /\ UNCHANGED <<tables, config, delivered, late, aborts, switches>>

MarkBlocked(w) ==
    /\ worker[w].step = "refused"
    /\ job' = [job EXCEPT ![worker[w].job] = "blocked"]
    /\ Release(w)
    /\ UNCHANGED <<older, attempts, rows, draft, chat, config, delivered, late, aborts, switches>>

\* An UPDATE by id alone: it does not test the state it overwrites.
MarkSending(w) ==
    /\ worker[w].step = "permitted"
    /\ job' = [job EXCEPT ![worker[w].job] = "sending"]
    /\ Goto(w, "claimed")
    /\ UNCHANGED <<older, attempts, rows, draft, chat, config, delivered, late, aborts, switches>>

\* Mutant: the attempt's row is left to the time after the send.
CreateStartedAttemptMutant(w) ==
    /\ worker[w].step = "claimed"
    /\ worker' = [worker EXCEPT ![w].step = "attempting",
                                ![w].attempt = Len(attempts[worker[w].job]) + 1]
    /\ UNCHANGED <<tables, config, delivered, late, aborts, switches>>

CreateStartedAttempt(w) ==
    LET j == worker[w].job IN
    /\ worker[w].step = "claimed"
    /\ attempts' = [attempts EXCEPT ![j] = Append(@, "started")]
    /\ worker' = [worker EXCEPT ![w].step = "attempting",
                                ![w].attempt = Len(attempts[j]) + 1]
    /\ UNCHANGED <<job, older, rows, draft, chat, config, delivered, late, aborts, switches>>

\* The message of w's attempt reaches the phone.
Deliver(w) ==
    LET j == worker[w].job
        c == ChatOf[j] IN
    /\ delivered' = [delivered EXCEPT ![j] = @ \cup {worker[w].attempt}]
    /\ late' = IF chat[c].state = "paused" THEN [late EXCEPT ![c][w] = @ + 1] ELSE late

\* dispatcher.dispatch answers ok, with the message's external id or without.
SendSucceeds(w) ==
    /\ worker[w].step = "attempting"
    /\ Deliver(w)
    /\ \E hasId \in BOOLEAN :
         worker' = [worker EXCEPT ![w].step = "accepted", ![w].hasId = hasId]
    /\ UNCHANGED <<tables, config, aborts, switches>>

\* It answers with a failure. The wacli process may have handed the message
\* over before it timed out, exited with an error or printed what cannot be
\* parsed, so the message may have been delivered all the same.
SendFails(w) ==
    /\ worker[w].step = "attempting"
    /\ worker[w].attempt <= MaxFailures
    /\ Deliver(w) \/ UNCHANGED <<delivered, late>>
    /\ Goto(w, "rejected")
    /\ UNCHANGED <<tables, config, aborts, switches>>

\* Mutant: only the job is marked failed, its attempt stays "started".
FinishFailedAttemptMutant(w) ==
    /\ worker[w].step = "rejected"
    /\ Goto(w, "recorded")
    /\ UNCHANGED <<tables, config, delivered, late, aborts, switches>>

\* finishAttempt(failed) and markFailed are two statements; "retryable" only
\* goes to the audit log, the job is dispatchable again either way.
FinishFailedAttempt(w) ==
    /\ worker[w].step = "rejected"
    /\ attempts' = [attempts EXCEPT ![worker[w].job][worker[w].attempt] = "failed"]
    /\ Goto(w, "recorded")
    /\ UNCHANGED <<job, older, rows, draft, chat, config, delivered, late, aborts, switches>>

MarkFailed(w) ==
    /\ worker[w].step = "recorded"
    /\ job' = [job EXCEPT ![worker[w].job] = "failed"]
    /\ Release(w)
    /\ UNCHANGED <<older, attempts, rows, draft, chat, config, delivered, late, aborts, switches>>

\* Mutant: the message row is not written with the rest.
CommitSentMutant(w) ==
    LET j == worker[w].job
        k == worker[w].attempt IN
    /\ worker[w].step = "accepted"
    /\ attempts' = [attempts EXCEPT ![j][k] = "succeeded"]
    /\ job' = [job EXCEPT ![j] = "sent"]
    /\ draft' = [draft EXCEPT ![DraftOf[j]] = "sent"]
    /\ Release(w)
    /\ UNCHANGED <<older, rows, chat, config, delivered, late, aborts, switches>>

\* insertOutboundMessageIdempotent: one row per external id of the message, or per
\* job if the adapter named none.
InsertOutboundMessage(w) ==
    LET j == worker[w].job IN
        rows' = [rows EXCEPT ![j] = @ \cup {IF worker[w].hasId THEN worker[w].attempt ELSE 0}]

\* The success path is one transaction.
CommitSent(w) ==
    LET j == worker[w].job
        k == worker[w].attempt IN
    /\ worker[w].step = "accepted"
    /\ attempts' = [attempts EXCEPT ![j][k] = "succeeded"]
    /\ job' = [job EXCEPT ![j] = "sent"]
    /\ InsertOutboundMessage(w)
    /\ draft' = [draft EXCEPT ![DraftOf[j]] = "sent"]
    /\ Release(w)
    /\ UNCHANGED <<older, chat, config, delivered, late, aborts, switches>>
-----------------------------------------------------------------------------
(* Failures *)

\* An exception in any awaited call: the cycle is abandoned, the daemon logs
\* it and goes on; what was written stays written.
Throw(w) ==
    /\ worker[w].step # "idle" /\ aborts < MaxAborts
    /\ Release(w)
    /\ aborts' = aborts + 1
    /\ UNCHANGED <<tables, config, delivered, late, switches>>

\* The process dies and is restarted, perhaps with another environment. The
\* message of an attempt under way may reach the phone all the same.
CrashAndRestart(w) ==
    /\ aborts < MaxAborts
    /\ \E cfg \in Configs : config' = [config EXCEPT ![w] = cfg]
    /\ \/ worker[w].step = "attempting" /\ Deliver(w)
       \/ UNCHANGED <<delivered, late>>
    /\ Release(w)
    /\ aborts' = aborts + 1
    /\ UNCHANGED <<tables, switches>>
-----------------------------------------------------------------------------
(* The API and the other jobs, on the same tables *)

\* setAllowlistedContactPoliciesMode: one UPDATE over the conversations of
\* allowlisted contacts; "readonly" leaves them alone.
SwitchConversations(from, to) ==
    LET moved == {c \in Allowlisted : chat[c].state = from} IN
    /\ switches < MaxSwitches
    /\ moved # {}
    /\ chat' = [c \in Chats |-> IF c \in moved THEN [chat[c] EXCEPT !.state = to]
                                 ELSE chat[c]]
    /\ late' = [c \in Chats |-> IF c \in moved THEN [w \in Workers |-> 0] ELSE late[c]]
    /\ switches' = switches + 1
    /\ UNCHANGED <<job, older, attempts, rows, draft, worker, config, delivered, aborts>>

Pause == SwitchConversations("active", "paused")

Resume == SwitchConversations("paused", "active")

\* denyResourceProposal: the draft only; queued jobs are not looked at.
DenyDraft(d) ==
    /\ switches < MaxSwitches
    /\ draft[d] # "blocked"
    /\ draft' = [draft EXCEPT ![d] = "blocked"]
    /\ switches' = switches + 1
    /\ UNCHANGED <<job, older, attempts, rows, chat, worker, config, delivered, late, aborts>>

\* Recovery and polling rewrite the context state.
ContextChanges(c, s) ==
    /\ switches < MaxSwitches
    /\ chat[c].context # s
    /\ chat' = [chat EXCEPT ![c].context = s]
    /\ switches' = switches + 1
    /\ UNCHANGED <<job, older, attempts, rows, draft, worker, config, delivered, late, aborts>>
-----------------------------------------------------------------------------
\* What the worker's thread does once it has started on a job.
Proceed(w) ==
    \/ CreateQueuedJob(w) \/ AllowDraft(w)
    \/ FindJob(w) \/ EvaluatePolicy(w) \/ MarkBlocked(w)
    \/ MarkSending(w) \/ CreateStartedAttempt(w)
    \/ SendSucceeds(w) \/ SendFails(w)
    \/ FinishFailedAttempt(w) \/ MarkFailed(w) \/ CommitSent(w)

Next ==
    \/ \E w \in Workers :
         \/ \E j \in Jobs : Admit(w, j)
         \/ Proceed(w)
         \/ Throw(w)
         \/ CrashAndRestart(w)
    \/ Pause
    \/ Resume
    \/ \E d \in Drafts : DenyDraft(d)
    \/ \E c \in Chats, s \in {"fresh", "recovering"} : ContextChanges(c, s)

Spec == Init /\ [][Next]_vars

\* The daemon's loop resumes whatever happened, every awaited call ends (the
\* adapter's processes are killed at their timeout), and a cycle handles a
\* bounded batch of messages before it dispatches: a worker that has started
\* on a job goes on with it, and does not leave a dispatchable job for ever
\* to other work. The API, the admissions and the failures owe nothing.
FairSpec ==
    /\ Spec
    /\ \A w \in Workers : WF_vars(Proceed(w)) /\ SF_vars(FindJob(w))
-----------------------------------------------------------------------------
(* Properties *)

BusySteps == Steps \ {"idle"}

\* The steps between CreateStartedAttempt and the end of the attempt.
AttemptSteps == {"attempting", "accepted", "rejected", "recorded"}

TablesTyped ==
    /\ job \in [Jobs -> JobStates]
    /\ older \in [Jobs -> SUBSET Jobs]
    /\ attempts \in [Jobs -> Seq(AttemptStates)]
    /\ rows \in [Jobs -> SUBSET Nat]
    /\ draft \in [Drafts -> DraftStates]
    /\ chat \in [Chats -> [state : ConversationStates, context : ContextStates]]

WorkersTyped ==
    worker \in [Workers -> [step : Steps, job : Jobs \cup {NoJob},
                            attempt : Nat, hasId : BOOLEAN]]

WorldTyped ==
    /\ config \in [Workers -> Configs]
    /\ delivered \in [Jobs -> SUBSET Nat]
    /\ late \in [Chats -> [Workers -> Nat]]
    /\ aborts \in Nat
    /\ switches \in Nat

\* A worker that is not idle has a job, and one past createStartedAttempt an
\* attempt of that job's journal.
WorkersBusy ==
    \A w \in Workers :
        /\ worker[w].step \in BusySteps => worker[w].job \in Jobs
        /\ worker[w].step \in AttemptSteps =>
             worker[w].attempt \in DOMAIN attempts[worker[w].job]

\* The state is what the tables' CHECK constraints and the code's types say,
\* and a worker's locals are set when the code reads them.
TypeOK == TablesTyped /\ WorkersTyped /\ WorldTyped /\ WorkersBusy

\* Whatever crashes, every message that reached a phone has a row in
\* agent_send_attempts: nothing leaves that the journal does not know. Holds
\* for any number of workers.
JournaledBeforeSend ==
    \A j \in Jobs : delivered[j] \subseteq DOMAIN attempts[j]

\* With one worker, an attempt is started only when every earlier one of the
\* job is recorded as failed: an interruption at any statement, after which
\* nobody knows whether the message left, is never followed by a second try.
\* (The price is a job that stays "sending".)
InterruptedIsNotRetried ==
    \A j \in Jobs : \A k \in DOMAIN attempts[j] :
        k < Len(attempts[j]) => attempts[j][k] = "failed"

\* The four ledgers the success transaction writes agree: a job is "sent"
\* exactly when its last attempt succeeded, exactly when the conversation
\* history holds its message, once and under that attempt's id or the
\* stand-in; and then the message did reach the phone.
LedgersAgree ==
    \A j \in Jobs :
        LET n == Len(attempts[j]) IN
        /\ job[j] = "sent" <=> n > 0 /\ attempts[j][n] = "succeeded"
        /\ IF job[j] = "sent" THEN rows[j] \in {{0}, {n}} ELSE rows[j] = {}
        /\ job[j] = "sent" => n \in delivered[j]

\* A pause does not stop a send whose policy was already evaluated, but each
\* worker gets at most one message out to a conversation after its pause.
PauseBound == \A c \in Chats, w \in Workers : late[c][w] <= 1

\* With one worker, jobs leave the queue in the order they entered it: when a
\* job has been taken, no older one is waiting, not even after a failure. (So
\* a job that keeps failing holds up all the younger ones, of every chat.)
NoOvertaking ==
    \A j \in Jobs :
        job[j] \notin {"absent", "queued"} => older[j] \cap Dispatchable = {}

\* With one worker, a job that was sent or blocked keeps that state: neither
\* a duplicate insertion nor a stale UPDATE of the dispatcher revives it.
FinishedJobsStay ==
    [][\A j \in Jobs : job[j] \in {"sent", "blocked"} => job'[j] = job[j]]_vars

\* With one worker, the outbox does what JobLifecycle promises of each job.
JL == INSTANCE JobLifecycle
        WITH phase <- job, log <- attempts, reached <- delivered

LifecycleSpec == JL!Spec

\* A job an interruption left "sending": nobody handles it any more.
Stranded(j) == job[j] = "sending" /\ \A w \in Workers : worker[w].job # j

\* When the adapter fails a job finitely often, a queued job is sent or blocked
\* in the end, unless an exception or a crash strands it.
EveryJobSettles ==
    \A j \in Jobs :
        job[j] = "queued" ~> job[j] \in {"sent", "blocked"} \/ Stranded(j)

\* With exceptions and restarts as well, the queue still empties: the jobs
\* they strand do not hold up the others.
QueueDrains == Dispatchable # {} ~> Dispatchable = {}
-----------------------------------------------------------------------------
(* The inductive invariants behind the theorems of OutboxProofs *)

SingleDispatcher == \A v, w \in Workers : v = w

AllFailed(j) == \A k \in DOMAIN attempts[j] : attempts[j][k] = "failed"

HoldingSteps == {"claimed"} \cup AttemptSteps

\* What the one worker knows of its job at each step of dispatchNextOutboundJob.
WorkerInv(w) ==
    LET s == worker[w].step
        j == worker[w].job
        n == Len(attempts[j])
    IN  /\ s \in {"found", "permitted", "refused"} =>
             job[j] \in {"queued", "failed"} /\ older[j] \cap Dispatchable = {}
        /\ s \in HoldingSteps => job[j] = "sending"
        /\ s = "claimed" => AllFailed(j)
        /\ s \in AttemptSteps => worker[w].attempt = n
        /\ s \in {"attempting", "accepted", "rejected"} => attempts[j][n] = "started"
        /\ s = "accepted" => n \in delivered[j]
        /\ s = "recorded" => attempts[j][n] = "failed"
        /\ s \in HoldingSteps =>
             \A i \in Jobs : j \in older[i] => job[i] \in {"absent", "queued"}

\* What holds of every job, handled or not. No row is older than a job that
\* has none, and only a job being sent can have an attempt under way.
JobInv(j) ==
    /\ job[j] \in {"absent", "queued", "failed", "blocked"} => AllFailed(j)
    /\ job[j] = "absent" => \A i \in Jobs : j \notin older[i]

JobsInv ==
    /\ InterruptedIsNotRetried
    /\ LedgersAgree
    /\ NoOvertaking
    /\ \A j \in Jobs : JobInv(j)

OneWorkerInv == TypeOK /\ JobsInv /\ \A w \in Workers : WorkerInv(w)

\* The worker has a permission to send to the conversation and may still use it.
PastPolicy(w, c) ==
    /\ worker[w].step \in {"permitted", "claimed", "attempting"}
    /\ ChatOf[worker[w].job] = c

\* A conversation that is not paused has no late message, and a send past its
\* policy check will be the worker's first since the pause.
PauseInv ==
    \A c \in Chats, w \in Workers :
        /\ late[c][w] <= 1
        /\ chat[c].state # "paused" => late[c][w] = 0
        /\ PastPolicy(w, c) => late[c][w] = 0
-----------------------------------------------------------------------------
(* Claims of the repository's documents that the code does not keep *)

\* docs/ERD.md, agent_outbound_job_idempotency_key: "Prevent duplicate sends";
\* docs/09_IMPLEMENTATION_PHASES.md: "No duplicate replies." No job's message
\* reaches the phone twice.
NoDuplicateDelivery ==
    \A j \in Jobs : \A k, n \in delivered[j] : k = n
=============================================================================
