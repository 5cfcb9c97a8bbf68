---------------------------- MODULE OutboxProofs ----------------------------
(***************************************************************************)
(* Theorems about Outbox, for every set of jobs, drafts and conversations  *)
(* and every bound. Those of the first part hold for any number of workers;*)
(* those of the second assume that one worker runs (SingleDispatcher).     *)
(***************************************************************************)
EXTENDS Outbox, SequenceTheorems, TLAPS

(* Part 1: any number of workers *)

\* What the helpers of the actions do to a worker's record.
LEMMA GotoTyped ==
    ASSUME WorkersTyped, NEW w \in Workers, NEW s \in Steps, Goto(w, s)
    PROVE  /\ WorkersTyped'
           /\ worker'[w].step = s
           /\ worker'[w].job = worker[w].job
           /\ worker'[w].attempt = worker[w].attempt
           /\ \A v \in Workers \ {w} : worker'[v] = worker[v]
  BY DEF WorkersTyped, Goto

LEMMA ReleaseTyped ==
    ASSUME WorkersTyped, NEW w \in Workers, Release(w)
    PROVE  /\ WorkersTyped'
           /\ worker'[w] = Idle
           /\ \A v \in Workers \ {w} : worker'[v] = worker[v]
  BY DEF WorkersTyped, Release, Idle, Steps

LEMMA ChatOfJob == ASSUME NEW j \in Jobs PROVE ChatOf[j] \in Chats
  BY OutboxAssumption DEF OutboxAssumption

\* A delivery is counted for the worker's own attempt and nowhere else.
LEMMA DeliverTyped ==
    ASSUME WorldTyped, WorkersTyped, WorkersBusy,
           NEW w \in Workers, worker[w].step = "attempting", Deliver(w)
    PROVE  /\ delivered' \in [Jobs -> SUBSET Nat]
           /\ late' \in [Chats -> [Workers -> Nat]]
<1>1. worker[w].job \in Jobs /\ worker[w].attempt \in Nat
  BY DEF WorkersTyped, WorkersBusy, BusySteps, Steps
<1> QED
  BY <1>1, ChatOfJob DEF WorldTyped, Deliver

LEMMA TypeInit == Init => TypeOK
  BY DEF Init, TypeOK, TablesTyped, WorkersTyped, WorldTyped, WorkersBusy, Idle,
         JobStates, DraftStates, ConversationStates, ContextStates, Steps,
         BusySteps, AttemptSteps

\* The actions that leave the journal alone and either release their worker
\* or move it on within its job keep WorkersBusy.
LEMMA ReleaseKeepsBusy ==
    ASSUME WorkersTyped, WorkersBusy, NEW w \in Workers, Release(w),
           \A j \in Jobs : DOMAIN attempts[j] \subseteq DOMAIN attempts'[j]
    PROVE  WorkersBusy'
  BY ReleaseTyped DEF WorkersBusy, BusySteps, AttemptSteps, Idle, Steps

LEMMA GotoKeepsBusy ==
    ASSUME WorkersTyped, WorkersBusy, NEW w \in Workers, NEW s \in Steps, Goto(w, s),
           worker[w].step \in BusySteps,
           s \in AttemptSteps => worker[w].step \in AttemptSteps,
           \A j \in Jobs : DOMAIN attempts[j] \subseteq DOMAIN attempts'[j]
    PROVE  WorkersBusy'
  BY GotoTyped DEF WorkersBusy, BusySteps, AttemptSteps, Steps

LEMMA TypeStep == TypeOK /\ [Next]_vars => TypeOK'
<1> SUFFICES ASSUME TypeOK, [Next]_vars PROVE TypeOK'
  OBVIOUS
<1> USE DEF TypeOK
<1>0. /\ \A w \in Workers : worker[w].step \in BusySteps => worker[w].job \in Jobs
      /\ {"admitted", "inserted", "found", "permitted", "refused", "claimed"}
            \cup AttemptSteps \subseteq BusySteps \cap Steps
  BY DEF WorkersBusy, BusySteps, Steps, AttemptSteps
<1>1. ASSUME NEW w \in Workers, NEW j \in Jobs, Admit(w, j) PROVE TypeOK'
  <2>1. WorkersTyped' /\ WorkersBusy'
    BY <1>1 DEF Admit, Idle, tables, WorkersTyped, WorkersBusy, Steps, BusySteps, AttemptSteps
  <2> QED
    BY <1>1, <2>1 DEF Admit, tables, TablesTyped, WorldTyped
<1>2. ASSUME NEW w \in Workers, CreateQueuedJob(w) PROVE TypeOK'
  <2>1. worker[w].job \in Jobs /\ worker[w].step = "admitted"
    BY <1>0, <1>2 DEF CreateQueuedJob
  <2>2. job' \in [Jobs -> JobStates] /\ older' \in [Jobs -> SUBSET Jobs]
    <3>1. CASE job[worker[w].job] = "absent"
      <4>1. job' = [job EXCEPT ![worker[w].job] = "queued"]
        BY <1>2, <3>1 DEF CreateQueuedJob
      <4>2. older' = [older EXCEPT ![worker[w].job] = {i \in Jobs : job[i] # "absent"}]
        BY <1>2, <3>1 DEF CreateQueuedJob
      <4> QED
        BY <2>1, <4>1, <4>2 DEF TablesTyped, JobStates
    <3>2. CASE job[worker[w].job] # "absent"
      BY <1>2, <2>1, <3>2 DEF CreateQueuedJob, TablesTyped
    <3> QED
      BY <3>1, <3>2
  <2>3. Goto(w, "inserted") \/ Release(w)
    BY <1>2 DEF CreateQueuedJob
  <2>4. WorkersTyped' /\ WorkersBusy'
    <3>1. \A j \in Jobs : DOMAIN attempts[j] \subseteq DOMAIN attempts'[j]
      BY <1>2 DEF CreateQueuedJob
    <3> QED
      BY <1>0, <2>1, <2>3, <3>1, GotoTyped, ReleaseTyped, GotoKeepsBusy, ReleaseKeepsBusy
         DEF AttemptSteps
  <2> QED
    BY <1>2, <2>2, <2>4 DEF CreateQueuedJob, TablesTyped, WorldTyped
<1>3. ASSUME NEW w \in Workers, AllowDraft(w) PROVE TypeOK'
  <2>1. WorkersTyped' /\ WorkersBusy'
    BY <1>3, ReleaseTyped, ReleaseKeepsBusy DEF AllowDraft
  <2> QED
    BY <1>3, <2>1 DEF AllowDraft, TablesTyped, WorldTyped, DraftStates
<1>4. ASSUME NEW w \in Workers, FindJob(w) PROVE TypeOK'
  <2>1. PICK j \in Jobs :
          worker' = [worker EXCEPT ![w] = [Idle EXCEPT !.step = "found", !.job = j]]
    BY <1>4 DEF FindJob, Dispatchable
  <2>2. UNCHANGED <<tables, config, delivered, late, aborts, switches>>
    BY <1>4 DEF FindJob
  <2>3. WorkersTyped' /\ WorkersBusy'
    BY <2>1, <2>2 DEF Idle, tables, WorkersTyped, WorkersBusy, Steps, BusySteps, AttemptSteps
  <2> QED
    BY <2>2, <2>3 DEF tables, TablesTyped, WorldTyped
<1>5. ASSUME NEW w \in Workers, EvaluatePolicy(w) PROVE TypeOK'
  <2>1. /\ worker[w].step = "found"
        /\ Goto(w, "permitted") \/ Goto(w, "refused")
        /\ UNCHANGED <<tables, config, delivered, late, aborts, switches>>
    BY <1>5 DEF EvaluatePolicy
  <2>2. WorkersTyped' /\ WorkersBusy'
    BY <1>0, <2>1, GotoTyped, GotoKeepsBusy DEF tables, AttemptSteps
  <2> QED
    BY <2>1, <2>2 DEF tables, TablesTyped, WorldTyped
<1>6. ASSUME NEW w \in Workers, MarkBlocked(w) PROVE TypeOK'
  <2>1. WorkersTyped' /\ WorkersBusy'
    BY <1>6, ReleaseTyped, ReleaseKeepsBusy DEF MarkBlocked
  <2> QED
    BY <1>6, <2>1 DEF MarkBlocked, TablesTyped, WorldTyped, JobStates
<1>7. ASSUME NEW w \in Workers, MarkSending(w) PROVE TypeOK'
  <2>1. WorkersTyped' /\ WorkersBusy'
    BY <1>0, <1>7, GotoTyped, GotoKeepsBusy DEF MarkSending, AttemptSteps
  <2> QED
    BY <1>7, <2>1 DEF MarkSending, TablesTyped, WorldTyped, JobStates
<1>8. ASSUME NEW w \in Workers, CreateStartedAttempt(w) PROVE TypeOK'
  <2> DEFINE j == worker[w].job
             n == Len(attempts[j]) + 1
  <2>1. j \in Jobs /\ attempts[j] \in Seq(AttemptStates) /\ n \in Nat
    BY <1>0, <1>8 DEF CreateStartedAttempt, TablesTyped
  <2>2. attempts' \in [Jobs -> Seq(AttemptStates)]
    BY <1>8, <2>1 DEF CreateStartedAttempt, TablesTyped, AttemptStates
  <2>3. /\ \A i \in Jobs : DOMAIN attempts[i] \subseteq DOMAIN attempts'[i]
        /\ n \in DOMAIN attempts'[j]
    BY <1>8, <2>1 DEF CreateStartedAttempt, TablesTyped
  <2>4. WorkersTyped' /\ \A v \in Workers \ {w} : worker'[v] = worker[v]
    BY <1>8, <2>1 DEF CreateStartedAttempt, WorkersTyped, Steps
  <2>5. worker'[w].job = j /\ worker'[w].attempt = n
    BY <1>8 DEF CreateStartedAttempt, WorkersTyped
  <2>6. WorkersBusy'
    BY <2>1, <2>3, <2>4, <2>5 DEF WorkersBusy, BusySteps, AttemptSteps, Steps
  <2> QED
    BY <1>8, <2>2, <2>4, <2>6 DEF CreateStartedAttempt, TablesTyped, WorldTyped
<1>9. ASSUME NEW w \in Workers, SendSucceeds(w) PROVE TypeOK'
  <2>1. PICK hasId \in BOOLEAN :
          worker' = [worker EXCEPT ![w].step = "accepted", ![w].hasId = hasId]
    BY <1>9 DEF SendSucceeds
  <2>2. worker[w].step = "attempting" /\ attempts' = attempts
    BY <1>9 DEF SendSucceeds, tables
  <2>3. /\ WorkersTyped'
        /\ worker'[w] = [worker[w] EXCEPT !.step = "accepted", !.hasId = hasId]
        /\ \A v \in Workers \ {w} : worker'[v] = worker[v]
    BY <2>1 DEF WorkersTyped, Steps
  <2>4. worker'[w].job = worker[w].job /\ worker'[w].attempt = worker[w].attempt
    BY <2>3 DEF WorkersTyped
  <2>5. WorkersBusy'
    BY <2>2, <2>3, <2>4 DEF WorkersBusy, BusySteps, AttemptSteps, Steps
  <2> QED
    BY <1>9, <2>3, <2>5, DeliverTyped DEF SendSucceeds, tables, TablesTyped, WorldTyped
<1>10. ASSUME NEW w \in Workers, SendFails(w) PROVE TypeOK'
  <2>1. WorkersTyped' /\ WorkersBusy'
    BY <1>0, <1>10, GotoTyped, GotoKeepsBusy DEF SendFails, tables, AttemptSteps
  <2> QED
    BY <1>10, <2>1, DeliverTyped DEF SendFails, tables, TablesTyped, WorldTyped
<1>11. ASSUME NEW w \in Workers, FinishFailedAttempt(w) PROVE TypeOK'
  <2> DEFINE j == worker[w].job
             k == worker[w].attempt
  <2>1. j \in Jobs /\ attempts[j] \in Seq(AttemptStates) /\ k \in DOMAIN attempts[j]
    BY <1>0, <1>11 DEF FinishFailedAttempt, TablesTyped, WorkersBusy, AttemptSteps
  <2>2. [attempts[j] EXCEPT ![k] = "failed"] \in Seq(AttemptStates)
    BY <2>1, ExceptSeq DEF AttemptStates
  <2>3. /\ attempts' \in [Jobs -> Seq(AttemptStates)]
        /\ \A i \in Jobs : DOMAIN attempts[i] \subseteq DOMAIN attempts'[i]
    BY <1>11, <2>1, <2>2 DEF FinishFailedAttempt, TablesTyped
  <2>4. WorkersTyped' /\ WorkersBusy'
    BY <1>0, <1>11, <2>3, GotoTyped, GotoKeepsBusy DEF FinishFailedAttempt, AttemptSteps
  <2> QED
    BY <1>11, <2>3, <2>4 DEF FinishFailedAttempt, TablesTyped, WorldTyped
<1>12. ASSUME NEW w \in Workers, MarkFailed(w) PROVE TypeOK'
  <2>1. WorkersTyped' /\ WorkersBusy'
    BY <1>12, ReleaseTyped, ReleaseKeepsBusy DEF MarkFailed
  <2> QED
    BY <1>12, <2>1 DEF MarkFailed, TablesTyped, WorldTyped, JobStates
<1>13. ASSUME NEW w \in Workers, CommitSent(w) PROVE TypeOK'
  <2> DEFINE j == worker[w].job
             k == worker[w].attempt
  <2>1. j \in Jobs /\ attempts[j] \in Seq(AttemptStates) /\ k \in DOMAIN attempts[j]
    BY <1>0, <1>13 DEF CommitSent, TablesTyped, WorkersBusy, AttemptSteps
  <2>2. [attempts[j] EXCEPT ![k] = "succeeded"] \in Seq(AttemptStates)
    BY <2>1, ExceptSeq DEF AttemptStates
  <2>3. /\ attempts' \in [Jobs -> Seq(AttemptStates)]
        /\ \A i \in Jobs : DOMAIN attempts[i] \subseteq DOMAIN attempts'[i]
    BY <1>13, <2>1, <2>2 DEF CommitSent, TablesTyped
  <2>4. WorkersTyped' /\ WorkersBusy'
    BY <1>13, <2>3, ReleaseTyped, ReleaseKeepsBusy DEF CommitSent
  <2>5. job' \in [Jobs -> JobStates] /\ draft' \in [Drafts -> DraftStates]
    BY <1>13 DEF CommitSent, InsertOutboundMessage, TablesTyped, JobStates, DraftStates
  <2>6. rows' \in [Jobs -> SUBSET Nat]
    BY <1>13, <2>1 DEF CommitSent, InsertOutboundMessage, TablesTyped, WorkersTyped
  <2> QED
    BY <1>13, <2>3, <2>4, <2>5, <2>6 DEF CommitSent, TablesTyped, WorldTyped
<1>14. ASSUME NEW w \in Workers, Throw(w) PROVE TypeOK'
  <2>1. WorkersTyped' /\ WorkersBusy'
    BY <1>14, ReleaseTyped, ReleaseKeepsBusy DEF Throw, tables
  <2> QED
    BY <1>14, <2>1 DEF Throw, tables, TablesTyped, WorldTyped
<1>15. ASSUME NEW w \in Workers, CrashAndRestart(w) PROVE TypeOK'
  <2>1. WorkersTyped' /\ WorkersBusy'
    BY <1>15, ReleaseTyped, ReleaseKeepsBusy DEF CrashAndRestart, tables
  <2>2. config' \in [Workers -> Configs]
    BY <1>15 DEF CrashAndRestart, WorldTyped
  <2>3. /\ delivered' \in [Jobs -> SUBSET Nat]
        /\ late' \in [Chats -> [Workers -> Nat]]
    BY <1>15, DeliverTyped DEF CrashAndRestart, WorldTyped
  <2> QED
    BY <1>15, <2>1, <2>2, <2>3 DEF CrashAndRestart, tables, TablesTyped, WorldTyped
<1>16. ASSUME NEW from, NEW to \in ConversationStates, SwitchConversations(from, to)
       PROVE  TypeOK'
  <2>1. chat' \in [Chats -> [state : ConversationStates, context : ContextStates]]
    BY <1>16 DEF SwitchConversations, TablesTyped
  <2>2. late' \in [Chats -> [Workers -> Nat]] /\ switches' \in Nat
    BY <1>16 DEF SwitchConversations, WorldTyped
  <2> QED
    BY <1>16, <2>1, <2>2
       DEF SwitchConversations, TablesTyped, WorkersTyped, WorldTyped, WorkersBusy
<1>17. ASSUME NEW d \in Drafts, DenyDraft(d) PROVE TypeOK'
  BY <1>17 DEF DenyDraft, TablesTyped, WorkersTyped, WorldTyped, WorkersBusy, DraftStates
<1>18. ASSUME NEW c \in Chats, NEW s \in {"fresh", "recovering"}, ContextChanges(c, s)
       PROVE  TypeOK'
  <2>1. chat' \in [Chats -> [state : ConversationStates, context : ContextStates]]
    BY <1>18 DEF ContextChanges, TablesTyped, ContextStates
  <2> QED
    BY <1>18, <2>1 DEF ContextChanges, TablesTyped, WorkersTyped, WorldTyped, WorkersBusy
<1>19. CASE UNCHANGED vars
  BY <1>19 DEF vars, TablesTyped, WorkersTyped, WorldTyped, WorkersBusy
<1>20. Pause \/ Resume => TypeOK'
  BY <1>16 DEF Pause, Resume, ConversationStates
<1> QED
  BY <1>1, <1>2, <1>3, <1>4, <1>5, <1>6, <1>7, <1>8, <1>9, <1>10, <1>11, <1>12,
     <1>13, <1>14, <1>15, <1>17, <1>18, <1>19, <1>20 DEF Next, Proceed

\* Every reachable state is well typed, and a worker's locals are set when
\* dispatchNextOutboundJob reads them.
THEOREM TypeCorrect == Spec => []TypeOK
  BY TypeInit, TypeStep, PTL DEF Spec

\* No step removes an attempt from the journal, and the only deliveries are
\* those of attempts under way.
LEMMA JournalGrows ==
    ASSUME TypeOK, [Next]_vars, NEW j \in Jobs
    PROVE  DOMAIN attempts[j] \subseteq DOMAIN attempts'[j]
<1> USE DEF TypeOK, TablesTyped
<1>1. ASSUME NEW w \in Workers, CreateStartedAttempt(w) PROVE DOMAIN attempts[j] \subseteq DOMAIN attempts'[j]
  BY <1>1 DEF CreateStartedAttempt, AttemptStates
<1>2. ASSUME NEW w \in Workers, FinishFailedAttempt(w) PROVE DOMAIN attempts[j] \subseteq DOMAIN attempts'[j]
  BY <1>2 DEF FinishFailedAttempt
<1>3. ASSUME NEW w \in Workers, CommitSent(w) PROVE DOMAIN attempts[j] \subseteq DOMAIN attempts'[j]
  BY <1>3 DEF CommitSent
<1>4. CASE UNCHANGED attempts
  BY <1>4
<1> QED
  BY <1>1, <1>2, <1>3, <1>4
     DEF Next, Proceed, vars, tables, Admit, CreateQueuedJob, AllowDraft, FindJob,
         EvaluatePolicy, MarkBlocked, MarkSending, SendSucceeds, SendFails, MarkFailed,
         Throw, CrashAndRestart, Pause, Resume, SwitchConversations, DenyDraft,
         ContextChanges

LEMMA DeliveriesAreOfAttempts ==
    ASSUME TypeOK, [Next]_vars
    PROVE  \/ UNCHANGED <<delivered, late>>
           \/ \E w \in Workers : worker[w].step = "attempting" /\ Deliver(w)
           \/ \E from, to \in ConversationStates : SwitchConversations(from, to)
  BY DEF Next, Proceed, vars, tables, Admit, CreateQueuedJob, AllowDraft, FindJob,
         EvaluatePolicy, MarkBlocked, MarkSending, CreateStartedAttempt, SendSucceeds,
         SendFails, FinishFailedAttempt, MarkFailed, CommitSent, Throw, CrashAndRestart,
         Pause, Resume, DenyDraft, ContextChanges, ConversationStates

LEMMA JournalStep ==
    TypeOK /\ JournaledBeforeSend /\ [Next]_vars => JournaledBeforeSend'
<1> SUFFICES ASSUME TypeOK, JournaledBeforeSend, [Next]_vars, NEW j \in Jobs
             PROVE  delivered'[j] \subseteq DOMAIN attempts'[j]
  BY DEF JournaledBeforeSend
<1>1. delivered[j] \subseteq DOMAIN attempts'[j]
  BY JournalGrows DEF JournaledBeforeSend
<1>2. ASSUME NEW w \in Workers, worker[w].step = "attempting", Deliver(w)
      PROVE  delivered'[j] \subseteq DOMAIN attempts'[j]
  <2>1. worker[w].attempt \in DOMAIN attempts[worker[w].job]
    BY <1>2 DEF TypeOK, WorkersBusy, AttemptSteps
  <2>2. delivered'[j] \subseteq delivered[j] \cup
             (IF worker[w].job = j THEN {worker[w].attempt} ELSE {})
    BY <1>2 DEF Deliver, TypeOK, WorldTyped
  <2> QED
    BY <1>1, <2>1, <2>2, JournalGrows
<1>3. ASSUME NEW from, NEW to, SwitchConversations(from, to) PROVE delivered' = delivered
  BY <1>3 DEF SwitchConversations
<1> QED
  BY <1>1, <1>2, <1>3, DeliveriesAreOfAttempts

\* A message never reaches a phone before its attempt is in the journal, for
\* any number of workers, whatever crashes and whatever the adapter reports.
THEOREM JournalCorrect == Spec => []JournaledBeforeSend
<1>1. Init => JournaledBeforeSend
  BY DEF Init, JournaledBeforeSend
<1> QED
  BY <1>1, TypeCorrect, JournalStep, PTL DEF Spec

\* A worker gets past the policy only while the conversation is not paused.
LEMMA PermissionNeedsNoPause ==
    ASSUME TypeOK, [Next]_vars, NEW w \in Workers, NEW c \in Chats,
           PastPolicy(w, c)', ~PastPolicy(w, c)
    PROVE  chat[c].state # "paused" /\ UNCHANGED <<chat, late>>
<1> USE DEF TypeOK, PastPolicy
<1>1. ASSUME EvaluatePolicy(w) PROVE chat[c].state # "paused" /\ UNCHANGED <<chat, late>>
  <2>1. PolicyAllows(worker[w].job, config[w].mode, config[w].killSwitch, FALSE)
        /\ ChatOf[worker[w].job] = c
    <3>1. CASE PolicyAllows(worker[w].job, config[w].mode, config[w].killSwitch, FALSE)
      BY <1>1, <3>1 DEF EvaluatePolicy, Goto, WorkersTyped
    <3>2. CASE ~PolicyAllows(worker[w].job, config[w].mode, config[w].killSwitch, FALSE)
      BY <1>1, <3>2 DEF EvaluatePolicy, Goto, WorkersTyped
    <3> QED
      BY <3>1, <3>2
  <2> QED
    BY <1>1, <2>1
       DEF EvaluatePolicy, tables, PolicyAllows, OutboundPolicyAllows, SendGuardPasses, ToPolicyMode
<1>2. ASSUME NEW v \in Workers \ {w}, Proceed(v) \/ Throw(v) \/ CrashAndRestart(v)
      PROVE  worker'[w] = worker[w]
  BY <1>2 DEF Proceed, CreateQueuedJob, AllowDraft, FindJob, EvaluatePolicy, MarkBlocked,
         MarkSending, CreateStartedAttempt, SendSucceeds, SendFails, FinishFailedAttempt,
         MarkFailed, CommitSent, Throw, CrashAndRestart, Goto, Release, WorkersTyped
<1>3. ASSUME NEW v \in Workers, NEW j \in Jobs, Admit(v, j)
      PROVE  worker'[w] = worker[w] \/ worker'[w].step = "admitted"
  BY <1>3 DEF Admit, WorkersTyped, Idle
<1>4. ASSUME MarkSending(w) \/ CreateStartedAttempt(w) PROVE PastPolicy(w, c)
  BY <1>4 DEF MarkSending, CreateStartedAttempt, Goto, WorkersTyped
<1>5. ASSUME \/ CreateQueuedJob(w) \/ AllowDraft(w) \/ FindJob(w) \/ MarkBlocked(w)
             \/ SendSucceeds(w) \/ SendFails(w) \/ FinishFailedAttempt(w)
             \/ MarkFailed(w) \/ CommitSent(w) \/ Throw(w) \/ CrashAndRestart(w)
      PROVE  worker'[w].step \notin {"permitted", "claimed", "attempting"}
  <2>1. CASE CreateQueuedJob(w)
    BY <2>1 DEF CreateQueuedJob, Goto, Release, Idle, WorkersTyped
  <2>2. CASE FindJob(w)
    BY <2>2 DEF FindJob, Idle, WorkersTyped
  <2>3. CASE SendSucceeds(w)
    BY <2>3 DEF SendSucceeds, WorkersTyped
  <2>4. CASE SendFails(w) \/ FinishFailedAttempt(w)
    BY <2>4 DEF SendFails, FinishFailedAttempt, Goto, WorkersTyped
  <2>5. CASE \/ AllowDraft(w) \/ MarkBlocked(w) \/ MarkFailed(w) \/ CommitSent(w)
             \/ Throw(w) \/ CrashAndRestart(w)
    BY <2>5 DEF AllowDraft, MarkBlocked, MarkFailed, CommitSent, Throw, CrashAndRestart,
           Release, Idle, WorkersTyped
  <2> QED
    BY <1>5, <2>1, <2>2, <2>3, <2>4, <2>5
<1>6. CASE UNCHANGED worker
  BY <1>6
<1> QED
  BY <1>1, <1>2, <1>3, <1>4, <1>5, <1>6
     DEF Next, Proceed, vars, Pause, Resume, SwitchConversations, DenyDraft, ContextChanges

\* The steps that may change "late" or the state of a conversation.
LEMMA LateChanges ==
    ASSUME TypeOK, [Next]_vars
    PROVE  \/ late' = late /\ \A c \in Chats : chat'[c].state = chat[c].state
           \/ \E w \in Workers :
                /\ worker[w].step = "attempting" /\ Deliver(w) /\ chat' = chat
                /\ worker'[w].step \notin {"permitted", "claimed", "attempting"}
           \/ \E from, to \in ConversationStates : SwitchConversations(from, to)
<1>1. ASSUME NEW w \in Workers, SendSucceeds(w) \/ SendFails(w) \/ CrashAndRestart(w)
      PROVE  /\ chat' = chat
             /\ \/ late' = late
                \/ /\ worker[w].step = "attempting" /\ Deliver(w)
                   /\ worker'[w].step \in {"accepted", "rejected", "idle"}
  BY <1>1 DEF SendSucceeds, SendFails, CrashAndRestart, Goto, Release, Idle, tables,
         TypeOK, WorkersTyped
<1>2. ASSUME NEW c \in Chats, NEW s, ContextChanges(c, s)
      PROVE  late' = late /\ \A d \in Chats : chat'[d].state = chat[d].state
  BY <1>2 DEF ContextChanges, TypeOK, TablesTyped
<1>3. Pause \/ Resume => \E from, to \in ConversationStates : SwitchConversations(from, to)
  BY DEF Pause, Resume, ConversationStates
<1> QED
  BY <1>1, <1>2, <1>3
     DEF Next, Proceed, vars, tables, Admit, CreateQueuedJob, AllowDraft, FindJob,
         EvaluatePolicy, MarkBlocked, MarkSending, CreateStartedAttempt,
         FinishFailedAttempt, MarkFailed, CommitSent, Throw, DenyDraft

LEMMA PauseStep == TypeOK /\ PauseInv /\ [Next]_vars => PauseInv'
<1> SUFFICES ASSUME TypeOK, PauseInv, [Next]_vars, NEW c \in Chats, NEW w \in Workers
             PROVE  /\ late'[c][w] <= 1
                    /\ chat'[c].state # "paused" => late'[c][w] = 0
                    /\ PastPolicy(w, c)' => late'[c][w] = 0
  BY DEF PauseInv
<1>0. /\ late[c][w] \in Nat /\ late[c][w] <= 1
      /\ chat[c].state # "paused" => late[c][w] = 0
      /\ PastPolicy(w, c) => late[c][w] = 0
  BY DEF PauseInv, TypeOK, WorldTyped
<1>1. CASE late' = late /\ \A d \in Chats : chat'[d].state = chat[d].state
  BY <1>0, <1>1, PermissionNeedsNoPause
<1>2. ASSUME NEW v \in Workers, worker[v].step = "attempting", Deliver(v), chat' = chat,
             worker'[v].step \notin {"permitted", "claimed", "attempting"}
      PROVE  /\ late'[c][w] <= 1
             /\ chat'[c].state # "paused" => late'[c][w] = 0
             /\ PastPolicy(w, c)' => late'[c][w] = 0
  <2>1. CASE v = w /\ ChatOf[worker[v].job] = c /\ chat[c].state = "paused"
    <3>1. late[c][w] = 0 /\ ~PastPolicy(w, c)'
      BY <1>0, <1>2, <2>1 DEF PastPolicy
    <3>2. late'[c][w] = 1
      BY <1>2, <2>1, <3>1 DEF Deliver, TypeOK, WorldTyped
    <3> QED
      BY <1>2, <2>1, <3>1, <3>2
  <2>2. CASE ~(v = w /\ ChatOf[worker[v].job] = c /\ chat[c].state = "paused")
    <3>1. late'[c][w] = late[c][w]
      BY <1>2, <2>2 DEF Deliver, TypeOK, WorldTyped
    <3>2. PastPolicy(w, c)' => PastPolicy(w, c) \/ chat[c].state # "paused"
      BY PermissionNeedsNoPause
    <3> QED
      BY <1>0, <1>2, <3>1, <3>2
  <2> QED
    BY <2>1, <2>2
<1>3. ASSUME NEW from \in ConversationStates, NEW to \in ConversationStates,
             SwitchConversations(from, to)
      PROVE  /\ late'[c][w] <= 1
             /\ chat'[c].state # "paused" => late'[c][w] = 0
             /\ PastPolicy(w, c)' => late'[c][w] = 0
  <2>1. late'[c][w] = 0 \/ (late'[c][w] = late[c][w] /\ chat'[c] = chat[c])
    BY <1>3 DEF SwitchConversations
  <2>2. PastPolicy(w, c)' = PastPolicy(w, c)
    BY <1>3 DEF SwitchConversations, PastPolicy
  <2> QED
    BY <1>0, <2>1, <2>2
<1> QED
  BY <1>1, <1>2, <1>3, LateChanges

\* However many workers run, each sends at most one message to a conversation
\* after it was paused.
THEOREM PauseCorrect == Spec => []PauseBound
<1>1. Init => PauseInv
  BY DEF Init, PauseInv, PastPolicy, Idle
<1>2. PauseInv => PauseBound
  BY DEF PauseInv, PauseBound
<1> QED
  BY <1>1, <1>2, TypeCorrect, PauseStep, PTL DEF Spec
-----------------------------------------------------------------------------
(* Part 2: one worker *)

\* The actions by what they may change: only the worker's place (and the
\* tables no job's fate depends on), or a job.
Bystander(w) ==
    \/ \E j \in Jobs : Admit(w, j)
    \/ AllowDraft(w) \/ FindJob(w) \/ EvaluatePolicy(w) \/ Throw(w)

LEMMA BystanderStep ==
    ASSUME OneWorkerInv, NEW w \in Workers, Bystander(w)
    PROVE  JobsInv' /\ WorkerInv(w)'
<1> USE DEF OneWorkerInv, Bystander
<1>1. UNCHANGED <<job, older, attempts, rows, delivered>>
  BY DEF Admit, AllowDraft, FindJob, EvaluatePolicy, Throw, tables
<1>2. JobsInv'
  BY <1>1 DEF JobsInv, InterruptedIsNotRetried, LedgersAgree, NoOvertaking, JobInv,
              AllFailed, Dispatchable
<1>3. \/ worker'[w].step \in {"admitted", "idle"}
      \/ /\ worker'[w].step = "found" /\ worker'[w].job \in Dispatchable
         /\ older[worker'[w].job] \cap Dispatchable = {}
      \/ /\ worker[w].step = "found" /\ worker'[w].step \in {"permitted", "refused"}
         /\ worker'[w].job = worker[w].job
  <2>1. CASE \E j \in Jobs : Admit(w, j)
    BY <2>1 DEF Admit, TypeOK, WorkersTyped, Idle
  <2>2. CASE AllowDraft(w) \/ Throw(w)
    BY <2>2 DEF AllowDraft, Throw, Release, TypeOK, WorkersTyped, Idle
  <2>3. CASE FindJob(w)
    BY <2>3 DEF FindJob, TypeOK, WorkersTyped, Idle
  <2>4. CASE EvaluatePolicy(w)
    <3>1. worker[w].step = "found" /\ (Goto(w, "permitted") \/ Goto(w, "refused"))
      BY <2>4 DEF EvaluatePolicy
    <3> QED
      BY <3>1, GotoTyped DEF TypeOK, Steps
  <2> QED
    BY <2>1, <2>2, <2>3, <2>4
<1>4. WorkerInv(w)'
  BY <1>1, <1>3 DEF WorkerInv, Dispatchable, HoldingSteps, AttemptSteps
<1> QED
  BY <1>2, <1>4

\* A new row is younger than all the others.
LEMMA CreateQueuedJobStep ==
    ASSUME OneWorkerInv, NEW w \in Workers, CreateQueuedJob(w)
    PROVE  JobsInv' /\ WorkerInv(w)'
<1> DEFINE j == worker[w].job
<1> USE DEF OneWorkerInv
<1>1. j \in Jobs
  BY DEF CreateQueuedJob, TypeOK, WorkersBusy, BusySteps, Steps
<1>2. UNCHANGED <<attempts, rows, delivered>>
  BY DEF CreateQueuedJob
<1>3. WorkerInv(w)'
  <2>1. worker'[w].step \in {"inserted", "idle"}
    BY GotoTyped, ReleaseTyped DEF CreateQueuedJob, TypeOK, Steps, Idle
  <2> QED
    BY <2>1 DEF WorkerInv, HoldingSteps, AttemptSteps
<1>4. CASE job[j] # "absent"
  <2>1. UNCHANGED <<job, older>>
    BY <1>4 DEF CreateQueuedJob
  <2> QED
    BY <1>2, <1>3, <2>1 DEF JobsInv, InterruptedIsNotRetried, LedgersAgree, NoOvertaking,
                            JobInv, AllFailed, Dispatchable
<1>5. CASE job[j] = "absent"
  <2>1. /\ job' = [job EXCEPT ![j] = "queued"]
        /\ older' = [older EXCEPT ![j] = {i \in Jobs : job[i] # "absent"}]
    BY <1>5 DEF CreateQueuedJob
  <2>2. /\ job'[j] = "queued" /\ \A i \in Jobs \ {j} : job'[i] = job[i]
        /\ older'[j] = {i \in Jobs : job[i] # "absent"}
        /\ \A i \in Jobs \ {j} : older'[i] = older[i]
    BY <1>1, <2>1 DEF TypeOK, TablesTyped
  <2>3. /\ \A i \in Jobs : j \notin older[i]
        /\ AllFailed(j)
    BY <1>1, <1>5 DEF JobsInv, JobInv
  <2>4. InterruptedIsNotRetried' /\ LedgersAgree'
    BY <1>1, <1>2, <1>5, <2>2 DEF JobsInv, InterruptedIsNotRetried, LedgersAgree
  <2>5. NoOvertaking'
    BY <2>2, <2>3 DEF JobsInv, NoOvertaking, Dispatchable
  <2>6. \A i \in Jobs : JobInv(i)'
    BY <1>2, <2>2, <2>3 DEF JobsInv, JobInv, AllFailed
  <2> QED
    BY <1>3, <2>4, <2>5, <2>6 DEF JobsInv
<1> QED
  BY <1>4, <1>5

\* The oldest dispatchable job is refused, or claimed: no job that left the
\* queue is younger.
LEMMA MarkBlockedStep ==
    ASSUME OneWorkerInv, NEW w \in Workers, MarkBlocked(w)
    PROVE  JobsInv' /\ WorkerInv(w)'
<1> DEFINE j == worker[w].job
<1> USE DEF OneWorkerInv
<1>1. j \in Jobs /\ job[j] \in {"queued", "failed"} /\ older[j] \cap Dispatchable = {}
  BY DEF MarkBlocked, TypeOK, WorkersBusy, BusySteps, Steps, WorkerInv
<1>2. /\ UNCHANGED <<older, attempts, rows, delivered>>
      /\ job'[j] = "blocked" /\ \A i \in Jobs \ {j} : job'[i] = job[i]
  BY <1>1 DEF MarkBlocked, TypeOK, TablesTyped
<1>3. WorkerInv(w)'
  BY ReleaseTyped DEF MarkBlocked, WorkerInv, TypeOK, Idle, HoldingSteps, AttemptSteps
<1>4. InterruptedIsNotRetried' /\ LedgersAgree'
  BY <1>1, <1>2 DEF JobsInv, InterruptedIsNotRetried, LedgersAgree
<1>5. NoOvertaking'
  BY <1>1, <1>2 DEF JobsInv, NoOvertaking, Dispatchable
<1>6. \A i \in Jobs : JobInv(i)'
  BY <1>1, <1>2 DEF JobsInv, JobInv, AllFailed
<1> QED
  BY <1>3, <1>4, <1>5, <1>6 DEF JobsInv

LEMMA MarkSendingStep ==
    ASSUME OneWorkerInv, NEW w \in Workers, MarkSending(w)
    PROVE  JobsInv' /\ WorkerInv(w)'
<1> DEFINE j == worker[w].job
<1> USE DEF OneWorkerInv
<1>1. j \in Jobs /\ job[j] \in {"queued", "failed"} /\ older[j] \cap Dispatchable = {}
  BY DEF MarkSending, TypeOK, WorkersBusy, BusySteps, Steps, WorkerInv
<1>2. /\ UNCHANGED <<older, attempts, rows, delivered>>
      /\ job'[j] = "sending" /\ \A i \in Jobs \ {j} : job'[i] = job[i]
  BY <1>1 DEF MarkSending, TypeOK, TablesTyped
<1>3. worker'[w].step = "claimed" /\ worker'[w].job = j
  BY GotoTyped DEF MarkSending, TypeOK, Steps
<1>4. InterruptedIsNotRetried' /\ LedgersAgree'
  BY <1>1, <1>2 DEF JobsInv, InterruptedIsNotRetried, LedgersAgree
<1>5. NoOvertaking'
  BY <1>1, <1>2 DEF JobsInv, NoOvertaking, Dispatchable
<1>6. \A i \in Jobs : JobInv(i)'
  BY <1>1, <1>2 DEF JobsInv, JobInv, AllFailed
<1>7. WorkerInv(w)'
  <2>1. \A k \in DOMAIN attempts'[j] : attempts'[j][k] = "failed"
    BY <1>1, <1>2 DEF JobsInv, JobInv, AllFailed
  <2>2. \A i \in Jobs : j \in older[i] => job'[i] \in {"absent", "queued"}
    BY <1>1, <1>2 DEF JobsInv, NoOvertaking, Dispatchable
  <2> QED
    BY <1>2, <1>3, <2>1, <2>2 DEF WorkerInv, AllFailed, HoldingSteps, AttemptSteps
<1> QED
  BY <1>4, <1>5, <1>6, <1>7 DEF JobsInv

\* The facts about a worker whose attempt is under way, and its job.
LEMMA Attempting ==
    ASSUME OneWorkerInv, NEW w \in Workers, worker[w].step \in HoldingSteps
    PROVE  LET j == worker[w].job IN
           /\ j \in Jobs /\ job[j] = "sending"
           /\ attempts[j] \in Seq(AttemptStates) /\ Len(attempts[j]) \in Nat
           /\ DOMAIN attempts[j] = 1..Len(attempts[j])
           /\ worker[w].step \in AttemptSteps =>
                /\ worker[w].attempt = Len(attempts[j])
                /\ Len(attempts[j]) \in DOMAIN attempts[j]
           /\ rows[j] = {}
           /\ \A i \in Jobs : j \in older[i] => job[i] \in {"absent", "queued"}
<1> DEFINE j == worker[w].job
<1>1. j \in Jobs
  BY DEF OneWorkerInv, TypeOK, WorkersBusy, HoldingSteps, AttemptSteps, BusySteps, Steps
<1>2. attempts[j] \in Seq(AttemptStates)
  BY <1>1 DEF OneWorkerInv, TypeOK, TablesTyped
<1>3. /\ job[j] = "sending"
      /\ worker[w].step \in AttemptSteps => worker[w].attempt = Len(attempts[j])
      /\ \A i \in Jobs : j \in older[i] => job[i] \in {"absent", "queued"}
  BY DEF OneWorkerInv, WorkerInv
<1>4. worker[w].step \in AttemptSteps => worker[w].attempt \in DOMAIN attempts[j]
  BY DEF OneWorkerInv, TypeOK, WorkersBusy
<1>5. rows[j] = {}
  BY <1>1, <1>3 DEF OneWorkerInv, JobsInv, LedgersAgree
<1> QED
  BY <1>1, <1>2, <1>3, <1>4, <1>5

\* The attempt that follows only failed ones is the last, and it is open.
LEMMA CreateStartedAttemptStep ==
    ASSUME OneWorkerInv, NEW w \in Workers, CreateStartedAttempt(w)
    PROVE  JobsInv' /\ WorkerInv(w)'
<1> DEFINE j == worker[w].job
           n == Len(attempts[j])
<1> USE DEF OneWorkerInv
<1>1. /\ j \in Jobs /\ job[j] = "sending" /\ attempts[j] \in Seq(AttemptStates) /\ n \in Nat
      /\ DOMAIN attempts[j] = 1..n /\ rows[j] = {}
      /\ \A i \in Jobs : j \in older[i] => job[i] \in {"absent", "queued"}
  BY Attempting DEF CreateStartedAttempt, HoldingSteps
<1>2. AllFailed(j)
  BY DEF CreateStartedAttempt, WorkerInv
<1>3. /\ UNCHANGED <<job, older, rows, delivered>>
      /\ attempts' = [attempts EXCEPT ![j] = Append(@, "started")]
  BY DEF CreateStartedAttempt
<1>4. /\ Len(attempts'[j]) = n + 1 /\ DOMAIN attempts'[j] = 1..(n + 1)
      /\ attempts'[j][n + 1] = "started"
      /\ \A k \in 1..n : attempts'[j][k] = "failed"
      /\ \A i \in Jobs \ {j} : attempts'[i] = attempts[i]
  <2>1. attempts'[j] = Append(attempts[j], "started")
        /\ \A i \in Jobs \ {j} : attempts'[i] = attempts[i]
    BY <1>1, <1>3 DEF TypeOK, TablesTyped
  <2>2. \A k \in 1..n : attempts[j][k] = "failed"
    BY <1>1, <1>2 DEF AllFailed
  <2>3. /\ Len(attempts'[j]) = n + 1 /\ DOMAIN attempts'[j] = 1..(n + 1)
        /\ attempts'[j][n + 1] = "started"
        /\ \A k \in 1..n : attempts'[j][k] = attempts[j][k]
    BY <1>1, <2>1, AppendProperties DEF AttemptStates
  <2> QED
    BY <2>1, <2>2, <2>3
<1>5. worker'[w].step = "attempting" /\ worker'[w].job = j /\ worker'[w].attempt = n + 1
  BY <1>1 DEF CreateStartedAttempt, TypeOK, WorkersTyped
<1>6. InterruptedIsNotRetried'
  BY <1>1, <1>4 DEF JobsInv, InterruptedIsNotRetried
<1>7. LedgersAgree'
  BY <1>1, <1>3, <1>4 DEF JobsInv, LedgersAgree
<1>8. NoOvertaking'
  BY <1>3 DEF JobsInv, NoOvertaking, Dispatchable
<1>9. \A i \in Jobs : JobInv(i)'
  BY <1>1, <1>3, <1>4 DEF JobsInv, JobInv, AllFailed
<1>10. WorkerInv(w)'
  BY <1>1, <1>3, <1>4, <1>5 DEF WorkerInv, HoldingSteps, AttemptSteps
<1> QED
  BY <1>6, <1>7, <1>8, <1>9, <1>10 DEF JobsInv

\* The answer of the adapter, and a crash while it is awaited, touch only the
\* deliveries.
LEMMA AnswerStep ==
    ASSUME OneWorkerInv, NEW w \in Workers,
           SendSucceeds(w) \/ SendFails(w) \/ CrashAndRestart(w)
    PROVE  JobsInv' /\ WorkerInv(w)'
<1> DEFINE j == worker[w].job
           n == Len(attempts[j])
<1> USE DEF OneWorkerInv
<1>1. UNCHANGED <<job, older, attempts, rows>>
  BY DEF SendSucceeds, SendFails, CrashAndRestart, tables
<1>2. \A i \in Jobs : delivered[i] \subseteq delivered'[i]
  BY DEF SendSucceeds, SendFails, CrashAndRestart, Deliver, TypeOK, WorldTyped
<1>3. JobsInv'
  BY <1>1, <1>2 DEF JobsInv, InterruptedIsNotRetried, LedgersAgree, NoOvertaking, JobInv,
                    AllFailed, Dispatchable
<1>4. WorkerInv(w)'
  <2>1. CASE CrashAndRestart(w)
    BY <2>1, ReleaseTyped
       DEF CrashAndRestart, WorkerInv, TypeOK, Idle, HoldingSteps, AttemptSteps
  <2>2. CASE SendSucceeds(w) \/ SendFails(w)
    <3>1. /\ worker[w].step = "attempting"
          /\ worker'[w].step \in {"accepted", "rejected"}
          /\ worker'[w].job = j /\ worker'[w].attempt = worker[w].attempt
          /\ worker'[w].step = "accepted" => Deliver(w)
      <4>1. CASE SendSucceeds(w)
        BY <4>1 DEF SendSucceeds, TypeOK, WorkersTyped
      <4>2. CASE SendFails(w)
        BY <4>2, GotoTyped DEF SendFails, TypeOK, Steps
      <4> QED
        BY <2>2, <4>1, <4>2
    <3>2. /\ j \in Jobs /\ worker[w].attempt = n /\ job[j] = "sending"
          /\ \A i \in Jobs : j \in older[i] => job[i] \in {"absent", "queued"}
          /\ attempts[j][n] = "started"
      BY <3>1, Attempting DEF WorkerInv, HoldingSteps, AttemptSteps
    <3>3. worker'[w].step = "accepted" => n \in delivered'[j]
      BY <3>1, <3>2 DEF Deliver, TypeOK, WorldTyped
    <3> QED
      BY <1>1, <3>1, <3>2, <3>3 DEF WorkerInv, HoldingSteps, AttemptSteps
  <2> QED
    BY <2>1, <2>2
<1> QED
  BY <1>3, <1>4

\* A failure is recorded on the last attempt, then the job goes back.
LEMMA FinishFailedAttemptStep ==
    ASSUME OneWorkerInv, NEW w \in Workers, FinishFailedAttempt(w)
    PROVE  JobsInv' /\ WorkerInv(w)'
<1> DEFINE j == worker[w].job
           n == Len(attempts[j])
<1> USE DEF OneWorkerInv
<1>1. /\ j \in Jobs /\ job[j] = "sending" /\ attempts[j] \in Seq(AttemptStates) /\ n \in Nat
      /\ DOMAIN attempts[j] = 1..n /\ n \in 1..n /\ worker[w].attempt = n /\ rows[j] = {}
      /\ \A i \in Jobs : j \in older[i] => job[i] \in {"absent", "queued"}
  BY Attempting DEF FinishFailedAttempt, HoldingSteps, AttemptSteps
<1>2. /\ UNCHANGED <<job, older, rows, delivered>>
      /\ attempts' = [attempts EXCEPT ![j][n] = "failed"]
  BY <1>1 DEF FinishFailedAttempt
<1>3. /\ Len(attempts'[j]) = n /\ DOMAIN attempts'[j] = 1..n
      /\ \A k \in 1..n : attempts'[j][k] = "failed"
      /\ \A i \in Jobs \ {j} : attempts'[i] = attempts[i]
  <2>1. attempts'[j] = [attempts[j] EXCEPT ![n] = "failed"]
        /\ \A i \in Jobs \ {j} : attempts'[i] = attempts[i]
    BY <1>1, <1>2 DEF TypeOK, TablesTyped
  <2>2. \A k \in 1..n : k < n => attempts[j][k] = "failed"
    BY <1>1 DEF JobsInv, InterruptedIsNotRetried
  <2>3. Len(attempts'[j]) = n /\ DOMAIN attempts'[j] = 1..n
    BY <1>1, <2>1, ExceptSeq DEF AttemptStates
  <2> QED
    BY <1>1, <2>1, <2>2, <2>3
<1>4. worker'[w].step = "recorded" /\ worker'[w].job = j /\ worker'[w].attempt = n
  BY <1>1, GotoTyped DEF FinishFailedAttempt, TypeOK, Steps
<1>5. InterruptedIsNotRetried'
  BY <1>1, <1>3 DEF JobsInv, InterruptedIsNotRetried
<1>6. LedgersAgree'
  BY <1>1, <1>2, <1>3 DEF JobsInv, LedgersAgree
<1>7. NoOvertaking'
  BY <1>2 DEF JobsInv, NoOvertaking, Dispatchable
<1>8. \A i \in Jobs : JobInv(i)'
  BY <1>1, <1>2, <1>3 DEF JobsInv, JobInv, AllFailed
<1>9. WorkerInv(w)'
  BY <1>1, <1>2, <1>3, <1>4 DEF WorkerInv, HoldingSteps, AttemptSteps
<1> QED
  BY <1>5, <1>6, <1>7, <1>8, <1>9 DEF JobsInv

LEMMA MarkFailedStep ==
    ASSUME OneWorkerInv, NEW w \in Workers, MarkFailed(w)
    PROVE  JobsInv' /\ WorkerInv(w)'
<1> DEFINE j == worker[w].job
           n == Len(attempts[j])
<1> USE DEF OneWorkerInv
<1>1. /\ j \in Jobs /\ job[j] = "sending" /\ n \in Nat /\ DOMAIN attempts[j] = 1..n
      /\ \A i \in Jobs : j \in older[i] => job[i] \in {"absent", "queued"}
  BY Attempting DEF MarkFailed, HoldingSteps, AttemptSteps
<1>2. /\ UNCHANGED <<older, attempts, rows, delivered>>
      /\ job'[j] = "failed" /\ \A i \in Jobs \ {j} : job'[i] = job[i]
  BY <1>1 DEF MarkFailed, TypeOK, TablesTyped
<1>3. AllFailed(j)
  <2>1. attempts[j][n] = "failed" /\ \A k \in 1..n : k < n => attempts[j][k] = "failed"
    BY <1>1 DEF MarkFailed, WorkerInv, JobsInv, InterruptedIsNotRetried
  <2> QED
    BY <1>1, <2>1 DEF AllFailed
<1>4. WorkerInv(w)'
  BY ReleaseTyped DEF MarkFailed, WorkerInv, TypeOK, Idle, HoldingSteps, AttemptSteps
<1>5. InterruptedIsNotRetried' /\ LedgersAgree'
  BY <1>1, <1>2 DEF JobsInv, InterruptedIsNotRetried, LedgersAgree
<1>6. NoOvertaking'
  BY <1>1, <1>2 DEF JobsInv, NoOvertaking, Dispatchable
<1>7. \A i \in Jobs : JobInv(i)'
  BY <1>1, <1>2, <1>3 DEF JobsInv, JobInv, AllFailed
<1> QED
  BY <1>4, <1>5, <1>6, <1>7 DEF JobsInv

\* The success transaction writes all the ledgers at once.
LEMMA CommitSentStep ==
    ASSUME OneWorkerInv, NEW w \in Workers, CommitSent(w)
    PROVE  JobsInv' /\ WorkerInv(w)'
<1> DEFINE j == worker[w].job
           n == Len(attempts[j])
<1> USE DEF OneWorkerInv
<1>1. /\ j \in Jobs /\ job[j] = "sending" /\ attempts[j] \in Seq(AttemptStates) /\ n \in Nat
      /\ DOMAIN attempts[j] = 1..n /\ n \in 1..n /\ worker[w].attempt = n /\ rows[j] = {}
      /\ \A i \in Jobs : j \in older[i] => job[i] \in {"absent", "queued"}
  BY Attempting DEF CommitSent, HoldingSteps, AttemptSteps
<1>2. n \in delivered[j] /\ attempts[j][n] = "started"
  BY DEF CommitSent, WorkerInv
<1>3. /\ UNCHANGED <<older, delivered>>
      /\ job' = [job EXCEPT ![j] = "sent"]
      /\ attempts' = [attempts EXCEPT ![j][n] = "succeeded"]
      /\ rows' = [rows EXCEPT ![j] = @ \cup {IF worker[w].hasId THEN n ELSE 0}]
  BY <1>1 DEF CommitSent, InsertOutboundMessage
<1>4. /\ job'[j] = "sent" /\ rows'[j] \in {{0}, {n}}
      /\ \A i \in Jobs \ {j} : /\ job'[i] = job[i] /\ rows'[i] = rows[i]
                               /\ attempts'[i] = attempts[i]
  BY <1>1, <1>3 DEF TypeOK, TablesTyped
<1>5. /\ Len(attempts'[j]) = n /\ DOMAIN attempts'[j] = 1..n
      /\ attempts'[j][n] = "succeeded"
      /\ \A k \in 1..n : k < n => attempts'[j][k] = "failed"
  <2>1. attempts'[j] = [attempts[j] EXCEPT ![n] = "succeeded"]
    BY <1>1, <1>3 DEF TypeOK, TablesTyped
  <2>2. \A k \in 1..n : k < n => attempts[j][k] = "failed"
    BY <1>1 DEF JobsInv, InterruptedIsNotRetried
  <2>3. Len(attempts'[j]) = n /\ DOMAIN attempts'[j] = 1..n
    BY <1>1, <2>1, ExceptSeq DEF AttemptStates
  <2> QED
    BY <1>1, <2>1, <2>2, <2>3
<1>6. WorkerInv(w)'
  BY ReleaseTyped
     DEF CommitSent, InsertOutboundMessage, WorkerInv, TypeOK, Idle, HoldingSteps, AttemptSteps
<1>7. InterruptedIsNotRetried'
  BY <1>1, <1>4, <1>5 DEF JobsInv, InterruptedIsNotRetried
<1>8. LedgersAgree'
  BY <1>1, <1>2, <1>3, <1>4, <1>5 DEF JobsInv, LedgersAgree
<1>9. NoOvertaking'
  BY <1>1, <1>3, <1>4 DEF JobsInv, NoOvertaking, Dispatchable
<1>10. \A i \in Jobs : JobInv(i)'
  BY <1>1, <1>3, <1>4 DEF JobsInv, JobInv, AllFailed
<1> QED
  BY <1>6, <1>7, <1>8, <1>9, <1>10 DEF JobsInv

\* What the API, the other jobs and stuttering leave alone.
LEMMA EnvironmentStep ==
    ASSUME OneWorkerInv, UNCHANGED <<job, older, attempts, rows, delivered, worker>>
    PROVE  JobsInv' /\ \A w \in Workers : WorkerInv(w)'
  BY DEF OneWorkerInv, JobsInv, InterruptedIsNotRetried, LedgersAgree, NoOvertaking, JobInv,
         AllFailed, Dispatchable, WorkerInv

LEMMA OneWorkerStep ==
    ASSUME SingleDispatcher, OneWorkerInv, [Next]_vars
    PROVE  OneWorkerInv'
<1>1. TypeOK'
  BY TypeStep DEF OneWorkerInv
<1>2. ASSUME NEW w \in Workers, JobsInv' /\ WorkerInv(w)'
      PROVE  JobsInv' /\ \A v \in Workers : WorkerInv(v)'
  BY <1>2 DEF SingleDispatcher
<1>3. JobsInv' /\ \A v \in Workers : WorkerInv(v)'
  <2>1. ASSUME NEW w \in Workers, Bystander(w)
        PROVE  JobsInv' /\ \A v \in Workers : WorkerInv(v)'
    BY <1>2, <2>1, BystanderStep
  <2>2. ASSUME NEW w \in Workers,
               CreateQueuedJob(w) \/ MarkBlocked(w) \/ MarkSending(w)
        PROVE  JobsInv' /\ \A v \in Workers : WorkerInv(v)'
    BY <1>2, <2>2, CreateQueuedJobStep, MarkBlockedStep, MarkSendingStep
  <2>3. ASSUME NEW w \in Workers,
               CreateStartedAttempt(w) \/ FinishFailedAttempt(w) \/ MarkFailed(w) \/ CommitSent(w)
        PROVE  JobsInv' /\ \A v \in Workers : WorkerInv(v)'
    BY <1>2, <2>3, CreateStartedAttemptStep, FinishFailedAttemptStep, MarkFailedStep, CommitSentStep
  <2>4. ASSUME NEW w \in Workers, SendSucceeds(w) \/ SendFails(w) \/ CrashAndRestart(w)
        PROVE  JobsInv' /\ \A v \in Workers : WorkerInv(v)'
    BY <1>2, <2>4, AnswerStep
  <2>5. CASE UNCHANGED <<job, older, attempts, rows, delivered, worker>>
    BY <2>5, EnvironmentStep
  <2> QED
    BY <2>1, <2>2, <2>3, <2>4, <2>5
       DEF Next, Proceed, Bystander, vars, Pause, Resume, SwitchConversations, DenyDraft,
           ContextChanges
<1> QED
  BY <1>1, <1>3 DEF OneWorkerInv

LEMMA OneWorkerInit == Init => OneWorkerInv
<1> SUFFICES ASSUME Init PROVE JobsInv /\ \A w \in Workers : WorkerInv(w)
  BY TypeInit DEF OneWorkerInv
<1>1. \A w \in Workers : WorkerInv(w)
  BY DEF Init, WorkerInv, Idle, HoldingSteps, AttemptSteps
<1>2. JobsInv
  BY DEF Init, JobsInv, InterruptedIsNotRetried, LedgersAgree, NoOvertaking, JobInv,
         AllFailed, Dispatchable
<1> QED
  BY <1>1, <1>2

LEMMA OneWorkerInvariant ==
    ASSUME SingleDispatcher PROVE Spec => []OneWorkerInv
<1>1. OneWorkerInv /\ [Next]_vars => OneWorkerInv'
  BY OneWorkerStep
<1> QED
  BY <1>1, OneWorkerInit, PTL DEF Spec

\* With one worker, an attempt whose outcome is unknown is never followed by
\* another: no crash or exception makes the outbox send twice.
THEOREM NoRetryAfterInterruption ==
    ASSUME SingleDispatcher PROVE Spec => []InterruptedIsNotRetried
<1>1. OneWorkerInv => InterruptedIsNotRetried
  BY DEF OneWorkerInv, JobsInv
<1> QED
  BY <1>1, OneWorkerInvariant, PTL

\* With one worker, the job, its attempts, the conversation history and what
\* reached the phone agree on whether the job was sent, in every state.
THEOREM LedgersCorrect ==
    ASSUME SingleDispatcher PROVE Spec => []LedgersAgree
<1>1. OneWorkerInv => LedgersAgree
  BY DEF OneWorkerInv, JobsInv
<1> QED
  BY <1>1, OneWorkerInvariant, PTL

\* With one worker, the jobs leave the queue in the order they entered it.
THEOREM OrderCorrect ==
    ASSUME SingleDispatcher PROVE Spec => []NoOvertaking
<1>1. OneWorkerInv => NoOvertaking
  BY DEF OneWorkerInv, JobsInv
<1> QED
  BY <1>1, OneWorkerInvariant, PTL

\* Which action of JobLifecycle each action of the outbox implements.
LEMMA LifecycleStep ==
    ASSUME OneWorkerInv, [Next]_vars
    PROVE  [JL!Next]_(JL!lifecycleVars)
<1> USE DEF JL!Next, JL!lifecycleVars
<1>1. CASE UNCHANGED <<job, attempts, delivered>>
  BY <1>1
<1>2. ASSUME NEW w \in Workers, CreateQueuedJob(w)
      PROVE  UNCHANGED <<job, attempts, delivered>> \/ JL!Queue(worker[w].job)
  BY <1>2 DEF CreateQueuedJob, JL!Queue, JL!Move
<1>3. ASSUME NEW w \in Workers, worker[w].step \in BusySteps
      PROVE  worker[w].job \in Jobs
  BY <1>3 DEF OneWorkerInv, TypeOK, WorkersBusy
<1>4. ASSUME NEW w \in Workers, MarkBlocked(w) PROVE JL!Block(worker[w].job)
  BY <1>4 DEF MarkBlocked, OneWorkerInv, WorkerInv, JL!Block, JL!Move, JL!Pending
<1>5. ASSUME NEW w \in Workers, MarkSending(w) PROVE JL!Claim(worker[w].job)
  <2>1. /\ worker[w].job \in Jobs /\ job[worker[w].job] \in {"queued", "failed"}
        /\ AllFailed(worker[w].job)
    BY <1>3, <1>5 DEF MarkSending, OneWorkerInv, WorkerInv, JobsInv, JobInv, BusySteps, Steps
  <2> QED
    BY <1>5, <2>1 DEF MarkSending, AllFailed, JL!Claim, JL!Move, JL!Pending, JL!NoTryOpen
<1>6. ASSUME NEW w \in Workers, CreateStartedAttempt(w) PROVE JL!Try(worker[w].job)
  BY <1>6 DEF CreateStartedAttempt, OneWorkerInv, WorkerInv, AllFailed, HoldingSteps,
              JL!Try, JL!NoTryOpen
<1>7. ASSUME NEW w \in Workers, worker[w].step = "attempting", Deliver(w),
             UNCHANGED <<job, attempts>>
      PROVE  JL!Reach(worker[w].job)
  <2>1. /\ job[worker[w].job] = "sending"
        /\ attempts[worker[w].job] # <<>>
        /\ attempts[worker[w].job][Len(attempts[worker[w].job])] = "started"
        /\ worker[w].attempt = Len(attempts[worker[w].job])
    BY <1>7, Attempting DEF OneWorkerInv, WorkerInv, HoldingSteps, AttemptSteps
  <2> QED
    BY <1>7, <2>1 DEF Deliver, JL!Reach, JL!LastTryOpen
<1>8. ASSUME NEW w \in Workers, SendSucceeds(w) \/ SendFails(w) \/ CrashAndRestart(w)
      PROVE  UNCHANGED <<job, attempts, delivered>> \/ JL!Reach(worker[w].job)
  BY <1>7, <1>8 DEF SendSucceeds, SendFails, CrashAndRestart, tables
<1>9. ASSUME NEW w \in Workers, FinishFailedAttempt(w) PROVE JL!LogFailure(worker[w].job)
  <2>1. /\ job[worker[w].job] = "sending"
        /\ attempts[worker[w].job] # <<>>
        /\ attempts[worker[w].job][Len(attempts[worker[w].job])] = "started"
        /\ worker[w].attempt = Len(attempts[worker[w].job])
    BY <1>9, Attempting
       DEF FinishFailedAttempt, OneWorkerInv, WorkerInv, HoldingSteps, AttemptSteps
  <2> QED
    BY <1>9, <2>1 DEF FinishFailedAttempt, JL!LogFailure, JL!LastTryOpen
<1>10. ASSUME NEW w \in Workers, MarkFailed(w) PROVE JL!GiveBack(worker[w].job)
  <2> DEFINE j == worker[w].job
             n == Len(attempts[j])
  <2>1. /\ j \in Jobs /\ job[j] = "sending" /\ DOMAIN attempts[j] = 1..n /\ n \in Nat
        /\ attempts[j][n] = "failed"
    BY <1>10, Attempting
       DEF MarkFailed, OneWorkerInv, WorkerInv, HoldingSteps, AttemptSteps
  <2>2. \A k \in 1..n : k < n => attempts[j][k] = "failed"
    BY <2>1 DEF OneWorkerInv, JobsInv, InterruptedIsNotRetried
  <2>3. \A k \in DOMAIN attempts[j] : attempts[j][k] = "failed"
    BY <2>1, <2>2
  <2> QED
    BY <1>10, <2>1, <2>3 DEF MarkFailed, JL!GiveBack, JL!Move, JL!NoTryOpen
<1>11. ASSUME NEW w \in Workers, CommitSent(w) PROVE JL!Complete(worker[w].job)
  <2>1. /\ job[worker[w].job] = "sending"
        /\ attempts[worker[w].job] # <<>>
        /\ attempts[worker[w].job][Len(attempts[worker[w].job])] = "started"
        /\ worker[w].attempt = Len(attempts[worker[w].job])
        /\ Len(attempts[worker[w].job]) \in delivered[worker[w].job]
    BY <1>11, Attempting
       DEF CommitSent, OneWorkerInv, WorkerInv, HoldingSteps, AttemptSteps
  <2> QED
    BY <1>11, <2>1 DEF CommitSent, JL!Complete, JL!Move, JL!LastTryOpen
<1>12. ASSUME NEW w \in Workers,
              \/ CreateQueuedJob(w) \/ MarkBlocked(w) \/ MarkSending(w)
              \/ CreateStartedAttempt(w) \/ SendSucceeds(w) \/ SendFails(w)
              \/ CrashAndRestart(w) \/ FinishFailedAttempt(w) \/ MarkFailed(w) \/ CommitSent(w)
       PROVE  [JL!Next]_(JL!lifecycleVars)
  <2>1. worker[w].job \in Jobs \/ CrashAndRestart(w)
    BY <1>3, <1>12
       DEF CreateQueuedJob, MarkBlocked, MarkSending, CreateStartedAttempt, SendSucceeds,
           SendFails, FinishFailedAttempt, MarkFailed, CommitSent, BusySteps, Steps
  <2>2. CrashAndRestart(w) => worker[w].job \in Jobs \/ UNCHANGED <<job, attempts, delivered>>
    BY <1>3 DEF CrashAndRestart, tables, BusySteps, Steps
  <2> QED
    BY <1>2, <1>4, <1>5, <1>6, <1>8, <1>9, <1>10, <1>11, <1>12, <2>1, <2>2
<1>13. ASSUME NEW w \in Workers, Bystander(w) PROVE UNCHANGED <<job, attempts, delivered>>
  BY <1>13 DEF Bystander, Admit, AllowDraft, FindJob, EvaluatePolicy, Throw, tables
<1> QED
  BY <1>1, <1>12, <1>13
     DEF Next, Proceed, Bystander, vars, Pause, Resume, SwitchConversations, DenyDraft,
         ContextChanges

\* With one worker, the outbox implements the life of a job.
THEOREM ImplementsLifecycle ==
    ASSUME SingleDispatcher PROVE Spec => LifecycleSpec
<1>1. Init => JL!Init
  BY DEF Init, JL!Init
<1>2. OneWorkerInv /\ [Next]_vars => [JL!Next]_(JL!lifecycleVars)
  BY LifecycleStep
<1> QED
  BY <1>1, <1>2, OneWorkerInvariant, PTL DEF Spec, LifecycleSpec, JL!Spec

\* With one worker, a job that is sent or blocked keeps that state.
THEOREM FinishedCorrect ==
    ASSUME SingleDispatcher PROVE Spec => FinishedJobsStay
<1>1. OneWorkerInv /\ [Next]_vars
        => [\A j \in Jobs : job[j] \in {"sent", "blocked"} => job'[j] = job[j]]_vars
  <2> SUFFICES ASSUME OneWorkerInv, [Next]_vars, NEW j \in Jobs, job[j] \in {"sent", "blocked"}
               PROVE  job'[j] = job[j]
    OBVIOUS
  <2>1. job \in [Jobs -> JobStates]
    BY DEF OneWorkerInv, TypeOK, TablesTyped
  <2> QED
    BY <2>1, LifecycleStep
       DEF JL!Next, JL!lifecycleVars, JL!Queue, JL!Block, JL!Claim, JL!Try, JL!Reach,
           JL!LogFailure, JL!GiveBack, JL!Complete, JL!Move, JL!Pending
<1> QED
  BY <1>1, OneWorkerInvariant, PTL DEF Spec, FinishedJobsStay
=============================================================================
