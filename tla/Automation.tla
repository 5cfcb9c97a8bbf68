----------------------------- MODULE Automation -----------------------------
(***************************************************************************)
(* What one cycle of the live worker does with the messages it received:   *)
(* runLiveAutomationCycle takes the unhandled ones in the order they were  *)
(* received, and each is a confirmation of the latest proposed file, a     *)
(* request for a file, or something to answer with the language model. The *)
(* file of a proposal may only be queued when the requester confirmed it.  *)
(*                                                                         *)
(* A message, its agent run, its draft, the proposal made from that draft  *)
(* and the jobs queued from it have at most one row per message, so the    *)
(* message's number identifies them all. Every database statement is a     *)
(* step; sending is one step, whose detail is the module Outbox.           *)
(***************************************************************************)
EXTENDS Naturals, Sequences, FiniteSets, Functions, Policy

CONSTANTS
    N,             \* number of messages, numbered by msg_message_received_at
    Chats,         \* conversations with one allowlisted contact each
    Trusted,       \* chats whose contact has trust level "trusted"
    Resources,     \* registered files
    NoResource,
    Texts,         \* what messages can say and where, a set of the records below
    NoText,        \* the text of a message that has not been ingested
    Environments,  \* what the worker's environment can be
    BatchLimit,    \* VIJI_LIVE_AUTOMATION_BATCH_LIMIT
    MaxInterrupts, \* bound: exceptions and crashes
    MaxSwitches    \* bound: changes by the API and the sync jobs

Messages == 1..N

\* "yes" is what isAffirmative accepts; "request" what looksLikeResourceRequest
\* accepts. A text may be the number of an option (0 when it is none), or
\* mention files: those whose names or descriptions rank within the margin
\* that resolveResourceSelection cannot decide.
TextKinds == {"yes", "request", "talk"}

ASSUME AutomationAssumption ==
    /\ N \in Nat /\ BatchLimit \in Nat \ {0}
    /\ Trusted \subseteq Chats
    /\ Environments \subseteq [mode : DefaultModes, killSwitch : BOOLEAN]
    /\ NoResource \notin Resources
    /\ Texts \subseteq [chat : Chats, kind : TextKinds, number : Nat,
                       mentions : SUBSET Resources]
    /\ NoText \notin Texts
    /\ MaxInterrupts \in Nat /\ MaxSwitches \in Nat

VARIABLES
    text,        \* msg_messages: NoText until the message is ingested
    age,         \* by the clock the current cycle read when it began: 0, or 1
                 \* past the limit of text replies, or 2 past that of files
    run,         \* agent_run_state of the message's run, "none" before
    draft,       \* agent_draft_policy_state, "none" before
    proposals,   \* res_resource_proposals by creation, with their options by rank
    textJob,     \* state of the draft's text_reply job
    fileJob,     \* state of the draft's resource_send job for each resource
    confirmedBy, \* history: the messages taken as confirmation of a file job
    denied,      \* history: drafts the operator denied
    chat,        \* conversation state and context state
    config,      \* the worker's environment
    worker,      \* program counter and locals of the cycle
    interrupts,  \* counts interrupts, up to MaxInterrupts
    switches     \* counts environment changes, up to MaxSwitches

messageVars == <<text, age>>
jobVars == <<textJob, fileJob, confirmedBy>>
worldVars == <<chat, config, denied, interrupts, switches>>
vars == <<text, age, run, draft, proposals, textJob, fileJob, confirmedBy, denied,
          chat, config, worker, interrupts, switches>>

RunStates == {"none", "started", "drafted", "blocked", "failed"}
DraftStates == {"none", "candidate", "auto_allowed", "confirm_resource", "blocked", "sent"}
ProposalStates == {"pending", "resolved"}

\* "queued" stands for "failed" too: both are dispatchable.
JobStates == {"absent", "queued", "sending", "sent", "blocked"}

Proposals == [draft : Messages, state : ProposalStates, options : Seq(Resources)]

Steps == {"idle", "next", "confirming", "queueing", "allowing", "resolving",
          "consuming", "closing", "asking", "searching", "noting", "proposing",
          "listing", "replying", "starting", "generating", "finishing", "auditing", "failing",
          "judging", "posting", "dispatching"}

Idle == [step |-> "idle", batch |-> {}, msg |-> 0, source |-> 0,
         resource |-> NoResource, offer |-> {}, allowed |-> FALSE]

Init ==
    /\ text = [m \in Messages |-> NoText]
    /\ age = [m \in Messages |-> 0]
    /\ run = [m \in Messages |-> "none"]
    /\ draft = [m \in Messages |-> "none"]
    /\ proposals = <<>>
    /\ textJob = [m \in Messages |-> "absent"]
    /\ fileJob = [m \in Messages |-> [r \in Resources |-> "absent"]]
    /\ confirmedBy = [m \in Messages |-> [r \in Resources |-> {}]]
    /\ denied = {}
    /\ \E s \in {"active", "paused"} :      \* paused before, or not
         chat = [c \in Chats |-> [state |-> s, context |-> "fresh"]]
    /\ config \in Environments
    /\ worker = Idle
    /\ interrupts = 0
    /\ switches = 0
-----------------------------------------------------------------------------
\* The conversation of an ingested message.
ChatOf(m) == text[m].chat

PolicyAllows(m, kind, mode, killSwitch, tooOld) ==
    LET c == ChatOf(m) IN
    OutboundPolicyAllows(
        [kind |-> kind, killSwitch |-> killSwitch, tooOld |-> tooOld,
         allowlisted |-> TRUE, trust |-> IF c \in Trusted THEN "trusted" ELSE "normal",
         mode |-> ToPolicyMode(chat[c].state, mode), context |-> chat[c].context])

TextAllowed(m) == PolicyAllows(m, "text_reply", config.mode, config.killSwitch, age[m] > 0)

\* confirmResourceProposal is called without mode or kill switch, so the
\* defaults hold; the age is that of the request, not of the confirmation.
FileAllowed(m) == PolicyAllows(m, "resource_send", "confirm_resource", FALSE, age[m] > 1)

At(step) == worker.step = step

Goto(step) == worker' = [worker EXCEPT !.step = step]

\* The message is done with: the loop goes on to the next.
Continue == worker' = [Idle EXCEPT !.step = "next", !.batch = worker.batch]

\* Mutant: the proposal is looked up without its conversation.
PendingInMutant(c) == {p \in DOMAIN proposals : proposals[p].state = "pending"}

PendingIn(c) ==
    {p \in DOMAIN proposals : proposals[p].state = "pending" /\ ChatOf(proposals[p].draft) = c}

\* findLatestPendingResourceProposalForConversation, 0 when there is none.
LatestPending(c) ==
    IF PendingIn(c) = {} THEN 0
    ELSE CHOOSE p \in PendingIn(c) : \A q \in PendingIn(c) : q <= p

OptionsOf(p) == Range(proposals[p].options)

\* resolveResourceSelection: the options a message can be about. One is a
\* selection, several are ambiguous, none is no match.
Selected(m) ==
    LET p == LatestPending(ChatOf(m))
        n == text[m].number IN
    IF p = 0 THEN {}
    ELSE IF text[m].kind = "yes" THEN OptionsOf(p)
    ELSE IF n \in DOMAIN proposals[p].options THEN {proposals[p].options[n]}
    ELSE OptionsOf(p) \cap text[m].mentions
-----------------------------------------------------------------------------
(* runLiveAutomationCycle *)

\* Mutant: without HAVING COUNT(agent_run_id) = 0.
NeedsAutomationMutant ==
    {m \in Messages : text[m] # NoText /\ chat[ChatOf(m)].state = "active"}

\* listInboundMessagesNeedingAutomation: no run yet, conversation active.
NeedsAutomation ==
    {m \in Messages : text[m] # NoText /\ run[m] = "none" /\ chat[ChatOf(m)].state = "active"}

StartCycle ==
    /\ At("idle")
    /\ worker' = [Idle EXCEPT !.step = "next",
                    !.batch = {m \in NeedsAutomation :
                                 Cardinality({k \in NeedsAutomation : k < m}) < BatchLimit}]
    /\ UNCHANGED <<messageVars, run, draft, proposals, jobVars, worldVars>>

\* The oldest message left in the batch, as the loop takes it.
Takes(m) ==
    /\ At("next")
    /\ m \in worker.batch
    /\ \A k \in worker.batch : m <= k

Take(m, step) ==
    worker' = [worker EXCEPT !.step = step, !.msg = m, !.batch = @ \ {m}]

\* handlePendingResourceConfirmation finds nothing it could be about.
TakeOrdinary(m) ==
    /\ Takes(m)
    /\ Selected(m) = {}
    /\ Take(m, IF text[m].kind = "request" THEN "asking" ELSE "replying")
    /\ UNCHANGED <<messageVars, run, draft, proposals, jobVars, worldVars>>

TakeAmbiguous(m) ==
    /\ Takes(m)
    /\ Cardinality(Selected(m)) > 1
    /\ Take(m, "consuming")
    /\ UNCHANGED <<messageVars, run, draft, proposals, jobVars, worldVars>>

TakeConfirmation(m) ==
    /\ Takes(m)
    /\ \E r \in Resources :
         /\ Selected(m) = {r}
         /\ worker' = [worker EXCEPT !.step = "confirming", !.msg = m, !.batch = @ \ {m},
                         !.source = proposals[LatestPending(ChatOf(m))].draft,
                         !.resource = r]
    /\ UNCHANGED <<messageVars, run, draft, proposals, jobVars, worldVars>>

\* Mutant: the proposal is resolved whether or not the file was queued.
JudgeConfirmationMutant ==
    /\ At("confirming")
    /\ IF /\ FileAllowed(worker.source)
          /\ draft[worker.source] \in {"confirm_resource", "auto_allowed", "sent"}
       THEN Goto("queueing")
       ELSE Goto("resolving")
    /\ UNCHANGED <<messageVars, run, draft, proposals, jobVars, worldVars>>

\* Mutant: a message whose confirmation is refused is not consumed.
JudgeConfirmationUnconsumed ==
    /\ At("confirming")
    /\ IF /\ FileAllowed(worker.source)
          /\ draft[worker.source] \in {"confirm_resource", "auto_allowed", "sent"}
       THEN Goto("queueing")
       ELSE Continue
    /\ UNCHANGED <<messageVars, run, draft, proposals, jobVars, worldVars>>

\* confirmResourceProposal reads the draft and its conversation.
JudgeConfirmation ==
    /\ At("confirming")
    /\ IF /\ FileAllowed(worker.source)
          /\ draft[worker.source] \in {"confirm_resource", "auto_allowed", "sent"}
       THEN Goto("queueing")
       ELSE Goto("consuming")
    /\ UNCHANGED <<messageVars, run, draft, proposals, jobVars, worldVars>>

\* createQueuedJobIdempotent, keyed by draft and resource.
QueueFile ==
    LET d == worker.source
        r == worker.resource IN
    /\ At("queueing")
    /\ fileJob' = [fileJob EXCEPT ![d][r] = IF @ = "absent" THEN "queued" ELSE @]
    /\ confirmedBy' = [confirmedBy EXCEPT ![d][r] = @ \cup {worker.msg}]
    /\ Goto("allowing")
    /\ UNCHANGED <<messageVars, run, draft, proposals, textJob, worldVars>>

AllowDraft ==
    /\ At("allowing")
    /\ draft' = [draft EXCEPT ![worker.source] = "auto_allowed"]
    /\ Goto("resolving")
    /\ UNCHANGED <<messageVars, run, proposals, jobVars, worldVars>>

\* Mutant: the proposal is left pending.
ResolveProposalMutant ==
    /\ At("resolving")
    /\ Goto("consuming")
    /\ UNCHANGED <<messageVars, run, draft, proposals, jobVars, worldVars>>

ResolveProposal ==
    /\ At("resolving")
    /\ proposals' = [p \in DOMAIN proposals |->
                       IF proposals[p].draft = worker.source
                       THEN [proposals[p] EXCEPT !.state = "resolved"]
                       ELSE proposals[p]]
    /\ Goto("consuming")
    /\ UNCHANGED <<messageVars, run, draft, jobVars, worldVars>>

\* Mutant: a confirmation that queued its file leaves no run behind.
ConsumeMutant ==
    /\ At("consuming")
    /\ Continue
    /\ UNCHANGED <<messageVars, run, draft, proposals, jobVars, worldVars>>

\* markMessageConsumed: a run is created for the message, then closed.
Consume ==
    /\ At("consuming")
    /\ run' = [run EXCEPT ![worker.msg] = "started"]
    /\ Goto("closing")
    /\ UNCHANGED <<messageVars, draft, proposals, jobVars, worldVars>>

CloseRun ==
    /\ At("closing")
    /\ run' = [run EXCEPT ![worker.msg] = "blocked"]
    /\ Continue
    /\ UNCHANGED <<messageVars, draft, proposals, jobVars, worldVars>>
-----------------------------------------------------------------------------
(* createResourceSuggestionDraftForInboundMessage *)

StartSearch ==
    /\ At("asking")
    /\ run' = [run EXCEPT ![worker.msg] = "started"]
    /\ Goto("searching")
    /\ UNCHANGED <<messageVars, draft, proposals, jobVars, worldVars>>

\* The catalog ranks some of the files, or finds none.
CreatePrompt ==
    /\ At("searching")
    /\ \E found \in SUBSET Resources :
         /\ draft' = [draft EXCEPT ![worker.msg] =
                        IF found = {} THEN "candidate" ELSE "confirm_resource"]
         /\ worker' = [worker EXCEPT !.step = "noting", !.offer = found]
    /\ UNCHANGED <<messageVars, run, proposals, jobVars, worldVars>>

NoteDrafted ==
    /\ At("noting")
    /\ run' = [run EXCEPT ![worker.msg] = "drafted"]
    /\ Goto(IF worker.offer = {} THEN "judging" ELSE "proposing")
    /\ UNCHANGED <<messageVars, draft, proposals, jobVars, worldVars>>

\* Mutant: the prompt is queued before the options of its proposal.
CreateProposalMutant ==
    /\ At("proposing")
    /\ proposals' = Append(proposals,
                      [draft |-> worker.msg, state |-> "pending", options |-> <<>>])
    /\ Goto("judging")
    /\ UNCHANGED <<messageVars, run, draft, jobVars, worldVars>>

\* createResourceProposal outside a transaction: the proposal, then each
\* option. A proposal cut short stays pending with the options it has.
CreateProposal ==
    /\ At("proposing")
    /\ proposals' = Append(proposals,
                      [draft |-> worker.msg, state |-> "pending", options |-> <<>>])
    /\ Goto("listing")
    /\ UNCHANGED <<messageVars, run, draft, jobVars, worldVars>>

AddOption ==
    /\ At("listing")
    /\ \E r \in worker.offer :
         /\ proposals' = [proposals EXCEPT ![Len(proposals)].options = Append(@, r)]
         /\ worker' = [worker EXCEPT !.offer = @ \ {r},
                         !.step = IF worker.offer = {r} THEN "judging" ELSE "listing"]
    /\ UNCHANGED <<messageVars, run, draft, jobVars, worldVars>>
-----------------------------------------------------------------------------
(* generateDraftForInboundMessage *)

\* The policy is evaluated on what was read before the run is created.
ReadMessage ==
    /\ At("replying")
    /\ worker' = [worker EXCEPT !.step = "starting", !.allowed = TextAllowed(worker.msg)]
    /\ UNCHANGED <<messageVars, run, draft, proposals, jobVars, worldVars>>

StartReply ==
    /\ At("starting")
    /\ run' = [run EXCEPT ![worker.msg] = "started"]
    /\ Goto(IF worker.allowed THEN "generating" ELSE "closing")
    /\ UNCHANGED <<messageVars, draft, proposals, jobVars, worldVars>>

CreateReply ==
    /\ At("generating")
    /\ draft' = [draft EXCEPT ![worker.msg] = "auto_allowed"]
    /\ Goto("finishing")
    /\ UNCHANGED <<messageVars, run, proposals, jobVars, worldVars>>

FinishReply ==
    /\ At("finishing")
    /\ run' = [run EXCEPT ![worker.msg] = "drafted"]
    /\ Goto("auditing")
    /\ UNCHANGED <<messageVars, draft, proposals, jobVars, worldVars>>

\* recordAuditEvent, still in the try block.
AuditReply ==
    /\ At("auditing")
    /\ Goto("judging")
    /\ UNCHANGED <<messageVars, run, draft, proposals, jobVars, worldVars>>

\* Mutant: the error is caught and forgotten.
GenerationFailsMutant ==
    /\ worker.step \in {"generating", "finishing", "auditing"}
    /\ Goto("judging")
    /\ UNCHANGED <<messageVars, run, draft, proposals, jobVars, worldVars>>

\* The model gives no answer in time, or an error, or an empty text; or a statement
\* after it fails. All are caught.
GenerationFails ==
    /\ worker.step \in {"generating", "finishing", "auditing"}
    /\ Goto("failing")
    /\ UNCHANGED <<messageVars, run, draft, proposals, jobVars, worldVars>>

\* Mutant: the run is not marked failed.
FailRunMutant ==
    /\ At("failing")
    /\ Continue
    /\ UNCHANGED <<messageVars, run, draft, proposals, jobVars, worldVars>>

FailRun ==
    /\ At("failing")
    /\ run' = [run EXCEPT ![worker.msg] = "failed"]
    /\ Continue
    /\ UNCHANGED <<messageVars, draft, proposals, jobVars, worldVars>>
-----------------------------------------------------------------------------
(* queuePolicyPermittedTextDraft, for a prompt or a reply *)

JudgeText ==
    /\ At("judging")
    /\ IF TextAllowed(worker.msg) THEN Goto("posting") ELSE Continue
    /\ UNCHANGED <<messageVars, run, draft, proposals, jobVars, worldVars>>

QueueText ==
    /\ At("posting")
    /\ textJob' = [textJob EXCEPT ![worker.msg] = IF @ = "absent" THEN "queued" ELSE @]
    /\ Continue
    /\ UNCHANGED <<messageVars, run, draft, proposals, fileJob, confirmedBy, worldVars>>
-----------------------------------------------------------------------------
(* The dispatch loop: dispatchNextOutboundJob on one job, as Outbox details *)

StartDispatch ==
    /\ At("next")
    /\ worker.batch = {}
    /\ Goto("dispatching")
    /\ UNCHANGED <<messageVars, run, draft, proposals, jobVars, worldVars>>

\* Refused for good, or sent together with its draft.
DispatchText(m) ==
    /\ At("dispatching")
    /\ textJob[m] = "queued"
    /\ IF PolicyAllows(m, "text_reply", config.mode, config.killSwitch, FALSE)
       THEN /\ textJob' = [textJob EXCEPT ![m] = "sent"]
            /\ draft' = [draft EXCEPT ![m] = "sent"]
       ELSE /\ textJob' = [textJob EXCEPT ![m] = "blocked"]
            /\ UNCHANGED draft
    /\ UNCHANGED <<messageVars, run, proposals, fileJob, confirmedBy, worldVars, worker>>

DispatchFile(m, r) ==
    /\ At("dispatching")
    /\ fileJob[m][r] = "queued"
    /\ IF PolicyAllows(m, "resource_send", config.mode, config.killSwitch, FALSE)
       THEN /\ fileJob' = [fileJob EXCEPT ![m][r] = "sent"]
            /\ draft' = [draft EXCEPT ![m] = "sent"]
       ELSE /\ fileJob' = [fileJob EXCEPT ![m][r] = "blocked"]
            /\ UNCHANGED draft
    /\ UNCHANGED <<messageVars, run, proposals, textJob, confirmedBy, worldVars, worker>>

\* The queue is empty or VIJI_LIVE_DISPATCH_LIMIT_PER_CYCLE is reached.
EndCycle ==
    /\ At("dispatching")
    /\ worker' = Idle
    /\ UNCHANGED <<messageVars, run, draft, proposals, jobVars, worldVars>>
-----------------------------------------------------------------------------
(* Failures and the rest of the system *)

\* An exception the cycle does not catch, or a crash. A job that was being
\* sent stays "sending".
Interrupt ==
    /\ ~At("idle")
    /\ interrupts < MaxInterrupts
    /\ interrupts' = interrupts + 1
    /\ worker' = Idle
    /\ \/ UNCHANGED <<textJob, fileJob>>
       \/ /\ At("dispatching")
          /\ \/ \E m \in Messages :
                  /\ textJob[m] = "queued"
                  /\ textJob' = [textJob EXCEPT ![m] = "sending"]
                  /\ UNCHANGED fileJob
             \/ \E m \in Messages, r \in Resources :
                  /\ fileJob[m][r] = "queued"
                  /\ fileJob' = [fileJob EXCEPT ![m][r] = "sending"]
                  /\ UNCHANGED textJob
    /\ UNCHANGED <<messageVars, run, draft, proposals, confirmedBy, denied, chat, config,
                   switches>>

\* Polling and recovery insert messages, not always in the order in which
\* they were received.
Ingest(m) ==
    /\ text[m] = NoText
    /\ \E t \in Texts : text' = [text EXCEPT ![m] = t]
    /\ UNCHANGED <<age, run, draft, proposals, jobVars, worldVars, worker>>

\* Time passes: a message received earlier is older. A cycle reads the clock
\* once, so no age changes for it however long it takes.
GrowOld(m) ==
    /\ At("idle")
    /\ age[m] < 2
    /\ \A k \in 1..(m - 1) : age[k] > age[m]
    /\ age' = [age EXCEPT ![m] = @ + 1]
    /\ UNCHANGED <<text, run, draft, proposals, jobVars, worldVars, worker>>

\* POST /policy/mode, over the conversations of all allowlisted contacts.
SwitchConversations(from, to) ==
    /\ switches < MaxSwitches
    /\ \E c \in Chats : chat[c].state = from
    /\ chat' = [c \in Chats |->
                  IF chat[c].state = from THEN [chat[c] EXCEPT !.state = to] ELSE chat[c]]
    /\ switches' = switches + 1
    /\ UNCHANGED <<messageVars, run, draft, proposals, jobVars, denied, config, worker,
                   interrupts>>

ContextChanges(c, s) ==
    /\ switches < MaxSwitches
    /\ chat[c].context # s
    /\ chat' = [chat EXCEPT ![c].context = s]
    /\ switches' = switches + 1
    /\ UNCHANGED <<messageVars, run, draft, proposals, jobVars, denied, config, worker,
                   interrupts>>

\* POST /confirmations/:id/deny. The proposal itself is left pending.
DenyDraft(d) ==
    /\ switches < MaxSwitches
    /\ draft[d] # "none"
    /\ d \notin denied
    /\ draft' = [draft EXCEPT ![d] = "blocked"]
    /\ denied' = denied \cup {d}
    /\ switches' = switches + 1
    /\ UNCHANGED <<messageVars, run, proposals, jobVars, chat, config, worker, interrupts>>
-----------------------------------------------------------------------------
Cycle ==
    \/ StartCycle
    \/ \E m \in Messages : TakeOrdinary(m) \/ TakeAmbiguous(m) \/ TakeConfirmation(m)
    \/ JudgeConfirmation \/ QueueFile \/ AllowDraft \/ ResolveProposal
    \/ Consume \/ CloseRun
    \/ StartSearch \/ CreatePrompt \/ NoteDrafted \/ CreateProposal \/ AddOption
    \/ ReadMessage \/ StartReply \/ CreateReply \/ FinishReply \/ AuditReply
    \/ GenerationFails \/ FailRun
    \/ JudgeText \/ QueueText
    \/ StartDispatch \/ EndCycle
    \/ \E m \in Messages : DispatchText(m)
    \/ \E m \in Messages, r \in Resources : DispatchFile(m, r)

Environment ==
    \/ \E m \in Messages : Ingest(m) \/ GrowOld(m)
    \/ SwitchConversations("active", "paused")
    \/ SwitchConversations("paused", "active")
    \/ \E c \in Chats, s \in {"fresh", "recovering"} : ContextChanges(c, s)
    \/ \E d \in Messages : DenyDraft(d)

Next == Cycle \/ Interrupt \/ Environment

Spec == Init /\ [][Next]_vars

\* The daemon runs cycle after cycle, and every call in one ends. Messages,
\* time, the operator and failures owe nothing.
FairSpec == Spec /\ WF_vars(Cycle)
-----------------------------------------------------------------------------
(* Properties *)

\* The state is what the tables' CHECK constraints and the code's types say.
TypeOK ==
    /\ text \in [Messages -> Texts \cup {NoText}]
    /\ age \in [Messages -> 0..2]
    /\ run \in [Messages -> RunStates]
    /\ draft \in [Messages -> DraftStates]
    /\ proposals \in Seq(Proposals)
    /\ textJob \in [Messages -> JobStates]
    /\ fileJob \in [Messages -> [Resources -> JobStates]]
    /\ confirmedBy \in [Messages -> [Resources -> SUBSET Messages]]
    /\ denied \subseteq Messages
    /\ chat \in [Chats -> [state : ConversationStates, context : ContextStates]]
    /\ config \in Environments
    /\ worker \in [step : Steps, batch : SUBSET Messages, msg : 0..N, source : 0..N,
                   resource : Resources \cup {NoResource}, offer : SUBSET Resources,
                   allowed : BOOLEAN]
    /\ interrupts \in 0..MaxInterrupts
    /\ switches \in 0..MaxSwitches

FileQueued(d, r) == fileJob[d][r] # "absent"

\* However the cycle is interrupted, a file is queued only on a message of
\* the same conversation, other than the request itself, that affirms, picks
\* a number or mentions it, and only if the proposal for that request lists it.
FilesAreProposedAndConfirmed ==
    \A d \in Messages, r \in Resources :
        FileQueued(d, r) =>
            /\ \E p \in DOMAIN proposals :
                 proposals[p].draft = d /\ r \in OptionsOf(p)
            /\ confirmedBy[d][r] # {}
            /\ \A m \in confirmedBy[d][r] :
                 /\ m # d /\ ChatOf(m) = ChatOf(d)
                 /\ text[m].kind = "yes" \/ text[m].number > 0 \/ r \in text[m].mentions

\* However the cycle is interrupted, a proposal is only marked resolved when
\* one of its files has its job: a confirmation is not lost between the two.
ResolvedHasItsFile ==
    /\ TypeOK
    /\ \A p \in DOMAIN proposals :
           proposals[p].state = "resolved" =>
               \E r \in OptionsOf(p) : FileQueued(proposals[p].draft, r)

\* What a message caused: its own reply or prompt, and the files it confirmed.
Answers(m) ==
    {x \in {<<m, NoResource>>} : textJob[m] # "absent"}
    \cup {x \in Messages \X Resources : m \in confirmedBy[x[1]][x[2]]}

\* Until the first interruption, a message is answered at most once: by one
\* reply, one prompt, or one file.
OneAnswerPerMessage ==
    interrupts = 0 => \A m \in Messages : Cardinality(Answers(m)) <= 1

\* Until the first interruption, one proposal leads to at most one of its files.
OneFilePerProposal ==
    interrupts = 0 =>
        \A d \in Messages : Cardinality({r \in Resources : FileQueued(d, r)}) <= 1

\* A reply or prompt is queued only from a run that ended well: no text of a
\* failed or abandoned generation is ever sent.
QueuedTextIsFinished ==
    \A m \in Messages : textJob[m] # "absent" => run[m] = "drafted" /\ draft[m] # "none"

Ended == {"drafted", "blocked", "failed"}

\* However the cycle is interrupted, a run that has ended is not started again,
\* although the message stays in the table the cycle reads. (One that drafted
\* can still become failed, when the audit entry of the draft is not written.)
RunsEndOnce ==
    [][\A m \in Messages : run[m] \in Ended => run'[m] \in {run[m], "failed"}]_vars

\* The offer of a message, as MessageLifecycle sees it.
ProposalsOf(m) == {p \in DOMAIN proposals : proposals[p].draft = m}

Offered == [m \in Messages |-> UNION {OptionsOf(p) : p \in ProposalsOf(m)}]

OfferState ==
    [m \in Messages |->
       IF ProposalsOf(m) = {} THEN "none"
       ELSE IF \E p \in ProposalsOf(m) : proposals[p].state = "pending" THEN "pending"
       ELSE "resolved"]

\* However the cycle is interrupted, it does with each message what
\* MessageLifecycle promises: it runs it once, completes an offer before it sends
\* the text that lists it, and queues a file only while the offer is pending, for
\* a message that has no run yet, and never again.
ML == INSTANCE MessageLifecycle
        WITH offer <- OfferState, offered <- Offered, reply <- textJob, file <- fileJob

MessageSpec == ML!Spec

\* A message in a conversation the operator paused.
Waits(m) == text[m] # NoText /\ chat[ChatOf(m)].state = "paused"

\* Every message is handled in the end unless its conversation is paused:
\* no other message, proposal or interruption can hold it up for ever.
EveryMessageIsTaken ==
    \A m \in Messages :
        text[m] # NoText ~> run[m] # "none" \/ Waits(m)

\* A run that is started ends, whatever the model and the policy answer, unless
\* the cycle is interrupted.
EveryRunEnds ==
    \A m \in Messages : run[m] = "started" ~> run[m] \in Ended \/ interrupts > 0
-----------------------------------------------------------------------------
(* Claims of the repository's documents that the code does not keep *)

\* docs/09_IMPLEMENTATION_PHASES.md:327 says "Denied resource proposal never queues."
\* A draft that was denied is never judged fit to be confirmed, after which nothing
\* keeps its file from being queued. A denial between the two is not counted.
DeniedNeverQueues ==
    [][worker.step = "confirming" /\ worker.source \in denied => worker'.step # "queueing"]_vars
=============================================================================
