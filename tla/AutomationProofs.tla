--------------------------- MODULE AutomationProofs ---------------------------
(***************************************************************************)
(* Theorems about Automation, for every number of messages, every set of   *)
(* conversations, files and texts, every environment and every bound.      *)
(***************************************************************************)
EXTENDS Automation, Extremes, FiniteSetTheorems, SequenceTheorems

\* The steps by what they know of the run of the message in hand.
ConfirmSteps == {"confirming", "queueing", "allowing", "resolving"}
UnstartedSteps == ConfirmSteps \cup {"consuming", "asking", "replying", "starting"}
StartedSteps == {"closing", "searching", "noting", "generating", "finishing"}
DraftedSteps == {"proposing", "listing", "auditing", "judging", "posting"}
MessageSteps == UnstartedSteps \cup StartedSteps \cup DraftedSteps \cup {"failing"}

\* What the cycle knows of the messages it still has to do, and of the one in hand.
MessagesInHand ==
    /\ \A m \in worker.batch : text[m] # NoText /\ run[m] = "none"
    /\ worker.step \in MessageSteps =>
         /\ worker.msg \in Messages \ worker.batch
         /\ text[worker.msg] # NoText
    /\ worker.step \in UnstartedSteps => run[worker.msg] = "none"
    /\ worker.step \in StartedSteps => run[worker.msg] = "started"
    /\ worker.step \in DraftedSteps => run[worker.msg] = "drafted"
    /\ At("failing") => run[worker.msg] \in {"started", "drafted"}
    /\ worker.step \in DraftedSteps \cup {"noting", "finishing"} => draft[worker.msg] # "none"
    /\ At("auditing") \/ At("failing") => textJob[worker.msg] = "absent"

\* A message has a run, or confirms a file, only after it was ingested; and the
\* file it confirms is queued.
IngestedFirst ==
    /\ \A m \in Messages : run[m] # "none" => text[m] # NoText
    /\ \A d \in Messages, r \in Resources :
           \A m \in confirmedBy[d][r] : text[m] # NoText /\ FileQueued(d, r)

\* A request leads to one proposal, made when its run had drafted the prompt.
ProposedOnce ==
    /\ \A p \in DOMAIN proposals : run[proposals[p].draft] \in {"drafted", "failed"}
    /\ \A p, q \in DOMAIN proposals : proposals[p].draft = proposals[q].draft => p = q
    /\ At("proposing") => \A p \in DOMAIN proposals : proposals[p].draft # worker.msg
    /\ At("listing") => proposals # <<>>

Proposed(d, r) == \E p \in DOMAIN proposals : proposals[p].draft = d /\ r \in OptionsOf(p)

Confirms(m, d, r) ==
    /\ m # d /\ ChatOf(m) = ChatOf(d)
    /\ text[m].kind = "yes" \/ text[m].number > 0 \/ r \in text[m].mentions

\* What the cycle knows of the confirmation in hand.
ConfirmationInHand ==
    /\ worker.step \in ConfirmSteps =>
         /\ worker.source \in Messages /\ worker.resource \in Resources
         /\ Proposed(worker.source, worker.resource)
         /\ Confirms(worker.msg, worker.source, worker.resource)
    /\ At("confirming") \/ At("queueing") =>
         \E p \in DOMAIN proposals :
             proposals[p].draft = worker.source /\ proposals[p].state = "pending"
    /\ At("allowing") \/ At("resolving") => FileQueued(worker.source, worker.resource)

\* Until the first interruption, a proposal with a file is resolved at once, a
\* message that confirmed one gets its blocked run at once, and each has one.
Uninterrupted ==
    interrupts = 0 =>
        /\ \A p \in DOMAIN proposals, r \in Resources :
               proposals[p].state = "pending" /\ FileQueued(proposals[p].draft, r) =>
                   /\ worker.step \in {"allowing", "resolving"}
                   /\ proposals[p].draft = worker.source
        /\ \A d \in Messages, r \in Resources : \A m \in confirmedBy[d][r] :
               run[m] # "blocked" =>
                   /\ worker.step \in {"allowing", "resolving", "consuming", "closing"}
                   /\ m = worker.msg
        /\ \A d, e \in Messages, r, s \in Resources :
               confirmedBy[d][r] \cap confirmedBy[e][s] # {} => d = e /\ r = s
        /\ \A d \in Messages, r, s \in Resources :
               FileQueued(d, r) /\ FileQueued(d, s) => r = s

IInv ==
    /\ TypeOK
    /\ MessagesInHand /\ IngestedFirst /\ ProposedOnce /\ ConfirmationInHand
    /\ FilesAreProposedAndConfirmed /\ ResolvedHasItsFile /\ QueuedTextIsFinished
    /\ Uninterrupted

\* The state but for the worker, and the worker.
Tables ==
    /\ text \in [Messages -> Texts \cup {NoText}]
    /\ age \in [Messages -> 0..2]
    /\ run \in [Messages -> RunStates]
    /\ draft \in [Messages -> DraftStates]
    /\ proposals \in Seq(Proposals)
    /\ textJob \in [Messages -> JobStates]
    /\ fileJob \in [Messages -> [Resources -> JobStates]]
    /\ confirmedBy \in [Messages -> [Resources -> SUBSET Messages]]
    /\ denied \subseteq Messages
    /\ chat \in [Chats -> [state : ConversationStates, context : ContextStates]]
    /\ config \in Environments
    /\ interrupts \in 0..MaxInterrupts
    /\ switches \in 0..MaxSwitches

Workers == [step : Steps, batch : SUBSET Messages, msg : 0..N, source : 0..N,
            resource : Resources \cup {NoResource}, offer : SUBSET Resources,
            allowed : BOOLEAN]

LEMMA TypeParts == TypeOK <=> Tables /\ worker \in Workers
  BY DEF TypeOK, Tables, Workers

LEMMA IdleWorker == Idle \in Workers /\ Idle.step = "idle" /\ Idle.batch = {}
  BY AutomationAssumption DEF AutomationAssumption, Idle, Workers, Steps
-----------------------------------------------------------------------------
(* The latest pending proposal *)

LEMMA LatestIsPending ==
    ASSUME TypeOK, NEW c, LatestPending(c) # 0
    PROVE  LatestPending(c) \in PendingIn(c)
<1>1. PendingIn(c) # {}
  BY DEF LatestPending
<1>2. Len(proposals) \in Nat /\ PendingIn(c) \subseteq 0..Len(proposals)
  BY DEF PendingIn, TypeOK
<1>3. \E p \in PendingIn(c) : \A q \in PendingIn(c) : q <= p
  BY <1>1, <1>2, HasGreatest
<1> QED
  BY <1>1, <1>3 DEF LatestPending

\* What a confirmation that selects one file says.
LEMMA SelectionConfirms ==
    ASSUME IInv, NEW m \in Messages, NEW r \in Resources, Selected(m) = {r},
           run[m] = "none"
    PROVE  \E p \in DOMAIN proposals :
             /\ p = LatestPending(ChatOf(m)) /\ proposals[p].state = "pending"
             /\ proposals[p].draft \in Messages
             /\ r \in OptionsOf(p)
             /\ Confirms(m, proposals[p].draft, r)
<1> DEFINE p == LatestPending(ChatOf(m))
           d == proposals[p].draft
           n == text[m].number
<1>1. p # 0
  BY DEF Selected
<1>2. p \in DOMAIN proposals /\ proposals[p].state = "pending" /\ ChatOf(d) = ChatOf(m)
  <2>1. p \in PendingIn(ChatOf(m))
    BY <1>1, LatestIsPending DEF IInv
  <2> QED
    BY <2>1 DEF PendingIn
<1>3. proposals[p] \in Proposals
  BY <1>2, ElementOfSeq DEF IInv, TypeOK
<1>4. d \in Messages /\ proposals[p].options \in Seq(Resources)
  BY <1>3 DEF Proposals
<1>5. d # m
  BY <1>2 DEF IInv, ProposedOnce
<1>6. \/ text[m].kind = "yes" /\ r \in OptionsOf(p)
      \/ n \in DOMAIN proposals[p].options /\ r = proposals[p].options[n]
      \/ r \in OptionsOf(p) /\ r \in text[m].mentions
  BY <1>1 DEF Selected
<1>7. CASE n \in DOMAIN proposals[p].options /\ r = proposals[p].options[n]
  <2>1. n > 0
    BY <1>4, <1>7
  <2>2. r \in OptionsOf(p)
    BY <1>7 DEF OptionsOf, Range
  <2> QED
    BY <1>2, <1>4, <1>5, <2>1, <2>2 DEF Confirms
<1> QED
  BY <1>2, <1>4, <1>5, <1>6, <1>7 DEF Confirms
-----------------------------------------------------------------------------
LEMMA InitEstablishes == Init => IInv
<1> SUFFICES ASSUME Init PROVE IInv
  OBVIOUS
<1> USE AutomationAssumption DEF AutomationAssumption
<1>1. Tables
  BY DEF Init, Tables, RunStates, DraftStates, JobStates, ConversationStates, ContextStates
<1>2. TypeOK
  BY <1>1, TypeParts, IdleWorker DEF Init
<1>3. worker.step = "idle" /\ worker.batch = {}
  BY IdleWorker DEF Init
<1>4. MessagesInHand /\ ConfirmationInHand
  BY <1>3 DEF MessagesInHand, ConfirmationInHand, At, ConfirmSteps, UnstartedSteps, StartedSteps,
              DraftedSteps, MessageSteps
<1>5. IngestedFirst /\ FilesAreProposedAndConfirmed /\ QueuedTextIsFinished
  BY DEF Init, IngestedFirst, FilesAreProposedAndConfirmed, QueuedTextIsFinished, FileQueued
<1>6. ProposedOnce /\ ResolvedHasItsFile
  BY <1>2, <1>3 DEF Init, ProposedOnce, ResolvedHasItsFile, At
<1>7. Uninterrupted
  BY DEF Init, Uninterrupted, FileQueued
<1> QED
  BY <1>2, <1>4, <1>5, <1>6, <1>7 DEF IInv
-----------------------------------------------------------------------------
(* Types, action by action *)

\* The names of the steps, so that no proof below need list them all.
LEMMA StepNames ==
    /\ {"idle", "next", "confirming", "queueing", "allowing", "resolving"} \subseteq Steps
    /\ {"consuming", "closing", "asking", "searching", "noting", "proposing"} \subseteq Steps
    /\ {"listing", "replying", "starting", "generating", "finishing"} \subseteq Steps
    /\ {"auditing", "failing", "judging", "posting", "dispatching"} \subseteq Steps
  BY DEF Steps

LEMMA WorkerStep == ASSUME IInv, [Next]_vars PROVE worker' \in Workers
<1> USE StepNames, IdleWorker DEF Workers, At
<1>0. worker \in Workers /\ Messages \subseteq 0..N /\ Tables
  BY AutomationAssumption, TypeParts DEF AutomationAssumption, Messages, IInv
<1>1. CASE StartCycle
  <2>1. {m \in NeedsAutomation : Cardinality({k \in NeedsAutomation : k < m}) < BatchLimit}
          \in SUBSET Messages
    BY DEF NeedsAutomation
  <2> QED
    BY <1>1, <2>1 DEF StartCycle
<1>2. ASSUME NEW m \in Messages, TakeOrdinary(m) \/ TakeAmbiguous(m) PROVE worker' \in Workers
  <2>1. PICK t \in {"asking", "replying", "consuming"} :
          worker' = [worker EXCEPT !.step = t, !.msg = m, !.batch = @ \ {m}]
    BY <1>2 DEF TakeOrdinary, TakeAmbiguous, Take
  <2>2. t \in Steps /\ m \in 0..N /\ worker.batch \ {m} \in SUBSET Messages
    BY <1>0
  <2> QED
    BY <1>0, <2>1, <2>2
<1>3. ASSUME NEW m \in Messages, TakeConfirmation(m) PROVE worker' \in Workers
  <2>1. PICK r \in Resources :
          /\ Selected(m) = {r}
          /\ worker' = [worker EXCEPT !.step = "confirming", !.msg = m, !.batch = @ \ {m},
                         !.source = proposals[LatestPending(ChatOf(m))].draft,
                         !.resource = r]
    BY <1>3 DEF TakeConfirmation
  <2>2. run[m] = "none"
    BY <1>3 DEF TakeConfirmation, Takes, IInv, MessagesInHand
  <2>3. proposals[LatestPending(ChatOf(m))].draft \in 0..N
    BY <1>0, <2>1, <2>2, SelectionConfirms
  <2> QED
    BY <1>0, <2>1, <2>3
<1>4. CASE JudgeConfirmation \/ QueueFile \/ AllowDraft \/ ResolveProposal \/ Consume
  BY <1>0, <1>4 DEF JudgeConfirmation, QueueFile, AllowDraft, ResolveProposal, Consume, Goto
<1>5. CASE CloseRun \/ FailRun \/ QueueText
  BY <1>0, <1>5 DEF CloseRun, FailRun, QueueText, Continue
<1>6. CASE StartSearch \/ NoteDrafted \/ CreateProposal \/ CreateReply \/ FinishReply
  BY <1>0, <1>6 DEF StartSearch, NoteDrafted, CreateProposal, CreateReply, FinishReply, Goto
<1>7. CASE CreatePrompt
  BY <1>0, <1>7 DEF CreatePrompt
<1>8. CASE AddOption
  <2>1. PICK r \in worker.offer, t \in {"judging", "listing"} :
          worker' = [worker EXCEPT !.offer = @ \ {r}, !.step = t]
    BY <1>8 DEF AddOption
  <2> QED
    BY <1>0, <2>1
<1>9. CASE ReadMessage
  <2>1. TextAllowed(worker.msg) \in BOOLEAN
    BY DEF TextAllowed, PolicyAllows, OutboundPolicyAllows
  <2> QED
    BY <1>0, <1>9, <2>1 DEF ReadMessage
<1>10. CASE StartReply \/ AuditReply \/ GenerationFails \/ StartDispatch
  BY <1>0, <1>10 DEF StartReply, AuditReply, GenerationFails, StartDispatch, Goto
<1>11. CASE JudgeText
  BY <1>0, <1>11 DEF JudgeText, Goto, Continue
<1>12. CASE EndCycle \/ Interrupt
  BY <1>12 DEF EndCycle, Interrupt
<1>13. ASSUME NEW m \in Messages, DispatchText(m) \/ \E r \in Resources : DispatchFile(m, r)
       PROVE  worker' \in Workers
  BY <1>0, <1>13 DEF DispatchText, DispatchFile
<1>14. CASE Environment
  BY <1>0, <1>14 DEF Environment, Ingest, GrowOld, SwitchConversations, ContextChanges, DenyDraft
<1>15. CASE UNCHANGED vars
  BY <1>0, <1>15 DEF vars
<1> QED
  BY <1>1, <1>2, <1>3, <1>4, <1>5, <1>6, <1>7, <1>8, <1>9, <1>10, <1>11, <1>12, <1>13, <1>14,
     <1>15 DEF Next, Cycle

LEMMA ProposalsStep == ASSUME IInv, [Next]_vars PROVE proposals' \in Seq(Proposals)
<1>0. proposals \in Seq(Proposals)
  BY DEF IInv, TypeOK
<1>1. CASE ResolveProposal
  <2> DEFINE Resolved(p) == IF proposals[p].draft = worker.source
                            THEN [proposals[p] EXCEPT !.state = "resolved"]
                            ELSE proposals[p]
  <2>1. ASSUME NEW p \in 1..Len(proposals) PROVE Resolved(p) \in Proposals
    <3>1. proposals[p] \in Proposals
      BY <1>0, ElementOfSeq
    <3>2. [proposals[p] EXCEPT !.state = "resolved"] \in Proposals
      BY <3>1 DEF Proposals, ProposalStates
    <3> QED
      BY <3>1, <3>2
  <2>2. proposals' = [p \in 1..Len(proposals) |-> Resolved(p)] /\ Len(proposals) \in Nat
    BY <1>0, <1>1 DEF ResolveProposal
  <2> HIDE DEF Resolved
  <2> QED
    BY <2>1, <2>2
<1>2. CASE CreateProposal
  <2>1. [draft |-> worker.msg, state |-> "pending", options |-> <<>>] \in Proposals
    BY <1>2 DEF CreateProposal, IInv, MessagesInHand, At, MessageSteps, DraftedSteps, Proposals,
                ProposalStates
  <2> QED
    BY <1>0, <1>2, <2>1 DEF CreateProposal
<1>3. CASE AddOption
  <2>1. proposals # <<>> /\ worker.offer \subseteq Resources
    BY <1>3 DEF AddOption, IInv, ProposedOnce, TypeOK
  <2>2. PICK r \in worker.offer :
          proposals' = [proposals EXCEPT ![Len(proposals)].options = Append(@, r)]
    BY <1>3 DEF AddOption
  <2> DEFINE last == Len(proposals)
             more == [proposals[last] EXCEPT !.options = Append(@, r)]
  <2>3. last \in 1..Len(proposals) /\ Len(proposals) \in Nat
    BY <1>0, <2>1
  <2>4. proposals[last] \in Proposals
    BY <1>0, <2>3, ElementOfSeq
  <2>5. more \in Proposals
    BY <2>1, <2>4 DEF Proposals
  <2>6. proposals' = [proposals EXCEPT ![last] = more]
    BY <2>2
  <2> HIDE DEF more, last
  <2> QED
    BY <1>0, <2>3, <2>5, <2>6, ExceptSeq
<1>4. CASE UNCHANGED proposals
  BY <1>0, <1>4
<1>5. ASSUME Cycle, ~ResolveProposal, ~CreateProposal, ~AddOption PROVE UNCHANGED proposals
  BY <1>5 DEF Cycle, StartCycle, TakeOrdinary, TakeAmbiguous, TakeConfirmation, JudgeConfirmation,
              QueueFile, AllowDraft, Consume, CloseRun, StartSearch, CreatePrompt, NoteDrafted,
              ReadMessage, StartReply, CreateReply, FinishReply, AuditReply, GenerationFails,
              FailRun, JudgeText, QueueText, StartDispatch, EndCycle, DispatchText, DispatchFile
<1>6. ASSUME Environment PROVE UNCHANGED proposals
  BY <1>6 DEF Environment, Ingest, GrowOld, SwitchConversations, ContextChanges, DenyDraft
<1>7. ASSUME Interrupt \/ UNCHANGED vars PROVE UNCHANGED proposals
  BY <1>7 DEF Interrupt, vars
<1> QED
  BY <1>1, <1>2, <1>3, <1>4, <1>5, <1>6, <1>7 DEF Next

LEMMA FileJobChange ==
    ASSUME NEW f \in [Messages -> [Resources -> JobStates]], NEW d, NEW r, NEW j \in JobStates
    PROVE  [f EXCEPT ![d][r] = j] \in [Messages -> [Resources -> JobStates]]
  OBVIOUS

LEMMA TablesStep == ASSUME IInv, [Next]_vars PROVE Tables'
<1> USE DEF Tables, messageVars, jobVars, worldVars, RunStates, DraftStates, JobStates
<1>0. Tables /\ proposals' \in Seq(Proposals)
  BY TypeParts, ProposalsStep DEF IInv
<1>1. CASE StartCycle
           \/ \E m \in Messages : TakeOrdinary(m) \/ TakeAmbiguous(m) \/ TakeConfirmation(m)
  BY <1>0, <1>1 DEF StartCycle, TakeOrdinary, TakeAmbiguous, TakeConfirmation
<1>2. CASE JudgeConfirmation \/ AllowDraft \/ ResolveProposal \/ Consume \/ CloseRun
  BY <1>0, <1>2 DEF JudgeConfirmation, AllowDraft, ResolveProposal, Consume, CloseRun
<1>3. CASE QueueFile
  <2> DEFINE d == worker.source
             r == worker.resource
  <2>1. d \in Messages /\ r \in Resources /\ worker.msg \in Messages
    BY <1>3 DEF QueueFile, IInv, MessagesInHand, ConfirmationInHand, At, MessageSteps,
                UnstartedSteps, ConfirmSteps
  <2>2. /\ fileJob' = [fileJob EXCEPT ![d][r] = IF @ = "absent" THEN "queued" ELSE @]
        /\ confirmedBy' = [confirmedBy EXCEPT ![d][r] = @ \cup {worker.msg}]
        /\ UNCHANGED <<text, age, run, draft, textJob, denied, chat, config, interrupts,
                       switches>>
    BY <1>3 DEF QueueFile
  <2> HIDE DEF d, r
  <2>3. fileJob' \in [Messages -> [Resources -> JobStates]]
    <3>1. fileJob[d][r] \in JobStates
      BY <1>0, <2>1
    <3> QED
      BY <1>0, <2>2, <3>1, FileJobChange
  <2>4. confirmedBy' \in [Messages -> [Resources -> SUBSET Messages]]
    BY <1>0, <2>1, <2>2
  <2> QED
    BY <1>0, <2>2, <2>3, <2>4
<1>4. CASE StartSearch \/ CreatePrompt \/ NoteDrafted \/ CreateProposal \/ AddOption
  BY <1>0, <1>4 DEF StartSearch, CreatePrompt, NoteDrafted, CreateProposal, AddOption
<1>5. CASE ReadMessage \/ StartReply \/ CreateReply \/ FinishReply \/ AuditReply
  BY <1>0, <1>5 DEF ReadMessage, StartReply, CreateReply, FinishReply, AuditReply
<1>6. CASE GenerationFails \/ FailRun \/ JudgeText \/ QueueText \/ StartDispatch \/ EndCycle
  BY <1>0, <1>6 DEF GenerationFails, FailRun, JudgeText, QueueText, StartDispatch, EndCycle
<1>7. ASSUME NEW m \in Messages, DispatchText(m) PROVE Tables'
  BY <1>0, <1>7 DEF DispatchText
<1>8. ASSUME NEW m \in Messages, NEW r \in Resources, DispatchFile(m, r) PROVE Tables'
  <2>1. fileJob' \in [Messages -> [Resources -> JobStates]]
    <3>1. \E j \in {"sent", "blocked"} : fileJob' = [fileJob EXCEPT ![m][r] = j]
      BY <1>8 DEF DispatchFile
    <3> QED
      BY <1>0, <3>1, FileJobChange
  <2>2. draft' \in [Messages -> DraftStates]
    BY <1>0, <1>8 DEF DispatchFile
  <2> QED
    BY <1>0, <1>8, <2>1, <2>2 DEF DispatchFile
<1>9. CASE Interrupt
  <2>1. interrupts' \in 0..MaxInterrupts
    BY <1>0, <1>9, AutomationAssumption DEF AutomationAssumption, Interrupt
  <2>2. /\ textJob' \in [Messages -> JobStates]
        /\ fileJob' \in [Messages -> [Resources -> JobStates]]
    <3>1. \/ UNCHANGED <<textJob, fileJob>>
          \/ \E m \in Messages : /\ textJob' = [textJob EXCEPT ![m] = "sending"]
                                /\ UNCHANGED fileJob
          \/ \E m \in Messages, r \in Resources :
                /\ fileJob' = [fileJob EXCEPT ![m][r] = "sending"]
                /\ UNCHANGED textJob
      BY <1>9 DEF Interrupt
    <3>2. CASE UNCHANGED <<textJob, fileJob>>
      BY <1>0, <3>2
    <3>3. ASSUME NEW m \in Messages, textJob' = [textJob EXCEPT ![m] = "sending"]
          PROVE  textJob' \in [Messages -> JobStates]
      BY <1>0, <3>3
    <3>4. ASSUME NEW m \in Messages, NEW r \in Resources,
                 fileJob' = [fileJob EXCEPT ![m][r] = "sending"]
          PROVE  fileJob' \in [Messages -> [Resources -> JobStates]]
      BY <1>0, <3>4, FileJobChange
    <3> QED
      BY <1>0, <3>1, <3>2, <3>3, <3>4
  <2> QED
    BY <1>0, <1>9, <2>1, <2>2 DEF Interrupt
<1>10. ASSUME NEW m \in Messages, Ingest(m) \/ GrowOld(m) PROVE Tables'
  <2>1. text' \in [Messages -> Texts \cup {NoText}]
    BY <1>0, <1>10 DEF Ingest, GrowOld
  <2>2. age' \in [Messages -> 0..2]
    <3>1. CASE UNCHANGED age
      BY <1>0, <3>1
    <3>2. CASE GrowOld(m)
      <4>1. age[m] \in 0..2 /\ age[m] < 2 /\ age' = [age EXCEPT ![m] = age[m] + 1]
        BY <1>0, <3>2 DEF GrowOld
      <4> QED
        BY <1>0, <4>1
    <3> QED
      BY <1>10, <3>1, <3>2 DEF Ingest
  <2> QED
    BY <1>0, <1>10, <2>1, <2>2 DEF Ingest, GrowOld
<1>11. ASSUME NEW from \in {"active", "paused"}, NEW to \in {"active", "paused"},
              SwitchConversations(from, to)
       PROVE  Tables'
  <2>1. chat' \in [Chats -> [state : ConversationStates, context : ContextStates]]
    BY <1>0, <1>11 DEF SwitchConversations, ConversationStates
  <2>2. switches' \in 0..MaxSwitches
    BY <1>0, <1>11, AutomationAssumption DEF AutomationAssumption, SwitchConversations
  <2> QED
    BY <1>0, <1>11, <2>1, <2>2 DEF SwitchConversations
<1>12. ASSUME NEW c \in Chats, NEW k \in {"fresh", "recovering"}, ContextChanges(c, k)
       PROVE  Tables'
  <2>1. chat' \in [Chats -> [state : ConversationStates, context : ContextStates]]
    BY <1>0, <1>12 DEF ContextChanges, ContextStates
  <2>2. switches' \in 0..MaxSwitches
    BY <1>0, <1>12, AutomationAssumption DEF AutomationAssumption, ContextChanges
  <2> QED
    BY <1>0, <1>12, <2>1, <2>2 DEF ContextChanges
<1>13. ASSUME NEW d \in Messages, DenyDraft(d) PROVE Tables'
  <2>1. switches' \in 0..MaxSwitches
    BY <1>0, <1>13, AutomationAssumption DEF AutomationAssumption, DenyDraft
  <2> QED
    BY <1>0, <1>13, <2>1 DEF DenyDraft
<1>14. CASE UNCHANGED vars
  BY <1>0, <1>14 DEF vars
<1> QED
  BY <1>1, <1>2, <1>3, <1>4, <1>5, <1>6, <1>7, <1>8, <1>9, <1>10, <1>11, <1>12, <1>13, <1>14
     DEF Next, Cycle, Environment
-----------------------------------------------------------------------------
(* Which actions change what: all but the ones named leave it as it is *)

LEMMA WhatChanges ==
    ASSUME [Next]_vars
    PROVE  /\ \/ UNCHANGED text \/ \E m \in Messages : Ingest(m)
           /\ \/ UNCHANGED run
              \/ Consume \/ CloseRun \/ StartSearch \/ NoteDrafted \/ StartReply \/ FinishReply
              \/ FailRun
           /\ UNCHANGED proposals \/ ResolveProposal \/ CreateProposal \/ AddOption
           /\ UNCHANGED confirmedBy \/ QueueFile
           /\ UNCHANGED textJob \/ QueueText \/ Interrupt \/ \E m \in Messages : DispatchText(m)
           /\ \/ UNCHANGED fileJob \/ QueueFile \/ Interrupt
              \/ \E m \in Messages, r \in Resources : DispatchFile(m, r)
           /\ UNCHANGED interrupts \/ Interrupt
<1> USE DEF messageVars, jobVars, worldVars
<1>1. CASE StartCycle
           \/ \E m \in Messages : TakeOrdinary(m) \/ TakeAmbiguous(m) \/ TakeConfirmation(m)
  BY <1>1 DEF StartCycle, TakeOrdinary, TakeAmbiguous, TakeConfirmation
<1>2. CASE JudgeConfirmation \/ QueueFile \/ AllowDraft \/ ResolveProposal \/ Consume \/ CloseRun
  BY <1>2 DEF JudgeConfirmation, QueueFile, AllowDraft, ResolveProposal, Consume, CloseRun
<1>3. CASE StartSearch \/ CreatePrompt \/ NoteDrafted \/ CreateProposal \/ AddOption
  BY <1>3 DEF StartSearch, CreatePrompt, NoteDrafted, CreateProposal, AddOption
<1>4. CASE ReadMessage \/ StartReply \/ CreateReply \/ FinishReply \/ AuditReply
  BY <1>4 DEF ReadMessage, StartReply, CreateReply, FinishReply, AuditReply
<1>5. CASE GenerationFails \/ FailRun \/ JudgeText \/ QueueText \/ StartDispatch \/ EndCycle
  BY <1>5 DEF GenerationFails, FailRun, JudgeText, QueueText, StartDispatch, EndCycle
<1>6. ASSUME NEW m \in Messages, DispatchText(m)
      PROVE  UNCHANGED <<text, run, proposals, confirmedBy, fileJob, interrupts>>
  BY <1>6 DEF DispatchText
<1>7. ASSUME NEW m \in Messages, NEW r \in Resources, DispatchFile(m, r)
      PROVE  UNCHANGED <<text, run, proposals, confirmedBy, textJob, interrupts>>
  BY <1>7 DEF DispatchFile
<1>8. CASE Interrupt
  BY <1>8 DEF Interrupt
<1>9. ASSUME NEW m \in Messages, Ingest(m)
      PROVE  UNCHANGED <<run, proposals, confirmedBy, textJob, fileJob, interrupts>>
  BY <1>9 DEF Ingest
<1>10. ASSUME NEW m \in Messages, GrowOld(m) \/ DenyDraft(m)
       PROVE  UNCHANGED <<text, run, proposals, confirmedBy, textJob, fileJob, interrupts>>
  BY <1>10 DEF GrowOld, DenyDraft
<1>11. ASSUME NEW a, NEW b, SwitchConversations(a, b) \/ ContextChanges(a, b)
       PROVE  UNCHANGED <<text, run, proposals, confirmedBy, textJob, fileJob, interrupts>>
  BY <1>11 DEF SwitchConversations, ContextChanges
<1>12. CASE UNCHANGED vars
  BY <1>12 DEF vars
<1> QED
  BY <1>1, <1>2, <1>3, <1>4, <1>5, <1>6, <1>7, <1>8, <1>9, <1>10, <1>11, <1>12
     DEF Next, Cycle, Environment
-----------------------------------------------------------------------------
(* The message in hand *)

LEMMA HandStep == ASSUME IInv, [Next]_vars PROVE MessagesInHand'
<1> USE DEF IInv, TypeOK, MessagesInHand, At, messageVars, jobVars, worldVars, MessageSteps,
            UnstartedSteps, StartedSteps, DraftedSteps, ConfirmSteps
<1>1. CASE StartCycle
  BY <1>1 DEF StartCycle, NeedsAutomation, Idle
<1>2. ASSUME NEW m \in Messages, TakeOrdinary(m) \/ TakeAmbiguous(m) PROVE MessagesInHand'
  <2>1. PICK t \in {"asking", "replying", "consuming"} :
          worker' = [worker EXCEPT !.step = t, !.msg = m, !.batch = @ \ {m}]
    BY <1>2 DEF TakeOrdinary, TakeAmbiguous, Take
  <2>2. text[m] # NoText /\ run[m] = "none" /\ UNCHANGED <<text, run, draft, textJob>>
    BY <1>2 DEF TakeOrdinary, TakeAmbiguous, Takes
  <2>3. /\ worker'.step = t /\ worker'.msg = m /\ worker'.batch = worker.batch \ {m}
    BY <2>1
  <2> QED
    BY <2>2, <2>3
<1>3. ASSUME NEW m \in Messages, TakeConfirmation(m) PROVE MessagesInHand'
  BY <1>3 DEF TakeConfirmation, Takes
<1>4. CASE JudgeConfirmation
  BY <1>4 DEF JudgeConfirmation, Goto
<1>5. CASE QueueFile
  BY <1>5 DEF QueueFile, Goto
<1>6. CASE AllowDraft
  BY <1>6 DEF AllowDraft, Goto
<1>7. CASE ResolveProposal
  BY <1>7 DEF ResolveProposal, Goto
<1>8. CASE Consume
  BY <1>8 DEF Consume, Goto
<1>9. CASE CloseRun
  BY <1>9 DEF CloseRun, Continue, Idle
<1>10. CASE StartSearch
  BY <1>10 DEF StartSearch, Goto
<1>11. CASE CreatePrompt
  BY <1>11 DEF CreatePrompt
<1>12. CASE NoteDrafted
  BY <1>12 DEF NoteDrafted, Goto
<1>13. CASE CreateProposal
  BY <1>13 DEF CreateProposal, Goto
<1>14. CASE AddOption
  BY <1>14 DEF AddOption
<1>15. CASE ReadMessage
  BY <1>15 DEF ReadMessage
<1>16. CASE StartReply
  BY <1>16 DEF StartReply, Goto
<1>17. CASE CreateReply
  BY <1>17 DEF CreateReply, Goto
<1>18. CASE FinishReply
  BY <1>18 DEF FinishReply, Goto, QueuedTextIsFinished
<1>19. CASE AuditReply
  BY <1>19 DEF AuditReply, Goto
<1>20. CASE GenerationFails
  BY <1>20 DEF GenerationFails, Goto, QueuedTextIsFinished
<1>21. CASE FailRun
  BY <1>21 DEF FailRun, Continue, Idle
<1>22. CASE JudgeText
  <2>1. \/ worker' = [worker EXCEPT !.step = "posting"]
        \/ worker' = [Idle EXCEPT !.step = "next", !.batch = worker.batch]
    BY <1>22 DEF JudgeText, Goto, Continue
  <2>2. At("judging") /\ UNCHANGED <<text, run, draft, textJob>>
    BY <1>22 DEF JudgeText
  <2>3. CASE worker' = [worker EXCEPT !.step = "posting"]
    BY <2>2, <2>3
  <2>4. CASE worker' = [Idle EXCEPT !.step = "next", !.batch = worker.batch]
    BY <2>2, <2>4 DEF Idle
  <2> QED
    BY <2>1, <2>3, <2>4
<1>23. CASE QueueText
  BY <1>23 DEF QueueText, Continue, Idle
<1>24. CASE StartDispatch \/ EndCycle
  <2>1. worker' = [worker EXCEPT !.step = "dispatching"] \/ worker' = Idle
    BY <1>24 DEF StartDispatch, EndCycle, Goto
  <2>2. UNCHANGED <<text, run, draft, textJob>>
    BY <1>24 DEF StartDispatch, EndCycle
  <2>3. CASE worker' = [worker EXCEPT !.step = "dispatching"]
    <3>1. worker'.step = "dispatching" /\ worker'.batch = worker.batch
      BY <2>3
    <3> QED
      BY <2>2, <3>1
  <2>4. CASE worker' = Idle
    <3>1. worker'.step = "idle" /\ worker'.batch = {}
      BY <2>4, IdleWorker
    <3> QED
      BY <3>1
  <2> QED
    BY <2>1, <2>3, <2>4
<1>25. ASSUME NEW m \in Messages, DispatchText(m) \/ \E r \in Resources : DispatchFile(m, r)
       PROVE  MessagesInHand'
  <2>1. UNCHANGED <<text, run, worker>> /\ At("dispatching")
    BY <1>25 DEF DispatchText, DispatchFile
  <2> QED
    BY <2>1
<1>26. CASE Interrupt
  BY <1>26 DEF Interrupt, Idle
<1>27. ASSUME NEW m \in Messages, Ingest(m) PROVE MessagesInHand'
  BY <1>27, AutomationAssumption DEF AutomationAssumption, Ingest
<1>28. ASSUME NEW m \in Messages, DenyDraft(m) PROVE MessagesInHand'
  BY <1>28 DEF DenyDraft
<1>29. ASSUME UNCHANGED <<text, run, draft, textJob, worker>> PROVE MessagesInHand'
  BY <1>29
<1>30. ASSUME NEW m \in Messages, GrowOld(m) PROVE MessagesInHand'
  BY <1>29, <1>30 DEF GrowOld
<1>31. ASSUME NEW a, NEW b, SwitchConversations(a, b) \/ ContextChanges(a, b)
       PROVE  MessagesInHand'
  BY <1>29, <1>31 DEF SwitchConversations, ContextChanges
<1>32. CASE UNCHANGED vars
  BY <1>29, <1>32 DEF vars
<1> QED
  BY <1>1, <1>2, <1>3, <1>4, <1>5, <1>6, <1>7, <1>8, <1>9, <1>10, <1>11, <1>12, <1>13, <1>14,
     <1>15, <1>16, <1>17, <1>18, <1>19, <1>20, <1>21, <1>22, <1>23, <1>24, <1>25, <1>26, <1>27,
     <1>28, <1>30, <1>31, <1>32 DEF Next, Cycle, Environment
-----------------------------------------------------------------------------
(* Runs, texts and files *)

\* A run changes while its message is in hand, and once it has ended, only from
\* drafted to failed.
LEMMA RunChanges ==
    ASSUME IInv, [Next]_vars, NEW m \in Messages, run'[m] # run[m]
    PROVE  /\ m = worker.msg /\ text[m] # NoText /\ run'[m] # "none"
           /\ \/ run[m] \in {"none", "started"}
              \/ FailRun /\ run[m] = "drafted" /\ run'[m] = "failed"
<1> USE DEF MessagesInHand, At, MessageSteps, UnstartedSteps, StartedSteps
<1>0. run \in [Messages -> RunStates] /\ MessagesInHand
  BY DEF IInv, TypeOK
<1>1. CASE Consume
  BY <1>0, <1>1 DEF Consume
<1>2. CASE CloseRun
  BY <1>0, <1>2 DEF CloseRun
<1>3. CASE StartSearch
  BY <1>0, <1>3 DEF StartSearch
<1>4. CASE NoteDrafted
  BY <1>0, <1>4 DEF NoteDrafted
<1>5. CASE StartReply
  BY <1>0, <1>5 DEF StartReply
<1>6. CASE FinishReply
  BY <1>0, <1>6 DEF FinishReply
<1>7. CASE FailRun
  BY <1>0, <1>7 DEF FailRun
<1> QED
  BY <1>1, <1>2, <1>3, <1>4, <1>5, <1>6, <1>7, WhatChanges

\* A message that was ingested keeps what it says.
LEMMA TextStays ==
    ASSUME IInv, [Next]_vars, NEW m \in Messages, text[m] # NoText
    PROVE  text'[m] = text[m]
<1>1. text \in [Messages -> Texts \cup {NoText}]
  BY DEF IInv, TypeOK
<1> QED
  BY <1>1, WhatChanges DEF Ingest

\* A file that was queued stays so, and only QueueFile queues one.
LEMMA FilesChange ==
    ASSUME IInv, [Next]_vars, NEW d \in Messages, NEW r \in Resources
    PROVE  /\ FileQueued(d, r) => FileQueued(d, r)'
           /\ FileQueued(d, r)' /\ ~FileQueued(d, r) =>
                QueueFile /\ d = worker.source /\ r = worker.resource
           /\ QueueFile /\ d = worker.source /\ r = worker.resource => FileQueued(d, r)'
<1> USE DEF FileQueued
<1>0. fileJob \in [Messages -> [Resources -> JobStates]]
  BY DEF IInv, TypeOK
<1>1. CASE QueueFile
  <2>1. PICK e, s, j : /\ e = worker.source /\ s = worker.resource /\ j # "absent"
                       /\ fileJob' = [fileJob EXCEPT ![e][s] = j]
    <3>1. fileJob' = [fileJob EXCEPT ![worker.source][worker.resource] =
                        IF @ = "absent" THEN "queued" ELSE @]
      BY <1>1 DEF QueueFile
    <3> DEFINE j == IF fileJob[worker.source][worker.resource] = "absent" THEN "queued"
                    ELSE fileJob[worker.source][worker.resource]
    <3>2. fileJob' = [fileJob EXCEPT ![worker.source][worker.resource] = j] /\ j # "absent"
      BY <3>1
    <3> HIDE DEF j
    <3> QED
      BY <3>2
  <2> QED
    BY <1>0, <1>1, <2>1
<1>2. ASSUME NEW e \in Messages, NEW s \in Resources, NEW j \in {"sent", "blocked", "sending"},
             fileJob[e][s] = "queued", fileJob' = [fileJob EXCEPT ![e][s] = j]
      PROVE  FileQueued(d, r)' <=> FileQueued(d, r)
  BY <1>0, <1>2
<1>3. ASSUME NEW e \in Messages, NEW s \in Resources, DispatchFile(e, s)
      PROVE  FileQueued(d, r)' <=> FileQueued(d, r)
  BY <1>2, <1>3 DEF DispatchFile
<1>4. ASSUME Interrupt PROVE FileQueued(d, r)' <=> FileQueued(d, r)
  <2>1. \/ UNCHANGED fileJob
        \/ \E e \in Messages, s \in Resources :
              fileJob[e][s] = "queued" /\ fileJob' = [fileJob EXCEPT ![e][s] = "sending"]
    BY <1>4 DEF Interrupt
  <2> QED
    BY <1>2, <2>1
<1>5. CASE UNCHANGED fileJob /\ ~QueueFile
  BY <1>5
<1>6. ~QueueFile \/ ~Interrupt
  <2>1. QueueFile => worker'.step = "allowing"
    <3>1. worker \in Workers
      BY TypeParts DEF IInv
    <3> QED
      BY <3>1 DEF QueueFile, Goto, Workers
  <2>2. Interrupt => worker'.step = "idle"
    BY IdleWorker DEF Interrupt
  <2> QED
    BY <2>1, <2>2
<1>7. Interrupt \/ (\E m \in Messages, s \in Resources : DispatchFile(m, s)) => ~QueueFile
  BY <1>6 DEF DispatchFile, QueueFile, At
<1> QED
  BY <1>1, <1>3, <1>4, <1>5, <1>7, WhatChanges

LEMMA ConfirmationsChange ==
    ASSUME IInv, [Next]_vars, NEW d \in Messages, NEW r \in Resources
    PROVE  /\ confirmedBy[d][r] \subseteq confirmedBy'[d][r]
           /\ \A m \in confirmedBy'[d][r] :
                \/ m \in confirmedBy[d][r]
                \/ QueueFile /\ d = worker.source /\ r = worker.resource /\ m = worker.msg
           /\ QueueFile /\ d = worker.source /\ r = worker.resource =>
                worker.msg \in confirmedBy'[d][r]
<1>0. confirmedBy \in [Messages -> [Resources -> SUBSET Messages]]
  BY DEF IInv, TypeOK
<1>1. CASE QueueFile
  <2>1. confirmedBy' = [confirmedBy EXCEPT ![worker.source][worker.resource] =
                          @ \cup {worker.msg}]
    BY <1>1 DEF QueueFile
  <2> QED
    BY <1>0, <1>1, <2>1
<1> QED
  BY <1>1, WhatChanges

LEMMA IngestedStep == ASSUME IInv, [Next]_vars PROVE IngestedFirst'
<1>1. ASSUME NEW m \in Messages, run'[m] # "none" PROVE text'[m] # NoText
  <2>1. text[m] # NoText
    BY <1>1, RunChanges DEF IInv, IngestedFirst
  <2> QED
    BY <2>1, TextStays
<1>2. ASSUME NEW d \in Messages, NEW r \in Resources, NEW m \in confirmedBy'[d][r]
      PROVE  text'[m] # NoText /\ FileQueued(d, r)'
  <2>1. CASE m \in confirmedBy[d][r]
    <3>1. m \in Messages /\ text[m] # NoText /\ FileQueued(d, r)
      BY <2>1 DEF IInv, TypeOK, IngestedFirst
    <3> QED
      BY <3>1, TextStays, FilesChange
  <2>2. CASE QueueFile /\ d = worker.source /\ r = worker.resource /\ m = worker.msg
    <3>1. m \in Messages /\ text[m] # NoText
      BY <2>2 DEF QueueFile, IInv, MessagesInHand, At, MessageSteps, UnstartedSteps, ConfirmSteps
    <3> QED
      BY <2>2, <3>1, TextStays, FilesChange
  <2> QED
    BY <2>1, <2>2, ConfirmationsChange
<1> QED
  BY <1>1, <1>2 DEF IngestedFirst
-----------------------------------------------------------------------------
(* Proposals *)

\* A proposal keeps its draft and its options, becomes resolved when the file of
\* its draft was queued, and a new one is pending and of the message in hand.
LEMMA ProposalsKept ==
    ASSUME IInv, [Next]_vars
    PROVE  /\ \A p \in DOMAIN proposals :
                /\ p \in DOMAIN proposals'
                /\ proposals'[p].draft = proposals[p].draft
                /\ OptionsOf(p) \subseteq OptionsOf(p)'
                /\ \/ proposals'[p].state = proposals[p].state
                   \/ ResolveProposal /\ proposals[p].draft = worker.source
                /\ ResolveProposal /\ proposals[p].draft = worker.source =>
                     proposals'[p].state = "resolved"
           /\ \A p \in DOMAIN proposals' \ DOMAIN proposals :
                /\ CreateProposal /\ p = Len(proposals) + 1
                /\ proposals'[p].draft = worker.msg /\ proposals'[p].state = "pending"
<1>0. /\ proposals \in Seq(Proposals) /\ Len(proposals) \in Nat
      /\ DOMAIN proposals = 1..Len(proposals)
      /\ \A p \in DOMAIN proposals : proposals[p] \in Proposals
  BY ElementOfSeq DEF IInv, TypeOK
<1>1. CASE ResolveProposal
  <2>1. proposals' = [p \in DOMAIN proposals |->
                       IF proposals[p].draft = worker.source
                       THEN [proposals[p] EXCEPT !.state = "resolved"]
                       ELSE proposals[p]]
    BY <1>1 DEF ResolveProposal
  <2>2. ASSUME NEW p \in DOMAIN proposals
        PROVE  /\ proposals'[p].draft = proposals[p].draft
               /\ proposals'[p].options = proposals[p].options
               /\ IF proposals[p].draft = worker.source THEN proposals'[p].state = "resolved"
                  ELSE proposals'[p].state = proposals[p].state
    BY <1>0, <2>1 DEF Proposals
  <2>3. \A p \in DOMAIN proposals : OptionsOf(p)' = OptionsOf(p)
    BY <2>2 DEF OptionsOf
  <2>4. DOMAIN proposals' = DOMAIN proposals
    BY <2>1
  <2> QED
    BY <1>1, <2>2, <2>3, <2>4
<1>2. CASE CreateProposal
  <2> DEFINE new == [draft |-> worker.msg, state |-> "pending", options |-> <<>>]
  <2>1. proposals' = Append(proposals, new) /\ At("proposing")
    BY <1>2 DEF CreateProposal
  <2>2. /\ DOMAIN proposals' = 1..(Len(proposals) + 1)
        /\ proposals'[Len(proposals) + 1] = new
        /\ \A p \in 1..Len(proposals) : proposals'[p] = proposals[p]
    BY <1>0, <2>1
  <2>3. \A p \in DOMAIN proposals : OptionsOf(p)' = OptionsOf(p)
    BY <1>0, <2>2 DEF OptionsOf
  <2>4. new.draft = worker.msg /\ new.state = "pending"
    OBVIOUS
  <2>5. ~ResolveProposal
    BY <2>1 DEF ResolveProposal, At
  <2> HIDE DEF new
  <2> QED
    BY <1>0, <1>2, <2>2, <2>3, <2>4, <2>5
<1>3. CASE AddOption
  <2>1. Len(proposals) \in DOMAIN proposals
    BY <1>0, <1>3 DEF AddOption, IInv, ProposedOnce
  <2>2. PICK last \in DOMAIN proposals : last = Len(proposals)
    BY <2>1
  <2>3. PICK r \in worker.offer : proposals' = [proposals EXCEPT ![last].options = Append(@, r)]
    BY <1>3, <2>2 DEF AddOption
  <2>4. proposals[last].options \in Seq(Resources) /\ r \in Resources
    BY <1>0 DEF Proposals, IInv, TypeOK
  <2>5. /\ DOMAIN proposals' = DOMAIN proposals
        /\ \A p \in DOMAIN proposals :
             /\ proposals'[p].draft = proposals[p].draft
             /\ proposals'[p].state = proposals[p].state
             /\ p # last => proposals'[p].options = proposals[p].options
        /\ proposals'[last].options = Append(proposals[last].options, r)
    BY <1>0, <2>3 DEF Proposals
  <2>6. OptionsOf(last) \subseteq OptionsOf(last)'
    <3> DEFINE before == proposals[last].options
               after == proposals'[last].options
    <3>1. before \in Seq(Resources) /\ after = Append(before, r)
      BY <2>4, <2>5
    <3>2. OptionsOf(last) = Range(before) /\ OptionsOf(last)' = Range(after)
      BY DEF OptionsOf
    <3> HIDE DEF before, after
    <3>3. /\ DOMAIN before \subseteq DOMAIN after
          /\ \A i \in DOMAIN before : after[i] = before[i]
      BY <2>4, <3>1
    <3> QED
      BY <3>2, <3>3 DEF Range
  <2>7. \A p \in DOMAIN proposals : p # last => OptionsOf(p)' = OptionsOf(p)
    BY <2>5 DEF OptionsOf
  <2>8. ~ResolveProposal
    BY <1>3 DEF AddOption, ResolveProposal, At
  <2> QED
    BY <2>5, <2>6, <2>7, <2>8
<1>4. CASE UNCHANGED proposals /\ ~ResolveProposal
  BY <1>4 DEF OptionsOf
<1> QED
  BY <1>1, <1>2, <1>3, <1>4, WhatChanges

\* Where the cycle can come from.
LEMMA ComesFrom ==
    ASSUME IInv, [Next]_vars
    PROVE  /\ At("proposing")' => NoteDrafted \/ UNCHANGED worker
           /\ At("listing")' => CreateProposal \/ AddOption \/ UNCHANGED worker
           /\ worker'.step \in ConfirmSteps =>
                \/ \E m \in Messages : TakeConfirmation(m)
                \/ JudgeConfirmation \/ QueueFile \/ AllowDraft \/ UNCHANGED worker
<1> USE DEF IInv, TypeOK, At, ConfirmSteps
<1>1. CASE StartCycle
  BY <1>1 DEF StartCycle, Idle
<1>2. ASSUME NEW m \in Messages, TakeOrdinary(m) \/ TakeAmbiguous(m)
      PROVE  worker'.step \in {"asking", "replying", "consuming"}
  BY <1>2 DEF TakeOrdinary, TakeAmbiguous, Take
<1>3. CASE JudgeConfirmation \/ QueueFile \/ AllowDraft
  BY <1>3 DEF JudgeConfirmation, QueueFile, AllowDraft, Goto
<1>4. ASSUME NEW m \in Messages, TakeConfirmation(m) PROVE worker'.step = "confirming"
  BY <1>4 DEF TakeConfirmation
<1>5. CASE ResolveProposal \/ Consume \/ CloseRun
  BY <1>5 DEF ResolveProposal, Consume, CloseRun, Goto, Continue, Idle
<1>6. CASE StartSearch
  BY <1>6 DEF StartSearch, Goto
<1>7. CASE CreatePrompt
  BY <1>7 DEF CreatePrompt
<1>8. CASE NoteDrafted
  BY <1>8 DEF NoteDrafted, Goto
<1>9. CASE CreateProposal
  BY <1>9 DEF CreateProposal, Goto
<1>10. CASE AddOption
  BY <1>10 DEF AddOption
<1>11. CASE ReadMessage
  BY <1>11 DEF ReadMessage
<1>12. CASE StartReply
  BY <1>12 DEF StartReply, Goto
<1>13. CASE CreateReply \/ FinishReply \/ AuditReply
  BY <1>13 DEF CreateReply, FinishReply, AuditReply, Goto
<1>14. CASE GenerationFails \/ FailRun
  BY <1>14 DEF GenerationFails, FailRun, Goto, Continue, Idle
<1>15. CASE JudgeText \/ QueueText
  BY <1>15 DEF JudgeText, QueueText, Goto, Continue, Idle
<1>16. CASE StartDispatch \/ EndCycle \/ Interrupt
  BY <1>16 DEF StartDispatch, EndCycle, Interrupt, Goto, Idle
<1>17. ASSUME NEW m \in Messages, DispatchText(m) \/ \E r \in Resources : DispatchFile(m, r)
       PROVE  UNCHANGED worker
  BY <1>17 DEF DispatchText, DispatchFile
<1>18. ASSUME NEW m \in Messages, Ingest(m) \/ GrowOld(m) \/ DenyDraft(m) PROVE UNCHANGED worker
  BY <1>18 DEF Ingest, GrowOld, DenyDraft
<1>19. ASSUME NEW a, NEW b, SwitchConversations(a, b) \/ ContextChanges(a, b)
       PROVE  UNCHANGED worker
  BY <1>19 DEF SwitchConversations, ContextChanges
<1>20. CASE UNCHANGED vars
  BY <1>20 DEF vars
<1> QED
  BY <1>1, <1>2, <1>3, <1>4, <1>5, <1>6, <1>7, <1>8, <1>9, <1>10, <1>11, <1>12, <1>13, <1>14,
     <1>15, <1>16, <1>17, <1>18, <1>19, <1>20 DEF Next, Cycle, Environment
\* The proposals as a sequence.
LEMMA ProposalParts ==
    ASSUME TypeOK
    PROVE  /\ proposals \in Seq(Proposals) /\ Len(proposals) \in Nat
           /\ DOMAIN proposals = 1..Len(proposals)
           /\ \A p \in DOMAIN proposals :
                proposals[p].draft \in Messages /\ proposals[p].options \in Seq(Resources)
<1>1. proposals \in Seq(Proposals)
  BY DEF TypeOK
<1>2. \A p \in DOMAIN proposals : proposals[p] \in Proposals
  BY <1>1, ElementOfSeq
<1> QED
  BY <1>1, <1>2 DEF Proposals

LEMMA ProposedStep == ASSUME IInv, [Next]_vars PROVE ProposedOnce'
<1>0. /\ proposals \in Seq(Proposals) /\ run \in [Messages -> RunStates]
      /\ DOMAIN proposals = 1..Len(proposals) /\ Len(proposals) \in Nat
      /\ \A p \in DOMAIN proposals : proposals[p].draft \in Messages
      /\ ProposedOnce
  BY ProposalParts DEF IInv, TypeOK
<1>1. CASE CreateProposal
  <2>1. /\ run[worker.msg] = "drafted" /\ worker.msg \in Messages /\ UNCHANGED run
        /\ \A p \in DOMAIN proposals : proposals[p].draft # worker.msg
        /\ worker'.step = "listing"
    <3>1. At("proposing") /\ UNCHANGED run /\ worker'.step = "listing"
      BY <1>1 DEF CreateProposal, Goto, IInv, TypeOK
    <3>2. run[worker.msg] = "drafted" /\ worker.msg \in Messages
      BY <3>1 DEF IInv, MessagesInHand, At, MessageSteps, DraftedSteps
    <3> QED
      BY <1>0, <3>1, <3>2 DEF ProposedOnce
  <2>2. \A p \in DOMAIN proposals' :
          \/ p \in DOMAIN proposals /\ proposals'[p].draft = proposals[p].draft
          \/ p = Len(proposals) + 1 /\ proposals'[p].draft = worker.msg
    BY ProposalsKept
  <2>3. proposals' # <<>>
    BY <1>0, <1>1 DEF CreateProposal
  <2>4. \A p \in DOMAIN proposals' : run'[proposals'[p].draft] \in {"drafted", "failed"}
    BY <1>0, <2>1, <2>2 DEF ProposedOnce
  <2>5. \A p, q \in DOMAIN proposals' : proposals'[p].draft = proposals'[q].draft => p = q
    BY <1>0, <2>1, <2>2 DEF ProposedOnce
  <2> QED
    BY <2>1, <2>3, <2>4, <2>5 DEF ProposedOnce, At
<1>2. CASE ~CreateProposal
  <2>1. /\ DOMAIN proposals' = DOMAIN proposals
        /\ \A p \in DOMAIN proposals : proposals'[p].draft = proposals[p].draft
    BY <1>2, ProposalsKept
  <2>2. ASSUME NEW p \in DOMAIN proposals
        PROVE  run'[proposals'[p].draft] \in {"drafted", "failed"}
    <3> DEFINE d == proposals[p].draft
    <3>1. d \in Messages /\ run[d] \in {"drafted", "failed"}
      BY <1>0 DEF ProposedOnce
    <3>2. run'[d] = run[d] \/ run'[d] = "failed"
      BY <3>1, RunChanges
    <3> QED
      BY <2>1, <3>1, <3>2
  <2>3. \A p, q \in DOMAIN proposals' : proposals'[p].draft = proposals'[q].draft => p = q
    BY <1>0, <2>1 DEF ProposedOnce
  <2>4. ASSUME At("proposing")', NEW p \in DOMAIN proposals' PROVE proposals'[p].draft # worker'.msg
    <3>1. CASE NoteDrafted
      <4>1. run[worker.msg] = "started" /\ worker'.msg = worker.msg
        BY <3>1 DEF NoteDrafted, Goto, IInv, TypeOK, MessagesInHand, At, StartedSteps
      <4> QED
        BY <1>0, <2>1, <4>1 DEF ProposedOnce
    <3>2. CASE UNCHANGED worker
      BY <1>0, <2>1, <2>4, <3>2 DEF ProposedOnce, At
    <3> QED
      BY <2>4, <3>1, <3>2, ComesFrom
  <2>5. ASSUME At("listing")' PROVE proposals' # <<>>
    <3>1. At("listing")
      BY <1>2, <2>5, ComesFrom DEF At, AddOption
    <3>2. proposals # <<>>
      BY <1>0, <3>1 DEF ProposedOnce
    <3>3. 1 \in DOMAIN proposals
      BY <1>0, <3>2
    <3> QED
      BY <2>1, <3>3
  <2> QED
    BY <2>1, <2>2, <2>3, <2>4, <2>5 DEF ProposedOnce
<1> QED
  BY <1>1, <1>2
-----------------------------------------------------------------------------
(* The confirmation in hand *)

\* A proposal that lists a file goes on listing it.
LEMMA ProposedStays ==
    ASSUME IInv, [Next]_vars, NEW d, NEW r, Proposed(d, r)
    PROVE  Proposed(d, r)'
  BY ProposalsKept DEF Proposed

LEMMA ConfirmsStays ==
    ASSUME IInv, [Next]_vars, NEW m \in Messages, NEW d \in Messages, NEW r,
           text[m] # NoText, text[d] # NoText, Confirms(m, d, r)
    PROVE  Confirms(m, d, r)'
  BY TextStays DEF Confirms, ChatOf

\* What was proposed was ingested.
LEMMA ProposedIngested ==
    ASSUME IInv, NEW d \in Messages, NEW r, Proposed(d, r)
    PROVE  text[d] # NoText
  BY DEF Proposed, IInv, ProposedOnce, IngestedFirst

\* The message in hand, and the request it confirms, while one is.
LEMMA InHand ==
    ASSUME IInv, worker.step \in ConfirmSteps
    PROVE  /\ worker.msg \in Messages /\ text[worker.msg] # NoText
           /\ worker.source \in Messages /\ text[worker.source] # NoText
           /\ worker.resource \in Resources
           /\ Proposed(worker.source, worker.resource)
           /\ Confirms(worker.msg, worker.source, worker.resource)
<1>1. worker.msg \in Messages /\ text[worker.msg] # NoText
  BY DEF IInv, MessagesInHand, MessageSteps, UnstartedSteps
<1>2. /\ worker.source \in Messages /\ worker.resource \in Resources
      /\ Proposed(worker.source, worker.resource)
      /\ Confirms(worker.msg, worker.source, worker.resource)
  BY DEF IInv, ConfirmationInHand
<1> QED
  BY <1>1, <1>2, ProposedIngested

LEMMA ConfirmationStep == ASSUME IInv, [Next]_vars PROVE ConfirmationInHand'
<1>0. worker \in Workers /\ ConfirmationInHand
  BY TypeParts DEF IInv
<1> DEFINE Pending(d) == \E p \in DOMAIN proposals :
                             proposals[p].draft = d /\ proposals[p].state = "pending"
<1>1. ASSUME NEW m \in Messages, TakeConfirmation(m) PROVE ConfirmationInHand'
  <2>1. PICK r \in Resources :
          /\ Selected(m) = {r}
          /\ worker' = [worker EXCEPT !.step = "confirming", !.msg = m, !.batch = @ \ {m},
                         !.source = proposals[LatestPending(ChatOf(m))].draft,
                         !.resource = r]
    BY <1>1 DEF TakeConfirmation
  <2>2. run[m] = "none" /\ UNCHANGED <<text, proposals>>
    BY <1>1 DEF TakeConfirmation, Takes, IInv, MessagesInHand, messageVars
  <2>3. PICK p \in DOMAIN proposals :
             /\ p = LatestPending(ChatOf(m)) /\ proposals[p].state = "pending"
             /\ proposals[p].draft \in Messages
             /\ r \in OptionsOf(p)
             /\ Confirms(m, proposals[p].draft, r)
    BY <2>1, <2>2, SelectionConfirms
  <2>4. PICK d \in Messages : d = proposals[p].draft
    BY <2>3
  <2>5. /\ worker'.step = "confirming" /\ worker'.msg = m /\ worker'.source = d
        /\ worker'.resource = r
    BY <1>0, <2>1, <2>3, <2>4 DEF Workers
  <2>6. Proposed(d, r)' /\ Confirms(m, d, r)'
    BY <2>2, <2>3, <2>4 DEF Proposed, Confirms, OptionsOf, ChatOf
  <2>7. Pending(d)'
    BY <2>2, <2>3, <2>4
  <2> HIDE DEF Pending
  <2>8. Proposed(worker.source, worker.resource)'
        /\ Confirms(worker.msg, worker.source, worker.resource)'
    BY <2>5, <2>6 DEF Proposed, Confirms
  <2> USE DEF Pending
  <2> QED
    BY <2>5, <2>7, <2>8 DEF ConfirmationInHand, At
<1>2. ASSUME worker.step \in ConfirmSteps, worker'.msg = worker.msg,
             worker'.source = worker.source, worker'.resource = worker.resource
      PROVE  /\ worker'.source \in Messages /\ worker'.resource \in Resources
             /\ Proposed(worker.source, worker.resource)'
             /\ Confirms(worker.msg, worker.source, worker.resource)'
  <2>1. PICK m \in Messages, d \in Messages, r \in Resources :
          m = worker.msg /\ d = worker.source /\ r = worker.resource
    BY <1>2, InHand
  <2>2. Proposed(d, r)' /\ Confirms(m, d, r)'
    BY <1>2, <2>1, InHand, ProposedStays, ConfirmsStays
  <2> QED
    BY <1>2, <2>1, <2>2 DEF Proposed, Confirms
<1>3. ASSUME NEW d \in Messages, Pending(d), ~ResolveProposal PROVE Pending(d)'
  BY <1>3, ProposalsKept
<1>4. ASSUME NEW d \in Messages, NEW r \in Resources,
             worker.step \in ConfirmSteps, worker'.msg = worker.msg,
             worker'.source = worker.source, worker'.resource = worker.resource,
             d = worker.source, r = worker.resource,
             worker'.step \in {"confirming", "queueing"} => Pending(d)',
             worker'.step \in {"allowing", "resolving"} => FileQueued(d, r)'
      PROVE  ConfirmationInHand'
  <2>1. /\ worker'.source \in Messages /\ worker'.resource \in Resources
        /\ Proposed(worker.source, worker.resource)'
        /\ Confirms(worker.msg, worker.source, worker.resource)'
    BY <1>2, <1>4
  <2>2. At("confirming")' \/ At("queueing")' => Pending(worker.source)'
    BY <1>4 DEF At
  <2>3. At("allowing")' \/ At("resolving")' => FileQueued(worker.source, worker.resource)'
    BY <1>4 DEF At, FileQueued
  <2> QED
    BY <2>1, <2>2, <2>3 DEF ConfirmationInHand
<1>5. ASSUME worker.step \in ConfirmSteps, worker'.step \in ConfirmSteps,
             JudgeConfirmation \/ QueueFile \/ AllowDraft \/ UNCHANGED worker
      PROVE  ConfirmationInHand'
  <2>1. PICK d \in Messages, r \in Resources : d = worker.source /\ r = worker.resource
    BY <1>5, InHand
  <2>2. /\ worker'.msg = worker.msg /\ worker'.source = worker.source
        /\ worker'.resource = worker.resource
    BY <1>0, <1>5 DEF JudgeConfirmation, QueueFile, AllowDraft, Goto, Continue, Idle, Workers,
                      ConfirmSteps
  <2>3. CASE JudgeConfirmation
    <3>1. worker'.step = "queueing" /\ Pending(d) /\ ~ResolveProposal
      BY <1>0, <1>5, <2>1, <2>3 DEF JudgeConfirmation, Goto, Continue, Idle, Workers,
           ConfirmSteps, ConfirmationInHand, At, ResolveProposal
    <3> QED
      BY <1>3, <1>4, <1>5, <2>1, <2>2, <3>1
  <2>4. CASE QueueFile
    <3>1. worker'.step = "allowing" /\ FileQueued(d, r)'
      BY <1>0, <2>1, <2>4, FilesChange DEF QueueFile, Goto, Workers
    <3> QED
      BY <1>4, <1>5, <2>1, <2>2, <3>1
  <2>5. CASE AllowDraft
    <3>1. worker'.step = "resolving" /\ At("allowing")
      BY <1>0, <2>5 DEF AllowDraft, Goto, Workers
    <3>2. FileQueued(d, r)'
      BY <1>0, <2>1, <3>1, FilesChange DEF ConfirmationInHand
    <3> QED
      BY <1>4, <1>5, <2>1, <2>2, <3>1, <3>2
  <2>6. CASE UNCHANGED worker
    <3>1. worker'.step \in {"confirming", "queueing"} => Pending(d)'
      <4>1. ASSUME worker.step \in {"confirming", "queueing"} PROVE Pending(d) /\ ~ResolveProposal
        BY <1>0, <2>1, <4>1 DEF ConfirmationInHand, At, ResolveProposal
      <4> QED
        BY <1>3, <2>6, <4>1
    <3>2. worker'.step \in {"allowing", "resolving"} => FileQueued(d, r)'
      BY <1>0, <2>1, <2>6, FilesChange DEF ConfirmationInHand, At
    <3> QED
      BY <1>4, <1>5, <2>1, <2>2, <3>1, <3>2
  <2> QED
    BY <1>5, <2>3, <2>4, <2>5, <2>6
<1>6. CASE worker'.step \notin ConfirmSteps
  BY <1>6 DEF ConfirmationInHand, At, ConfirmSteps
<1>7. JudgeConfirmation \/ QueueFile \/ AllowDraft => worker.step \in ConfirmSteps
  BY DEF JudgeConfirmation, QueueFile, AllowDraft, At, ConfirmSteps
<1> QED
  BY <1>1, <1>5, <1>6, <1>7, ComesFrom
-----------------------------------------------------------------------------
(* Files and proposals *)

LEMMA FilesStep == ASSUME IInv, [Next]_vars PROVE FilesAreProposedAndConfirmed'
<1>1. ASSUME NEW d \in Messages, NEW r \in Resources, FileQueued(d, r)'
      PROVE  /\ Proposed(d, r)' /\ confirmedBy'[d][r] # {}
             /\ \A m \in confirmedBy'[d][r] : Confirms(m, d, r)'
  <2>1. ASSUME FileQueued(d, r)
        PROVE  /\ Proposed(d, r) /\ confirmedBy[d][r] # {}
               /\ \A m \in confirmedBy[d][r] : Confirms(m, d, r)
    BY <2>1 DEF IInv, FilesAreProposedAndConfirmed, Proposed, Confirms
  <2>2. ASSUME QueueFile, d = worker.source, r = worker.resource
        PROVE  Proposed(d, r) /\ worker.msg \in Messages /\ text[worker.msg] # NoText
               /\ Confirms(worker.msg, d, r)
    BY <2>2, InHand DEF QueueFile, At, ConfirmSteps
  <2>3. Proposed(d, r)
    BY <1>1, <2>1, <2>2, FilesChange
  <2>4. confirmedBy'[d][r] # {}
    <3>1. CASE FileQueued(d, r)
      BY <2>1, <3>1, ConfirmationsChange
    <3>2. CASE ~FileQueued(d, r)
      BY <1>1, <3>2, FilesChange, ConfirmationsChange
    <3> QED
      BY <3>1, <3>2
  <2>5. ASSUME NEW m \in confirmedBy'[d][r] PROVE Confirms(m, d, r)'
    <3>1. text[d] # NoText
      BY <2>3, ProposedIngested
    <3>2. m \in Messages /\ text[m] # NoText /\ Confirms(m, d, r)
      <4>1. CASE m \in confirmedBy[d][r]
        <5>1. m \in Messages /\ text[m] # NoText /\ FileQueued(d, r)
          BY <4>1 DEF IInv, TypeOK, IngestedFirst
        <5> QED
          BY <2>1, <4>1, <5>1
      <4>2. CASE QueueFile /\ d = worker.source /\ r = worker.resource /\ m = worker.msg
        BY <2>2, <4>2
      <4> QED
        BY <4>1, <4>2, <2>5, ConfirmationsChange
    <3> QED
      BY <3>1, <3>2, ConfirmsStays
  <2> QED
    BY <2>3, <2>4, <2>5, ProposedStays
<1> QED
  BY <1>1 DEF FilesAreProposedAndConfirmed, Proposed, Confirms

\* A resolved proposal's file is queued.
Delivered(p) == \E r \in OptionsOf(p) : FileQueued(proposals[p].draft, r)

LEMMA ResolvedStep ==
    ASSUME IInv, [Next]_vars
    PROVE  \A p \in DOMAIN proposals' : proposals'[p].state = "resolved" => Delivered(p)'
<1>0. /\ \A p \in DOMAIN proposals :
              proposals[p].draft \in Messages /\ OptionsOf(p) \subseteq Resources
      /\ \A p \in DOMAIN proposals : proposals[p].state = "resolved" => Delivered(p)
  <2>1. \A p \in DOMAIN proposals : proposals[p].draft \in Messages
                                    /\ proposals[p].options \in Seq(Resources)
    BY ProposalParts DEF IInv
  <2> QED
    BY <2>1 DEF IInv, ResolvedHasItsFile, Delivered, OptionsOf, Range
<1>1. ASSUME NEW p \in DOMAIN proposals, Delivered(p) PROVE Delivered(p)'
  <2>1. PICK r \in OptionsOf(p) : FileQueued(proposals[p].draft, r)
    BY <1>1 DEF Delivered
  <2>2. PICK d \in Messages : d = proposals[p].draft
    BY <1>0
  <2>3. FileQueued(d, r)'
    BY <1>0, <2>1, <2>2, FilesChange
  <2>4. r \in OptionsOf(p)' /\ proposals'[p].draft = d
    BY <2>1, <2>2, ProposalsKept
  <2> QED
    BY <2>3, <2>4 DEF Delivered, FileQueued
<1>2. ASSUME NEW p \in DOMAIN proposals, ResolveProposal, proposals[p].draft = worker.source
      PROVE  Delivered(p)
  <2>1. Proposed(worker.source, worker.resource) /\ FileQueued(worker.source, worker.resource)
    BY <1>2 DEF ResolveProposal, IInv, ConfirmationInHand, At, ConfirmSteps
  <2>2. worker.resource \in OptionsOf(p)
    BY <1>2, <2>1 DEF Proposed, IInv, ProposedOnce
  <2> QED
    BY <1>2, <2>1, <2>2 DEF Delivered
<1> QED
  BY <1>0, <1>1, <1>2, ProposalsKept
-----------------------------------------------------------------------------
(* Texts that are queued *)

LEMMA DraftStays ==
    ASSUME IInv, [Next]_vars, NEW m \in Messages, draft[m] # "none"
    PROVE  draft'[m] # "none"
<1> USE DEF messageVars, jobVars, worldVars
<1>0. draft \in [Messages -> DraftStates]
  BY DEF IInv, TypeOK
<1>1. ASSUME NEW d, NEW j, j # "none", draft' = [draft EXCEPT ![d] = j] PROVE draft'[m] # "none"
  BY <1>0, <1>1
<1>2. CASE AllowDraft \/ CreateReply
  BY <1>1, <1>2 DEF AllowDraft, CreateReply
<1>3. CASE CreatePrompt
  <2>1. \E j \in {"candidate", "confirm_resource"} : draft' = [draft EXCEPT ![worker.msg] = j]
    BY <1>3 DEF CreatePrompt
  <2> QED
    BY <1>1, <2>1
<1>4. ASSUME NEW d \in Messages, DispatchText(d) \/ \E r \in Resources : DispatchFile(d, r)
      PROVE  draft'[m] # "none"
  <2>1. UNCHANGED draft \/ draft' = [draft EXCEPT ![d] = "sent"]
    BY <1>4 DEF DispatchText, DispatchFile
  <2> QED
    BY <1>1, <2>1
<1>5. ASSUME NEW d \in Messages, DenyDraft(d) PROVE draft'[m] # "none"
  BY <1>1, <1>5 DEF DenyDraft
<1>6. CASE UNCHANGED draft
  BY <1>6
<1>7. ASSUME StartCycle
             \/ \E d \in Messages : TakeOrdinary(d) \/ TakeAmbiguous(d) \/ TakeConfirmation(d)
      PROVE  UNCHANGED draft
  BY <1>7 DEF StartCycle, TakeOrdinary, TakeAmbiguous, TakeConfirmation
<1>8. ASSUME JudgeConfirmation \/ QueueFile \/ ResolveProposal \/ Consume \/ CloseRun
      PROVE  UNCHANGED draft
  BY <1>8 DEF JudgeConfirmation, QueueFile, ResolveProposal, Consume, CloseRun
<1>9. ASSUME StartSearch \/ NoteDrafted \/ CreateProposal \/ AddOption PROVE UNCHANGED draft
  BY <1>9 DEF StartSearch, NoteDrafted, CreateProposal, AddOption
<1>10. ASSUME ReadMessage \/ StartReply \/ FinishReply \/ AuditReply PROVE UNCHANGED draft
  BY <1>10 DEF ReadMessage, StartReply, FinishReply, AuditReply
<1>11. ASSUME GenerationFails \/ FailRun \/ JudgeText \/ QueueText \/ StartDispatch \/ EndCycle
       PROVE  UNCHANGED draft
  BY <1>11 DEF GenerationFails, FailRun, JudgeText, QueueText, StartDispatch, EndCycle
<1>12. ASSUME Interrupt \/ (\E d \in Messages : Ingest(d) \/ GrowOld(d)) \/ UNCHANGED vars
       PROVE  UNCHANGED draft
  BY <1>12 DEF Interrupt, Ingest, GrowOld, vars
<1>13. ASSUME NEW a, NEW b, SwitchConversations(a, b) \/ ContextChanges(a, b) PROVE UNCHANGED draft
  BY <1>13 DEF SwitchConversations, ContextChanges
<1> QED
  BY <1>2, <1>3, <1>4, <1>5, <1>6, <1>7, <1>8, <1>9, <1>10, <1>11, <1>12, <1>13
     DEF Next, Cycle, Environment

\* Only QueueText queues a text, that of the message in hand.
LEMMA TextJobChange ==
    ASSUME IInv, [Next]_vars, NEW m \in Messages, textJob[m] = "absent", textJob'[m] # "absent"
    PROVE  QueueText /\ m = worker.msg
<1>0. textJob \in [Messages -> JobStates]
  BY DEF IInv, TypeOK
<1>1. ASSUME NEW d \in Messages, NEW j, textJob[d] = "queued", textJob' = [textJob EXCEPT ![d] = j]
      PROVE  FALSE
  BY <1>0, <1>1
<1>2. ASSUME NEW d \in Messages, DispatchText(d) PROVE FALSE
  BY <1>1, <1>2 DEF DispatchText
<1>3. CASE Interrupt
  <2>1. \/ UNCHANGED textJob
        \/ \E d \in Messages :
              textJob[d] = "queued" /\ textJob' = [textJob EXCEPT ![d] = "sending"]
    BY <1>3 DEF Interrupt
  <2> QED
    BY <1>1, <2>1
<1>4. CASE QueueText
  BY <1>0, <1>4 DEF QueueText
<1> QED
  BY <1>2, <1>3, <1>4, WhatChanges

LEMMA TextStep == ASSUME IInv, [Next]_vars PROVE QueuedTextIsFinished'
<1> SUFFICES ASSUME NEW m \in Messages, textJob'[m] # "absent"
             PROVE  run'[m] = "drafted" /\ draft'[m] # "none"
  BY DEF QueuedTextIsFinished
<1>1. CASE textJob[m] # "absent"
  <2>1. run[m] = "drafted" /\ draft[m] # "none"
    BY <1>1 DEF IInv, QueuedTextIsFinished
  <2>2. run'[m] = run[m]
    <3>1. FailRun => textJob[worker.msg] = "absent"
      BY DEF FailRun, IInv, MessagesInHand, At
    <3> QED
      BY <1>1, <2>1, <3>1, RunChanges
  <2> QED
    BY <2>1, <2>2, DraftStays
<1>2. CASE textJob[m] = "absent"
  <2>1. QueueText /\ m = worker.msg
    BY <1>2, TextJobChange
  <2>2. run[m] = "drafted" /\ draft[m] # "none" /\ UNCHANGED run
    BY <2>1 DEF QueueText, IInv, MessagesInHand, At, DraftedSteps
  <2> QED
    BY <2>2, DraftStays
<1> QED
  BY <1>1, <1>2
-----------------------------------------------------------------------------
(* Without interruptions *)

AfterQueueing == {"allowing", "resolving", "consuming", "closing"}

\* A confirmation whose file was queued is carried through.
LEMMA CarriedThrough ==
    ASSUME IInv, [Next]_vars, ~Interrupt, worker.step \in AfterQueueing
    PROVE  /\ UNCHANGED worker \/ AllowDraft \/ ResolveProposal \/ Consume \/ CloseRun
           /\ AllowDraft => worker'.step = "resolving"
           /\ CloseRun \/ worker'.step \in AfterQueueing
           /\ CloseRun \/ (worker'.msg = worker.msg /\ worker'.source = worker.source)
<1> USE DEF At, AfterQueueing
<1>0. worker \in Workers
  BY TypeParts DEF IInv
<1>1. UNCHANGED worker \/ AllowDraft \/ ResolveProposal \/ Consume \/ CloseRun
  <2>1. ~StartCycle /\ ~StartDispatch
        /\ \A m \in Messages : ~TakeOrdinary(m) /\ ~TakeAmbiguous(m) /\ ~TakeConfirmation(m)
    BY DEF StartCycle, StartDispatch, TakeOrdinary, TakeAmbiguous, TakeConfirmation, Takes
  <2>2. ~JudgeConfirmation /\ ~QueueFile /\ ~StartSearch /\ ~CreatePrompt /\ ~NoteDrafted
    BY DEF JudgeConfirmation, QueueFile, StartSearch, CreatePrompt, NoteDrafted
  <2>3. ~CreateProposal /\ ~AddOption /\ ~ReadMessage /\ ~StartReply /\ ~CreateReply
    BY DEF CreateProposal, AddOption, ReadMessage, StartReply, CreateReply
  <2>4. ~FinishReply /\ ~AuditReply /\ ~GenerationFails /\ ~FailRun
    BY DEF FinishReply, AuditReply, GenerationFails, FailRun
  <2>5. ~JudgeText /\ ~QueueText /\ ~EndCycle
    BY DEF JudgeText, QueueText, EndCycle
  <2>6. \A m \in Messages : DispatchText(m) \/ (\E r \in Resources : DispatchFile(m, r)) => FALSE
    BY DEF DispatchText, DispatchFile
  <2>7. Environment \/ UNCHANGED vars => UNCHANGED worker
    BY DEF Environment, Ingest, GrowOld, SwitchConversations, ContextChanges, DenyDraft, vars
  <2> QED
    BY <2>1, <2>2, <2>3, <2>4, <2>5, <2>6, <2>7 DEF Next, Cycle
<1>2. AllowDraft \/ ResolveProposal \/ Consume =>
        \E t \in {"resolving", "consuming", "closing"} : worker' = [worker EXCEPT !.step = t]
  BY DEF AllowDraft, ResolveProposal, Consume, Goto
<1>3. AllowDraft => worker'.step = "resolving"
  BY <1>0 DEF AllowDraft, Goto, Workers
<1>4. ASSUME NEW t \in {"resolving", "consuming", "closing"}, worker' = [worker EXCEPT !.step = t]
      PROVE  /\ worker'.step \in AfterQueueing
             /\ worker'.msg = worker.msg /\ worker'.source = worker.source
  BY <1>0, <1>4 DEF Workers
<1> QED
  BY <1>1, <1>2, <1>3, <1>4

LEMMA UninterruptedStep == ASSUME IInv, [Next]_vars PROVE Uninterrupted'
<1> SUFFICES ASSUME interrupts' = 0 PROVE Uninterrupted'
  BY DEF Uninterrupted
<1>0. interrupts = 0 /\ ~Interrupt
  <2>1. interrupts \in Nat
    BY DEF IInv, TypeOK
  <2> QED
    BY <2>1, WhatChanges DEF Interrupt
<1> DEFINE AtOnce(d) == worker.step \in {"allowing", "resolving"} /\ d = worker.source
           InTurn(m) == worker.step \in AfterQueueing /\ m = worker.msg
<1>1. /\ \A p \in DOMAIN proposals, r \in Resources :
             proposals[p].state = "pending" /\ FileQueued(proposals[p].draft, r) =>
                 AtOnce(proposals[p].draft)
      /\ \A d \in Messages, r \in Resources : \A m \in confirmedBy[d][r] :
             run[m] # "blocked" => InTurn(m)
      /\ \A d, e \in Messages, r, s \in Resources :
             confirmedBy[d][r] \cap confirmedBy[e][s] # {} => d = e /\ r = s
      /\ \A d \in Messages, r, s \in Resources : FileQueued(d, r) /\ FileQueued(d, s) => r = s
  BY <1>0 DEF IInv, Uninterrupted, AfterQueueing
<1>2. QueueFile => /\ worker'.step = "allowing" /\ worker'.source = worker.source
                   /\ worker'.msg = worker.msg /\ worker.step = "queueing"
  <2>1. worker \in Workers
    BY TypeParts DEF IInv
  <2> QED
    BY <2>1 DEF QueueFile, Goto, At, Workers
<1>3. ASSUME NEW p \in DOMAIN proposals', NEW r \in Resources, proposals'[p].state = "pending",
             FileQueued(proposals[p].draft, r)'
      PROVE  AtOnce(proposals[p].draft)'
  <2>1. p \in DOMAIN proposals
    <3> SUFFICES ASSUME p \notin DOMAIN proposals PROVE FALSE
      OBVIOUS
    <3>1. CreateProposal /\ proposals'[p].draft = worker.msg
      BY ProposalsKept
    <3>2. PICK d \in Messages : d = worker.msg
      BY <3>1 DEF CreateProposal, IInv, MessagesInHand, At, MessageSteps, DraftedSteps
    <3>3. FileQueued(d, r)' /\ ~QueueFile
      BY <1>3, <3>1, <3>2 DEF FileQueued, CreateProposal, QueueFile, At
    <3>4. Proposed(d, r)
      BY <3>3, FilesChange DEF IInv, FilesAreProposedAndConfirmed, Proposed
    <3> QED
      BY <3>1, <3>2, <3>4 DEF Proposed, CreateProposal, IInv, ProposedOnce
  <2>2. /\ proposals'[p].draft = proposals[p].draft /\ proposals[p].state = "pending"
        /\ ~(ResolveProposal /\ proposals[p].draft = worker.source)
    BY <1>3, <2>1, ProposalsKept
  <2>3. PICK d \in Messages : d = proposals[p].draft
    BY <2>1, ProposalParts DEF IInv
  <2>4. FileQueued(d, r)'
    BY <1>3, <2>2, <2>3 DEF FileQueued
  <2>5. AtOnce(d)'
    <3>1. CASE FileQueued(d, r)
      <4>1. AtOnce(d)
        BY <1>1, <2>1, <2>2, <2>3, <3>1
      <4>2. ~ResolveProposal /\ ~Consume /\ ~CloseRun
        BY <2>2, <2>3, <4>1 DEF Consume, CloseRun, At
      <4> QED
        BY <1>0, <4>1, <4>2, CarriedThrough DEF AfterQueueing
    <3>2. CASE ~FileQueued(d, r)
      BY <1>2, <2>4, <3>2, FilesChange
    <3> QED
      BY <3>1, <3>2
  <2> QED
    BY <2>2, <2>3, <2>5
<1>4. ASSUME NEW d \in Messages, NEW r \in Resources, NEW m \in confirmedBy'[d][r],
             run'[m] # "blocked"
      PROVE  InTurn(m)'
  <2>1. CASE m \in confirmedBy[d][r]
    <3>1. m \in Messages
      BY <2>1 DEF IInv, TypeOK
    <3>2. InTurn(m)
      BY <1>1, <1>4, <2>1, <3>1, RunChanges
    <3>3. ~CloseRun
      BY <1>4, <3>1, <3>2 DEF CloseRun, IInv, TypeOK
    <3> QED
      BY <1>0, <3>2, <3>3, CarriedThrough
  <2>2. CASE QueueFile /\ m = worker.msg
    BY <1>2, <2>2 DEF AfterQueueing
  <2> QED
    BY <2>1, <2>2, ConfirmationsChange
<1>5. ASSUME NEW d \in Messages, NEW e \in Messages, NEW r \in Resources, NEW s \in Resources,
             NEW m \in confirmedBy'[d][r], m \in confirmedBy'[e][s]
      PROVE  d = e /\ r = s
  <2>1. ASSUME QueueFile, NEW c \in Messages, NEW q \in Resources
        PROVE  worker.msg \notin confirmedBy[c][q]
    <3>1. run[worker.msg] = "none"
      BY <2>1 DEF QueueFile, IInv, MessagesInHand, At, UnstartedSteps, ConfirmSteps
    <3> QED
      BY <1>1, <1>2, <2>1, <3>1 DEF AfterQueueing
  <2>2. CASE m \in confirmedBy[d][r] /\ m \in confirmedBy[e][s]
    BY <1>1, <2>2
  <2> QED
    BY <1>5, <2>1, <2>2, ConfirmationsChange
<1>6. ASSUME NEW d \in Messages, NEW r \in Resources, NEW s \in Resources,
             FileQueued(d, r)', FileQueued(d, s)'
      PROVE  r = s
  <2>1. ASSUME QueueFile, d = worker.source, NEW q \in Resources PROVE ~FileQueued(d, q)
    <3>1. PICK p \in DOMAIN proposals : proposals[p].draft = d /\ proposals[p].state = "pending"
      BY <1>2, <2>1 DEF IInv, ConfirmationInHand, At
    <3> QED
      BY <1>1, <1>2, <2>1, <3>1
  <2>2. CASE FileQueued(d, r) /\ FileQueued(d, s)
    BY <1>1, <2>2
  <2> QED
    BY <1>6, <2>1, <2>2, FilesChange
<1> HIDE DEF AtOnce, InTurn
<1>7. \A p \in DOMAIN proposals', r \in Resources :
          proposals'[p].state = "pending" /\ FileQueued(proposals[p].draft, r)' =>
              AtOnce(proposals[p].draft)'
  BY <1>3
<1>8. \A d \in Messages, r \in Resources : \A m \in confirmedBy'[d][r] :
          run'[m] # "blocked" => InTurn(m)'
  BY <1>4
<1>9. \A d, e \in Messages, r, s \in Resources :
          confirmedBy'[d][r] \cap confirmedBy'[e][s] # {} => d = e /\ r = s
  BY <1>5
<1>10. \A d \in Messages, r, s \in Resources : FileQueued(d, r)' /\ FileQueued(d, s)' => r = s
  BY <1>6
<1> QED
  BY <1>7, <1>8, <1>9, <1>10 DEF Uninterrupted, AtOnce, InTurn, AfterQueueing
-----------------------------------------------------------------------------
(* The theorems *)

LEMMA StepPreserves == ASSUME IInv, [Next]_vars PROVE IInv'
<1>1. TypeOK'
  <2>1. Tables' /\ worker' \in Workers
    BY TablesStep, WorkerStep
  <2>2. Tables' /\ (worker \in Workers)' => TypeOK'
    BY DEF TypeOK, Tables, Workers
  <2> QED
    BY <2>1, <2>2 DEF Workers
<1>2. ResolvedHasItsFile'
  BY <1>1, ResolvedStep DEF ResolvedHasItsFile, Delivered
<1> QED
  BY <1>1, <1>2, HandStep, IngestedStep, ProposedStep, ConfirmationStep, FilesStep, TextStep,
     UninterruptedStep DEF IInv

\* What the cycle knows and has done is consistent in every reachable state.
THEOREM Invariance == Spec => []IInv
<1>1. IInv /\ UNCHANGED vars => IInv'
  BY StepPreserves
<1> QED
  BY InitEstablishes, StepPreserves, <1>1, PTL DEF Spec

\* The tables and the cycle hold what their columns and variables admit.
THEOREM AutomationTyped == Spec => []TypeOK
<1>1. IInv => TypeOK
  BY DEF IInv
<1> QED
  BY Invariance, <1>1, PTL

\* queuePolicyPermittedTextDraft queues a text only for a run that drafted it.
THEOREM TextsFinished == Spec => []QueuedTextIsFinished
<1>1. IInv => QueuedTextIsFinished
  BY DEF IInv
<1> QED
  BY Invariance, <1>1, PTL

\* confirmResourceProposal queues a file only if it was offered to, and confirmed
\* in, the conversation of its request.
THEOREM FilesConfirmed == Spec => []FilesAreProposedAndConfirmed
<1>1. IInv => FilesAreProposedAndConfirmed
  BY DEF IInv
<1> QED
  BY Invariance, <1>1, PTL

\* handlePendingResourceConfirmation resolves a proposal only after it queued one
\* of its files.
THEOREM ResolvedDelivered == Spec => []ResolvedHasItsFile
<1>1. IInv => ResolvedHasItsFile
  BY DEF IInv
<1> QED
  BY Invariance, <1>1, PTL

\* No cycle starts a run again, or changes how it ended but for an audit entry
\* that failed.
THEOREM RunsEnd == Spec => RunsEndOnce
<1>1. ASSUME IInv, [Next]_vars
      PROVE  [\A m \in Messages : run[m] \in Ended => run'[m] \in {run[m], "failed"}]_vars
  BY <1>1, RunChanges DEF Ended
<1> QED
  BY Invariance, <1>1, PTL DEF Spec, RunsEndOnce

LEMMA AtMostOne ==
    ASSUME NEW S, \A x, y \in S : x = y
    PROVE  Cardinality(S) <= 1
<1>1. CASE S = {}
  BY <1>1, FS_EmptySet
<1>2. CASE S # {}
  <2>1. PICK x \in S : S = {x}
    BY <1>2
  <2> QED
    BY <2>1, FS_Singleton
<1> QED
  BY <1>1, <1>2

\* Without an interruption no message is answered both by a text and a file, or
\* by two files.
THEOREM OneAnswer == Spec => []OneAnswerPerMessage
<1>1. ASSUME IInv, interrupts = 0, NEW m \in Messages PROVE Cardinality(Answers(m)) <= 1
  <2>1. ASSUME NEW d \in Messages, NEW r \in Resources, m \in confirmedBy[d][r]
        PROVE  textJob[m] = "absent"
    <3>1. run[m] # "drafted"
      <4>1. CASE run[m] # "blocked"
        <5>1. m = worker.msg /\ worker.step \in AfterQueueing
          BY <1>1, <2>1, <4>1 DEF IInv, Uninterrupted, AfterQueueing
        <5> QED
          BY <1>1, <5>1 DEF IInv, MessagesInHand, AfterQueueing, UnstartedSteps, StartedSteps,
                            ConfirmSteps
      <4> QED
        BY <4>1
    <3> QED
      BY <1>1, <3>1 DEF IInv, QueuedTextIsFinished
  <2>2. ASSUME NEW x \in Answers(m), NEW y \in Answers(m) PROVE x = y
    <3> DEFINE Reply(z) == z = <<m, NoResource>> /\ textJob[m] # "absent"
               File(z) == z \in Messages \X Resources /\ m \in confirmedBy[z[1]][z[2]]
    <3>1. (Reply(x) \/ File(x)) /\ (Reply(y) \/ File(y))
      BY DEF Answers
    <3>2. ~(Reply(x) /\ File(y)) /\ ~(File(x) /\ Reply(y))
      BY <2>1
    <3>3. ASSUME File(x), File(y) PROVE x = y
      <4>1. PICK d \in Messages, r \in Resources : x = <<d, r>> /\ m \in confirmedBy[d][r]
        BY <3>3
      <4>2. PICK e \in Messages, s \in Resources : y = <<e, s>> /\ m \in confirmedBy[e][s]
        BY <3>3
      <4>3. confirmedBy[d][r] \cap confirmedBy[e][s] # {}
        BY <4>1, <4>2
      <4>4. d = e /\ r = s
        BY <1>1, <4>3 DEF IInv, Uninterrupted
      <4> QED
        BY <4>1, <4>2, <4>4
    <3> QED
      BY <3>1, <3>2, <3>3
  <2> QED
    BY <2>2, AtMostOne
<1>2. IInv => OneAnswerPerMessage
  BY <1>1 DEF OneAnswerPerMessage
<1> QED
  BY Invariance, <1>2, PTL

\* Without an interruption one proposal leads to at most one file.
THEOREM OneFile == Spec => []OneFilePerProposal
<1>1. ASSUME IInv, interrupts = 0, NEW d \in Messages
      PROVE  Cardinality({r \in Resources : FileQueued(d, r)}) <= 1
  <2> DEFINE files == {r \in Resources : FileQueued(d, r)}
  <2>1. \A r, s \in files : r = s
    BY <1>1 DEF IInv, Uninterrupted
  <2> HIDE DEF files
  <2>2. Cardinality(files) <= 1
    BY <2>1, AtMostOne
  <2> QED
    BY <2>2 DEF files
<1>2. IInv => OneFilePerProposal
  BY <1>1 DEF OneFilePerProposal
<1> QED
  BY Invariance, <1>2, PTL
-----------------------------------------------------------------------------
(* What the cycle knows of the draft in hand *)

DraftInHand ==
    /\ worker.step \in DraftedSteps =>
         /\ textJob[worker.msg] = "absent"
         /\ \A r \in Resources : ~FileQueued(worker.msg, r)
    /\ At("auditing") \/ At("failing") => ProposalsOf(worker.msg) = {}
    /\ At("listing") => proposals[Len(proposals)].draft = worker.msg
    /\ At("proposing") \/ At("listing") => worker.offer # {}
    /\ At("judging") \/ At("posting") =>
         \A p \in ProposalsOf(worker.msg) : OptionsOf(p) # {}

\* A message whose run has not drafted anything has no text, proposal or file.
LEMMA NothingDrafted ==
    ASSUME IInv, NEW m \in Messages, run[m] \notin {"drafted", "failed"}
    PROVE  /\ textJob[m] = "absent" /\ ProposalsOf(m) = {}
           /\ \A r \in Resources : ~FileQueued(m, r)
<1>1. ProposalsOf(m) = {}
  BY DEF ProposalsOf, IInv, ProposedOnce
<1>2. \A r \in Resources : ~FileQueued(m, r)
  BY <1>1 DEF ProposalsOf, IInv, FilesAreProposedAndConfirmed
<1> QED
  BY <1>1, <1>2 DEF IInv, QueuedTextIsFinished

\* Where the cycle can come from when it has a draft in hand.
LEMMA DraftComesFrom ==
    ASSUME IInv, [Next]_vars, worker'.step \in DraftedSteps \cup {"failing"}
    PROVE  \/ NoteDrafted \/ CreateProposal \/ AddOption \/ JudgeText
           \/ FinishReply \/ AuditReply \/ GenerationFails
           \/ UNCHANGED <<worker, proposals, textJob, fileJob>>
<1> USE DEF IInv, TypeOK, At, DraftedSteps, messageVars, jobVars, worldVars
<1>1. CASE StartCycle
  BY <1>1 DEF StartCycle, Idle
<1>2. ASSUME NEW m \in Messages, TakeOrdinary(m) \/ TakeAmbiguous(m)
      PROVE  worker'.step \in {"asking", "replying", "consuming"}
  BY <1>2 DEF TakeOrdinary, TakeAmbiguous, Take
<1>3. CASE JudgeConfirmation \/ QueueFile \/ AllowDraft \/ ResolveProposal
  BY <1>3 DEF JudgeConfirmation, QueueFile, AllowDraft, ResolveProposal, Goto
<1>4. ASSUME NEW m \in Messages, TakeConfirmation(m) PROVE worker'.step = "confirming"
  BY <1>4 DEF TakeConfirmation
<1>5. CASE Consume \/ CloseRun
  BY <1>5 DEF Consume, CloseRun, Goto, Continue, Idle
<1>6. CASE StartSearch
  BY <1>6 DEF StartSearch, Goto
<1>7. CASE CreatePrompt
  BY <1>7 DEF CreatePrompt
<1>8. CASE ReadMessage
  BY <1>8 DEF ReadMessage
<1>9. CASE StartReply
  BY <1>9 DEF StartReply, Goto
<1>10. CASE CreateReply
  BY <1>10 DEF CreateReply, Goto
<1>11. CASE FailRun \/ QueueText
  BY <1>11 DEF FailRun, QueueText, Continue, Idle
<1>12. CASE StartDispatch \/ EndCycle \/ Interrupt
  BY <1>12 DEF StartDispatch, EndCycle, Interrupt, Goto, Idle
<1>13. ASSUME NEW m \in Messages, DispatchText(m) \/ \E r \in Resources : DispatchFile(m, r)
       PROVE  worker'.step = "dispatching"
  BY <1>13 DEF DispatchText, DispatchFile
<1>14. ASSUME NEW m \in Messages, Ingest(m) \/ GrowOld(m) \/ DenyDraft(m)
       PROVE  UNCHANGED <<worker, proposals, textJob, fileJob>>
  BY <1>14 DEF Ingest, GrowOld, DenyDraft
<1>15. ASSUME NEW a, NEW b, SwitchConversations(a, b) \/ ContextChanges(a, b)
       PROVE  UNCHANGED <<worker, proposals, textJob, fileJob>>
  BY <1>15 DEF SwitchConversations, ContextChanges
<1>16. CASE UNCHANGED vars
  BY <1>16 DEF vars
<1> QED
  BY <1>1, <1>2, <1>3, <1>4, <1>5, <1>6, <1>7, <1>8, <1>9, <1>10, <1>11, <1>12, <1>13, <1>14,
     <1>15, <1>16 DEF Next, Cycle, Environment

\* The options of a proposal are those that were listed before, and the new one.
LEMMA OptionAdded ==
    ASSUME IInv, [Next]_vars, AddOption
    PROVE  \E last \in DOMAIN proposals, r \in worker.offer :
             /\ last = Len(proposals) /\ DOMAIN proposals' = DOMAIN proposals
             /\ \A p \in DOMAIN proposals :
                  /\ proposals'[p].draft = proposals[p].draft
                  /\ proposals'[p].state = proposals[p].state
                  /\ p # last => OptionsOf(p)' = OptionsOf(p)
             /\ OptionsOf(last)' = OptionsOf(last) \cup {r}
             /\ worker' = [worker EXCEPT !.offer = @ \ {r},
                             !.step = IF worker.offer = {r} THEN "judging" ELSE "listing"]
<1>0. /\ proposals \in Seq(Proposals) /\ Len(proposals) \in Nat
      /\ DOMAIN proposals = 1..Len(proposals)
      /\ \A p \in DOMAIN proposals : proposals[p] \in Proposals
  BY ElementOfSeq DEF IInv, TypeOK
<1>1. Len(proposals) \in DOMAIN proposals
  BY <1>0 DEF AddOption, IInv, ProposedOnce
<1>2. PICK last \in DOMAIN proposals : last = Len(proposals)
  BY <1>1
<1>3. PICK r \in worker.offer :
        /\ proposals' = [proposals EXCEPT ![last].options = Append(@, r)]
        /\ worker' = [worker EXCEPT !.offer = @ \ {r},
                        !.step = IF worker.offer = {r} THEN "judging" ELSE "listing"]
  BY <1>2 DEF AddOption
<1>4. proposals[last].options \in Seq(Resources) /\ r \in Resources
  BY <1>0 DEF Proposals, IInv, TypeOK
<1>5. /\ DOMAIN proposals' = DOMAIN proposals
      /\ \A p \in DOMAIN proposals :
           /\ proposals'[p].draft = proposals[p].draft
           /\ proposals'[p].state = proposals[p].state
           /\ p # last => proposals'[p].options = proposals[p].options
      /\ proposals'[last].options = Append(proposals[last].options, r)
  BY <1>0, <1>3 DEF Proposals
<1>6. OptionsOf(last)' = OptionsOf(last) \cup {r}
  <2> DEFINE before == proposals[last].options
             after == proposals'[last].options
  <2>1. before \in Seq(Resources) /\ after = Append(before, r)
    BY <1>4, <1>5
  <2>2. OptionsOf(last) = Range(before) /\ OptionsOf(last)' = Range(after)
    BY DEF OptionsOf
  <2> HIDE DEF before, after
  <2>3. /\ Len(before) \in Nat
        /\ DOMAIN before = 1..Len(before) /\ DOMAIN after = 1..(Len(before) + 1)
        /\ \A i \in DOMAIN before : after[i] = before[i]
        /\ after[Len(before) + 1] = r
    BY <1>4, <2>1
  <2>4. DOMAIN after = DOMAIN before \cup {Len(before) + 1}
    BY <2>3
  <2> QED
    BY <2>2, <2>3, <2>4 DEF Range
<1>7. \A p \in DOMAIN proposals : p # last => OptionsOf(p)' = OptionsOf(p)
  BY <1>5 DEF OptionsOf
<1> QED
  BY <1>1, <1>2, <1>3, <1>5, <1>6, <1>7

LEMMA DraftStep == ASSUME IInv, DraftInHand, [Next]_vars PROVE DraftInHand'
<1> USE DEF DraftInHand, At, DraftedSteps, messageVars, jobVars, worldVars
<1>0. worker \in Workers /\ MessagesInHand
  BY TypeParts DEF IInv
<1>1. CASE worker'.step \notin DraftedSteps \cup {"failing"}
  BY <1>1
<1>2. CASE NoteDrafted
  <2>1. worker.msg \in Messages /\ run[worker.msg] = "started" /\ worker'.msg = worker.msg
    BY <1>0, <1>2 DEF NoteDrafted, Goto, Workers, MessagesInHand, MessageSteps, StartedSteps
  <2>2. /\ textJob[worker.msg] = "absent" /\ ProposalsOf(worker.msg) = {}
        /\ \A r \in Resources : ~FileQueued(worker.msg, r)
    BY <2>1, NothingDrafted
  <2>3. /\ UNCHANGED <<textJob, fileJob, proposals>> /\ worker'.offer = worker.offer
        /\ worker'.step = IF worker.offer = {} THEN "judging" ELSE "proposing"
    BY <1>0, <1>2 DEF NoteDrafted, Goto, Workers
  <2>4. ProposalsOf(worker.msg)' = {}
    BY <2>1, <2>2, <2>3 DEF ProposalsOf
  <2> QED
    BY <2>1, <2>2, <2>3, <2>4 DEF FileQueued
<1>3. CASE FinishReply \/ AuditReply \/ GenerationFails
  <2>1. /\ worker.msg \in Messages /\ worker'.msg = worker.msg
        /\ At("generating") \/ At("finishing") => run[worker.msg] = "started"
        /\ worker'.step \in {"auditing", "judging", "failing"}
        /\ UNCHANGED <<textJob, fileJob, proposals>>
        /\ worker.step \in {"generating", "finishing", "auditing"}
    BY <1>0, <1>3 DEF FinishReply, AuditReply, GenerationFails, Goto, Workers, MessagesInHand,
                      MessageSteps, StartedSteps
  <2>2. /\ textJob[worker.msg] = "absent" /\ ProposalsOf(worker.msg) = {}
        /\ \A r \in Resources : ~FileQueued(worker.msg, r)
    BY <2>1, NothingDrafted
  <2>3. ProposalsOf(worker.msg)' = {}
    BY <2>1, <2>2 DEF ProposalsOf
  <2> QED
    BY <2>1, <2>2, <2>3 DEF FileQueued
<1>4. CASE CreateProposal
  <2>1. /\ At("proposing") /\ worker'.step = "listing"
        /\ worker'.msg = worker.msg /\ worker'.offer = worker.offer
        /\ UNCHANGED <<textJob, fileJob>>
    BY <1>0, <1>4 DEF CreateProposal, Goto, Workers
  <2>2. proposals'[Len(proposals')].draft = worker.msg
    <3> DEFINE new == [draft |-> worker.msg, state |-> "pending", options |-> <<>>]
    <3>1. proposals' = Append(proposals, new) /\ Len(proposals) \in Nat
      BY <1>4, ProposalParts DEF CreateProposal, IInv
    <3>2. new.draft = worker.msg
      OBVIOUS
    <3> HIDE DEF new
    <3>3. Len(proposals') = Len(proposals) + 1 /\ proposals'[Len(proposals) + 1] = new
      BY <3>1, ProposalParts DEF IInv
    <3> QED
      BY <3>2, <3>3
  <2> QED
    BY <2>1, <2>2 DEF FileQueued
<1>5. CASE AddOption
  <2>1. PICK last \in DOMAIN proposals, r \in worker.offer :
          /\ last = Len(proposals) /\ DOMAIN proposals' = DOMAIN proposals
          /\ \A p \in DOMAIN proposals :
               /\ proposals'[p].draft = proposals[p].draft
               /\ proposals'[p].state = proposals[p].state
               /\ p # last => OptionsOf(p)' = OptionsOf(p)
          /\ OptionsOf(last)' = OptionsOf(last) \cup {r}
          /\ worker' = [worker EXCEPT !.offer = @ \ {r},
                          !.step = IF worker.offer = {r} THEN "judging" ELSE "listing"]
    BY <1>5, OptionAdded
  <2>2. /\ At("listing") /\ UNCHANGED <<textJob, fileJob>>
        /\ proposals[last].draft = worker.msg
    BY <1>5, <2>1 DEF AddOption
  <2>3. /\ worker'.msg = worker.msg /\ worker'.offer = worker.offer \ {r}
        /\ worker'.step = IF worker.offer = {r} THEN "judging" ELSE "listing"
    BY <1>0, <2>1 DEF Workers
  <2>4. Len(proposals') = last
    <3>1. proposals' \in Seq(Proposals) /\ proposals \in Seq(Proposals)
      BY ProposalsStep DEF IInv, TypeOK
    <3>2. /\ Len(proposals') \in Nat /\ Len(proposals) \in Nat
          /\ DOMAIN proposals' = 1..Len(proposals') /\ DOMAIN proposals = 1..Len(proposals)
      BY <3>1, LenProperties
    <3>3. ASSUME NEW a \in Nat, NEW b \in Nat, 1..a = 1..b PROVE ~(a < b)
      <4>1. a < b => b \in 1..b /\ b \notin 1..a
        OBVIOUS
      <4> QED
        BY <3>3, <4>1
    <3>4. ~(Len(proposals) < Len(proposals')) /\ ~(Len(proposals') < Len(proposals))
      BY <2>1, <3>2, <3>3
    <3> QED
      BY <2>1, <3>2, <3>4
  <2>5. \A p \in ProposalsOf(worker.msg)' : OptionsOf(p)' # {}
    <3>1. ASSUME NEW p \in DOMAIN proposals, proposals[p].draft = worker.msg PROVE p = last
      BY <2>1, <2>2, <3>1 DEF IInv, ProposedOnce
    <3>2. Range(proposals'[last].options) # {}
      BY <2>1 DEF OptionsOf
    <3>3. ASSUME NEW p \in DOMAIN proposals', proposals'[p].draft = worker'.msg PROVE p = last
      BY <2>1, <2>3, <3>1, <3>3
    <3> QED
      BY <3>2, <3>3 DEF ProposalsOf, OptionsOf
  <2>6. worker'.step \in {"judging", "listing"} /\ (worker'.step = "listing" => worker'.offer # {})
    BY <2>1, <2>3
  <2>7. /\ textJob'[worker'.msg] = "absent"
        /\ \A s \in Resources : ~FileQueued(worker.msg, s)'
    BY <2>2, <2>3 DEF FileQueued
  <2>8. proposals'[Len(proposals')].draft = worker'.msg
    BY <2>1, <2>2, <2>3, <2>4
  <2> QED
    BY <2>5, <2>6, <2>7, <2>8
<1>6. CASE JudgeText /\ worker'.step \in DraftedSteps
  <2>1. /\ At("judging") /\ UNCHANGED <<textJob, fileJob, proposals>>
        /\ worker'.msg = worker.msg /\ worker'.step = "posting"
    BY <1>0, <1>6 DEF JudgeText, Goto, Continue, Idle, Workers
  <2> QED
    BY <2>1 DEF FileQueued, ProposalsOf, OptionsOf
<1>7. CASE UNCHANGED <<worker, proposals, textJob, fileJob>>
  BY <1>7 DEF FileQueued, ProposalsOf, OptionsOf
<1>8. JudgeText => worker'.step # "failing"
  BY <1>0 DEF JudgeText, Goto, Continue, Idle, Workers
<1> QED
  BY <1>1, <1>2, <1>3, <1>4, <1>5, <1>6, <1>7, <1>8, DraftComesFrom
-----------------------------------------------------------------------------
(* Every step does to one message what MessageLifecycle allows *)

\* What the mapping makes of proposals: a message without one has no offer, and the
\* one proposal of a message is its offer.
OffersAreProposals ==
    /\ OfferState \in [Messages -> {"none", "pending", "resolved"}]
    /\ Offered \in [Messages -> SUBSET Resources]
    /\ \A m \in Messages :
         (\A p \in DOMAIN proposals : proposals[p].draft # m) =>
             OfferState[m] = "none" /\ Offered[m] = {}
    /\ \A p \in DOMAIN proposals :
         /\ proposals[p].draft \in Messages
         /\ OfferState[proposals[p].draft] = proposals[p].state
         /\ Offered[proposals[p].draft] = OptionsOf(p)

LEMMA ProposalTyped ==
    ASSUME IInv, NEW p \in DOMAIN proposals
    PROVE  /\ proposals[p].draft \in Messages /\ proposals[p].state \in {"pending", "resolved"}
           /\ OptionsOf(p) \subseteq Resources
<1>1. proposals[p] \in Proposals
  BY ElementOfSeq DEF IInv, TypeOK
<1>2. ASSUME NEW s \in Seq(Resources) PROVE Range(s) \subseteq Resources
  BY DEF Range
<1> QED
  BY <1>1, <1>2 DEF Proposals, ProposalStates, OptionsOf

\* A proposal none of whose files is queued is pending.
LEMMA NotResolved ==
    ASSUME IInv, NEW p \in DOMAIN proposals,
           \A r \in Resources : ~FileQueued(proposals[p].draft, r)
    PROVE  proposals[p].state = "pending"
  BY ProposalTyped DEF IInv, ResolvedHasItsFile

LEMMA OfferOf == IInv => OffersAreProposals
<1> SUFFICES ASSUME IInv PROVE OffersAreProposals
  OBVIOUS
<1>0. \A p \in DOMAIN proposals :
        /\ proposals[p].draft \in Messages /\ proposals[p].state \in {"pending", "resolved"}
        /\ OptionsOf(p) \subseteq Resources
  BY ProposalTyped
<1>1. \A m \in Messages : Offered[m] \subseteq Resources
  BY <1>0 DEF Offered, ProposalsOf
<1>2. ASSUME NEW p \in DOMAIN proposals PROVE ProposalsOf(proposals[p].draft) = {p}
  BY DEF ProposalsOf, IInv, ProposedOnce
<1>3. ASSUME NEW p \in DOMAIN proposals, NEW d \in Messages, d = proposals[p].draft
      PROVE  OfferState[d] = proposals[p].state /\ Offered[d] = OptionsOf(p)
  <2>1. ProposalsOf(d) = {p}
    BY <1>2, <1>3
  <2>2. Offered[d] = OptionsOf(p)
    BY <2>1 DEF Offered
  <2>3. OfferState[d] = proposals[p].state
    BY <1>0, <2>1 DEF OfferState
  <2> QED
    BY <2>2, <2>3
<1>4. ASSUME NEW m \in Messages, \A p \in DOMAIN proposals : proposals[p].draft # m
      PROVE  OfferState[m] = "none" /\ Offered[m] = {}
  <2>1. ProposalsOf(m) = {}
    BY <1>4 DEF ProposalsOf
  <2> QED
    BY <2>1 DEF OfferState, Offered
<1>5. OfferState \in [Messages -> {"none", "pending", "resolved"}] /\ DOMAIN Offered = Messages
  BY DEF OfferState, Offered
<1>6. Offered \in [Messages -> SUBSET Resources]
  BY <1>1 DEF Offered
<1> QED
  BY <1>0, <1>3, <1>4, <1>5, <1>6 DEF OffersAreProposals

LEMMA OfferAfter == ASSUME IInv, [Next]_vars PROVE OffersAreProposals'
<1>1. IInv'
  BY StepPreserves
<1> QED
  BY <1>1, OfferOf, PTL

LEMMA OptionsKept ==
    ASSUME IInv, [Next]_vars, ResolveProposal \/ CreateProposal
    PROVE  /\ \A p \in DOMAIN proposals : OptionsOf(p)' = OptionsOf(p)
           /\ ResolveProposal => DOMAIN proposals' = DOMAIN proposals
           /\ CreateProposal =>
                \E new \in DOMAIN proposals' :
                    /\ DOMAIN proposals' = DOMAIN proposals \cup {new}
                    /\ proposals'[new].draft = worker.msg
                    /\ proposals'[new].state = "pending"
                    /\ OptionsOf(new)' = {}
<1>0. /\ proposals \in Seq(Proposals) /\ Len(proposals) \in Nat
      /\ DOMAIN proposals = 1..Len(proposals)
      /\ \A p \in DOMAIN proposals : proposals[p] \in Proposals
  BY ElementOfSeq DEF IInv, TypeOK
<1>1. CASE ResolveProposal
  <2>1. proposals' = [p \in DOMAIN proposals |->
                       IF proposals[p].draft = worker.source
                       THEN [proposals[p] EXCEPT !.state = "resolved"]
                       ELSE proposals[p]]
    BY <1>1 DEF ResolveProposal
  <2>2. \A p \in DOMAIN proposals : proposals'[p].options = proposals[p].options
    BY <1>0, <2>1 DEF Proposals
  <2>3. \A p \in DOMAIN proposals : OptionsOf(p)' = OptionsOf(p)
    BY <2>2 DEF OptionsOf
  <2>4. ~CreateProposal
    BY <1>1 DEF ResolveProposal, CreateProposal, At
  <2> QED
    BY <2>1, <2>3, <2>4
<1>2. CASE CreateProposal
  <2> DEFINE row == [draft |-> worker.msg, state |-> "pending", options |-> <<>>]
  <2>1. proposals' = Append(proposals, row)
    BY <1>2 DEF CreateProposal
  <2>2. row.draft = worker.msg /\ row.state = "pending" /\ Range(row.options) = {}
    BY DEF Range
  <2> HIDE DEF row
  <2>3. PICK new \in Nat : new = Len(proposals) + 1
    BY <1>0
  <2>4. /\ DOMAIN proposals' = DOMAIN proposals \cup {new}
        /\ proposals'[new] = row
        /\ \A p \in DOMAIN proposals : proposals'[p] = proposals[p]
    BY <1>0, <2>1, <2>3
  <2>5. OptionsOf(new)' = {} /\ \A p \in DOMAIN proposals : OptionsOf(p)' = OptionsOf(p)
    BY <2>2, <2>4 DEF OptionsOf
  <2>6. ~ResolveProposal
    BY <1>2 DEF ResolveProposal, CreateProposal, At
  <2>7. new \in DOMAIN proposals'
    BY <2>4
  <2> QED
    BY <2>2, <2>4, <2>5, <2>6, <2>7
<1> QED
  BY <1>1, <1>2

\* Consume, StartSearch, StartReply begin a run; the others end it or give it up.
LEMMA RunLifecycle ==
    ASSUME IInv, DraftInHand,
           \/ Consume \/ CloseRun \/ StartSearch \/ NoteDrafted \/ StartReply \/ FinishReply
           \/ FailRun
    PROVE  ML!Begin(worker.msg) \/ ML!End(worker.msg) \/ ML!GiveUp(worker.msg)
<1> USE DEF messageVars, jobVars, worldVars
<1>0. /\ worker.msg \in Messages /\ MessagesInHand /\ OffersAreProposals
      /\ worker.step \in MessageSteps
  BY OfferOf DEF IInv, MessagesInHand, At, Consume, CloseRun, StartSearch, NoteDrafted,
     StartReply, FinishReply, FailRun, MessageSteps, UnstartedSteps, StartedSteps
<1>1. UNCHANGED <<proposals, textJob, fileJob>>
  BY DEF Consume, CloseRun, StartSearch, NoteDrafted, StartReply, FinishReply, FailRun
<1>2. UNCHANGED <<OfferState, Offered>>
  BY <1>1 DEF OfferState, Offered, ProposalsOf, OptionsOf
<1>3. CASE Consume \/ StartSearch \/ StartReply
  <2>1. /\ run[worker.msg] = "none"
        /\ run' = [run EXCEPT ![worker.msg] = "started"]
    BY <1>0, <1>3 DEF Consume, StartSearch, StartReply, MessagesInHand, At, UnstartedSteps
  <2> QED
    BY <1>1, <1>2, <2>1 DEF ML!Begin
<1>4. CASE CloseRun \/ NoteDrafted \/ FinishReply
  <2>1. /\ run[worker.msg] = "started"
        /\ \E s \in {"drafted", "blocked", "failed"} : run' = [run EXCEPT ![worker.msg] = s]
    BY <1>0, <1>4 DEF CloseRun, NoteDrafted, FinishReply, MessagesInHand, At, StartedSteps
  <2> QED
    BY <1>1, <1>2, <2>1 DEF ML!End
<1>5. CASE FailRun
  <2>1. /\ run' = [run EXCEPT ![worker.msg] = "failed"] /\ At("failing")
        /\ run[worker.msg] \in {"started", "drafted"} /\ textJob[worker.msg] = "absent"
    BY <1>0, <1>5 DEF FailRun, MessagesInHand
  <2>2. \A p \in DOMAIN proposals : proposals[p].draft # worker.msg
    BY <2>1 DEF DraftInHand, ProposalsOf
  <2>3. OfferState[worker.msg] = "none"
    BY <1>0, <2>2 DEF OffersAreProposals
  <2>4. \A r \in Resources : fileJob[worker.msg][r] = "absent"
    BY <1>0, <2>2 DEF IInv, FilesAreProposedAndConfirmed, FileQueued
  <2>5. CASE run[worker.msg] = "started"
    BY <1>1, <1>2, <2>1, <2>5 DEF ML!End
  <2>6. CASE run[worker.msg] = "drafted"
    BY <1>1, <1>2, <2>1, <2>3, <2>4, <2>6 DEF ML!GiveUp, ML!NoFileQueued
  <2> QED
    BY <2>1, <2>5, <2>6
<1> QED
  BY <1>3, <1>4, <1>5

\* ResolveProposal resolves the offer, or did so before it was interrupted.
LEMMA ResolveLifecycle ==
    ASSUME IInv, [Next]_vars, ResolveProposal
    PROVE  ML!Resolve(worker.source) \/ UNCHANGED ML!lifecycleVars
<1> DEFINE d == worker.source
<1>0. /\ OffersAreProposals /\ OffersAreProposals'
      /\ UNCHANGED <<run, textJob, fileJob>>
  BY OfferOf, OfferAfter DEF ResolveProposal, jobVars
<1>1. /\ d \in Messages /\ worker.resource \in Resources
      /\ Proposed(d, worker.resource) /\ fileJob[d][worker.resource] # "absent"
  BY DEF ResolveProposal, At, IInv, ConfirmationInHand, ConfirmSteps, FileQueued
<1>2. /\ DOMAIN proposals' = DOMAIN proposals
      /\ \A p \in DOMAIN proposals :
           /\ proposals'[p].draft = proposals[p].draft
           /\ OptionsOf(p)' = OptionsOf(p)
           /\ IF proposals[p].draft = d THEN proposals'[p].state = "resolved"
              ELSE proposals'[p].state = proposals[p].state
  BY ProposalsKept, OptionsKept
<1>3. ASSUME NEW m \in Messages
      PROVE  /\ Offered'[m] = Offered[m]
             /\ m # d => OfferState'[m] = OfferState[m]
             /\ m = d => OfferState'[m] = "resolved"
  <2>1. CASE \E p \in DOMAIN proposals : proposals[p].draft = m
    <3>1. PICK p \in DOMAIN proposals : proposals[p].draft = m
      BY <2>1
    <3>2. Offered[m] = OptionsOf(p) /\ OfferState[m] = proposals[p].state
      BY <1>0, <3>1 DEF OffersAreProposals
    <3>3. Offered'[m] = OptionsOf(p)' /\ OfferState'[m] = proposals'[p].state
      BY <1>0, <1>2, <3>1 DEF OffersAreProposals
    <3>4. OptionsOf(p)' = OptionsOf(p)
      BY <1>2
    <3> QED
      BY <1>2, <3>1, <3>2, <3>3, <3>4
  <2>2. CASE \A p \in DOMAIN proposals : proposals[p].draft # m
    <3>1. \A p \in DOMAIN proposals' : proposals'[p].draft # m
      BY <1>2, <2>2
    <3>2. m # d
      BY <1>1, <2>2 DEF Proposed
    <3> QED
      BY <1>0, <2>2, <3>1, <3>2 DEF OffersAreProposals
  <2> QED
    BY <2>1, <2>2
<1>4. Offered' = Offered /\ OfferState' = [OfferState EXCEPT ![d] = "resolved"]
  BY <1>0, <1>3 DEF OffersAreProposals
<1>5. PICK p \in DOMAIN proposals : proposals[p].draft = d /\ worker.resource \in OptionsOf(p)
  BY <1>1 DEF Proposed
<1>6. worker.resource \in Offered[d] /\ OfferState[d] = proposals[p].state
  BY <1>0, <1>5 DEF OffersAreProposals
<1>7. proposals[p].state \in {"pending", "resolved"}
  BY ProposalTyped
<1>8. CASE OfferState[d] = "pending"
  BY <1>0, <1>1, <1>4, <1>6, <1>8 DEF ML!Resolve
<1>9. CASE OfferState[d] = "resolved"
  <2>1. OfferState' = OfferState
    BY <1>0, <1>1, <1>4, <1>9 DEF OffersAreProposals
  <2> QED
    BY <1>0, <1>4, <2>1 DEF ML!lifecycleVars
<1> QED
  BY <1>6, <1>7, <1>8, <1>9

LEMMA CreateLifecycle ==
    ASSUME IInv, DraftInHand, [Next]_vars, CreateProposal
    PROVE  ML!Offer(worker.msg)
<1> DEFINE d == worker.msg
<1>0. /\ OffersAreProposals /\ OffersAreProposals'
      /\ UNCHANGED <<run, textJob, fileJob>>
      /\ d \in Messages /\ run[d] = "drafted" /\ At("proposing")
  BY OfferOf, OfferAfter DEF CreateProposal, jobVars, IInv, MessagesInHand, At, MessageSteps,
     DraftedSteps
<1>1. textJob[d] = "absent" /\ \A r \in Resources : fileJob[d][r] = "absent"
  BY <1>0 DEF DraftInHand, At, DraftedSteps, FileQueued
<1>2. \A p \in DOMAIN proposals : proposals[p].draft # d
  BY <1>0 DEF IInv, ProposedOnce
<1>3. /\ \A p \in DOMAIN proposals :
           /\ proposals'[p].draft = proposals[p].draft
           /\ OptionsOf(p)' = OptionsOf(p)
           /\ proposals'[p].state = proposals[p].state
  <2>1. ~ResolveProposal
    BY DEF CreateProposal, ResolveProposal, At
  <2> QED
    BY <2>1, ProposalsKept, OptionsKept
<1>4. PICK new \in DOMAIN proposals' :
        /\ DOMAIN proposals' = DOMAIN proposals \cup {new}
        /\ proposals'[new].draft = d /\ proposals'[new].state = "pending"
        /\ OptionsOf(new)' = {}
  BY OptionsKept
<1>5. OfferState[d] = "none" /\ Offered[d] = {}
  BY <1>0, <1>2 DEF OffersAreProposals
<1>6. OfferState'[d] = "pending" /\ Offered'[d] = {}
  BY <1>0, <1>4 DEF OffersAreProposals
<1>7. ASSUME NEW m \in Messages, m # d
      PROVE  OfferState'[m] = OfferState[m] /\ Offered'[m] = Offered[m]
  <2>1. CASE \E p \in DOMAIN proposals : proposals[p].draft = m
    <3>1. PICK p \in DOMAIN proposals : proposals[p].draft = m
      BY <2>1
    <3>2. Offered[m] = OptionsOf(p) /\ OfferState[m] = proposals[p].state
      BY <1>0, <3>1 DEF OffersAreProposals
    <3>3. Offered'[m] = OptionsOf(p)' /\ OfferState'[m] = proposals'[p].state
      BY <1>0, <1>3, <1>4, <3>1 DEF OffersAreProposals
    <3> QED
      BY <1>3, <3>1, <3>2, <3>3
  <2>2. CASE \A p \in DOMAIN proposals : proposals[p].draft # m
    <3>1. \A p \in DOMAIN proposals' : proposals'[p].draft # m
      BY <1>3, <1>4, <1>7, <2>2
    <3> QED
      BY <1>0, <2>2, <3>1 DEF OffersAreProposals
  <2> QED
    BY <2>1, <2>2
<1>8. \A m \in Messages : Offered'[m] = Offered[m]
  BY <1>5, <1>6, <1>7
<1>9. Offered' = Offered
  BY <1>0, <1>8 DEF OffersAreProposals
<1>10. OfferState' = [OfferState EXCEPT ![d] = "pending"]
  BY <1>0, <1>6, <1>7 DEF OffersAreProposals
<1> QED
  BY <1>0, <1>1, <1>5, <1>9, <1>10 DEF ML!Offer, ML!NoFileQueued

LEMMA AddOptionLifecycle ==
    ASSUME IInv, DraftInHand, [Next]_vars, AddOption
    PROVE  \E r \in Resources : ML!AddOption(worker.msg, r)
<1> DEFINE d == worker.msg
<1>0. /\ OffersAreProposals /\ OffersAreProposals'
      /\ UNCHANGED <<run, textJob, fileJob>>
      /\ d \in Messages /\ At("listing") /\ proposals[Len(proposals)].draft = d
  BY OfferOf, OfferAfter DEF AddOption, jobVars, IInv, MessagesInHand, At, MessageSteps,
     DraftedSteps, DraftInHand
<1>1. textJob[d] = "absent" /\ \A r \in Resources : fileJob[d][r] = "absent"
  BY <1>0 DEF DraftInHand, At, DraftedSteps, FileQueued
<1>2. PICK last \in DOMAIN proposals, r \in worker.offer :
        /\ last = Len(proposals) /\ DOMAIN proposals' = DOMAIN proposals
        /\ \A p \in DOMAIN proposals :
             /\ proposals'[p].draft = proposals[p].draft
             /\ proposals'[p].state = proposals[p].state
             /\ p # last => OptionsOf(p)' = OptionsOf(p)
        /\ OptionsOf(last)' = OptionsOf(last) \cup {r}
        /\ worker' = [worker EXCEPT !.offer = @ \ {r},
                        !.step = IF worker.offer = {r} THEN "judging" ELSE "listing"]
  BY OptionAdded
<1>3. r \in Resources
  BY DEF IInv, TypeOK
<1>4. proposals[last].draft = d /\ \A p \in DOMAIN proposals : proposals[p].draft = d => p = last
  BY <1>0, <1>2 DEF IInv, ProposedOnce
<1>5. proposals[last].state = "pending"
  BY <1>1, <1>4, NotResolved DEF FileQueued
<1>6. OfferState[d] = "pending" /\ Offered[d] = OptionsOf(last)
  BY <1>0, <1>4, <1>5 DEF OffersAreProposals
<1>7. OfferState'[d] = "pending" /\ Offered'[d] = Offered[d] \cup {r}
  <2>1. Offered'[d] = OptionsOf(last)' /\ OfferState'[d] = proposals'[last].state
    BY <1>0, <1>2, <1>4 DEF OffersAreProposals
  <2> QED
    BY <1>2, <1>5, <1>6, <2>1
<1>8. ASSUME NEW m \in Messages, m # d
      PROVE  OfferState'[m] = OfferState[m] /\ Offered'[m] = Offered[m]
  <2>1. CASE \E p \in DOMAIN proposals : proposals[p].draft = m
    <3>1. PICK p \in DOMAIN proposals : proposals[p].draft = m
      BY <2>1
    <3>2. Offered[m] = OptionsOf(p) /\ OfferState[m] = proposals[p].state
      BY <1>0, <3>1 DEF OffersAreProposals
    <3>3. Offered'[m] = OptionsOf(p)' /\ OfferState'[m] = proposals'[p].state
      BY <1>0, <1>2, <3>1 DEF OffersAreProposals
    <3>4. OptionsOf(p)' = OptionsOf(p) /\ proposals'[p].state = proposals[p].state
      BY <1>2, <1>4, <1>8, <3>1
    <3> QED
      BY <3>2, <3>3, <3>4
  <2>2. CASE \A p \in DOMAIN proposals : proposals[p].draft # m
    <3>1. \A p \in DOMAIN proposals' : proposals'[p].draft # m
      BY <1>2, <2>2
    <3> QED
      BY <1>0, <2>2, <3>1 DEF OffersAreProposals
  <2> QED
    BY <2>1, <2>2
<1>9. OfferState' = OfferState /\ Offered' = [Offered EXCEPT ![d] = @ \cup {r}]
  BY <1>0, <1>6, <1>7, <1>8 DEF OffersAreProposals
<1> QED
  BY <1>0, <1>1, <1>3, <1>6, <1>9 DEF ML!AddOption, ML!NoFileQueued

\* QueueFile queues a file of a pending offer, or finds its job there.
LEMMA QueueFileLifecycle ==
    ASSUME IInv, QueueFile
    PROVE  ML!QueueFile(worker.source, worker.resource) \/ UNCHANGED ML!lifecycleVars
<1> DEFINE d == worker.source
           r == worker.resource
<1>0. /\ OffersAreProposals /\ UNCHANGED <<run, proposals, textJob>> /\ At("queueing")
      /\ fileJob' = [fileJob EXCEPT ![d][r] = IF @ = "absent" THEN "queued" ELSE @]
      /\ fileJob \in [Messages -> [Resources -> JobStates]]
  BY OfferOf DEF QueueFile, IInv, TypeOK
<1>1. UNCHANGED <<OfferState, Offered>>
  BY <1>0 DEF OfferState, Offered, ProposalsOf, OptionsOf
<1>2. /\ worker.msg \in Messages /\ run[worker.msg] = "none" /\ worker.msg # d
      /\ d \in Messages /\ r \in Resources /\ Proposed(d, r)
  BY <1>0, InHand DEF ConfirmSteps, At, Confirms, IInv, MessagesInHand, UnstartedSteps
<1>3. PICK p \in DOMAIN proposals : proposals[p].draft = d /\ r \in OptionsOf(p)
  BY <1>2 DEF Proposed
<1>4. proposals[p].state = "pending"
  BY <1>0, <1>3 DEF IInv, ConfirmationInHand, ProposedOnce
<1>5. OfferState[d] = "pending" /\ r \in Offered[d]
  BY <1>0, <1>3, <1>4 DEF OffersAreProposals
<1> HIDE DEF d, r
<1>6. CASE fileJob[d][r] = "absent"
  <2>1. fileJob' = [fileJob EXCEPT ![d][r] = "queued"]
    BY <1>0, <1>6
  <2> QED
    BY <1>0, <1>1, <1>2, <1>5, <1>6, <2>1 DEF ML!QueueFile, d, r
<1>7. CASE fileJob[d][r] # "absent"
  <2>1. fileJob' = fileJob
    BY <1>0, <1>2, <1>7
  <2> QED
    BY <1>0, <1>1, <2>1 DEF ML!lifecycleVars
<1> QED
  BY <1>6, <1>7

LEMMA QueueTextLifecycle ==
    ASSUME IInv, DraftInHand, QueueText
    PROVE  ML!QueueReply(worker.msg)
<1> DEFINE d == worker.msg
<1>0. /\ OffersAreProposals /\ UNCHANGED <<run, proposals, fileJob>> /\ At("posting")
      /\ d \in Messages /\ run[d] = "drafted"
  BY OfferOf DEF QueueText, IInv, MessagesInHand, At, MessageSteps, DraftedSteps
<1>1. UNCHANGED <<OfferState, Offered>>
  BY <1>0 DEF OfferState, Offered, ProposalsOf, OptionsOf
<1>2. textJob[d] = "absent" /\ \A r \in Resources : ~FileQueued(d, r)
  BY <1>0 DEF DraftInHand, At, DraftedSteps
<1>3. textJob' = [textJob EXCEPT ![d] = "queued"]
  BY <1>2 DEF QueueText
<1>4. OfferState[d] = "none" \/ (OfferState[d] = "pending" /\ Offered[d] # {})
  <2>1. CASE \A p \in DOMAIN proposals : proposals[p].draft # d
    BY <1>0, <2>1 DEF OffersAreProposals
  <2>2. ASSUME NEW p \in DOMAIN proposals, proposals[p].draft = d
        PROVE  OfferState[d] = "pending" /\ Offered[d] # {}
    <3>1. proposals[p].state = "pending"
      BY <1>2, <2>2, NotResolved
    <3>2. OptionsOf(p) # {}
      BY <1>0, <2>2 DEF DraftInHand, At, ProposalsOf
    <3> QED
      BY <1>0, <2>2, <3>1, <3>2 DEF OffersAreProposals
  <2> QED
    BY <2>1, <2>2
<1> QED
  BY <1>0, <1>1, <1>2, <1>3, <1>4 DEF ML!QueueReply, ML!NoFileQueued, FileQueued

\* A dispatch settles one job, and an interrupted one leaves it in "sending".
LEMMA DispatchLifecycle ==
    ASSUME \/ Interrupt
           \/ \E m \in Messages : DispatchText(m)
           \/ \E m \in Messages, r \in Resources : DispatchFile(m, r)
    PROVE  \/ UNCHANGED ML!lifecycleVars
           \/ \E m \in Messages : ML!SettleReply(m)
           \/ \E m \in Messages, r \in Resources : ML!SettleFile(m, r)
<1>0. UNCHANGED <<run, proposals>>
  BY DEF Interrupt, DispatchText, DispatchFile
<1>1. UNCHANGED <<OfferState, Offered>>
  BY <1>0 DEF OfferState, Offered, ProposalsOf, OptionsOf
<1>2. ASSUME NEW m \in Messages, NEW s \in {"sending", "sent", "blocked"}, UNCHANGED fileJob,
             textJob[m] = "queued", textJob' = [textJob EXCEPT ![m] = s]
      PROVE  ML!SettleReply(m)
  BY <1>0, <1>1, <1>2 DEF ML!SettleReply, ML!Outcomes
<1>3. ASSUME NEW m \in Messages, NEW r \in Resources, NEW s \in {"sending", "sent", "blocked"},
             UNCHANGED textJob,
             fileJob[m][r] = "queued", fileJob' = [fileJob EXCEPT ![m][r] = s]
      PROVE  ML!SettleFile(m, r)
  BY <1>0, <1>1, <1>3 DEF ML!SettleFile, ML!Outcomes
<1>4. ASSUME NEW m \in Messages, DispatchText(m) PROVE ML!SettleReply(m)
  BY <1>2, <1>4 DEF DispatchText
<1>5. ASSUME NEW m \in Messages, NEW r \in Resources, DispatchFile(m, r) PROVE ML!SettleFile(m, r)
  BY <1>3, <1>5 DEF DispatchFile
<1>6. CASE Interrupt
  <2>1. \/ UNCHANGED <<textJob, fileJob>>
        \/ \E m \in Messages :
             /\ textJob[m] = "queued" /\ textJob' = [textJob EXCEPT ![m] = "sending"]
             /\ UNCHANGED fileJob
        \/ \E m \in Messages, r \in Resources :
             /\ fileJob[m][r] = "queued" /\ fileJob' = [fileJob EXCEPT ![m][r] = "sending"]
             /\ UNCHANGED textJob
    BY <1>6 DEF Interrupt
  <2>2. CASE UNCHANGED <<textJob, fileJob>>
    BY <1>0, <1>1, <2>2 DEF ML!lifecycleVars
  <2> QED
    BY <1>2, <1>3, <2>1, <2>2
<1> QED
  BY <1>4, <1>5, <1>6

LEMMA LifecycleStep ==
    ASSUME IInv, DraftInHand, [Next]_vars
    PROVE  [ML!Next]_(ML!lifecycleVars)
<1> USE DEF ML!Next
<1>1. CASE \/ Consume \/ CloseRun \/ StartSearch \/ NoteDrafted \/ StartReply \/ FinishReply
           \/ FailRun
  <2>1. worker.msg \in Messages
    BY <1>1 DEF IInv, MessagesInHand, At, Consume, CloseRun, StartSearch, NoteDrafted,
       StartReply, FinishReply, FailRun, MessageSteps, UnstartedSteps, StartedSteps
  <2> QED
    BY <1>1, <2>1, RunLifecycle
<1>2. CASE ResolveProposal
  <2>1. worker.source \in Messages
    BY <1>2 DEF ResolveProposal, At, IInv, ConfirmationInHand, ConfirmSteps
  <2> QED
    BY <1>2, <2>1, ResolveLifecycle
<1>3. CASE CreateProposal \/ AddOption \/ QueueText
  <2>1. worker.msg \in Messages
    BY <1>3 DEF CreateProposal, AddOption, QueueText, IInv, MessagesInHand, At, MessageSteps,
       DraftedSteps
  <2> QED
    BY <1>3, <2>1, CreateLifecycle, AddOptionLifecycle, QueueTextLifecycle
<1>4. CASE QueueFile
  <2>1. worker.source \in Messages /\ worker.resource \in Resources
    BY <1>4 DEF QueueFile, At, IInv, ConfirmationInHand, ConfirmSteps
  <2> QED
    BY <1>4, <2>1, QueueFileLifecycle
<1>5. CASE \/ Interrupt
           \/ \E m \in Messages : DispatchText(m)
           \/ \E m \in Messages, r \in Resources : DispatchFile(m, r)
  BY <1>5, DispatchLifecycle
<1>6. CASE UNCHANGED <<run, proposals, textJob, fileJob>>
  BY <1>6 DEF ML!lifecycleVars, OfferState, Offered, ProposalsOf, OptionsOf
<1> QED
  BY <1>1, <1>2, <1>3, <1>4, <1>5, <1>6, WhatChanges

\* However it is interrupted, the cycle implements MessageLifecycle.
THEOREM ImplementsLifecycle == Spec => MessageSpec
<1>1. Init => ML!Init
  BY DEF Init, ML!Init, OfferState, Offered, ProposalsOf
<1>2. Init => DraftInHand
  BY DEF Init, DraftInHand, Idle, At, DraftedSteps
<1>3. IInv /\ DraftInHand /\ UNCHANGED vars => DraftInHand'
  BY DraftStep
<1>4. IInv /\ DraftInHand /\ [Next]_vars => DraftInHand'
  BY DraftStep
<1>5. IInv /\ DraftInHand /\ [Next]_vars => [ML!Next]_(ML!lifecycleVars)
  BY LifecycleStep
<1> QED
  BY <1>1, <1>2, <1>3, <1>4, <1>5, Invariance, PTL DEF Spec, MessageSpec, ML!Spec
=============================================================================
