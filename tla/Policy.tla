------------------------------- MODULE Policy -------------------------------
(***************************************************************************)
(* The outbound policy of packages/policy: may a reply or a file leave?    *)
(* The code returns a decision with a reason; only "allowed" steers the    *)
(* worker (a refusal blocks whatever its reason), so the ordered early     *)
(* returns of the code are a conjunction here.                             *)
(***************************************************************************)

\* Modes of the assistant, from VIJI_DEFAULT_REPLY_MODE or the conversation.
PolicyModes == {"auto", "confirm_resource", "readonly", "paused", "idle"}

\* What the worker's environment can ask for (runLiveAutomationCycle).
DefaultModes == {"auto", "confirm_resource", "readonly", "paused"}

ConversationStates == {"active", "paused", "ignored", "archived"}

ContextStates == {"fresh", "stale", "recovering", "unknown"}

TrustLevels == {"low", "normal", "trusted"}

JobKinds == {"text_reply", "resource_send"}

\* The conversation's own state overrides the default mode.
ToPolicyMode(conversationState, defaultMode) ==
    IF conversationState = "paused" THEN "paused"
    ELSE IF conversationState \in {"ignored", "archived"} THEN "idle"
    ELSE defaultMode

\* The guard common to every intent: evaluateSendGuard returns null.
\* The dependency healths are all "healthy" on the live path, which never
\* passes any, and idempotencyKeyAlreadySent is never passed either.
SendGuardPasses(in) ==
    /\ ~in.killSwitch
    /\ in.allowlisted
    /\ in.mode \notin {"paused", "readonly", "idle"}
    /\ in.context = "fresh"
    /\ ~in.tooOld

\* A text reply also needs mode "auto" and a trusted contact.
TextReplyPasses(in) ==
    /\ in.mode = "auto"
    /\ in.trust = "trusted"

\* evaluateOutboundPolicy(...).allowed. A resource_send reaches the policy
\* with its resource exact and confirmed by construction: both callers fill
\* the same id in all three fields that are compared.
OutboundPolicyAllows(in) ==
    /\ SendGuardPasses(in)
    /\ in.kind = "text_reply" => TextReplyPasses(in)
=============================================================================
