------------------------------ MODULE MCOutbox ------------------------------
(***************************************************************************)
(* Instances of Outbox: the prompt that proposes a file and the file itself*)
(* (both from one draft of the mother's chat), and a reply in another chat.*)
(***************************************************************************)
EXTENDS Outbox

CONSTANTS prompt, file, reply, proposal, answer, mother, sister, w1, w2

MCKindOf == [j \in Jobs |-> IF j = file THEN "resource_send" ELSE "text_reply"]
MCDraftOf == [j \in Jobs |-> IF j = reply THEN answer ELSE proposal]
MCChatOf == [j \in Jobs |-> IF j = reply THEN sister ELSE mother]
=============================================================================
