------------------------------- MODULE MCLive -------------------------------
(* The cache is warmed, with and without required chats, or it is not. *)
EXTENDS Live

MCConfigs == {[required |-> TRUE, warmup |-> TRUE], [required |-> FALSE, warmup |-> TRUE],
              [required |-> FALSE, warmup |-> FALSE]}
=============================================================================
