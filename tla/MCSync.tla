------------------------------- MODULE MCSync -------------------------------
(* The second and the third message are sent in the same second. *)
EXTENDS Sync

MCClocks == {[m \in Messages |-> IF m <= 2 THEN m ELSE m - 1]}
=============================================================================
