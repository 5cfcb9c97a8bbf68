---------------------------- MODULE MCKnowledge -----------------------------
(* One content of one chunk, one of two. The second contact may be sent the *)
(* second file only, the first contact both. Either both files are there    *)
(* and nothing disturbs the run, or the first one alone, and something may. *)
EXTENDS Knowledge

CONSTANTS c1, c2

MCChunkCount == [c \in Contents |-> c]
MCAllowed == [who \in Contacts |-> IF who = c2 THEN Files \ {1} ELSE Files]

MCInit ==
    /\ Init
    /\ \/ disk = [f \in Files |-> f] /\ disruptions = MaxDisruptions
       \/ disk = [f \in Files |-> IF f = 1 THEN 2 ELSE None] /\ disruptions = 0
MCSpec == MCInit /\ [][Next]_vars /\ Fairness
=============================================================================
