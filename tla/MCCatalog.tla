----------------------------- MODULE MCCatalog ------------------------------
(* Three files in the resource root, two of them of one name, and a photo. *)
EXTENDS Catalog

CONSTANTS library, staged, second, photo, mother, sister

MCCandidates == <<staged, second>>
MCNameOf == [p \in Paths |->
    IF p = photo THEN "received" ELSE IF p = second THEN "resume-2" ELSE "resume"]
MCNames == {"resume", "resume-2", "received"}
MCOwner == [m \in Media |-> mother]
=============================================================================
