--------------------------- MODULE FcgiManagerMC ---------------------------
(***************************************************************************)
(* FcgiManager on small instances.  Threads and ids are model values given *)
(* by the .cfg files; the workers are interchangeable, and so are the ids. *)
(***************************************************************************)
EXTENDS FcgiManager, TLC

Symmetry == Permutations(Workers) \cup Permutations(Ids)
=============================================================================
