--------------------------- MODULE MCNotesPublishing ---------------------------
(* Instances of NotesPublishing for TLC. *)
EXTENDS NotesPublishing, TLC

PublishingSymmetry == Permutations(Pages) \cup Permutations(Operations)
===============================================================================
