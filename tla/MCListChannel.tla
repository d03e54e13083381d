--------------------------- MODULE MCListChannel ----------------------------
(***************************************************************************)
(* ListChannel for the safety run. The senders are interchangeable, and so *)
(* are the receivers.                                                      *)
(***************************************************************************)
EXTENDS ListChannel

Symmetry == Permutations(Senders) \cup Permutations(Receivers)
=============================================================================
