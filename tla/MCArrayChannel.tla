--------------------------- MODULE MCArrayChannel ---------------------------
(***************************************************************************)
(* ArrayChannel for the safety runs. The senders are interchangeable, and  *)
(* so are the receivers. A call with a deadline can do all that the other  *)
(* calls can, so that "timed" alone loses no reachable state but for      *)
(* the value of `mode`.                                                    *)
(***************************************************************************)
EXTENDS ArrayChannel

Symmetry == Permutations(Senders) \cup Permutations(Receivers)
=============================================================================
