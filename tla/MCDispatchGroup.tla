--------------------------- MODULE MCDispatchGroup ---------------------------
(***************************************************************************)
(* DispatchGroup for TLC.  Two notification blocks, so that one can be     *)
(* pushed while the other is being fired; three enters, so that the group  *)
(* empties, is entered again behind a leaver and overflows its counter.    *)
(***************************************************************************)
EXTENDS DispatchGroup, TLC

MCSymmetry == Permutations(Threads) \union Permutations(Notifs)
=============================================================================
