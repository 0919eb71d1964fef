--------------------------- MODULE MCMirrorSession ---------------------------
(***************************************************************************)
(* MirrorSession for TLC.                                                  *)
(***************************************************************************)
EXTENDS MirrorSession, TLC

CommandSymmetry == Permutations(Commands)

ControlSymmetry == Permutations(Clients) \cup Permutations(LeaseIds)
=============================================================================
