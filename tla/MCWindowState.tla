---------------------------- MODULE MCWindowState ----------------------------
(***************************************************************************)
(* WindowState for TLC.  Nothing tells one process, or one workspace, from *)
(* another; the runs of temporal properties do without the symmetry.       *)
(***************************************************************************)
EXTENDS WindowState, TLC

Symmetry == Permutations(Processes) \cup Permutations(Names)

=============================================================================
