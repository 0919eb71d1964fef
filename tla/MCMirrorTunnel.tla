---------------------------- MODULE MCMirrorTunnel ----------------------------
(***************************************************************************)
(* MirrorTunnel for TLC.  Every instance has one window and one route: the *)
(* numbers of the session are shared through the host's own events.        *)
(***************************************************************************)
EXTENDS MirrorTunnel, TLC
=============================================================================
