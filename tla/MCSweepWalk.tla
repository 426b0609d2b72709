----------------------------- MODULE MCSweepWalk -----------------------------
(***************************************************************************)
(* The instance of SweepWalk that TLC checks: five organisations and pages *)
(* of two, so that the last page may be full, short or empty.              *)
(***************************************************************************)
EXTENDS SweepWalk

MCOrg == 1 .. 5

=============================================================================
