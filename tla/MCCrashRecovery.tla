-------------------------- MODULE MCCrashRecovery --------------------------
(***************************************************************************)
(* CrashRecovery for TLC.  The model stops when the last life has started. *)
(***************************************************************************)
EXTENDS CrashRecovery

Quiescent == run = MaxRuns /\ UNCHANGED crVars

MCNext == CRNext \/ Quiescent
MCSpec == CRInit /\ [][MCNext]_crVars

=============================================================================
