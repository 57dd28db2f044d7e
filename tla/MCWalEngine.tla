---------------------------- MODULE MCWalEngine ----------------------------
(***************************************************************************)
(* WalEngine for TLC.  The model stops when stage 2 has handed out its     *)
(* bounded number of LSNs and the engine is parked, or when the engine has *)
(* panicked.  Any other state without a step is a deadlock of the two      *)
(* threads: the engine waits for a message while stage 2 waits for a       *)
(* buffer.                                                                 *)
(***************************************************************************)
EXTENDS WalEngine

Quiescent ==
    /\ \/ pc = "poll" /\ msgs = <<>> /\ should_park /\ lsn = MaxLsn
       \/ pc = "panic"
    /\ UNCHANGED vars

MCNext == Next \/ Quiescent

MCSpec     == Init /\ [][MCNext]_vars
MCFairSpec == MCSpec /\ WF_vars(Engine) /\ WF_vars(Kernel)

=============================================================================
