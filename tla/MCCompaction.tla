---------------------------- MODULE MCCompaction ----------------------------
(***************************************************************************)
(* Compaction for TLC, with a self-loop where the server may rest: stage 2 *)
(* is at its bound, stage 3 has no work, and no crash is left.             *)
(***************************************************************************)
EXTENDS Compaction

Resting ==
    /\ s2 = "run" /\ (run = MaxRuns \/ lsn = MaxLsn)
    /\ chan = <<>> /\ Works = {} /\ awaiting = {} /\ eng = <<"loop">>
    /\ UNCHANGED vars

MCNext == Next \/ Resting
MCSpec == Init /\ [][MCNext]_vars
=============================================================================
