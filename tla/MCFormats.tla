----------------------------- MODULE MCFormats -----------------------------
(***************************************************************************)
(* Formats for TLC.  Bytes have two bits; the value of three bytes makes   *)
(* the one request that is longer than the server takes.                   *)
(***************************************************************************)
EXTENDS Formats

MCKeys == {<<>>, <<3>>}
MCValues == {<<>>, <<0, 1>>, <<2, 0, 3>>}

\* The requests are sent, the server has read what it will, and the client too.
Resting ==
    /\ Len(asked) = MaxReqs
    /\ up = <<>> \/ reading = -1
    /\ down = <<>> /\ buf = <<>>
    /\ UNCHANGED vars

MCNext == Next \/ Resting
MCSpec == Init /\ [][MCNext]_vars
=============================================================================
