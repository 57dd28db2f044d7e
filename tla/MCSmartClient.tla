---------------------------- MODULE MCSmartClient ---------------------------
(***************************************************************************)
(* SmartClient for TLC, with a self-loop where no call waits: there the    *)
(* client may rest.                                                        *)
(***************************************************************************)
EXTENDS SmartClient

Resting == (\A c \in Callers : ~Waits(c)) /\ UNCHANGED vars

MCNext == Next \/ Resting
MCSpec == Init /\ [][MCNext]_vars /\ Fairness
=============================================================================
