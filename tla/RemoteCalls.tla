----------------------------- MODULE RemoteCalls ----------------------------
(***************************************************************************)
(* What a smart client promises its callers.  A call is executed by the    *)
(* server at most once.  It returns at most once: with its own answer, and *)
(* only after it was executed, or with an error, which says nothing about  *)
(* its execution: the server may have executed the call before, or may     *)
(* execute it later.                                                       *)
(***************************************************************************)
EXTENDS Naturals

CONSTANT Ids        \* the calls

VARIABLES
    made,       \* the calls that were made
    runs,       \* runs[i]: how often the server executed call i
    result      \* result[i]: <<>>, <<"err">>, or <<"ok", call it answers>>

callVars == <<made, runs, result>>

CallsInit ==
    /\ made = {}
    /\ runs = [i \in Ids |-> 0]
    /\ result = [i \in Ids |-> <<>>]

Make(i) ==
    /\ i \notin made
    /\ made' = made \cup {i}
    /\ UNCHANGED <<runs, result>>

Run(i) ==
    /\ i \in made /\ runs[i] = 0
    /\ runs' = [runs EXCEPT ![i] = 1]
    /\ UNCHANGED <<made, result>>

Answer(i) ==
    /\ runs[i] = 1 /\ result[i] = <<>>
    /\ result' = [result EXCEPT ![i] = <<"ok", i>>]
    /\ UNCHANGED <<made, runs>>

\* A lost connection fails the calls that waited on it.
Fail(lost) ==
    /\ \A i \in lost : i \in made /\ result[i] = <<>>
    /\ result' = [i \in Ids |-> IF i \in lost THEN <<"err">> ELSE result[i]]
    /\ UNCHANGED <<made, runs>>

CallsNext ==
    \/ \E i \in Ids : Make(i) \/ Run(i) \/ Answer(i)
    \/ \E lost \in SUBSET Ids : Fail(lost)

CallsSpec == CallsInit /\ [][CallsNext]_callVars
=============================================================================
