-------------------------------- MODULE Store -------------------------------
(***************************************************************************)
(* What the server promises its clients: a map from keys to values.  The   *)
(* calls of a connection are executed in the order they were made, each at *)
(* one moment between the call and its return, and every client sees the   *)
(* result its call had at that moment.  Returns may come in any order.     *)
(***************************************************************************)
EXTENDS Integers, Sequences

CONSTANTS
    Conns, Keys,
    Calls           \* what a client may call

VARIABLES
    calls,      \* calls[c]: the calls made on connection c
    store,      \* store[k]: <<>> or <<value>>
    results,    \* results[c][n]: the result of the n-th call, once executed
    returned    \* returned[c]: the pairs <<n, result>> the client has seen

storeVars == <<calls, store, results, returned>>

StoreInit ==
    /\ calls = [c \in Conns |-> <<>>]
    /\ store = [k \in Keys |-> <<>>]
    /\ results = [c \in Conns |-> <<>>]
    /\ returned = [c \in Conns |-> {}]

Call(c, r) ==
    /\ calls' = [calls EXCEPT ![c] = Append(@, r)]
    /\ UNCHANGED <<store, results, returned>>

\* What the call r returns in the present store.
Result(r) ==
    CASE r.op = "Get" /\ store[r.key] # <<>> ->
           [code |-> "Value", val |-> store[r.key]]
      [] r.op = "Get" /\ store[r.key] = <<>> -> [code |-> "Miss", val |-> <<>>]
      [] r.op = "Put"     -> [code |-> "Ok", val |-> <<>>]
      [] r.op = "Unknown" -> [code |-> "UnknownOp", val |-> <<>>]

\* The next call of c takes effect.
Execute(c) ==
    /\ Len(results[c]) < Len(calls[c])
    /\ LET r == calls[c][Len(results[c]) + 1]
       IN  /\ store' = IF r.op = "Put" THEN [store EXCEPT ![r.key] = <<r.val>>]
                       ELSE store
           /\ results' = [results EXCEPT ![c] = Append(@, Result(r))]
    /\ UNCHANGED <<calls, returned>>

Return(c, n) ==
    /\ \A p \in returned[c] : p[1] # n
    /\ returned' = [returned EXCEPT ![c] = @ \cup {<<n, results[c][n]>>}]
    /\ UNCHANGED <<calls, store, results>>

StoreNext ==
    \/ \E c \in Conns, r \in Calls : Call(c, r)
    \/ \E c \in Conns : Execute(c)
    \/ \E c \in Conns : \E n \in DOMAIN results[c] : Return(c, n)

StoreSpec == StoreInit /\ [][StoreNext]_storeVars
=============================================================================
