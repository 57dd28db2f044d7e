----------------------------- MODULE MCPipeline -----------------------------
(***************************************************************************)
(* Pipeline for TLC: two clients, one key, one or two values, and a        *)
(* self-loop where the server may rest.                                    *)
(***************************************************************************)
EXTENDS Pipeline, TLC

CONSTANTS c1, c2,   \* connections
          b1, b2    \* buffers

MCTwoValues == {<<1, "x">>, <<1, "y">>}
MCTwoLengths == {<<1, "x">>, <<2, "y">>}
MCOneValue == {<<1, "x">>}
MCTwoEach == [c \in {c1, c2} |-> 2]
MCOneAndTwo == [c \in {c1, c2} |-> IF c = c1 THEN 1 ELSE 2]
MCOneAndThree == [c \in {c1, c2} |-> IF c = c1 THEN 1 ELSE 3]
MCSymmetry == Permutations({c1, c2}) \cup Permutations({b1, b2})
MCBufferSymmetry == Permutations({b1, b2})

\* Every client has sent all it will send, and no task or thread has work.
Resting ==
    /\ \A c \in Conns : /\ client[c] # "open" \/ Len(sent[c]) = MaxReqs[c]
                        /\ ~reader[c] \/ taken[c] = Len(sent[c])
                        /\ reps[c] = <<>>
                        /\ out[c] = <<>> \/ client[c] = "gone"
    /\ items = <<>>
    /\ turn = <<>>
    /\ \A b \in Buffers : bufs[b] = NoBatch
    /\ UNCHANGED vars

MCNext == Next \/ Resting
MCSpec == Init /\ [][MCNext]_vars
MCFairSpec == MCSpec /\ Fairness
=============================================================================
