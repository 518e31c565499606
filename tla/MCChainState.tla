---------------------------- MODULE MCChainState ----------------------------
(***************************************************************************)
(* A small universe for ChainState.  The coins come from the coinbase cb of *)
(* block C; u and w spend the same output of cb, t spends u, v spends w in  *)
(* the same block, and s is the coinstake of B2, staking the other output. *)
(*                                                                         *)
(*     G - C(cb) - E --- A(u) --- A2(t)                                    *)
(*                  \       \---- X(w)  invalid: w spends what u spent     *)
(*                   \                                                     *)
(*                    \- B(w,v) - B2(s)                                    *)
(*                          \---- D(t)  invalid: t spends u, which is not  *)
(*                                      in the chain                       *)
(* E matures cb, so that the pool may hold u, w and t before any block.    *)
(*                                                                         *)
(* Trust makes each branch the better one in some order of arrival: B      *)
(* beats A, A2 and X beat B, B2 beats A2, D beats everything.              *)
(***************************************************************************)
EXTENDS ChainState

MCBlock == {"G", "C", "E", "A", "A2", "X", "B", "B2", "D"}
MCPrev == [G |-> NULL, C |-> "G", E |-> "C", A |-> "E", A2 |-> "A", X |-> "A", B |-> "E",
           B2 |-> "B", D |-> "B"]
MCHeight == [b \in MCBlock |-> CASE b = "G" -> 0 [] b = "C" -> 1
                                 [] b = "E" -> 2
                                 [] b \in {"A", "B"} -> 3 [] OTHER -> 4]
MCTrust == [G |-> 1, C |-> 2, E |-> 3, A |-> 4, B |-> 5, X |-> 6, A2 |-> 6, B2 |-> 7,
            D |-> 8]
MCTrunk == {"G", "C", "E"}
MCBranch == [G |-> {"G"}, C |-> {"G", "C"}, E |-> MCTrunk,
             A |-> MCTrunk \cup {"A"}, A2 |-> MCTrunk \cup {"A", "A2"},
             X |-> MCTrunk \cup {"A", "X"}, B |-> MCTrunk \cup {"B"},
             B2 |-> MCTrunk \cup {"B", "B2"}, D |-> MCTrunk \cup {"B", "D"}]
MCTx == {"cb", "u", "w", "t", "v", "s"}
MCvtx == [G |-> <<>>, C |-> <<"cb">>, E |-> <<>>, A |-> <<"u">>, A2 |-> <<"t">>, X |-> <<"w">>,
          B |-> <<"w", "v">>, B2 |-> <<"s">>, D |-> <<"t">>]
MCnOut == [t \in MCTx |-> IF t = "cb" THEN 2 ELSE 1]
MCvin == [cb |-> {}, u |-> {<<"cb", 0>>}, w |-> {<<"cb", 0>>}, t |-> {<<"u", 0>>},
          v |-> {<<"w", 0>>}, s |-> {<<"cb", 1>>}]
MCnMint == [b \in MCBlock |-> IF b = "C" THEN 1 ELSE 0]
MCSubsidy(h) == 1
MCkernel == [b \in {"B2"} |-> <<"cb", 1>>]
=============================================================================
