------------------------------ MODULE MCWallet ------------------------------
(***************************************************************************)
(* A small universe for Wallet.  The owner holds both outputs of the       *)
(* coinbase cb.  t spends the first and has two outputs to the owner, u    *)
(* spends the first of them, d the second, the output of u and the second  *)
(* output of cb; s, the owner's coinstake, spends the latter too.  The     *)
(* owner sends t, u and d; s and the coinbase come in blocks, and t and u  *)
(* may come there from another copy of the wallet.  The copies that d      *)
(* carries put u ahead of t, which it spends.                              *)
(*                                                                         *)
(*     G - C(cb) - E --- A(t) --- A2(u)                                    *)
(*                  \                                                      *)
(*                   \-- B(s) --- B2(t)                                    *)
(*                                                                         *)
(* Trust: B beats A, A2 beats B, B2 beats A2.  The hashes put a child      *)
(* before its parent: d, u, then t.                                        *)
(***************************************************************************)
EXTENDS Wallet

MCBlock == {"G", "C", "E", "A", "A2", "B", "B2"}
MCPrev == [G |-> NULL, C |-> "G", E |-> "C", A |-> "E", A2 |-> "A", B |-> "E", B2 |-> "B"]
MCHeight == [b \in MCBlock |-> CASE b = "G" -> 0 [] b = "C" -> 1 [] b = "E" -> 2
                                 [] b \in {"A", "B"} -> 3 [] OTHER -> 4]
MCTrust == [G |-> 1, C |-> 2, E |-> 3, A |-> 4, B |-> 5, A2 |-> 6, B2 |-> 7]
MCTrunk == {"G", "C", "E"}
MCBranch == [G |-> {"G"}, C |-> {"G", "C"}, E |-> MCTrunk, A |-> MCTrunk \cup {"A"},
             A2 |-> MCTrunk \cup {"A", "A2"}, B |-> MCTrunk \cup {"B"},
             B2 |-> MCTrunk \cup {"B", "B2"}]
MCTx == {"cb", "t", "u", "d", "s"}
MCvtx == [G |-> <<>>, C |-> <<"cb">>, E |-> <<>>, A |-> <<"t">>, A2 |-> <<"u">>,
          B |-> <<"s">>, B2 |-> <<"t">>]
MCnOut == [x \in MCTx |-> IF x \in {"cb", "t", "s"} THEN 2 ELSE 1]
MCvin == [cb |-> {}, t |-> {<<"cb", 0>>}, u |-> {<<"t", 0>>},
          d |-> {<<"cb", 1>>, <<"t", 1>>, <<"u", 0>>}, s |-> {<<"cb", 1>>}]
MCvinTx == [cb |-> <<>>, t |-> <<"cb">>, u |-> <<"t">>, d |-> <<"cb", "t", "u">>,
            s |-> <<"cb">>]
MCMine == {<<"cb", 0>>, <<"cb", 1>>, <<"t", 0>>, <<"t", 1>>, <<"u", 0>>, <<"s", 1>>}
MCnMint == [b \in MCBlock |-> IF b = "C" THEN 1 ELSE 0]
MCSubsidy(h) == 1
MCkernel == [b \in {"B"} |-> <<"cb", 1>>]
MCHashOrder == <<"d", "u", "t", "s", "cb">>
=============================================================================
