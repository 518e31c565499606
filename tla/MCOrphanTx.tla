----------------------------- MODULE MCOrphanTx -----------------------------
(***************************************************************************)
(*   G - C(cb) - E - A(u)               u and w spend the same output of   *)
(*                \- B(w) - B2          cb, t spends u, y spends the other *)
(*                                      output of cb, z spends t and y, n  *)
(*                                      spends w                           *)
(* t, y, z and n come as loose transactions in any order before, between   *)
(* and after the blocks; n passes the checks made before its inputs are    *)
(* known and fails the later ones.                                         *)
(***************************************************************************)
EXTENDS OrphanTx

MCBlock == {"G", "C", "E", "A", "B", "B2"}
MCPrev == [G |-> NULL, C |-> "G", E |-> "C", A |-> "E", B |-> "E", B2 |-> "B"]
MCHeight == [G |-> 0, C |-> 1, E |-> 2, A |-> 3, B |-> 3, B2 |-> 4]
MCTrust == [G |-> 1, C |-> 2, E |-> 3, A |-> 4, B |-> 4, B2 |-> 5]
MCTrunk == {"G", "C", "E"}
MCBranch == [G |-> {"G"}, C |-> {"G", "C"}, E |-> MCTrunk, A |-> MCTrunk \cup {"A"},
             B |-> MCTrunk \cup {"B"}, B2 |-> MCTrunk \cup {"B", "B2"}]
MCTx == {"cb", "u", "w", "t", "y", "z", "n"}
MCvtx == [G |-> <<>>, C |-> <<"cb">>, E |-> <<>>, A |-> <<"u">>, B |-> <<"w">>, B2 |-> <<>>]
MCnOut == [x \in MCTx |-> IF x = "cb" THEN 2 ELSE 1]
MCvin == [cb |-> {}, u |-> {<<"cb", 0>>}, w |-> {<<"cb", 0>>}, t |-> {<<"u", 0>>},
          y |-> {<<"cb", 1>>}, z |-> {<<"t", 0>>, <<"y", 0>>}, n |-> {<<"w", 0>>}]
MCGoodTx == MCTx \ {"n"}
MCnMint == [b \in MCBlock |-> 0]
MCSubsidy(h) == 1
MCkernel == [b \in {} |-> <<"cb", 0>>]
=============================================================================
