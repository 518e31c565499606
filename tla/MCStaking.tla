----------------------------- MODULE MCStaking -----------------------------
(***************************************************************************)
(* a spends an old coin and pays little; b spends a and c and pays more;   *)
(* c spends another old coin; d spends the coin of c, and e a coin that    *)
(* could be staked.  The block has room for three of them.  b is younger   *)
(* than a, so that a slot of two seconds may cut between them.  d and c are *)
(* locked until a time is past: the test network's pool takes them before. *)
(***************************************************************************)
EXTENDS Staking

MCTx == {"a", "b", "c", "d", "e"}
MCvin == [a |-> {<<"o", 0>>}, b |-> {<<"a", 0>>, <<"c", 0>>}, c |-> {<<"o", 1>>},
          d |-> {<<"o", 1>>}, e |-> {<<"o", 2>>}]
MCTime == [a |-> 1, b |-> 3, c |-> 1, d |-> 1, e |-> 3]
MCLockTime == [a |-> 0, b |-> 0, c |-> 2, d |-> 4, e |-> 0]
MCFee == [a |-> 5, b |-> 15, c |-> 10, d |-> 5, e |-> 10]
MCSize == [t \in MCTx |-> 1]
MCStakeCoin == {<<"o", 2>>, <<"o", 3>>}
=============================================================================
