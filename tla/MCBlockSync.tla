---------------------------- MODULE MCBlockSync -----------------------------
(***************************************************************************)
(*   G - A - B - C - D      y starts with the chain up to C and finds D    *)
(*    \- P - Q              x starts with the branch up to P, may find Q   *)
(*                                                                         *)
(* With two blocks per getblocks y's chain comes in two batches.  Q has    *)
(* more trust than A and less than B, so x may change sides twice.         *)
(***************************************************************************)
EXTENDS BlockSync

MCBlock == {"G", "A", "B", "C", "D", "P", "Q"}
MCPrev == [G |-> NULL, A |-> "G", B |-> "A", C |-> "B", D |-> "C", P |-> "G", Q |-> "P"]
MCHeight == [G |-> 0, A |-> 1, B |-> 2, C |-> 3, D |-> 4, P |-> 1, Q |-> 2]
MCTrust == [G |-> 1, P |-> 2, A |-> 3, Q |-> 4, B |-> 5, C |-> 6, D |-> 7]
MCBranch == [G |-> {"G"}, A |-> {"G", "A"}, B |-> {"G", "A", "B"}, C |-> {"G", "A", "B", "C"},
             D |-> {"G", "A", "B", "C", "D"}, P |-> {"G", "P"}, Q |-> {"G", "P", "Q"}]
MCKnown == [x |-> {"G", "P"}, y |-> {"G", "A", "B", "C"}]
MCFresh == [x |-> {"Q"}, y |-> {"D"}]
MCEmpty == [b \in MCBlock |-> <<>>]
MCZero == [b \in MCBlock |-> 0]
MCNone == [b \in {} |-> 0]
MCSubsidy(h) == 0
=============================================================================
