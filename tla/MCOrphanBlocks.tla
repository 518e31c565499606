--------------------------- MODULE MCOrphanBlocks ---------------------------
(***************************************************************************)
(*   G - P - Q - R          P, Q, R, D, W in any order of arrival          *)
(*    \    \- W                                                            *)
(*     \- D                                                                *)
(* D stakes what Q stakes; R stakes what P stakes; W is proof of work and  *)
(* larger than the others.                                                 *)
(***************************************************************************)
EXTENDS OrphanBlocks

MCBlock == {"G", "P", "Q", "R", "W", "D"}
MCPrev == [P |-> "G", Q |-> "P", R |-> "Q", W |-> "P", D |-> "G"]
MCStake == [G |-> NULL, P |-> "s1", Q |-> "s2", R |-> "s1", W |-> NULL, D |-> "s2"]
MCSize == [b \in MCBlock |-> IF b = "W" THEN 2 ELSE 1]
=============================================================================
