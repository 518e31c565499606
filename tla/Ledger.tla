------------------------------- MODULE Ledger -------------------------------
(***************************************************************************)
(* What the chain database promises to everything that reads it: a node    *)
(* knows a growing set of blocks, follows one of their chains, and holds   *)
(* the unspent outputs of exactly that chain.  Chain and outputs change in *)
(* one step, to a chain with more trust that is a ledger, or back along    *)
(* the same chain when LoadBlockIndex finds a bad block.                   *)
(*                                                                         *)
(* The loop over vpindexSecondary in SetBestChain may leave this contract: *)
(* after it has broken off (broken), only the set of blocks is kept.       *)
(***************************************************************************)
EXTENDS BlockTree

VARIABLES known, best, unspent, broken

ledger == <<known, best, unspent, broken>>

\* The unspent outputs of the chain that ends with b.
Unspent(b) == {op \in OutPoint : /\ PrevTx(op) \in ChainTx(b)
                                 /\ PrevN(op) < nOut[PrevTx(op)]
                                 /\ \A t \in ChainTx(b) : op \notin vin[t]}

Init == known = {Genesis} /\ best = Genesis /\ unspent = {} /\ broken = FALSE

\* A block is learnt after its parent.
Learn(b) ==
    /\ b \notin known /\ hashPrevBlock[b] \in known
    /\ known' = known \cup {b}
    /\ UNCHANGED <<best, unspent, broken>>

Switch(b) ==
    /\ ~ broken
    /\ IsLedger(b)
    /\ best' = b
    /\ unspent' = Unspent(b)
    /\ UNCHANGED <<known, broken>>

\* The node moves to a known chain with more trust.
Advance(b) == b \in known /\ nChainTrust[b] > nChainTrust[best] /\ Switch(b)

\* The node gives up the end of its chain.
StepBack(b) == b \in Branch[best] /\ Switch(b)

Break == broken' = TRUE /\ UNCHANGED <<known, best, unspent>>

\* After Break nothing but the block index is promised.
Drift ==
    /\ broken
    /\ best' \in known
    /\ unspent' \in SUBSET OutPoint
    /\ UNCHANGED <<known, broken>>

Next == (\E b \in Block : Learn(b) \/ Advance(b) \/ StepBack(b)) \/ Break \/ Drift

Spec == Init /\ [][Next]_ledger
=============================================================================
