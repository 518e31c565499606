----------------------------- MODULE MCKeyPool ------------------------------
(***************************************************************************)
(* A pool of one or two keys: a locked wallet drains it while a miner's    *)
(* block holds an index, and the next TopUpKeyPool starts from 1 again.    *)
(***************************************************************************)
EXTENDS KeyPool
=============================================================================
