------------------------------ MODULE MCAddrMan ------------------------------
(***************************************************************************)
(* Three addresses, three sources.  a1 and a2 share the tried slot k1; from *)
(* source s1 all three go to bucket 0, where a1 and a3 also share a         *)
(* position; from s2 a1 goes to bucket 1, a2 and a3 to bucket 2; from s3    *)
(* all go to bucket 2, so that a1 may reach its limit of two buckets.       *)
(***************************************************************************)
EXTENDS AddrMan

MCAddr == {"a1", "a2", "a3"}
MCSource == {"s1", "s2", "s3"}
MCNewBucket == [a1 |-> [s1 |-> 0, s2 |-> 1, s3 |-> 2], a2 |-> [s1 |-> 0, s2 |-> 2, s3 |-> 2],
                a3 |-> [s1 |-> 0, s2 |-> 2, s3 |-> 2]]
MCNewPos == [a1 |-> [b \in 0 .. 2 |-> 0], a2 |-> [b \in 0 .. 2 |-> IF b = 2 THEN 0 ELSE 1],
             a3 |-> [b \in 0 .. 2 |-> 0]]
MCTriedSlot == [a1 |-> "k1", a2 |-> "k1", a3 |-> "k2"]
=============================================================================
