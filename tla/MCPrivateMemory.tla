--------------------------- MODULE MCPrivateMemory ---------------------------
(* PrivateMemory for TLC: one corrected item `x1` and its successor `x2` in the *)
(* archive, one item `l` from before the ledger, the others new.              *)
EXTENDS PrivateMemory

CONSTANTS x1, x2

ArchivedChain == [i \in Archive |-> IF i = x2 THEN x1 ELSE NoItem]
=============================================================================
