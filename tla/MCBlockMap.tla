----------------------------- MODULE MCBlockMap -----------------------------
(* Instances of BlockMap for TLC. *)
EXTENDS BlockMap

\* File 1 may use every level, file 2 competes with it for blocks.
MCMaxBlocks == [f \in Files |-> IF f = 1 THEN MAXFILE ELSE 2]

\* balloc zeroes a block before it is read, so the old words of a free block
\* tell no two states apart.
View == <<addrs, size, [b \in used |-> store[b]], used, panicked>>
=============================================================================
