------------------------------ MODULE MCArena ------------------------------
(* Model-checking instance of Arena: blocks of four bytes aligned to two,  *)
(* allocations that leave an odd position, that fill a block and that need *)
(* a block of their own, and enough blocks that addresses are reused.      *)
EXTENDS Arena
=============================================================================
