----------------------------- MODULE MCLRUCache -----------------------------
(* Model-checking instances of LRUCache. *)
EXTENDS LRUCache, TLC

(* Blocks are interchangeable; their addresses are numbers and are not.    *)
KeySymmetry == Permutations(Keys)
=============================================================================
