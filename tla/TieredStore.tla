----------------------------- MODULE TieredStore -----------------------------
(***************************************************************************)
(* What a write-back cache in front of a cold drive promises, with its     *)
(* segments, policies and garbage collection hidden: where the newest copy *)
(* of every block is.  A written block is in the cache; a write-back moves *)
(* it, with the whole aligned group it belongs to, to the cold drive.      *)
(* Nothing else moves data.                                                *)
(***************************************************************************)
CONSTANTS
  Keys,    \* the blocks of the address space
  Group    \* [Keys -> SUBSET Keys]: the blocks one write-back writes together

VARIABLES
  cached,  \* the blocks whose newest copy is in the cache
  cold     \* the blocks that are mapped on the cold drive

TieredInit == cached = {} /\ cold = {}

(* A host write: the cold copy, if there is one, is trimmed.               *)
WriteKey(k) ==
  /\ cached' = cached \cup {k}
  /\ cold' = cold \ {k}

(* The cache makes room: block k and its group go to the cold drive.       *)
WriteBack(k) ==
  /\ k \in cached
  /\ cached' = cached \ Group[k]
  /\ cold' = cold \cup Group[k]

TieredNext == \E k \in Keys : WriteKey(k) \/ WriteBack(k)

TieredSpec == TieredInit /\ [][TieredNext]_<<cached, cold>>

(* No block has two newest copies.                                         *)
OneCopy == cached \cap cold = {}

(* What is stored stays stored.                                            *)
NothingForgotten == cached \cup cold \subseteq cached' \cup cold'
=============================================================================
