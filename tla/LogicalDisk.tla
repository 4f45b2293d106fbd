----------------------------- MODULE LogicalDisk -----------------------------
(***************************************************************************)
(* What a drive promises to the layer above it, with all of its internals  *)
(* hidden: the set of logical pages that hold data, and whether a write is *)
(* in progress.  A page holds data from the moment a write of it is        *)
(* accepted until the user trims it.  Nothing the drive does on its own    *)
(* account while it completes a write (garbage collection, block erases,   *)
(* allocation) changes that set.                                           *)
(*                                                                         *)
(* PageMappingFTL (FTL.tla) is shown to implement this specification; the  *)
(* cache models use such a disk as the cold tier they write back to.       *)
(***************************************************************************)

CONSTANT Pages          \* the logical pages of the drive

VARIABLES
  stored,               \* the logical pages that hold data
  busy                  \* is a write in progress?

DiskInit == stored = {} /\ busy = FALSE

DiskBeginWrite(p) ==
  /\ ~busy
  /\ stored' = stored \cup {p}
  /\ busy' = TRUE

DiskEndWrite ==
  /\ busy
  /\ stored' = stored
  /\ busy' = FALSE

DiskTrim(p) ==
  /\ ~busy
  /\ stored' = stored \ {p}
  /\ busy' = FALSE

DiskNext == DiskEndWrite \/ \E p \in Pages : DiskBeginWrite(p) \/ DiskTrim(p)

DiskSpec == DiskInit /\ [][DiskNext]_<<stored, busy>>
=============================================================================
