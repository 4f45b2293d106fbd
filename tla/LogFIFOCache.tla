---------------------------- MODULE LogFIFOCache ----------------------------
(***************************************************************************)
(* The log-structured FIFO cache (log_fifo_cache.cpp): one ring of slots.  *)
(* Every write takes the slot at write_ptr; an older copy of the block is  *)
(* invalidated wherever it is; a slot that still holds a block when it is  *)
(* reached again is written back.  A write-back is of one block            *)
(* (EVICTED_BLOCK_SIZE is 1), so the loop over its neighbours does nothing.*)
(*                                                                         *)
(* A definition named Slip... is a plausible slip in the definition that   *)
(* follows it, and is used by no specification.                            *)
(***************************************************************************)
EXTENDS Integers

CONSTANTS
  FKeys,   \* the blocks the host writes
  FSlots,  \* log_buffer.size()
  FNone    \* no block, no slot

ASSUME LogFIFOAssumption == FSlots \in Nat \ {0} /\ FNone \notin FKeys \cup Nat

VARIABLES
  log_buffer,  \* the block of each slot, FNone if not valid
  mapping,     \* the slot of a cached block
  write_ptr,
  fcold,       \* the blocks mapped on the cold drive
  fkey,        \* the block of the call in progress
  fpc,         \* where the call is
  before       \* history: <<j, k>> if both are cached and j was last written before k

fvars == <<log_buffer, mapping, write_ptr, fcold, fkey, fpc, before>>

Ring == 0 .. FSlots - 1
FCached == {k \in FKeys : mapping[k] # FNone}

LogFIFOInit ==
  /\ log_buffer = [i \in Ring |-> FNone]
  /\ mapping = [k \in FKeys |-> FNone]
  /\ write_ptr = 0 /\ fcold = {} /\ fkey = FNone /\ fpc = "idle" /\ before = {}

(* The block leaves the cache: it is before and after no other.            *)
Forget(k) == before' = {p \in before : p[1] # k /\ p[2] # k}

(* Slip: the older copy stays valid.                                       *)
SlipInsertBegins(k) ==
  /\ fpc = "idle" /\ fkey' = k /\ fpc' = "room"
  /\ mapping' = [mapping EXCEPT ![k] = FNone]
  /\ fcold' = IF mapping[k] = FNone THEN fcold \ {k} ELSE fcold
  /\ Forget(k)
  /\ UNCHANGED <<log_buffer, write_ptr>>

(* batch_insert, for one block: the older copy goes, in the ring or on the *)
(* cold drive.                                                             *)
InsertBegins(k) ==
  /\ fpc = "idle" /\ fkey' = k /\ fpc' = "room"
  /\ IF mapping[k] # FNone
     THEN log_buffer' = [log_buffer EXCEPT ![mapping[k]] = FNone] /\ UNCHANGED fcold
     ELSE fcold' = fcold \ {k} /\ UNCHANGED log_buffer
  /\ mapping' = [mapping EXCEPT ![k] = FNone]
  /\ Forget(k)
  /\ UNCHANGED write_ptr

(* Slip: the block in the way is overwritten.                              *)
SlipEvictOldest ==
  /\ fpc = "room" /\ log_buffer[write_ptr] # FNone
  /\ mapping' = [mapping EXCEPT ![log_buffer[write_ptr]] = FNone]
  /\ Forget(log_buffer[write_ptr])
  /\ log_buffer' = [log_buffer EXCEPT ![write_ptr] = FNone]
  /\ UNCHANGED <<write_ptr, fcold, fkey, fpc>>

(* evict_one_block: the block in the way is written back.                  *)
EvictOldest ==
  /\ fpc = "room" /\ log_buffer[write_ptr] # FNone
  /\ LET old == log_buffer[write_ptr]
     IN /\ mapping' = IF mapping[old] = write_ptr THEN [mapping EXCEPT ![old] = FNone]
                                                  ELSE mapping
        /\ fcold' = fcold \cup {old}
        /\ Forget(old)
  /\ log_buffer' = [log_buffer EXCEPT ![write_ptr] = FNone]
  /\ UNCHANGED <<write_ptr, fkey, fpc>>

AppendBlock ==
  /\ fpc = "room" /\ log_buffer[write_ptr] = FNone
  /\ log_buffer' = [log_buffer EXCEPT ![write_ptr] = fkey]
  /\ mapping' = [mapping EXCEPT ![fkey] = write_ptr]
  /\ write_ptr' = (write_ptr + 1) % FSlots
  /\ before' = before \cup (FCached \X {fkey})
  /\ fkey' = FNone /\ fpc' = "idle"
  /\ UNCHANGED fcold

LogFIFONext == (\E k \in FKeys : InsertBegins(k)) \/ EvictOldest \/ AppendBlock

LogFIFOSpec == LogFIFOInit /\ [][LogFIFONext]_fvars

-----------------------------------------------------------------------------
(* How many slots write_ptr passes before it reaches this one.             *)
SlotsAhead(i) == IF i >= write_ptr THEN i - write_ptr ELSE i - write_ptr + FSlots

(* Read from write_ptr on, the ring holds the cached blocks in the order   *)
(* they were last written, with holes where blocks were rewritten: what is *)
(* written back is always the block not written for the longest time.  And *)
(* the mapping knows each of them where it is.                             *)
RingInOrder ==
  /\ \A j, k \in FCached : <<j, k>> \in before <=> SlotsAhead(mapping[j]) < SlotsAhead(mapping[k])
  /\ \A k \in FKeys, i \in Ring : mapping[k] = i <=> log_buffer[i] = k

(* The ring as a write-back cache of single blocks: no block is lost, none *)
(* is both cached and mapped below.  The block of a call in progress is    *)
(* counted as cached from the moment its older copy is invalid.            *)
FStore == INSTANCE TieredStore WITH
  Keys <- FKeys, Group <- [k \in FKeys |-> {k}],
  cached <- {k \in FKeys : mapping[k] # FNone \/ fkey = k}, cold <- fcold

LogFIFOImplementsTieredStore == FStore!TieredSpec
=============================================================================
