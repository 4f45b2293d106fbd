--------------------------- MODULE VictimPolicies ---------------------------
(***************************************************************************)
(* The containers inside the victim policies that EvictPolicy reduces to a *)
(* set, with the calls LogCache makes to the only or the first policy of a *)
(* configuration:                                                          *)
(*                                                                         *)
(*   zero       FifoZeroEvictPolicy: a list, and a list of segments in     *)
(*              which nothing is valid                                     *)
(*   selective  SelectiveFifoEvictPolicy: a list per class                 *)
(*   multi      MultiQueueEvictPolicy: a list per age at the time of add   *)
(*   lambda     LambdaEvictPolicy: a heap; choose_segment leaves its       *)
(*              answer there                                               *)
(*   midas      MiDASGreedyEvictPolicy: a heap per stream whose outdated   *)
(*              entries are passed over                                    *)
(*                                                                         *)
(* Of the five only selective is ever the first of two policies: the       *)
(* second, whose victims are removed from the first, is Greedy, Cb or      *)
(* another selective (createCache, icache.cpp:286-545).                    *)
(*                                                                         *)
(* A definition named Slip... is a plausible slip in the definition that   *)
(* follows it, and is used by no specification.                            *)
(***************************************************************************)
EXTENDS Integers, Sequences, FiniteSets, SequencesExt, FiniteSetsExt

CONSTANTS
  PSegs,    \* the segments
  PSize,    \* blocks of a segment
  PQueues,  \* lists, classes, streams: 0 .. PQueues - 1
  PMaxGen,  \* bound: entries pushed to the heaps of midas
  PNone     \* no segment, no version

ASSUME VictimPoliciesAssumption ==
  /\ IsFiniteSet(PSegs) /\ PSize \in Nat \ {0} /\ PMaxGen \in Nat
  /\ PQueues \in Nat \ {0, 1} /\ PNone \notin PSegs \cup (Nat \X Nat)

Queues == 0 .. PQueues - 1
Kinds == {"zero", "selective", "multi", "lambda", "midas"}

VARIABLES
  pkind,
  pcnt,      \* valid_cnt
  pclass,    \* class_num
  pstate,    \* "free", "full" (active), "sealed", "victim"
  queue,     \* the lists: queue, and queue 1 of zero is zero_queue
  heap,      \* queues_ of midas: entries <<valid count, generation, segment, stream>>
  version,   \* version_ of midas: <<generation, stream>>
  gen,       \* generation_counter_
  nextq,     \* next_stream_
  padded     \* history: the sealed segments in the order they were added

containers == <<queue, heap, version, gen, nextq>>
pvars == <<pkind, pcnt, pclass, pstate, containers, padded>>

VictimPoliciesInit ==
  /\ pkind \in Kinds
  /\ pcnt = [s \in PSegs |-> 0] /\ pclass = [s \in PSegs |-> 0]
  /\ pstate = [s \in PSegs |-> "free"]
  /\ queue = [q \in Queues |-> <<>>]
  /\ heap = {} /\ version = [s \in PSegs |-> PNone] /\ gen = 0 /\ nextq = 0
  /\ padded = <<>>

Sealed == {s \in PSegs : pstate[s] = "sealed"}

(* The list a segment is added to.                                         *)
QueueOf(s) ==
  CASE pkind = "zero" -> {IF pcnt[s] = 0 THEN 1 ELSE 0}
    [] pkind = "selective" -> {pclass[s]}
    [] pkind = "multi" -> Queues
    [] OTHER -> {0}

(* push_entry: what was pushed for the segment before is outdated.         *)
PushEntry(s, cnt) ==
  /\ gen < PMaxGen /\ gen' = gen + 1
  /\ heap' = heap \cup {<<cnt, gen + 1, s, pclass[s]>>}
  /\ version' = [version EXCEPT ![s] = <<gen + 1, pclass[s]>>]
  /\ UNCHANGED <<queue, nextq>>

(* add.                                                                    *)
AddTo(s) ==
  IF pkind = "midas" THEN PushEntry(s, pcnt[s])
  ELSE /\ \E q \in QueueOf(s) : queue' = [queue EXCEPT ![q] = Append(@, s)]
       /\ UNCHANGED <<heap, version, gen, nextq>>

(* Slip: a segment whose last block goes stays where it is.                *)
SlipUpdateOf(s, cnt) ==
  CASE pkind = "midas" -> PushEntry(s, cnt)
    [] OTHER -> UNCHANGED containers

(* update, after a block of a full segment is no longer valid.  Whether    *)
(* the segment is tracked matters to zero, and not to midas.               *)
UpdateOf(s, cnt) ==
  CASE pkind = "midas" -> PushEntry(s, cnt)
    [] pkind = "zero" /\ cnt = 0 /\ \E q \in Queues : Contains(queue[q], s) ->
         /\ queue' = [queue EXCEPT ![0] = RemoveFirst(@, s), ![1] = Append(@, s)]
         /\ UNCHANGED <<heap, version, gen, nextq>>
    [] OTHER -> UNCHANGED containers

(* remove: from the list or heap it is in, if it is in one; the entries of *)
(* midas stay and lose their version.  (A segment that zero tracks is not  *)
(* removed: it has no second policy.)                                      *)
RemoveFrom(s) ==
  /\ queue' = [q \in Queues |-> RemoveFirst(queue[q], s)]
  /\ version' = [version EXCEPT ![s] = PNone]
  /\ UNCHANGED <<heap, gen, nextq>>

(* Slip: the lists are gone through the other way.                         *)
SlipFirstListed ==
  {Head(queue[q]) : q \in {p \in Queues : queue[p] # <<>> /\ \A r \in Queues :
                             r < p => queue[r] = <<>>}}

(* The front of the list choose_segment takes: the segments with nothing   *)
(* valid first, the highest class or age first.                            *)
FirstListed ==
  {Head(queue[q]) : q \in {p \in Queues : queue[p] # <<>> /\ \A r \in Queues :
                             r > p => queue[r] = <<>>}}

Live(x) == version[x[3]] = <<x[2], x[4]>>
Before(x, y) == x[1] < y[1] \/ (x[1] = y[1] /\ x[2] < y[2])

(* choose_segment of midas: from next_stream_ on, the first stream with a  *)
(* live entry; the outdated ones on the way, and the chosen one, are popped *)
(* while its version stays.                                                *)
Turn(q) == (q - nextq + PQueues) % PQueues
ChooseEntry(x) ==
  /\ x \in heap /\ Live(x)
  /\ \A y \in heap : Live(y) => \/ Turn(x[4]) < Turn(y[4])
                                \/ x[4] = y[4] /\ ~Before(y, x)
  /\ heap' = {y \in heap : \/ Turn(y[4]) > Turn(x[4])
                           \/ y[4] = x[4] /\ Before(x, y)}
  /\ nextq' = (x[4] + 1) % PQueues
  /\ UNCHANGED <<queue, version, gen>>

(* choose_segment returns s.                                               *)
ChooseSegment(s) ==
  CASE pkind = "midas" -> \E x \in heap : x[3] = s /\ ChooseEntry(x)
    [] pkind = "lambda" -> Contains(queue[0], s) /\ UNCHANGED containers
    [] OTHER -> /\ s \in FirstListed
                /\ queue' = [q \in Queues |-> RemoveFirst(queue[q], s)]
                /\ UNCHANGED <<heap, version, gen, nextq>>

-----------------------------------------------------------------------------
(* The calls.  A segment fills up; the block written last is valid.        *)
Fills(s) ==
  /\ pstate[s] = "free"
  /\ \E n \in 1 .. PSize : pcnt' = [pcnt EXCEPT ![s] = n]
  /\ \E c \in Queues : pclass' = [pclass EXCEPT ![s] = c]
  /\ pstate' = [pstate EXCEPT ![s] = "full"]
  /\ UNCHANGED <<pkind, containers, padded>>

(* A block of a full segment is overwritten.                               *)
Overwritten(s) ==
  /\ pstate[s] \in {"full", "sealed"} /\ pcnt[s] > 0
  /\ pcnt' = [pcnt EXCEPT ![s] = @ - 1]
  /\ UpdateOf(s, pcnt[s] - 1)
  /\ UNCHANGED <<pkind, pclass, pstate, padded>>

Seal(s) ==
  /\ pstate[s] = "full"
  /\ AddTo(s)
  /\ pstate' = [pstate EXCEPT ![s] = "sealed"]
  /\ padded' = Append(padded, s)
  /\ UNCHANGED <<pkind, pcnt, pclass>>

(* Garbage collection takes a victim, one at a time.  (Midas may return a  *)
(* full segment that is still active; what LogCache does to a segment that *)
(* it empties and fills at once is not followed here.)                     *)
NoVictim == \A s \in PSegs : pstate[s] # "victim"

Choose(s) ==
  /\ NoVictim /\ s \in Sealed
  /\ ChooseSegment(s)
  /\ pstate' = [pstate EXCEPT ![s] = "victim"]
  /\ padded' = RemoveFirst(padded, s)
  /\ UNCHANGED <<pkind, pcnt, pclass>>

(* The second policy's victim: before it is taken the first policy was     *)
(* asked for its own, which was added again.                               *)
Consult(s) ==
  /\ NoVictim /\ pkind = "selective"
  /\ s \in FirstListed
  /\ queue' = [queue EXCEPT ![pclass[s]] = Append(RemoveFirst(@, s), s)]
  /\ padded' = Append(RemoveFirst(padded, s), s)
  /\ \E v \in Sealed : pstate' = [pstate EXCEPT ![v] = "victim"]
  /\ UNCHANGED <<pkind, pcnt, pclass, heap, version, gen, nextq>>

(* reset_segment, once its blocks are gone.                                *)
Reset(s) ==
  /\ pstate[s] = "victim"
  /\ pcnt' = [pcnt EXCEPT ![s] = 0]
  /\ RemoveFrom(s)
  /\ pstate' = [pstate EXCEPT ![s] = "free"]
  /\ padded' = RemoveFirst(padded, s)
  /\ UNCHANGED <<pkind, pclass>>

VictimPoliciesNext ==
  \E s \in PSegs : Fills(s) \/ Overwritten(s) \/ Seal(s) \/ Choose(s) \/ Consult(s) \/ Reset(s)

VictimPoliciesSpec == VictimPoliciesInit /\ [][VictimPoliciesNext]_pvars

-----------------------------------------------------------------------------
Times(s) == Cardinality({x \in Queues \X (1 .. Cardinality(PSegs)) :
                           x[2] <= Len(queue[x[1]]) /\ queue[x[1]][x[2]] = s})

(* A policy holds every sealed segment once, and no other: one it lost     *)
(* would never be collected, one it kept would be collected while it is    *)
(* filled again.  FifoZero's second list holds those with nothing valid.   *)
(* The live entry of midas has the current count; midas also has entries   *)
(* of full segments that are still active.                                 *)
VictimsTracked ==
  \A s \in PSegs :
    /\ pkind # "midas" /\ pstate[s] # "victim" => Times(s) = IF s \in Sealed THEN 1 ELSE 0
    /\ pkind = "zero" /\ s \in Sealed => (pcnt[s] = 0 <=> Contains(queue[1], s))
    /\ pkind = "midas" =>
         LET live == {x \in heap : x[3] = s /\ Live(x)}
         IN /\ s \in Sealed => {x[1] : x \in live} = {pcnt[s]} /\ Cardinality(live) = 1
            /\ pstate[s] \in {"free", "victim"} => live = {}

(* The first policy has chosen s, and not been asked about it only.        *)
Picked(s) == Contains(padded, s) /\ ~Contains(padded', s) /\ pstate'[s] = "victim"

Older(s, t) ==
  \E i, j \in 1 .. Len(padded) : i < j /\ padded[i] = s /\ padded[j] = t

(* What a choice takes: FifoZero an empty segment if there is one;         *)
(* SelectiveFifo one of the highest class; these, and MultiQueue in the    *)
(* list it looks at, otherwise the one added first; midas the one of its   *)
(* stream with the fewest valid blocks, by counts of this moment.          *)
ChosenInOrder ==
  [][\A s \in PSegs : Picked(s) =>
       \A t \in Sealed \ {s} :
         CASE pkind = "zero" -> pcnt[s] = 0 \/ (pcnt[t] > 0 /\ Older(s, t))
           [] pkind = "selective" -> \/ pclass[s] > pclass[t]
                                     \/ pclass[s] = pclass[t] /\ Older(s, t)
           [] pkind = "multi" ->
                \A q \in Queues : Contains(queue[q], s) /\ Contains(queue[q], t) => Older(s, t)
           [] pkind = "midas" -> pclass[s] = pclass[t] => pcnt[s] <= pcnt[t]
           [] OTHER -> TRUE
     ]_pvars
=============================================================================
