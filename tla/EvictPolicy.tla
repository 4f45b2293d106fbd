----------------------------- MODULE EvictPolicy -----------------------------
(***************************************************************************)
(* The victim policies of LogCache (subclasses of EvictPolicy), reduced to *)
(* what LogCache depends on: which segments a policy may hand out.  The    *)
(* scores that order them depend on ages and on floating-point weights; an *)
(* "ordered" policy may therefore hand out any segment it tracks.          *)
(*                                                                         *)
(*   ordered  FifoEvictPolicy, CbEvictPolicy: choose_segment removes,      *)
(*            update leaves an untracked segment alone; Cb does not add a  *)
(*            tracked segment twice and LogCache never asks Fifo to        *)
(*   greedy   GreedyEvictPolicy: choose_segment leaves its answer in the   *)
(*            heap, and add pushes a second node for a tracked segment     *)
(*   kth      KthCbEvictPolicy: as ordered, but update adds a segment that *)
(*            is not tracked; MiDASGreedyEvictPolicy does the same         *)
(***************************************************************************)
EXTENDS Integers

CONSTANTS NumSegments

Segs == 0 .. NumSegments - 1

(* tracked: segments with a handle.  orphans: heap nodes no handle points  *)
(* to any more, each with the valid count it was pushed with.              *)
NoSegments == [tracked |-> {}, orphans |-> {}]

Add(kind, policy, s, cnt) ==
  IF kind = "greedy" /\ s \in policy.tracked
  THEN [policy EXCEPT !.orphans = @ \cup {<<s, cnt>>}]
  ELSE [policy EXCEPT !.tracked = @ \cup {s}]

(* Slip: the handle stays.                                                 *)
SlipRemove(policy, s) == policy

Remove(policy, s) == [policy EXCEPT !.tracked = @ \ {s}]

(* Called when the valid count of a full segment has changed.              *)
Update(kind, policy, s) ==
  IF kind = "kth" THEN [policy EXCEPT !.tracked = @ \cup {s}] ELSE policy

(* The segments choose_segment may return; cnt holds the valid counts.     *)
(* The greedy heap is ordered by count, then by address.                   *)
Candidates(kind, policy, cnt) ==
  LET nodes == {<<s, cnt[s]>> : s \in policy.tracked} \cup policy.orphans
  IN IF kind = "greedy"
     THEN {n[1] : n \in {m \in nodes : \A o \in nodes :
                           m[2] < o[2] \/ (m[2] = o[2] /\ m[1] <= o[1])}}
     ELSE policy.tracked

(* The policy after choose_segment has returned s.                         *)
Chosen(kind, policy, s) == IF kind = "greedy" THEN policy ELSE Remove(policy, s)
=============================================================================
