------------------------------ MODULE MCModel ------------------------------
(* Instances of the two halves of MiDAS/model.cpp: counting the window,    *)
(* with its thread, and the search that thread runs.  A behaviour is of    *)
(* one of them.                                                            *)
EXTENDS MiniModel, GroupSearch

VARIABLE half

MCInit ==
  /\ Init /\ GSInit
  /\ half \in {"window", "search"}
  /\ half = "window" => ghot.real /\ ghot.known

Counts   == half = "window" /\ Next /\ UNCHANGED <<gvars, half>>
Searches == half = "search" /\ GSNext /\ UNCHANGED <<vars, half>>

allVars == <<vars, gvars, half>>

(* The fairness of each half, for its own behaviours.                      *)
MCSpec ==
  /\ MCInit /\ [][Counts \/ Searches]_allVars
  /\ WF_vars(half = "window" /\ \E lba \in Lbas : Write(lba))
  /\ WF_vars(half = "window" /\ CheckGinfo)
  /\ WF_vars(half = "window" /\ Reset)
  /\ WF_vars(half = "window" /\ ThreadNext)
  /\ WF_gvars(half = "search" /\ GSNext)

(* A search comes to its end (SearchEnds); the other half never begins one. *)
SearchIsOver == half = "search" => SearchEnds
=============================================================================
