------------------------------ MODULE MCParts ------------------------------
(* Instances of the parts that share no state with each other: two small   *)
(* caches, the victim policies, a stream policy and three offline tools. A *)
(* behaviour is of one of them, the others stay where they begin.          *)
EXTENDS LogFIFOCache, FairyWren, VictimPolicies, SepBIT, DPOptimizer, MrcCalculator, ParallelScan

MCNone == -1
MCShapes == {<<3, 3>>, <<4, 2>>, <<2, 3>>}
MCRanges == {<<0, 2>>, <<1, 4>>, <<2, 3>>, <<5, 6>>}
SegSymmetry == Permutations(PSegs)

VARIABLE part

restVars == <<fvars, fwVars, pvars, svars, dvars, mvars, uvars>>
allVars == <<part, restVars>>

PartsInit ==
  /\ part \in {"logfifo", "fairywren", "victims", "sepbit", "optimizer", "mrc", "scan"}
  /\ LogFIFOInit /\ FWInit /\ VictimPoliciesInit /\ SepBITInit /\ DPInit /\ MrcInit /\ ScanInit
  /\ part # "victims" => pkind = "zero"
  /\ part # "optimizer" => dinterval = Min(DIntervals)
  /\ part # "mrc" => type = "LRU" /\ shape = <<3, 3>>
  /\ part # "scan" => newlines = {} /\ row[0] = <<0, 2>>

PartsNext ==
  /\ UNCHANGED part
  /\ \/ part = "logfifo" /\ LogFIFONext /\ UNCHANGED <<fwVars, pvars, svars, dvars, mvars, uvars>>
     \/ part = "fairywren" /\ FWNext /\ UNCHANGED <<fvars, pvars, svars, dvars, mvars, uvars>>
     \/ part = "victims" /\ VictimPoliciesNext /\ UNCHANGED <<fvars, fwVars, svars, dvars, mvars, uvars>>
     \/ part = "sepbit" /\ SepBITNext /\ UNCHANGED <<fvars, fwVars, pvars, dvars, mvars, uvars>>
     \/ part = "optimizer" /\ DPNext /\ UNCHANGED <<fvars, fwVars, pvars, svars, mvars, uvars>>
     \/ part = "mrc" /\ MrcNext /\ UNCHANGED <<fvars, fwVars, pvars, svars, dvars, uvars>>
     \/ part = "scan" /\ ScanNext /\ UNCHANGED <<fvars, fwVars, pvars, svars, dvars, mvars>>

(* The blocks of FairyWren are alike: two states that differ in their names *)
(* only have the same occupied slots and as many blocks on the drive.      *)
Occupied == [s \in Segments |-> {i \in Slots : c.slot[s][i] # Nil}]
Anonymous ==
  IF IndexExact
  THEN [c EXCEPT !.slot = Occupied, !.where = Nil, !.drive = Cardinality(@)]
  ELSE c

PartsView == <<part, Anonymous, step, fvars, pvars, svars, dvars, mvars, uvars>>

PartsSpec == PartsInit /\ [][PartsNext]_allVars
=============================================================================
