---------------------------- MODULE MCMidasCache ----------------------------
(* A small MiDAS cache: segments of two pages, three slots, four keys that *)
(* have the same home, configurations of three and of four groups.         *)
EXTENDS MidasCache

(* In the last one, group 1 has no segment but those held back.            *)
MCConfigs == {<<2, 2, 3>>, <<2, 2, 2, 2>>, <<2, 1, 3>>}

(* Segments are alike, whatever their numbers, and so are keys with the    *)
(* same home: two states that differ by a renaming of them are one.        *)
Content(s) == <<e.page[s], e.inv[s], e.gnum[s]>>
Contents(segs) ==
  [c \in {Content(s) : s \in segs} |-> Cardinality({s \in segs : Content(s) = c})]

KeyState(k) == <<slotOf[k], k \in compacted>>
KeyStates(h) ==
  LET alike == {k \in Keys : k % LbaNum = h}
  IN [t \in {KeyState(k) : k \in alike} |-> Cardinality({k \in alike : KeyState(k) = t})]

Renamed ==
  <<[q \in Groups |-> Contents(e.queue[q])],
    [g \in Groups |-> IF e.active[g].seg = Nil THEN Nil
                      ELSE <<e.active[g].off, Content(e.active[g].seg)>>],
    Cardinality(e.free), {l \in Lbas : e.where[l] = Nil},
    e.total, e.size, e.naive, e.mida, e.vp, e.hf, e.hotLbas, e.coldTw, e.commit, e.watch,
    e.err, e.moved, e.refused, e.stop, [h \in Lbas |-> KeyStates(h)], pc, turn>>
=============================================================================
