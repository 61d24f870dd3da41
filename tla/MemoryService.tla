--------------------------- MODULE MemoryService ----------------------------
(***************************************************************************)
(* agents/memory_service.py as operators on a memory: what add, decay_step *)
(* and a clone make of it, what its pinned Merkle root depends on, and     *)
(* what an archive of it must look like to be loaded.                      *)
(*                                                                         *)
(* A vector's code is the text it embeds together with the centroid it was *)
(* centered on; hashing is collision-free, so a root is what its leaves    *)
(* hash.  A weight exp(-f) is kept as its exponent f, in days of a working *)
(* entry's decay, and is under THETA when f has reached Limit.  The        *)
(* similarity of vectors is left out: a query may find any entry first.    *)
(***************************************************************************)
EXTENDS Naturals, SequencesExt

CONSTANTS
  Rate,       \* decay_lambdas, by kind, per unit of time
  Limit,      \* the exponent from which a weight is under THETA
  NoFile, Torn

ASSUME MemoryAssumption ==
  /\ DOMAIN Rate = {"working", "episodic", "semantic"}
  /\ \A k \in DOMAIN Rate : Rate[k] \in Nat
  /\ Limit \in Nat \ {0}

\* No entry; the centroid is armed by the first add, unless it was set before.
EmptyMemory == [centroid |-> <<"unset">>, entries |-> << >>]
Centered(c) == [EmptyMemory EXCEPT !.centroid = c]
Origin(m) == IF m.centroid = <<"unset">> THEN <<"zero">> ELSE m.centroid

Ids(m) == DOMAIN m.entries
Count(m) == Cardinality(Ids(m))

\* An entry as add makes it at time t; "pinned" is both a kind and a flag.
Entry(m, kind, pinned, text, t) ==
  LET fixed == pinned \/ kind = "pinned"
  IN [kind |-> IF fixed THEN "pinned" ELSE kind, pinned |-> fixed, text |-> text,
      code |-> <<text, Origin(m)>>, faded |-> 0, stamp |-> t]

\* add replaces an entry of the same trace.
Added(m, id, e) ==
  [centroid |-> Origin(m),
   entries |-> [i \in Ids(m) \cup {id} |-> IF i = id THEN e ELSE m.entries[i]]]
Add(m, id, kind, pinned, text, t) == Added(m, id, Entry(m, kind, pinned, text, t))

\* decay_step at time t: a clock behind the entry's stamp takes nothing off.
Aged(e, t) ==
  IF e.pinned THEN [e EXCEPT !.stamp = t]
  ELSE [e EXCEPT !.stamp = t,
                 !.faded = IF t > e.stamp THEN @ + Rate[e.kind] * (t - e.stamp) ELSE @]
Evicted(e) == ~e.pinned /\ e.faded >= Limit

Decayed(m, t) ==
  LET aged == [id \in Ids(m) |-> Aged(m.entries[id], t)]
  IN [m EXCEPT !.entries = Restrict(aged, {id \in Ids(m) : ~Evicted(aged[id])})]

\* The root sees traces, codes and payloads of the pinned entries, in order.
Pinned(m) == {id \in Ids(m) : m.entries[id].pinned}
LeafWithStamp(e) == <<e.code, e.text, e.stamp>>
Leaf(e) == <<e.code, e.text>>
Root(m) == [id \in Pinned(m) |-> Leaf(m.entries[id])]

\* A clone for a child: the pinned entries and the freshest of the others, by
\* weight, then by time (equals in any order).
Fresher(e, d) ==
  \/ e.faded < d.faded
  \/ e.faded = d.faded /\ e.stamp >= d.stamp
Freshest(m, cap) ==
  LET loose == Ids(m) \ Pinned(m)
      size == IF Cardinality(loose) < cap THEN Cardinality(loose) ELSE cap
  IN {S \in kSubset(size, loose) :
        \A i \in S : \A j \in loose \ S : Fresher(m.entries[i], m.entries[j])}
ClonesOfAnyTop(m, cap) ==
  {[m EXCEPT !.entries = Restrict(@, S)] : S \in
     {T \in SUBSET Ids(m) : /\ Cardinality(T) <= cap + 1
                            /\ \A i \in T : \A j \in Ids(m) \ T :
                                 Fresher(m.entries[i], m.entries[j])}}
Clones(m, cap) ==
  {[m EXCEPT !.entries = Restrict(@, Pinned(m) \cup S)] : S \in Freshest(m, cap)}

\* load refuses what is not a whole archive of this version.
Readable(file) == file \notin {NoFile, Torn}

=============================================================================
