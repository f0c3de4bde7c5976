--------------------------- MODULE VexExecProofs ---------------------------
(***************************************************************************)
(* Proofs about the translation caches and the dispatcher above them, for  *)
(* every set of addresses, exit graph, slot count and sequence of cache    *)
(* limits, and every layout of mappings and blocks.                        *)
(***************************************************************************)
EXTENDS VexExec, FiniteSetTheorems, TLAPS

(***************************************************************************)
(* The translation caches.                                                 *)
(***************************************************************************)
DCType == [Slots -> Ents]

\* The direct cache and its map as one object: their types and coherence.
Sound(dc, map) == dc \in DCType /\ Coherent(dc, map)

\* Storing a pointer in a slot and in the map keeps the two coherent.
LEMMA PutSound ==
    ASSUME NEW dc, NEW map \in [Addr -> Code \cup {Absent, Null}], Sound(dc, map),
           NEW p \in Addr, NEW t \in Code \cup {Null}
    PROVE  Sound(put(dc, p, t), [map EXCEPT ![p] = t])
<1> DEFINE dc2 == put(dc, p, t)
<1> DEFINE ent == IF t = Null THEN EmptyEnt ELSE [ptr |-> p, t |-> t]
<1> DEFINE map2 == [map EXCEPT ![p] = t]
<1>0. dc \in [Slots -> Ents] /\ Coherent(dc, map)
  BY DEF Sound, DCType
<1>1. Slot(p) \in Slots
  BY DEF Slots
<1>2. ent \in Ents
  BY AddrAssumption DEF Ents, EmptyEnt
<1>3. dc2 = [dc EXCEPT ![Slot(p)] = ent]
  BY DEF put
<1>4. dc2 \in [Slots -> Ents]
  BY <1>0, <1>1, <1>2, <1>3
<1>5. ASSUME NEW s \in Slots, dc2[s].t # Null
      PROVE  dc2[s].ptr \in Addr /\ Slot(dc2[s].ptr) = s /\ map2[dc2[s].ptr] = dc2[s].t
  <2>1. CASE s = Slot(p)
    <3>1. dc2[s] = ent
      BY <2>1, <1>0, <1>1, <1>3
    <3>2. t # Null /\ ent = [ptr |-> p, t |-> t]
      BY <3>1, <1>5 DEF EmptyEnt
    <3> QED BY <3>1, <3>2, <2>1
  <2>2. CASE s # Slot(p)
    <3>1. dc2[s] = dc[s]
      BY <2>2, <1>0, <1>1, <1>3
    <3>2. dc[s].ptr \in Addr /\ Slot(dc[s].ptr) = s /\ map[dc[s].ptr] = dc[s].t
      BY <3>1, <1>0, <1>5 DEF Coherent
    <3>3. dc[s].ptr # p
      BY <3>2, <2>2
    <3> QED BY <3>1, <3>2, <3>3
  <2> QED BY <2>1, <2>2
<1> QED BY <1>4, <1>5 DEF Sound, DCType, Coherent

\* The empty direct cache is coherent with every map.
LEMMA FlushedSound ==
    ASSUME NEW map PROVE Sound(flushed, map)
<1>1. flushed \in [Slots -> Ents]
  BY DEF flushed, EmptyEnt, Ents
<1>2. \A s \in Slots : flushed[s].t = Null
  BY DEF flushed, EmptyEnt
<1> QED BY <1>1, <1>2 DEF Sound, DCType, Coherent

\* Nulling the slots of a set of keys and erasing the keys keeps coherence.
LEMMA EraseSound ==
    ASSUME NEW dc, NEW map, Sound(dc, map), NEW S \in SUBSET Addr
    PROVE  Sound(putNulls(dc, S), erase(map, S))
<1> DEFINE dc2 == putNulls(dc, S)
<1> DEFINE map2 == erase(map, S)
<1>0. dc \in [Slots -> Ents] /\ Coherent(dc, map)
  BY DEF Sound, DCType
<1>1. dc2 \in [Slots -> Ents]
  BY <1>0 DEF putNulls, Ents, EmptyEnt
<1>2. ASSUME NEW s \in Slots, dc2[s].t # Null
      PROVE  dc2[s].ptr \in Addr /\ Slot(dc2[s].ptr) = s /\ map2[dc2[s].ptr] = dc2[s].t
  <2>1. dc2[s] = dc[s] /\ s \notin {Slot(p) : p \in S}
    BY <1>2 DEF putNulls, EmptyEnt
  <2>2. dc[s].ptr \in Addr /\ Slot(dc[s].ptr) = s /\ map[dc[s].ptr] = dc[s].t
    BY <2>1, <1>0, <1>2 DEF Coherent
  <2>3. dc[s].ptr \notin S
    BY <2>1, <2>2
  <2> QED BY <2>1, <2>2, <2>3 DEF erase
<1> QED BY <1>1, <1>2 DEF Sound, DCType, Coherent

\* A lookup through the direct cache answers what the map holds, and the refill
\* keeps coherence.
LEMMA LookupSound ==
    ASSUME NEW dc, NEW map \in [Addr -> Code \cup {Absent, Null}], Sound(dc, map),
           NEW p \in Addr
    PROVE  /\ Sound(refill(dc, map, p), map)
           /\ lookup(dc, map, p) = IF map[p] = Absent THEN Null ELSE map[p]
<1>0. dc \in [Slots -> Ents] /\ Coherent(dc, map)
  BY DEF Sound, DCType
<1>1. Slot(p) \in Slots
  BY DEF Slots
<1>2. get(dc, p) # Null => map[p] = get(dc, p)
  BY <1>0, <1>1 DEF get, Coherent
<1>3. get(dc, p) \in Code \cup {Null}
  BY <1>0, <1>1 DEF get, Ents
<1>4. lookup(dc, map, p) = IF map[p] = Absent THEN Null ELSE map[p]
  BY <1>2, <1>3, CodeAssumption DEF lookup
<1>5. Sound(refill(dc, map, p), map)
  <2>1. CASE get(dc, p) # Null \/ map[p] = Absent
    BY <2>1 DEF refill
  <2>2. CASE ~(get(dc, p) # Null \/ map[p] = Absent)
    <3>1. map[p] \in Code \cup {Null}
      BY <2>2
    <3>2. [map EXCEPT ![p] = map[p]] = map
      OBVIOUS
    <3> QED BY <3>1, <3>2, <2>2, PutSound DEF refill
  <2> QED BY <2>1, <2>2
<1> QED BY <1>4, <1>5
-----------------------------------------------------------------------------
(* The caches as a whole.                                                  *)

Good(d) ==
    /\ d \in Caches
    /\ Coherent(d.vexsb_dc, d.vexsb)
    /\ Coherent(d.func_dc, d.func)
    /\ Coherent(d.jit_dc, d.jit)
    /\ Keys(d.func) \subseteq Keys(d.vexsb)
    /\ d.open \subseteq Keys(d.func)

\* What Good says of each of the three pairs, in the form the lemmas use.
LEMMA GoodParts ==
    ASSUME NEW d, Good(d)
    PROVE  /\ d.vexsb \in [Addr -> Code \cup {Absent}]
           /\ d.func \in [Addr -> Code \cup {Absent}]
           /\ d.jit \in [Addr -> Code \cup {Absent, Null}]
           /\ d.open \in SUBSET Addr
           /\ Sound(d.vexsb_dc, d.vexsb)
           /\ Sound(d.func_dc, d.func)
           /\ Sound(d.jit_dc, d.jit)
BY DEF Good, Caches, Map, Sound, DCType

\* erase keeps the type of a map and removes exactly the given keys.
LEMMA EraseType ==
    ASSUME NEW map, NEW S
    PROVE  /\ map \in [Addr -> Code \cup {Absent}]
                => erase(map, S) \in [Addr -> Code \cup {Absent}]
           /\ map \in [Addr -> Code \cup {Absent, Null}]
                => erase(map, S) \in [Addr -> Code \cup {Absent, Null}]
           /\ Keys(erase(map, S)) = Keys(map) \ S
BY DEF erase, Keys

\* What the cached lookups answer.
LEMMA CachedLookups ==
    ASSUME NEW d, Good(d), NEW a \in Addr
    PROVE  /\ cachedVSB(d, a) = IF d.vexsb[a] = Absent THEN Null ELSE d.vexsb[a]
           /\ cachedFunc(d, a) = IF d.func[a] = Absent THEN Null ELSE d.func[a]
           /\ cachedFPtr(d, a) = IF d.jit[a] = Absent THEN Null ELSE d.jit[a]
<1>1. /\ d.vexsb \in [Addr -> Code \cup {Absent, Null}]
      /\ d.func \in [Addr -> Code \cup {Absent, Null}]
  BY GoodParts
<1> QED BY <1>1, GoodParts, LookupSound DEF cachedVSB, cachedFunc, cachedFPtr

\* Refilling a slot changes nothing but the slot.
LEMMA RefillGood ==
    ASSUME NEW d, Good(d), NEW a \in Addr
    PROVE  /\ Good(getCachedVSB(d, a)) /\ Good(getCachedFunc(d, a))
           /\ Good(getCachedFPtr(d, a))
<1>1. /\ d.vexsb \in [Addr -> Code \cup {Absent, Null}]
      /\ d.func \in [Addr -> Code \cup {Absent, Null}]
      /\ d.jit \in [Addr -> Code \cup {Absent, Null}]
  BY GoodParts
<1>2. /\ Sound(refill(d.vexsb_dc, d.vexsb, a), d.vexsb)
      /\ Sound(refill(d.func_dc, d.func, a), d.func)
      /\ Sound(refill(d.jit_dc, d.jit, a), d.jit)
  BY <1>1, GoodParts, LookupSound
<1> HIDE DEF Sound
<1>3. d \in Caches
  BY DEF Good
<1>4. Good(getCachedVSB(d, a))
  BY <1>2, <1>3 DEF Good, Caches, getCachedVSB, Sound, DCType
<1>5. Good(getCachedFunc(d, a))
  BY <1>2, <1>3 DEF Good, Caches, getCachedFunc, Sound, DCType
<1>6. Good(getCachedFPtr(d, a))
  BY <1>2, <1>3 DEF Good, Caches, getCachedFPtr, Sound, DCType
<1> QED BY <1>4, <1>5, <1>6

\* evict drops one address from every cache.
LEMMA EvictGood ==
    ASSUME NEW d, Good(d), NEW v \in Addr
    PROVE  /\ Good(evict(d, v))
           /\ Keys(evict(d, v).vexsb) = Keys(d.vexsb) \ {v}
           /\ Keys(evict(d, v).jit) = Keys(d.jit) \ {v}
<1> DEFINE hasFunc == lookup(d.func_dc, d.func, v) # Null
<1> DEFINE fm == IF hasFunc THEN erase(d.func, {v}) ELSE d.func
<1> DEFINE fd == IF hasFunc THEN putNulls(d.func_dc, {v}) ELSE d.func_dc
<1>1. hasFunc <=> d.func[v] # Absent
  BY CachedLookups, GoodParts, CodeAssumption DEF cachedFunc
<1>2. /\ Sound(putNulls(d.vexsb_dc, {v}), erase(d.vexsb, {v}))
      /\ Sound(putNulls(d.func_dc, {v}), erase(d.func, {v}))
      /\ Sound(putNulls(d.jit_dc, {v}), erase(d.jit, {v}))
  BY GoodParts, EraseSound
<1>3. /\ erase(d.vexsb, {v}) \in [Addr -> Code \cup {Absent}]
      /\ Keys(erase(d.vexsb, {v})) = Keys(d.vexsb) \ {v}
      /\ erase(d.func, {v}) \in [Addr -> Code \cup {Absent}]
      /\ Keys(erase(d.func, {v})) = Keys(d.func) \ {v}
      /\ erase(d.jit, {v}) \in [Addr -> Code \cup {Absent, Null}]
      /\ Keys(erase(d.jit, {v})) = Keys(d.jit) \ {v}
  BY GoodParts, EraseType
<1>4. fm \in [Addr -> Code \cup {Absent}] /\ Sound(fd, fm)
  BY <1>2, <1>3, GoodParts
<1>5. Keys(fm) = Keys(d.func) \ {v}
  BY <1>1, <1>3 DEF Keys
<1>6. Keys(fm) \subseteq Keys(d.vexsb) \ {v} /\ d.open \ {v} \subseteq Keys(fm)
  BY <1>5 DEF Good
<1>7. evict(d, v) =
        [vexsb |-> erase(d.vexsb, {v}), vexsb_dc |-> putNulls(d.vexsb_dc, {v}),
         func |-> fm, func_dc |-> fd,
         jit |-> erase(d.jit, {v}), jit_dc |-> putNulls(d.jit_dc, {v}),
         open |-> d.open \ {v}]
  BY DEF evict
<1>8. d.open \ {v} \in SUBSET Addr
  BY GoodParts
<1> DEFINE e == evict(d, v)
<1> HIDE DEF hasFunc, fm, fd
<1>9. /\ e.vexsb = erase(d.vexsb, {v}) /\ e.vexsb_dc = putNulls(d.vexsb_dc, {v})
      /\ e.func = fm /\ e.func_dc = fd
      /\ e.jit = erase(d.jit, {v}) /\ e.jit_dc = putNulls(d.jit_dc, {v})
      /\ e.open = d.open \ {v}
  BY <1>7
<1>10. e \in Caches
  <2>1. /\ putNulls(d.vexsb_dc, {v}) \in [Slots -> Ents] /\ fd \in [Slots -> Ents]
        /\ putNulls(d.jit_dc, {v}) \in [Slots -> Ents]
    BY <1>2, <1>4 DEF Sound, DCType
  <2>2. /\ erase(d.vexsb, {v}) \in Map /\ fm \in Map
        /\ erase(d.jit, {v}) \in [Addr -> Code \cup {Absent, Null}]
    BY <1>3, <1>4 DEF Map
  <2> QED BY <2>1, <2>2, <1>7, <1>8 DEF Caches
<1> HIDE DEF e
<1>11. Good(e)
  BY <1>2, <1>3, <1>4, <1>6, <1>9, <1>10 DEF Good, Sound
<1> QED BY <1>3, <1>9, <1>11 DEF e

\* insertVSB and genFunctionByVSB keep the caches good.
LEMMA InsertGood ==
    ASSUME NEW d, Good(d), NEW a \in Addr, NEW sb \in Code
    PROVE  /\ Good(insertVSB(d, a, sb))
           /\ Keys(insertVSB(d, a, sb).vexsb) = Keys(d.vexsb) \cup {a}
           /\ insertVSB(d, a, sb).vexsb[a] = sb
           /\ insertVSB(d, a, sb).jit = d.jit
<1> DEFINE e == insertVSB(d, a, sb)
<1> DEFINE vm == [d.vexsb EXCEPT ![a] = sb]
<1>1. d.vexsb \in [Addr -> Code \cup {Absent, Null}] /\ Sound(d.vexsb_dc, d.vexsb)
  BY GoodParts
<1>2. Sound(put(d.vexsb_dc, a, sb), vm)
  BY <1>1, PutSound
<1>3. vm \in [Addr -> Code \cup {Absent}] /\ vm[a] = sb
  BY GoodParts
<1>4. Keys(vm) = Keys(d.vexsb) \cup {a}
  BY GoodParts, CodeAssumption DEF Keys
<1>5. d \in Caches
  BY DEF Good
<1>6. e = [d EXCEPT !.vexsb = vm, !.vexsb_dc = put(d.vexsb_dc, a, sb)]
  BY DEF insertVSB
<1> HIDE DEF vm
<1>7. /\ e \in Caches /\ e.vexsb = vm /\ e.vexsb_dc = put(d.vexsb_dc, a, sb)
      /\ e.func = d.func /\ e.func_dc = d.func_dc
      /\ e.jit = d.jit /\ e.jit_dc = d.jit_dc /\ e.open = d.open
  BY <1>2, <1>3, <1>5, <1>6 DEF Caches, Map, Sound, DCType
<1> HIDE DEF e
<1>8. Good(e)
  BY <1>2, <1>4, <1>7 DEF Good, Sound
<1> QED BY <1>3, <1>4, <1>7, <1>8 DEF e

\* genFunctionByVSB of a cached superblock adds one function and keeps coherence.
LEMMA GenGood ==
    ASSUME NEW d, Good(d), NEW a \in Addr, d.vexsb[a] # Absent
    PROVE  /\ Good(genFunctionByVSB(d, a))
           /\ genFunctionByVSB(d, a).vexsb = d.vexsb
           /\ genFunctionByVSB(d, a).func = [d.func EXCEPT ![a] = d.vexsb[a]]
           /\ genFunctionByVSB(d, a).jit = d.jit
<1> DEFINE e == genFunctionByVSB(d, a)
<1> DEFINE sb == d.vexsb[a]
<1> DEFINE fm == [d.func EXCEPT ![a] = sb]
<1>0. sb \in Code
  BY GoodParts
<1>1. d.func \in [Addr -> Code \cup {Absent, Null}] /\ Sound(d.func_dc, d.func)
  BY GoodParts
<1>2. Sound(put(d.func_dc, a, sb), fm)
  BY <1>0, <1>1, PutSound
<1>3. fm \in [Addr -> Code \cup {Absent}]
  BY <1>0, GoodParts
<1>4. Keys(fm) = Keys(d.func) \cup {a} /\ a \in Keys(d.vexsb)
  BY <1>0, GoodParts, CodeAssumption DEF Keys
<1>5. d \in Caches
  BY DEF Good
<1>6. e = [d EXCEPT !.func = fm, !.func_dc = put(d.func_dc, a, sb),
                    !.open = d.open \cup {a}]
  BY DEF genFunctionByVSB
<1> DEFINE fd == put(d.func_dc, a, sb)
<1> DEFINE e1 == [d EXCEPT !.func = fm, !.func_dc = fd]
<1> HIDE DEF fm, fd
<1>e. /\ e1 \in Caches /\ e1.func = fm /\ e1.func_dc = fd
      /\ e1.vexsb = d.vexsb /\ e1.vexsb_dc = d.vexsb_dc
      /\ e1.jit = d.jit /\ e1.jit_dc = d.jit_dc /\ e1.open = d.open
  BY <1>2, <1>3, <1>5 DEF Caches, Map, Sound, DCType, fd
<1>f. e = [e1 EXCEPT !.open = d.open \cup {a}]
  BY <1>6 DEF fd
<1> HIDE DEF e1, e
<1>7. /\ e \in Caches /\ e.func = fm /\ e.func_dc = put(d.func_dc, a, sb)
      /\ e.vexsb = d.vexsb /\ e.vexsb_dc = d.vexsb_dc
      /\ e.jit = d.jit /\ e.jit_dc = d.jit_dc /\ e.open = d.open \cup {a}
  BY <1>e, <1>f DEF Caches, fd
<1> HIDE DEF e
<1>8. Good(e)
  BY <1>2, <1>4, <1>7 DEF Good, Sound
<1> QED BY <1>7, <1>8 DEF e, fm
\* The keys of a map are a finite set.
LEMMA KeysFinite ==
    ASSUME NEW map
    PROVE  /\ IsFiniteSet(Keys(map)) /\ Cardinality(Keys(map)) \in Nat
           /\ Cardinality(Keys(map)) <= Cardinality(Addr)
<1>1. Keys(map) \subseteq Addr
  BY DEF Keys
<1> QED BY <1>1, AddrFinite, FS_Subset, FS_CardinalityType

\* getVSB respects the limit and evicts only when the map is full.
LEMMA GetVSBGood ==
    ASSUME mem \in [Addr -> Code \cup {Bad}], max_cache_ents \in Nat,
           NEW d, Good(d), Cardinality(Keys(d.vexsb)) <= max_cache_ents,
           NEW a \in Addr, NEW v \in Victims(d, a)
    PROVE  /\ Good(getVSB(d, a, v))
           /\ Cardinality(Keys(getVSB(d, a, v).vexsb)) <= max_cache_ents
           /\ Keys(getVSB(d, a, v).jit) \subseteq Keys(d.jit)
           /\ ~mustEvict(d, a) => /\ getVSB(d, a, v).func = d.func
                                  /\ getVSB(d, a, v).jit = d.jit
<1>1. CASE ~allocates(d, a)
  <2>1. getVSB(d, a, v) = getCachedVSB(d, a)
    BY <1>1 DEF getVSB
  <2>2. d \in Caches
    BY DEF Good
  <2>3. /\ getCachedVSB(d, a).vexsb = d.vexsb /\ getCachedVSB(d, a).jit = d.jit
        /\ getCachedVSB(d, a).func = d.func
    BY <2>2 DEF getCachedVSB, Caches
  <2> QED BY <2>1, <2>3, RefillGood
<1>2. CASE allocates(d, a)
  <2>1. d.vexsb[a] = Absent /\ mem[a] \in Code
    BY <1>2, CachedLookups, GoodParts, CodeAssumption DEF allocates
  <2>2. a \notin Keys(d.vexsb)
    BY <2>1 DEF Keys
  <2>3. CASE mustEvict(d, a)
    <3> DEFINE e == evict(d, v)
    <3>1. v \in Keys(d.vexsb) /\ v \in Addr
      BY <2>3 DEF Victims, Keys
    <3>2. Good(e) /\ Keys(e.vexsb) = Keys(d.vexsb) \ {v} /\ Keys(e.jit) = Keys(d.jit) \ {v}
      BY <3>1, EvictGood
    <3>3. getVSB(d, a, v) = insertVSB(e, a, mem[a])
      BY <1>2, <2>3 DEF getVSB
    <3> HIDE DEF e
    <3>4. /\ Good(insertVSB(e, a, mem[a]))
          /\ Keys(insertVSB(e, a, mem[a]).vexsb) = Keys(e.vexsb) \cup {a}
          /\ insertVSB(e, a, mem[a]).jit = e.jit
      <4>1. Good(e) /\ mem[a] \in Code /\ a \in Addr
        BY <2>1, <3>2
      <4> QED BY <4>1, InsertGood, Zenon
    <3>5. IsFiniteSet(Keys(d.vexsb)) /\ Cardinality(Keys(d.vexsb)) \in Nat
      BY KeysFinite
    <3>6. /\ IsFiniteSet(Keys(d.vexsb) \ {v})
          /\ Cardinality(Keys(d.vexsb) \ {v}) = Cardinality(Keys(d.vexsb)) - 1
      BY <3>1, <3>5, FS_RemoveElement
    <3>7. Cardinality((Keys(d.vexsb) \ {v}) \cup {a})
            = Cardinality(Keys(d.vexsb) \ {v}) + 1
      BY <3>6, <2>2, FS_AddElement
    <3>8. Cardinality((Keys(d.vexsb) \ {v}) \cup {a}) <= max_cache_ents
      BY <3>5, <3>6, <3>7
    <3> QED BY <3>2, <3>3, <3>4, <3>8, <2>3
  <2>4. CASE ~mustEvict(d, a)
    <3>1. getVSB(d, a, v) = insertVSB(d, a, mem[a])
      BY <1>2, <2>4 DEF getVSB
    <3>2. /\ Good(insertVSB(d, a, mem[a]))
          /\ Keys(insertVSB(d, a, mem[a]).vexsb) = Keys(d.vexsb) \cup {a}
          /\ insertVSB(d, a, mem[a]).jit = d.jit
      BY <2>1, InsertGood
    <3>3. IsFiniteSet(Keys(d.vexsb)) /\ Cardinality(Keys(d.vexsb)) \in Nat
      BY KeysFinite
    <3>4. Cardinality(Keys(d.vexsb) \cup {a}) = Cardinality(Keys(d.vexsb)) + 1
      BY <3>3, <2>2, FS_AddElement
    <3>5. Cardinality(Keys(d.vexsb)) # max_cache_ents
      BY <1>2, <2>4 DEF mustEvict
    <3>6. Cardinality(Keys(d.vexsb) \cup {a}) <= max_cache_ents
      BY <3>3, <3>4, <3>5
    <3>7. d \in Caches
      BY DEF Good
    <3>8. insertVSB(d, a, mem[a]).func = d.func
      BY <3>7 DEF insertVSB, Caches
    <3> QED BY <3>1, <3>2, <3>6, <3>8
  <2> QED BY <2>3, <2>4
<1> QED BY <1>1, <1>2

\* getFunc: as getVSB, and at most the function of a is added.
LEMMA GetFuncGood ==
    ASSUME mem \in [Addr -> Code \cup {Bad}], max_cache_ents \in Nat,
           NEW d, Good(d), Cardinality(Keys(d.vexsb)) <= max_cache_ents,
           NEW a \in Addr, NEW v \in Victims(d, a)
    PROVE  /\ Good(getFunc(d, a, v))
           /\ Cardinality(Keys(getFunc(d, a, v).vexsb)) <= max_cache_ents
           /\ Keys(getFunc(d, a, v).jit) \subseteq Keys(d.jit)
           /\ ~mustEvict(d, a) =>
                /\ getFunc(d, a, v).jit = d.jit
                /\ Keys(getFunc(d, a, v).func) =
                     Keys(d.func) \cup
                       (IF getFunc(d, a, v).func[a] # Absent THEN {a} ELSE {})
<1>1. CASE cachedFunc(d, a) # Null
  <2>1. getFunc(d, a, v) = getCachedFunc(d, a)
    BY <1>1 DEF getFunc
  <2>2. d \in Caches
    BY DEF Good
  <2>3. /\ getCachedFunc(d, a).vexsb = d.vexsb /\ getCachedFunc(d, a).jit = d.jit
        /\ getCachedFunc(d, a).func = d.func
    BY <2>2 DEF getCachedFunc, Caches
  <2>4. a \in Keys(d.func)
    BY <1>1, CachedLookups DEF Keys
  <2> QED BY <2>1, <2>3, <2>4, RefillGood
<1>2. CASE cachedFunc(d, a) = Null
  <2> DEFINE e == getVSB(d, a, v)
  <2>1. getFunc(d, a, v) = IF e.vexsb[a] = Absent THEN e ELSE genFunctionByVSB(e, a)
    BY <1>2 DEF getFunc
  <2>2. /\ Good(e) /\ Cardinality(Keys(e.vexsb)) <= max_cache_ents
        /\ Keys(e.jit) \subseteq Keys(d.jit)
        /\ ~mustEvict(d, a) => e.func = d.func /\ e.jit = d.jit
    BY GetVSBGood
  <2>3. d.func[a] = Absent
    BY <1>2, CachedLookups, GoodParts, CodeAssumption
  <2> HIDE DEF e
  <2>4. CASE e.vexsb[a] = Absent
    <3>1. getFunc(d, a, v) = e
      BY <2>1, <2>4
    <3>2. ~mustEvict(d, a) => e.func[a] = Absent
      BY <2>2, <2>3
    <3> QED BY <3>1, <3>2, <2>2
  <2>5. CASE e.vexsb[a] # Absent
    <3> DEFINE g == genFunctionByVSB(e, a)
    <3>1. getFunc(d, a, v) = g
      BY <2>1, <2>5
    <3>2. /\ Good(g) /\ g.vexsb = e.vexsb /\ g.jit = e.jit
          /\ g.func = [e.func EXCEPT ![a] = e.vexsb[a]]
      BY <2>2, <2>5, GenGood
    <3>3. e.func \in [Addr -> Code \cup {Absent}]
      BY <2>2, GoodParts
    <3> HIDE DEF g
    <3>4. g.func[a] # Absent /\ Keys(g.func) = Keys(e.func) \cup {a}
      BY <2>5, <3>2, <3>3 DEF Keys
    <3> QED BY <2>2, <3>1, <3>2, <3>4
  <2> QED BY <2>4, <2>5
<1> QED BY <1>1, <1>2

\* flush(begin, end) keeps the caches good and erases by the keys of func_cache.
LEMMA FlushRangeGood ==
    ASSUME NEW d, Good(d), NEW b, NEW e
    PROVE  /\ Good(flushRange(d, b, e))
           /\ Keys(flushRange(d, b, e).vexsb) = Keys(d.vexsb) \ KeysIn(d.vexsb, b, e)
           /\ Keys(flushRange(d, b, e).func) = Keys(d.func) \ KeysIn(d.func, b, e)
           /\ Keys(flushRange(d, b, e).jit) = Keys(d.jit) \ KeysIn(d.func, b, e)
           /\ flushRange(d, b, e).open \subseteq d.open
<1> DEFINE sbs == KeysIn(d.vexsb, b, e)
<1> DEFINE fns == KeysIn(d.func, b, e)
<1> DEFINE f == flushRange(d, b, e)
<1>1. sbs \in SUBSET Addr /\ fns \in SUBSET Addr
  BY DEF KeysIn, Keys
<1>2. /\ Sound(putNulls(d.vexsb_dc, sbs), erase(d.vexsb, sbs))
      /\ Sound(putNulls(d.func_dc, fns), erase(d.func, fns))
      /\ Sound(putNulls(d.jit_dc, fns), erase(d.jit, fns))
  BY <1>1, GoodParts, EraseSound
<1>3. /\ erase(d.vexsb, sbs) \in [Addr -> Code \cup {Absent}]
      /\ erase(d.func, fns) \in [Addr -> Code \cup {Absent}]
      /\ erase(d.jit, fns) \in [Addr -> Code \cup {Absent, Null}]
      /\ Keys(erase(d.vexsb, sbs)) = Keys(d.vexsb) \ sbs
      /\ Keys(erase(d.func, fns)) = Keys(d.func) \ fns
      /\ Keys(erase(d.jit, fns)) = Keys(d.jit) \ fns
  BY GoodParts, EraseType
<1>4. /\ Keys(d.func) \ fns \subseteq Keys(d.vexsb) \ sbs
      /\ d.open \ fns \subseteq Keys(d.func) \ fns
      /\ d.open \ fns \in SUBSET Addr
  BY GoodParts DEF Good, KeysIn
<1>5. f = [vexsb |-> erase(d.vexsb, sbs), vexsb_dc |-> putNulls(d.vexsb_dc, sbs),
           func |-> erase(d.func, fns), func_dc |-> putNulls(d.func_dc, fns),
           jit |-> erase(d.jit, fns), jit_dc |-> putNulls(d.jit_dc, fns),
           open |-> d.open \ fns]
  BY DEF flushRange
<1> HIDE DEF f, sbs, fns
<1>6. /\ f.vexsb = erase(d.vexsb, sbs) /\ f.vexsb_dc = putNulls(d.vexsb_dc, sbs)
      /\ f.func = erase(d.func, fns) /\ f.func_dc = putNulls(d.func_dc, fns)
      /\ f.jit = erase(d.jit, fns) /\ f.jit_dc = putNulls(d.jit_dc, fns)
      /\ f.open = d.open \ fns
  BY <1>5
<1>7. f \in Caches
  <2>1. /\ putNulls(d.vexsb_dc, sbs) \in [Slots -> Ents]
        /\ putNulls(d.func_dc, fns) \in [Slots -> Ents]
        /\ putNulls(d.jit_dc, fns) \in [Slots -> Ents]
    BY <1>2 DEF Sound, DCType
  <2>2. erase(d.vexsb, sbs) \in Map /\ erase(d.func, fns) \in Map
    BY <1>3 DEF Map
  <2> QED BY <2>1, <2>2, <1>3, <1>4, <1>5 DEF Caches
<1>8. Good(f)
  BY <1>2, <1>3, <1>4, <1>6, <1>7 DEF Good, Sound
<1> QED BY <1>3, <1>6, <1>8 DEF f, sbs, fns
-----------------------------------------------------------------------------
(* The inductive invariant.  The functions of the open module must be      *)
(* cached so that their code is known when the module is compiled, and the *)
(* prefetched addresses must have no code pointer yet: only then can the   *)
(* tail of getFPtr write jit_cache without touching jit_dc.                *)

JITInv ==
    /\ JITTypeOK
    /\ Good(c)
    /\ CacheBounded
    /\ jpc = "idle" => c.open = {}
    /\ jpc = "prefetch" => req \in Requests /\ req.fnames \cap Keys(c.jit) = {}

\* The caches start in a state that satisfies the inductive invariant.
LEMMA InitInv == JITInit => JITInv
<1> SUFFICES ASSUME JITInit PROVE JITInv
  OBVIOUS
<1> DEFINE none == [a \in Addr |-> Absent]
<1>1. /\ c = [vexsb |-> none, vexsb_dc |-> flushed, func |-> none,
              func_dc |-> flushed, jit |-> none, jit_dc |-> flushed, open |-> {}]
  BY DEF JITInit
<1>2. flushed \in [Slots -> Ents] /\ Coherent(flushed, none)
  BY FlushedSound DEF Sound, DCType
<1>3. none \in Map /\ none \in [Addr -> Code \cup {Absent, Null}] /\ Keys(none) = {}
  BY DEF Map, Keys
<1> HIDE DEF none
<1>4. /\ c.vexsb = none /\ c.vexsb_dc = flushed /\ c.func = none
      /\ c.func_dc = flushed /\ c.jit = none /\ c.jit_dc = flushed /\ c.open = {}
  BY <1>1
<1>5. c \in Caches
  BY <1>1, <1>2, <1>3 DEF Caches
<1>6. Good(c)
  BY <1>2, <1>3, <1>4, <1>5 DEF Good
<1>7. Cardinality(Keys(c.vexsb)) = 0
  BY <1>3, <1>4, FS_EmptySet
<1>8. max_cache_ents \in Nat /\ CacheBounded
  BY <1>7, BoundAssumption DEF JITInit, CacheBounded
<1>9. JITTypeOK
  BY <1>5, <1>8 DEF JITInit, JITTypeOK
<1> QED BY <1>4, <1>6, <1>8, <1>9 DEF JITInv, JITInit

\* flush() empties every cache.
LEMMA FlushAllGood ==
    ASSUME NEW d, Good(d), d.open = {}
    PROVE  /\ Good(flushAll(d)) /\ flushAll(d).open = {}
           /\ Keys(flushAll(d).vexsb) = {} /\ Keys(flushAll(d).func) = {}
           /\ Keys(flushAll(d).jit) = {}
<1> DEFINE none == [a \in Addr |-> Absent]
<1> DEFINE f == flushAll(d)
<1>1. /\ f = [vexsb |-> none, vexsb_dc |-> flushed, func |-> none,
              func_dc |-> flushed, jit |-> none, jit_dc |-> flushed, open |-> {}]
  BY DEF flushAll
<1>2. flushed \in [Slots -> Ents] /\ Coherent(flushed, none)
  BY FlushedSound DEF Sound, DCType
<1>3. none \in Map /\ none \in [Addr -> Code \cup {Absent, Null}] /\ Keys(none) = {}
  BY DEF Map, Keys
<1> HIDE DEF none, f
<1>4. /\ f.vexsb = none /\ f.vexsb_dc = flushed /\ f.func = none
      /\ f.func_dc = flushed /\ f.jit = none /\ f.jit_dc = flushed /\ f.open = {}
  BY <1>1
<1>5. f \in Caches
  BY <1>1, <1>2, <1>3 DEF Caches
<1>6. Good(f)
  BY <1>2, <1>3, <1>4, <1>5 DEF Good
<1> QED BY <1>3, <1>4, <1>6 DEF f
\* The tail of getFPtr records pointers only for addresses that have none.
LEMMA FinishInv == JITInv /\ FinishGetFPtr => JITInv'
<1> SUFFICES ASSUME JITInv, FinishGetFPtr PROVE JITInv'
  OBVIOUS
<1> DEFINE a == req.addr
<1> DEFINE syms == getPointerToFunction(c, a)
<1> DEFINE jm == [b \in Addr |-> IF b \in req.fnames \cup {a} THEN syms[b] ELSE c.jit[b]]
<1>1. /\ jpc = "prefetch" /\ req \in Requests /\ req.fnames \cap Keys(c.jit) = {}
      /\ Good(c) /\ JITTypeOK /\ CacheBounded /\ c \in Caches
  BY DEF JITInv, FinishGetFPtr, Good
<1>2. a \in Addr /\ req.fnames \in SUBSET Addr
  BY <1>1 DEF Requests
<1>3. syms \in [Addr -> Code \cup {Null}]
  <2>1. \A b \in c.open : c.func[b] \in Code
    BY <1>1, GoodParts DEF Good, Keys
  <2> QED BY <1>1, <2>1 DEF getPointerToFunction, mod_to_engine, JITTypeOK
<1> HIDE DEF syms
<1>4. jm \in [Addr -> Code \cup {Absent, Null}]
  BY <1>1, <1>3, GoodParts
<1>5. Sound(put(c.jit_dc, a, syms[a]), jm)
  <2> DEFINE jm0 == [b \in Addr |-> IF b \in req.fnames THEN syms[b] ELSE c.jit[b]]
  <2>1. jm0 \in [Addr -> Code \cup {Absent, Null}]
    BY <1>1, <1>3, GoodParts
  <2>2. Sound(c.jit_dc, c.jit)
    BY <1>1, GoodParts
  <2>3. Sound(c.jit_dc, jm0)
    <3>1. c.jit_dc \in [Slots -> Ents]
      BY <2>2 DEF Sound, DCType
    <3>2. ASSUME NEW s \in Slots, c.jit_dc[s].t # Null
          PROVE  jm0[c.jit_dc[s].ptr] = c.jit_dc[s].t
      <4>1. /\ c.jit_dc[s].ptr \in Addr /\ c.jit[c.jit_dc[s].ptr] = c.jit_dc[s].t
        BY <2>2, <3>2 DEF Sound, Coherent
      <4>2. c.jit_dc[s].t \in Code
        BY <3>1, <3>2 DEF Ents
      <4>3. c.jit_dc[s].ptr \in Keys(c.jit)
        BY <4>1, <4>2, CodeAssumption DEF Keys
      <4> QED BY <4>1, <4>3, <1>1
    <3> QED BY <2>2, <3>1, <3>2 DEF Sound, DCType, Coherent
  <2>4. syms[a] \in Code \cup {Null}
    BY <1>2, <1>3
  <2>5. Sound(put(c.jit_dc, a, syms[a]), [jm0 EXCEPT ![a] = syms[a]])
    BY <1>2, <2>1, <2>3, <2>4, PutSound
  <2>6. jm = [jm0 EXCEPT ![a] = syms[a]]
    BY <1>2
  <2> QED BY <2>5, <2>6
<1>6. Good(c') /\ c'.vexsb = c.vexsb /\ c'.open = {}
  <2>1. CASE syms[a] = Null
    <3>1. c' = [c EXCEPT !.open = {}]
      BY <2>1 DEF FinishGetFPtr, syms
    <3>2. /\ c' \in Caches /\ c'.vexsb = c.vexsb /\ c'.vexsb_dc = c.vexsb_dc
          /\ c'.func = c.func /\ c'.func_dc = c.func_dc
          /\ c'.jit = c.jit /\ c'.jit_dc = c.jit_dc /\ c'.open = {}
      BY <3>1, <1>1 DEF Caches
    <3> QED BY <3>2, <1>1 DEF Good
  <2>2. CASE syms[a] # Null
    <3> DEFINE jd == put(c.jit_dc, a, syms[a])
    <3> DEFINE e1 == [c EXCEPT !.jit = jm, !.jit_dc = jd]
    <3>1. c' = [e1 EXCEPT !.open = {}]
      BY <2>2 DEF FinishGetFPtr, syms
    <3>2. jd \in [Slots -> Ents] /\ Coherent(jd, jm)
      BY <1>5 DEF Sound, DCType
    <3> HIDE DEF jd, jm
    <3>3. /\ e1 \in Caches /\ e1.vexsb = c.vexsb /\ e1.vexsb_dc = c.vexsb_dc
          /\ e1.func = c.func /\ e1.func_dc = c.func_dc
          /\ e1.jit = jm /\ e1.jit_dc = jd
      BY <1>1, <1>4, <3>2 DEF Caches
    <3> HIDE DEF e1
    <3>4. /\ c' \in Caches /\ c'.vexsb = c.vexsb /\ c'.vexsb_dc = c.vexsb_dc
          /\ c'.func = c.func /\ c'.func_dc = c.func_dc
          /\ c'.jit = jm /\ c'.jit_dc = jd /\ c'.open = {}
      BY <3>1, <3>3 DEF Caches
    <3> QED BY <3>2, <3>4, <1>1 DEF Good
  <2> QED BY <2>1, <2>2
<1>7. JITTypeOK'
  <2>1. c' \in Caches
    BY <1>6 DEF Good
  <2>2. /\ func_addrs' \in [Addr -> Code \cup {Null}]
        /\ mem' = mem /\ max_cache_ents' = max_cache_ents /\ req' = NoRequest
        /\ jpc' \in {"idle", "dead"} /\ ub' \in BOOLEAN
    BY <1>3 DEF FinishGetFPtr, syms
  <2> QED BY <1>1, <2>1, <2>2 DEF JITTypeOK
<1>8. CacheBounded' /\ jpc' # "prefetch"
  BY <1>1, <1>6 DEF FinishGetFPtr, CacheBounded
<1> QED BY <1>6, <1>7, <1>8 DEF JITInv

\* The first half of getFPtr, up to the prefetch loop, preserves the invariant.
LEMMA GetFPtrInv == ASSUME JITInv, NEW a \in Addr, GetFPtr(a) PROVE JITInv'
<1> DEFINE d == getCachedFPtr(c, a)
<1>1. /\ jpc = "idle" /\ Good(c) /\ JITTypeOK /\ c \in Caches
      /\ mem \in [Addr -> Code \cup {Bad}] /\ max_cache_ents \in Nat
      /\ Cardinality(Keys(c.vexsb)) <= max_cache_ents
  BY DEF JITInv, GetFPtr, Good, JITTypeOK, CacheBounded
<1>2. /\ Good(d) /\ d.vexsb = c.vexsb /\ d.vexsb_dc = c.vexsb_dc
  BY <1>1, RefillGood DEF getCachedFPtr, Caches
<1>3. Victims(d, a) = Victims(c, a)
  BY <1>2 DEF Victims, mustEvict, allocates, cachedVSB
<1> HIDE DEF d
<1>4. PICK v \in Victims(c, a) :
        /\ c' = getFunc(d, a, v)
        /\ IF cachedFunc(c', a) = Null
           THEN jpc' = "dead" /\ UNCHANGED <<req, ub>>
           ELSE /\ jpc' = "prefetch"
                /\ req' = [addr |-> a, todo |-> IF FetchExits THEN Exits[a] ELSE {},
                           queue |-> {}, seen |-> {a}, fnames |-> {}]
                /\ ub' = (ub \/ evictUB(a, v) \/ a \notin c'.open)
  BY DEF GetFPtr, d
<1>5. Good(c') /\ Cardinality(Keys(c'.vexsb)) <= max_cache_ents
  BY <1>1, <1>2, <1>3, <1>4, GetFuncGood
<1>6. mem' = mem /\ func_addrs' = func_addrs /\ max_cache_ents' = max_cache_ents
  BY DEF GetFPtr
<1>7. c' \in Caches
  BY <1>5 DEF Good
<1>8. CASE cachedFunc(c', a) = Null
  <2>1. jpc' = "dead" /\ req' = req /\ ub' = ub
    BY <1>4, <1>8
  <2> QED BY <1>1, <1>5, <1>6, <1>7, <2>1 DEF JITInv, JITTypeOK, CacheBounded
<1>9. CASE cachedFunc(c', a) # Null
  <2>1. /\ jpc' = "prefetch"
        /\ req' = [addr |-> a, todo |-> IF FetchExits THEN Exits[a] ELSE {},
                   queue |-> {}, seen |-> {a}, fnames |-> {}]
        /\ ub' \in BOOLEAN
    BY <1>4, <1>9
  <2>2. req' \in Requests /\ req'.fnames = {}
    BY <2>1, ExitsAssumption DEF Requests
  <2> QED BY <1>1, <1>5, <1>6, <1>7, <2>1, <2>2 DEF JITInv, JITTypeOK, CacheBounded
<1> QED BY <1>8, <1>9

\* One prefetched exit, with the eviction it may cause, preserves the invariant.
LEMMA PrefetchExitInv == ASSUME JITInv, NEW a \in Addr, PrefetchExit(a) PROVE JITInv'
<1>1. /\ jpc = "prefetch" /\ Good(c) /\ JITTypeOK /\ c \in Caches
      /\ mem \in [Addr -> Code \cup {Bad}] /\ max_cache_ents \in Nat
      /\ Cardinality(Keys(c.vexsb)) <= max_cache_ents
      /\ req \in Requests /\ req.fnames \cap Keys(c.jit) = {}
  BY DEF JITInv, PrefetchExit, Good, JITTypeOK, CacheBounded
<1>2. /\ mem' = mem /\ func_addrs' = func_addrs /\ max_cache_ents' = max_cache_ents
      /\ jpc' = jpc
  BY DEF PrefetchExit
<1>3. CASE c.jit[a] # Absent
  <2>1. req' = [req EXCEPT !.todo = req.todo \ {a}] /\ c' = c /\ ub' = ub
    BY <1>3 DEF PrefetchExit
  <2>2. req' \in Requests /\ req'.fnames = req.fnames
    BY <1>1, <2>1 DEF Requests
  <2> QED BY <1>1, <1>2, <2>1, <2>2 DEF JITInv, JITTypeOK, CacheBounded
<1>4. CASE c.jit[a] = Absent
  <2>1. PICK v \in Victims(c, a) :
          /\ c' = getFunc(c, a, v)
          /\ IF cachedFunc(c', a) = Null \/ a \in req.seen
             THEN /\ req' = [req EXCEPT !.todo = @ \ {a}]
                  /\ ub' = (ub \/ evictUB(a, v))
             ELSE /\ req' = [req EXCEPT !.todo = @ \ {a}, !.queue = @ \cup {a},
                                        !.seen = @ \cup {a}, !.fnames = @ \cup {a}]
                  /\ ub' = (ub \/ evictUB(a, v) \/ a \notin c'.open)
    BY <1>4 DEF PrefetchExit
  <2>2. /\ Good(c') /\ Cardinality(Keys(c'.vexsb)) <= max_cache_ents
        /\ Keys(c'.jit) \subseteq Keys(c.jit)
    BY <1>1, <2>1, GetFuncGood
  <2>3. a \notin Keys(c.jit)
    BY <1>4 DEF Keys
  <2>4. c' \in Caches /\ ub' \in BOOLEAN
    BY <2>1, <2>2 DEF Good
  <2>5. req' \in Requests /\ req'.fnames \subseteq req.fnames \cup {a}
    <3>1. CASE cachedFunc(c', a) = Null \/ a \in req.seen
      <4>1. req' = [req EXCEPT !.todo = req.todo \ {a}]
        BY <2>1, <3>1
      <4> QED BY <1>1, <4>1 DEF Requests
    <3>2. CASE ~(cachedFunc(c', a) = Null \/ a \in req.seen)
      <4> DEFINE r1 == [req EXCEPT !.todo = req.todo \ {a}]
      <4> DEFINE r2 == [r1 EXCEPT !.queue = r1.queue \cup {a}]
      <4> DEFINE r3 == [r2 EXCEPT !.seen = r2.seen \cup {a}]
      <4>1. r1 \in Requests /\ r1.fnames = req.fnames
        BY <1>1 DEF Requests
      <4>2. r2 \in Requests /\ r2.fnames = r1.fnames
        BY <4>1 DEF Requests
      <4>3. r3 \in Requests /\ r3.fnames = r2.fnames
        BY <4>2 DEF Requests
      <4>4. req' = [r3 EXCEPT !.fnames = r3.fnames \cup {a}]
        BY <2>1, <3>2, <1>1 DEF Requests
      <4> HIDE DEF r3
      <4> QED BY <4>1, <4>2, <4>3, <4>4 DEF Requests
    <3> QED BY <3>1, <3>2
  <2>6. req'.fnames \cap Keys(c'.jit) = {}
    BY <1>1, <2>2, <2>3, <2>5
  <2> QED BY <1>1, <1>2, <2>2, <2>4, <2>5, <2>6 DEF JITInv, JITTypeOK, CacheBounded
<1> QED BY <1>3, <1>4
\* Every operation of the caches preserves the inductive invariant.
LEMMA NextInv == JITInv /\ [JITNext]_jitVars => JITInv'
<1> SUFFICES ASSUME JITInv, [JITNext]_jitVars PROVE JITInv'
  OBVIOUS
<1>0. /\ Good(c) /\ JITTypeOK /\ c \in Caches /\ CacheBounded
      /\ mem \in [Addr -> Code \cup {Bad}] /\ max_cache_ents \in Nat
      /\ Cardinality(Keys(c.vexsb)) <= max_cache_ents
  BY DEF JITInv, Good, JITTypeOK, CacheBounded
<1>1. ASSUME NEW x \in MaxChoices, SetMaxCache(x) PROVE JITInv'
  <2>1. /\ c.open = {} /\ x \in Nat
    BY <1>1, BoundAssumption DEF JITInv, SetMaxCache
  <2>2. /\ max_cache_ents' = x /\ jpc' = "idle" /\ req' = req /\ mem' = mem
        /\ func_addrs' = func_addrs /\ ub' = ub /\ jpc = "idle"
    BY <1>1 DEF SetMaxCache
  <2>3. Good(c') /\ c'.open = {} /\ Cardinality(Keys(c'.vexsb)) <= x
    <3>1. CASE x < max_cache_ents
      <4>1. c' = flushAll(c)
        BY <1>1, <3>1 DEF SetMaxCache
      <4>2. Cardinality({}) = 0
        BY FS_EmptySet
      <4> QED BY <1>0, <2>1, <4>1, <4>2, FlushAllGood
    <3>2. CASE ~(x < max_cache_ents)
      <4>1. c' = c
        BY <1>1, <3>2 DEF SetMaxCache
      <4>2. Cardinality(Keys(c.vexsb)) \in Nat
        BY KeysFinite
      <4> QED BY <1>0, <2>1, <3>2, <4>1, <4>2
    <3> QED BY <3>1, <3>2
  <2>4. c' \in Caches
    BY <2>3 DEF Good
  <2> QED BY <1>0, <2>1, <2>2, <2>3, <2>4 DEF JITInv, JITTypeOK, CacheBounded
<1>2. ASSUME NEW a \in Addr, GetVSB(a) PROVE JITInv'
  <2>1. PICK v \in Victims(c, a) :
          c' = getVSB(c, a, v) /\ ub' = (ub \/ evictUB(a, v))
    BY <1>2 DEF GetVSB
  <2>2. /\ jpc = "idle" /\ jpc' = "idle" /\ req' = req /\ mem' = mem
        /\ func_addrs' = func_addrs /\ max_cache_ents' = max_cache_ents
    BY <1>2 DEF GetVSB
  <2>3. Good(c') /\ Cardinality(Keys(c'.vexsb)) <= max_cache_ents
    BY <1>0, <2>1, GetVSBGood
  <2>4. c' \in Caches /\ ub' \in BOOLEAN
    BY <2>1, <2>3 DEF Good
  <2>5. c.open = {}
    BY <2>2 DEF JITInv
  <2>6. c'.open = {}
    <3>1. (getCachedVSB(c, a)).open = c.open
      BY <1>0 DEF getCachedVSB, Caches
    <3>2. evict(c, v).open = {}
      BY <2>5 DEF evict
    <3>3. \A e : e \in Caches => insertVSB(e, a, mem[a]).open = e.open
      BY DEF insertVSB, Caches
    <3>4. v \in Addr => evict(c, v) \in Caches
      BY <1>0, EvictGood DEF Good
    <3>5. mustEvict(c, a) => v \in Addr
      BY <2>1 DEF Victims, Keys
    <3> QED BY <1>0, <2>1, <2>5, <3>1, <3>2, <3>3, <3>4, <3>5 DEF getVSB
  <2> QED BY <1>0, <2>2, <2>3, <2>4, <2>6 DEF JITInv, JITTypeOK, CacheBounded
<1>3. ASSUME NEW a \in Addr, VictimOfNone(a) PROVE JITInv'
  BY <1>0, <1>3 DEF VictimOfNone, JITInv, JITTypeOK, CacheBounded
<1>4. ASSUME NEW a \in Addr, GetCachedFPtr(a) PROVE JITInv'
  <2>1. /\ Good(c') /\ c'.vexsb = c.vexsb /\ c'.open = c.open
    BY <1>0, <1>4, RefillGood DEF GetCachedFPtr, getCachedFPtr, Caches
  <2>2. /\ jpc = "idle" /\ jpc' = "idle" /\ req' = req /\ mem' = mem
        /\ func_addrs' = func_addrs /\ max_cache_ents' = max_cache_ents /\ ub' = ub
    BY <1>4 DEF GetCachedFPtr
  <2>3. c' \in Caches
    BY <2>1 DEF Good
  <2> QED BY <1>0, <2>1, <2>2, <2>3 DEF JITInv, JITTypeOK, CacheBounded
<1>5. ASSUME NEW a \in Addr, GetFPtr(a) PROVE JITInv'
  BY <1>5, GetFPtrInv
<1>6. ASSUME NEW a \in Addr, PrefetchExit(a) PROVE JITInv'
  BY <1>6, PrefetchExitInv
<1>7. ASSUME NEW r \in Ranges, FlushRange(r[1], r[2]) PROVE JITInv'
  <2>1. /\ jpc = "idle" /\ jpc' = "idle" /\ req' = req /\ mem' = mem
        /\ func_addrs' = func_addrs /\ max_cache_ents' = max_cache_ents
        /\ c' = flushRange(c, r[1], r[2]) /\ ub' \in BOOLEAN
    BY <1>7 DEF FlushRange
  <2>2. /\ Good(c') /\ Keys(c'.vexsb) \subseteq Keys(c.vexsb) /\ c'.open \subseteq c.open
    BY <1>0, <2>1, FlushRangeGood
  <2>3. Cardinality(Keys(c'.vexsb)) <= max_cache_ents
    <3>1. IsFiniteSet(Keys(c.vexsb)) /\ Cardinality(Keys(c.vexsb)) \in Nat
      BY KeysFinite
    <3>2. /\ Cardinality(Keys(c'.vexsb)) \in Nat
          /\ Cardinality(Keys(c'.vexsb)) <= Cardinality(Keys(c.vexsb))
      BY <3>1, <2>2, FS_Subset, FS_CardinalityType
    <3> QED BY <1>0, <3>1, <3>2
  <2>4. c' \in Caches /\ c'.open = {}
    BY <2>1, <2>2 DEF Good, JITInv
  <2> QED BY <1>0, <2>1, <2>2, <2>3, <2>4 DEF JITInv, JITTypeOK, CacheBounded
<1>8. ASSUME NEW a \in Addr, NEW k \in Code \cup {Bad}, GuestWrite(a, k) PROVE JITInv'
  BY <1>0, <1>8 DEF GuestWrite, JITInv, JITTypeOK, CacheBounded
<1>9. CASE PrefetchNext
  <2>1. /\ jpc = "prefetch" /\ jpc' = jpc /\ c' = c /\ mem' = mem
        /\ func_addrs' = func_addrs /\ max_cache_ents' = max_cache_ents
    BY <1>9 DEF PrefetchNext
  <2>2. PICK f \in req.queue : req' = [req EXCEPT !.queue = req.queue \ {f},
                                                  !.todo = Exits[f]]
                               /\ ub' = (ub \/ f \notin c.open)
    BY <1>9 DEF PrefetchNext
  <2>3. req \in Requests /\ req.fnames \cap Keys(c.jit) = {}
    BY <2>1 DEF JITInv
  <2>4. Exits[f] \in SUBSET Addr
    BY <2>3, ExitsAssumption DEF Requests
  <2>5. req' \in Requests /\ req'.fnames = req.fnames
    BY <2>2, <2>3, <2>4 DEF Requests
  <2> QED BY <1>0, <2>1, <2>2, <2>3, <2>5 DEF JITInv, JITTypeOK, CacheBounded
<1>10. CASE FinishGetFPtr
  BY <1>10, FinishInv
<1>11. CASE Crash
  BY <1>0, <1>11 DEF Crash, JITInv, JITTypeOK, CacheBounded
<1>12. CASE UNCHANGED jitVars
  BY <1>0, <1>12 DEF jitVars, JITInv, JITTypeOK, CacheBounded
<1> QED
  BY <1>1, <1>2, <1>3, <1>4, <1>5, <1>6, <1>7, <1>8, <1>9, <1>10, <1>11, <1>12
  DEF JITNext

\* The inductive invariant holds in every reachable state.
THEOREM JITInvariant == JITSpec => []JITInv
BY InitInv, NextInv, PTL DEF JITSpec

\* Every variable of the caches keeps its type.
THEOREM JITTypeCorrect == JITSpec => []JITTypeOK
<1>1. JITInv => JITTypeOK
  BY DEF JITInv
<1> QED BY <1>1, JITInvariant, PTL

\* The three direct caches of directcache.h never answer a pointer that the map
\* behind them does not hold, for any slot count and any collision.
THEOREM Coherence == JITSpec => []DCCoherent
<1>1. JITInv => DCCoherent
  BY DEF JITInv, Good, DCCoherent
<1> QED BY <1>1, JITInvariant, PTL

\* allocCacheVSB and setMaxCache keep the superblock map within its limit.
THEOREM Bounded == JITSpec => []CacheBounded
<1>1. JITInv => CacheBounded
  BY DEF JITInv
<1> QED BY <1>1, JITInvariant, PTL

\* Every cached function still has its superblock.
THEOREM FunctionsHaveVSBs == JITSpec => []FuncHasVSB
<1>1. JITInv => FuncHasVSB
  BY DEF JITInv, Good, FuncHasVSB
<1> QED BY <1>1, JITInvariant, PTL
-----------------------------------------------------------------------------
(* As long as no limit is set nothing is evicted and the keys of jit_cache *)
(* and func_cache stay together; during a prefetch func_cache is ahead by  *)
(* the functions collected so far.                                         *)

AlignInv ==
    /\ JITInv
    /\ max_cache_ents = Unbounded =>
        /\ jpc = "idle" => Keys(c.jit) = Keys(c.func)
        /\ jpc = "prefetch" => /\ req.seen = req.fnames \cup {req.addr}
                               /\ Keys(c.func) = Keys(c.jit) \cup req.seen

\* With the default limit allocCacheVSB never evicts.
LEMMA NoEviction ==
    ASSUME max_cache_ents = Unbounded, NEW d, NEW a PROVE ~mustEvict(d, a)
<1>1. /\ Cardinality(Keys(d.vexsb)) \in Nat
      /\ Cardinality(Keys(d.vexsb)) <= Cardinality(Addr)
  BY KeysFinite
<1>2. Cardinality(Addr) \in Nat
  BY AddrFinite, FS_CardinalityType
<1> QED BY <1>1, <1>2, BoundAssumption DEF mustEvict

\* Every operation but setMaxCache preserves the alignment of the keys, and
\* setMaxCache ends the unlimited part of a run.
LEMMA AlignNext == AlignInv /\ [JITNext]_jitVars => AlignInv'
<1> SUFFICES ASSUME AlignInv, [JITNext]_jitVars, max_cache_ents' = Unbounded
             PROVE  AlignInv'
  BY NextInv DEF AlignInv
<1>12. ASSUME NEW x \in MaxChoices PROVE ~SetMaxCache(x)
  BY BoundAssumption DEF SetMaxCache
<1>13. max_cache_ents = Unbounded
  BY <1>12 DEF JITNext, GetVSB, VictimOfNone, GetCachedFPtr, GetFPtr, PrefetchExit,
               GuestWrite, FlushRange, PrefetchNext, FinishGetFPtr, Crash, jitVars
<1>0. /\ JITInv /\ JITInv' /\ Good(c) /\ Good(c') /\ c \in Caches
      /\ mem \in [Addr -> Code \cup {Bad}] /\ max_cache_ents \in Nat
      /\ Cardinality(Keys(c.vexsb)) <= max_cache_ents
      /\ max_cache_ents = Unbounded
  BY <1>13, NextInv DEF AlignInv, JITInv, Good, JITTypeOK, CacheBounded
<1>1. ASSUME NEW a \in Addr, GetVSB(a) PROVE AlignInv'
  <2>1. PICK v \in Victims(c, a) : c' = getVSB(c, a, v)
    BY <1>1 DEF GetVSB
  <2>2. c'.func = c.func /\ c'.jit = c.jit
    BY <1>0, <2>1, GetVSBGood, NoEviction
  <2> QED BY <1>0, <1>1, <2>2 DEF GetVSB, AlignInv
<1>2. ASSUME NEW a \in Addr, VictimOfNone(a) PROVE AlignInv'
  BY <1>0, <1>2 DEF VictimOfNone, AlignInv
<1>3. ASSUME NEW a \in Addr, GetCachedFPtr(a) PROVE AlignInv'
  <2>1. c'.func = c.func /\ c'.jit = c.jit
    BY <1>0, <1>3 DEF GetCachedFPtr, getCachedFPtr, Caches
  <2> QED BY <1>0, <1>3, <2>1 DEF GetCachedFPtr, AlignInv
<1>4. ASSUME NEW a \in Addr, GetFPtr(a) PROVE AlignInv'
  <2> DEFINE d == getCachedFPtr(c, a)
  <2>1. /\ Good(d) /\ d.vexsb = c.vexsb /\ d.vexsb_dc = c.vexsb_dc
        /\ d.func = c.func /\ d.jit = c.jit
    BY <1>0, RefillGood DEF getCachedFPtr, Caches
  <2>2. Victims(d, a) = Victims(c, a)
    BY <2>1 DEF Victims, mustEvict, allocates, cachedVSB
  <2>3. PICK v \in Victims(c, a) : c' = getFunc(d, a, v)
    BY <1>4 DEF GetFPtr
  <2>4. /\ max_cache_ents' = max_cache_ents /\ Keys(c.jit) = Keys(c.func)
        /\ \/ jpc' = "dead"
           \/ /\ cachedFunc(c', a) # Null /\ jpc' = "prefetch"
              /\ req' = [addr |-> a, todo |-> IF FetchExits THEN Exits[a] ELSE {},
                         queue |-> {}, seen |-> {a}, fnames |-> {}]
    BY <1>0, <1>4 DEF GetFPtr, AlignInv
  <2> HIDE DEF d
  <2>5. c'.jit = d.jit /\ (c'.func[a] # Absent => Keys(c'.func) = Keys(d.func) \cup {a})
    BY <1>0, <2>1, <2>2, <2>3, GetFuncGood, NoEviction
  <2>6. cachedFunc(c', a) # Null => c'.func[a] # Absent
    BY <1>0, CachedLookups
  <2> QED BY <1>0, <2>1, <2>4, <2>5, <2>6 DEF AlignInv
<1>5. ASSUME NEW a \in Addr, PrefetchExit(a) PROVE AlignInv'
  <2>1. /\ jpc = "prefetch" /\ jpc' = "prefetch" /\ max_cache_ents' = max_cache_ents
        /\ req \in Requests /\ req.seen = req.fnames \cup {req.addr}
        /\ Keys(c.func) = Keys(c.jit) \cup req.seen
    BY <1>0, <1>5 DEF PrefetchExit, AlignInv, JITInv
  <2>2. CASE c.jit[a] # Absent
    <3>1. req' = [req EXCEPT !.todo = req.todo \ {a}] /\ c' = c
      BY <1>5, <2>2 DEF PrefetchExit
    <3>2. req'.seen = req.seen /\ req'.fnames = req.fnames /\ req'.addr = req.addr
      BY <2>1, <3>1 DEF Requests
    <3> QED BY <1>0, <2>1, <3>1, <3>2 DEF AlignInv
  <2>3. CASE c.jit[a] = Absent
    <3>1. PICK v \in Victims(c, a) :
            /\ c' = getFunc(c, a, v)
            /\ IF cachedFunc(c', a) = Null \/ a \in req.seen
               THEN req' = [req EXCEPT !.todo = req.todo \ {a}]
               ELSE req' = [req EXCEPT !.todo = @ \ {a}, !.queue = @ \cup {a},
                                       !.seen = @ \cup {a}, !.fnames = @ \cup {a}]
      BY <1>5, <2>3 DEF PrefetchExit
    <3>2. /\ c'.jit = c.jit
          /\ Keys(c'.func) = Keys(c.func) \cup (IF c'.func[a] # Absent THEN {a} ELSE {})
      BY <1>0, <3>1, GetFuncGood, NoEviction
    <3>3. cachedFunc(c', a) = Null <=> c'.func[a] = Absent
      BY <1>0, CachedLookups, GoodParts, CodeAssumption
    <3>4. CASE cachedFunc(c', a) = Null \/ a \in req.seen
      <4>1. req'.seen = req.seen /\ req'.fnames = req.fnames /\ req'.addr = req.addr
        BY <2>1, <3>1, <3>4 DEF Requests
      <4>2. Keys(c'.func) = Keys(c.func)
        BY <2>1, <3>2, <3>3, <3>4
      <4> QED BY <1>0, <2>1, <3>2, <4>1, <4>2 DEF AlignInv
    <3>5. CASE ~(cachedFunc(c', a) = Null \/ a \in req.seen)
      <4>1. /\ req'.seen = req.seen \cup {a} /\ req'.fnames = req.fnames \cup {a}
            /\ req'.addr = req.addr
        <5>1. req' = [req EXCEPT !.todo = @ \ {a}, !.queue = @ \cup {a},
                                 !.seen = @ \cup {a}, !.fnames = @ \cup {a}]
          BY <3>1, <3>5
        <5> QED BY <2>1, <5>1 DEF Requests
      <4> QED BY <1>0, <2>1, <3>2, <3>3, <3>5, <4>1 DEF AlignInv
    <3> QED BY <3>4, <3>5
  <2> QED BY <2>2, <2>3
<1>6. ASSUME NEW r \in Ranges, FlushRange(r[1], r[2]) PROVE AlignInv'
  <2>1. /\ Keys(c'.func) = Keys(c.func) \ KeysIn(c.func, r[1], r[2])
        /\ Keys(c'.jit) = Keys(c.jit) \ KeysIn(c.func, r[1], r[2])
    BY <1>0, <1>6, FlushRangeGood DEF FlushRange
  <2> QED BY <1>0, <1>6, <2>1 DEF FlushRange, AlignInv
<1>7. ASSUME NEW a \in Addr, NEW k \in Code \cup {Bad}, GuestWrite(a, k) PROVE AlignInv'
  BY <1>0, <1>7 DEF GuestWrite, AlignInv
<1>8. CASE PrefetchNext
  <2>1. PICK f \in req.queue : req' = [req EXCEPT !.queue = req.queue \ {f},
                                                  !.todo = Exits[f]]
    BY <1>8 DEF PrefetchNext
  <2>2. /\ jpc = "prefetch" /\ jpc' = jpc /\ c' = c /\ max_cache_ents' = max_cache_ents
        /\ req \in Requests
    BY <1>0, <1>8 DEF PrefetchNext, AlignInv, JITInv
  <2>3. req'.seen = req.seen /\ req'.fnames = req.fnames /\ req'.addr = req.addr
    BY <2>1, <2>2 DEF Requests
  <2> QED BY <1>0, <2>2, <2>3 DEF AlignInv
<1>9. CASE FinishGetFPtr
  <2> DEFINE a == req.addr
  <2> DEFINE syms == getPointerToFunction(c, a)
  <2> DEFINE jm == [b \in Addr |-> IF b \in req.fnames \cup {a} THEN syms[b] ELSE c.jit[b]]
  <2>1. /\ jpc = "prefetch" /\ req \in Requests /\ max_cache_ents' = max_cache_ents
        /\ req.seen = req.fnames \cup {a} /\ Keys(c.func) = Keys(c.jit) \cup req.seen
    BY <1>0, <1>9 DEF FinishGetFPtr, AlignInv, JITInv
  <2>2. func_addrs' = syms /\ func_addrs' \in [Addr -> Code \cup {Null}]
    BY <1>0, <1>9 DEF FinishGetFPtr, JITInv, JITTypeOK
  <2>3. \A b \in Addr : syms[b] # Absent
    BY <2>2, CodeAssumption, NullAssumption
  <2>4. CASE jpc' = "dead"
    BY <1>0, <2>1, <2>4 DEF AlignInv
  <2>5. CASE jpc' # "dead"
    <3>1. /\ jpc' = "idle"
          /\ c' = [c EXCEPT !.jit = jm, !.jit_dc = put(c.jit_dc, a, syms[a]), !.open = {}]
      BY <1>9, <2>5 DEF FinishGetFPtr
    <3> HIDE DEF syms
    <3>2. Keys(jm) = Keys(c.jit) \cup req.seen
      BY <2>1, <2>3 DEF Keys, Requests
    <3> HIDE DEF jm
    <3>3. c'.jit = jm /\ c'.func = c.func
      BY <1>0, <3>1 DEF Caches
    <3> QED BY <1>0, <2>1, <3>1, <3>2, <3>3 DEF AlignInv
  <2> QED BY <2>4, <2>5
<1>10. CASE Crash
  BY <1>0, <1>10 DEF Crash, AlignInv
<1>11. CASE UNCHANGED jitVars
  BY <1>0, <1>11 DEF jitVars, AlignInv
<1> QED
  BY <1>1, <1>2, <1>3, <1>4, <1>5, <1>6, <1>7, <1>8, <1>9, <1>10, <1>11, <1>12
  DEF JITNext

\* Until a limit is set the keys of jit_cache and func_cache stay aligned.
LEMMA AlignInvariant == JITSpec => []AlignInv
<1>1. JITInit => AlignInv
  <2>1. JITInit => JITInv
    BY InitInv
  <2>2. JITInit => Keys(c.jit) = {} /\ Keys(c.func) = {}
    BY DEF JITInit, Keys
  <2> QED BY <2>1, <2>2 DEF AlignInv, JITInit
<1>2. AlignInv /\ [JITNext]_jitVars => AlignInv'
  BY AlignNext
<1> QED BY <1>1, <1>2, PTL DEF JITSpec

\* With no cache limit (the default), between two calls of the cache the code
\* pointers and the functions have the same addresses, after any prefetch.
THEOREM Alignment == JITSpec => []KeysAligned
<1>1. AlignInv => KeysAligned
  BY DEF AlignInv, KeysAligned
<1> QED BY <1>1, AlignInvariant, PTL

\* With no cache limit, VexJITCache::flush(begin, end) leaves nothing of the
\* range behind although it finds the code pointers by walking func_cache.
THEOREM FlushIsComplete == JITSpec => FlushComplete
<1>1. AlignInv /\ AlignInv' /\ [JITNext]_jitVars => FlushLeavesNothing
  <2> SUFFICES ASSUME AlignInv, AlignInv', NEW r \in Ranges, FlushRange(r[1], r[2]),
                      max_cache_ents = Unbounded,
                      NEW x \in Addr, r[1] <= x, x <= r[2]
               PROVE  /\ cachedVSB(c', x) = Null
                      /\ cachedFunc(c', x) = Null
                      /\ cachedFPtr(c', x) = Null
    BY DEF FlushLeavesNothing
  <2>1. Good(c) /\ Good(c') /\ Keys(c.jit) = Keys(c.func)
    BY DEF AlignInv, JITInv, FlushRange
  <2>2. /\ Keys(c'.vexsb) = Keys(c.vexsb) \ KeysIn(c.vexsb, r[1], r[2])
        /\ Keys(c'.func) = Keys(c.func) \ KeysIn(c.func, r[1], r[2])
        /\ Keys(c'.jit) = Keys(c.jit) \ KeysIn(c.func, r[1], r[2])
    BY <2>1, FlushRangeGood DEF FlushRange
  <2>3. x \notin Keys(c'.vexsb) /\ x \notin Keys(c'.func) /\ x \notin Keys(c'.jit)
    BY <2>1, <2>2 DEF KeysIn
  <2>4. c'.vexsb[x] = Absent /\ c'.func[x] = Absent /\ c'.jit[x] = Absent
    BY <2>3 DEF Keys
  <2> QED BY <2>1, <2>4, CachedLookups
<1>2. AlignInv /\ AlignInv' /\ [JITNext]_jitVars => [FlushLeavesNothing]_jitVars
  BY <1>1
<1> QED BY <1>2, AlignInvariant, PTL DEF JITSpec, FlushComplete

(***************************************************************************)
(* The dispatcher.                                                         *)
(***************************************************************************)
Holding == {"fptr", "jit", "exec", "run", "segv", "exit"}

\* The dispatcher's own part of the inductive invariant: the block it holds is
\* a real address, a store in progress is into a mapping, a pending flush is
\* that of a mapping, and a block is only prepared in a protected mapping.
DispInv ==
    /\ pc \in Holding \cup {"ctor", "top", "stopped", "dead"}
    /\ cur \in Addr \cup {0} /\ fault \in Addr \cup {0}
    /\ next_addr \in Addr \cup {0} /\ new_jmpaddr \in Addr \cup {0}
    /\ running \in Code \cup {Null}
    /\ exit_type \in ExitTypes \cup {"GE_IGNORE"}
    /\ cur_prot \in [Maps -> SUBSET {"R", "W", "X"}]
    /\ to_flush \in [first : Nat, second : Nat]
    /\ stores \in 0 .. MaxStores
    /\ pc \in Holding => cur # 0
    /\ fault # 0 => MapOf[fault] \in Maps
    /\ pc = "segv" => fault # 0
    /\ to_flush.first # 0 =>
          \E m \in Maps : to_flush = [first |-> Start[m], second |-> End[m]]
    /\ pc \in {"fptr", "jit", "exec"} /\ MapOf[cur] # NoMap =>
          "W" \notin cur_prot[MapOf[cur]]

ExecInv == JITInv /\ DispInv

\* The constructor's state satisfies the dispatcher's invariant.
LEMMA ExecInit == Init => ExecInv
<1> SUFFICES ASSUME Init PROVE ExecInv
  OBVIOUS
<1>1. JITInv
  BY InitInv DEF Init
<1>2. 0 \in 0 .. MaxStores
  BY MapsAssumption
<1>3. to_flush \in [first : Nat, second : Nat] /\ to_flush.first = 0
  BY DEF Init, NoFlush
<1>4. DispInv
  BY <1>2, <1>3, MapsAssumption, AddrAssumption DEF Init, DispInv, Holding
<1> QED BY <1>1, <1>4 DEF ExecInv

\* Every step of the dispatcher is a step of the caches or leaves them alone.
LEMMA StepIsJIT == ExecInv /\ [Next]_vars => [JITNext]_jitVars
<1> SUFFICES ASSUME ExecInv, [Next]_vars PROVE [JITNext]_jitVars
  OBVIOUS
<1> USE DEF ExecInv, DispInv, Holding
<1>1. CASE Begin
  BY <1>1 DEF Begin, JITNext
<1>2. CASE FlushTampered
  <2>1. PICK m \in Maps : to_flush = [first |-> Start[m], second |-> End[m]]
    BY <1>2 DEF FlushTampered
  <2> DEFINE r == <<Start[m] - MAX_CODE_BYTES, End[m] + MAX_CODE_BYTES>>
  <2>2. r \in Ranges
    BY MapsAssumption
  <2>3. FlushRange(r[1], r[2])
    BY <1>2, <2>1 DEF FlushTampered
  <2> QED BY <2>2, <2>3 DEF JITNext
<1>3. CASE Stop
  BY <1>3 DEF Stop
<1>4. CASE Dispatch
  <2>1. next_addr \in Addr
    BY <1>4 DEF Dispatch, NotExecutable
  <2> QED BY <1>4, <2>1 DEF Dispatch, JITNext
<1>5. CASE FPtrHit
  BY <1>5 DEF FPtrHit, JITNext
<1>6. CASE FPtrMiss
  BY <1>6 DEF FPtrMiss, JITNext
<1>7. CASE FPtrPrefetch
  BY <1>7 DEF FPtrPrefetch, JITNext
<1>8. CASE FPtrDone
  BY <1>8 DEF FPtrDone, JITNext
<1>9. CASE AssertSpan
  BY <1>9 DEF AssertSpan
<1>10. CASE DoVexSB
  BY <1>10 DEF DoVexSB, JITNext
<1>11. CASE Block
  BY <1>11 DEF Block, Store, BlockExit
<1>12. CASE StoreWrites
  BY <1>12 DEF StoreWrites, JITNext
<1>13. CASE StoreTraps
  BY <1>13 DEF StoreTraps
<1>14. CASE SignalHandler
  BY <1>14 DEF SignalHandler
<1>15. CASE HandleExit
  BY <1>15 DEF HandleExit
<1>16. CASE Die
  <2>1. CASE Crash
    BY <2>1 DEF JITNext
  <2>2. CASE VictimOfNone(next_addr) /\ ~NotExecutable(next_addr)
    <3>1. next_addr \in Addr
      BY <2>2 DEF NotExecutable
    <3> QED BY <2>2, <3>1 DEF JITNext
  <2> QED BY <1>16, <2>1, <2>2 DEF Die
<1>17. CASE Halted \/ UNCHANGED vars
  BY <1>17 DEF Halted, vars
<1> QED
  BY <1>1, <1>2, <1>3, <1>4, <1>5, <1>6, <1>7, <1>8, <1>9, <1>10, <1>11, <1>12,
     <1>13, <1>14, <1>15, <1>16, <1>17 DEF Next, Step

\* The dispatcher's own invariant is preserved.
LEMMA StepDisp == ExecInv /\ [Next]_vars => DispInv'
<1> SUFFICES ASSUME ExecInv, [Next]_vars PROVE DispInv'
  OBVIOUS
<1>0. DispInv /\ JITInv
  BY DEF ExecInv
<1> USE DEF DispInv, Holding, execVars
<1>1. CASE Begin
  BY <1>0, <1>1 DEF Begin
<1>2. CASE FlushTampered
  BY <1>0, <1>2 DEF FlushTampered, NoFlush
<1>3. CASE Stop
  BY <1>0, <1>3 DEF Stop
<1>4. CASE Dispatch
  <2>1. next_addr \in Addr /\ next_addr # 0
    BY <1>0, <1>4, AddrAssumption DEF Dispatch, NotExecutable
  <2>2. MapOf[next_addr] \in Maps \cup {NoMap} /\ NoMap \notin Maps
    BY <2>1, MapsAssumption
  <2>3. /\ cur_prot' \in [Maps -> SUBSET {"R", "W", "X"}]
        /\ MapOf[next_addr] # NoMap => "W" \notin cur_prot'[MapOf[next_addr]]
    BY <1>0, <1>4, <2>2, MapsAssumption DEF Dispatch, protect
  <2>4. pc' \in {"stopped", "fptr"} /\ cur' = next_addr
    BY <1>4 DEF Dispatch
  <2> QED BY <1>0, <1>4, <2>1, <2>3, <2>4 DEF Dispatch
<1>5. CASE FPtrHit
  BY <1>0, <1>5 DEF FPtrHit
<1>6. CASE FPtrMiss
  BY <1>0, <1>6 DEF FPtrMiss
<1>7. CASE FPtrPrefetch
  BY <1>0, <1>7 DEF FPtrPrefetch
<1>8. CASE FPtrDone
  BY <1>0, <1>8 DEF FPtrDone
<1>9. CASE AssertSpan
  BY <1>0, <1>9 DEF AssertSpan
<1>10. CASE DoVexSB
  <2>1. cur \in Addr
    BY <1>0, <1>10 DEF DoVexSB
  <2>2. Good(c)
    BY <1>0 DEF JITInv
  <2>3. cachedFPtr(c, cur) \in Code \cup {Null}
    BY <2>1, <2>2, CachedLookups, GoodParts
  <2> QED BY <1>0, <1>10, <2>3, MapsAssumption DEF DoVexSB
<1>11. ASSUME NEW x \in Addr, Store(x) PROVE DispInv'
  <2>1. MapOf[x] \in Maps /\ stores' \in 0 .. MaxStores
    BY <1>0, <1>11, MapsAssumption DEF Store
  <2> QED BY <1>0, <1>11, <2>1 DEF Store
<1>12. ASSUME NEW a \in Addr \cup {0}, NEW et \in ExitTypes, BlockExit(a, et)
       PROVE  DispInv'
  BY <1>0, <1>12 DEF BlockExit
<1>13. CASE StoreWrites
  BY <1>0, <1>13 DEF StoreWrites
<1>14. CASE StoreTraps
  BY <1>0, <1>14 DEF StoreTraps
<1>15. CASE SignalHandler
  <2> DEFINE m == MapOf[fault]
  <2>1. m \in Maps /\ fault # 0
    BY <1>0, <1>15 DEF SignalHandler
  <2>2. CASE "X" \in ReqProt[m] /\ "W" \notin cur_prot[m]
    <3>1. /\ cur_prot' = [cur_prot EXCEPT ![m] = ReqProt[m] \ {"X"}]
          /\ to_flush' = [first |-> Start[m], second |-> End[m]] /\ pc' = "run"
          /\ UNCHANGED <<cur, running, next_addr, new_jmpaddr, exit_type, fault, stores>>
      BY <1>15, <2>2 DEF SignalHandler, unprotect, flushTamperedCode
    <3>2. /\ cur_prot' \in [Maps -> SUBSET {"R", "W", "X"}]
          /\ to_flush' \in [first : Nat, second : Nat]
      BY <1>0, <2>1, <3>1, MapsAssumption
    <3> QED BY <1>0, <1>15, <2>1, <3>1, <3>2 DEF SignalHandler
  <2>3. CASE ~("X" \in ReqProt[m] /\ "W" \notin cur_prot[m])
    BY <1>0, <1>15, <2>3 DEF SignalHandler
  <2> QED BY <2>2, <2>3
<1>16. CASE HandleExit
  BY <1>0, <1>16 DEF HandleExit
<1>17. CASE Die
  BY <1>0, <1>17 DEF Die
<1>18. CASE Halted \/ UNCHANGED vars
  BY <1>0, <1>18 DEF Halted, vars
<1> QED
  BY <1>1, <1>2, <1>3, <1>4, <1>5, <1>6, <1>7, <1>8, <1>9, <1>10, <1>11, <1>12,
     <1>13, <1>14, <1>15, <1>16, <1>17, <1>18 DEF Next, Step, Block

\* The invariants of caches and dispatcher hold throughout a run.
LEMMA ExecInvariant == Spec => []ExecInv
<1>1. ExecInv /\ [Next]_vars => ExecInv'
  <2>1. ExecInv /\ [Next]_vars => JITInv'
    BY StepIsJIT, NextInv DEF ExecInv
  <2> QED BY <2>1, StepDisp DEF ExecInv
<1> QED BY <1>1, ExecInit, PTL DEF Spec

\* The dispatcher uses the caches only as JITCache allows, so everything proved
\* of JITSpec holds of the running program.
THEOREM Implements == Spec => JITSpec
<1>1. Init => JITInit
  BY DEF Init
<1> QED BY <1>1, StepIsJIT, ExecInvariant, PTL DEF Spec, JITSpec

\* Every variable of the dispatcher and of its caches keeps its type.
THEOREM TypeCorrect == Spec => []TypeOK
<1>1. ExecInv => TypeOK
  BY DEF ExecInv, JITInv, DispInv, TypeOK, Holding
<1> QED BY <1>1, ExecInvariant, PTL

\* getSBFromGuestAddr never prepares a block in a mapping that is writable.
THEOREM Protected == Spec => []RunProtected
<1>1. ExecInv => RunProtected
  BY DEF ExecInv, DispInv, RunProtected
<1> QED BY <1>1, ExecInvariant, PTL
-----------------------------------------------------------------------------
(* The block the dispatcher holds.                                         *)

\* A superblock is kept, dropped or, at one address, translated from memory.
VSBStep(d, e, a) ==
    \A b \in Addr : e.vexsb[b] \in {Absent, d.vexsb[b]} \/ (b = a /\ e.vexsb[b] = mem[b])
VSBsKept(d, e) == \A b \in Addr : d.vexsb[b] # Absent => e.vexsb[b] = d.vexsb[b]

\* getVSB translates at one address, and drops nothing unless it evicts.
LEMMA GetVSBSteps ==
    ASSUME mem \in [Addr -> Code \cup {Bad}],
           NEW d, Good(d), NEW a \in Addr, NEW v \in Victims(d, a)
    PROVE  /\ VSBStep(d, getVSB(d, a, v), a)
           /\ ~mustEvict(d, a) => VSBsKept(d, getVSB(d, a, v))
<1>0. d \in Caches /\ d.vexsb \in [Addr -> Code \cup {Absent}]
  BY GoodParts DEF Good
<1>1. CASE ~allocates(d, a)
  <2>1. getVSB(d, a, v).vexsb = d.vexsb
    BY <1>0, <1>1 DEF getVSB, getCachedVSB, Caches
  <2> QED BY <2>1 DEF VSBStep, VSBsKept
<1>2. CASE allocates(d, a) /\ mustEvict(d, a)
  <2> DEFINE e == evict(d, v)
  <2>1. v \in Addr
    BY <1>2 DEF Victims, Keys
  <2>2. Good(e) /\ e.vexsb = erase(d.vexsb, {v})
    BY <2>1, EvictGood DEF evict
  <2>3. getVSB(d, a, v) = insertVSB(e, a, mem[a])
    BY <1>2 DEF getVSB
  <2> HIDE DEF e
  <2>4. e \in Caches /\ e.vexsb \in [Addr -> Code \cup {Absent}]
    BY <2>2, GoodParts DEF Good
  <2>5. getVSB(d, a, v).vexsb = [e.vexsb EXCEPT ![a] = mem[a]]
    BY <2>3, <2>4 DEF insertVSB, Caches
  <2> QED BY <1>2, <2>2, <2>4, <2>5 DEF VSBStep, erase
<1>3. CASE allocates(d, a) /\ ~mustEvict(d, a)
  <2>1. getVSB(d, a, v) = insertVSB(d, a, mem[a])
    BY <1>3 DEF getVSB
  <2>2. getVSB(d, a, v).vexsb = [d.vexsb EXCEPT ![a] = mem[a]]
    BY <1>0, <2>1 DEF insertVSB, Caches
  <2>3. d.vexsb[a] = Absent
    BY <1>0, <1>3, CachedLookups, CodeAssumption DEF allocates
  <2> QED BY <1>0, <2>2, <2>3 DEF VSBStep, VSBsKept
<1> QED BY <1>1, <1>2, <1>3

\* So does getFunc, which otherwise adds a function.
LEMMA GetFuncSteps ==
    ASSUME mem \in [Addr -> Code \cup {Bad}], max_cache_ents \in Nat,
           NEW d, Good(d), Cardinality(Keys(d.vexsb)) <= max_cache_ents,
           NEW a \in Addr, NEW v \in Victims(d, a)
    PROVE  /\ VSBStep(d, getFunc(d, a, v), a)
           /\ ~mustEvict(d, a) => VSBsKept(d, getFunc(d, a, v))
<1>1. CASE cachedFunc(d, a) # Null
  <2>1. getFunc(d, a, v).vexsb = d.vexsb
    BY <1>1 DEF getFunc, getCachedFunc, Good, Caches
  <2> QED BY <2>1 DEF VSBStep, VSBsKept
<1>2. CASE cachedFunc(d, a) = Null
  <2> DEFINE e == getVSB(d, a, v)
  <2>1. Good(e) /\ VSBStep(d, e, a) /\ (~mustEvict(d, a) => VSBsKept(d, e))
    BY GetVSBGood, GetVSBSteps
  <2>2. getFunc(d, a, v) = IF e.vexsb[a] = Absent THEN e ELSE genFunctionByVSB(e, a)
    BY <1>2 DEF getFunc
  <2> HIDE DEF e
  <2>3. getFunc(d, a, v).vexsb = e.vexsb
    BY <2>1, <2>2, GenGood
  <2> QED BY <2>1, <2>3 DEF VSBStep, VSBsKept
<1> QED BY <1>1, <1>2

\* The same for the two steps of getFPtr that call getFunc.
LEMMA GetFPtrSteps ==
    ASSUME JITInv, NEW a \in Addr, GetFPtr(a)
    PROVE  /\ VSBStep(c, c', a)
           /\ max_cache_ents = Unbounded => VSBsKept(c, c')
           /\ mem' = mem /\ max_cache_ents' = max_cache_ents
           /\ jpc' = "prefetch" => req' = [addr |-> a, todo |-> IF FetchExits THEN Exits[a] ELSE {},
                                           queue |-> {}, seen |-> {a}, fnames |-> {}]
<1> DEFINE d == getCachedFPtr(c, a)
<1>1. /\ Good(c) /\ c \in Caches
      /\ mem \in [Addr -> Code \cup {Bad}] /\ max_cache_ents \in Nat
      /\ Cardinality(Keys(c.vexsb)) <= max_cache_ents
  BY DEF JITInv, Good, JITTypeOK, CacheBounded
<1>2. Good(d) /\ d.vexsb = c.vexsb /\ d.vexsb_dc = c.vexsb_dc
  BY <1>1, RefillGood DEF getCachedFPtr, Caches
<1>3. Victims(d, a) = Victims(c, a)
  BY <1>2 DEF Victims, mustEvict, allocates, cachedVSB
<1>4. PICK v \in Victims(c, a) : c' = getFunc(d, a, v)
  BY DEF GetFPtr
<1> HIDE DEF d
<1>5. VSBStep(d, c', a) /\ (~mustEvict(d, a) => VSBsKept(d, c'))
  BY <1>1, <1>2, <1>3, <1>4, GetFuncSteps
<1>6. max_cache_ents = Unbounded => ~mustEvict(d, a)
  BY NoEviction
<1>7. VSBStep(c, c', a) /\ (max_cache_ents = Unbounded => VSBsKept(c, c'))
  BY <1>2, <1>5, <1>6 DEF VSBStep, VSBsKept
<1>8. mem' = mem /\ max_cache_ents' = max_cache_ents
  BY DEF GetFPtr
<1>9. jpc' = "prefetch" => req' = [addr |-> a, todo |-> IF FetchExits THEN Exits[a] ELSE {},
                                   queue |-> {}, seen |-> {a}, fnames |-> {}]
  BY DEF GetFPtr
<1> QED BY <1>7, <1>8, <1>9

\* One prefetched exit.
LEMMA PrefetchSteps ==
    ASSUME JITInv, NEW a \in Addr, PrefetchExit(a)
    PROVE  /\ VSBStep(c, c', a)
           /\ max_cache_ents = Unbounded => VSBsKept(c, c')
           /\ mem' = mem /\ max_cache_ents' = max_cache_ents
           /\ a \in req.todo
           /\ req'.todo \subseteq req.todo /\ req'.queue \subseteq req.queue \cup {a}
<1>1. /\ Good(c) /\ mem \in [Addr -> Code \cup {Bad}] /\ max_cache_ents \in Nat
      /\ Cardinality(Keys(c.vexsb)) <= max_cache_ents /\ req \in Requests
  BY DEF JITInv, JITTypeOK, CacheBounded, PrefetchExit
<1>2. mem' = mem /\ max_cache_ents' = max_cache_ents /\ a \in req.todo
  BY DEF PrefetchExit
<1>3. CASE c.jit[a] # Absent
  <2>1. c' = c /\ req' = [req EXCEPT !.todo = req.todo \ {a}]
    BY <1>3 DEF PrefetchExit
  <2>2. req'.todo \subseteq req.todo /\ req'.queue = req.queue
    BY <1>1, <2>1 DEF Requests
  <2> QED BY <1>2, <2>1, <2>2 DEF VSBStep, VSBsKept
<1>4. CASE c.jit[a] = Absent
  <2>1. PICK v \in Victims(c, a) :
          /\ c' = getFunc(c, a, v)
          /\ \/ req' = [req EXCEPT !.todo = req.todo \ {a}]
             \/ req' = [req EXCEPT !.todo = @ \ {a}, !.queue = @ \cup {a},
                                   !.seen = @ \cup {a}, !.fnames = @ \cup {a}]
    BY <1>4 DEF PrefetchExit
  <2>2. VSBStep(c, c', a) /\ (max_cache_ents = Unbounded => VSBsKept(c, c'))
    BY <1>1, <2>1, GetFuncSteps, NoEviction
  <2>3. req'.todo \subseteq req.todo /\ req'.queue \subseteq req.queue \cup {a}
    BY <1>1, <2>1 DEF Requests
  <2> QED BY <1>2, <2>2, <2>3
<1> QED BY <1>3, <1>4

HeldInv == ExecInv /\ (max_cache_ents = Unbounded => HeldBlockCached)

\* Between Dispatch and the exit switch nothing drops the block held, unless a
\* limit makes a prefetch evict it.
LEMMA HeldNext == HeldInv /\ [Next]_vars => HeldInv'
<1> SUFFICES ASSUME HeldInv, [Next]_vars, max_cache_ents' = Unbounded PROVE HeldBlockCached'
  <2>1. HeldInv /\ [Next]_vars => ExecInv'
    BY StepIsJIT, NextInv, StepDisp DEF HeldInv, ExecInv
  <2> QED BY <2>1 DEF HeldInv
<1>0. /\ JITInv /\ Good(c) /\ c \in Caches /\ ExecInv /\ DispInv
      /\ max_cache_ents = Unbounded => HeldBlockCached
      /\ JITInv' /\ Good(c')
  <2>1. JITInv'
    BY StepIsJIT, NextInv DEF HeldInv, ExecInv
  <2> QED BY <2>1 DEF HeldInv, ExecInv, JITInv, Good
<1> USE DEF HeldBlockCached, InBlock, Alive
<1>1. CASE Begin
  BY <1>1 DEF Begin
<1>2. CASE FlushTampered
  BY <1>2 DEF FlushTampered
<1>3. CASE Stop
  BY <1>3 DEF Stop
<1>4. CASE Dispatch
  <2>1. next_addr \in Addr /\ cur' = next_addr /\ pc' \in {"stopped", "fptr"}
    BY <1>0, <1>4 DEF Dispatch, NotExecutable, DispInv
  <2>2. pc' = "fptr" => cachedVSB(c', next_addr) # Null
    BY <1>4 DEF Dispatch
  <2>3. pc' = "fptr" => c'.vexsb[next_addr] # Absent
    BY <1>0, <2>1, <2>2, CachedLookups
  <2> QED BY <2>1, <2>3
<1>5. CASE FPtrHit
  <2>1. c'.vexsb = c.vexsb /\ max_cache_ents' = max_cache_ents /\ jpc' = jpc
    BY <1>0, <1>5 DEF FPtrHit, GetCachedFPtr, getCachedFPtr, Caches
  <2> QED BY <1>0, <1>5, <2>1 DEF FPtrHit
<1>6. CASE FPtrMiss
  <2>1. cur \in Addr /\ cur' = cur /\ pc = "fptr" /\ pc' = "jit" /\ GetFPtr(cur) /\ jpc = "idle"
    BY <1>0, <1>6 DEF FPtrMiss, DispInv, Holding, GetFPtr
  <2>2. max_cache_ents = Unbounded /\ VSBsKept(c, c')
    BY <1>0, <2>1, GetFPtrSteps
  <2> QED BY <1>0, <2>1, <2>2 DEF VSBsKept
<1>7. CASE FPtrPrefetch
  <2>1. pc = "jit" /\ UNCHANGED execVars /\ cur \in Addr
    BY <1>0, <1>7 DEF FPtrPrefetch, DispInv, Holding
  <2>2. CASE PrefetchNext
    BY <1>0, <2>1, <2>2 DEF PrefetchNext, execVars
  <2>3. ASSUME NEW a \in Addr, PrefetchExit(a) PROVE HeldBlockCached'
    <3>1. max_cache_ents = Unbounded /\ VSBsKept(c, c') /\ jpc # "dead"
      BY <1>0, <2>3, PrefetchSteps DEF PrefetchExit
    <3> QED BY <1>0, <2>1, <3>1 DEF VSBsKept, execVars
  <2> QED BY <1>7, <2>2, <2>3 DEF FPtrPrefetch
<1>8. CASE FPtrDone
  <2>1. c'.vexsb = c.vexsb /\ max_cache_ents' = max_cache_ents /\ jpc # "dead"
    BY <1>0, <1>8 DEF FPtrDone, FinishGetFPtr, Caches
  <2> QED BY <1>0, <1>8, <2>1 DEF FPtrDone
<1>9. CASE AssertSpan
  BY <1>9 DEF AssertSpan
<1>10. CASE DoVexSB
  <2>1. cur \in Addr /\ cur' = cur /\ pc = "exec" /\ pc' = "run" /\ GetCachedFPtr(cur)
        /\ running' = cachedFPtr(c, cur)
    BY <1>0, <1>10 DEF DoVexSB, DispInv, Holding
  <2>2. /\ c'.vexsb = c.vexsb /\ c'.jit = c.jit /\ max_cache_ents' = max_cache_ents
        /\ jpc = "idle" /\ cachedFPtr(c, cur) # Null
    BY <1>0, <2>1 DEF GetCachedFPtr, getCachedFPtr, Caches
  <2>3. cachedFPtr(c, cur) = c.jit[cur]
    BY <1>0, <2>1, <2>2, CachedLookups
  <2> QED BY <1>0, <2>1, <2>2, <2>3
<1>11. CASE Block
  BY <1>0, <1>11 DEF Block, Store, BlockExit, jitVars
<1>12. CASE StoreWrites
  BY <1>0, <1>12 DEF StoreWrites, GuestWrite
<1>13. CASE StoreTraps
  BY <1>0, <1>13 DEF StoreTraps, jitVars
<1>14. CASE SignalHandler
  BY <1>0, <1>14 DEF SignalHandler, jitVars
<1>15. CASE HandleExit
  BY <1>15 DEF HandleExit
<1>16. CASE Die
  BY <1>16 DEF Die, Crash, VictimOfNone
<1>17. CASE Halted \/ UNCHANGED vars
  BY <1>0, <1>17 DEF Halted, vars, execVars, jitVars
<1> QED
  BY <1>1, <1>2, <1>3, <1>4, <1>5, <1>6, <1>7, <1>8, <1>9, <1>10, <1>11, <1>12,
     <1>13, <1>14, <1>15, <1>16, <1>17 DEF Next, Step

\* As long as no cache limit is set, the superblock the dispatcher holds stays
\* cached until the exit switch, and the code that runs is the code that is
\* cached for it: neither prefetch nor the flush of tampered code takes it away.
THEOREM HeldBlocksStay == Spec => [](max_cache_ents = Unbounded => HeldBlockCached)
<1>1. Init => HeldInv
  BY ExecInit DEF Init, HeldInv, HeldBlockCached, InBlock
<1>2. HeldInv => (max_cache_ents = Unbounded => HeldBlockCached)
  BY DEF HeldInv
<1> QED BY <1>1, <1>2, HeldNext, PTL DEF Spec
-----------------------------------------------------------------------------
(* Superblocks and memory.                                                 *)

\* What the two weaknesses of the scheme do not meet.  A prefetch translates
\* exits without protecting their mapping: the exits of a block lie in the
\* mapping of the block or in none.  to_flush holds one mapping, and 0 for
\* none: code is not mapped at 0, and a block does not store into a second
\* mapping with code before the flush of the first.
ExitsStay == \A a \in Addr : \A b \in Exits[a] : MapOf[b] \in {MapOf[a], NoMap}
CodeNotAtZero == \A m \in Maps : "X" \in ReqProt[m] => Start[m] # 0
OneFlushPending ==
    pc = "segv" /\ to_flush.first # 0 /\ "X" \in ReqProt[MapOf[fault]] =>
        to_flush = flushTamperedCode(MapOf[fault])

\* Every cached superblock of a mapping is that of memory and the mapping is
\* protected, or its flush is pending; outside the mappings nothing changes.
Fresh(a) ==
    IF MapOf[a] = NoMap THEN c.vexsb[a] = mem[a]
    ELSE /\ "X" \in ReqProt[MapOf[a]]
         /\ \/ c.vexsb[a] = mem[a] /\ "W" \notin cur_prot[MapOf[a]]
            \/ to_flush = flushTamperedCode(MapOf[a])
Near(b) == MapOf[b] \in {MapOf[cur], NoMap}

FreshInv ==
    /\ \A a \in Addr : c.vexsb[a] # Absent => Fresh(a)
    /\ pc \in {"fptr", "jit", "exec"} =>
          to_flush.first = 0 /\ (MapOf[cur] # NoMap => "X" \in ReqProt[MapOf[cur]])
    /\ jpc = "prefetch" => pc = "jit" /\ \A b \in req.todo \cup req.queue : Near(b)

\* The empty caches are fresh.
LEMMA FreshInit == Init => FreshInv
BY DEF Init, JITInit, FreshInv

\* Translating at a protected address of the dispatcher's mapping keeps every
\* superblock fresh.
LEMMA FreshStep ==
    ASSUME FreshInv, DispInv, NEW a \in Addr, VSBStep(c, c', a), mem' = mem,
           cur_prot' = cur_prot, to_flush' = to_flush,
           MapOf[a] # NoMap => "X" \in ReqProt[MapOf[a]] /\ "W" \notin cur_prot[MapOf[a]],
           NEW b \in Addr, c'.vexsb[b] # Absent
    PROVE  Fresh(b)'
<1>1. CASE c'.vexsb[b] = c.vexsb[b]
  BY <1>1 DEF FreshInv, Fresh, flushTamperedCode
<1>2. CASE b = a /\ c'.vexsb[b] = mem[b]
  BY <1>2 DEF Fresh
<1> QED BY <1>1, <1>2 DEF VSBStep

\* Steps that change neither superblocks nor memory nor protection.
LEMMA FreshSame ==
    ASSUME FreshInv, c'.vexsb = c.vexsb, mem' = mem, cur_prot' = cur_prot, to_flush' = to_flush
    PROVE  \A a \in Addr : c'.vexsb[a] # Absent => Fresh(a)'
BY DEF FreshInv, Fresh, flushTamperedCode

\* Every step keeps the superblocks fresh.
LEMMA FreshNext ==
    ASSUME ExitsStay, CodeNotAtZero, ExecInv, FreshInv, OneFlushPending, [Next]_vars
    PROVE  FreshInv'
<1>0. /\ JITInv /\ DispInv /\ Good(c) /\ c \in Caches /\ c.vexsb \in [Addr -> Code \cup {Absent}]
      /\ mem \in [Addr -> Code \cup {Bad}] /\ max_cache_ents \in Nat
      /\ Cardinality(Keys(c.vexsb)) <= max_cache_ents
      /\ jpc = "prefetch" => req \in Requests
      /\ jpc = "idle" \/ jpc = "prefetch" \/ jpc = "dead"
  BY GoodParts DEF ExecInv, JITInv, Good, JITTypeOK, CacheBounded
<1>m. \A a \in Addr : MapOf[a] # NoMap => MapOf[a] \in Maps
  BY MapsAssumption
<1> DEFINE AllFresh == \A a \in Addr : c.vexsb[a] # Absent => Fresh(a)
<1>a. AllFresh
  BY DEF FreshInv
<1>1. CASE Begin
  <2>1. pc = "ctor" /\ pc' = "top" /\ cur_prot' = cur_prot /\ to_flush' = to_flush /\ cur' = cur
    BY <1>1 DEF Begin
  <2>2. CASE UNCHANGED jitVars
    BY <2>1, <2>2, FreshSame DEF jitVars, FreshInv
  <2>3. ASSUME NEW x \in MaxChoices, SetMaxCache(x) PROVE FreshInv'
    <3>1. jpc' = "idle" /\ mem' = mem
      BY <2>3 DEF SetMaxCache
    <3>2. CASE x < max_cache_ents
      <4>1. \A a \in Addr : c'.vexsb[a] = Absent
        BY <2>3, <3>2 DEF SetMaxCache, flushAll
      <4> QED BY <2>1, <3>1, <4>1 DEF FreshInv
    <3>3. CASE ~(x < max_cache_ents)
      <4>1. c' = c
        BY <2>3, <3>3 DEF SetMaxCache
      <4> QED BY <2>1, <3>1, <4>1, FreshSame DEF FreshInv
    <3> QED BY <3>2, <3>3
  <2> QED BY <1>1, <2>2, <2>3 DEF Begin
<1>2. CASE FlushTampered
  <2> DEFINE b == to_flush.first - MAX_CODE_BYTES
             e == to_flush.second + MAX_CODE_BYTES
  <2>1. /\ pc = "top" /\ pc' = "top" /\ jpc' = "idle" /\ mem' = mem /\ cur_prot' = cur_prot
        /\ to_flush' = NoFlush /\ c' = flushRange(c, b, e)
    BY <1>2 DEF FlushTampered, FlushRange
  <2>2. c'.vexsb = erase(c.vexsb, KeysIn(c.vexsb, b, e))
    BY <2>1 DEF flushRange
  <2>3. ASSUME NEW a \in Addr, c'.vexsb[a] # Absent PROVE Fresh(a)'
    <3>1. a \notin KeysIn(c.vexsb, b, e) /\ c'.vexsb[a] = c.vexsb[a]
      BY <2>2, <2>3 DEF erase
    <3>2. CASE MapOf[a] = NoMap
      BY <1>a, <2>1, <2>3, <3>1, <3>2 DEF Fresh
    <3>3. CASE MapOf[a] # NoMap
      <4>1. to_flush # flushTamperedCode(MapOf[a])
        <5>1. Start[MapOf[a]] <= a /\ a < End[MapOf[a]] /\ MapOf[a] \in Maps
          BY <3>3, MapsAssumption
        <5>2. a \in Nat /\ Start[MapOf[a]] \in Nat /\ End[MapOf[a]] \in Nat /\ MAX_CODE_BYTES \in Nat
          BY <5>1, AddrAssumption, MapsAssumption
        <5>3. to_flush = flushTamperedCode(MapOf[a]) => b <= a /\ a <= e
          BY <5>1, <5>2 DEF flushTamperedCode
        <5>4. a \in Keys(c.vexsb)
          BY <2>3, <3>1 DEF Keys
        <5> QED BY <3>1, <5>3, <5>4 DEF KeysIn
      <4> QED BY <1>a, <2>1, <2>3, <3>1, <3>3, <4>1 DEF Fresh
    <3> QED BY <3>2, <3>3
  <2> QED BY <2>1, <2>3 DEF FreshInv
<1>3. CASE Stop
  BY <1>3, FreshSame DEF Stop, jitVars, FreshInv
<1>4. CASE Dispatch
  <2> DEFINE n == next_addr
  <2>1. /\ n \in Addr /\ cur' = n /\ pc' \in {"stopped", "fptr"} /\ to_flush.first = 0
        /\ to_flush' = to_flush /\ cur_prot' = protect(n) /\ jpc' = "idle" /\ mem' = mem
        /\ MapOf[n] # NoMap => "X" \in ReqProt[MapOf[n]]
    BY <1>0, <1>4 DEF Dispatch, NotExecutable, DispInv, GetVSB
  <2>2. /\ MapOf[n] # NoMap => "W" \notin cur_prot'[MapOf[n]]
        /\ \A m \in Maps : "W" \notin cur_prot[m] => "W" \notin cur_prot'[m]
    BY <1>0, <1>m, <2>1 DEF protect, DispInv
  <2>3. PICK v \in Victims(c, n) : c' = getVSB(c, n, v)
    BY <1>4 DEF Dispatch, GetVSB
  <2>4. VSBStep(c, c', n)
    BY <1>0, <2>1, <2>3, GetVSBSteps
  <2>5. ASSUME NEW a \in Addr, c'.vexsb[a] # Absent PROVE Fresh(a)'
    <3>1. CASE a = n /\ c'.vexsb[a] = mem[a]
      BY <2>1, <2>2, <3>1 DEF Fresh
    <3>2. CASE c'.vexsb[a] = c.vexsb[a]
      <4>1. CASE MapOf[a] = NoMap
        BY <1>a, <2>1, <2>5, <3>2, <4>1 DEF Fresh
      <4>2. CASE MapOf[a] # NoMap
        <5>1. "X" \in ReqProt[MapOf[a]] /\ MapOf[a] \in Maps
          BY <1>a, <1>m, <2>5, <3>2, <4>2 DEF Fresh
        <5>2. to_flush # flushTamperedCode(MapOf[a])
          BY <2>1, <5>1 DEF flushTamperedCode, CodeNotAtZero
        <5>3. c.vexsb[a] = mem[a] /\ "W" \notin cur_prot[MapOf[a]]
          BY <1>a, <2>5, <3>2, <4>2, <5>2 DEF Fresh
        <5> QED BY <2>1, <2>2, <3>2, <4>2, <5>1, <5>3 DEF Fresh
      <4> QED BY <4>1, <4>2
    <3> QED BY <2>4, <2>5, <3>1, <3>2 DEF VSBStep
  <2> QED BY <2>1, <2>5 DEF FreshInv
<1>5. CASE FPtrHit
  <2>1. c'.vexsb = c.vexsb /\ mem' = mem /\ jpc' = "idle"
    BY <1>0, <1>5 DEF FPtrHit, GetCachedFPtr, getCachedFPtr, Caches
  <2> QED BY <1>5, <2>1, FreshSame DEF FPtrHit, FreshInv
<1>6. CASE FPtrMiss
  <2>1. cur \in Addr /\ cur' = cur /\ pc = "fptr" /\ pc' = "jit" /\ GetFPtr(cur)
        /\ cur_prot' = cur_prot /\ to_flush' = to_flush
    BY <1>0, <1>6 DEF FPtrMiss, DispInv, Holding
  <2>2. /\ VSBStep(c, c', cur) /\ mem' = mem
        /\ jpc' = "prefetch" => req'.queue = {} /\ req'.todo \subseteq Exits[cur]
    BY <1>0, <2>1, GetFPtrSteps
  <2>3. MapOf[cur] # NoMap => "X" \in ReqProt[MapOf[cur]] /\ "W" \notin cur_prot[MapOf[cur]]
    BY <1>0, <2>1 DEF FreshInv, DispInv
  <2>4. \A b \in Addr : c'.vexsb[b] # Absent => Fresh(b)'
    BY <1>0, <2>1, <2>2, <2>3, FreshStep
  <2>5. jpc' = "prefetch" => \A b \in req'.todo \cup req'.queue : Near(b)'
    BY <2>1, <2>2 DEF ExitsStay, Near
  <2> QED BY <2>1, <2>4, <2>5 DEF FreshInv
<1>7. CASE FPtrPrefetch
  <2>1. pc = "jit" /\ UNCHANGED execVars /\ cur \in Addr
    BY <1>0, <1>7 DEF FPtrPrefetch, DispInv, Holding
  <2>2. CASE PrefetchNext
    <3>1. PICK f \in req.queue : req' = [req EXCEPT !.queue = req.queue \ {f}, !.todo = Exits[f]]
      BY <2>2 DEF PrefetchNext
    <3>2. jpc = "prefetch" /\ mem' = mem /\ c' = c /\ jpc' = jpc /\ req \in Requests
      BY <1>0, <2>2 DEF PrefetchNext
    <3>3. req'.todo = Exits[f] /\ req'.queue \subseteq req.queue /\ f \in Addr
      BY <3>1, <3>2 DEF Requests
    <3>4. \A b \in req'.todo \cup req'.queue : Near(b)
      BY <3>2, <3>3 DEF FreshInv, ExitsStay, Near
    <3> QED BY <2>1, <3>2, <3>4, FreshSame DEF FreshInv, Near, execVars
  <2>3. ASSUME NEW a \in Addr, PrefetchExit(a) PROVE FreshInv'
    <3>1. /\ VSBStep(c, c', a) /\ mem' = mem /\ a \in req.todo
          /\ req'.todo \subseteq req.todo /\ req'.queue \subseteq req.queue \cup {a}
      BY <1>0, <2>3, PrefetchSteps
    <3>2. jpc = "prefetch" /\ jpc' = "prefetch"
      BY <2>3 DEF PrefetchExit
    <3>3. \A b \in req.todo \cup req.queue : Near(b)
      BY <3>2 DEF FreshInv
    <3>4. MapOf[a] # NoMap => "X" \in ReqProt[MapOf[a]] /\ "W" \notin cur_prot[MapOf[a]]
      BY <1>0, <2>1, <3>1, <3>3 DEF FreshInv, DispInv, Near
    <3>5. \A b \in Addr : c'.vexsb[b] # Absent => Fresh(b)'
      BY <1>0, <2>1, <3>1, <3>4, FreshStep DEF execVars
    <3>6. \A b \in req'.todo \cup req'.queue : Near(b)'
      BY <2>1, <3>1, <3>3 DEF Near, execVars
    <3> QED BY <2>1, <3>2, <3>5, <3>6 DEF FreshInv, execVars
  <2> QED BY <1>7, <2>2, <2>3 DEF FPtrPrefetch
<1>8. CASE FPtrDone
  <2>1. c'.vexsb = c.vexsb /\ mem' = mem /\ jpc' # "prefetch" /\ cur' = cur
        /\ pc = "jit" /\ to_flush' = to_flush /\ cur_prot' = cur_prot
    BY <1>0, <1>8 DEF FPtrDone, FinishGetFPtr, Caches
  <2> QED BY <2>1, FreshSame DEF FreshInv
<1>9. CASE AssertSpan
  BY <1>9, FreshSame DEF AssertSpan, jitVars, FreshInv
<1>10. CASE DoVexSB
  <2>1. c'.vexsb = c.vexsb /\ mem' = mem /\ jpc' = "idle"
    BY <1>0, <1>10 DEF DoVexSB, GetCachedFPtr, getCachedFPtr, Caches
  <2> QED BY <1>10, <2>1, FreshSame DEF DoVexSB, FreshInv
<1>11. CASE Block
  BY <1>11, FreshSame DEF Block, Store, BlockExit, jitVars, FreshInv
<1>12. CASE StoreWrites
  <2>1. /\ pc = "run" /\ pc' = "run" /\ jpc' = "idle" /\ c' = c /\ to_flush' = to_flush
        /\ cur_prot' = cur_prot /\ "W" \in cur_prot[MapOf[fault]]
        /\ \A a \in Addr : a # fault => mem'[a] = mem[a]
    BY <1>0, <1>12 DEF StoreWrites, GuestWrite
  <2>2. MapOf[fault] # NoMap
    BY <1>0, <1>12, MapsAssumption DEF StoreWrites, DispInv
  <2>3. ASSUME NEW a \in Addr, c'.vexsb[a] # Absent PROVE Fresh(a)'
    BY <1>a, <2>1, <2>2, <2>3 DEF Fresh, flushTamperedCode
  <2> QED BY <2>1, <2>3 DEF FreshInv
<1>13. CASE StoreTraps
  BY <1>13, FreshSame DEF StoreTraps, jitVars, FreshInv
<1>14. CASE SignalHandler
  <2> DEFINE m == MapOf[fault]
  <2>1. m \in Maps /\ pc = "segv" /\ jpc' = "idle" /\ mem' = mem /\ c' = c /\ cur' = cur
    BY <1>0, <1>14 DEF SignalHandler, DispInv, jitVars
  <2>2. CASE "X" \in ReqProt[m] /\ "W" \notin cur_prot[m]
    <3>1. /\ cur_prot' = [cur_prot EXCEPT ![m] = ReqProt[m] \ {"X"}]
          /\ to_flush' = flushTamperedCode(m) /\ pc' = "run"
      BY <1>14, <2>2 DEF SignalHandler, unprotect
    <3>2. ASSUME NEW a \in Addr, c'.vexsb[a] # Absent PROVE Fresh(a)'
      <4>1. Fresh(a)
        BY <1>a, <2>1, <3>2
      <4>2. CASE MapOf[a] = NoMap
        BY <2>1, <4>1, <4>2 DEF Fresh
      <4>3. CASE MapOf[a] = m
        BY <2>1, <3>1, <4>1, <4>3, MapsAssumption DEF Fresh, flushTamperedCode
      <4>4. CASE MapOf[a] # NoMap /\ MapOf[a] # m
        <5>1. MapOf[a] \in Maps /\ cur_prot'[MapOf[a]] = cur_prot[MapOf[a]]
          BY <1>0, <1>m, <3>1, <4>4 DEF DispInv
        <5>2. to_flush = flushTamperedCode(MapOf[a]) => to_flush' = to_flush
          <6>1. to_flush = flushTamperedCode(MapOf[a]) => to_flush.first # 0
            BY <4>1, <4>4, <5>1 DEF Fresh, flushTamperedCode, CodeNotAtZero
          <6> QED BY <2>1, <2>2, <3>1, <6>1 DEF OneFlushPending
        <5> QED BY <2>1, <4>1, <4>4, <5>1, <5>2 DEF Fresh, flushTamperedCode
      <4> QED BY <4>2, <4>3, <4>4
    <3> QED BY <2>1, <3>1, <3>2 DEF FreshInv
  <2>3. CASE ~("X" \in ReqProt[m] /\ "W" \notin cur_prot[m])
    <3>1. pc' = "dead" /\ cur_prot' = cur_prot /\ to_flush' = to_flush
      BY <1>14, <2>3 DEF SignalHandler
    <3> QED BY <2>1, <3>1, FreshSame DEF FreshInv
  <2> QED BY <2>2, <2>3
<1>15. CASE HandleExit
  <2>1. /\ c' = c /\ mem' = mem /\ cur_prot' = cur_prot /\ to_flush' = to_flush
        /\ jpc' = "idle" /\ pc' \in {"top", "stopped", "dead"}
    BY <1>15 DEF HandleExit, jitVars
  <2> QED BY <2>1, FreshSame DEF FreshInv
<1>16. CASE Die
  BY <1>16, FreshSame DEF Die, Crash, VictimOfNone, execVars, FreshInv
<1>17. CASE Halted \/ UNCHANGED vars
  BY <1>17, FreshSame DEF Halted, vars, execVars, jitVars, FreshInv, Near
<1> QED
  BY <1>1, <1>2, <1>3, <1>4, <1>5, <1>6, <1>7, <1>8, <1>9, <1>10, <1>11, <1>12,
     <1>13, <1>14, <1>15, <1>16, <1>17 DEF Next, Step

\* What doNextSB is about to run was translated from the bytes in memory, for
\* every layout of mappings, as long as no limit evicts it, the exits that are
\* prefetched stay in the mapping and no block tampers with two mappings.
THEOREM SuperblocksFresh ==
    ASSUME ExitsStay, CodeNotAtZero
    PROVE  Spec /\ []OneFlushPending => [](max_cache_ents = Unbounded => VSBFresh)
<1>1. Init => FreshInv /\ HeldInv
  BY FreshInit, ExecInit DEF Init, HeldInv, HeldBlockCached, InBlock
<1>2. FreshInv /\ HeldInv /\ OneFlushPending /\ [Next]_vars => FreshInv' /\ HeldInv'
  BY FreshNext, HeldNext DEF HeldInv
<1>3. FreshInv /\ HeldInv => (max_cache_ents = Unbounded => VSBFresh)
  <2> SUFFICES ASSUME FreshInv, HeldInv, max_cache_ents = Unbounded, Alive,
                      pc \in {"fptr", "jit", "exec"}
               PROVE  c.vexsb[cur] = mem[cur]
    BY DEF VSBFresh
  <2>1. c.vexsb[cur] # Absent /\ cur \in Addr
    BY DEF HeldInv, HeldBlockCached, InBlock, ExecInv, DispInv, Holding
  <2>2. Fresh(cur) /\ to_flush.first = 0
    BY <2>1 DEF FreshInv
  <2>3. MapOf[cur] # NoMap => to_flush # flushTamperedCode(MapOf[cur])
    BY <2>1, <2>2, MapsAssumption DEF Fresh, flushTamperedCode, CodeNotAtZero
  <2> QED BY <2>2, <2>3 DEF Fresh
<1> QED BY <1>1, <1>2, <1>3, PTL DEF Spec

\* A pending flush is that of a mapping the guest may execute.
PendingIsCode ==
    to_flush.first # 0 =>
        \E m \in Maps : "X" \in ReqProt[m] /\ to_flush = flushTamperedCode(m)
OneCodeMapping == \A m, n \in Maps : "X" \in ReqProt[m] /\ "X" \in ReqProt[n] => m = n

\* Only signalHandler records a flush, and only for an executable mapping.
LEMMA PendingNext == ExecInv /\ PendingIsCode /\ [Next]_vars => PendingIsCode'
<1> SUFFICES ASSUME ExecInv, PendingIsCode, [Next]_vars PROVE PendingIsCode'
  OBVIOUS
<1>1. CASE FlushTampered
  BY <1>1 DEF FlushTampered, NoFlush, PendingIsCode
<1>2. CASE SignalHandler
  <2>1. MapOf[fault] \in Maps
    BY <1>2 DEF SignalHandler, ExecInv, DispInv
  <2> QED BY <1>2, <2>1 DEF SignalHandler, PendingIsCode, flushTamperedCode
<1>3. CASE to_flush' = to_flush
  BY <1>3 DEF PendingIsCode, flushTamperedCode
<1>4. FlushTampered \/ SignalHandler \/ to_flush' = to_flush
  BY DEF Next, Step, Begin, Stop, Dispatch, FPtrHit, FPtrMiss, FPtrPrefetch, FPtrDone,
         AssertSpan, DoVexSB, Block, Store, BlockExit, StoreWrites, StoreTraps, HandleExit,
         Die, Halted, vars, execVars
<1> QED BY <1>1, <1>2, <1>3, <1>4

\* A guest with one executable mapping never runs a stale superblock, whatever
\* it stores into its code.
THEOREM OneMappingFresh ==
    ASSUME ExitsStay, CodeNotAtZero, OneCodeMapping
    PROVE  Spec => [](max_cache_ents = Unbounded => VSBFresh)
<1>1. Init => PendingIsCode
  BY DEF Init, NoFlush, PendingIsCode
<1>2. ExecInv /\ PendingIsCode => OneFlushPending
  BY MapsAssumption DEF ExecInv, DispInv, PendingIsCode, OneFlushPending, OneCodeMapping
<1>3. Spec => []OneFlushPending
  BY <1>1, <1>2, PendingNext, ExecInvariant, PTL DEF Spec
<1> QED BY <1>3, SuperblocksFresh, PTL
=============================================================================
