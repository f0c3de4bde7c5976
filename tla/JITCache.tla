------------------------------ MODULE JITCache ------------------------------
(***************************************************************************)
(* The translation caches of vexllvm: VexFCache (superblocks and LLVM      *)
(* functions by guest address), VexJITCache (code pointers by guest        *)
(* address, with prefetch of constant exits), the open GenLLVM module that *)
(* owns freshly emitted functions, and JITEngine's symbol table.           *)
(*                                                                         *)
(* A superblock, an LLVM function and a piece of compiled code are each    *)
(* represented by the version of guest code they were made from.           *)
(***************************************************************************)
EXTENDS DirectCache, FiniteSets

CONSTANTS
    Code,        \* versions of guest code
    Bad,         \* bytes that VexXlate cannot translate (or access)
    Exits,       \* Exits[a]: constant return addresses of the code at a
    FetchExits,  \* host_addr == guest_addr, so exits are prefetched
    Unbounded,   \* max_cache_ents = ~0: more than any map can hold
    MaxChoices,  \* arguments of setMaxCache
    Ranges       \* arguments <<begin, end>> of flush(begin, end)

ASSUME AddrFinite == IsFiniteSet(Addr)
ASSUME CodeAssumption == Null \notin Code /\ Absent \notin Code /\ Bad \notin Code
ASSUME ExitsAssumption == Exits \in [Addr -> SUBSET Addr]
ASSUME BoundAssumption ==
    /\ FetchExits \in BOOLEAN
    /\ Unbounded \in Nat /\ Cardinality(Addr) < Unbounded
    /\ MaxChoices \subseteq Nat /\ \A x \in MaxChoices : x < Unbounded
    /\ Ranges \subseteq Int \X Int

VARIABLES
    mem,            \* guest code memory, by address
    c,              \* the caches of VexFCache and VexJITCache
    func_addrs,     \* JITEngine: symbol sb_<addr> -> code pointer
    max_cache_ents,
    req,            \* locals of the getFPtr call in progress
    jpc,            \* "idle", "prefetch" or "dead"
    ub              \* a freed Function has been dereferenced

jitVars == <<mem, c, func_addrs, max_cache_ents, req, jpc, ub>>

Ents == [ptr : Addr \cup {0}, t : Code \cup {Null}]
Map == [Addr -> Code \cup {Absent}]

\* vexsb/func/jit are the three maps and *_dc their direct caches; open is the
\* set of functions alive in the module GenLLVM is filling.
Caches ==
    [vexsb : Map, vexsb_dc : [Slots -> Ents],
     func : Map, func_dc : [Slots -> Ents],
     jit : [Addr -> Code \cup {Absent, Null}], jit_dc : [Slots -> Ents],
     open : SUBSET Addr]

Requests ==
    [addr : Addr, todo : SUBSET Addr, queue : SUBSET Addr, seen : SUBSET Addr,
     fnames : SUBSET Addr]

Keys(map) == {a \in Addr : map[a] # Absent}
-----------------------------------------------------------------------------
(* VexFCache and VexJITCache as functions from cache state to cache state. *)

\* VexFCache::flush() / VexJITCache::flush(): the LLVM functions are not
\* erased from the open module.
flushAll(d) ==
    [vexsb |-> [a \in Addr |-> Absent], vexsb_dc |-> flushed,
     func |-> [a \in Addr |-> Absent], func_dc |-> flushed,
     jit |-> [a \in Addr |-> Absent], jit_dc |-> flushed,
     open |-> d.open]

\* Mutant: lower_bound(end) closes the range.
KeysInExclusive(map, begin, end) == {a \in Keys(map) : begin <= a /\ a < end}

\* Keys of a map between lower_bound(begin) and upper_bound(end).
KeysIn(map, begin, end) == {a \in Keys(map) : begin <= a /\ a <= end}

erase(map, S) == [a \in Addr |-> IF a \in S THEN Absent ELSE map[a]]

\* Mutant: VexJITCache::flush(begin, end) forgets its own map.
flushRangeKeepsJIT(d, begin, end) ==
    LET sbs == KeysIn(d.vexsb, begin, end)
        fns == KeysIn(d.func, begin, end)
    IN  [d EXCEPT !.vexsb = erase(@, sbs), !.vexsb_dc = putNulls(@, sbs),
                  !.func = erase(@, fns), !.func_dc = putNulls(@, fns),
                  !.open = @ \ fns]

\* Mutant: VexFCache::flush(begin, end) forgets the functions.
flushRangeKeepsFuncs(d, begin, end) ==
    LET sbs == KeysIn(d.vexsb, begin, end)
    IN  [d EXCEPT !.vexsb = erase(@, sbs), !.vexsb_dc = putNulls(@, sbs)]

\* VexJITCache::flush(begin, end) walks the keys of func_cache to erase code
\* pointers, then VexFCache::flush(begin, end) erases superblocks and
\* functions by their own keys.
flushRange(d, begin, end) ==
    LET sbs == KeysIn(d.vexsb, begin, end)
        fns == KeysIn(d.func, begin, end)
    IN  [vexsb |-> erase(d.vexsb, sbs), vexsb_dc |-> putNulls(d.vexsb_dc, sbs),
         func |-> erase(d.func, fns), func_dc |-> putNulls(d.func_dc, fns),
         jit |-> erase(d.jit, fns), jit_dc |-> putNulls(d.jit_dc, fns),
         open |-> d.open \ fns]

\* Mutant: the direct cache keeps the evicted superblock.
evictKeepsDC(d, v) ==
    [d EXCEPT !.vexsb = erase(@, {v}),
              !.func = erase(@, {v}), !.func_dc = putNulls(@, {v}),
              !.jit = erase(@, {v}), !.jit_dc = putNulls(@, {v}),
              !.open = @ \ {v}]

\* VexJITCache::evict, whose delete of the function and the eraseFromParent of
\* VexFCache::evict both act on the function cached for v.
evict(d, v) ==
    LET hasFunc == lookup(d.func_dc, d.func, v) # Null
    IN  [vexsb |-> erase(d.vexsb, {v}), vexsb_dc |-> putNulls(d.vexsb_dc, {v}),
         func |-> IF hasFunc THEN erase(d.func, {v}) ELSE d.func,
         func_dc |-> IF hasFunc THEN putNulls(d.func_dc, {v}) ELSE d.func_dc,
         jit |-> erase(d.jit, {v}), jit_dc |-> putNulls(d.jit_dc, {v}),
         open |-> d.open \ {v}]

\* allocCacheVSB inserts a superblock after making room for it.
insertVSB(d, a, sb) ==
    [d EXCEPT !.vexsb = [d.vexsb EXCEPT ![a] = sb],
              !.vexsb_dc = put(d.vexsb_dc, a, sb)]

cachedVSB(d, a) == lookup(d.vexsb_dc, d.vexsb, a)
cachedFunc(d, a) == lookup(d.func_dc, d.func, a)
cachedFPtr(d, a) == lookup(d.jit_dc, d.jit, a)

getCachedVSB(d, a) == [d EXCEPT !.vexsb_dc = refill(d.vexsb_dc, d.vexsb, a)]
getCachedFunc(d, a) == [d EXCEPT !.func_dc = refill(d.func_dc, d.func, a)]
getCachedFPtr(d, a) == [d EXCEPT !.jit_dc = refill(d.jit_dc, d.jit, a)]

allocates(d, a) == cachedVSB(d, a) = Null /\ mem[a] # Bad

\* Mutant: room is made one superblock too late.
mustEvictLate(d, a) == allocates(d, a) /\ Cardinality(Keys(d.vexsb)) > max_cache_ents

mustEvict(d, a) == allocates(d, a) /\ Cardinality(Keys(d.vexsb)) = max_cache_ents

\* selectVictimAddress: any cached superblock; 0 stands for no eviction.
Victims(d, a) == IF mustEvict(d, a) THEN Keys(d.vexsb) ELSE {0}

getVSB(d, a, victim) ==
    IF ~allocates(d, a) THEN getCachedVSB(d, a)
    ELSE insertVSB(IF mustEvict(d, a) THEN evict(d, victim) ELSE d, a, mem[a])

\* Emits sb_<a> into the open module.
genFunctionByVSB(d, a) ==
    [d EXCEPT !.func = [d.func EXCEPT ![a] = d.vexsb[a]],
              !.func_dc = put(d.func_dc, a, d.vexsb[a]),
              !.open = d.open \cup {a}]

\* Mutant: the result of getVSB is not checked.
getFuncUnchecked(d, a, victim) ==
    IF cachedFunc(d, a) # Null THEN getCachedFunc(d, a)
    ELSE genFunctionByVSB(getVSB(d, a, victim), a)

getFunc(d, a, victim) ==
    IF cachedFunc(d, a) # Null THEN getCachedFunc(d, a)
    ELSE LET e == getVSB(d, a, victim)
         IN  IF e.vexsb[a] = Absent THEN e ELSE genFunctionByVSB(e, a)

-----------------------------------------------------------------------------
(* The operations.  Everything runs on one thread; getFPtr is split at its *)
(* prefetch loop because each prefetched function may evict a victim.      *)

NoRequest == [addr |-> 0, todo |-> {}, queue |-> {}, seen |-> {}, fnames |-> {}]

JITInit ==
    /\ mem \in [Addr -> Code \cup {Bad}]
    /\ c = [vexsb |-> [a \in Addr |-> Absent], vexsb_dc |-> flushed,
            func |-> [a \in Addr |-> Absent], func_dc |-> flushed,
            jit |-> [a \in Addr |-> Absent], jit_dc |-> flushed, open |-> {}]
    /\ func_addrs = [a \in Addr |-> Null]
    /\ max_cache_ents = Unbounded
    /\ req = NoRequest
    /\ jpc = "idle"
    /\ ub = FALSE

\* setMaxCache: shrinking the limit drops everything.
SetMaxCache(x) ==
    /\ jpc = "idle"
    /\ c' = IF x < max_cache_ents THEN flushAll(c) ELSE c
    /\ max_cache_ents' = x
    /\ UNCHANGED <<mem, func_addrs, req, jpc, ub>>

\* The evicted function is deleted and then erased through the same pointer.
evictUB(a, victim) == mustEvict(c, a) /\ cachedFunc(c, victim) # Null

GetVSB(a) ==
    /\ jpc = "idle"
    /\ \E v \in Victims(c, a) :
        /\ c' = getVSB(c, a, v)
        /\ ub' = (ub \/ evictUB(a, v))
    /\ UNCHANGED <<mem, func_addrs, max_cache_ents, req, jpc>>

\* selectVictimAddress with an empty cache (limit 0): rand() % 0.
VictimOfNone(a) ==
    /\ jpc = "idle"
    /\ mustEvict(c, a)
    /\ Keys(c.vexsb) = {}
    /\ jpc' = "dead"
    /\ UNCHANGED <<mem, c, func_addrs, max_cache_ents, req, ub>>

\* getFPtr, and getCachedFPtr from doVexSB, when the pointer is known.
GetCachedFPtr(a) ==
    /\ jpc = "idle"
    /\ cachedFPtr(c, a) # Null
    /\ c' = getCachedFPtr(c, a)
    /\ UNCHANGED <<mem, func_addrs, max_cache_ents, req, jpc, ub>>

\* getFPtr up to the prefetch loop.  get_ret_addrs walks the function just
\* obtained, which is dangling when it came out of func_cache.
GetFPtr(a) ==
    /\ jpc = "idle"
    /\ cachedFPtr(c, a) = Null
    /\ \E v \in Victims(c, a) :
        /\ c' = getFunc(getCachedFPtr(c, a), a, v)
        /\ IF cachedFunc(c', a) = Null
           THEN /\ jpc' = "dead"              \* assert "Could not get function"
                /\ UNCHANGED <<req, ub>>
           ELSE /\ jpc' = "prefetch"
                /\ req' = [addr |-> a, todo |-> IF FetchExits THEN Exits[a] ELSE {},
                           queue |-> {}, seen |-> {a}, fnames |-> {}]
                /\ ub' = (ub \/ evictUB(a, v) \/ a \notin c'.open)
    /\ UNCHANGED <<mem, func_addrs, max_cache_ents>>

\* One iteration of the loop over the exits of the function at the head.
PrefetchExit(a) ==
    /\ jpc = "prefetch"
    /\ a \in req.todo
    /\ \A b \in req.todo : a <= b
    /\ IF c.jit[a] # Absent
       THEN /\ req' = [req EXCEPT !.todo = @ \ {a}]
            /\ UNCHANGED <<c, ub>>
       ELSE \E v \in Victims(c, a) :
            /\ c' = getFunc(c, a, v)
            /\ IF cachedFunc(c', a) = Null \/ a \in req.seen
               THEN /\ req' = [req EXCEPT !.todo = @ \ {a}]
                    /\ ub' = (ub \/ evictUB(a, v))
               ELSE /\ req' = [req EXCEPT !.todo = @ \ {a}, !.queue = @ \cup {a},
                                          !.seen = @ \cup {a}, !.fnames = @ \cup {a}]
                    /\ ub' = (ub \/ evictUB(a, v) \/ a \notin c'.open)
    /\ UNCHANGED <<mem, func_addrs, max_cache_ents, jpc>>

\* The loop goes on while the working set is not empty and at most two
\* functions were collected.  The queue then has one element, so its order
\* does not matter.
PrefetchMore == req.queue # {} /\ Cardinality(req.seen) <= 2

PrefetchNext ==
    /\ jpc = "prefetch"
    /\ req.todo = {}
    /\ PrefetchMore
    /\ \E f \in req.queue :
        /\ req' = [req EXCEPT !.queue = @ \ {f}, !.todo = Exits[f]]
        /\ ub' = (ub \/ f \notin c.open)
    /\ UNCHANGED <<mem, c, func_addrs, max_cache_ents, jpc>>

\* JITEngine::mod_to_engine gives an address to the functions of the module
\* that have none yet; a symbol that is already known keeps its old address.
mod_to_engine(d) ==
    [a \in Addr |-> IF a \in d.open /\ func_addrs[a] = Null
                    THEN d.func[a] ELSE func_addrs[a]]

\* JITEngine::getPointerToFunction compiles the module only when the symbol is
\* unknown; otherwise the module is dropped.
getPointerToFunction(d, a) ==
    IF func_addrs[a] # Null THEN func_addrs ELSE mod_to_engine(d)

\* The tail of getFPtr: hand the open module to the engine, which destroys it
\* with every function in it, and record the code pointers.
FinishGetFPtr ==
    LET a == req.addr
        syms == getPointerToFunction(c, a)
    IN  /\ jpc = "prefetch"
        /\ req.todo = {}
        /\ ~PrefetchMore
        /\ func_addrs' = syms
        /\ ub' = (ub \/ a \notin c.open)
        /\ IF syms[a] = Null
           THEN /\ jpc' = "dead"                       \* assert "Could not JIT"
                /\ c' = [c EXCEPT !.open = {}]
           ELSE /\ jpc' = "idle"
                /\ c' = [c EXCEPT
                          !.jit = [b \in Addr |-> IF b \in req.fnames \cup {a}
                                                  THEN syms[b] ELSE c.jit[b]],
                          !.jit_dc = put(c.jit_dc, a, syms[a]),
                          !.open = {}]
        /\ req' = NoRequest
        /\ UNCHANGED <<mem, max_cache_ents>>

\* flush(begin, end) dereferences every function it erases.
FlushRange(begin, end) ==
    /\ jpc = "idle"
    /\ c' = flushRange(c, begin, end)
    /\ ub' = (ub \/ ~(KeysIn(c.func, begin, end) \subseteq c.open))
    /\ UNCHANGED <<mem, func_addrs, max_cache_ents, req, jpc>>

\* The guest stores into its code.
GuestWrite(a, k) ==
    /\ jpc = "idle"
    /\ mem' = [mem EXCEPT ![a] = k]
    /\ UNCHANGED <<c, func_addrs, max_cache_ents, req, jpc, ub>>

\* Dereferencing freed memory may fault at any later time.
Crash ==
    /\ ub /\ jpc # "dead"
    /\ jpc' = "dead"
    /\ UNCHANGED <<mem, c, func_addrs, max_cache_ents, req, ub>>

JITNext ==
    \/ \E x \in MaxChoices : SetMaxCache(x)
    \/ \E a \in Addr :
        \/ GetVSB(a)
        \/ VictimOfNone(a)
        \/ GetCachedFPtr(a)
        \/ GetFPtr(a)
        \/ PrefetchExit(a)
        \/ \E k \in Code \cup {Bad} : GuestWrite(a, k)
    \/ \E r \in Ranges : FlushRange(r[1], r[2])
    \/ PrefetchNext
    \/ FinishGetFPtr
    \/ Crash

JITSpec == JITInit /\ [][JITNext]_jitVars
-----------------------------------------------------------------------------
JITTypeOK ==
    /\ mem \in [Addr -> Code \cup {Bad}]
    /\ c \in Caches
    /\ func_addrs \in [Addr -> Code \cup {Null}]
    /\ max_cache_ents \in Nat
    /\ req \in Requests \cup {NoRequest}
    /\ jpc \in {"idle", "prefetch", "dead"}
    /\ ub \in BOOLEAN

\* No direct cache ever answers a pointer that its map has dropped or replaced,
\* through hits, refills, slot collisions, prefetch, eviction and flushes.
DCCoherent ==
    /\ Coherent(c.vexsb_dc, c.vexsb)
    /\ Coherent(c.func_dc, c.func)
    /\ Coherent(c.jit_dc, c.jit)

\* VEXLLVM_VSB_MAXCACHE is a real bound: the evictions of a prefetch included,
\* the superblock map never outgrows max_cache_ents.
CacheBounded == Cardinality(Keys(c.vexsb)) <= max_cache_ents

\* A function is never cached without the superblock it was emitted from, so
\* getFunc on a cached function cannot translate or evict anything.
FuncHasVSB == Keys(c.func) \subseteq Keys(c.vexsb)

\* As long as no limit is set, the code pointers and the functions have the same
\* keys between calls: what flush(begin, end) needs in order to find the code
\* pointers by walking func_cache.
KeysAligned ==
    jpc = "idle" /\ max_cache_ents = Unbounded => Keys(c.jit) = Keys(c.func)

\* What a flush of [begin, end] must achieve: no superblock, function or code
\* pointer is left for any address of the range, in maps or direct caches.
FlushLeavesNothing ==
    \A r \in Ranges : FlushRange(r[1], r[2]) /\ max_cache_ents = Unbounded =>
        \A x \in {y \in Addr : r[1] <= y /\ y <= r[2]} :
            /\ cachedVSB(c', x) = Null
            /\ cachedFunc(c', x) = Null
            /\ cachedFPtr(c', x) = Null

\* VexJITCache::flush(begin, end), which walks func_cache to find the code
\* pointers, leaves nothing of the range behind as long as no limit is set.
FlushComplete == [][FlushLeavesNothing]_jitVars
=============================================================================
