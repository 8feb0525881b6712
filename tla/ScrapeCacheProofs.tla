-------------------------- MODULE ScrapeCacheProofs --------------------------
(* The document cache keeps late writers out, lets no document grow younger,  *)
(* and keeps its queues, its byte count and its limits in order, proved for   *)
(* any keys, hashes that collide or not, limits and number of observations.   *)
EXTENDS ScrapeCache, CacheStateProofs

-----------------------------------------------------------------------------
(* The inductive invariant.                                                   *)

Entry ==
  [doc : Nat, formats : SUBSET Formats, observed : Nat, expires : Nat, size : Nat, generation : Nat]

CacheTyped ==
  /\ IsCache(cache)
  /\ DOMAIN cache.entries \subseteq Keys
  /\ \A k \in DOMAIN cache.entries : cache.entries[k] \in Entry
  /\ nextGeneration \in Nat /\ now \in Nat
  /\ observed \in [0 .. nextGeneration - 1 -> [key : Keys, phase : Phases]]
  /\ registered \in Seq(Nat)

(* A generation that was registered.                                          *)
Known(g) == g \in DOMAIN observed /\ observed[g].phase # "drawn"

RegisteredKnown == \A g \in ToSet(registered) : Known(g)

(* A tombstone is an observation of its hash.                                 *)
TombstonesKnown ==
  \A h \in DOMAIN cache.latest :
    Known(cache.latest[h]) /\ HashOf[observed[cache.latest[h]].key] = h

(* What was ruled out is not the latest of anything and never will be.        *)
RuledOutSuperseded ==
  \A g \in ruledOut : Known(g) /\ \A h \in DOMAIN cache.latest : cache.latest[h] # g

(* The part of EntriesHaveTombstones that keeps late writers out.             *)
EntriesProtected == \A k \in DOMAIN cache.entries : HashOf[k] \in DOMAIN cache.latest

(* An entry comes from an observation of its key that has been inserted.      *)
EntriesInserted ==
  \A k \in DOMAIN cache.entries :
    LET g == cache.entries[k].generation IN
      /\ g \in DOMAIN observed
      /\ observed[g].key = k
      /\ observed[g].phase \in {"inserted", "over"}

CacheInv ==
  /\ CacheTyped /\ RegisteredKnown /\ TombstonesKnown /\ RuledOutSuperseded
  /\ EntriesProtected /\ EntriesInserted /\ RuledOutStaysOut

(* What a step does to the age of the documents that stay.                    *)
AgesKept ==
  \A k \in DOMAIN cache.entries \cap DOMAIN cache'.entries :
    LET old == cache.entries[k]
        new == cache'.entries[k]
    IN  new.generation = old.generation
          => new.observed = old.observed /\ new.expires = old.expires

-----------------------------------------------------------------------------

LEMMA InitCache == Init => CacheInv
<1> SUFFICES ASSUME Init PROVE CacheInv
  OBVIOUS
<1>1. /\ IsCache(cache) /\ DOMAIN cache.entries = {} /\ DOMAIN cache.latest = {}
  BY DEF Init, EmptyCache, IsCache
<1>2. /\ ToSet(registered) = {} /\ registered \in Seq(Nat)
  BY DEF Init, ToSet
<1>3. observed \in [0 .. nextGeneration - 1 -> [key : Keys, phase : Phases]]
  <2>1. DOMAIN observed = {} /\ 0 .. nextGeneration - 1 = {}
    BY DEF Init
  <2>2. observed = [x \in DOMAIN observed |-> observed[x]]
    BY DEF Init
  <2> QED
    BY <2>1, <2>2
<1> QED
  BY <1>1, <1>2, <1>3
     DEF Init, CacheInv, CacheTyped, RegisteredKnown, TombstonesKnown, RuledOutSuperseded,
         EntriesProtected, EntriesInserted, RuledOutStaysOut

LEMMA AppendMembers ==
  ASSUME NEW queue \in Seq(Nat), NEW g \in Nat
  PROVE  /\ Append(queue, g) \in Seq(Nat)
         /\ ToSet(Append(queue, g)) = ToSet(queue) \cup {g}
<1>1. /\ DOMAIN Append(queue, g) = 1 .. Len(queue) + 1 /\ DOMAIN queue = 1 .. Len(queue)
      /\ \A i \in 1 .. Len(queue) : Append(queue, g)[i] = queue[i]
      /\ Append(queue, g)[Len(queue) + 1] = g /\ Len(queue) \in Nat
  OBVIOUS
<1>2. Append(queue, g) \in Seq(Nat)
  OBVIOUS
<1> QED
  BY <1>1, <1>2 DEF ToSet

(* An observation goes on; nothing else is said of any.                       *)
LEMMA AdvanceEffect ==
  ASSUME CacheTyped, NEW g \in DOMAIN observed, NEW phase \in Phases, Advance(g, phase)
  PROVE  /\ observed' \in [0 .. nextGeneration - 1 -> [key : Keys, phase : Phases]]
         /\ DOMAIN observed' = DOMAIN observed
         /\ \A x \in DOMAIN observed : observed'[x].key = observed[x].key
         /\ \A x \in DOMAIN observed \ {g} : observed'[x] = observed[x]
         /\ observed'[g].phase = phase
BY DEF CacheTyped, Advance

(* A step that takes entries away at most.                                    *)
LEMMA ThinStep ==
  ASSUME CacheInv, Thins(cache', cache), cache'.latest = cache.latest, now' \in Nat,
         UNCHANGED <<nextGeneration, observed, registered, ruledOut>>
  PROVE  CacheInv' /\ AgesKept
<1> USE DEF CacheInv, Thins
<1>1. CacheTyped'
  BY DEF CacheTyped
<1>2. RegisteredKnown' /\ TombstonesKnown' /\ RuledOutSuperseded'
  BY DEF RegisteredKnown, TombstonesKnown, RuledOutSuperseded, Known
<1>3. EntriesProtected' /\ EntriesInserted' /\ RuledOutStaysOut'
  BY DEF EntriesProtected, EntriesInserted, RuledOutStaysOut
<1>4. AgesKept
  BY DEF AgesKept
<1> QED
  BY <1>1, <1>2, <1>3, <1>4

LEMMA DrawStep ==
  ASSUME CacheInv, NEW k \in Keys, Draw(k)
  PROVE  CacheInv' /\ AgesKept
<1> USE DEF CacheInv
<1>1. /\ nextGeneration' = nextGeneration + 1
      /\ observed' = [x \in DOMAIN observed \cup {nextGeneration} |->
                        IF x = nextGeneration THEN [key |-> k, phase |-> "drawn"] ELSE observed[x]]
      /\ UNCHANGED <<cache, now, registered, ruledOut>>
  BY DEF Draw, Put
<1>2. /\ DOMAIN observed = 0 .. nextGeneration - 1
      /\ nextGeneration \in Nat
      /\ DOMAIN observed' = 0 .. nextGeneration' - 1
  BY <1>1 DEF CacheTyped
<1>3. observed' \in [0 .. nextGeneration' - 1 -> [key : Keys, phase : Phases]]
  BY <1>1, <1>2 DEF CacheTyped, Phases
<1>4. \A x \in DOMAIN observed : x \in DOMAIN observed' /\ observed'[x] = observed[x]
  BY <1>1, <1>2
<1>5. CacheTyped'
  BY <1>1, <1>2, <1>3 DEF CacheTyped
<1>6. RegisteredKnown' /\ TombstonesKnown' /\ RuledOutSuperseded'
  BY <1>1, <1>4 DEF RegisteredKnown, TombstonesKnown, RuledOutSuperseded, Known
<1>7. EntriesProtected' /\ EntriesInserted' /\ RuledOutStaysOut'
  BY <1>1, <1>4 DEF EntriesProtected, EntriesInserted, RuledOutStaysOut
<1>8. AgesKept
  BY <1>1 DEF AgesKept
<1> QED
  BY <1>5, <1>6, <1>7, <1>8

LEMMA RegisterStep ==
  ASSUME CacheInv, NEW g \in DOMAIN observed, Register(g)
  PROVE  CacheInv' /\ AgesKept
<1> USE DEF CacheInv
<1> DEFINE k == observed[g].key
<1>1. /\ observed[g].phase = "drawn"
      /\ cache' = RegisterObservation(cache, k, g)
      /\ Advance(g, "registered")
      /\ registered' = Append(registered, g)
      /\ ruledOut' = ruledOut \cup {r \in ToSet(registered) :
                                      HashOf[observed[r].key] \notin DOMAIN cache'.latest}
      /\ UNCHANGED <<nextGeneration, now>>
  BY DEF Register
<1>2. /\ Thins(cache', cache)
      /\ DOMAIN cache'.latest \subseteq DOMAIN cache.latest \cup {HashOf[k]}
      /\ \A h \in DOMAIN cache'.latest :
           cache'.latest[h] = IF h = HashOf[k] THEN g ELSE cache.latest[h]
      /\ EntriesProtected'
  BY <1>1, RegisterEffect DEF CacheTyped, EntriesProtected
<1>3. /\ observed' \in [0 .. nextGeneration - 1 -> [key : Keys, phase : Phases]]
      /\ DOMAIN observed' = DOMAIN observed
      /\ \A x \in DOMAIN observed : observed'[x].key = observed[x].key
      /\ \A x \in DOMAIN observed \ {g} : observed'[x] = observed[x]
      /\ observed'[g].phase = "registered"
  BY <1>1, AdvanceEffect DEF Phases
<1>4. g \in Nat
  BY DEF CacheTyped
<1>5. registered' \in Seq(Nat) /\ ToSet(registered') = ToSet(registered) \cup {g}
  BY <1>1, <1>4, AppendMembers DEF CacheTyped
<1>6. CacheTyped'
  BY <1>1, <1>2, <1>3, <1>5 DEF CacheTyped, Thins
<1>7. RegisteredKnown'
  BY <1>3, <1>5 DEF RegisteredKnown, Known
<1>8. TombstonesKnown'
  BY <1>2, <1>3 DEF TombstonesKnown, Known
<1>9. RuledOutSuperseded'
  <2> SUFFICES ASSUME NEW r \in ruledOut'
               PROVE  Known(r)' /\ \A h \in DOMAIN cache'.latest : cache'.latest[h] # r
    BY DEF RuledOutSuperseded
  <2>1. r \in ruledOut \/ (r \in ToSet(registered) /\ HashOf[observed[r].key] \notin DOMAIN cache'.latest)
    BY <1>1
  <2>2. Known(r) /\ r # g
    BY <1>1, <2>1 DEF RuledOutSuperseded, RegisteredKnown, Known
  <2>3. Known(r)'
    BY <1>3, <2>2 DEF Known
  <2>4. ASSUME NEW h \in DOMAIN cache'.latest PROVE cache'.latest[h] # r
    BY <1>2, <2>1, <2>2 DEF RuledOutSuperseded, TombstonesKnown
  <2> QED
    BY <2>3, <2>4
<1>10. EntriesInserted'
  BY <1>1, <1>2, <1>3 DEF EntriesInserted, Thins
<1>11. RuledOutStaysOut'
  <2> SUFFICES ASSUME NEW j \in DOMAIN cache'.entries PROVE cache'.entries[j].generation \notin ruledOut'
    BY DEF RuledOutStaysOut
  <2>1. /\ cache'.entries[j] = cache.entries[j] /\ j \in DOMAIN cache.entries
        /\ HashOf[j] \in DOMAIN cache'.latest
    BY <1>2 DEF Thins, EntriesProtected
  <2> QED
    BY <1>1, <2>1 DEF RuledOutStaysOut, EntriesInserted
<1>12. AgesKept
  BY <1>2 DEF AgesKept, Thins
<1> QED
  BY <1>2, <1>6, <1>7, <1>8, <1>9, <1>10, <1>11, <1>12

LEMMA InvalidateStep ==
  ASSUME CacheInv, NEW g \in DOMAIN observed, Invalidate(g)
  PROVE  CacheInv' /\ AgesKept
<1> USE DEF CacheInv
<1> DEFINE k == observed[g].key
<1>1. /\ observed[g].phase = "registered"
      /\ cache' = IF IsLatest(cache, k, g) THEN RemoveEntries(cache, {k}) ELSE cache
      /\ Advance(g, "invalidated")
      /\ ruledOut' = IF IsLatest(cache, k, g)
                     THEN ruledOut \cup {r \in ToSet(registered) \ {g} : observed[r].key = k}
                     ELSE ruledOut
      /\ UNCHANGED <<nextGeneration, now, registered>>
  BY DEF Invalidate, InvalidateObservation
<1>2. /\ Thins(cache', cache) /\ cache'.latest = cache.latest
      /\ IsLatest(cache, k, g) => k \notin DOMAIN cache'.entries
  BY <1>1, InvalidateThins DEF CacheTyped, InvalidateObservation
<1>3. /\ observed' \in [0 .. nextGeneration - 1 -> [key : Keys, phase : Phases]]
      /\ DOMAIN observed' = DOMAIN observed
      /\ \A x \in DOMAIN observed : observed'[x].key = observed[x].key
      /\ \A x \in DOMAIN observed \ {g} : observed'[x] = observed[x]
      /\ observed'[g].phase = "invalidated"
  BY <1>1, AdvanceEffect DEF Phases
<1>4. CacheTyped'
  BY <1>1, <1>2, <1>3 DEF CacheTyped, Thins
<1>5. \A x : Known(x) => Known(x)'
  BY <1>3 DEF Known
<1>6. RegisteredKnown' /\ TombstonesKnown'
  BY <1>1, <1>2, <1>3, <1>5 DEF RegisteredKnown, TombstonesKnown, Known
<1>7. RuledOutSuperseded'
  <2> SUFFICES ASSUME NEW r \in ruledOut'
               PROVE  Known(r)' /\ \A h \in DOMAIN cache.latest : cache.latest[h] # r
    BY <1>2 DEF RuledOutSuperseded
  <2>1. CASE r \in ruledOut
    BY <1>5, <2>1 DEF RuledOutSuperseded
  <2>2. CASE r \notin ruledOut
    <3>1. /\ r \in ToSet(registered) /\ r # g /\ observed[r].key = k
          /\ IsLatest(cache, k, g)
      BY <1>1, <2>2
    <3> QED
      BY <1>5, <3>1 DEF RegisteredKnown, TombstonesKnown, IsLatest
  <2> QED
    BY <2>1, <2>2
<1>8. EntriesProtected' /\ EntriesInserted'
  <2>1. EntriesProtected'
    BY <1>2 DEF EntriesProtected, Thins
  <2>2. ASSUME NEW j \in DOMAIN cache.entries
        PROVE  observed'[cache.entries[j].generation] = observed[cache.entries[j].generation]
    BY <1>1, <1>3 DEF EntriesInserted
  <2>3. EntriesInserted'
    BY <1>2, <1>3, <2>2 DEF EntriesInserted, Thins
  <2> QED
    BY <2>1, <2>3
<1>9. RuledOutStaysOut'
  BY <1>1, <1>2 DEF RuledOutStaysOut, EntriesInserted, Thins
<1>10. AgesKept
  BY <1>2 DEF AgesKept, Thins
<1> QED
  BY <1>4, <1>6, <1>7, <1>8, <1>9, <1>10

(* A document of an observation that is the latest of its hash is cached.     *)
LEMMA CachingStep ==
  ASSUME CacheInv, NEW g \in DOMAIN observed, NEW phase \in {"inserted", "over"}, NEW entry \in Entry,
         entry.generation = g, IsLatest(cache, observed[g].key, g),
         cache' = InsertEntry(cache, observed[g].key, entry, now),
         Advance(g, phase),
         UNCHANGED <<nextGeneration, now, registered, ruledOut>>
  PROVE  /\ CacheInv'
         /\ DOMAIN cache'.entries \subseteq DOMAIN cache.entries \cup {observed[g].key}
         /\ \A j \in DOMAIN cache'.entries :
              cache'.entries[j] = IF j = observed[g].key THEN entry ELSE cache.entries[j]
<1> USE DEF CacheInv
<1> DEFINE k == observed[g].key
<1>1. /\ IsCache(cache') /\ cache'.latest = cache.latest
      /\ DOMAIN cache'.entries \subseteq DOMAIN cache.entries \cup {k}
      /\ \A j \in DOMAIN cache'.entries : cache'.entries[j] = IF j = k THEN entry ELSE cache.entries[j]
  BY InsertEffect DEF CacheTyped
<1>2. /\ observed' \in [0 .. nextGeneration - 1 -> [key : Keys, phase : Phases]]
      /\ DOMAIN observed' = DOMAIN observed
      /\ \A x \in DOMAIN observed : observed'[x].key = observed[x].key
      /\ \A x \in DOMAIN observed \ {g} : observed'[x] = observed[x]
      /\ observed'[g].phase = phase
  BY AdvanceEffect DEF Phases
<1>3. k \in Keys
  BY DEF CacheTyped
<1>4. CacheTyped'
  BY <1>1, <1>2, <1>3 DEF CacheTyped
<1>5. \A x : Known(x) => Known(x)'
  BY <1>2 DEF Known
<1>6. RegisteredKnown' /\ TombstonesKnown' /\ RuledOutSuperseded'
  BY <1>1, <1>2, <1>5 DEF RegisteredKnown, TombstonesKnown, RuledOutSuperseded, Known
<1>7. EntriesProtected'
  BY <1>1 DEF EntriesProtected, IsLatest
<1>8. EntriesInserted'
  <2> SUFFICES ASSUME NEW j \in DOMAIN cache'.entries
               PROVE  LET x == cache'.entries[j].generation IN
                        /\ x \in DOMAIN observed'
                        /\ observed'[x].key = j
                        /\ observed'[x].phase \in {"inserted", "over"}
    BY DEF EntriesInserted
  <2>1. CASE j = k
    BY <1>1, <1>2, <2>1
  <2>2. CASE j # k
    <3>1. cache'.entries[j] = cache.entries[j] /\ j \in DOMAIN cache.entries
      BY <1>1, <2>2
    <3>2. cache.entries[j].generation # g
      BY <2>2, <3>1 DEF EntriesInserted
    <3> QED
      BY <1>2, <3>1, <3>2 DEF EntriesInserted
  <2> QED
    BY <2>1, <2>2
<1>9. g \notin ruledOut
  BY DEF RuledOutSuperseded, IsLatest
<1>10. RuledOutStaysOut'
  BY <1>1, <1>9 DEF RuledOutStaysOut
<1> QED
  BY <1>1, <1>4, <1>6, <1>7, <1>8, <1>10

(* An observation comes to its end without the cache being changed.           *)
LEMMA OverStep ==
  ASSUME CacheInv, NEW g \in DOMAIN observed, Advance(g, "over"),
         UNCHANGED <<cache, nextGeneration, now, registered, ruledOut>>
  PROVE  CacheInv' /\ AgesKept
<1> USE DEF CacheInv
<1>1. /\ observed' \in [0 .. nextGeneration - 1 -> [key : Keys, phase : Phases]]
      /\ DOMAIN observed' = DOMAIN observed
      /\ \A x \in DOMAIN observed : observed'[x].key = observed[x].key
      /\ \A x \in DOMAIN observed \ {g} : observed'[x] = observed[x]
      /\ observed'[g].phase = "over"
  BY AdvanceEffect DEF Phases
<1>2. CacheTyped'
  BY <1>1 DEF CacheTyped
<1>3. \A x : Known(x) => Known(x)'
  BY <1>1 DEF Known
<1>4. RegisteredKnown' /\ TombstonesKnown' /\ RuledOutSuperseded'
  BY <1>1, <1>3 DEF RegisteredKnown, TombstonesKnown, RuledOutSuperseded, Known
<1>5. EntriesProtected' /\ RuledOutStaysOut'
  BY DEF EntriesProtected, RuledOutStaysOut
<1>6. EntriesInserted'
  BY <1>1 DEF EntriesInserted
<1>7. AgesKept
  BY DEF AgesKept
<1> QED
  BY <1>2, <1>4, <1>5, <1>6, <1>7

LEMMA InsertStep ==
  ASSUME CacheInv, NEW g \in DOMAIN observed, Insert(g)
  PROVE  CacheInv' /\ AgesKept
<1> USE DEF CacheInv
<1> DEFINE k == observed[g].key
<1>1. PICK time \in 0 .. now, ttl \in 0 .. CacheTtl + 1, size \in Sizes, formats \in SUBSET Formats :
        LET accepted == InsertAccepted(cache, k, g, size, ttl) IN
          /\ observed[g].phase = "invalidated"
          /\ cache' = IF accepted
                      THEN InsertEntry(cache, k, NewEntry(g, formats, time, ttl, size, g), now)
                      ELSE cache
          /\ Advance(g, IF accepted /\ formats # Formats THEN "inserted" ELSE "over")
          /\ UNCHANGED <<nextGeneration, now, registered, ruledOut>>
  BY DEF Insert
<1> DEFINE entry == NewEntry(g, formats, time, ttl, size, g)
<1>2. CASE InsertAccepted(cache, k, g, size, ttl)
  <2>1. PICK phase \in {"inserted", "over"} : Advance(g, phase)
    BY <1>1, <1>2
  <2>2. entry \in Entry /\ entry.generation = g
    <3>1. g \in Nat /\ time \in Nat /\ size \in Nat /\ time + Least(ttl, CacheTtl) \in Nat
      BY BoundsAssumption, SizesAssumption DEF CacheTyped, Least
    <3> QED
      BY <3>1 DEF NewEntry, Entry
  <2>3. cache' = InsertEntry(cache, k, entry, now)
    BY <1>1, <1>2
  <2>4. IsLatest(cache, k, g)
    BY <1>2 DEF InsertAccepted
  <2> HIDE DEF entry
  <2>5. /\ CacheInv'
        /\ \A j \in DOMAIN cache'.entries : cache'.entries[j] = IF j = k THEN entry ELSE cache.entries[j]
    BY <1>1, <2>1, <2>2, <2>3, <2>4, CachingStep
  <2>6. \A j \in DOMAIN cache.entries : cache.entries[j].generation # g
    BY <1>1 DEF EntriesInserted
  <2>7. AgesKept
    BY <2>2, <2>5, <2>6 DEF AgesKept
  <2> QED
    BY <2>5, <2>7
<1>3. CASE ~InsertAccepted(cache, k, g, size, ttl)
  BY <1>1, <1>3, OverStep
<1> QED
  BY <1>2, <1>3

LEMMA WarmStep ==
  ASSUME CacheInv, NEW g \in DOMAIN observed, Warm(g)
  PROVE  CacheInv' /\ AgesKept
<1> USE DEF CacheInv
<1> DEFINE k == observed[g].key
<1>1. PICK size \in Sizes :
        /\ cache' = IF WarmAccepted(cache, k, g, size, now)
                    THEN InsertEntry(cache, k, WarmedEntry(cache, k, g, size, now), now)
                    ELSE cache
        /\ Advance(g, "over")
        /\ UNCHANGED <<nextGeneration, now, registered, ruledOut>>
  BY DEF Warm
<1> DEFINE entry == WarmedEntry(cache, k, g, size, now)
<1>2. CASE WarmAccepted(cache, k, g, size, now)
  <2>1. /\ k \in DOMAIN cache.entries /\ IsLatest(cache, k, g) /\ cache.entries[k].generation = g
    BY <1>2 DEF WarmAccepted
  <2>2. cache.entries[k] \in Entry /\ g \in Nat /\ size \in Nat
    BY <2>1, SizesAssumption DEF CacheTyped
  <2>3. /\ entry \in Entry /\ entry.generation = g
        /\ entry.observed = cache.entries[k].observed /\ entry.expires = cache.entries[k].expires
    <3> DEFINE old == cache.entries[k]
    <3>1. old \in Entry /\ old.generation = g
      BY <2>1, <2>2
    <3>2. entry = [old EXCEPT !.doc = g, !.formats = Formats, !.size = size]
      BY DEF WarmedEntry
    <3> HIDE DEF old, entry
    <3>3. /\ entry \in Entry /\ entry.generation = g
          /\ entry.observed = old.observed /\ entry.expires = old.expires
      BY <2>2, <3>1, <3>2 DEF Entry
    <3> QED
      BY <3>3 DEF old
  <2>4. cache' = InsertEntry(cache, k, entry, now)
    BY <1>1, <1>2
  <2> HIDE DEF entry
  <2>5. /\ CacheInv'
        /\ \A j \in DOMAIN cache'.entries : cache'.entries[j] = IF j = k THEN entry ELSE cache.entries[j]
    BY <1>1, <2>1, <2>3, <2>4, CachingStep
  <2>6. AgesKept
    BY <2>3, <2>5 DEF AgesKept
  <2> QED
    BY <2>5, <2>6
<1>3. CASE ~WarmAccepted(cache, k, g, size, now)
  BY <1>1, <1>3, OverStep
<1> QED
  BY <1>2, <1>3

LEMMA GetStep ==
  ASSUME CacheInv, NEW k \in Keys, Get(k)
  PROVE  CacheInv' /\ AgesKept
<1>1. PICK requested, maxAge : /\ cache' = AfterGet(cache, k, requested, maxAge, now)
                               /\ UNCHANGED <<nextGeneration, observed, now, registered, ruledOut>>
  BY DEF Get
<1>2. IsCache(cache) /\ now \in Nat
  BY DEF CacheInv, CacheTyped
<1>3. Thins(cache', cache) /\ cache'.latest = cache.latest
  BY <1>1, <1>2, GetThins
<1> QED
  BY <1>1, <1>2, <1>3, ThinStep

LEMMA CacheStep == CacheInv /\ [Next]_vars => CacheInv' /\ [AgesKept]_vars
<1> SUFFICES ASSUME CacheInv, [Next]_vars PROVE CacheInv' /\ [AgesKept]_vars
  OBVIOUS
<1>1. CASE \E k \in Keys : Draw(k) \/ Get(k)
  BY <1>1, DrawStep, GetStep
<1>2. CASE \E g \in DOMAIN observed : Register(g) \/ Invalidate(g) \/ Insert(g) \/ Warm(g)
  BY <1>2, RegisterStep, InvalidateStep, InsertStep, WarmStep
<1>3. CASE Tick
  <2>1. Thins(cache', cache) /\ cache'.latest = cache.latest
    BY <1>3 DEF Tick, CacheInv, CacheTyped, Thins
  <2>2. now' \in Nat
    BY <1>3 DEF Tick, CacheInv, CacheTyped
  <2> QED
    BY <1>3, <2>1, <2>2, ThinStep DEF Tick
<1>4. CASE UNCHANGED vars
  <2>1. Thins(cache', cache) /\ now' \in Nat
    BY <1>4 DEF vars, CacheInv, CacheTyped, Thins
  <2> QED
    BY <1>4, <2>1, ThinStep DEF vars
<1> QED
  BY <1>1, <1>2, <1>3, <1>4 DEF Next

(* The inductive invariant holds in every reachable state.                    *)
THEOREM CacheInvariance == Spec => []CacheInv
<1>1. CacheInv /\ [Next]_vars => CacheInv'
  BY CacheStep
<1> QED
  BY <1>1, InitCache, PTL DEF Spec

(* Neither a slow insert nor a warm job brings back a document that a later   *)
(* observation of its key invalidated, or whose tombstone was dropped.        *)
THEOREM SupersededStaysOut == Spec => []RuledOutStaysOut
<1>1. CacheInv => RuledOutStaysOut
  BY DEF CacheInv
<1> QED
  BY <1>1, CacheInvariance, PTL

(* As long as a key holds the document of one observation, its times stay     *)
(* what the insert made them.                                                 *)
THEOREM DocumentsAge == Spec => AgeNeverRestarts
<1>1. CacheInv /\ [Next]_vars =>
        [\A k \in DOMAIN cache.entries \cap DOMAIN cache'.entries :
           LET old == cache.entries[k]
               new == cache'.entries[k]
           IN  new.generation = old.generation
                 => new.observed = old.observed /\ new.expires = old.expires]_vars
  BY CacheStep DEF AgesKept
<1> QED
  BY <1>1, CacheInvariance, PTL DEF Spec, AgeNeverRestarts

-----------------------------------------------------------------------------
(* Queues, byte count and limits.                                             *)

BoundedEntry ==
  [doc : Generations, formats : SUBSET Formats, observed : 0 .. MaxTime,
   expires : 0 .. MaxTime + CacheTtl, size : 1 .. MaxEntryBytes, generation : Generations]

EntriesBounded == \A k \in DOMAIN cache.entries : cache.entries[k] \in BoundedEntry

RunBounded == nextGeneration <= MaxGenerations /\ now <= MaxTime

BooksKept ==
  /\ WellKept(cache) /\ Fits(cache)
  /\ Cardinality(DOMAIN cache.latest) <= MaxTombstones

BooksInv == RunBounded /\ EntriesBounded /\ BooksKept

LEMMA GenerationsDrawn ==
  ASSUME CacheInv, RunBounded
  PROVE  DOMAIN observed \subseteq Generations /\ now \in 0 .. MaxTime /\ nextGeneration \in 0 .. MaxGenerations
BY RunAssumption DEF CacheInv, CacheTyped, RunBounded, Generations

LEMMA InitBooks == Init => BooksInv
<1> SUFFICES ASSUME Init PROVE BooksInv
  OBVIOUS
<1>1. /\ IsCache(cache) /\ DOMAIN cache.entries = {} /\ DOMAIN cache.latest = {}
      /\ cache.order = <<>> /\ cache.observations = <<>> /\ cache.bytes = 0
  BY DEF Init, EmptyCache, IsCache
<1>2. Enumerates(<<>>, {})
  BY DEF Enumerates
<1>3. IsFiniteSet({}) /\ Cardinality({}) = 0
  BY FS_EmptySet
<1>4. SizeOf(cache.entries, DOMAIN cache.entries) = 0
  BY <1>1, <1>3, SizeOfFew
<1>5. WellKept(cache)
  BY <1>1, <1>2, <1>4 DEF WellKept
<1>6. {MaxTombstones, MaxEntries, MaxBytes} \subseteq Nat
  BY BoundsAssumption
<1>7. BooksKept
  BY <1>1, <1>3, <1>5, <1>6 DEF BooksKept, Fits
<1>8. RunBounded
  BY RunAssumption DEF Init, RunBounded
<1> QED
  BY <1>1, <1>7, <1>8 DEF BooksInv, EntriesBounded

LEMMA EntriesStayBounded ==
  ASSUME EntriesBounded, Thins(cache', cache)
  PROVE  EntriesBounded'
BY DEF EntriesBounded, Thins

(* A new entry is within bounds, and so are the books afterwards.             *)
LEMMA CachingKeepsBooks ==
  ASSUME CacheInv, BooksInv, NEW k, NEW entry \in BoundedEntry,
         cache' = InsertEntry(cache, k, entry, now)
  PROVE  EntriesBounded' /\ BooksKept'
<1>1. entry.size \in Nat
  BY BoundsAssumption DEF BoundedEntry
<1>2. /\ cache'.latest = cache.latest
      /\ DOMAIN cache'.entries \subseteq DOMAIN cache.entries \cup {k}
      /\ \A j \in DOMAIN cache'.entries : cache'.entries[j] = IF j = k THEN entry ELSE cache.entries[j]
  <2>1. IsCache(cache)
    BY DEF CacheInv, CacheTyped
  <2> QED
    BY <2>1, InsertEffect
<1>3. WellKept(cache') /\ Fits(cache')
  BY <1>1, InsertKeeps DEF BooksInv, BooksKept
<1>4. EntriesBounded'
  BY <1>2 DEF BooksInv, EntriesBounded
<1> QED
  BY <1>2, <1>3, <1>4 DEF BooksInv, BooksKept

LEMMA BooksStep == CacheInv /\ BooksInv /\ [Next]_vars => BooksInv'
<1> SUFFICES ASSUME CacheInv, BooksInv, [Next]_vars PROVE BooksInv'
  OBVIOUS
<1> USE DEF BooksInv
<1>1. /\ IsCache(cache) /\ WellKept(cache) /\ Fits(cache)
      /\ Cardinality(DOMAIN cache.latest) <= MaxTombstones
  BY DEF CacheInv, CacheTyped, BooksKept
<1>2. /\ DOMAIN observed \subseteq Generations /\ now \in 0 .. MaxTime
      /\ nextGeneration \in 0 .. MaxGenerations
  BY GenerationsDrawn
<1>3. ASSUME NEW k \in Keys, Draw(k) PROVE BooksInv'
  <2>1. cache' = cache /\ now' = now /\ nextGeneration' = nextGeneration + 1
        /\ nextGeneration < MaxGenerations
    BY <1>3 DEF Draw
  <2>2. RunBounded'
    BY <1>2, <2>1, RunAssumption DEF RunBounded
  <2> QED
    BY <2>1, <2>2 DEF EntriesBounded, BooksKept
<1>4. ASSUME NEW k \in Keys, Get(k) PROVE BooksInv'
  <2>1. PICK requested, maxAge : /\ cache' = AfterGet(cache, k, requested, maxAge, now)
                                 /\ UNCHANGED <<nextGeneration, observed, now, registered, ruledOut>>
    BY <1>4 DEF Get
  <2>2. Thins(cache', cache)
    BY <1>1, <2>1, GetThins
  <2>3. WellKept(cache') /\ cache'.latest = cache.latest /\ (Fits(cache) => Fits(cache'))
    BY <1>1, <2>1, GetKeeps
  <2> QED
    BY <1>1, <2>1, <2>2, <2>3, EntriesStayBounded DEF BooksKept, RunBounded
<1>5. ASSUME NEW g \in DOMAIN observed, Register(g) PROVE BooksInv'
  <2>1. /\ cache' = RegisterObservation(cache, observed[g].key, g)
        /\ UNCHANGED <<nextGeneration, now>>
    BY <1>5 DEF Register
  <2>2. Thins(cache', cache)
    BY <1>1, <2>1, RegisterEffect
  <2>3. WellKept(cache') /\ Cardinality(DOMAIN cache'.latest) <= MaxTombstones /\ (Fits(cache) => Fits(cache'))
    BY <1>1, <2>1, RegisterKeeps
  <2> QED
    BY <1>1, <2>1, <2>2, <2>3, EntriesStayBounded DEF BooksKept, RunBounded
<1>6. ASSUME NEW g \in DOMAIN observed, Invalidate(g) PROVE BooksInv'
  <2>1. /\ cache' = InvalidateObservation(cache, observed[g].key, g)
        /\ UNCHANGED <<nextGeneration, now>>
    BY <1>6 DEF Invalidate
  <2>2. Thins(cache', cache)
    BY <1>1, <2>1, InvalidateThins
  <2>3. WellKept(cache') /\ cache'.latest = cache.latest /\ (Fits(cache) => Fits(cache'))
    BY <1>1, <2>1, InvalidateKeeps
  <2> QED
    BY <1>1, <2>1, <2>2, <2>3, EntriesStayBounded DEF BooksKept, RunBounded
<1>7. ASSUME NEW g \in DOMAIN observed, Insert(g) PROVE BooksInv'
  <2> DEFINE k == observed[g].key
  <2>1. PICK time \in 0 .. now, ttl \in 0 .. CacheTtl + 1, size \in Sizes, formats \in SUBSET Formats :
          /\ cache' = IF InsertAccepted(cache, k, g, size, ttl)
                      THEN InsertEntry(cache, k, NewEntry(g, formats, time, ttl, size, g), now)
                      ELSE cache
          /\ UNCHANGED <<nextGeneration, now>>
    BY <1>7 DEF Insert
  <2> DEFINE entry == NewEntry(g, formats, time, ttl, size, g)
  <2>2. RunBounded'
    BY <2>1 DEF RunBounded
  <2>3. CASE InsertAccepted(cache, k, g, size, ttl)
    <3>1. cache' = InsertEntry(cache, k, entry, now)
      BY <2>1, <2>3
    <3>2. entry \in BoundedEntry
      <4>1. size \in 1 .. MaxEntryBytes
        BY <2>3, SizesAssumption, BoundsAssumption DEF InsertAccepted, CanStore
      <4>2. time \in 0 .. MaxTime /\ time + Least(ttl, CacheTtl) \in 0 .. MaxTime + CacheTtl
        BY <1>2, RunAssumption, BoundsAssumption DEF Least
      <4>3. g \in Generations
        BY <1>2
      <4> QED
        BY <4>1, <4>2, <4>3 DEF NewEntry, BoundedEntry
    <3> HIDE DEF entry, k
    <3> QED
      BY <2>2, <3>1, <3>2, CachingKeepsBooks
  <2>4. CASE ~ InsertAccepted(cache, k, g, size, ttl)
    BY <2>1, <2>2, <2>4 DEF EntriesBounded, BooksKept
  <2> QED
    BY <2>3, <2>4
<1>8. ASSUME NEW g \in DOMAIN observed, Warm(g) PROVE BooksInv'
  <2> DEFINE k == observed[g].key
  <2>1. PICK size \in Sizes :
          /\ cache' = IF WarmAccepted(cache, k, g, size, now)
                      THEN InsertEntry(cache, k, WarmedEntry(cache, k, g, size, now), now)
                      ELSE cache
          /\ UNCHANGED <<nextGeneration, now>>
    BY <1>8 DEF Warm
  <2> DEFINE entry == WarmedEntry(cache, k, g, size, now)
  <2>2. RunBounded'
    BY <2>1 DEF RunBounded
  <2>3. CASE WarmAccepted(cache, k, g, size, now)
    <3>1. cache' = InsertEntry(cache, k, entry, now)
      BY <2>1, <2>3
    <3>2. entry \in BoundedEntry
      <4> DEFINE old == cache.entries[k]
      <4>1. old \in BoundedEntry
        BY <2>3 DEF WarmAccepted, EntriesBounded
      <4>2. size \in 1 .. MaxEntryBytes
        BY <2>3, SizesAssumption, BoundsAssumption DEF WarmAccepted
      <4>3. g \in Generations
        BY <1>2
      <4>4. entry = [old EXCEPT !.doc = g, !.formats = Formats, !.size = size]
        BY DEF WarmedEntry
      <4> HIDE DEF old, entry
      <4> QED
        BY <4>1, <4>2, <4>3, <4>4 DEF BoundedEntry
    <3> HIDE DEF entry, k
    <3> QED
      BY <2>2, <3>1, <3>2, CachingKeepsBooks
  <2>4. CASE ~ WarmAccepted(cache, k, g, size, now)
    BY <2>1, <2>2, <2>4 DEF EntriesBounded, BooksKept
  <2> QED
    BY <2>3, <2>4
<1>9. CASE Tick
  <2>1. cache' = cache /\ nextGeneration' = nextGeneration /\ now' = now + 1 /\ now < MaxTime
    BY <1>9 DEF Tick
  <2>2. RunBounded'
    BY <1>2, <2>1, RunAssumption DEF RunBounded
  <2> QED
    BY <2>1, <2>2 DEF EntriesBounded, BooksKept
<1>10. CASE UNCHANGED vars
  BY <1>10 DEF vars, EntriesBounded, BooksKept, RunBounded
<1> QED
  BY <1>3, <1>4, <1>5, <1>6, <1>7, <1>8, <1>9, <1>10 DEF Next

(* Queues, byte count and limits are kept in every reachable state.           *)
THEOREM BooksInvariance == Spec => []BooksInv
BY CacheInvariance, InitBooks, BooksStep, PTL DEF Spec

(* The LRU queue lists exactly the cached keys, each once.                    *)
THEOREM QueueListsCache == Spec => []OrderListsEntries
<1>1. BooksInv => OrderListsEntries
  BY EnumeratedSet DEF BooksInv, BooksKept, WellKept, OrderListsEntries, Lists
<1> QED
  BY <1>1, BooksInvariance, PTL

(* The byte count is the size of what is cached, and both limits hold.        *)
THEOREM BytesAreAccounted == Spec => []SizesAccounted
<1>1. BooksInv => SizesAccounted
  BY DEF BooksInv, BooksKept, WellKept, SizesAccounted
<1> QED
  BY <1>1, BooksInvariance, PTL

(* Every cached document is protected by a tombstone of its key's hash, the   *)
(* queue of observations lists the tombstones, and they are never too many.   *)
THEOREM TombstonesProtect == Spec => []EntriesHaveTombstones
<1>1. CacheInv /\ BooksInv => EntriesHaveTombstones
  BY EnumeratedSet
     DEF CacheInv, EntriesProtected, BooksInv, BooksKept, WellKept, EntriesHaveTombstones, Lists
<1> QED
  BY <1>1, CacheInvariance, BooksInvariance, PTL

(* Making room for a fresh document never evicts that very document, in any   *)
(* reachable state.                                                           *)
THEOREM FreshStays == Spec => []InsertedIsCached
<1>1. CacheInv /\ BooksInv => InsertedIsCached
  <2> SUFFICES ASSUME CacheInv, BooksInv, NEW k \in Keys, NEW size \in Sizes, size <= MaxEntryBytes
               PROVE  k \in DOMAIN InsertEntry(cache, k, NewEntry(0, {}, now, CacheTtl, size, 0), now).entries
    BY DEF InsertedIsCached
  <2> DEFINE entry == NewEntry(0, {}, now, CacheTtl, size, 0)
  <2>1. entry.size = size /\ entry.expires = now + CacheTtl
    BY BoundsAssumption DEF NewEntry, Least
  <2>2. now \in Nat /\ {CacheTtl, MaxEntryBytes, MaxBytes} \subseteq Nat /\ MaxEntryBytes <= MaxBytes /\ size \in Nat
    BY BoundsAssumption, SizesAssumption DEF CacheInv, CacheTyped
  <2> HIDE DEF entry
  <2>3. entry.size \in Nat /\ entry.size <= MaxBytes /\ ~ now > entry.expires
    BY <2>1, <2>2
  <2>4. WellKept(cache)
    BY DEF BooksInv, BooksKept
  <2>5. k \in DOMAIN InsertEntry(cache, k, entry, now).entries
    BY <2>3, <2>4, InsertKeeps
  <2> QED
    BY <2>5 DEF entry
<1> QED
  BY <1>1, CacheInvariance, BooksInvariance, PTL

(* Every state the cache reaches is of its type.                              *)
THEOREM CacheTypes == Spec => []TypeOK
<1>1. CacheInv /\ BooksInv => TypeOK
  <2> SUFFICES ASSUME CacheInv, BooksInv PROVE TypeOK
    OBVIOUS
  <2>1. /\ DOMAIN observed \subseteq Generations /\ now \in 0 .. MaxTime
        /\ nextGeneration \in 0 .. MaxGenerations
    BY GenerationsDrawn DEF BooksInv
  <2>2. WellKept(cache)
    BY DEF BooksInv, BooksKept
  <2>3. DOMAIN cache.entries \subseteq Keys /\ cache.order \in Seq(Keys)
    <3>1. DOMAIN cache.entries \subseteq Keys /\ cache.order \in Seq(DOMAIN cache.entries)
      BY <2>2 DEF CacheInv, CacheTyped, WellKept, Enumerates
    <3> QED
      BY <3>1
  <2>4. \A h \in DOMAIN cache.latest : cache.latest[h] \in Generations /\ h \in Hashes
    BY <2>1, HashAssumption DEF CacheInv, CacheTyped, TombstonesKnown, Known
  <2>5. cache.observations \in Seq(Hashes)
    <3>1. cache.observations \in Seq(DOMAIN cache.latest) /\ DOMAIN cache.latest \subseteq Hashes
      BY <2>2, <2>4 DEF WellKept, Enumerates
    <3> QED
      BY <3>1
  <2>6. cache.bytes \in Nat
    BY <2>2, WellKeptSizes
  <2>7. registered \in Seq(Generations)
    <3>1. registered \in Seq(Nat) /\ \A g \in ToSet(registered) : g \in Generations
      BY <2>1 DEF CacheInv, CacheTyped, RegisteredKnown, Known
    <3>2. \A i \in 1 .. Len(registered) : registered[i] \in Generations
      BY <3>1 DEF ToSet
    <3> QED
      BY <3>1, <3>2
  <2>8. ruledOut \subseteq Generations
    BY <2>1 DEF CacheInv, RuledOutSuperseded, Known
  <2>9. EntriesBounded /\ observed \in [0 .. nextGeneration - 1 -> [key : Keys, phase : Phases]]
    BY DEF BooksInv, CacheInv, CacheTyped
  <2> QED
    BY <2>1, <2>3, <2>4, <2>5, <2>6, <2>7, <2>8, <2>9 DEF TypeOK, EntriesBounded, BoundedEntry
<1> QED
  BY <1>1, CacheInvariance, BooksInvariance, PTL

-----------------------------------------------------------------------------
(* The cache does what DocumentCache promises.                                *)

LEMMA InitPromised == Init => Promised!Init
<1> SUFFICES ASSUME Init PROVE Promised!Init
  OBVIOUS
<1>1. DOMAIN cache.entries = {} /\ DOMAIN cache.latest = {} /\ DOMAIN observed = {} /\ now = 0
  BY DEF Init, EmptyCache
<1>2. DocumentsServed = <<>>
  BY <1>1 DEF DocumentsServed
<1>3. LatestObservations = {}
  BY <1>1 DEF LatestObservations
<1>4. ObservationsBegun = <<>>
  <2>1. {x \in DOMAIN observed : observed[x].phase # "drawn"} = {}
    BY <1>1
  <2> QED
    BY <2>1 DEF ObservationsBegun
<1> QED
  BY <1>1, <1>2, <1>3, <1>4 DEF Promised!Init

(* What is served for a key.                                                  *)
LEMMA ServedDocument ==
  /\ DOMAIN DocumentsServed = DOMAIN cache.entries
  /\ \A k \in DOMAIN cache.entries :
       /\ DocumentsServed[k] =
            [observation |-> cache.entries[k].generation, formats |-> cache.entries[k].formats,
             observed |-> cache.entries[k].observed, expires |-> cache.entries[k].expires]
       /\ DocumentsServed[k].observation = cache.entries[k].generation
       /\ DocumentsServed[k].expires = cache.entries[k].expires
BY DEF DocumentsServed

LEMMA ServedDocumentNext ==
  /\ DOMAIN DocumentsServed' = DOMAIN cache'.entries
  /\ \A k \in DOMAIN cache'.entries :
       DocumentsServed'[k] =
         [observation |-> cache'.entries[k].generation, formats |-> cache'.entries[k].formats,
          observed |-> cache'.entries[k].observed, expires |-> cache'.entries[k].expires]
BY DEF DocumentsServed

(* Taking entries away is taking documents away.                              *)
LEMMA ServedAfter ==
  ASSUME Thins(cache', cache)
  PROVE  DocumentsServed' = Promised!Only(DOMAIN cache'.entries)
BY DEF Thins, DocumentsServed, Promised!Only

LEMMA SameServed ==
  ASSUME cache'.entries = cache.entries
  PROVE  DocumentsServed' = DocumentsServed
BY DEF DocumentsServed

LEMMA SameLatest ==
  ASSUME cache'.latest = cache.latest
  PROVE  LatestObservations' = LatestObservations
BY DEF LatestObservations

(* An observation that has begun goes on.                                     *)
LEMMA SameBegun ==
  ASSUME CacheTyped, NEW g \in DOMAIN observed, observed[g].phase # "drawn",
         NEW phase \in Phases \ {"drawn"}, Advance(g, phase)
  PROVE  ObservationsBegun' = ObservationsBegun
<1> DEFINE known == {x \in DOMAIN observed : observed[x].phase # "drawn"}
<1>1. /\ DOMAIN observed' = DOMAIN observed
      /\ \A x \in DOMAIN observed : observed'[x].key = observed[x].key
      /\ \A x \in DOMAIN observed \ {g} : observed'[x] = observed[x]
      /\ observed'[g].phase = phase
  BY AdvanceEffect
<1>2. {x \in DOMAIN observed' : observed'[x].phase # "drawn"} = known
  BY <1>1
<1>3. ObservationsBegun' = [x \in known |-> observed'[x].key]
  BY <1>2 DEF ObservationsBegun
<1> QED
  BY <1>1, <1>3 DEF ObservationsBegun

(* The key of an observation that has begun.                                  *)
LEMMA BegunKey ==
  /\ \A g \in DOMAIN ObservationsBegun : Known(g) /\ ObservationsBegun[g] = observed[g].key
  /\ \A g : Known(g) => g \in DOMAIN ObservationsBegun
BY DEF ObservationsBegun, Known

(* A document of a current observation takes its place.                       *)
LEMMA PlacePromised ==
  ASSUME CacheInv, BooksInv, NEW k \in Keys, NEW entry \in BoundedEntry,
         cache' = InsertEntry(cache, k, entry, now)
  PROVE  Promised!Place(k, [observation |-> entry.generation, formats |-> entry.formats,
                            observed |-> entry.observed, expires |-> entry.expires])
<1> DEFINE document == [observation |-> entry.generation, formats |-> entry.formats,
                        observed |-> entry.observed, expires |-> entry.expires]
<1>1. /\ DOMAIN cache'.entries \subseteq DOMAIN cache.entries \cup {k}
      /\ \A j \in DOMAIN cache'.entries : cache'.entries[j] = IF j = k THEN entry ELSE cache.entries[j]
      /\ \A j \in DOMAIN cache'.entries : ~ now > cache'.entries[j].expires
  <2>1. IsCache(cache)
    BY DEF CacheInv, CacheTyped
  <2> QED
    BY <2>1, InsertEffect
<1>2. /\ entry.size \in Nat /\ entry.size <= MaxBytes /\ entry.expires \in Nat
      /\ now \in Nat /\ \A j \in DOMAIN cache.entries : cache.entries[j].expires \in Nat
  BY BoundsAssumption, RunAssumption
     DEF BoundedEntry, CacheInv, CacheTyped, Entry
<1>3. ~ now > entry.expires => k \in DOMAIN cache'.entries
  <2>1. WellKept(cache)
    BY DEF BooksInv, BooksKept
  <2> QED
    BY <1>2, <2>1, InsertKeeps
<1>4. k \in DOMAIN DocumentsServed' <=> now <= document.expires
  BY <1>1, <1>2, <1>3, ServedDocumentNext
<1>5. k \in DOMAIN DocumentsServed' => DocumentsServed'[k] = document
  BY <1>1, ServedDocumentNext
<1>6. ASSUME NEW j \in DOMAIN DocumentsServed' \ {k}
      PROVE  /\ j \in DOMAIN DocumentsServed /\ DocumentsServed'[j] = DocumentsServed[j]
             /\ now <= DocumentsServed[j].expires
  <2>1. /\ j \in DOMAIN cache'.entries /\ j \in DOMAIN cache.entries
        /\ cache'.entries[j] = cache.entries[j]
    BY <1>1, <1>6, ServedDocumentNext
  <2>2. now <= cache.entries[j].expires
    BY <1>1, <1>2, <2>1
  <2>3. DocumentsServed'[j] = DocumentsServed[j]
    BY <2>1, ServedDocument, ServedDocumentNext
  <2> QED
    BY <2>1, <2>2, <2>3, ServedDocument
<1>7. Promised!Place(k, document)
  <2> HIDE DEF document
  <2> QED
    BY <1>4, <1>5, <1>6 DEF Promised!Place
<1> QED
  BY <1>7

(* What an observation of a key has in its place is its own only once it has  *)
(* been inserted.                                                             *)
LEMMA NotStored ==
  ASSUME CacheInv, NEW g \in DOMAIN observed, observed[g].phase \in {"registered", "invalidated"}
  PROVE  ~ Promised!Stored(g)
<1>1. ASSUME NEW k \in DOMAIN cache.entries PROVE cache.entries[k].generation # g
  BY DEF CacheInv, EntriesInserted
<1>2. ASSUME NEW k \in DOMAIN DocumentsServed PROVE DocumentsServed[k].observation # g
  BY <1>1, ServedDocument
<1> QED
  BY <1>2 DEF Promised!Stored

LEMMA DrawRefines ==
  ASSUME CacheInv, NEW k \in Keys, Draw(k)
  PROVE  UNCHANGED Promised!documentVars
<1>1. /\ observed' = [x \in DOMAIN observed \cup {nextGeneration} |->
                        IF x = nextGeneration THEN [key |-> k, phase |-> "drawn"] ELSE observed[x]]
      /\ UNCHANGED <<cache, now>>
  BY DEF Draw, Put
<1>2. {x \in DOMAIN observed' : observed'[x].phase # "drawn"} = {x \in DOMAIN observed : observed[x].phase # "drawn"}
  <2>1. nextGeneration \notin DOMAIN observed
    BY DEF CacheInv, CacheTyped
  <2> QED
    BY <1>1, <2>1
<1>3. ObservationsBegun' = ObservationsBegun
  <2>1. \A x \in DOMAIN observed : observed'[x] = observed[x]
    <3>1. nextGeneration \notin DOMAIN observed
      BY DEF CacheInv, CacheTyped
    <3> QED
      BY <1>1, <3>1
  <2> QED
    BY <1>2, <2>1 DEF ObservationsBegun
<1>4. DocumentsServed' = DocumentsServed /\ LatestObservations' = LatestObservations
  BY <1>1, SameServed, SameLatest
<1> QED
  BY <1>1, <1>3, <1>4 DEF Promised!documentVars

LEMMA RegisterRefines ==
  ASSUME CacheInv, BooksInv, NEW g \in DOMAIN observed, Register(g)
  PROVE  Promised!Begin(g, observed[g].key)
<1> USE DEF CacheInv
<1> DEFINE k == observed[g].key
           h == HashOf[k]
           known == {x \in DOMAIN observed : observed[x].phase # "drawn"}
<1>1. /\ observed[g].phase = "drawn"
      /\ cache' = RegisterObservation(cache, k, g)
      /\ Advance(g, "registered")
      /\ UNCHANGED <<nextGeneration, now>>
  BY DEF Register
<1>2. /\ Thins(cache', cache)
      /\ DOMAIN cache'.latest \subseteq DOMAIN cache.latest \cup {h}
      /\ \A x \in DOMAIN cache'.latest : cache'.latest[x] = IF x = h THEN g ELSE cache.latest[x]
      /\ \A j \in DOMAIN cache'.entries : HashOf[j] \in DOMAIN cache'.latest
  BY <1>1, RegisterEffect DEF CacheTyped, EntriesProtected
<1>3. /\ h \in DOMAIN cache'.latest
      /\ \A j \in DOMAIN cache.entries : HashOf[j] \in DOMAIN cache'.latest => j \in DOMAIN cache'.entries
  <2>1. WellKept(cache) /\ Cardinality(DOMAIN cache.latest) <= MaxTombstones
    BY DEF BooksInv, BooksKept
  <2> QED
    BY <1>1, <2>1, RegisterKeeps
<1>4. /\ DOMAIN observed' = DOMAIN observed
      /\ \A x \in DOMAIN observed : observed'[x].key = observed[x].key
      /\ \A x \in DOMAIN observed \ {g} : observed'[x] = observed[x]
      /\ observed'[g].phase = "registered"
  BY <1>1, AdvanceEffect DEF Phases
<1>5. /\ g \notin DOMAIN ObservationsBegun
      /\ ObservationsBegun' = [x \in DOMAIN ObservationsBegun \cup {g} |->
                                 IF x = g THEN k ELSE ObservationsBegun[x]]
  <2>1. {x \in DOMAIN observed' : observed'[x].phase # "drawn"} = known \cup {g}
    BY <1>4
  <2>2. g \notin known /\ DOMAIN ObservationsBegun = known
    BY <1>1 DEF ObservationsBegun
  <2>3. ObservationsBegun' = [x \in known \cup {g} |-> observed'[x].key]
    BY <2>1 DEF ObservationsBegun
  <2>4. \A x \in known \cup {g} : observed'[x].key = IF x = g THEN k ELSE ObservationsBegun[x]
    BY <1>4, <2>2 DEF ObservationsBegun
  <2> HIDE DEF known
  <2> QED
    BY <2>2, <2>3, <2>4
<1>6. \A x \in DOMAIN cache.latest :
        /\ cache.latest[x] \in DOMAIN ObservationsBegun /\ cache.latest[x] # g
        /\ HashOf[ObservationsBegun[cache.latest[x]]] = x
  BY <1>5, BegunKey DEF TombstonesKnown
<1>7. \A x \in DOMAIN cache'.latest : HashOf[ObservationsBegun'[cache'.latest[x]]] = x
  BY <1>2, <1>5, <1>6
<1>8. \A j : (\E x \in LatestObservations' : HashOf[ObservationsBegun'[x]] = HashOf[j])
               <=> HashOf[j] \in DOMAIN cache'.latest
  BY <1>7 DEF LatestObservations
<1>9. DocumentsServed' =
        Promised!Only({j \in DOMAIN DocumentsServed :
                         \E x \in LatestObservations' : HashOf[ObservationsBegun'[x]] = HashOf[j]})
  <2>1. {j \in DOMAIN DocumentsServed :
           \E x \in LatestObservations' : HashOf[ObservationsBegun'[x]] = HashOf[j]}
          = {j \in DOMAIN DocumentsServed : HashOf[j] \in DOMAIN cache'.latest}
    BY <1>8
  <2>2. {j \in DOMAIN DocumentsServed : HashOf[j] \in DOMAIN cache'.latest} = DOMAIN cache'.entries
    BY <1>2, <1>3, ServedDocument DEF Thins
  <2> QED
    BY <1>2, <2>1, <2>2, ServedAfter
<1> DEFINE forgotten == LatestObservations \ LatestObservations'
<1>10. LatestObservations' =
         {g} \cup {x \in LatestObservations \ forgotten : HashOf[ObservationsBegun[x]] # h}
  <2>1. g \in LatestObservations'
    BY <1>2, <1>3 DEF LatestObservations
  <2>2. ASSUME NEW x \in LatestObservations', x # g
        PROVE  x \in LatestObservations /\ HashOf[ObservationsBegun[x]] # h
    <3>1. PICK y \in DOMAIN cache'.latest : x = cache'.latest[y]
      BY DEF LatestObservations
    <3>2. y # h /\ y \in DOMAIN cache.latest /\ x = cache.latest[y]
      BY <1>2, <2>2, <3>1
    <3> QED
      BY <1>6, <3>2 DEF LatestObservations
  <2> QED
    BY <2>1, <2>2
<1>11. \E gone \in SUBSET LatestObservations :
         LatestObservations' = {g} \cup {x \in LatestObservations \ gone : HashOf[ObservationsBegun[x]] # HashOf[k]}
  <2> HIDE DEF forgotten
  <2>1. forgotten \in SUBSET LatestObservations
    BY DEF forgotten
  <2> QED
    BY <1>10, <2>1
<1> HIDE DEF forgotten, k, h
<1>12. Promised!Begin(g, k)
  BY <1>1, <1>5, <1>9, <1>11 DEF Promised!Begin
<1> QED
  BY <1>12 DEF k

LEMMA InvalidateRefines ==
  ASSUME CacheInv, NEW g \in DOMAIN observed, Invalidate(g)
  PROVE  UNCHANGED Promised!documentVars \/ (g \in LatestObservations /\ Promised!Withdraw(g))
<1> DEFINE k == observed[g].key
<1>1. /\ observed[g].phase = "registered"
      /\ cache' = IF IsLatest(cache, k, g) THEN RemoveEntries(cache, {k}) ELSE cache
      /\ Advance(g, "invalidated")
      /\ UNCHANGED <<nextGeneration, now>>
  BY DEF Invalidate, InvalidateObservation
<1>2. ObservationsBegun' = ObservationsBegun
  BY <1>1, SameBegun DEF CacheInv, Phases
<1>3. CASE ~ IsLatest(cache, k, g)
  BY <1>1, <1>2, <1>3, SameServed, SameLatest DEF Promised!documentVars
<1>4. CASE IsLatest(cache, k, g)
  <2>1. /\ Thins(cache', cache) /\ cache'.latest = cache.latest
        /\ DOMAIN cache'.entries = DOMAIN cache.entries \ {k}
    <3>1. IsCache(cache) /\ cache' = RemoveEntries(cache, {k})
      BY <1>1, <1>4 DEF CacheInv, CacheTyped
    <3> HIDE DEF k
    <3> QED
      BY <3>1, RemoveThins
  <2>2. g \in LatestObservations /\ ObservationsBegun[g] = k
    BY <1>1, <1>4, BegunKey DEF IsLatest, LatestObservations, Known
  <2>3. DocumentsServed' = Promised!Only(DOMAIN DocumentsServed \ {ObservationsBegun[g]})
    BY <2>1, <2>2, ServedAfter, ServedDocument
  <2>4. LatestObservations' = LatestObservations
    BY <2>1, SameLatest
  <2>5. ~ Promised!Stored(g)
    BY <1>1, NotStored
  <2> QED
    BY <1>1, <1>2, <2>2, <2>3, <2>4, <2>5 DEF Promised!Withdraw
<1> QED
  BY <1>3, <1>4

LEMMA InsertRefines ==
  ASSUME CacheInv, BooksInv, NEW g \in DOMAIN observed, Insert(g)
  PROVE  UNCHANGED Promised!documentVars \/ (g \in LatestObservations /\ Promised!Store(g))
<1> DEFINE k == observed[g].key
<1>1. PICK time \in 0 .. now, ttl \in 0 .. CacheTtl + 1, size \in Sizes, formats \in SUBSET Formats :
        LET accepted == InsertAccepted(cache, k, g, size, ttl) IN
          /\ observed[g].phase = "invalidated"
          /\ cache' = IF accepted
                      THEN InsertEntry(cache, k, NewEntry(g, formats, time, ttl, size, g), now)
                      ELSE cache
          /\ Advance(g, IF accepted /\ formats # Formats THEN "inserted" ELSE "over")
          /\ UNCHANGED <<nextGeneration, now>>
  BY DEF Insert
<1>2. ObservationsBegun' = ObservationsBegun
  BY <1>1, SameBegun DEF CacheInv, Phases
<1>3. CASE ~ InsertAccepted(cache, k, g, size, ttl)
  BY <1>1, <1>2, <1>3, SameServed, SameLatest DEF Promised!documentVars
<1>4. CASE InsertAccepted(cache, k, g, size, ttl)
  <2> DEFINE entry == NewEntry(g, formats, time, ttl, size, g)
             lifetime == Least(ttl, CacheTtl)
  <2>1. cache' = InsertEntry(cache, k, entry, now) /\ k \in Keys
    BY <1>1, <1>4 DEF CacheInv, CacheTyped
  <2>2. lifetime \in 1 .. CacheTtl /\ time \in 0 .. now /\ now \in 0 .. MaxTime
    BY <1>4, BoundsAssumption, GenerationsDrawn
       DEF InsertAccepted, CanStore, Least, BooksInv
  <2>3. /\ entry.generation = g /\ entry.formats = formats /\ entry.observed = time
        /\ entry.expires = time + lifetime /\ entry \in BoundedEntry
    <3>1. size \in 1 .. MaxEntryBytes
      BY <1>4, SizesAssumption, BoundsAssumption DEF InsertAccepted, CanStore
    <3>2. time \in 0 .. MaxTime /\ time + lifetime \in 0 .. MaxTime + CacheTtl
      BY <2>2, RunAssumption, BoundsAssumption
    <3>3. g \in Generations
      BY GenerationsDrawn DEF BooksInv
    <3> HIDE DEF lifetime
    <3>4. entry = [doc |-> g, formats |-> formats, observed |-> time,
                   expires |-> time + lifetime, size |-> size, generation |-> g]
      BY DEF NewEntry, lifetime
    <3> HIDE DEF entry
    <3> QED
      BY <3>1, <3>2, <3>3, <3>4 DEF BoundedEntry
  <2>4. g \in LatestObservations /\ ObservationsBegun[g] = k
    BY <1>1, <1>4, BegunKey DEF InsertAccepted, IsLatest, LatestObservations, Known
  <2> HIDE DEF entry, lifetime, k
  <2>5. Promised!Place(ObservationsBegun[g],
                       [observation |-> g, formats |-> formats, observed |-> time,
                        expires |-> time + lifetime])
    <3>1. Promised!Place(k, [observation |-> entry.generation, formats |-> entry.formats,
                             observed |-> entry.observed, expires |-> entry.expires])
      BY <2>1, <2>3, PlacePromised
    <3> QED
      BY <2>3, <2>4, <3>1
  <2>6. LatestObservations' = LatestObservations
    <3>1. cache'.latest = cache.latest
      <4>1. IsCache(cache)
        BY DEF CacheInv, CacheTyped
      <4> QED
        BY <2>1, <4>1, InsertEffect
    <3> QED
      BY <3>1, SameLatest
  <2>7. ~ Promised!Stored(g)
    BY <1>1, NotStored
  <2> QED
    BY <1>1, <1>2, <2>2, <2>4, <2>5, <2>6, <2>7 DEF Promised!Store
<1> QED
  BY <1>3, <1>4

LEMMA WarmRefines ==
  ASSUME CacheInv, BooksInv, NEW g \in DOMAIN observed, Warm(g)
  PROVE  UNCHANGED Promised!documentVars \/ (g \in LatestObservations /\ Promised!Complete(g))
<1> DEFINE k == observed[g].key
<1>1. PICK size \in Sizes :
        /\ observed[g].phase = "inserted"
        /\ cache' = IF WarmAccepted(cache, k, g, size, now)
                    THEN InsertEntry(cache, k, WarmedEntry(cache, k, g, size, now), now)
                    ELSE cache
        /\ Advance(g, "over")
        /\ UNCHANGED <<nextGeneration, now>>
  BY DEF Warm
<1>2. ObservationsBegun' = ObservationsBegun
  BY <1>1, SameBegun DEF CacheInv, Phases
<1>3. CASE ~ WarmAccepted(cache, k, g, size, now)
  BY <1>1, <1>2, <1>3, SameServed, SameLatest DEF Promised!documentVars
<1>4. CASE WarmAccepted(cache, k, g, size, now)
  <2> DEFINE entry == WarmedEntry(cache, k, g, size, now)
             old == cache.entries[k]
             document == DocumentsServed[k]
  <2>1. cache' = InsertEntry(cache, k, entry, now) /\ k \in Keys
    BY <1>1, <1>4 DEF CacheInv, CacheTyped
  <2>2. /\ k \in DOMAIN cache.entries /\ old \in BoundedEntry /\ old.generation = g
        /\ now <= old.expires /\ size \in 1 .. MaxEntryBytes /\ g \in Generations
    BY <1>4, SizesAssumption, BoundsAssumption, GenerationsDrawn
       DEF WarmAccepted, BooksInv, EntriesBounded
  <2>3. /\ entry.generation = g /\ entry.formats = Formats /\ entry.observed = old.observed
        /\ entry.expires = old.expires /\ entry \in BoundedEntry
    <3>1. entry = [old EXCEPT !.doc = g, !.formats = Formats, !.size = size]
      BY DEF WarmedEntry
    <3> HIDE DEF entry, old
    <3> QED
      BY <2>2, <3>1 DEF BoundedEntry
  <2>4. g \in LatestObservations /\ ObservationsBegun[g] = k
    BY <1>1, <1>4, BegunKey DEF WarmAccepted, IsLatest, LatestObservations, Known
  <2>5. /\ document = [observation |-> old.generation, formats |-> old.formats,
                       observed |-> old.observed, expires |-> old.expires]
        /\ k \in DOMAIN DocumentsServed
    BY <2>2, ServedDocument
  <2> HIDE DEF entry, old
  <2>6. [document EXCEPT !.formats = Formats] =
          [observation |-> entry.generation, formats |-> entry.formats,
           observed |-> entry.observed, expires |-> entry.expires]
    <3> HIDE DEF document
    <3> QED
      BY <2>2, <2>3, <2>5
  <2>7. Promised!Place(k, [document EXCEPT !.formats = Formats])
    <3>1. Promised!Place(k, [observation |-> entry.generation, formats |-> entry.formats,
                             observed |-> entry.observed, expires |-> entry.expires])
      <4> HIDE DEF k
      <4> QED
        BY <2>1, <2>3, PlacePromised
    <3> QED
      BY <2>6, <3>1
  <2>8. Promised!Stored(g) /\ now <= document.expires
    <3>1. document.observation = g /\ document.expires = old.expires
      <4> HIDE DEF document
      <4> QED
        BY <2>2, <2>5
    <3> QED
      BY <2>2, <2>4, <2>5, <3>1 DEF Promised!Stored
  <2>9. LatestObservations' = LatestObservations
    <3>1. cache'.latest = cache.latest
      <4>1. IsCache(cache)
        BY DEF CacheInv, CacheTyped
      <4> HIDE DEF k
      <4> QED
        BY <2>1, <4>1, InsertEffect
    <3> QED
      BY <3>1, SameLatest
  <2>10. Promised!Complete(g)
    BY <1>1, <1>2, <2>4, <2>7, <2>8, <2>9 DEF Promised!Complete
  <2> QED
    BY <2>4, <2>10
<1> QED
  BY <1>3, <1>4

LEMMA GetRefines ==
  ASSUME CacheInv, NEW k \in Keys, Get(k)
  PROVE  UNCHANGED Promised!documentVars \/ Promised!Expire(k)
<1>1. PICK requested \in SUBSET Formats, maxAge \in 0 .. CacheTtl + 1 :
        /\ cache' = AfterGet(cache, k, requested, maxAge, now)
        /\ UNCHANGED <<nextGeneration, observed, now>>
  BY DEF Get
<1>2. ObservationsBegun' = ObservationsBegun
  BY <1>1 DEF ObservationsBegun
<1>3. IsCache(cache)
  BY DEF CacheInv, CacheTyped
<1>4. CASE cache' = RemoveEntries(cache, {k}) /\ k \in Expired(cache, now)
  <2>1. /\ Thins(cache', cache) /\ cache'.latest = cache.latest
        /\ DOMAIN cache'.entries = DOMAIN cache.entries \ {k}
    BY <1>3, <1>4, RemoveThins
  <2>2. DocumentsServed' = Promised!Only(DOMAIN DocumentsServed \ {k})
    BY <2>1, ServedAfter, ServedDocument
  <2>3. k \in DOMAIN DocumentsServed /\ now > DocumentsServed[k].expires
    BY <1>4, ServedDocument DEF Expired
  <2>4. LatestObservations' = LatestObservations
    BY <2>1, SameLatest
  <2> QED
    BY <1>1, <1>2, <2>2, <2>3, <2>4 DEF Promised!Expire
<1>5. CASE cache'.entries = cache.entries /\ cache'.latest = cache.latest
  BY <1>1, <1>2, <1>5, SameServed, SameLatest DEF Promised!documentVars
<1>6. \/ cache' = RemoveEntries(cache, {k}) /\ k \in Expired(cache, now)
      \/ cache' = [cache EXCEPT !.order = Touch(@, k)]
      \/ cache' = cache
  BY <1>1 DEF AfterGet
<1>7. CASE cache' = [cache EXCEPT !.order = Touch(@, k)]
  BY <1>3, <1>5, <1>7 DEF IsCache
<1> QED
  BY <1>4, <1>5, <1>6, <1>7

LEMMA NextPromised == CacheInv /\ BooksInv /\ [Next]_vars => [Promised!Next]_(Promised!documentVars)
<1> SUFFICES ASSUME CacheInv, BooksInv, [Next]_vars
             PROVE  Promised!Next \/ UNCHANGED Promised!documentVars
  OBVIOUS
<1>1. ASSUME NEW k \in Keys, Draw(k) PROVE UNCHANGED Promised!documentVars
  BY <1>1, DrawRefines
<1>2. ASSUME NEW k \in Keys, Get(k) PROVE UNCHANGED Promised!documentVars \/ Promised!Next
  BY <1>2, GetRefines DEF Promised!Next
<1>3. ASSUME NEW g \in DOMAIN observed, Register(g) PROVE Promised!Next
  <2>1. g \in Generations /\ observed[g].key \in Keys
    BY GenerationsDrawn DEF BooksInv, CacheInv, CacheTyped
  <2>2. Promised!Begin(g, observed[g].key)
    BY <1>3, RegisterRefines
  <2> QED
    BY <2>1, <2>2 DEF Promised!Next
<1>4. ASSUME NEW g \in DOMAIN observed, Invalidate(g) \/ Insert(g) \/ Warm(g)
      PROVE  UNCHANGED Promised!documentVars \/ Promised!Next
  BY <1>4, InvalidateRefines, InsertRefines, WarmRefines DEF Promised!Next
<1>5. CASE Tick
  <2>1. UNCHANGED <<cache, observed>> /\ now' = now + 1
    BY <1>5 DEF Tick
  <2>2. UNCHANGED <<DocumentsServed, LatestObservations, ObservationsBegun>>
    BY <2>1 DEF DocumentsServed, LatestObservations, ObservationsBegun
  <2> QED
    BY <2>1, <2>2 DEF Promised!Next, Promised!Tick
<1>6. CASE UNCHANGED vars
  BY <1>6 DEF vars, Promised!documentVars, DocumentsServed, LatestObservations, ObservationsBegun
<1> QED
  BY <1>1, <1>2, <1>3, <1>4, <1>5, <1>6 DEF Next

(* The cache, with its queues, tombstones and limits, does what DocumentCache *)
(* promises: only the latest observation of a hash is heard, what was         *)
(* superseded or forgotten never comes back, and nothing takes away what has  *)
(* not expired but a newer observation, a forgotten history or want of room.  *)
THEOREM CachePromisesKept == Spec => DocumentsSpec
BY InitPromised, NextPromised, CacheInvariance, BooksInvariance, PTL
   DEF Spec, DocumentsSpec, Promised!Spec
=============================================================================
