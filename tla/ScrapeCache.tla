----------------------------- MODULE ScrapeCache -----------------------------
(* ScrapeCache of scorch-engine/src/cache.rs under its most general client:   *)
(* observations are begun for any key, in any number at once, go as far as   *)
(* they like and at any pace, while readers look up and time passes.         *)
EXTENDS CacheState

CONSTANTS
  Sizes,            \* entry_size of the documents offered
  MaxGenerations,   \* bound: observations a behaviour may begin
  MaxTime           \* bound: ticks of the clock

ASSUME SizesAssumption == Sizes \subseteq Nat \ {0}
ASSUME RunAssumption == MaxGenerations \in Nat /\ MaxTime \in Nat

Generations == 0 .. MaxGenerations - 1

VARIABLES
  cache,            \* ScrapeCache.state
  nextGeneration,   \* ScrapeCache.next_generation
  observed,         \* each generation drawn: its key and how far it went
  now,              \* the clock
  registered,       \* history: generations in the order they registered
  ruledOut          \* history: generations whose document must not be cached

vars == <<cache, nextGeneration, observed, now, registered, ruledOut>>

Phases == {"drawn", "registered", "invalidated", "inserted", "over"}

TypeOK ==
  /\ DOMAIN cache.entries \subseteq Keys
  /\ \A k \in DOMAIN cache.entries :
       cache.entries[k] \in [doc : Generations, formats : SUBSET Formats, observed : 0 .. MaxTime,
                             expires : 0 .. MaxTime + CacheTtl, size : 1 .. MaxEntryBytes,
                             generation : Generations]
  /\ cache.order \in Seq(Keys)
  /\ DOMAIN cache.latest \subseteq Hashes
  /\ \A h \in DOMAIN cache.latest : cache.latest[h] \in Generations
  /\ cache.observations \in Seq(Hashes)
  /\ cache.bytes \in Nat
  /\ nextGeneration \in 0 .. MaxGenerations
  /\ observed \in [0 .. nextGeneration - 1 -> [key : Keys, phase : Phases]]
  /\ now \in 0 .. MaxTime
  /\ registered \in Seq(Generations)
  /\ ruledOut \subseteq Generations

Init ==
  /\ cache = EmptyCache
  /\ nextGeneration = 0
  /\ observed = <<>>
  /\ now = 0
  /\ registered = <<>>
  /\ ruledOut = {}

Advance(g, phase) == observed' = [observed EXCEPT ![g].phase = phase]

(* begin_observation draws its generation before it takes the lock ...       *)
Draw(k) ==
  /\ nextGeneration < MaxGenerations
  /\ nextGeneration' = nextGeneration + 1
  /\ observed' = Put(observed, nextGeneration, [key |-> k, phase |-> "drawn"])
  /\ UNCHANGED <<cache, now, registered, ruledOut>>

(* ... and registers it under the lock.                                      *)
Register(g) ==
  /\ observed[g].phase = "drawn"
  /\ cache' = RegisterObservation(cache, observed[g].key, g)
  /\ Advance(g, "registered")
  /\ registered' = Append(registered, g)
  /\ ruledOut' = ruledOut \cup {r \in ToSet(registered) :
                                  HashOf[observed[r].key] \notin DOMAIN cache'.latest}
  /\ UNCHANGED <<nextGeneration, now>>

Invalidate(g) ==
  LET k == observed[g].key IN
    /\ observed[g].phase = "registered"
    /\ cache' = InvalidateObservation(cache, k, g)
    /\ Advance(g, "invalidated")
    /\ ruledOut' = IF IsLatest(cache, k, g)
                   THEN ruledOut \cup {r \in ToSet(registered) \ {g} : observed[r].key = k}
                   ELSE ruledOut
    /\ UNCHANGED <<nextGeneration, now, registered>>

Insert(g) ==
  \E at \in 0 .. now, ttl \in 0 .. CacheTtl + 1, size \in Sizes, formats \in SUBSET Formats :
    LET k == observed[g].key
        accepted == InsertAccepted(cache, k, g, size, ttl)
    IN
      /\ observed[g].phase = "invalidated"
      /\ cache' = IF accepted
                  THEN InsertEntry(cache, k, NewEntry(g, formats, at, ttl, size, g), now)
                  ELSE cache
      /\ Advance(g, IF accepted /\ formats # Formats THEN "inserted" ELSE "over")
      /\ UNCHANGED <<nextGeneration, now, registered, ruledOut>>

Warm(g) ==
  \E size \in Sizes :
    LET k == observed[g].key IN
      /\ observed[g].phase = "inserted"
      /\ cache' = IF WarmAccepted(cache, k, g, size, now)
                  THEN InsertEntry(cache, k, WarmedEntry(cache, k, g, size, now), now)
                  ELSE cache
      /\ Advance(g, "over")
      /\ UNCHANGED <<nextGeneration, now, registered, ruledOut>>

Get(k) ==
  \E requested \in SUBSET Formats, maxAge \in 0 .. CacheTtl + 1 :
    /\ cache' = AfterGet(cache, k, requested, maxAge, now)
    /\ UNCHANGED <<nextGeneration, observed, now, registered, ruledOut>>

Tick ==
  /\ now < MaxTime
  /\ now' = now + 1
  /\ UNCHANGED <<cache, nextGeneration, observed, registered, ruledOut>>

Next ==
  \/ \E k \in Keys : Draw(k) \/ Get(k)
  \/ \E g \in DOMAIN observed : Register(g) \/ Invalidate(g) \/ Insert(g) \/ Warm(g)
  \/ Tick

Spec == Init /\ [][Next]_vars

-----------------------------------------------------------------------------
(* Properties                                                                *)

Lists(queue, S) == ToSet(queue) = S /\ Len(queue) = Cardinality(S)

(* The LRU queue lists exactly the cached keys, each once: the eviction loop *)
(* can always make room, and never runs out of keys while entries remain.    *)
OrderListsEntries == Lists(cache.order, DOMAIN cache.entries)

(* The byte count, kept by additions and saturating subtractions on eight    *)
(* paths, is the size of what is cached, and both limits hold between calls. *)
SizesAccounted ==
  /\ cache.bytes = SizeOf(cache.entries, DOMAIN cache.entries)
  /\ Fits(cache)

(* Every cached document is protected by a tombstone of its key's hash: when *)
(* the tombstone is dropped the document goes with it, so a late writer can  *)
(* never meet an entry whose history was forgotten.                          *)
EntriesHaveTombstones ==
  /\ Lists(cache.observations, DOMAIN cache.latest)
  /\ Cardinality(DOMAIN cache.latest) <= MaxTombstones
  /\ \A k \in DOMAIN cache.entries : HashOf[k] \in DOMAIN cache.latest

(* Once a later observation of a key has invalidated it, or the tombstone of *)
(* an observation was dropped, no slow insert or warm job brings an earlier  *)
(* document back.                                                            *)
RuledOutStaysOut ==
  \A k \in DOMAIN cache.entries : cache.entries[k].generation \notin ruledOut

(* An entry's age never restarts: as long as a key holds the document of one *)
(* observation, observed_at and expires_at stay what the insert made them,   *)
(* whatever the warmer does.                                                 *)
AgeNeverRestarts ==
  [][\A k \in DOMAIN cache.entries \cap DOMAIN cache'.entries :
       LET old == cache.entries[k]
           new == cache'.entries[k]
       IN  new.generation = old.generation
             => new.observed = old.observed /\ new.expires = old.expires]_vars

(* Making room for a fresh document never evicts that very document, in      *)
(* whatever state the cache is: a render that may be cached is not wasted.   *)
InsertedIsCached ==
  \A k \in Keys, size \in {n \in Sizes : n <= MaxEntryBytes} :
    k \in DOMAIN InsertEntry(cache, k, NewEntry(0, {}, now, CacheTtl, size, 0), now).entries

(* What is promised to those who extract and look up documents               *)
(* (DocumentCache): only the current observation of a hash is heard, nothing *)
(* that was superseded or forgotten comes back, and no lookup, queue or      *)
(* limit takes a document that is not expired but to make room.              *)
DocumentsServed ==
  [k \in DOMAIN cache.entries |->
     [observation |-> cache.entries[k].generation, formats |-> cache.entries[k].formats,
      observed |-> cache.entries[k].observed, expires |-> cache.entries[k].expires]]
LatestObservations == {cache.latest[h] : h \in DOMAIN cache.latest}
ObservationsBegun ==
  [g \in {x \in DOMAIN observed : observed[x].phase # "drawn"} |-> observed[g].key]

Promised == INSTANCE DocumentCache WITH
  Observations <- Generations,
  Lifetime <- CacheTtl,
  documents <- DocumentsServed,
  current <- LatestObservations,
  begun <- ObservationsBegun

DocumentsSpec == Promised!Spec
=============================================================================
