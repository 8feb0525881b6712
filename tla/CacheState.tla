------------------------------ MODULE CacheState ------------------------------
(* The critical sections of ScrapeCache in scorch-engine/src/cache.rs, each   *)
(* an operator from the CacheState before to the CacheState after: what runs *)
(* under the cache's mutex, without the threads that run it (ScrapeCache has *)
(* arbitrary ones, ScrapePath those of Engine::scrape and of the warmer).    *)
EXTENDS Integers, FiniteSetsExt, SequencesExt

CONSTANTS
  Keys,            \* ScrapeCacheKey values
  Hashes,          \* values of cache_key_hash
  HashOf,          \* cache_key_hash; keys may collide
  Formats,         \* ScrapeFormat; ALL_FORMATS_MASK is the whole set
  CacheTtl,        \* CACHE_TTL, in ticks
  MaxEntries,      \* MAX_CACHE_ENTRIES
  MaxBytes,        \* MAX_CACHE_BYTES
  MaxEntryBytes,   \* MAX_CACHE_ENTRY_BYTES
  MaxTombstones    \* MAX_OBSERVATION_TOMBSTONES

ASSUME HashAssumption == HashOf \in [Keys -> Hashes]
ASSUME BoundsAssumption ==
  /\ {CacheTtl, MaxEntries, MaxBytes, MaxEntryBytes, MaxTombstones} \subseteq Nat \ {0}
  /\ MaxEntryBytes <= MaxBytes

(* CacheState: entries and latest_observations are maps, order and           *)
(* observation_order the queues that say which of them is the oldest.        *)

EmptyCache ==
  [entries |-> <<>>, order |-> <<>>, latest |-> <<>>, observations |-> <<>>, bytes |-> 0]

SaturatingSub(a, b) == IF a > b THEN a - b ELSE 0

Least(a, b) == IF a < b THEN a ELSE b

SizeOf(entries, K) == MapThenSumSet(LAMBDA k : entries[k].size, K \cap DOMAIN entries)

(* A map with the value of one key set.                                      *)
Put(map, key, value) ==
  [x \in DOMAIN map \cup {key} |-> IF x = key THEN value ELSE map[x]]

(* retain: the queue without what is in K, in its order.                     *)
Without(queue, K) ==
  LET kept == {i \in DOMAIN queue : queue[i] \notin K}
      Rank(i) == Cardinality({j \in kept : j <= i})
  IN  [n \in 1 .. Cardinality(kept) |-> queue[CHOOSE i \in kept : Rank(i) = n]]

(* touch, on the LRU queue and on the queue of observations.                 *)
Touch(queue, x) == Append(Without(queue, {x}), x)

ForgetOrder(s, K) ==
  [s EXCEPT !.entries = Restrict(@, DOMAIN @ \ K),
            !.bytes = SaturatingSub(@, SizeOf(s.entries, K))]

(* remove_entry for every key of K.                                          *)
RemoveEntries(s, K) ==
  [s EXCEPT !.entries = Restrict(@, DOMAIN @ \ K),
            !.bytes = SaturatingSub(@, SizeOf(s.entries, K)),
            !.order = Without(@, K)]

Fits(s) == Cardinality(DOMAIN s.entries) <= MaxEntries /\ s.bytes <= MaxBytes

EvictNewest(s) ==
  LET Pop(n) == RemoveEntries(s, ToSet(SubSeq(s.order, Len(s.order) - n + 1, Len(s.order))))
  IN  Pop(Min({n \in 0 .. Len(s.order) : n = Len(s.order) \/ Fits(Pop(n))}))

(* The eviction loop: pop the least recently used keys until both limits     *)
(* hold or the queue is empty.                                               *)
Evict(s) ==
  LET Pop(n) == RemoveEntries(s, ToSet(SubSeq(s.order, 1, n)))
  IN  Pop(Min({n \in 0 .. Len(s.order) : n = Len(s.order) \/ Fits(Pop(n))}))

Expired(s, now) == {k \in DOMAIN s.entries : now > s.entries[k].expires}

InsertWithoutRefund(s, k, entry, now) ==
  LET added == [s EXCEPT !.entries = Put(@, k, entry),
                         !.bytes = @ + entry.size,
                         !.order = Touch(@, k)]
  IN  Evict(RemoveEntries(added, Expired(added, now)))

(* insert_entry: replace, account, touch, sweep what has expired, evict.     *)
InsertEntry(s, k, entry, now) ==
  LET added == [s EXCEPT !.entries = Put(@, k, entry),
                         !.bytes = SaturatingSub(@, SizeOf(s.entries, {k})) + entry.size,
                         !.order = Touch(@, k)]
  IN  Evict(RemoveEntries(added, Expired(added, now)))

KeepEvictedEntries(s, k, g) ==
  LET h == HashOf[k]
      recorded == [s EXCEPT !.latest = Put(@, h, g), !.observations = Touch(@, h)]
  IN  IF Cardinality(DOMAIN recorded.latest) <= MaxTombstones THEN recorded
      ELSE [recorded EXCEPT !.latest = Restrict(@, DOMAIN @ \ {Head(recorded.observations)}),
                            !.observations = Tail(@)]

(* begin_observation's critical section: g is the latest observation of the  *)
(* key's hash.  Beyond the limit the oldest tombstone goes, with the entries *)
(* it protected.  One registration adds at most one tombstone, so the loop   *)
(* runs at most once.                                                        *)
RegisterObservation(s, k, g) ==
  LET h == HashOf[k]
      recorded == [s EXCEPT !.latest = Put(@, h, g), !.observations = Touch(@, h)]
      oldest == Head(recorded.observations)
  IN  IF Cardinality(DOMAIN recorded.latest) <= MaxTombstones THEN recorded
      ELSE RemoveEntries(
             [recorded EXCEPT !.latest = Restrict(@, DOMAIN @ \ {oldest}),
                              !.observations = Tail(@)],
             {j \in DOMAIN s.entries : HashOf[j] = oldest})

IsLatest(s, k, g) == HashOf[k] \in DOMAIN s.latest /\ s.latest[HashOf[k]] = g

InvalidateObservation(s, k, g) == IF IsLatest(s, k, g) THEN RemoveEntries(s, {k}) ELSE s

UsableWhateverAge(s, k, requested, maxAge, now) ==
  /\ maxAge > 0
  /\ k \in DOMAIN s.entries
  /\ now <= s.entries[k].expires
  /\ requested \subseteq s.entries[k].formats

(* get: a hit is touched, an expired entry is removed, and a max_age of zero *)
(* returns before the cache is looked at.                                    *)
Usable(s, k, requested, maxAge, now) ==
  /\ maxAge > 0
  /\ k \in DOMAIN s.entries
  /\ now <= s.entries[k].expires
  /\ now - s.entries[k].observed <= Least(maxAge, CacheTtl)
  /\ requested \subseteq s.entries[k].formats

GetOrRemove(s, k, requested, maxAge, now) ==
  IF Usable(s, k, requested, maxAge, now) THEN [s EXCEPT !.order = Touch(@, k)]
  ELSE IF maxAge > 0 THEN RemoveEntries(s, {k}) ELSE s

AfterGet(s, k, requested, maxAge, now) ==
  IF Usable(s, k, requested, maxAge, now) THEN [s EXCEPT !.order = Touch(@, k)]
  ELSE IF maxAge > 0 /\ k \in Expired(s, now) THEN RemoveEntries(s, {k})
  ELSE s

CanStore(size, ttl) == ttl > 0 /\ size <= MaxEntryBytes

InsertStale(s, k, g, size, ttl) == CanStore(size, ttl)

(* insert succeeds only for the latest observation of the key's hash.        *)
InsertAccepted(s, k, g, size, ttl) == CanStore(size, ttl) /\ IsLatest(s, k, g)

NewEntryUncapped(doc, formats, at, ttl, size, g) ==
  [doc |-> doc, formats |-> formats, observed |-> at,
   expires |-> at + ttl, size |-> size, generation |-> g]

NewEntry(doc, formats, at, ttl, size, g) ==
  [doc |-> doc, formats |-> formats, observed |-> at,
   expires |-> at + Least(ttl, CacheTtl), size |-> size, generation |-> g]

(* insert_warmed refreshes the formats of the very entry the warm job was    *)
(* queued for, and keeps its age.                                            *)
WarmAccepted(s, k, g, size, now) ==
  /\ size <= MaxEntryBytes
  /\ k \in DOMAIN s.entries
  /\ IsLatest(s, k, g)
  /\ s.entries[k].generation = g
  /\ now <= s.entries[k].expires

WarmedFromNow(s, k, doc, size, now) ==
  [s.entries[k] EXCEPT !.doc = doc, !.formats = Formats, !.size = size,
                       !.observed = now, !.expires = now + CacheTtl]

WarmedEntry(s, k, doc, size, now) ==
  [s.entries[k] EXCEPT !.doc = doc, !.formats = Formats, !.size = size]
=============================================================================
