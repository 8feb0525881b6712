----------------------------- MODULE MetaSearch -----------------------------
(* Metasearch: MetaSearch and its circuit breakers, metasearch/src/           *)
(* aggregate.rs, under the concurrent calls that SearchService, scorch-       *)
(* engine/src/search.rs, admits.                                              *)
(*                                                                            *)
(* A search asks its engines at once and takes their results one by one.  Its *)
(* engines' permits need no state: SearchService::new gives every engine as   *)
(* many as it gives searches.                                                 *)
EXTENDS Ranking

CONSTANTS
  Searches,            \* callers of SearchService::search
  Deployments,         \* configurations: [engines, concurrency, requests]
  Replies,             \* what the site of each engine may answer
  CollectionWindow, OverallTimeout, CacheTtl, MaxCacheEntries,
  FailureThreshold, EngineCooldown, RateLimitCooldown,   \* MetaSearchConfig
  RequestTimeout,      \* EngineConfig.request_timeout
  MaxQuery,            \* the 512 bytes of a query
  MaxLimit,            \* the 20 results of a request
  MaxTime,             \* bound: ticks of the clock
  None

ASSUME MetaSearchAssumption ==
  /\ {CollectionWindow, OverallTimeout, CacheTtl, MaxCacheEntries, FailureThreshold, EngineCooldown,
      RateLimitCooldown, RequestTimeout, MaxLimit, MaxTime} \subseteq Nat
  /\ None \notin EngineKind
  /\ \A kind \in EngineKind : Replies[kind] \subseteq SiteAnswers
  /\ \A deployment \in Deployments : deployment.engines \subseteq EngineKind

VARIABLES
  deployment,   \* what the service was started with
  breaker,      \* EngineSlot.state: [failures, until]; until is 0 for no cooldown
  cache,        \* MetaSearch.cache: at a CacheKey, [stored, hits]
  at,           \* how far a search is: idle, queued, asking or merging
  pending,      \* the engines whose tasks a search still has
  request,      \* what a search was asked for
  run,          \* what it has: [since, outputs, failures, window]
  refused,      \* history: the refusal an engine was last set aside for
  now

vars == <<deployment, breaker, cache, at, pending, request, run, refused, now>>

Engines == deployment.engines
Requests == UNION {deployment.requests[s] : s \in Searches}

Blank == [since |-> 0, outputs |-> <<>>, failures |-> {}, window |-> None]

TypeOK ==
  /\ deployment \in Deployments
  /\ breaker \in [Engines -> [failures : Nat, until : Nat]]
  /\ at \in [Searches -> {"idle", "queued", "asking", "merging"}]
  /\ pending \in [Searches -> SUBSET Engines]
  /\ request \in [Searches -> Requests \cup {None}]
  /\ \A s \in Searches : at[s] # "asking" => pending[s] = {}
  /\ refused \in [Engines -> [until : Nat, witnesses : SUBSET Searches] \cup {None}]
  /\ now \in 0..MaxTime

-----------------------------------------------------------------------------
(* The circuit breaker: EngineSlot.                                           *)

Closed == [failures |-> 0, until |-> 0]

(* available: it also forgets the failures of an engine that is not set aside. *)
Available(engine) == breaker[engine].until <= now

(* A variant that takes a refusal for any other failure.                      *)
FailedPlainly(engine, error) ==
  LET failures == breaker[engine].failures + 1
  IN  [failures |-> failures,
       until |-> IF failures >= Max({FailureThreshold, 1}) THEN now + EngineCooldown
                 ELSE breaker[engine].until]

(* record_failure.                                                            *)
Failed(engine, error) ==
  LET failures == breaker[engine].failures + 1
  IN  [failures |-> failures,
       until |-> IF error = "RateLimited" THEN now + RateLimitCooldown
                 ELSE IF failures >= Max({FailureThreshold, 1}) THEN now + EngineCooldown
                 ELSE breaker[engine].until]

(* Who asks an engine.                                                        *)
Asking(engine) == {s \in Searches : engine \in pending[s]}

-----------------------------------------------------------------------------
(* Requests.                                                                  *)

(* validate, of the service and of the metasearch.                            *)
Valid(asked) ==
  /\ asked.size \in 1..MaxQuery
  /\ asked.limit \in 1..MaxLimit
  /\ asked.locale # "malformed"

(* selected_engines: DuckDuckGo by default; nothing the policy does not have. *)
Selected(asked) == IF asked.engines = {} THEN {"duckduckgo"} \cap Engines ELSE asked.engines
Permitted(asked) == Selected(asked) # {} /\ Selected(asked) \subseteq Engines

(* CacheKey: spelling, case and spaces aside.                                 *)
CacheKey(asked) ==
  [query |-> asked.words, limit |-> asked.limit, locale |-> asked.locale,
   engines |-> Selected(asked)]

FreshEntries == {key \in DOMAIN cache : now < cache[key].stored + CacheTtl}
Cached(asked) == CacheKey(asked) \in FreshEntries

(* store: what has expired goes, and the oldest entry when there is no room.  *)
Oldest(keys) == {key \in keys : \A other \in keys : cache[key].stored <= cache[other].stored}
Kept(key) ==
  IF Cardinality(FreshEntries) < Max({MaxCacheEntries, 1}) THEN {FreshEntries}
  ELSE {FreshEntries \ {oldest} : oldest \in Oldest(FreshEntries)}
Store(key, hits) ==
  \E kept \in Kept(key) :
    cache' = [k \in kept \cup {key} |-> IF k = key THEN [stored |-> now, hits |-> hits] ELSE cache[k]]

-----------------------------------------------------------------------------
(* A search.                                                                  *)

Init ==
  /\ deployment \in Deployments
  /\ breaker = [engine \in Engines |-> Closed]
  /\ cache = <<>>
  /\ at = [s \in Searches |-> "idle"]
  /\ pending = [s \in Searches |-> {}]
  /\ request = [s \in Searches |-> None]
  /\ run = [s \in Searches |-> Blank]
  /\ refused = [engine \in Engines |-> None]
  /\ now = 0

(* The end of a search, whatever it returned.                                 *)
Leave(s) ==
  /\ at' = [at EXCEPT ![s] = "idle"]
  /\ pending' = [pending EXCEPT ![s] = {}]
  /\ request' = [request EXCEPT ![s] = None]
  /\ run' = [run EXCEPT ![s] = Blank]

(* A refusal's witnesses are the searches that were asking when it came.      *)
Witnessed(s, engines) ==
  [engine \in Engines |->
     IF engine \in engines /\ refused[engine] # None
     THEN [refused[engine] EXCEPT !.witnesses = @ \ {s}] ELSE refused[engine]]

(* SearchService::search, up to the permit; a bad request changes nothing.    *)
(* Bound: time for the search is left on the clock.                           *)
Submit(s) ==
  /\ at[s] = "idle"
  /\ now + RequestTimeout + OverallTimeout <= MaxTime
  /\ \E asked \in deployment.requests[s] :
       /\ Valid(asked) /\ Permitted(asked)
       /\ request' = [request EXCEPT ![s] = asked]
  /\ run' = [run EXCEPT ![s] = [Blank EXCEPT !.since = now]]
  /\ at' = [at EXCEPT ![s] = "queued"]
  /\ UNCHANGED <<deployment, breaker, cache, pending, refused, now>>

GiveUp(s) ==
  /\ at[s] = "queued" /\ now >= run[s].since + RequestTimeout
  /\ Leave(s)
  /\ UNCHANGED <<deployment, breaker, cache, refused, now>>

HasPermit(s) ==
  /\ at[s] = "queued"
  /\ Cardinality({t \in Searches : at[t] \in {"asking", "merging"}}) < deployment.concurrency

(* search_selected finds its answer in the cache.                             *)
AnswerCached(s) ==
  /\ HasPermit(s) /\ Cached(request[s])
  /\ Leave(s)
  /\ UNCHANGED <<deployment, breaker, cache, refused, now>>

(* ... or no engine to ask.                                                   *)
Unavailable(s) ==
  /\ HasPermit(s) /\ ~Cached(request[s])
  /\ \A engine \in Selected(request[s]) : ~Available(engine)
  /\ Leave(s)
  /\ UNCHANGED <<deployment, breaker, cache, refused, now>>

(* ... or asks those that are not set aside, whose failures are forgotten.    *)
AvailableOf(asked) == {engine \in Selected(asked) : Available(engine)}
Reset(engines) == [engine \in Engines |-> IF engine \in engines THEN Closed ELSE breaker[engine]]
Begin(s) ==
  /\ HasPermit(s) /\ ~Cached(request[s])
  /\ now + OverallTimeout <= MaxTime
  /\ LET engines == AvailableOf(request[s])
     IN  /\ engines # {}
         /\ breaker' = Reset(engines)
         /\ pending' = [pending EXCEPT ![s] = engines]
  /\ run' = [run EXCEPT ![s].since = now]
  /\ at' = [at EXCEPT ![s] = "asking"]
  /\ UNCHANGED <<deployment, cache, request, refused, now>>

(* A variant without a hard deadline: it waits for hits as long as it takes.  *)
WindowDeadline(search) == IF search.window = None THEN MaxTime + 1 ELSE search.window

(* The deadline of the next wait.                                             *)
Deadline(search) ==
  LET hard == search.since + OverallTimeout
  IN  IF search.window = None THEN hard ELSE Min({hard, search.window})

(* The result an engine's task ends with is recorded at its breaker, and the  *)
(* search waits for the next if it has time.                                  *)
Recorded(engine, result) ==
  IF result.error = "none" THEN Closed ELSE Failed(engine, result.error)
Taken(search, engine, result) ==
  IF result.error # "none" THEN [search EXCEPT !.failures = @ \cup {engine}]
  ELSE [search EXCEPT
          !.outputs = Append(@, [engine |-> engine, hits |-> result.hits]),
          !.window = IF result.hits # <<>> /\ @ = None THEN now + CollectionWindow ELSE @]
Collect(s) ==
  /\ at[s] = "asking"
  /\ \E engine \in pending[s] : \E reply \in Replies[engine] :
       LET result == Execute(engine, reply, request[s].limit)
           search == Taken(run[s], engine, result)
           left == pending[s] \ {engine}
           waits == left # {} /\ now < Deadline(search)
       IN  /\ breaker' = [breaker EXCEPT ![engine] = Recorded(engine, result)]
           /\ run' = [run EXCEPT ![s] = search]
           /\ pending' = [pending EXCEPT ![s] = IF waits THEN left ELSE {}]
           /\ at' = [at EXCEPT ![s] = IF waits THEN "asking" ELSE "merging"]
           /\ refused' = [Witnessed(s, pending[s] \ pending'[s]) EXCEPT ![engine] =
                            IF result.error = "RateLimited"
                            THEN [until |-> now + RateLimitCooldown, witnesses |-> Asking(engine) \ {s}]
                            ELSE None]
  /\ UNCHANGED <<deployment, cache, request, now>>

(* The deadline comes first: the tasks that remain are dropped.               *)
Expired(s) == now >= Deadline(run[s])
Break(s) ==
  /\ at[s] = "asking" /\ Expired(s)
  /\ at' = [at EXCEPT ![s] = "merging"]
  /\ pending' = [pending EXCEPT ![s] = {}]
  /\ refused' = Witnessed(s, pending[s])
  /\ UNCHANGED <<deployment, breaker, cache, request, run, now>>

(* All engines failed, or there is an answer, which is also cached.           *)
Finish(s) ==
  /\ at[s] = "merging"
  /\ IF run[s].outputs = <<>> THEN cache' = cache
     ELSE \E hits \in Aggregate(run[s].outputs, request[s].limit) :
            Store(CacheKey(request[s]), hits)
  /\ Leave(s)
  /\ UNCHANGED <<deployment, breaker, refused, now>>

(* The caller goes away, and the search is dropped where it waits.            *)
Abandon(s) ==
  /\ at[s] \in {"queued", "asking"}
  /\ refused' = Witnessed(s, pending[s])
  /\ Leave(s)
  /\ UNCHANGED <<deployment, breaker, cache, now>>

Tick ==
  /\ now < MaxTime
  /\ now' = now + 1
  /\ refused' = [engine \in Engines |->
                   IF refused[engine] # None /\ refused[engine].until <= now' THEN None ELSE refused[engine]]
  /\ UNCHANGED <<deployment, breaker, cache, at, pending, request, run>>

Work(s) == GiveUp(s) \/ AnswerCached(s) \/ Unavailable(s) \/ Begin(s) \/ Break(s)
Next ==
  \/ \E s \in Searches : Submit(s) \/ Work(s) \/ Collect(s) \/ Finish(s) \/ Abandon(s)
  \/ Tick

Spec == Init /\ [][Next]_vars

(* The runtime polls what is ready and the clock goes on; no engine need ever *)
(* answer.  Fairness of Finish is said of its step on at, which is no other   *)
(* action's.                                                                  *)
Finishes(s) == at[s] = "merging" /\ at' = [at EXCEPT ![s] = "idle"]
FairSpec ==
  /\ Spec
  /\ WF_vars(Tick)
  /\ \A s \in Searches : WF_vars(Work(s)) /\ WF_at(Finishes(s))

-----------------------------------------------------------------------------
(* Properties.                                                                *)

(* An engine that refused is asked by nobody else until the cooldown for      *)
(* refusals is over: only searches that were asking it already may still      *)
(* wait, or have recorded something since (record_failure 369-381, available  *)
(* 346-359).                                                                  *)
SetAside ==
  \A engine \in Engines :
    refused[engine] # None /\ now < refused[engine].until
      => Asking(engine) \subseteq refused[engine].witnesses

(* Whatever order the results came in, the merged list has the best pages of  *)
(* all outputs, once each, with all their sources, their whole score and the  *)
(* longest snippet (aggregate 426-481, normalized_url 483-503).               *)
MergeFaithful ==
  \A s \in Searches : at[s] = "merging" =>
    \A list \in Aggregate(run[s].outputs, request[s].limit) :
      RanksAll(list, run[s].outputs, request[s].limit)

(* Every search returns, though an engine may never answer (search_selected   *)
(* 222-238, SearchService::search 49-52).                                     *)
SearchesEnd == \A s \in Searches : at[s] # "idle" ~> at[s] = "idle"
=============================================================================
