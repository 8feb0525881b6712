------------------------------ MODULE ScrapePath ------------------------------
(* Engine::scrape_inner of scorch-engine/src/lib.rs, from the first cache     *)
(* lookup to the answer, with the shared renders (RenderFlights), the        *)
(* document cache (CacheState) and the background format warmer it runs on.  *)
(* Callers run concurrently; each action is what one of them does between    *)
(* two points where others can run: the critical section of a mutex, an      *)
(* atomic, or the code up to the next await.                                 *)
(*                                                                           *)
(* A page is what a render produced: the time it was observed at and the     *)
(* time it may be cached for (zero: not at all).  A document is what was     *)
(* extracted from a page: the page's time and the formats it has.            *)
EXTENDS CacheState, Freshness

CONSTANTS
  Callers,           \* calls of Engine::scrape
  FlightKeys,        \* RenderFlightKey values
  Flights,           \* identities of RenderFlightEntry
  MaxRenderFlights,  \* MAX_RENDER_FLIGHTS
  Responses,         \* what a page's site may answer, as Freshness reads it
  Requests,          \* ScrapeRequest values: keys, formats, max_age_ms, store_in_cache
  WarmCapacity,      \* CACHE_WARM_QUEUE_CAPACITY
  MaxWarmBytes,      \* MAX_CACHE_WARM_BYTES
  PageBytes,         \* input.html.len() of a page
  DocumentSize,      \* entry_size of a document
  MaxTime,           \* bound: ticks of the clock
  None

ASSUME RequestAssumption ==
  Requests \subseteq [flightKey : FlightKeys, cacheKey : Keys, formats : SUBSET Formats,
                      maxAge : Nat, stores : BOOLEAN]
ASSUME WarmAssumption == {WarmCapacity, MaxWarmBytes, PageBytes, DocumentSize} \subseteq Nat \ {0}
ASSUME ResponseAssumption == Responses \subseteq ResponseRecords

VARIABLES
  \* RenderFlights
  entries, flight, lease, stage,
  page,            \* the page in a flight's Rendered outcome
  shared,          \* RenderFlightEntry.cache: state of each cache key
  \* ScrapeCache
  cache, nextGeneration,
  \* CacheWarmer and its task
  warmQueue,       \* the channel
  warming,         \* the job the task works on
  retained,        \* retained_bytes
  \* callers
  request,         \* what each call asks for
  at,              \* how far each call is
  mine,            \* the page it extracts from, and its observation's generation
  now

flightVars == <<entries, flight, lease, stage>>
renderVars == <<flightVars, page, shared>>
cacheVars == <<cache, nextGeneration>>
warmVars == <<warmQueue, warming, retained>>
callVars == <<request, at, mine>>
vars == <<renderVars, cacheVars, warmVars, callVars, now>>

F == INSTANCE RenderFlights

(* The time of a page, the warmer's jobs and its task.                       *)
Pages == [observed : 0 .. MaxTime, ttl : 0 .. CacheTtl]
Jobs == [key : Keys, generation : Nat, page : Pages]
Tasks == [job : Jobs, extracted : BOOLEAN]

ASSUME FlightsAssumption == F!CallersAssumption /\ F!MaxAssumption /\ F!NoneAssumption
ASSUME NoneIsNothingElse == None \notin Nat \cup Tasks
ASSUME TimeAssumption == MaxTime \in Nat

NoPage == [observed |-> 0, ttl |-> 0]
Document(c) == [observed |-> mine[c].page.observed, has |-> request[c].formats]
FullDocument(p) == [observed |-> p.observed, has |-> Formats]

Nothing == [page |-> NoPage, generation |-> None]

(* What a render's page may be cached for.                                   *)
PageTtls == {ResponseCacheTtl(response, CacheTtl) : response \in Responses}

Unprepared == [k \in Keys |-> [generation |-> None, published |-> FALSE]]

Steps ==
  {"lookup", "acquire", "relookup", "retry", "spawn", "wait", "prepare", "register",
   "invalidate", "extract", "claim", "insert", "reserve", "send", "again", "return", "done",
   "soloDraw", "soloRegister", "soloRender", "soloInvalidate"}

(* Where an iteration of the loop starts.                                    *)
Start(c) == IF request[c].stores THEN "lookup" ELSE "acquire"

Init ==
  /\ F!Init
  /\ page = [f \in Flights |-> NoPage]
  /\ shared = [f \in Flights |-> Unprepared]
  /\ cache = EmptyCache
  /\ nextGeneration = 0
  /\ warmQueue = <<>>
  /\ warming = None
  /\ retained = 0
  /\ request \in [Callers -> Requests]
  /\ at = [c \in Callers |-> Start(c)]
  /\ mine = [c \in Callers |-> Nothing]
  /\ now = 0

Go(c, from, to) == at[c] = from /\ at' = [at EXCEPT ![c] = to]

(* What hangs on a flight goes when its last reference does.                 *)
DropWithFlight ==
  LET Gone(f) == flight'[f] = F!Dropped IN
    /\ page' = [f \in Flights |-> IF Gone(f) THEN NoPage ELSE page[f]]
    /\ shared' = [f \in Flights |-> IF Gone(f) THEN Unprepared ELSE shared[f]]

-----------------------------------------------------------------------------
(* Cache lookups and the flight                                              *)

Hit(c) == Usable(cache, request[c].cacheKey, request[c].formats, request[c].maxAge, now)

LookupAt(c, from, hit, miss) ==
  /\ Go(c, from, IF Hit(c) THEN hit ELSE miss)
  /\ cache' = AfterGet(cache, request[c].cacheKey, request[c].formats, request[c].maxAge, now)
  /\ UNCHANGED <<renderVars, nextGeneration, warmVars, request, mine, now>>

Lookup(c) == LookupAt(c, "lookup", "done", "acquire")

(* The leader looks again: another flight may have filled the cache since.   *)
Relookup(c) == LookupAt(c, "relookup", "retry", "spawn")

Join(c) ==
  /\ F!Join(c, request[c].flightKey)
  /\ Go(c, "acquire", "wait")
  /\ UNCHANGED <<page, shared, cacheVars, warmVars, request, mine, now>>

Lead(c) ==
  /\ F!Lead(c, request[c].flightKey)
  /\ Go(c, "acquire", IF request[c].stores THEN "relookup" ELSE "spawn")
  /\ UNCHANGED <<page, shared, cacheVars, warmVars, request, mine, now>>

(* The map of flights is full: the caller renders by itself.                 *)
Solo(c) ==
  /\ F!Full(request[c].flightKey)
  /\ Go(c, "acquire", IF request[c].stores THEN "soloDraw" ELSE "soloRender")
  /\ UNCHANGED <<renderVars, cacheVars, warmVars, request, mine, now>>

(* retry_cache, in three steps; the cached document was already taken.       *)
Retry(c) ==
  /\ at[c] = "retry"
  /\ \/ F!RetryUnlink(c) /\ UNCHANGED at
     \/ F!RetryFlag(c) /\ UNCHANGED at
     \/ F!RetrySend(c) /\ Go(c, "retry", "return")
  /\ UNCHANGED <<page, shared, cacheVars, warmVars, request, mine, now>>

Spawn(c) ==
  /\ F!Spawn(c)
  /\ Go(c, "spawn", "wait")
  /\ UNCHANGED <<page, shared, cacheVars, warmVars, request, mine, now>>

(* The producer's render ends: a page observed now, or no page.              *)
Deliver(f) ==
  /\ \E o \in F!Outcomes, ttl \in PageTtls :
       /\ F!Deliver(f, o)
       /\ page' = [page EXCEPT ![f] =
                     IF o = "Rendered" THEN [observed |-> now, ttl |-> ttl] ELSE NoPage]
  /\ UNCHANGED <<shared, cacheVars, warmVars, callVars, now>>

Complete(f) ==
  /\ F!CompleteFlag(f) \/ F!CompleteReap(f)
  /\ DropWithFlight
  /\ UNCHANGED <<cacheVars, warmVars, callVars, now>>

(* RetryCache sends the call round the loop again; an error is its answer.   *)
Observe(c) ==
  LET outcome == flight[lease[c]].outcome IN
    /\ F!Observe(c)
    /\ Go(c, "wait", CASE outcome = "Rendered" -> IF request[c].stores THEN "prepare" ELSE "extract"
                       [] outcome = "RetryCache" -> "again"
                       [] OTHER -> "return")
    /\ mine' = [mine EXCEPT ![c].page = page[lease[c]]]
    /\ UNCHANGED <<page, shared, cacheVars, warmVars, request, now>>

ReturnAlwaysUnlinks(c) ==
  /\ Go(c, "return", "done") \/ Go(c, "again", Start(c))
  /\ IF lease[c] = None THEN UNCHANGED renderVars
     ELSE F!LeaseGone(c, TRUE, ~flight[lease[c]].completed) /\ DropWithFlight
  /\ mine' = [mine EXCEPT ![c] = Nothing]
  /\ UNCHANGED <<cacheVars, warmVars, request, now>>

(* The call returns, or begins another iteration; either drops the lease.    *)
Return(c) ==
  /\ Go(c, "return", "done") \/ Go(c, "again", Start(c))
  /\ IF lease[c] = None THEN UNCHANGED renderVars
     ELSE F!Release(c) /\ DropWithFlight
  /\ mine' = [mine EXCEPT ![c] = Nothing]
  /\ UNCHANGED <<cacheVars, warmVars, request, now>>

-----------------------------------------------------------------------------
(* The observation: begun when the page is there, once per flight and key,   *)
(* or before the render by a caller that renders by itself                   *)

Prepared(c) == shared[lease[c]][request[c].cacheKey]

(* The mutex RenderFlightEntry.cache.                                        *)
CacheStateFree(c) ==
  \A d \in Callers \ {c} : lease[d] = lease[c] => at[d] \notin {"register", "invalidate"}

Draw(c, generation) ==
  /\ nextGeneration' = nextGeneration + 1
  /\ mine' = [mine EXCEPT ![c].generation = nextGeneration]

PrepareEach(c) ==
  /\ Go(c, "prepare", "register")
  /\ CacheStateFree(c)
  /\ Draw(c, nextGeneration)
  /\ UNCHANGED <<renderVars, cache, warmVars, request, now>>

(* prepare_cache_observation: the first caller begins the observation and    *)
(* invalidates what is cached while it holds the mutex; the others find its  *)
(* generation.                                                               *)
Prepare(c) ==
  /\ at[c] = "prepare"
  /\ CacheStateFree(c)
  /\ IF Prepared(c).generation = None
     THEN Go(c, "prepare", "register") /\ Draw(c, nextGeneration)
     ELSE /\ Go(c, "prepare", "extract")
          /\ mine' = [mine EXCEPT ![c].generation = Prepared(c).generation]
          /\ UNCHANGED nextGeneration
  /\ UNCHANGED <<renderVars, cache, warmVars, request, now>>

Register(c) ==
  /\ Go(c, "register", "invalidate")
  /\ cache' = RegisterObservation(cache, request[c].cacheKey, mine[c].generation)
  /\ UNCHANGED <<renderVars, nextGeneration, warmVars, request, mine, now>>

Invalidate(c) ==
  /\ Go(c, "invalidate", "extract")
  /\ cache' = InvalidateObservation(cache, request[c].cacheKey, mine[c].generation)
  /\ shared' = [shared EXCEPT ![lease[c]][request[c].cacheKey].generation = mine[c].generation]
  /\ UNCHANGED <<flightVars, page, nextGeneration, warmVars, request, mine, now>>

SoloDraw(c) ==
  /\ Go(c, "soloDraw", "soloRegister")
  /\ Draw(c, nextGeneration)
  /\ UNCHANGED <<renderVars, cache, warmVars, request, now>>

SoloRegister(c) ==
  /\ Go(c, "soloRegister", "soloRender")
  /\ cache' = RegisterObservation(cache, request[c].cacheKey, mine[c].generation)
  /\ UNCHANGED <<renderVars, nextGeneration, warmVars, request, mine, now>>

SoloRender(c) ==
  /\ \/ /\ Go(c, "soloRender", IF request[c].stores THEN "soloInvalidate" ELSE "extract")
        /\ \E ttl \in PageTtls :
             mine' = [mine EXCEPT ![c].page = [observed |-> now, ttl |-> ttl]]
     \/ Go(c, "soloRender", "return") /\ UNCHANGED mine
  /\ UNCHANGED <<renderVars, cacheVars, warmVars, request, now>>

SoloInvalidate(c) ==
  /\ Go(c, "soloInvalidate", "extract")
  /\ cache' = InvalidateObservation(cache, request[c].cacheKey, mine[c].generation)
  /\ UNCHANGED <<renderVars, nextGeneration, warmVars, request, mine, now>>

-----------------------------------------------------------------------------
(* Extraction, publication, warming                                          *)

Cacheable(c) == request[c].stores /\ mine[c].page.ttl > 0

(* Extraction yields the answer or an error; what follows is for the cache.  *)
Extract(c) ==
  /\ \/ Go(c, "extract", IF ~Cacheable(c) THEN "return"
                         ELSE IF lease[c] = None THEN "insert" ELSE "claim")
     \/ Go(c, "extract", "return")
  /\ UNCHANGED <<renderVars, cacheVars, warmVars, request, mine, now>>

ClaimAlways(c) ==
  LET claimed == CanStore(DocumentSize, mine[c].page.ttl) IN
    /\ Go(c, "claim", IF claimed THEN "insert" ELSE "return")
    /\ CacheStateFree(c)
    /\ UNCHANGED <<renderVars, cacheVars, warmVars, request, mine, now>>

(* can_store and claim_cache_publication: one caller of a flight publishes.  *)
Claim(c) ==
  LET claimed == CanStore(DocumentSize, mine[c].page.ttl) /\ ~Prepared(c).published IN
    /\ Go(c, "claim", IF claimed THEN "insert" ELSE "return")
    /\ CacheStateFree(c)
    /\ shared' = IF claimed
                 THEN [shared EXCEPT ![lease[c]][request[c].cacheKey].published = TRUE] ELSE shared
    /\ UNCHANGED <<flightVars, page, cacheVars, warmVars, request, mine, now>>

InsertAsComplete(c) ==
  LET k == request[c].cacheKey
      g == mine[c].generation
      p == mine[c].page
      accepted == InsertAccepted(cache, k, g, DocumentSize, p.ttl)
      entry == NewEntry(Document(c), Formats, p.observed, p.ttl, DocumentSize, g)
  IN
    /\ Go(c, "insert", IF accepted THEN "reserve" ELSE "return")
    /\ cache' = IF accepted THEN InsertEntry(cache, k, entry, now) ELSE cache
    /\ UNCHANGED <<renderVars, nextGeneration, warmVars, request, mine, now>>

Insert(c) ==
  LET k == request[c].cacheKey
      g == mine[c].generation
      p == mine[c].page
      accepted == InsertAccepted(cache, k, g, DocumentSize, p.ttl)
      entry == NewEntry(Document(c), request[c].formats, p.observed, p.ttl, DocumentSize, g)
  IN
    /\ Go(c, "insert", IF accepted /\ request[c].formats # Formats THEN "reserve" ELSE "return")
    /\ cache' = IF accepted THEN InsertEntry(cache, k, entry, now) ELSE cache
    /\ UNCHANGED <<renderVars, nextGeneration, warmVars, request, mine, now>>

(* CacheWarmer::try_send: reserve the bytes, then try the channel, and give  *)
(* them back if it is full.                                                  *)
Reserve(c) ==
  LET fits == retained + PageBytes <= MaxWarmBytes IN
    /\ Go(c, "reserve", IF fits THEN "send" ELSE "return")
    /\ retained' = IF fits THEN retained + PageBytes ELSE retained
    /\ UNCHANGED <<renderVars, cacheVars, warmQueue, warming, request, mine, now>>

WarmJob(c) ==
  [key |-> request[c].cacheKey, generation |-> mine[c].generation, page |-> mine[c].page]

SendOrLeak(c) ==
  /\ Go(c, "send", "return")
  /\ warmQueue' = IF Len(warmQueue) < WarmCapacity THEN Append(warmQueue, WarmJob(c)) ELSE warmQueue
  /\ UNCHANGED <<renderVars, cacheVars, warming, retained, request, mine, now>>

SendUnbounded(c) ==
  /\ Go(c, "send", "return")
  /\ warmQueue' = Append(warmQueue, WarmJob(c))
  /\ UNCHANGED <<renderVars, cacheVars, warming, retained, request, mine, now>>

Send(c) ==
  LET room == Len(warmQueue) < WarmCapacity IN
    /\ Go(c, "send", "return")
    /\ warmQueue' = IF room THEN Append(warmQueue, WarmJob(c)) ELSE warmQueue
    /\ retained' = IF room THEN retained ELSE retained - PageBytes
    /\ UNCHANGED <<renderVars, cacheVars, warming, request, mine, now>>

(* The warmer's task: receive and sleep, extract all formats, insert.        *)
WarmReceive ==
  /\ warming = None
  /\ warmQueue # <<>>
  /\ warming' = [job |-> Head(warmQueue), extracted |-> FALSE]
  /\ warmQueue' = Tail(warmQueue)
  /\ UNCHANGED <<renderVars, cacheVars, retained, callVars, now>>

WarmExtract ==
  /\ warming # None
  /\ ~warming.extracted
  /\ retained' = retained - PageBytes
  /\ warming' \in {None, [warming EXCEPT !.extracted = TRUE]}
  /\ UNCHANGED <<renderVars, cacheVars, warmQueue, callVars, now>>

WarmInsert ==
  LET k == warming.job.key
      g == warming.job.generation
      document == FullDocument(warming.job.page)
  IN
    /\ warming # None
    /\ warming.extracted
    /\ cache' = IF WarmAccepted(cache, k, g, DocumentSize, now)
                THEN InsertEntry(cache, k, WarmedEntry(cache, k, document, DocumentSize, now), now)
                ELSE cache
    /\ warming' = None
    /\ UNCHANGED <<renderVars, nextGeneration, warmQueue, retained, callVars, now>>

-----------------------------------------------------------------------------

(* The call's own timeout, or the client leaving, drops its future at an     *)
(* await.  In the extraction and in a render of its own this is their        *)
(* failing branch: the call ends and whatever lease it holds goes.           *)
GiveUp(c) ==
  /\ Go(c, "wait", "return")
  /\ UNCHANGED <<renderVars, cacheVars, warmVars, request, mine, now>>

Tick ==
  /\ now < MaxTime
  /\ now' = now + 1
  /\ UNCHANGED <<renderVars, cacheVars, warmVars, callVars>>

Work(c) ==
  \/ Lookup(c) \/ Relookup(c) \/ Join(c) \/ Lead(c) \/ Solo(c)
  \/ Retry(c) \/ Spawn(c) \/ Observe(c) \/ Return(c)
  \/ Prepare(c) \/ Register(c) \/ Invalidate(c)
  \/ SoloDraw(c) \/ SoloRegister(c) \/ SoloRender(c) \/ SoloInvalidate(c)
  \/ Extract(c) \/ Claim(c) \/ Insert(c) \/ Reserve(c) \/ Send(c)

Next ==
  \/ \E c \in Callers : Work(c) \/ GiveUp(c)
  \/ \E f \in Flights : Deliver(f) \/ Complete(f)
  \/ WarmReceive \/ WarmExtract \/ WarmInsert
  \/ Tick

Spec == Init /\ [][Next]_vars

-----------------------------------------------------------------------------
(* Properties                                                                *)

TypeOK ==
  /\ F!TypeOK
  /\ DOMAIN cache.entries \subseteq Keys
  /\ at \in [Callers -> Steps]
  /\ page \in [Flights -> Pages]
  /\ retained \in 0 .. MaxWarmBytes
  /\ Len(warmQueue) <= WarmCapacity

(* scrape_inner uses the shared renders as RenderFlights' callers do, so     *)
(* what is checked and proved there holds here.                              *)
FlightsSpec == F!Spec

(* A document served from memory is what the request asked for: it has the   *)
(* formats, not only the claim of having them, and the page it came from was *)
(* observed no longer ago than max_age and the cache's own limit allow --    *)
(* through the insert by one caller, the warming and the lookup by another.  *)
ServedIsUsable ==
  [][\A c \in Callers :
       \/ at[c] = "lookup" /\ at'[c] = "done"
       \/ at[c] = "relookup" /\ at'[c] = "retry"
       => LET document == cache.entries[request[c].cacheKey].doc IN
            /\ request[c].formats \subseteq document.has
            /\ now - document.observed <= Least(request[c].maxAge, CacheTtl)]_vars

(* What an entry says of its document is true: its age is that of the page   *)
(* and its formats are there.                                                *)
EntryIsHonest ==
  \A k \in DOMAIN cache.entries :
    LET e == cache.entries[k] IN
      e.observed = e.doc.observed /\ e.formats \subseteq e.doc.has

(* However many callers share a render, its page is published at most once   *)
(* for a cache key: no two callers of a flight are past the claim.           *)
OnePublisher ==
  \A c, d \in Callers :
    /\ c # d /\ lease[c] # None /\ lease[c] = lease[d]
    /\ request[c].cacheKey = request[d].cacheKey
    => ~(at[c] \in {"insert", "reserve", "send"} /\ at[d] \in {"insert", "reserve", "send"})

(* Callers that share a render share one observation, so that none of them   *)
(* invalidates what another one published.                                   *)
OneObservation ==
  \A c, d \in Callers :
    /\ lease[c] # None /\ lease[c] = lease[d] /\ request[c].cacheKey = request[d].cacheKey
    /\ {at[c], at[d]} \subseteq {"extract", "claim", "insert", "reserve", "send"}
    /\ request[c].stores /\ request[d].stores
    => mine[c].generation = mine[d].generation

(* The bytes the warmer accounts for are those of the pages it holds: in the *)
(* channel, in its task until extracted, and with a caller about to send.    *)
WarmBytesAccounted ==
  retained = PageBytes *
    ( Len(warmQueue) + Cardinality({c \in Callers : at[c] = "send"})
      + (IF warming # None /\ ~warming.extracted THEN 1 ELSE 0) )

-----------------------------------------------------------------------------
(* What the repository says and the code does not do                         *)

(* "Set to 0 to force a fresh scrape": a call with max_age 0 joins a render  *)
(* that is still to end, or ended at this very time.  acquire joins whatever *)
(* is registered: a flight whose page came long ago stays there as long as   *)
(* some other call still extracts from it.                                   *)
ForcedScrapeIsFresh ==
  [][\A c \in Callers :
       LET f == lease'[c] IN
         /\ request[c].maxAge = 0
         /\ lease[c] = None /\ f # None
         /\ flight[f].outcome = "Rendered"
         => page[f].observed = now]_vars

(* "older_observation_cannot_replace_newer_content": a caller that extracts  *)
(* from an older page never throws a newer page's document out of the cache. *)
(* Observations are ordered by when extraction begins, not by when the page  *)
(* was observed, so a render that waits to be extracted wins.                *)
OlderPageReplacesNothingNewer ==
  [][\A c \in Callers :
       at[c] = "invalidate" /\ at'[c] = "extract"
         => \A k \in DOMAIN cache.entries \ DOMAIN cache'.entries :
              cache.entries[k].observed <= mine[c].page.observed]_vars
=============================================================================
