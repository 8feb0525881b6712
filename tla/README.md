# Scorch in TLA+

Specifications, model-checking runs and machine-checked proofs for **Scorch**, the
web scraping, crawling and search service in `src/` (Rust, tokio). Every definition
is a translation of the code; `PROJECT.json` maps each one to its lines, lists the
hazards the properties are for, and describes the runs and the theorems.

1. [The system](#1-the-system)
2. [What is hard about it](#2-what-is-hard-about-it)
3. [The modules](#3-the-modules)
4. [The runs](#4-the-runs)
5. [Fairness](#5-fairness)
6. [The proofs](#6-the-proofs)
7. [Where the repository says otherwise](#7-where-the-repository-says-otherwise)
8. [What is not modelled](#8-what-is-not-modelled)
9. [Where to go on](#9-where-to-go-on)

## 1. The system

One process (`scorch-server`) serves an HTTP API on one `Engine`
(`scorch-engine/src/lib.rs`). Its parts:

| Part | State it keeps | Operations | Works with | Correct when |
| --- | --- | --- | --- | --- |
| **Coalesced renders** `RenderFlights` (`cache.rs`) | a map from render key to a reference-counted entry (lease count, completed flag, cancellation token, watch channel, publication state) | `acquire`, `wait`, `complete`, `retry_cache`, `release` (the drop of a lease) | callers of `scrape_inner`; a spawned producer task per render | one wanted render per key; nobody waits for a cancelled or forgotten one; no entry stays behind |
| **Document cache** `ScrapeCache` (`cache.rs`) | entries, LRU queue, byte count, tombstones (latest observation of a key hash) with their own queue, a generation counter | `get`, `begin_observation`, `invalidate_observation`, `insert`, `insert_warmed` | scrape path and warmer | no late writer brings back a document that was superseded; the bookkeeping agrees with the entries; ages do not restart |
| **Format warmer** `CacheWarmer` (`cache.rs`) | a bounded channel, a byte budget | `try_send`; the task receives, extracts, inserts | scrape path and cache | the budget is the bytes it holds |
| **Scrape path** `scrape_inner`, `extract_and_cache`, `extract_flight_document` (`lib.rs`) | per call: lease, page, generation | one call of `Engine::scrape` | all of the above, and the browser | what is served has the formats and the age the request asked for; one caller publishes |
| **Response freshness** `response_cache_ttl` (`fetch.rs`), `page_cache_ttl` (`obscura.rs`) | none | a page's lifetime from the headers of its responses | scrape path | no page is kept longer than its responses allow |
| **Render slots** `BrowserManager`, `ObscuraBackend` (`browser/`) | a semaphore, a list of idle slots, one thread and one-job channel per slot | `warm_up_once`, `render`; a thread's receive, render, reply, publish, drop of the permit | producers and callers that render by themselves | permits are conserved; a permit holder finds a slot with room; every call ends |
| **Resolver** `SecurityPolicy` (`security.rs`) | an address cache, a gate (mutex) per host | `resolve_public_ips` | fetcher, its connector, the proxy | one lookup per host at a time; gates do not pile up; what is not public is refused whoever asks |
| **Fetcher** `SafeFetcher` (`fetch.rs`) | a semaphore, the HTTP client's idle connections | `get` with its redirect loop | resolver; robots files, sitemaps, root pages | connections go to public addresses only |
| **Safe proxy** (`proxy.rs`) | none that outlives a connection | accept, validate, connect, copy | resolver, the browser | the same |
| **Site map** (`map.rs`) | none | queue of sitemaps, links of the root page | fetcher; crawls | limits hold, nothing is listed twice |
| **Crawl jobs** `JobStore` (`jobs.rs`), `crawl_page` (`lib.rs`) | jobs with status, documents, errors, counters, bytes, expiry, token; a semaphore | start, run, get (paged), cancel and delete, cleanup | scrape path, robots file, site map, HTTP API | counters agree with what was done; final states stay; pages are neither lost nor repeated; every crawl ends |
| **Metasearch** `MetaSearch` (`metasearch/src/aggregate.rs`), `SearchService` (`search.rs`) | per engine: breaker (failures, cooldown); a result cache; semaphores | search, aggregate, record success or failure | the adapters | an engine that refuses is left alone; the merged list has everything the engines found; every search returns |
| **Adapters** (`metasearch/src/engines/`) | a token (GoogleCse) | `execute` | metasearch | a refusal is told from other failures |
| **Search with scraping, extraction, types, API, server, CLI/MCP, client libraries** | none shared | pure or I/O | | |

How a scrape runs: the API handler calls `Engine::scrape`, which bounds
`scrape_inner` by the request's timeout. `scrape_inner` looks the document up;
on a miss it *acquires* a render for its render key, joining the one that is
registered or leading a new one. A leader looks the document up once more (then
it detaches its render and sends its followers back to the cache) or spawns the
producer, which asks `BrowserManager::render` for a page and completes the
render. Every caller of it extracts its own formats from the same page; the
first begins the page's *observation*, and the first to get there publishes its
document and hands the page to the warmer, which adds the other formats later.
When the map of renders is full a caller renders by itself.

How a crawl runs: `start` stores a job and spawns its task. The task waits for a
permit, fetches the robots file, makes a site map, and then goes round a loop:
begin scrapes of queued pages up to the request's concurrency, bring the total up
to date, wait for one scrape, store its document, follow its links. It is told to
stop by its token (deletion, expiry) and by its deadline, which is watched both around
the whole task and inside it. Clients read the documents by cursor meanwhile.

How a search runs: a permit, the result cache, the breakers of the engines asked
for, one task per engine that is available. Results are taken as they come until
all are in, the hard deadline has passed, or the collection window, which opens
with the first hits, is over. The rest is dropped, and what came is fused.

## 2. What is hard about it

* **Interleaving.** Any number of callers join, lead, retry, wait and leave while a
  producer completes a render in three separate steps (send, store the flag, reap).
  A gate is removed by whoever thinks itself the last while others are about to take it.
  Searches record results of one engine in any order.
* **Cancellation.** A caller can vanish at every await: a timeout or a client that
  disconnects drops its future. Its lease, its permit, its gate and its job must go where they
  belong. A deleted crawl goes on with a job that is gone.
* **Stale state.** Extraction is slow and runs in parallel; generations are drawn
  outside the lock; warm jobs arrive when the entry may be gone. A name is resolved
  once to be judged and once more to connect.
* **Limits.** Entries, bytes, tombstones, renders, permits, channel and warm budget,
  pages of a crawl, bytes of a job, addresses all have maxima at which other branches run.
* **Liveness.** Followers wait for a leader that may change its mind; queued callers
  wait for permits whose owners have left; a search waits for engines that never answer.

`PROJECT.json` lists these as hazards at their lines.

## 3. The modules

| Module | Is |
| --- | --- |
| `SharedRender` | abstract specification: what coalesced rendering promises its callers |
| `RenderFlights` | detailed specification of `RenderFlights`, leases and producer tasks |
| `RenderFlightsProofs` | its inductive invariant and safety theorems; it implements `SharedRender` |
| `CacheState` | the critical sections of `ScrapeCache` as operators from state to state |
| `ScrapeCache` | the cache under its most general client |
| `DocumentCache` | abstract specification: what the document cache promises those who extract and look up documents |
| `CacheStateProofs` | what those operators do, in any state: queues, sums of sizes, eviction |
| `ScrapeCacheProofs` | its two inductive invariants: what was ruled out stays out and ages do not restart; queues, byte count and limits agree; it implements `DocumentCache` |
| `Freshness` | how long a response may be cached, as a function |
| `ScrapePath` | composition: `scrape_inner`, renders, cache, warmer, freshness |
| `ScrapePathProofs` | it uses renders as `RenderFlights` allows; its inductive invariant and safety theorems |
| `RenderSlots` | admission to the browser and the slots' threads |
| `RenderSlotsProofs` | its inductive invariant and safety theorems |
| `Resolver` | addresses and gates of `resolve_public_ips` |
| `Fetch` | composition: fetches and proxied connections over the resolver |
| `FetchProofs` | one lookup per host at a time, in the resolver and in the composition; only public addresses are reached; gates are let go |
| `SiteMap` | the site map as a function of what its fetches return |
| `CrawlJobs` | crawls and their reader, over the site map |
| `CrawlJobsProofs` | its two inductive invariants: readers miss nothing and a final status is the last write; counters agree and the frontier loses no page; site maps keep their limits |
| `Adapters` | what each adapter makes of its site's answer |
| `Ranking` | reciprocal rank fusion, and what a merged list promises |
| `MetaSearch` | composition: searches, breakers, result cache, over adapters and ranking |
| `MetaSearchProofs` | its two inductive invariants: refusals are kept; adapters make hits, and merged lists say what all engines found |
| `MC...` | constants, requests and symmetry for TLC; `MCRepeatedFailures` also counts each engine's failures in a row |

Beside an action some modules define variants that are *not* part of `Next`
(`JoinWithoutLease`, `KeepPermit`, `ReleaseRegardless`, `FillPastLimit`, `DrainAgain`,
`FailedPlainly`, `JoinedUnscored`, ...). Each is a plausible bug of the definition
that follows it; `PROJECT.json` ("mutants") pairs it with the property that
notices when it takes the definition's place.

**Conventions.** One action is what one thread does between two points where
another may run: a critical section, one atomic operation or send outside a lock,
or the code up to the next await. The drop of a future is an action of its own
(`Release`, `LeaveQueue`, `LeaveJob`, `GiveUp`, `Quit`, `TimeOut`, `Abandon`).

**RenderFlights.** `entries` is the map, `flight[f]` the record behind the `Arc` with
identity `f` (free again when nothing refers to it), `lease[c]` and `stage[c]` the
lease of a caller and its progress. `Join`/`Lead`/`Full` are the three outcomes of
`acquire`; `RetryUnlink`, `RetryFlag`, `RetrySend` are `retry_cache`; `Spawn` starts the
producer; `Deliver`, `CompleteFlag`, `CompleteReap` are its biased select and
`complete`; `Observe` is the end of `wait`; `Release` the drop of a lease. The
producer's outcome when its token wins the select, `Failed(Timeout)` in the code,
is called `Cancelled` to tell it from an error of the render.

**SharedRender.** No counters, flags, tasks or cancellation: a caller holds a ticket
for a shared render, a newcomer gets the open one of its key, all holders get one
answer, a render closes with its last participant or when its leader detaches
it, and "cancelled" is no answer. The mapping takes `lease` for the tickets,
`entries` for the open renders, and a flight's outcome for the answer while
somebody holds a lease on it.

**CacheState, ScrapeCache.** A document is its observation's generation, its formats
and its size; a size may be larger than an entry may be. `ScrapeCache` lets any
observation be drawn, registered, invalidated, inserted and warmed as late as it likes, in
any order with others. Two history variables name the generations whose document must not
be cached any more. The eviction loop is written as the least number of
pops after which both limits hold, and `VecDeque::retain` (`Without`) as the positions it keeps,
counted; both say what the loop says, in a form one can reason about.

**DocumentCache.** No queues, tombstones, sizes, limits or comparison of generations: observations of one hash supersede
each other (`Begin`), only the current one may say that what is there is out of date (`Withdraw`), put a document
in its key's place (`Store`) or add formats to its own (`Complete`), and one that was superseded or forgotten never
becomes current again. The mapping takes the entries without their sizes for the documents, the values of the
tombstones for the current observations, and the registered observations for those begun. Drawing a
generation, a lookup that only touches the LRU queue, and an insert that is refused are invisible; a lookup that
removes what has expired is `Expire`.

**ScrapePath, Freshness.** `at[c]` is where a call is. The variables of `RenderFlights` are its own and
each action on them *is* the action of that module (`F!Join`, `F!Release`, ...); the
property `FlightsSpec` checks that the whole is a behaviour of
`RenderFlights!Spec`, so what is proved of it carries over. A page is the
time it was observed and how long it may be cached, which is what `Freshness` makes of some of
the possible responses (`PageTtls`); a document remembers
the page and the formats it really has, which is what `ServedIsUsable` compares with the
request. The mutex over an entry's publication state is a guard on the steps taken under it. A send that
finds the channel full and the subtraction that gives its bytes back are one step (`Send`): in between the account is only too high.

**RenderSlots.** The warm-up is one of the calls, the first one queued. `Enter`, `Admit`,
`PopSlot`, `SendJob` are the caller's path; `Receive`, `Reply`, `Publish`, `DropPermit`
the thread's. A caller that leaves while it waits leaves its job, with
the permit in it, where it is. The idle list is a count per slot (which idle slot
is popped is left open), so the model would show a slot listed twice.

**Resolver.** `at[c]` is how far a call of `resolve_public_ips` is; `gate[c]` the `Arc` of the
gate it holds, whose strong count is one for the map and one for each holder. `Ask` looks
in the cache, `TakeGate` is `resolve_gate`, `Lock` the lock and the second look,
`Resolved`/`LookupFails` the system's answer, `Store` and `Insert` the two accesses of
`store_addresses`, `Release` is `release_gate` and `Drop` the return, where the `Arc` goes.
A lookup that fails returns without `Release`; `Leave` is a future dropped at the lock or the lookup.
Addresses are what `ensure_public` makes of them: all public, some not, none.

**Fetch.** A request goes through `permit`, `hop` (the checks on the URL, then its host's addresses),
`send`, `connecting` and `reply`, and back to `hop` for a redirect; `request[c].reached` is where its
connection goes. Two resolutions per hop are two calls of the resolver
(`Hop` and `Send`), between which the name may change what it stands for. `pool` is the client's idle
connection to a host. A proxied connection uses the very addresses it validated (`ConnectPinned`).

**SiteMap.** `Map(site, limit, reply)` is `map` for one outcome of each fetch, `Maps` the set over all outcomes;
the sitemap queue is a recursive function over its state, one visit (`AfterVisit`) after the other until there is enough (`Enough`).

**CrawlJobs.** `jobs[j]` is what is in the map, `task[j]` the local variables of the job's task,
which go on when the job is gone (`Mutate`). `Start`, `Delete`, `Open`/`ReadPage` are a
client's calls, each of which cleans up first where the code does; `Cancel`, `Admit`, `FetchRobots`, `MapSite`, `Top`, `Fill`,
`Filled`, `Answer`, `Drain`, `End` the task's, one per critical section or await; `TimeOut` drops the
task from outside, `NoticeDeadline` is its own look at the clock, `Fail` the second half of `fail`.
A client that reads is `reading`: it starts at the first document, goes on from where it stopped, and
has everything when there is no next cursor and the status is final.

**Adapters.** Each compiled adapter is a function of an answer (`sent`, status, body, size, ...) to hits
or an error. Text is its rank or its length, a link what it leads to and how it is dressed up; the order
of the tests in the code is the order of the errors here. Wikipedia's `sort_unstable_by_key` is `ByIndex`, which keeps
equals in their order, as that sort does with the twenty items a request may ask for at most. `Links`, `Hits` and
`SiteAnswers` are the types of what goes in and comes out; the proofs use no more of an answer than its type.

**Ranking.** `Aggregate` enters hits one by one, as the code's map does, and sorts; where the code leaves
the order of equals to a hash map it is a set of lists. `RanksAll` says what the list
should be from the outputs alone, without the map: it is the reference definition.

**MetaSearch.** `breaker[e]`, `cache` and, per search, `at`, `pending`, `request`, `run`. A search's permit is a
guard (`HasPermit`); `Begin` is the look at cache and breakers together with the spawn of the tasks,
`Collect` takes one result, records it and decides whether to wait on, `Break` is the deadline winning,
`Finish` merges and stores. `deployment` is chosen at the start and never changes. `refused` is
history: the refusal an engine was set aside for. `MCRepeatedFailures` keeps another (`streak`) beside the same steps, the failures of an
engine in a row, for the one run that asks for it.

## 4. The runs

| Run | Instance | Shows |
| --- | --- | --- |
| `RenderFlights` | 3 callers, 2 keys, 3 flights, at most 2 registered; symmetric in callers and keys; 187,432 states | types; `LeasesCounted`, `RegisteredIsHeld`, `CancelledIsAbandoned`, `OneLiveRender`, `WaiterHasSource`, `OneOutcome`; `SharedSpec`, the refinement |
| `RenderFlightsLive` | 3 callers, 1 key, 3 flights, no symmetry; 140,830 states | `WaitersAnswered` under `FairSpec` |
| `ScrapeCache` | 3 keys, 2 entries, 3 bytes, entries of 1 or 2 bytes and documents of up to 3, 2 tombstones, 3 observations, 2 ticks; about 135,000 states | `OrderListsEntries`, `SizesAccounted`, `EntriesHaveTombstones`, `RuledOutStaysOut`, `InsertedIsCached`, `AgeNeverRestarts`; `DocumentsSpec`, the refinement |
| `ScrapePath` | 2 calls choosing among 5 requests, or 3 calls for one render without a clock (`Company`); 2 flights of which 1 registered, channel of 1, warm budget of 2 pages, 2 ticks; symmetric in calls; 878,251 states | `ServedIsUsable`, `EntryIsHonest`, `OnePublisher`, `OneObservation`, `WarmBytesAccounted`, `FlightsSpec` |
| `RenderSlots` | the warm-up and 4 calls, 2 slots; 84,111 states | `PermitsConserved`, `PermitFindsSlot`, `PoppedHasRoom`, `CallsEnd` |
| `Fetch` | a fetch with one redirect and 2 proxied connections, 2 hosts, an address literal, a refused URL, 2 gates, an address cache of 1, 1 tick; symmetric; 2,206,369 states | `OneLookup`, `GatesReleased`, `OnlyPublicReached` |
| `CrawlJobs` | 2 crawls, of limit 3 (two pages at a time) or 4 (one at a time) and depth 2, and of limit 1; 5 pages, one linked twice, one kept out by the robots file, one out of scope, a sitemap and its index; 1 job retained and 1 active at a time; 3 bytes, pages of 1 or 2; timeout 1, retention 2, 2 ticks; 487,430 states | `CountersAgree`, `ReaderHasAll`, `FollowsLinks`, `CrawlsEnd` |
| `MetaSearch` | 2 searches; four kinds of deployment (below); threshold 2, cooldowns 1 and 2, window 1, hard deadline 2, 4 ticks; 159,365 states | `SetAside`, `MergeFaithful`, `SearchesEnd` |
| `ForcedScrape`, `OlderPage`, `ColdStart`, `RepeatedFailures` | small | the first four disagreements of section 7: `ForcedScrapeIsFresh`, `OlderPageReplacesNothingNewer`, `ColdRenderAlone`, `RepeatedFailuresTrip` are violated |

**What the properties mean**

* `LeasesCounted`, `RegisteredIsHeld`: the counter a drop relies on is right, and no
  entry outlives its users (it would count against `MAX_RENDER_FLIGHTS` for ever).
* `CancelledIsAbandoned`: `release` decides under the lock on a flag
  `complete` stores without it. Whatever the order, nobody holds or can find a render that is
  told to stop. `OneLiveRender`: coalescing never becomes two wanted renders of one key.
* `WaiterHasSource`, `WaitersAnswered`, `OneOutcome`: who waits will be told, once,
  and everybody the same.
* `RuledOutStaysOut`: neither a slow insert nor a warm job undoes a later observation's
  invalidation, nor meets an entry whose tombstone was dropped.
* `EntriesHaveTombstones`, `OrderListsEntries`, `SizesAccounted`: the five fields of the cache agree, which is
  what eviction and the check above rely on. `InsertedIsCached`: eviction
  never drops the document it makes room for. `AgeNeverRestarts`: warming does not make
  a page younger.
* `DocumentsSpec`: only the current observation of a hash is heard, and nothing superseded or forgotten
  comes back. A document that has not expired goes only because a newer observation says so, because
  the history of its hash was forgotten, or for room; no lookup, whatever formats or age it asks for, takes it away.
* `ServedIsUsable`: over all hands a document went through, what a call gets from memory has
  the formats and the age it asked for.
* `OneObservation`, `OnePublisher`: callers that share a render do not invalidate or
  overwrite one another.
* `PermitsConserved`, `PermitFindsSlot`, `PoppedHasRoom`: permits and slots are counted apart, and given
  back at different moments (the slot first). No permit is lost or doubled,
  the code's "no idle slot" and "slot busy" branches are never taken, hence no slot is lost.
* `OneLookup`: gates come and go with the calls that hold them, and the last holder is told by a
  count that others change; still no two calls look one host up at once. `GatesReleased`: a gate nobody
  holds is left in the map in three cases only, a failed lookup, a dropped call, and two
  calls that let go together. `OnlyPublicReached`: answers are cached before they are judged,
  names change between validation and connection, connections are reused; all end at public addresses.
* `CountersAgree`: progress adds up, the limit counts what is under way, and the retained bytes are
  the documents'. `ReaderHasAll`: reading while documents are added neither skips nor repeats one, and
  what was said to be everything stays so, although a final status is written in a section of its own.
  `FollowsLinks`: every page met is done, under way or queued, once; links above the greatest depth are all taken up;
  a crawl of one page at a time is breadth-first; pages are left over only at the limit.
  `CrawlsEnd`: whatever is deleted, expires or waits, tasks end.
* `SetAside`: an engine that refused is asked by nobody who was not asking it already until its hour
  is over, unless such a search records something later. `MergeFaithful`: whatever order the engines answer in, a fused list has
  the best pages once each, with the same scores and sources and a longest snippet; which title and spelling of the link a page
  gets is for the first mention of it to say, and scores are scaled integers where the code adds floats. `SearchesEnd`: with engines that never answer, too.

**Why the bounds are enough.** Three callers are what it takes for a flight to be led, followed and left while
a second flight of the key runs; two keys meet the limit with a third party; more flights than
callers are never referred to except by producers whose callers left, which three cover. The
cache needs one key more than tombstones and entries to drop the oldest of each, and
each limit (count, bytes) is met with the other slack. In `ScrapePath` two calls are enough for the races on
one document (one leads, one joins, or each has its own render). A follower of a retry takes a third: one call publishes the
document and is gone, the next leads a new flight and finds the document, the last has joined that flight and goes round the loop again.
`Company`, the run's constraint, allows three for such calls in one moment and otherwise keeps the third from beginning.
With two slots and five calls all slots are taken, two callers queue and one has left.
In `Fetch` three calls let one take a registered gate while a second releases it and a third
comes anew; a second host fills the address cache; the fetch resolves twice per hop, hence up to four times.
In `CrawlJobs` the limit of 3 is met by documents, robots refusal and scrapes under way together, the page of
two bytes does not fit, `c` is reached by the site map and two pages, and the second crawl needs the room and the permit
of the first, which is deleted, expired or done. The crawl's own deadline (1) is shorter than retention (2), so that
a job can also expire while its task is still there. In `MetaSearch` the deployments ask different questions: *Meeting*, two searches at one engine with
two permits, for breakers and result cache; *Fusing*, one search of two engines whose hits overlap, for the merge; *Turns*,
two searches at one permit (and the whole of `RepeatedFailures`, where none may overlap); *Each*, one search of each other adapter with every kind of answer. Four
ticks are a cooldown for refusals after a search, or two searches in a row.
The theorems of section 6 need none of these bounds. `MaxGenerations` and `MaxTime` only
stop behaviours; nothing a property says depends on them, except that `MetaSearch` starts no search it has no
time left for, so that its liveness is not the clock's.

`CHECK_DEADLOCK FALSE` everywhere: calls, crawls and observations are finite in number, or
all callers may simply stay away, so the models may stop.

## 5. Fairness

* `RenderFlights!FairSpec`: weak fairness of a leader's steps (from `acquire` to `wait` it has no
  await point), of `Observe` (a woken waiter is polled again) and of a
  producer's steps (`BrowserManager::render` bounds a render by its timeout, and
  `complete` does not block). Not of `Join`, `Lead` or `Release`: nobody has to call or to give up.
* `RenderSlots!FairSpec`: weak fairness of a caller's steps from queue to channel and of
  each thread. The semaphore is fair (tokio's is FIFO), so `Admit` serves the head
  of the queue. A thread runs on, since every stage of `render_page` is bounded by
  the job's timeout. Not of `Enter` or of any way to leave.
* `CrawlJobs!FairSpec`: weak fairness of each task's `Work`. A task runs on, and its scrapes, its robots file and its
  map all have timeouts of their own, so each answers. Not of `TimeOut`, the clock or the client: crawls end without them.
* `MetaSearch!FairSpec`: weak fairness of the clock, of each search's `Work` (what does not depend on an engine)
  and of `Finish`. Not of `Collect`: no engine need ever answer. Fairness of `Finish` is stated by its effect
  on `at`, which no other action has from "merging".

## 6. The proofs

All theorems hold for every value of the constants under the named assumptions of their module; tlapm
checks every leaf.

**RenderFlights** (`CallersAssumption`: finitely many callers; `MaxAssumption`; `NoneAssumption`: `None` is
none of the values it stands beside). The properties are not inductive by themselves. `IInv` adds what links a caller's stage to its flight:
a caller holds a lease exactly when it is not out (`LeaseByStage`); a leader is the only one, its
flight has neither producer nor outcome, and is registered until the retry unlinks
it, detached afterwards (`LeaderDecides`); a render under way has no outcome and
is not completed (`RenderingIsOpen`); an answered caller's flight has an
outcome (`AnsweredIsTold`). `LeaderDecides` is what makes it impossible for a
second outcome to be sent; `RenderingIsOpen` is why the unlocked `completed` flag never
misleads `release`. One lemma per action preserves `IInv`; the effect of a lease on the
set of holders and its cardinality, and the effect of unregistering, are lemmas of their own. From
`Invariance` follow `TypeCorrect`, `Counted`, `NoneLeftBehind`, `CancelledAbandoned`, `Coalesced`,
`NobodyForgotten`, and the action property `OneOutcomeHolds`.

**Refinement** (`RenderFlightsProofs!Refinement`): under `IInv` every step is a step of `SharedRender` or leaves its
variables alone. `Deliver` is an `Answer` when somebody still holds a lease and invisible otherwise;
`RetryUnlink` is `Detach`; `Spawn`, flags and reaping are
invisible (a reap unregisters only an entry without leases, and `RegisteredIsHeld` says
there is none); `Release` is `Leave`, where `LeasesCounted` turns "remaining is
zero" into "the last participant".

**RenderSlots** (`SlotsAssumption`, `CallsAssumption`: finitely many slots and calls; `NoneAssumption`). `IInv` says where a slot is:
idle once, or popped, loaded or at work, and exactly one of them (`SlotInOnePlace`), popped
by one call (`PoppedByOne`), and whose job is where (`TakenByStage`, `AwaitedWaits`,
`BusyHasJob`). `PermitFindsSlot` then is a count: with every slot popped, loaded or
at work, those parts use up all permits, and there is none left for an admitted
call (`IdleForAdmitted`). Theorems: `Invariance`, `TypeCorrect`, `NoPermitLost`, `PermitsFindSlots`, `SendNeverFails`.

**ScrapeCache** (`HashAssumption`, `BoundsAssumption`, `SizesAssumption`). Five lemmas say what the operators of
`CacheState` do to entries and tombstones: removing and evicting only take entries away, whichever they
pick (`RemoveThins`, `EvictThins`), an insert adds at most its own entry (`InsertEffect`), an observation
replaces one tombstone and forgets another with its entries (`RegisterEffect`). `CacheInv` adds to
`RuledOutStaysOut` that every generation in the cache was drawn (`RegisteredKnown`, `TombstonesKnown`), that
what was ruled out is nobody's tombstone (`RuledOutSuperseded`), that an entry has a tombstone of its hash (`EntriesProtected`), and
that it stems from an observation of its key that was inserted (`EntriesInserted`). A late writer is let in only if
its generation is the tombstone of its hash, hence never if it was ruled out. The last part is why no second
insert of a generation can restart an entry's age. Theorems: `CacheInvariance`, `SupersededStaysOut`, `DocumentsAge`.

`BooksInv` (with `RunAssumption`: the bounds of a run are numbers) is about what the cache must know of itself. A
state is `WellKept` when its LRU queue enumerates the entries and its queue of observations the tombstones, each key
once, and the byte count is the sum of the entries' sizes. `BooksKept` is that, and both limits. Removing keys takes their
sizes off the sum exactly, so the saturating subtraction never saturates (`RemoveKeeps`); `EvictKeeps`
shows that the least number of pops exists (popping everything is enough), and that it is less than the
queue is long when its last entry alone fits, which is why the document room is made for stays. Sums over finite sets are a `CHOOSE` of
a fold in the library; that they add up (`SizeIsSum`, `SizesAdd`) is proved without an induction rule, by taking a least
counterexample (`LeastMember`, from the well-foundedness of `<`): partial sums exist for every set (`SumsExist`), whichever member is taken first (`SumsTakeAny`),
and agree (`SumsAgree`). Theorems: `EvictKeeps`, `BooksInvariance`, `CacheTypes`, `QueueListsCache`,
`BytesAreAccounted`, `TombstonesProtect`, `FreshStays`.

`CachePromisesKept` is the refinement: under `CacheInv` and `BooksInv` every step is a step of `DocumentCache` or leaves its
variables alone. `Register` is `Begin`, where `RegisterKeeps` says that its own hash's tombstone stays and
that only entries of a forgotten hash go; `Invalidate` is `Withdraw` or invisible. `Insert` is `Store`: a generation that is
its hash's tombstone is current, and one that was not inserted has no entry (`EntriesInserted`). `Warm` is
`Complete`, since the entry it replaces is that of the same generation. For both, `InsertEffect` says
that nothing expired is left, and `FreshStays`' argument that the document itself is (`PlacePromised`).

**ScrapePath** (`RequestAssumption`, `WarmAssumption`, `ResponseAssumption`, `TimeAssumption`: types; `NoneIsNothingElse`; `FlightsAssumption`:
the constants it hands to `RenderFlights` satisfy that module's assumptions). `UsesFlightsAsTheyAllow` comes first: every step takes the renders' variables through a step of
`RenderFlights` or leaves them alone (`FlightStep`, `SameFlights`), so their invariant holds here and need not be
proved again; it is the first conjunct of `ScrapeInv`. The others follow a call along its way. `CallsInOrder`: a
call holds a lease while its place says so, has a generation from the draw on, and, as long as it shares a render, has
that render's page and the generation marked on the flight for its key (`SharesRender`). Marks stay while the flight
is there and go with it (`MarksFollowFlights`), one caller at a time sets them (`OneRegisters`), and "published"
is set once (`OnePublisher`). `OnePage` ties the hands a document goes through: whoever knows a generation, a call, a
job in the channel, the warmer, a cache entry or a mark, knows one and the same page of it, since a
generation is drawn by one call (`DrawnAlone`, `Drawn`). That is why an entry the warmer renewed
is still honest, and why a served entry has the age it says. `TtlBound` says that `Freshness` never exceeds the cache's limit.
Bytes are a count: jobs in the channel, the one at work, and reservations of callers about to
send (`OneMoreSends`, `OneSendsNoMore`). Theorems: `ScrapeInvariance`, `ScrapeTypes`, `EntriesAreHonest`, `PublishedOnce`, `ObservedOnce`,
`WarmBytesNeverLeak`, and the action property `ServedFromCacheIsUsable`.

**Resolver** (`ResolverAssumption`, which whoever instantiates the module gives). `OneLookup` rests on `HeldIsRegistered`:
a gate in somebody's hands is the one its host finds, except that of a call that has removed it and is
alone with it. `ResolverInv` adds what a call holds at each step (`HeldByStage`), that a gate serves one host (`GateOfOneHost`)
and that a lock has one owner (`OneOwner`). The step that matters is `Release`: a strong count of at most two, of which the map has one
and the call itself another, leaves nobody else (`OneMember`). Lemma: `ResolverStep`, in `FetchProofs`.

**Fetch** (`FetchAssumption`, `NamesAssumption`: the constants it hands to `Resolver` satisfy that module's assumption).
Every step is one of `Resolver` or leaves its variables alone, so that `ResolverInv` is kept
by citing `ResolverStep`. `FetchInv` adds that an answer was judged before its call returned
(`AnswersChecked`), and that what a request will connect to, and what is pooled, came from such an answer
(`RequestsChecked`, `PoolChecked`). For the gates, `GatesWatched`: unless its host is one whose gate was left behind,
a registered gate is held by a call that has yet to look whether it is the last; whoever looks
and leaves the gate has seen such a call. Theorems: `FetchTypes`, `FetchesShareLookups`,
`PublicAddressesOnly`, `GatesLetGo`.

**MetaSearch** (`MetaSearchAssumption`). `BreakerInv` says that while a refusal stands undisturbed the breaker has its
cooldown and only searches that were there ask its engine (`RefusalStands`), and that a search is asked for
engines there are (`RequestsPermitted`). The cooldown is what `SetAside` does not say and a new search looks at. Nothing is used of what adapters make of answers, nor of
how lists are merged. Theorems: `MetaSearchTypes`, `RefusalsAreKept`.

`MergeFaithful` needs three things. *Adapters make hits* (`ExecuteType`): whatever a site answers, every adapter comes to a sequence of
proper hits; from the types of the answers alone (the last parts of `MetaSearchAssumption`). *Searches collect
them* (`SearchesTyped`, inductive beside `TypeOK`): the outputs of a search are hits of its engines. *Merging ranks all*
(`AggregateRanksAll`): of whatever outputs, `Aggregate` makes only lists that `RanksAll` allows. The map is a
fold within a fold, over hits and outputs, and there is no induction rule to use on it; instead each fold is shown to go one
step after the other (`HitByHit`, `OutputByOutput`), from a smallest set for which it would not
(`SmallestSet`, `FoldExists`), and what holds along the way by a least counterexample (`LeastMember`). After any number of
hits the map is the one `RanksAll` describes for those hits: `MergeOne` takes one more
hit of one page, `FirstMention` and `OneMoreMention` say what that does to its entry, and `ScoresAddUp` that the score is
the sum over the places where the page is mentioned. `MergeOutput` and `RankedMerges` put
outputs together; sorting permutes what is there (`OrdersAll`) and the limit takes a prefix (`TakeIsPrefix`).
Theorems: `AggregateRanksAll`, `ExecuteType`, `SearchesAreTyped`, `MergesAreFaithful`.

**CrawlJobs** (`CrawlAssumption`, `SiteMapAssumption`). `ReaderInv` has the shapes of jobs, tasks and reader, and: nothing of a job is there before it starts
(`NotStarted`), a final status means that its task is over (`FinalIsOver`), and nobody has read more than there is (`ReadWithin`). What was read begins the
list of documents (`ReaderHasAll`), and still does when the list has grown (`BeginsLonger`) or the reader goes on where it
stopped (`BeginsFurther`). `FinalIsOver` is why "no next cursor and a final status" stays true. Theorems: `ReaderInvariance`,
`ReadersMissNothing`, `FinalStatusIsLast`.

`CrawlInv` is what a job and its task say together. `Counted` has the counters in all places, also where the property is silent: how far `completed` may be
with scrapes under way, against the limit and against the total; that nothing is completed before the loop; and that
a job with a final status has no task left, so that nothing is counted after its total was settled. `Frontier` is
`FollowsLinks` made inductive: each page met has its one place (`Placed`) as sets and as numbers, no page is queued twice or
queued and under way (`QueuedOnce`), the links of stored documents are taken up (`Taken`), why no more was
begun when the task waits (`Filling`), and, one page at a time, the queue has two depths at most, the page's own and the next (`ByDepth`).
The two ways to grow it, map and links, are one lemma (`DiscoverGrows`): new pages were
unseen, are distinct, and come last (`UnseenEffect`, `GrownPlaced`, `GrownByDepth`). `Unseen` keeps each new page where it is
first, as `seen.insert` does, hence a page linked twice is queued once. A task whose job is gone goes on
with counters that read zero; `Sane` is all that holds of it, and enough (`JobGoesOn`). That retained bytes are the
documents' is `SumAppend`, from partial sums and a least counterexample as for the cache. Theorems:
`CrawlInvariance`, `ProgressAddsUp`, `EveryPageHasItsPlace`.

What a crawl starts from is the site map's: `MapsKeepTheirLimits` says of any site, whatever the fetches return, that a map lists
pages in scope, each once, and no more than asked for (`Listed`). `SitemapLinks` is a recursive function, of which
nothing is known before it is shown to exist. Since a visit only hands on what the next one comes to, it does: take
the least relation in which every end explains its result (`WalkExists`). That it ends, and hence what it comes to,
is a least counterexample, first in the sitemaps that may still be visited, then in the length of the queue
(`AfterVisitEffect`, `SitemapLinksListed`). `SelectedEffect` and `FirstPlacesEffect` serve maps and crawls alike.

**Only model-checked.**

* Liveness (`WaitersAnswered`, `CallsEnd`, `CrawlsEnd`, `SearchesEnd`): temporal reasoning from fairness is
  out of the prover's reach.

## 7. Where the repository says otherwise

* **A forced scrape can get an older page** (`ForcedScrape`). `acquire` joins whatever is registered for the key, and
  an entry stays registered while any caller still extracts from its page. A
  request with `maxAgeMs: 0` that arrives then is answered from a page
  rendered before it arrived; `docs/src/pages/api.astro:113` says it forces a fresh scrape.
* **An older page can displace a newer one** (`OlderPage`). Observations are ordered by when the first caller starts
  to extract, not by when the page was observed. Two renders of one document
  (different timeouts, hence different render keys) that overlap can
  finish extraction in the other order; the one observed first then invalidates the newer
  document. The test `older_observation_cannot_replace_newer_content` (`cache.rs:814`) draws generations
  in page order.
* **The first render need not be alone** (`ColdStart`). The comment at `browser/mod.rs:62-66` says the warm-up completes initialisation
  while nothing else runs, because two cold renders crash the process. The warm-up
  stops waiting after thirty seconds and its failure is ignored, but the job
  goes on in its slot, and the manager starts to serve.

* **Sequential failures never open a breaker** (`RepeatedFailures`). `available` (`aggregate.rs:357`) resets the failures of
  every engine that is not cooling down, and every search calls it before it asks: a threshold above one is
  reached by failures of overlapping searches only. `docs/src/pages/architecture.astro:317-318` speaks of "temporary circuit breakers after
  repeated failures", `CHANGELOG.md:32` of "the two-failure threshold" of failures that are no refusals. In the run an engine times out in two
  searches at one permit and is not set aside. With a reset of ended cooldowns alone `RepeatedFailuresTrip` would hold, as TLC finds
  for that variant of `Reset` in this instance and in that of `MetaSearch`.

The following are consequences of the code as the modules have it. No run is made to fail for them; the
modules and the properties named show them.

* **A rate limit is not always told from a failure** (`Adapters`). Some adapters report 429 as a plain
  failure, although `aggregate.rs:33-41` and the changelog say that a rate-limited engine is set aside for an hour; Bing takes a challenge page for an
  empty result; Yahoo and Brave's page take results that quote the words of a challenge for a refusal.
* **A refusal can be cut short** (`MetaSearch!Failed`, `Recorded`). A search that asked the engine before the refusal was recorded and answers later
  replaces the hour by nothing or by the shorter cooldown. `SetAside` therefore promises the hour only while no such answer comes.
* **A parallel crawl may miss pages within its depth** (`CrawlJobs!Discover`). A page that is met first on a longer way has the greater
  depth for good, and its links may then count as too deep. With one scrape at a time the order is breadth-first, as
  `architecture.astro:331` says; `FollowsLinks` promises that order for such crawls only.
* **Progress and cursors.** While a batch is filled, `completed` may exceed `total` for a moment. A page of results has no next cursor when it ends with the last document so far, though
  the crawl goes on; a client that stops there (`api.astro:247`: follow `nextCursor` until it is absent) has not got everything. `ReaderHasAll` therefore asks for the final
  status, too. A cancelled status is never seen, since the job is removed first.
* **Gates stay behind** after failed lookups, dropped calls and two calls that let go together (`security.rs:62-64` speaks of the last reference); `GatesReleased` says these are all.
* **A running crawl expires** when it takes longer than its time to live, which counts from its start.

## 8. What is not modelled

* Rendering a page, and cookies or connections a slot keeps: V8, the DOM and the network.
* A slot whose thread cannot build its runtime; poisoned mutexes; panics.
* Each call's own deadline in `ScrapePath`: the end of a wait is a choice there, so all
  orders are covered, but not *when* a follower times out. `page_cache_ttl`'s subtraction of the time a navigation took.
* `project_document`, extraction and HTML: a document is the formats it has.
* Search with scraping (`search_inner`): it scrapes hits in parallel and adds up sizes in one task, and
  asks nothing of the parts it calls that their modules leave open.
* The semaphore of an engine, which has as many permits as the service admits searches, so that nobody
  waits for it. Categories and the form of a response.
* When GoogleCse's token expires: whether it has one is a choice.
* Adapters no module declares (`jisho`, `naver`, `pdbe`, `public_json`, `simple_json`, `stack_overflow`): dead code.
* Request validation (`validate_scrape_request`) and the address policy (`is_public_ip`): tables over literals, which a model would repeat.
* The proxy's header parsing and byte forwarding; HTTP API, server, CLI, MCP, types, client libraries and documentation: I/O
  and translation without shared state. A client that disconnects appears as a dropped future.

## 9. Where to go on

Built in this order: `SharedRender`, `RenderFlights` with proofs and refinement, `CacheState`, `ScrapeCache`, `ScrapePath`, `RenderSlots` with proofs;
then `Resolver`, `Fetch`, `Freshness`, `SiteMap`, `CrawlJobs`, `Adapters`, `Ranking`, `MetaSearch`, and the proofs about them,
about `ScrapeCache`, about `ScrapePath` and the counters of crawls, and last `DocumentCache` and the merging of results.
Every invariant and every action property of the runs is proved, and all three refinements. What would add most:

1. **Failing slots**: threads that end, and what the manager does with fewer slots than permits.
2. **When a follower times out** in `ScrapePath`: a leader's shorter timeout ends the render for followers that would have waited longer.
