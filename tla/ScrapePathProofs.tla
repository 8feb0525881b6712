--------------------------- MODULE ScrapePathProofs ---------------------------
(* The scrape path, from the first lookup to the warmer's insert: what is     *)
(* cached is what was observed and extracted, and callers that share a render *)
(* share its observation and publish it once, proved for any number of calls, *)
(* any requests and responses, and any limits.                                *)
EXTENDS ScrapePath, CacheStateProofs

FP == INSTANCE RenderFlightsProofs

-----------------------------------------------------------------------------
(* How long a page may be cached.                                             *)

(* What Cache-Control says of a response's age, if it says anything.          *)
LEMMA MaxAgeType ==
  ASSUME NEW response \in ResponseRecords
  PROVE  MaxAge(response.control) \in Nat \cup {NoNumber}
<1> DEFINE directives == response.control
           Named(name) == {i \in DOMAIN directives : directives[i].name = name}
           ages == IF Named("s-maxage") # {} THEN Named("s-maxage") ELSE Named("max-age")
<1>1. /\ DOMAIN directives \subseteq Nat
      /\ \A i \in DOMAIN directives : directives[i].argument \in Nat \cup {NoNumber}
  <2> DEFINE D == [name : STRING, argument : Nat \cup {NoNumber}]
  <2>1. directives \in Seq(D)
    BY DEF ResponseRecords
  <2> HIDE DEF directives, D
  <2>2. DOMAIN directives = 1 .. Len(directives) /\ \A i \in DOMAIN directives : directives[i] \in D
    BY <2>1
  <2> QED
    BY <2>2 DEF D
<1>2. ages \in SUBSET Nat /\ ages \subseteq DOMAIN directives
  BY <1>1
<1>3. MaxAge(directives) = IF ages = {} THEN NoNumber ELSE directives[Min(ages)].argument
  BY DEF MaxAge
<1> HIDE DEF ages
<1>4. ages # {} => Min(ages) \in ages
  BY <1>2, LeastMember
<1> QED
  BY <1>1, <1>2, <1>3, <1>4

(* No page may be cached for longer than the cache keeps anything.            *)
LEMMA TtlBound ==
  ASSUME NEW response \in ResponseRecords, NEW limit \in Nat
  PROVE  ResponseCacheTtl(response, limit) \in 0 .. limit
<1>1. response.age \in Int /\ response.expires \in Int /\ MaxAge(response.control) \in Int
  BY MaxAgeType DEF ResponseRecords, NoNumber, NoHeader
<1>2. \A seconds, age \in Int : Left(seconds, age) \in Int /\ (seconds >= 0 => Left(seconds, age) >= 0)
  BY DEF Left
<1>3. \A seconds \in Int : seconds \in Nat \cup {NoNumber} => Left(seconds, 0) >= 0
  BY DEF Left, NoNumber
<1>4. response.expires # NoHeader => response.expires \in Nat \cup {NoNumber}
  BY DEF ResponseRecords
<1>5. MaxAge(response.control) # NoNumber => MaxAge(response.control) >= 0
  BY MaxAgeType DEF NoNumber
<1>6. Lifetime(response, limit) \in Int /\ Lifetime(response, limit) >= 0
  BY <1>1, <1>2, <1>3, <1>4, <1>5 DEF Lifetime
<1> QED
  BY <1>6 DEF ResponseCacheTtl

-----------------------------------------------------------------------------
(* The inductive invariant.                                                   *)

Publications == [generation : Nat \cup {None}, published : BOOLEAN]

IsEntry(e) == DOMAIN e = {"doc", "formats", "observed", "expires", "size", "generation"}

Typed ==
  /\ request \in [Callers -> Requests]
  /\ at \in [Callers -> Steps]
  /\ mine \in [Callers -> [page : Pages, generation : Nat \cup {None}]]
  /\ page \in [Flights -> Pages]
  /\ shared \in [Flights -> [Keys -> Publications]]
  /\ IsCache(cache) /\ DOMAIN cache.entries \subseteq Keys
  /\ \A k \in DOMAIN cache.entries : IsEntry(cache.entries[k])
  /\ warmQueue \in Seq(Jobs) /\ warming \in Tasks \cup {None}
  /\ nextGeneration \in Nat /\ now \in 0 .. MaxTime

(* Where a call has a lease, where it has none, and where it has none yet of  *)
(* the generation that its observation will have.                             *)
Leased == {"relookup", "retry", "spawn", "wait", "prepare", "register", "invalidate", "claim", "again"}
Unleased ==
  {"lookup", "acquire", "done", "soloDraw", "soloRegister", "soloRender", "soloInvalidate"}
Early == {"lookup", "acquire", "relookup", "retry", "spawn", "wait", "prepare", "soloDraw"}
Registering == {"register", "invalidate"}
Publishing == {"insert", "reserve", "send"}
Extracting == {"extract", "claim"} \cup Publishing

InItsPlace(c) ==
  /\ at[c] \in Leased => lease[c] # None
  /\ at[c] \in Unleased => lease[c] = None

(* A call has no generation before its observation begins, and has one while  *)
(* it works for the cache.                                                    *)
Numbered(c) ==
  /\ at[c] \in Early => mine[c].generation = None
  /\ \/ at[c] \in Registering \cup Publishing \cup {"claim", "soloRegister", "soloInvalidate"}
     \/ at[c] \in {"soloRender", "extract"} /\ request[c].stores
     => mine[c].generation \in Nat

(* A call that shares a render has the render's page, and the observation of  *)
(* its cache key, which nobody else has begun while it does.                  *)
SharesRender(c) ==
  lease[c] # None =>
    LET mark == shared[lease[c]][request[c].cacheKey] IN
      /\ at[c] \in {"prepare"} \cup Registering \cup Extracting =>
           flight[lease[c]].outcome = "Rendered" /\ mine[c].page = page[lease[c]]
      /\ at[c] \in Registering => mark.generation = None
      /\ at[c] \in Extracting /\ request[c].stores => mark.generation = mine[c].generation
      /\ at[c] \in Publishing => mark.published

CallInOrder(c) == InItsPlace(c) /\ Numbered(c) /\ SharesRender(c)
CallsInOrder == \A c \in Callers : CallInOrder(c)

(* The mutex of a flight's cache state has one owner.                         *)
OneRegisters ==
  \A c, d \in Callers :
    /\ c # d /\ lease[c] # None /\ lease[c] = lease[d]
    => ~(at[c] \in Registering /\ at[d] \in Registering)

(* What hangs on a flight is as new when the flight is, and an observation    *)
(* was begun of a page that came.                                             *)
MarksFollowFlights ==
  \A f \in Flights :
    /\ flight[f] = FP!Dropped => shared[f] = Unprepared
    /\ \A k \in Keys : shared[f][k].generation # None => flight[f].outcome = "Rendered"

(* Who knows a generation knows of which time its page is.                    *)
HasPage == Registering \cup Extracting \cup {"soloInvalidate"}
Held == ToSet(warmQueue) \cup (IF warming = None THEN {} ELSE {warming.job})

Carries(g, time) ==
  \/ \E c \in Callers : at[c] \in HasPage /\ mine[c].generation = g /\ mine[c].page.observed = time
  \/ \E w \in Held : w.generation = g /\ w.page.observed = time
  \/ \E k \in DOMAIN cache.entries :
       cache.entries[k].generation = g /\ cache.entries[k].observed = time
  \/ \E f \in Flights, k \in Keys : shared[f][k].generation = g /\ page[f].observed = time

OnePage ==
  \A g \in Nat, s, t \in 0 .. MaxTime : Carries(g, s) /\ Carries(g, t) => s = t

(* A generation that was drawn before its page is there is nobody else's.     *)
Pending == {"soloRegister", "soloRender"}

DrawnAlone ==
  \A c \in Callers : at[c] \in Pending /\ mine[c].generation # None =>
    /\ \A time \in 0 .. MaxTime : ~Carries(mine[c].generation, time)
    /\ \A d \in Callers \ {c} : at[d] \in Pending => mine[d].generation # mine[c].generation

Drawn ==
  /\ \A g \in Nat, time \in 0 .. MaxTime : Carries(g, time) => g < nextGeneration
  /\ \A c \in Callers : at[c] \in Pending /\ mine[c].generation # None => mine[c].generation < nextGeneration
  /\ \A k \in DOMAIN cache.entries :
       cache.entries[k].generation \in Nat /\ cache.entries[k].observed \in 0 .. MaxTime

ScrapeInv ==
  /\ FP!IInv /\ Typed /\ CallsInOrder
  /\ OneRegisters /\ OnePublisher /\ MarksFollowFlights
  /\ OnePage /\ DrawnAlone /\ Drawn /\ EntryIsHonest
  /\ WarmBytesAccounted /\ retained <= MaxWarmBytes /\ Len(warmQueue) <= WarmCapacity

-----------------------------------------------------------------------------
(* The flights.                                                               *)

(* The shared renders are told apart by their two names only.                 *)
LEMMA SameFlights ==
  /\ FP!CallersAssumption /\ FP!MaxAssumption /\ FP!NoneAssumption
  /\ F!Init => FP!Init
  /\ \A c \in Callers :
       /\ \A k \in FlightKeys : (F!Join(c, k) => FP!Join(c, k)) /\ (F!Lead(c, k) => FP!Lead(c, k))
       /\ F!RetryUnlink(c) => FP!RetryUnlink(c)
       /\ F!RetryFlag(c) => FP!RetryFlag(c)
       /\ F!RetrySend(c) => FP!RetrySend(c)
       /\ F!Spawn(c) => FP!Spawn(c)
       /\ F!Observe(c) => FP!Observe(c)
       /\ F!Release(c) => FP!Release(c)
  /\ \A f \in Flights :
       /\ \A o \in F!Outcomes : F!Deliver(f, o) => FP!Deliver(f, o)
       /\ F!CompleteFlag(f) => FP!CompleteFlag(f)
       /\ F!CompleteReap(f) => FP!CompleteReap(f)
  /\ FP!TypeOK => F!TypeOK
<1> USE DEF F!Dropped, FP!Dropped, F!Current, FP!Current, F!Unregister, FP!Unregister, F!Kept, FP!Kept
<1>1. FP!CallersAssumption /\ FP!MaxAssumption /\ FP!NoneAssumption
  BY FlightsAssumption
     DEF F!CallersAssumption, FP!CallersAssumption, F!MaxAssumption, FP!MaxAssumption, F!NoneAssumption,
         FP!NoneAssumption, F!Outcomes, FP!Outcomes, F!IsFiniteSet, FP!IsFiniteSet
<1>2. F!Init => FP!Init
  BY DEF F!Init, FP!Init
<1>3. \A c \in Callers, k \in FlightKeys : F!Join(c, k) => FP!Join(c, k)
  BY DEF F!Join, FP!Join
<1>4. \A c \in Callers, k \in FlightKeys : F!Lead(c, k) => FP!Lead(c, k)
  BY DEF F!Lead, FP!Lead, F!Unused, FP!Unused, F!Registered, FP!Registered, F!Cardinality, FP!Cardinality
<1>5. \A c \in Callers :
        /\ F!RetryUnlink(c) => FP!RetryUnlink(c)
        /\ F!RetryFlag(c) => FP!RetryFlag(c)
        /\ F!RetrySend(c) => FP!RetrySend(c)
        /\ F!Spawn(c) => FP!Spawn(c)
        /\ F!Observe(c) => FP!Observe(c)
  BY DEF F!RetryUnlink, FP!RetryUnlink, F!RetryFlag, FP!RetryFlag, F!RetrySend, FP!RetrySend,
         F!Spawn, FP!Spawn, F!Observe, FP!Observe
<1>6. \A c \in Callers : F!Release(c) => FP!Release(c)
  BY DEF F!Release, FP!Release, F!LeaseGone, FP!LeaseGone, F!LastLease, FP!LastLease, F!Left, FP!Left
<1>7. \A f \in Flights :
        /\ \A o \in F!Outcomes : F!Deliver(f, o) => FP!Deliver(f, o)
        /\ F!CompleteFlag(f) => FP!CompleteFlag(f)
        /\ F!CompleteReap(f) => FP!CompleteReap(f)
  BY DEF F!Deliver, FP!Deliver, F!CompleteFlag, FP!CompleteFlag, F!CompleteReap, FP!CompleteReap
<1>8. FP!TypeOK => F!TypeOK
  BY DEF F!TypeOK, FP!TypeOK, F!FlightRecords, FP!FlightRecords, F!Outcomes, FP!Outcomes,
         F!ProducerStates, FP!ProducerStates, F!Stages, FP!Stages
<1> QED
  BY <1>1, <1>2, <1>3, <1>4, <1>5, <1>6, <1>7, <1>8

(* Whatever a step of the scrape path does, to the flights it is one of their *)
(* own steps, or nothing.                                                     *)
LEMMA FlightStep ==
  ASSUME request \in [Callers -> Requests], [Next]_vars
  PROVE  [F!Next]_(F!vars) /\ [FP!Next]_(FP!vars)
<1> DEFINE ByCall(c) ==
      \/ F!Join(c, request[c].flightKey) \/ F!Lead(c, request[c].flightKey)
      \/ F!RetryUnlink(c) \/ F!RetryFlag(c) \/ F!RetrySend(c) \/ F!Spawn(c) \/ F!Observe(c) \/ F!Release(c)
    ByTask(f) == (\E o \in F!Outcomes : F!Deliver(f, o)) \/ F!CompleteFlag(f) \/ F!CompleteReap(f)
<1>1. ASSUME NEW c \in Callers, ByCall(c) PROVE F!Next /\ FP!Next
  <2>1. request[c].flightKey \in FlightKeys
    BY RequestAssumption
  <2>2. F!CallerStep(c) /\ FP!CallerStep(c)
    BY <1>1, <2>1, SameFlights DEF F!CallerStep, FP!CallerStep
  <2> QED
    BY <2>2 DEF F!Next, FP!Next
<1>2. ASSUME NEW f \in Flights, ByTask(f) PROVE F!Next /\ FP!Next
  <2>1. F!ProducerStep(f) /\ FP!ProducerStep(f)
    BY <1>2, SameFlights DEF F!ProducerStep, FP!ProducerStep, F!Outcomes, FP!Outcomes
  <2> QED
    BY <2>1 DEF F!Next, FP!Next
<1> HIDE DEF ByCall, ByTask
<1>3. ASSUME NEW c \in Callers, Work(c) \/ GiveUp(c) PROVE ByCall(c) \/ UNCHANGED flightVars
  BY <1>3
     DEF ByCall, Work, GiveUp, LookupAt, Lookup, Relookup, Join, Lead, Solo, Retry, Spawn, Observe, Return,
         Prepare, Register, Invalidate, SoloDraw, SoloRegister, SoloRender, SoloInvalidate, Extract, Claim,
         Insert, Reserve, Send, renderVars, flightVars
<1>4. ASSUME NEW f \in Flights, Deliver(f) \/ Complete(f) PROVE ByTask(f)
  BY <1>4 DEF ByTask, Deliver, Complete
<1>5. ASSUME WarmReceive \/ WarmExtract \/ WarmInsert \/ Tick \/ UNCHANGED vars PROVE UNCHANGED flightVars
  BY <1>5 DEF WarmReceive, WarmExtract, WarmInsert, Tick, vars, renderVars, flightVars
<1> QED
  BY <1>1, <1>2, <1>3, <1>4, <1>5 DEF Next, flightVars, F!vars, FP!vars

(* scrape_inner keeps the rules that the shared renders are proved under.     *)
THEOREM UsesFlightsAsTheyAllow == Spec => FlightsSpec
<1> DEFINE Asked == request \in [Callers -> Requests]
<1>1. Init => F!Init /\ Asked
  BY DEF Init
<1>2. Asked /\ [Next]_vars => Asked'
  BY DEF Next, vars, callVars, Work, GiveUp, LookupAt, Lookup, Relookup, Join, Lead, Solo, Retry, Spawn,
         Observe, Return, Prepare, Register, Invalidate, SoloDraw, SoloRegister, SoloRender, SoloInvalidate,
         Extract, Claim, Insert, Reserve, Send, Deliver, Complete, WarmReceive, WarmExtract, WarmInsert, Tick
<1>3. Asked /\ [Next]_vars => [F!Next]_(F!vars)
  BY FlightStep
<1> QED
  BY <1>1, <1>2, <1>3, PTL DEF Spec, FlightsSpec, F!Spec

-----------------------------------------------------------------------------
(* The invariant holds initially.                                             *)

LEMMA InitScrape == Init => ScrapeInv
<1> SUFFICES ASSUME Init PROVE ScrapeInv
  OBVIOUS
<1>1. FP!IInv
  BY SameFlights, FP!InitIInv DEF Init
<1>2. /\ request \in [Callers -> Requests] /\ at = [c \in Callers |-> Start(c)]
      /\ mine = [c \in Callers |-> Nothing] /\ page = [f \in Flights |-> NoPage]
      /\ shared = [f \in Flights |-> Unprepared] /\ cache = EmptyCache /\ nextGeneration = 0
      /\ warmQueue = <<>> /\ warming = None /\ retained = 0 /\ now = 0
      /\ flight = [f \in Flights |-> FP!Dropped] /\ lease = [c \in Callers |-> None]
  BY SameFlights DEF Init, FP!Init
<1>3. \A c \in Callers : at[c] \in {"lookup", "acquire"} /\ mine[c] = Nothing /\ lease[c] = None
  BY <1>2 DEF Start
<1>4. DOMAIN cache.entries = {} /\ IsCache(cache)
  BY <1>2 DEF EmptyCache, IsCache
<1>5. NoPage \in Pages /\ Unprepared \in [Keys -> Publications]
  BY TimeAssumption, BoundsAssumption DEF NoPage, Pages, Unprepared, Publications
<1>6. Typed
  <2>1. at \in [Callers -> Steps]
    BY <1>2, <1>3 DEF Steps
  <2>2. mine \in [Callers -> [page : Pages, generation : Nat \cup {None}]]
    BY <1>2, <1>5 DEF Nothing
  <2>3. now \in 0 .. MaxTime
    BY <1>2, TimeAssumption
  <2> QED
    BY <1>2, <1>4, <1>5, <2>1, <2>2, <2>3 DEF Typed
<1>7. CallsInOrder /\ OneRegisters /\ OnePublisher
  BY <1>3 DEF CallsInOrder, CallInOrder, InItsPlace, Numbered, SharesRender, OneRegisters, OnePublisher, Nothing,
              Leased, Early, Registering, Publishing
<1>8. MarksFollowFlights
  BY <1>2 DEF MarksFollowFlights, Unprepared
<1>9. \A g \in Nat, time \in 0 .. MaxTime : ~Carries(g, time)
  <2>1. Held = {}
    BY <1>2 DEF Held, ToSet
  <2>2. \A f \in Flights, k \in Keys : shared[f][k].generation \notin Nat
    BY <1>2, NoneIsNothingElse DEF Unprepared
  <2> QED
    BY <1>3, <1>4, <2>1, <2>2 DEF Carries, HasPage, Registering, Extracting, Publishing
<1>10. OnePage /\ DrawnAlone /\ Drawn /\ EntryIsHonest
  BY <1>3, <1>4, <1>9 DEF OnePage, DrawnAlone, Drawn, Pending, EntryIsHonest
<1>11. WarmBytesAccounted /\ retained <= MaxWarmBytes /\ Len(warmQueue) <= WarmCapacity
  <2>1. {c \in Callers : at[c] = "send"} = {}
    BY <1>3
  <2>2. Cardinality({c \in Callers : at[c] = "send"}) = 0
    BY <2>1, FS_EmptySet
  <2> QED
    BY <1>2, <2>2, WarmAssumption DEF WarmBytesAccounted
<1> QED
  BY <1>1, <1>6, <1>7, <1>8, <1>10, <1>11 DEF ScrapeInv

-----------------------------------------------------------------------------
(* What a step may disturb.                                                   *)

(* A flight is there as long as anybody has a lease on it.                    *)
HeldThere ==
  \A c \in Callers : lease[c] # None =>
    lease[c] \in Flights /\ flight[lease[c]].leases # 0 /\ flight[lease[c]] # FP!Dropped

LEMMA HeldIsThere == FP!IInv => HeldThere
<1> SUFFICES ASSUME FP!IInv, NEW c \in Callers, lease[c] # None
             PROVE  lease[c] \in Flights /\ flight[lease[c]].leases # 0 /\ flight[lease[c]] # FP!Dropped
  BY DEF HeldThere
<1>1. lease[c] \in Flights /\ c \in FP!Holders(lease[c])
  BY DEF FP!IInv, FP!TypeOK, FP!Holders
<1>2. flight[lease[c]].leases # 0
  BY <1>1, SameFlights, FP!CountedHolders DEF FP!IInv
<1> QED
  BY <1>1, <1>2 DEF FP!Dropped

LEMMA HeldStaysThere == FP!IInv' => HeldThere'
BY HeldIsThere, PTL

(* What hangs on a flight stays, unless it goes with a flight nobody holds;   *)
(* a render that ended well has ended for good.                               *)
FlightStays(f) ==
  \/ flight'[f] = FP!Dropped /\ shared'[f] = Unprepared
  \/ /\ shared'[f] = shared[f]
     /\ flight'[f] = FP!Dropped => shared[f] = Unprepared
     /\ flight[f].outcome = "Rendered" => flight'[f].outcome = "Rendered" /\ page'[f] = page[f]

FlightsStay == \A f \in Flights : FlightStays(f)

LEMMA MarksStay ==
  ASSUME MarksFollowFlights, FlightsStay
  PROVE  MarksFollowFlights'
<1> SUFFICES ASSUME NEW f \in Flights
             PROVE  /\ flight'[f] = FP!Dropped => shared'[f] = Unprepared
                    /\ \A k \in Keys : shared'[f][k].generation # None => flight'[f].outcome = "Rendered"
  BY DEF MarksFollowFlights, FP!Dropped
<1>1. CASE flight'[f] = FP!Dropped /\ shared'[f] = Unprepared
  BY <1>1 DEF Unprepared
<1>2. CASE ~(flight'[f] = FP!Dropped /\ shared'[f] = Unprepared)
  BY <1>2 DEF FlightsStay, FlightStays, MarksFollowFlights
<1> QED
  BY <1>1, <1>2

(* A call that does nothing is where it was.                                  *)
LEMMA CallStays ==
  ASSUME FP!IInv', FlightsStay, NEW c \in Callers, CallInOrder(c), UNCHANGED request,
         at'[c] = at[c], lease'[c] = lease[c], mine'[c] = mine[c]
  PROVE  CallInOrder(c)'
<1>1. InItsPlace(c)' /\ Numbered(c)'
  BY DEF CallInOrder, InItsPlace, Numbered
<1>2. SharesRender(c)'
  <2> SUFFICES ASSUME lease[c] # None
               PROVE  SharesRender(c)'
    BY DEF SharesRender
  <2>1. lease[c] \in Flights /\ flight'[lease[c]] # FP!Dropped
    BY HeldStaysThere DEF HeldThere, FP!Dropped
  <2>2. /\ shared'[lease[c]] = shared[lease[c]]
        /\ flight[lease[c]].outcome = "Rendered" =>
             flight'[lease[c]].outcome = "Rendered" /\ page'[lease[c]] = page[lease[c]]
    BY <2>1 DEF FlightsStay, FlightStays
  <2> QED
    BY <2>1, <2>2 DEF SharesRender, CallInOrder
<1> QED
  BY <1>1, <1>2 DEF CallInOrder

(* One call moves, and the others stay: it may enter the mutex of a flight's  *)
(* cache state if it is free, and is among the publishers only if it was.     *)
LEMMA CallMoves ==
  ASSUME CallsInOrder, OneRegisters, OnePublisher, MarksFollowFlights, FP!IInv', FlightsStay,
         UNCHANGED request, NEW c \in Callers, CallInOrder(c)',
         \A d \in Callers \ {c} : at'[d] = at[d] /\ lease'[d] = lease[d] /\ mine'[d] = mine[d],
         at'[c] \in Registering \cup Publishing /\ lease'[c] # None => lease'[c] = lease[c],
         at'[c] \in Registering /\ lease'[c] # None => at[c] \in Registering \/ CacheStateFree(c),
         at'[c] \in Publishing /\ lease'[c] # None => at[c] \in Publishing
  PROVE  CallsInOrder' /\ OneRegisters' /\ OnePublisher' /\ MarksFollowFlights'
<1>1. CallsInOrder'
  BY CallStays DEF CallsInOrder
<1>2. OneRegisters'
  BY DEF OneRegisters, CacheStateFree, Registering
<1>3. OnePublisher'
  BY DEF OnePublisher, Publishing
<1> QED
  BY <1>1, <1>2, <1>3, MarksStay

(* Nobody learns of a page what nobody knew.                                  *)
NothingNew == \A g \in Nat, time \in 0 .. MaxTime : Carries(g, time)' => Carries(g, time)

LEMMA KnownPages ==
  ASSUME MarksFollowFlights, FlightsStay,
         \A c \in Callers : at'[c] \in HasPage /\ mine'[c].generation \in Nat
           => Carries(mine'[c].generation, mine'[c].page.observed),
         \A w \in Held' : Carries(w.generation, w.page.observed),
         \A k \in DOMAIN cache'.entries :
           Carries(cache'.entries[k].generation, cache'.entries[k].observed)
  PROVE  NothingNew
<1> SUFFICES ASSUME NEW g \in Nat, NEW time \in 0 .. MaxTime, Carries(g, time)'
             PROVE  Carries(g, time)
  BY DEF NothingNew
<1>1. CASE \E c \in Callers : at'[c] \in HasPage /\ mine'[c].generation = g /\ mine'[c].page.observed = time
  BY <1>1
<1>2. CASE \E w \in Held' : w.generation = g /\ w.page.observed = time
  BY <1>2
<1>3. CASE \E k \in DOMAIN cache'.entries :
             cache'.entries[k].generation = g /\ cache'.entries[k].observed = time
  BY <1>3
<1>4. CASE \E f \in Flights, k \in Keys : shared'[f][k].generation = g /\ page'[f].observed = time
  <2>1. PICK f \in Flights, k \in Keys : shared'[f][k].generation = g /\ page'[f].observed = time
    BY <1>4
  <2>2. g # None
    BY NoneIsNothingElse
  <2>3. shared'[f] # Unprepared
    BY <2>1, <2>2 DEF Unprepared
  <2>4. shared'[f] = shared[f] /\ page'[f] = page[f]
    BY <2>1, <2>2, <2>3 DEF FlightsStay, FlightStays, MarksFollowFlights
  <2> QED
    BY <2>1, <2>4 DEF Carries
<1> QED
  BY <1>1, <1>2, <1>3, <1>4 DEF Carries, HasPage, Registering, Extracting, Publishing

(* ... so every generation still has one page.                                *)
LEMMA PagesKept ==
  ASSUME OnePage, DrawnAlone, Drawn, NothingNew, UNCHANGED nextGeneration,
         \A c \in Callers : at'[c] \in Pending /\ mine'[c].generation # None
           => at[c] \in Pending /\ mine'[c].generation = mine[c].generation,
         \A k \in DOMAIN cache'.entries :
           cache'.entries[k].generation \in Nat /\ cache'.entries[k].observed \in 0 .. MaxTime,
         mine \in [Callers -> [page : Pages, generation : Nat \cup {None}]]
  PROVE  OnePage' /\ DrawnAlone' /\ Drawn'
<1>1. OnePage'
  BY DEF OnePage, NothingNew
<1>2. DrawnAlone'
  BY DEF DrawnAlone, NothingNew, Pending
<1>3. Drawn'
  BY DEF Drawn, NothingNew, Pending
<1> QED
  BY <1>1, <1>2, <1>3

(* A page that came gets a generation nobody else has.                        *)
LEMMA PageComes ==
  ASSUME OnePage, DrawnAlone, Drawn, NEW n \in Nat, NEW t \in 0 .. MaxTime,
         nextGeneration \in Nat, nextGeneration' \in Nat, nextGeneration <= nextGeneration', n < nextGeneration',
         \A g \in Nat, time \in 0 .. MaxTime : Carries(g, time)' => Carries(g, time) \/ (g = n /\ time = t),
         \A time \in 0 .. MaxTime : ~Carries(n, time),
         \A c \in Callers : at'[c] \in Pending /\ mine'[c].generation # None
           => at[c] \in Pending /\ mine'[c].generation = mine[c].generation /\ mine[c].generation # n,
         \A k \in DOMAIN cache'.entries :
           cache'.entries[k].generation \in Nat /\ cache'.entries[k].observed \in 0 .. MaxTime,
         mine \in [Callers -> [page : Pages, generation : Nat \cup {None}]]
  PROVE  OnePage' /\ DrawnAlone' /\ Drawn'
<1>1. OnePage'
  BY DEF OnePage
<1>2. DrawnAlone'
  BY DEF DrawnAlone, Pending
<1>3. Drawn'
  BY DEF Drawn, Pending
<1> QED
  BY <1>1, <1>2, <1>3

(* What a step leaves in the cache came from pages that are known, and says   *)
(* so.                                                                        *)
CacheKnown ==
  /\ IsCache(cache') /\ DOMAIN cache'.entries \subseteq Keys
  /\ \A k \in DOMAIN cache'.entries :
       LET e == cache'.entries[k] IN
         /\ e.generation \in Nat /\ e.observed \in 0 .. MaxTime
         /\ IsEntry(e) /\ Carries(e.generation, e.observed)
         /\ e.observed = e.doc.observed /\ e.formats \subseteq e.doc.has

LEMMA ThinnedIsKnown ==
  ASSUME Typed, Drawn, EntryIsHonest, Thins(cache', cache)
  PROVE  CacheKnown
BY DEF Typed, Drawn, EntryIsHonest, Thins, CacheKnown, Carries

LEMMA CacheIsKnown == ASSUME Typed, Drawn, EntryIsHonest, UNCHANGED cache PROVE CacheKnown
BY ThinnedIsKnown DEF Thins, Typed

(* Nobody has begun or ended to send, and the warmer did nothing.             *)
LEMMA WarmStays ==
  ASSUME WarmBytesAccounted, UNCHANGED warmVars, \A c \in Callers : at'[c] = "send" <=> at[c] = "send"
  PROVE  WarmBytesAccounted'
<1>1. {c \in Callers : at'[c] = "send"} = {c \in Callers : at[c] = "send"}
  OBVIOUS
<1> QED
  BY <1>1 DEF WarmBytesAccounted, warmVars

(* A call moves on with what is known already, and leaves the warmer alone.   *)
LEMMA CallStep ==
  ASSUME ScrapeInv, FP!IInv', FlightsStay, CacheKnown,
         UNCHANGED <<request, nextGeneration, warmVars, now>>,
         page' \in [Flights -> Pages], shared' \in [Flights -> [Keys -> Publications]],
         NEW c \in Callers, CallInOrder(c)',
         \A d \in Callers \ {c} : lease'[d] = lease[d],
         NEW to \in Steps, at' = [at EXCEPT ![c] = to], "send" \notin {at[c], to},
         NEW m \in [page : Pages, generation : Nat \cup {None}], mine' = [mine EXCEPT ![c] = m],
         to \in Registering \cup Publishing /\ lease'[c] # None => lease'[c] = lease[c],
         to \in Registering /\ lease'[c] # None => at[c] \in Registering \/ CacheStateFree(c),
         to \in Publishing /\ lease'[c] # None => at[c] \in Publishing,
         to \in HasPage /\ m.generation \in Nat => Carries(m.generation, m.page.observed),
         to \in Pending /\ m.generation # None => at[c] \in Pending /\ m.generation = mine[c].generation
  PROVE  ScrapeInv'
<1>1. \A d \in Callers : at'[d] = IF d = c THEN to ELSE at[d]
  BY DEF ScrapeInv, Typed
<1>2. \A d \in Callers : mine'[d] = IF d = c THEN m ELSE mine[d]
  BY DEF ScrapeInv, Typed
<1>3. Typed'
  BY DEF ScrapeInv, Typed, CacheKnown, warmVars
<1>4. CallsInOrder' /\ OneRegisters' /\ OnePublisher' /\ MarksFollowFlights'
  BY <1>1, <1>2, CallMoves DEF ScrapeInv
<1>5. NothingNew
  <2>1. \A d \in Callers : at'[d] \in HasPage /\ mine'[d].generation \in Nat
          => Carries(mine'[d].generation, mine'[d].page.observed)
    BY <1>1, <1>2 DEF Carries
  <2>2. \A w \in Held' : Carries(w.generation, w.page.observed)
    BY DEF Carries, Held, warmVars
  <2> QED
    BY <2>1, <2>2, KnownPages DEF ScrapeInv, CacheKnown
<1>6. OnePage' /\ DrawnAlone' /\ Drawn'
  BY <1>1, <1>2, <1>5, PagesKept DEF ScrapeInv, Typed, CacheKnown
<1>7. WarmBytesAccounted' /\ retained' <= MaxWarmBytes /\ Len(warmQueue') <= WarmCapacity
  BY <1>1, WarmStays DEF ScrapeInv, warmVars
<1>8. EntryIsHonest'
  BY DEF CacheKnown, EntryIsHonest
<1> QED
  BY <1>3, <1>4, <1>6, <1>7, <1>8 DEF ScrapeInv

-----------------------------------------------------------------------------
(* The steps that leave the flights alone.                                    *)

LEMMA RendersStay ==
  ASSUME ScrapeInv, UNCHANGED renderVars
  PROVE  /\ FlightsStay
         /\ page' \in [Flights -> Pages] /\ shared' \in [Flights -> [Keys -> Publications]]
         /\ lease' = lease /\ flight' = flight /\ page' = page /\ shared' = shared
BY DEF ScrapeInv, Typed, FlightsStay, FlightStays, MarksFollowFlights, renderVars, flightVars

(* A call goes on with what it has.                                           *)
LEMMA PlainStep ==
  ASSUME ScrapeInv, FP!IInv', CacheKnown, UNCHANGED renderVars,
         UNCHANGED <<request, nextGeneration, warmVars, now, mine>>,
         NEW c \in Callers, NEW to \in Steps, at' = [at EXCEPT ![c] = to], "send" \notin {at[c], to},
         lease[c] # None => to \notin Unleased, lease[c] = None => to \notin Leased,
         to \in Early => mine[c].generation = None,
         \/ to \in Registering \cup Publishing \cup {"claim", "soloRegister", "soloInvalidate"}
         \/ to \in {"soloRender", "extract"} /\ request[c].stores
         => mine[c].generation \in Nat,
         to \in HasPage \cup {"prepare"} => at[c] \in HasPage \ {"soloInvalidate"} \/ lease[c] = None,
         to \in HasPage /\ mine[c].generation # None => at[c] \in HasPage,
         to \in Registering => at[c] \in Registering,
         to \in Extracting /\ request[c].stores => at[c] \in Extracting \/ lease[c] = None,
         to \in Publishing => at[c] \in Publishing \/ lease[c] = None,
         to \in Pending => at[c] \in Pending \/ mine[c].generation = None
  PROVE  ScrapeInv'
<1>1. mine[c] \in [page : Pages, generation : Nat \cup {None}] /\ mine' = [mine EXCEPT ![c] = mine[c]]
  BY DEF ScrapeInv, Typed
<1>2. at'[c] = to /\ mine'[c] = mine[c] /\ lease' = lease /\ flight' = flight /\ page' = page /\ shared' = shared
  BY RendersStay DEF ScrapeInv, Typed
<1>3. CallInOrder(c)
  BY DEF ScrapeInv, CallsInOrder
<1>4. InItsPlace(c)' /\ Numbered(c)'
  BY <1>2 DEF InItsPlace, Numbered
<1>5. SharesRender(c)'
  BY <1>2, <1>3
     DEF CallInOrder, SharesRender, HasPage, Registering, Extracting, Publishing
<1>6. CallInOrder(c)'
  BY <1>4, <1>5 DEF CallInOrder
<1>7. to \in HasPage /\ mine[c].generation \in Nat => Carries(mine[c].generation, mine[c].page.observed)
  BY NoneIsNothingElse DEF Carries
<1> QED
  BY <1>1, <1>2, <1>6, <1>7, RendersStay, CallStep

LEMMA LookupStep ==
  ASSUME ScrapeInv, FP!IInv', NEW c \in Callers, Lookup(c) \/ Relookup(c)
  PROVE  ScrapeInv'
<1>1. PICK from, to :
        /\ <<from, to>> \in {<<"lookup", "done">>, <<"lookup", "acquire">>, <<"relookup", "retry">>, <<"relookup", "spawn">>}
        /\ Go(c, from, to)
        /\ cache' = AfterGet(cache, request[c].cacheKey, request[c].formats, request[c].maxAge, now)
        /\ UNCHANGED <<renderVars, nextGeneration, warmVars, request, mine, now>>
  BY DEF Lookup, Relookup, LookupAt
<1>2. CacheKnown
  BY <1>1, GetThins, ThinnedIsKnown DEF ScrapeInv, Typed
<1>3. InItsPlace(c) /\ Numbered(c)
  BY DEF ScrapeInv, CallsInOrder, CallInOrder
<1>4. mine[c].generation = None
  BY <1>1, <1>3 DEF Numbered, Early, Go
<1> QED
  BY <1>1, <1>2, <1>3, <1>4, PlainStep
     DEF Go, InItsPlace, Steps, Leased, Unleased, Early, Registering, Publishing, Extracting, HasPage, Pending

LEMMA SoloStep ==
  ASSUME ScrapeInv, FP!IInv', NEW c \in Callers, Solo(c)
  PROVE  ScrapeInv'
<1>1. PICK to \in {"soloDraw", "soloRender"} :
        Go(c, "acquire", to) /\ (to = "soloRender" => ~request[c].stores)
  BY DEF Solo
<1>2. UNCHANGED <<renderVars, cacheVars, warmVars, request, mine, now>>
  BY DEF Solo
<1>3. CacheKnown /\ nextGeneration' = nextGeneration
  BY <1>2, CacheIsKnown DEF ScrapeInv, cacheVars
<1>4. InItsPlace(c) /\ Numbered(c)
  BY DEF ScrapeInv, CallsInOrder, CallInOrder
<1>5. lease[c] = None /\ mine[c].generation = None
  BY <1>1, <1>4 DEF InItsPlace, Numbered, Unleased, Early, Go
<1> QED
  BY <1>1, <1>2, <1>3, <1>5, PlainStep
     DEF Go, Steps, Leased, Unleased, Early, Registering, Publishing, Extracting, HasPage, Pending

LEMMA GiveUpStep ==
  ASSUME ScrapeInv, FP!IInv', NEW c \in Callers, GiveUp(c)
  PROVE  ScrapeInv'
<1>1. Go(c, "wait", "return") /\ UNCHANGED <<renderVars, cacheVars, warmVars, request, mine, now>>
  BY DEF GiveUp
<1>2. CacheKnown /\ nextGeneration' = nextGeneration
  BY <1>1, CacheIsKnown DEF ScrapeInv, cacheVars
<1> QED
  BY <1>1, <1>2, PlainStep
     DEF Go, Steps, Leased, Unleased, Early, Registering, Publishing, Extracting, HasPage, Pending

LEMMA RegisterStep ==
  ASSUME ScrapeInv, FP!IInv', NEW c \in Callers, Register(c) \/ SoloRegister(c)
  PROVE  ScrapeInv'
<1>1. PICK from, to :
        /\ <<from, to>> \in {<<"register", "invalidate">>, <<"soloRegister", "soloRender">>}
        /\ Go(c, from, to)
        /\ cache' = RegisterObservation(cache, request[c].cacheKey, mine[c].generation)
        /\ UNCHANGED <<renderVars, nextGeneration, warmVars, request, mine, now>>
  BY DEF Register, SoloRegister
<1>2. CacheKnown
  BY <1>1, RegisterEffect, ThinnedIsKnown DEF ScrapeInv, Typed
<1>3. InItsPlace(c) /\ Numbered(c)
  BY DEF ScrapeInv, CallsInOrder, CallInOrder
<1>4. mine[c].generation \in Nat
  BY <1>1, <1>3 DEF Numbered, Registering, Go
<1> QED
  BY <1>1, <1>2, <1>3, <1>4, PlainStep
     DEF Go, InItsPlace, Steps, Leased, Unleased, Early, Registering, Publishing, Extracting, HasPage, Pending

LEMMA SoloInvalidateStep ==
  ASSUME ScrapeInv, FP!IInv', NEW c \in Callers, SoloInvalidate(c)
  PROVE  ScrapeInv'
<1>1. /\ Go(c, "soloInvalidate", "extract")
      /\ cache' = InvalidateObservation(cache, request[c].cacheKey, mine[c].generation)
      /\ UNCHANGED <<renderVars, nextGeneration, warmVars, request, mine, now>>
  BY DEF SoloInvalidate
<1>2. CacheKnown
  BY <1>1, InvalidateThins, ThinnedIsKnown DEF ScrapeInv, Typed
<1>3. InItsPlace(c) /\ Numbered(c)
  BY DEF ScrapeInv, CallsInOrder, CallInOrder
<1>4. mine[c].generation \in Nat /\ lease[c] = None
  BY <1>1, <1>3 DEF Numbered, InItsPlace, Unleased, Go
<1> QED
  BY <1>1, <1>2, <1>3, <1>4, PlainStep
     DEF Go, Steps, Leased, Unleased, Early, Registering, Publishing, Extracting, HasPage, Pending

LEMMA ExtractStep ==
  ASSUME ScrapeInv, FP!IInv', NEW c \in Callers, Extract(c)
  PROVE  ScrapeInv'
<1>1. PICK to \in {"return", "insert", "claim"} :
        /\ Go(c, "extract", to)
        /\ to # "return" => request[c].stores
        /\ to = "insert" => lease[c] = None
        /\ to = "claim" => lease[c] # None
  BY DEF Extract, Cacheable
<1>2. UNCHANGED <<renderVars, cacheVars, warmVars, request, mine, now>>
  BY DEF Extract
<1>3. CacheKnown /\ nextGeneration' = nextGeneration
  BY <1>2, CacheIsKnown DEF ScrapeInv, cacheVars
<1>4. Numbered(c)
  BY DEF ScrapeInv, CallsInOrder, CallInOrder
<1>5. request[c].stores => mine[c].generation \in Nat
  BY <1>1, <1>4 DEF Numbered, Go
<1> QED
  BY <1>1, <1>2, <1>3, <1>5, PlainStep
     DEF Go, Steps, Leased, Unleased, Early, Registering, Publishing, Extracting, HasPage, Pending

(* The entry a call inserts has the time and the formats of its document, and *)
(* the call knows its page.                                                   *)
LEMMA InsertStep ==
  ASSUME ScrapeInv, FP!IInv', NEW c \in Callers, Insert(c)
  PROVE  ScrapeInv'
<1> DEFINE k == request[c].cacheKey
           g == mine[c].generation
           p == mine[c].page
           entry == NewEntry(Document(c), request[c].formats, p.observed, p.ttl, DocumentSize, g)
<1>1. PICK to \in {"reserve", "return"} : Go(c, "insert", to)
  BY DEF Insert
<1>2. /\ cache' = cache \/ cache' = InsertEntry(cache, k, entry, now)
      /\ UNCHANGED <<renderVars, nextGeneration, warmVars, request, mine, now>>
  BY DEF Insert
<1>3. /\ request[c].formats \subseteq Formats /\ k \in Keys
      /\ p \in Pages /\ g \in Nat /\ IsCache(cache)
  <2>1. Numbered(c)
    BY DEF ScrapeInv, CallsInOrder, CallInOrder
  <2>2. g \in Nat
    BY <1>1, <2>1 DEF Numbered, Publishing, Go
  <2> QED
    BY <2>2, RequestAssumption DEF ScrapeInv, Typed
<1>4. Carries(g, p.observed)
  BY <1>1 DEF Carries, Go, HasPage, Extracting, Publishing
<1>5. CacheKnown
  <2>1. CASE cache' = cache
    BY <2>1, CacheIsKnown DEF ScrapeInv
  <2>2. CASE cache' = InsertEntry(cache, k, entry, now)
    <3>1. /\ entry.generation = g /\ entry.observed = p.observed /\ IsEntry(entry)
          /\ entry.doc.observed = p.observed /\ entry.formats = entry.doc.has
      BY DEF NewEntry, Document, IsEntry
    <3>2. /\ IsCache(cache') /\ DOMAIN cache'.entries \subseteq DOMAIN cache.entries \cup {k}
          /\ \A j \in DOMAIN cache'.entries : cache'.entries[j] = IF j = k THEN entry ELSE cache.entries[j]
      <4> HIDE DEF entry
      <4> QED
        BY <1>3, <2>2, InsertEffect
    <3>3. \A j \in DOMAIN cache.entries :
            Carries(cache.entries[j].generation, cache.entries[j].observed)
      BY DEF Carries
    <3>4. p.observed \in 0 .. MaxTime
      BY <1>3 DEF Pages
    <3> HIDE DEF entry, g, p, k
    <3> QED
      BY <1>3, <1>4, <3>1, <3>2, <3>3, <3>4 DEF CacheKnown, ScrapeInv, Typed, Drawn, EntryIsHonest
  <2> QED
    BY <1>2, <2>1, <2>2
<1> QED
  BY <1>1, <1>2, <1>3, <1>5, PlainStep
     DEF Go, Steps, Leased, Unleased, Early, Registering, Publishing, Extracting, HasPage, Pending

(* A call's page gets a generation that nobody has.                           *)
LEMMA FreshStep ==
  ASSUME ScrapeInv, FP!IInv', UNCHANGED <<renderVars, cache, request, warmVars, now>>,
         NEW c \in Callers, CallInOrder(c)',
         NEW to \in Steps \ (Publishing \cup Pending), at' = [at EXCEPT ![c] = to], at[c] # "send",
         NEW m \in [page : Pages, generation : Nat], mine' = [mine EXCEPT ![c] = m],
         to \in Registering /\ lease[c] # None => CacheStateFree(c),
         nextGeneration' \in Nat, nextGeneration <= nextGeneration', m.generation < nextGeneration',
         \A time \in 0 .. MaxTime : ~Carries(m.generation, time),
         \A d \in Callers \ {c} : at[d] \in Pending => mine[d].generation # m.generation
  PROVE  ScrapeInv'
<1>1. \A d \in Callers : at'[d] = IF d = c THEN to ELSE at[d]
  BY DEF ScrapeInv, Typed
<1>2. \A d \in Callers : mine'[d] = IF d = c THEN m ELSE mine[d]
  BY DEF ScrapeInv, Typed
<1>3. /\ FlightsStay /\ page' = page /\ shared' = shared /\ lease' = lease
      /\ CacheKnown
  BY RendersStay, CacheIsKnown DEF ScrapeInv
<1>4. Typed'
  BY <1>3, NoneIsNothingElse DEF ScrapeInv, Typed, warmVars
<1>5. CallsInOrder' /\ OneRegisters' /\ OnePublisher' /\ MarksFollowFlights'
  BY <1>1, <1>2, <1>3, CallMoves DEF ScrapeInv
<1>6. OnePage' /\ DrawnAlone' /\ Drawn'
  <2>1. m.generation \in Nat /\ m.page.observed \in 0 .. MaxTime /\ nextGeneration \in Nat
    BY DEF Pages, ScrapeInv, Typed
  <2>2. \A g \in Nat, time \in 0 .. MaxTime :
          Carries(g, time)' => Carries(g, time) \/ (g = m.generation /\ time = m.page.observed)
    BY <1>1, <1>2, <1>3 DEF Carries, Held, warmVars
  <2>3. \A d \in Callers : at'[d] \in Pending /\ mine'[d].generation # None
          => at[d] \in Pending /\ mine'[d].generation = mine[d].generation /\ mine[d].generation # m.generation
    BY <1>1, <1>2
  <2> QED
    BY <1>3, <2>1, <2>2, <2>3, PageComes DEF ScrapeInv, Typed, CacheKnown
<1>7. WarmBytesAccounted' /\ retained' <= MaxWarmBytes /\ Len(warmQueue') <= WarmCapacity
  BY <1>1, WarmStays DEF ScrapeInv, warmVars, Publishing
<1>8. EntryIsHonest'
  BY DEF ScrapeInv, EntryIsHonest
<1> QED
  BY <1>4, <1>5, <1>6, <1>7, <1>8 DEF ScrapeInv

(* A generation that was just drawn is nobody's.                              *)
LEMMA NextIsFresh ==
  ASSUME ScrapeInv
  PROVE  /\ nextGeneration \in Nat
         /\ \A time \in 0 .. MaxTime : ~Carries(nextGeneration, time)
         /\ \A c \in Callers : at[c] \in Pending => mine[c].generation # nextGeneration
<1>1. nextGeneration \in Nat
  BY DEF ScrapeInv, Typed
<1> QED
  BY <1>1, NoneIsNothingElse DEF ScrapeInv, Drawn

LEMMA SoloDrawStep ==
  ASSUME ScrapeInv, FP!IInv', NEW c \in Callers, SoloDraw(c)
  PROVE  ScrapeInv'
<1> DEFINE m == [mine[c] EXCEPT !.generation = nextGeneration]
<1>1. /\ Go(c, "soloDraw", "soloRegister") /\ UNCHANGED <<renderVars, cache, warmVars, request, now>>
      /\ nextGeneration' = nextGeneration + 1 /\ mine' = [mine EXCEPT ![c] = m]
  BY DEF SoloDraw, Draw
<1>2. /\ m \in [page : Pages, generation : Nat] /\ m.generation = nextGeneration
      /\ nextGeneration \in Nat
  BY DEF ScrapeInv, Typed
<1>3. /\ \A d \in Callers : at'[d] = IF d = c THEN "soloRegister" ELSE at[d]
      /\ \A d \in Callers : mine'[d] = IF d = c THEN m ELSE mine[d]
  BY <1>1, <1>2 DEF ScrapeInv, Typed, Go
<1> HIDE DEF m
<1>4. /\ FlightsStay /\ page' = page /\ shared' = shared /\ lease' = lease
      /\ CacheKnown
  BY <1>1, RendersStay, CacheIsKnown DEF ScrapeInv
<1>5. Typed'
  BY <1>1, <1>2, <1>4, NoneIsNothingElse DEF ScrapeInv, Typed, warmVars, Go, Steps
<1>6. CallsInOrder' /\ OneRegisters' /\ OnePublisher' /\ MarksFollowFlights'
  <2>1. lease[c] = None
    BY <1>1 DEF ScrapeInv, CallsInOrder, CallInOrder, InItsPlace, Unleased, Go
  <2>2. CallInOrder(c)'
    BY <1>2, <1>3, <1>4, <2>1 DEF CallInOrder, InItsPlace, Numbered, SharesRender, Leased, Unleased, Early
  <2> QED
    BY <1>1, <1>3, <1>4, <2>2, CallMoves DEF ScrapeInv, Registering, Publishing
<1>7. OnePage' /\ DrawnAlone' /\ Drawn'
  <2>1. \A g \in Nat, time \in 0 .. MaxTime : Carries(g, time)' => Carries(g, time)
    BY <1>1, <1>3, <1>4 DEF Carries, Held, warmVars, HasPage, Registering, Extracting, Publishing
  <2>2. OnePage'
    BY <2>1 DEF ScrapeInv, OnePage
  <2>3. \A d \in Callers : mine[d].generation \in Nat \cup {None}
    BY DEF ScrapeInv, Typed
  <2>4. \A d \in Callers : at'[d] \in Pending /\ mine'[d].generation # None =>
          \/ d = c /\ mine'[d].generation = nextGeneration
          \/ /\ d # c /\ at[d] \in Pending /\ mine'[d].generation = mine[d].generation
             /\ mine[d].generation \in Nat /\ mine[d].generation < nextGeneration
    BY <1>2, <1>3, <2>3 DEF ScrapeInv, Drawn
  <2>5. cache' = cache /\ nextGeneration' = nextGeneration + 1
    BY <1>1
  <2>6. Drawn'
    <3>1. \A g \in Nat, time \in 0 .. MaxTime : Carries(g, time)' => g < nextGeneration'
      BY <1>2, <2>1, <2>5 DEF ScrapeInv, Drawn
    <3>2. \A d \in Callers : at'[d] \in Pending /\ mine'[d].generation # None
            => mine'[d].generation < nextGeneration'
      BY <1>2, <2>4, <2>5
    <3>3. \A k \in DOMAIN cache'.entries :
            cache'.entries[k].generation \in Nat /\ cache'.entries[k].observed \in 0 .. MaxTime
      BY <2>5 DEF ScrapeInv, Drawn
    <3> QED
      BY <3>1, <3>2, <3>3 DEF Drawn
  <2>7. DrawnAlone'
    <3>1. \A d \in Callers : at'[d] \in Pending /\ mine'[d].generation # None
            => \A g \in Nat, time \in 0 .. MaxTime : g = mine'[d].generation => ~Carries(g, time)'
      BY <1>2, <2>1, <2>4, NextIsFresh, NoneIsNothingElse DEF ScrapeInv, DrawnAlone
    <3>2. \A d \in Callers : at'[d] \in Pending /\ mine'[d].generation # None
            => \A e \in Callers \ {d} : at'[e] \in Pending => mine'[e].generation # mine'[d].generation
      <4> SUFFICES ASSUME NEW d \in Callers, at'[d] \in Pending, mine'[d].generation # None,
                          NEW e \in Callers \ {d}, at'[e] \in Pending,
                          mine'[e].generation = mine'[d].generation
                   PROVE  FALSE
        OBVIOUS
      <4>1. CASE d = c \/ e = c
        BY <2>4, <4>1, <1>2
      <4>2. CASE d # c /\ e # c
        BY <2>4, <4>2 DEF ScrapeInv, DrawnAlone
      <4> QED
        BY <4>1, <4>2
    <3>3. \A d \in Callers : at'[d] \in Pending /\ mine'[d].generation # None => mine'[d].generation \in Nat
      BY <1>2, <2>4
    <3> QED
      BY <3>1, <3>2, <3>3 DEF DrawnAlone, Pending
  <2> QED
    BY <2>2, <2>6, <2>7
<1>8. WarmBytesAccounted' /\ retained' <= MaxWarmBytes /\ Len(warmQueue') <= WarmCapacity
  BY <1>1, <1>3, WarmStays DEF ScrapeInv, warmVars, Go
<1>9. EntryIsHonest'
  BY <1>1 DEF ScrapeInv, EntryIsHonest
<1> QED
  BY <1>5, <1>6, <1>7, <1>8, <1>9 DEF ScrapeInv

(* A page may be cached as long as its response says, and no longer than      *)
(* anything.                                                                  *)
LEMMA PageTtlsBounded == PageTtls \subseteq 0 .. CacheTtl
BY TtlBound, ResponseAssumption, BoundsAssumption DEF PageTtls

(* A caller that renders by itself drew its generation before: its page is    *)
(* the only one that has it.                                                  *)
LEMMA SoloRenderStep ==
  ASSUME ScrapeInv, FP!IInv', NEW c \in Callers, SoloRender(c)
  PROVE  ScrapeInv'
<1>1. UNCHANGED <<renderVars, cacheVars, warmVars, request, now>> /\ at[c] = "soloRender"
  BY DEF SoloRender, Go
<1>2. CacheKnown /\ nextGeneration' = nextGeneration /\ cache' = cache /\ lease' = lease
  BY <1>1, CacheIsKnown DEF ScrapeInv, cacheVars, renderVars, flightVars
<1>3. lease[c] = None /\ (request[c].stores => mine[c].generation \in Nat)
  BY <1>1 DEF ScrapeInv, CallsInOrder, CallInOrder, InItsPlace, Numbered, Unleased
<1>4. CASE Go(c, "soloRender", "return") /\ UNCHANGED mine
  BY <1>1, <1>2, <1>4, PlainStep
     DEF Go, Steps, Leased, Unleased, Early, Registering, Publishing, Extracting, HasPage, Pending
<1>5. ASSUME NEW ttl \in PageTtls,
             Go(c, "soloRender", IF request[c].stores THEN "soloInvalidate" ELSE "extract"),
             mine' = [mine EXCEPT ![c].page = [observed |-> now, ttl |-> ttl]]
      PROVE  ScrapeInv'
  <2> DEFINE p == [observed |-> now, ttl |-> ttl]
             m == [page |-> p, generation |-> mine[c].generation]
             to == IF request[c].stores THEN "soloInvalidate" ELSE "extract"
  <2>1. p \in Pages /\ p.observed = now
    BY PageTtlsBounded DEF Pages, ScrapeInv, Typed
  <2> HIDE DEF p
  <2>2. /\ mine[c] \in [page : Pages, generation : Nat \cup {None}]
        /\ m \in [page : Pages, generation : Nat \cup {None}]
        /\ m.page = p /\ m.generation = mine[c].generation
    BY <2>1 DEF ScrapeInv, Typed
  <2>3. mine' = [mine EXCEPT ![c] = m]
    BY <1>5, <2>2 DEF p
  <2>4. at' = [at EXCEPT ![c] = to] /\ at'[c] = to /\ mine'[c] = m
    BY <1>5, <2>3 DEF Go, ScrapeInv, Typed
  <2> HIDE DEF m
  <2>5. CallInOrder(c)'
    BY <1>1, <1>2, <1>3, <2>2, <2>4
       DEF CallInOrder, InItsPlace, Numbered, SharesRender, Leased, Unleased, Early, Registering, Publishing
  <2>6. CASE mine[c].generation \in Nat
    <3>1. m \in [page : Pages, generation : Nat]
      BY <2>2, <2>6 DEF m
    <3>2. /\ \A time \in 0 .. MaxTime : ~Carries(m.generation, time)
          /\ \A d \in Callers \ {c} : at[d] \in Pending => mine[d].generation # m.generation
          /\ m.generation < nextGeneration /\ nextGeneration \in Nat
      BY <1>1, <2>2, <2>6, NoneIsNothingElse DEF ScrapeInv, Typed, DrawnAlone, Drawn, Pending
    <3>3. to \in Steps \ (Publishing \cup Pending) /\ to \notin Registering /\ at[c] # "send"
      BY <1>1 DEF Steps, Registering, Publishing, Pending
    <3>4. UNCHANGED <<renderVars, cache, request, warmVars, now>> /\ at' = [at EXCEPT ![c] = to]
      BY <1>1, <1>2, <2>4
    <3>5. nextGeneration' \in Nat /\ nextGeneration <= nextGeneration' /\ m.generation < nextGeneration'
      BY <1>2, <3>2
    <3> HIDE DEF to
    <3> QED
      BY <2>3, <2>5, <3>1, <3>2, <3>3, <3>4, <3>5, FreshStep
  <2>7. CASE mine[c].generation \notin Nat
    <3>1. \A d \in Callers \ {c} : lease'[d] = lease[d]
      BY <1>2
    <3>2. to = "extract"
      BY <1>3, <2>7
    <3> QED
      BY <1>1, <1>2, <2>2, <2>3, <2>4, <2>5, <2>7, <3>1, <3>2, RendersStay, CallStep
         DEF Steps, Registering, Publishing, Pending
  <2> QED
    BY <2>6, <2>7
<1> QED
  BY <1>1, <1>4, <1>5 DEF SoloRender

(* The first caller of a flight to prepare draws the generation, and the      *)
(* others find it there, with the page they have.                             *)
LEMMA PrepareStep ==
  ASSUME ScrapeInv, FP!IInv', NEW c \in Callers, Prepare(c)
  PROVE  ScrapeInv'
<1> DEFINE f == lease[c]
           mark == shared[f][request[c].cacheKey]
           m == [mine[c] EXCEPT !.generation = nextGeneration]
           n == [mine[c] EXCEPT !.generation = mark.generation]
<1>1. /\ at[c] = "prepare" /\ CacheStateFree(c)
      /\ UNCHANGED <<renderVars, cache, warmVars, request, now>>
  BY DEF Prepare
<1>2. CacheKnown /\ lease' = lease /\ flight' = flight /\ page' = page /\ shared' = shared
  BY <1>1, CacheIsKnown, RendersStay DEF ScrapeInv
<1>3. /\ f # None /\ mine[c].generation = None
      /\ flight[f].outcome = "Rendered" /\ mine[c].page = page[f]
  BY <1>1 DEF ScrapeInv, CallsInOrder, CallInOrder, InItsPlace, Numbered, SharesRender, Leased, Early
<1>4. f \in Flights /\ request[c].cacheKey \in Keys /\ mark \in Publications
  BY <1>3, HeldIsThere, RequestAssumption DEF ScrapeInv, HeldThere, Typed
<1>5. mine[c] \in [page : Pages, generation : Nat \cup {None}]
  BY DEF ScrapeInv, Typed
<1>6. CASE mark.generation = None
  <2>1. /\ at' = [at EXCEPT ![c] = "register"] /\ mine' = [mine EXCEPT ![c] = m]
        /\ nextGeneration' = nextGeneration + 1
    BY <1>6 DEF Prepare, Prepared, Go, Draw
  <2>2. m \in [page : Pages, generation : Nat] /\ m.generation = nextGeneration /\ m.page = mine[c].page
    BY <1>5, NextIsFresh
  <2> HIDE DEF m
  <2>3. at'[c] = "register" /\ mine'[c] = m
    BY <2>1 DEF ScrapeInv, Typed
  <2>4. CallInOrder(c)'
    BY <1>1, <1>2, <1>3, <1>6, <2>2, <2>3
       DEF CallInOrder, InItsPlace, Numbered, SharesRender, Leased, Unleased, Early, Registering, Extracting,
           Publishing
  <2>5. "register" \in Steps \ (Publishing \cup Pending) /\ at[c] # "send"
    BY <1>1 DEF Steps, Publishing, Pending
  <2>6. /\ nextGeneration' \in Nat /\ nextGeneration <= nextGeneration' /\ m.generation < nextGeneration'
        /\ \A time \in 0 .. MaxTime : ~Carries(m.generation, time)
        /\ \A d \in Callers \ {c} : at[d] \in Pending => mine[d].generation # m.generation
    BY <2>1, <2>2, NextIsFresh
  <2>7. m \in [page : Pages, generation : Nat]
    BY <2>2
  <2>8. UNCHANGED <<renderVars, cache, request, warmVars, now>> /\ CacheStateFree(c)
    BY <1>1
  <2> QED
    BY <2>1, <2>4, <2>5, <2>6, <2>7, <2>8, FreshStep
<1>7. CASE mark.generation # None
  <2>1. /\ at' = [at EXCEPT ![c] = "extract"] /\ mine' = [mine EXCEPT ![c] = n]
        /\ nextGeneration' = nextGeneration
    BY <1>7 DEF Prepare, Prepared, Go
  <2>2. n \in [page : Pages, generation : Nat \cup {None}] /\ n.generation = mark.generation /\ n.page = page[f]
        /\ n.generation \in Nat
    BY <1>3, <1>4, <1>5, <1>7 DEF Publications
  <2> HIDE DEF n
  <2>3. at'[c] = "extract" /\ mine'[c] = n
    BY <2>1 DEF ScrapeInv, Typed
  <2>4. CallInOrder(c)'
    BY <1>1, <1>2, <1>3, <2>2, <2>3
       DEF CallInOrder, InItsPlace, Numbered, SharesRender, Leased, Unleased, Early, Registering, Extracting,
           Publishing
  <2>5. Carries(n.generation, n.page.observed)
    BY <1>4, <2>2 DEF Carries
  <2> QED
    BY <1>1, <1>2, <2>1, <2>2, <2>4, <2>5, RendersStay, CallStep DEF Steps, Registering, Publishing, Pending
<1> QED
  BY <1>6, <1>7

-----------------------------------------------------------------------------
(* The steps in a flight's cache state.                                       *)

(* One mark of one flight changes.                                            *)
LEMMA MarkSet ==
  ASSUME shared \in [Flights -> [Keys -> Publications]],
         NEW f \in Flights, NEW k \in Keys, NEW mark \in Publications,
         shared' = [shared EXCEPT ![f][k] = mark]
  PROVE  /\ shared' \in [Flights -> [Keys -> Publications]]
         /\ \A h \in Flights, j \in Keys : shared'[h][j] = IF h = f /\ j = k THEN mark ELSE shared[h][j]
         /\ \A h \in Flights \ {f} : shared'[h] = shared[h]
<1> DEFINE marks == [shared[f] EXCEPT ![k] = mark]
<1>1. /\ marks \in [Keys -> Publications]
      /\ \A j \in Keys : marks[j] = IF j = k THEN mark ELSE shared[f][j]
  OBVIOUS
<1>2. shared' = [shared EXCEPT ![f] = marks]
  OBVIOUS
<1> HIDE DEF marks
<1>3. \A h \in Flights : shared'[h] = IF h = f THEN marks ELSE shared[h]
  BY <1>2
<1> QED
  BY <1>1, <1>2, <1>3

(* A mark on a flight whose page came is a mark on a flight that is there.    *)
LEMMA MarkedFlightIsThere ==
  ASSUME FP!IInv, MarksFollowFlights, UNCHANGED flight, NEW c \in Callers, lease[c] # None,
         flight[lease[c]].outcome = "Rendered",
         \A h \in Flights \ {lease[c]} : shared'[h] = shared[h]
  PROVE  MarksFollowFlights'
<1>1. flight[lease[c]] # FP!Dropped
  BY HeldIsThere DEF HeldThere
<1> SUFFICES ASSUME NEW h \in Flights
             PROVE  /\ flight'[h] = FP!Dropped => shared'[h] = Unprepared
                    /\ \A k \in Keys : shared'[h][k].generation # None => flight'[h].outcome = "Rendered"
  BY DEF MarksFollowFlights, FP!Dropped
<1>2. CASE h = lease[c]
  BY <1>1, <1>2
<1>3. CASE h # lease[c]
  BY <1>3 DEF MarksFollowFlights
<1> QED
  BY <1>2, <1>3

(* The caller that began the observation tells the others of its generation:  *)
(* none of them has one of its own.                                           *)
LEMMA InvalidateStep ==
  ASSUME ScrapeInv, FP!IInv', NEW c \in Callers, Invalidate(c)
  PROVE  ScrapeInv'
<1> DEFINE f == lease[c]
           k == request[c].cacheKey
           g == mine[c].generation
<1>1. /\ at[c] = "invalidate" /\ at' = [at EXCEPT ![c] = "extract"]
      /\ cache' = InvalidateObservation(cache, k, g)
      /\ shared' = [shared EXCEPT ![f][k].generation = g]
      /\ UNCHANGED <<flightVars, page, nextGeneration, warmVars, request, mine, now>>
  BY DEF Invalidate, Go
<1>2. /\ f # None /\ g \in Nat
      /\ flight[f].outcome = "Rendered" /\ mine[c].page = page[f]
  BY <1>1 DEF ScrapeInv, CallsInOrder, CallInOrder, InItsPlace, Numbered, SharesRender, Leased, Registering
<1>3. f \in Flights /\ k \in Keys
  BY <1>2, HeldIsThere, RequestAssumption DEF ScrapeInv, HeldThere, Typed
<1>4. CacheKnown /\ lease' = lease /\ flight' = flight
  BY <1>1, InvalidateThins, ThinnedIsKnown DEF ScrapeInv, Typed, flightVars
<1> DEFINE mark == [shared[f][k] EXCEPT !.generation = g]
<1>15. /\ mark \in Publications /\ mark.generation = g /\ mark.published = shared[f][k].published
       /\ shared' = [shared EXCEPT ![f][k] = mark]
  <2>1. shared[f][k] \in Publications
    BY <1>3 DEF ScrapeInv, Typed
  <2> QED
    BY <1>1, <1>2, <2>1 DEF Publications
<1> HIDE DEF mark
<1>16. /\ shared' \in [Flights -> [Keys -> Publications]]
       /\ \A h \in Flights, j \in Keys : shared'[h][j] = IF h = f /\ j = k THEN mark ELSE shared[h][j]
       /\ \A h \in Flights \ {f} : shared'[h] = shared[h]
  BY <1>3, <1>15, MarkSet DEF ScrapeInv, Typed
<1>5. \A h \in Flights, j \in Keys :
        /\ shared'[h][j].generation = IF h = f /\ j = k THEN g ELSE shared[h][j].generation
        /\ shared'[h][j].published = shared[h][j].published
  BY <1>15, <1>16
<1>6. \A d \in Callers : at'[d] = IF d = c THEN "extract" ELSE at[d]
  BY <1>1 DEF ScrapeInv, Typed
<1>7. Typed'
  BY <1>1, <1>4, <1>16 DEF ScrapeInv, Typed, CacheKnown, warmVars, Steps
<1>8. CallsInOrder'
  <2> SUFFICES ASSUME NEW d \in Callers
               PROVE  CallInOrder(d)'
    BY DEF CallsInOrder
  <2>1. CallInOrder(d) /\ CallInOrder(c)
    BY DEF ScrapeInv, CallsInOrder
  <2>2. InItsPlace(d)' /\ Numbered(d)'
    BY <1>1, <1>2, <1>4, <1>6, <2>1
       DEF CallInOrder, InItsPlace, Numbered, Leased, Unleased, Early, Registering, Publishing
  <2>3. SharesRender(d)'
    <3> SUFFICES ASSUME lease[d] # None
                 PROVE  SharesRender(d)'
      BY <1>4 DEF SharesRender
    <3>1. lease[d] \in Flights /\ request[d].cacheKey \in Keys
      BY HeldIsThere, RequestAssumption DEF ScrapeInv, HeldThere, Typed
    <3>2. CASE d = c
      BY <1>1, <1>2, <1>4, <1>5, <1>6, <3>1, <3>2 DEF SharesRender, Registering, Publishing
    <3>3. CASE d # c /\ ~(lease[d] = f /\ request[d].cacheKey = k)
      <4>1. shared'[lease[d]][request[d].cacheKey] = shared[lease[d]][request[d].cacheKey]
        BY <1>16, <3>1, <3>3
      <4> QED
        BY <1>1, <1>4, <1>6, <2>1, <3>3, <4>1 DEF CallInOrder, SharesRender
    <3>4. CASE d # c /\ lease[d] = f /\ request[d].cacheKey = k
      <4>1. shared[f][k].generation = None
        BY <1>1, <1>2, <2>1 DEF CallInOrder, SharesRender, Registering
      <4>2. at[d] \notin Registering
        BY <1>1, <1>2, <3>4 DEF ScrapeInv, OneRegisters, Registering
      <4>3. ~(at[d] \in Extracting /\ request[d].stores)
        BY <1>2, <2>1, <3>4, <4>1, NoneIsNothingElse
           DEF CallInOrder, SharesRender, Numbered, Extracting, Publishing
      <4> QED
        BY <1>1, <1>4, <1>5, <1>6, <2>1, <3>1, <3>4, <4>2, <4>3 DEF CallInOrder, SharesRender
    <3> QED
      BY <3>2, <3>3, <3>4
  <2> QED
    BY <2>2, <2>3 DEF CallInOrder
<1>9. OneRegisters' /\ OnePublisher'
  BY <1>1, <1>4, <1>6 DEF ScrapeInv, OneRegisters, OnePublisher, Registering
<1>10. MarksFollowFlights'
  BY <1>2, <1>4, <1>16, MarkedFlightIsThere DEF ScrapeInv
<1>11. NothingNew
  <2> SUFFICES ASSUME NEW n \in Nat, NEW time \in 0 .. MaxTime, Carries(n, time)'
               PROVE  Carries(n, time)
    BY DEF NothingNew
  <2>1. CASE \E d \in Callers : at'[d] \in HasPage /\ mine'[d].generation = n /\ mine'[d].page.observed = time
    BY <1>1, <1>6, <2>1 DEF Carries, HasPage, Registering, Extracting
  <2>2. CASE \E w \in Held' : w.generation = n /\ w.page.observed = time
    BY <1>1, <2>2 DEF Carries, Held, warmVars
  <2>3. CASE \E j \in DOMAIN cache'.entries :
               cache'.entries[j].generation = n /\ cache'.entries[j].observed = time
    BY <1>4, <2>3 DEF CacheKnown
  <2>4. CASE \E h \in Flights, j \in Keys : shared'[h][j].generation = n /\ page'[h].observed = time
    <3>1. PICK h \in Flights, j \in Keys : shared'[h][j].generation = n /\ page[h].observed = time
      BY <1>1, <2>4
    <3>2. CASE h = f /\ j = k
      <4>1. at[c] \in HasPage /\ mine[c].generation = n /\ mine[c].page.observed = time
        BY <1>1, <1>2, <1>5, <3>1, <3>2 DEF HasPage, Registering
      <4> QED
        BY <4>1 DEF Carries
    <3>3. CASE ~(h = f /\ j = k)
      BY <1>5, <3>1, <3>3 DEF Carries
    <3> QED
      BY <3>2, <3>3
  <2> QED
    BY <2>1, <2>2, <2>3, <2>4 DEF Carries, HasPage, Registering, Extracting, Publishing
<1>12. OnePage' /\ DrawnAlone' /\ Drawn'
  BY <1>1, <1>4, <1>6, <1>11, PagesKept DEF ScrapeInv, Typed, CacheKnown, Pending
<1>13. WarmBytesAccounted' /\ retained' <= MaxWarmBytes /\ Len(warmQueue') <= WarmCapacity
  BY <1>1, <1>6, WarmStays DEF ScrapeInv, warmVars
<1>14. EntryIsHonest'
  BY <1>4 DEF CacheKnown, EntryIsHonest
<1> QED
  BY <1>7, <1>8, <1>9, <1>10, <1>12, <1>13, <1>14 DEF ScrapeInv

(* The caller that claims the publication is the first: whoever is past the   *)
(* claim has left its mark.                                                   *)
LEMMA ClaimStep ==
  ASSUME ScrapeInv, FP!IInv', NEW c \in Callers, Claim(c)
  PROVE  ScrapeInv'
<1> DEFINE f == lease[c]
           k == request[c].cacheKey
<1>1. /\ at[c] = "claim"
      /\ UNCHANGED <<flightVars, page, cacheVars, warmVars, request, mine, now>>
  BY DEF Claim, Go
<1>2. /\ f # None /\ mine[c].generation \in Nat
      /\ flight[f].outcome = "Rendered" /\ mine[c].page = page[f]
  BY <1>1 DEF ScrapeInv, CallsInOrder, CallInOrder, InItsPlace, Numbered, SharesRender, Leased, Extracting
<1>3. f \in Flights /\ k \in Keys
  BY <1>2, HeldIsThere, RequestAssumption DEF ScrapeInv, HeldThere, Typed
<1>4. CacheKnown /\ nextGeneration' = nextGeneration /\ lease' = lease /\ flight' = flight
  BY <1>1, CacheIsKnown DEF ScrapeInv, flightVars, cacheVars
<1>5. CASE /\ at' = [at EXCEPT ![c] = "return"] /\ shared' = shared
  BY <1>1, <1>4, <1>5, PlainStep
     DEF Go, Steps, Leased, Unleased, Early, Registering, Publishing, Extracting, HasPage, Pending, renderVars
<1>6. CASE /\ at' = [at EXCEPT ![c] = "insert"] /\ ~shared[f][k].published
           /\ shared' = [shared EXCEPT ![f][k].published = TRUE]
  <2> DEFINE mark == [shared[f][k] EXCEPT !.published = TRUE]
  <2>12. /\ mark \in Publications /\ mark.generation = shared[f][k].generation /\ mark.published
         /\ shared' = [shared EXCEPT ![f][k] = mark]
    <3>1. shared[f][k] \in Publications
      BY <1>3 DEF ScrapeInv, Typed
    <3> QED
      BY <1>6, <3>1 DEF Publications
  <2> HIDE DEF mark
  <2>13. /\ shared' \in [Flights -> [Keys -> Publications]]
         /\ \A h \in Flights, j \in Keys : shared'[h][j] = IF h = f /\ j = k THEN mark ELSE shared[h][j]
         /\ \A h \in Flights \ {f} : shared'[h] = shared[h]
    BY <1>3, <2>12, MarkSet DEF ScrapeInv, Typed
  <2>1. \A h \in Flights, j \in Keys :
          /\ shared[h][j].published \/ (h = f /\ j = k) => shared'[h][j].published
          /\ shared'[h][j].generation = shared[h][j].generation
    BY <2>12, <2>13
  <2>2. \A d \in Callers : at'[d] = IF d = c THEN "insert" ELSE at[d]
    BY <1>6 DEF ScrapeInv, Typed
  <2>3. Typed'
    BY <1>1, <1>4, <1>6, <2>13 DEF ScrapeInv, Typed, CacheKnown, warmVars, Steps
  <2>4. CallsInOrder'
    <3> SUFFICES ASSUME NEW d \in Callers
                 PROVE  CallInOrder(d)'
      BY DEF CallsInOrder
    <3>1. CallInOrder(d)
      BY DEF ScrapeInv, CallsInOrder
    <3>2. InItsPlace(d)' /\ Numbered(d)'
      BY <1>1, <1>2, <1>4, <2>2, <3>1
         DEF CallInOrder, InItsPlace, Numbered, Leased, Unleased, Early, Registering, Publishing
    <3>3. SharesRender(d)'
      <4>1. lease[d] # None => lease[d] \in Flights /\ request[d].cacheKey \in Keys
        BY HeldIsThere, RequestAssumption DEF ScrapeInv, HeldThere, Typed
      <4>2. CASE d = c
        BY <1>1, <1>2, <1>3, <1>4, <2>1, <2>2, <3>1, <4>1, <4>2
           DEF CallInOrder, SharesRender, Registering, Extracting, Publishing
      <4>3. CASE d # c
        BY <1>1, <1>4, <2>1, <2>2, <3>1, <4>1, <4>3 DEF CallInOrder, SharesRender
      <4> QED
        BY <4>2, <4>3
    <3> QED
      BY <3>2, <3>3 DEF CallInOrder
  <2>5. OneRegisters'
    BY <1>1, <1>4, <2>2 DEF ScrapeInv, OneRegisters, Registering
  <2>6. OnePublisher'
    <3>1. \A d \in Callers : lease[d] = f /\ request[d].cacheKey = k => at[d] \notin Publishing
      BY <1>2, <1>6 DEF ScrapeInv, CallsInOrder, CallInOrder, SharesRender
    <3> QED
      BY <1>1, <1>4, <2>2, <3>1 DEF ScrapeInv, OnePublisher, Publishing
  <2>7. MarksFollowFlights'
    BY <1>2, <1>4, <2>13, MarkedFlightIsThere DEF ScrapeInv
  <2>8. NothingNew
    BY <1>1, <1>4, <2>1, <2>2
       DEF NothingNew, Carries, Held, warmVars, CacheKnown, HasPage, Registering, Extracting, Publishing
  <2>9. OnePage' /\ DrawnAlone' /\ Drawn'
    BY <1>1, <1>4, <2>2, <2>8, PagesKept DEF ScrapeInv, Typed, CacheKnown, Pending
  <2>10. WarmBytesAccounted' /\ retained' <= MaxWarmBytes /\ Len(warmQueue') <= WarmCapacity
    BY <1>1, <2>2, WarmStays DEF ScrapeInv, warmVars
  <2>11. EntryIsHonest'
    BY <1>4 DEF CacheKnown, EntryIsHonest
  <2> QED
    BY <2>3, <2>4, <2>5, <2>6, <2>7, <2>9, <2>10, <2>11 DEF ScrapeInv
<1> QED
  BY <1>5, <1>6 DEF Claim, Prepared, Go

-----------------------------------------------------------------------------
(* The steps to the warmer, and its own.                                      *)

(* There are finitely many calls.                                             *)
LEMMA FiniteCallers == IsFiniteSet(Callers)
BY FlightsAssumption DEF F!CallersAssumption, F!IsFiniteSet, IsFiniteSet

(* One call more is about to send.                                            *)
LEMMA OneMoreSends ==
  ASSUME at \in [Callers -> Steps], NEW c \in Callers, at[c] # "send", at' = [at EXCEPT ![c] = "send"]
  PROVE  /\ Cardinality({d \in Callers : at[d] = "send"}) \in Nat
         /\ Cardinality({d \in Callers : at'[d] = "send"}) = Cardinality({d \in Callers : at[d] = "send"}) + 1
<1> DEFINE S == {d \in Callers : at[d] = "send"}
<1>1. IsFiniteSet(S) /\ c \notin S
  BY FiniteCallers, FS_Subset
<1>2. {d \in Callers : at'[d] = "send"} = S \cup {c}
  OBVIOUS
<1> HIDE DEF S
<1>3. Cardinality(S) \in Nat /\ Cardinality(S \cup {c}) = Cardinality(S) + 1
  BY <1>1, FS_AddElement, FS_CardinalityType
<1> QED
  BY <1>2, <1>3 DEF S

(* One call less is about to send.                                            *)
LEMMA OneSendsNoMore ==
  ASSUME at \in [Callers -> Steps], NEW c \in Callers, at[c] = "send",
         at' = [at EXCEPT ![c] = "return"]
  PROVE  /\ Cardinality({d \in Callers : at[d] = "send"}) \in Nat
         /\ Cardinality({d \in Callers : at'[d] = "send"}) = Cardinality({d \in Callers : at[d] = "send"}) - 1
<1> DEFINE S == {d \in Callers : at[d] = "send"}
<1>1. IsFiniteSet(S) /\ c \in S
  BY FiniteCallers, FS_Subset
<1>2. {d \in Callers : at'[d] = "send"} = S \ {c}
  OBVIOUS
<1> HIDE DEF S
<1>3. Cardinality(S) \in Nat /\ Cardinality(S \ {c}) = Cardinality(S) - 1
  BY <1>1, FS_RemoveElement, FS_CardinalityType
<1> QED
  BY <1>2, <1>3 DEF S

(* The bytes of n pages.                                                      *)
LEMMA PagesBytes ==
  /\ PageBytes \in Nat \ {0}
  /\ \A n \in Int : PageBytes * (n + 1) = PageBytes * n + PageBytes
  /\ \A n \in Int : PageBytes * (n - 1) = PageBytes * n - PageBytes
<1>1. PageBytes \in Nat \ {0}
  BY WarmAssumption
<1>2. \A m, n \in Int : m * (n + 1) = m * n + m /\ m * (n - 1) = m * n - m
  OBVIOUS
<1> QED
  BY <1>1, <1>2

(* A call that published hands its page to the warmer, or does not.           *)
LEMMA SenderStep ==
  ASSUME ScrapeInv, FP!IInv', UNCHANGED <<renderVars, cacheVars, request, mine, now, warming>>,
         NEW c \in Callers, at[c] \in Publishing,
         NEW to \in {"send", "return"}, at' = [at EXCEPT ![c] = to],
         warmQueue' \in Seq(Jobs), ToSet(warmQueue') \subseteq ToSet(warmQueue) \cup {WarmJob(c)},
         WarmBytesAccounted', retained' <= MaxWarmBytes, Len(warmQueue') <= WarmCapacity
  PROVE  ScrapeInv'
<1>1. \A d \in Callers : at'[d] = IF d = c THEN to ELSE at[d]
  BY DEF ScrapeInv, Typed
<1>2. /\ FlightsStay /\ lease' = lease /\ flight' = flight /\ page' = page /\ shared' = shared
      /\ CacheKnown
  BY RendersStay, CacheIsKnown DEF ScrapeInv, cacheVars
<1>3. Typed'
  BY <1>2 DEF ScrapeInv, Typed, cacheVars, Steps
<1>4. CallInOrder(c)'
  <2>1. CallInOrder(c)
    BY DEF ScrapeInv, CallsInOrder
  <2> QED
    BY <1>1, <1>2, <2>1
       DEF CallInOrder, InItsPlace, Numbered, SharesRender, Leased, Unleased, Early, Registering, Extracting,
           Publishing
<1>5. CallsInOrder' /\ OneRegisters' /\ OnePublisher' /\ MarksFollowFlights'
  BY <1>1, <1>2, <1>4, CallMoves DEF ScrapeInv, Registering
<1>6. NothingNew
  <2>1. \A d \in Callers : at'[d] \in HasPage /\ mine'[d].generation \in Nat
          => Carries(mine'[d].generation, mine'[d].page.observed)
    BY <1>1 DEF Carries, HasPage, Registering, Extracting, Publishing
  <2>2. \A w \in Held' : Carries(w.generation, w.page.observed)
    <3> SUFFICES ASSUME NEW w \in Held'
                 PROVE  Carries(w.generation, w.page.observed)
      OBVIOUS
    <3>1. w \in Held \/ w = WarmJob(c)
      BY DEF Held
    <3>2. CASE w \in Held
      BY <3>2 DEF Carries
    <3>3. CASE w = WarmJob(c)
      BY <3>3 DEF Carries, WarmJob, HasPage, Extracting
    <3> QED
      BY <3>1, <3>2, <3>3
  <2> QED
    BY <1>2, <2>1, <2>2, KnownPages DEF ScrapeInv, CacheKnown
<1>7. OnePage' /\ DrawnAlone' /\ Drawn'
  BY <1>1, <1>2, <1>6, PagesKept DEF ScrapeInv, Typed, CacheKnown, cacheVars, Pending
<1>8. EntryIsHonest'
  BY <1>2 DEF CacheKnown, EntryIsHonest
<1> QED
  BY <1>3, <1>5, <1>7, <1>8 DEF ScrapeInv

LEMMA ReserveStep ==
  ASSUME ScrapeInv, FP!IInv', NEW c \in Callers, Reserve(c)
  PROVE  ScrapeInv'
<1> DEFINE others == IF warming # None /\ ~warming.extracted THEN 1 ELSE 0
           senders == Cardinality({d \in Callers : at[d] = "send"})
<1>1. at[c] = "reserve" /\ UNCHANGED <<renderVars, cacheVars, warmQueue, warming, request, mine, now>>
  BY DEF Reserve, Go
<1>2. at \in [Callers -> Steps] /\ retained = PageBytes * (Len(warmQueue) + senders + others)
  BY DEF ScrapeInv, Typed, WarmBytesAccounted
<1>3. Len(warmQueue) \in Nat
  BY DEF ScrapeInv, Typed
<1>4. CASE Go(c, "reserve", "send") /\ retained + PageBytes <= MaxWarmBytes /\ retained' = retained + PageBytes
  <2>1. senders \in Nat /\ senders' = senders + 1
    BY <1>1, <1>2, <1>4, OneMoreSends DEF Go
  <2>2. others' = others /\ others \in Nat /\ Len(warmQueue') = Len(warmQueue)
    BY <1>1
  <2> HIDE DEF senders, others
  <2>3. Len(warmQueue) + senders + others \in Int
    BY <1>3, <2>1, <2>2
  <2>4. retained' = PageBytes * ((Len(warmQueue) + senders + others) + 1)
    BY <1>2, <1>4, <2>3, PagesBytes
  <2>5. Len(warmQueue') + senders' + others' = (Len(warmQueue) + senders + others) + 1
    BY <1>3, <2>1, <2>2
  <2>6. WarmBytesAccounted'
    BY <2>4, <2>5 DEF WarmBytesAccounted, senders, others
  <2> QED
    BY <1>1, <1>4, <2>6, SenderStep DEF ScrapeInv, Typed, Go, Publishing
<1>5. CASE Go(c, "reserve", "return") /\ retained' = retained
  BY <1>1, <1>5, CacheIsKnown, PlainStep
     DEF Go, Steps, Leased, Unleased, Early, Registering, Publishing, Extracting, HasPage, Pending, ScrapeInv,
         cacheVars, warmVars
<1> QED
  BY <1>4, <1>5 DEF Reserve

LEMMA SendStep ==
  ASSUME ScrapeInv, FP!IInv', NEW c \in Callers, Send(c)
  PROVE  ScrapeInv'
<1> DEFINE others == IF warming # None /\ ~warming.extracted THEN 1 ELSE 0
           senders == Cardinality({d \in Callers : at[d] = "send"})
<1>1. /\ at[c] = "send" /\ at' = [at EXCEPT ![c] = "return"]
      /\ UNCHANGED <<renderVars, cacheVars, warming, request, mine, now>>
  BY DEF Send, Go
<1>2. /\ at \in [Callers -> Steps] /\ retained = PageBytes * (Len(warmQueue) + senders + others)
      /\ warmQueue \in Seq(Jobs) /\ Len(warmQueue) \in Nat /\ Len(warmQueue) <= WarmCapacity
      /\ retained <= MaxWarmBytes /\ {WarmCapacity, MaxWarmBytes} \subseteq Nat
  BY WarmAssumption DEF ScrapeInv, Typed, WarmBytesAccounted
<1>3. senders \in Nat /\ senders' = senders - 1
  BY <1>1, <1>2, OneSendsNoMore
<1>4. others' = others /\ others \in Nat
  BY <1>1
<1>5. WarmJob(c) \in Jobs
  <2>1. mine[c].generation \in Nat
    BY <1>1 DEF ScrapeInv, CallsInOrder, CallInOrder, Numbered, Publishing
  <2> QED
    BY <2>1, RequestAssumption DEF WarmJob, Jobs, ScrapeInv, Typed
<1> HIDE DEF senders, others
<1>6. CASE /\ Len(warmQueue) < WarmCapacity /\ warmQueue' = Append(warmQueue, WarmJob(c))
           /\ retained' = retained
  <2>1. /\ warmQueue' \in Seq(Jobs) /\ Len(warmQueue') = Len(warmQueue) + 1
        /\ ToSet(warmQueue') \subseteq ToSet(warmQueue) \cup {WarmJob(c)}
    BY <1>2, <1>5, <1>6 DEF ToSet
  <2>2. Len(warmQueue') + senders' + others' = Len(warmQueue) + senders + others
    BY <1>2, <1>3, <1>4, <2>1
  <2>3. WarmBytesAccounted'
    BY <1>2, <1>6, <2>2 DEF WarmBytesAccounted, senders, others
  <2> QED
    <3>1. retained' <= MaxWarmBytes /\ Len(warmQueue') <= WarmCapacity
      BY <1>2, <1>6, <2>1
    <3>2. at[c] \in Publishing /\ "return" \in {"send", "return"}
      BY <1>1 DEF Publishing
    <3>3. UNCHANGED <<renderVars, cacheVars, request, mine, now, warming>>
      BY <1>1
    <3> QED
      BY <1>1, <2>1, <2>3, <3>1, <3>2, <3>3, SenderStep
<1>7. CASE warmQueue' = warmQueue /\ retained' = retained - PageBytes
  <2>1. Len(warmQueue') + senders' + others' = (Len(warmQueue) + senders + others) - 1
    BY <1>2, <1>3, <1>4, <1>7
  <2>2. Len(warmQueue) + senders + others \in Int
    BY <1>2, <1>3, <1>4
  <2>3. retained' = PageBytes * ((Len(warmQueue) + senders + others) - 1)
    BY <1>2, <1>7, <2>2, PagesBytes
  <2>4. WarmBytesAccounted'
    BY <2>1, <2>3 DEF WarmBytesAccounted, senders, others
  <2>5. retained' <= MaxWarmBytes
    <3>1. retained \in Int
      <4>1. \A n \in Int : PageBytes * n \in Int
        BY PagesBytes
      <4> QED
        BY <1>2, <2>2, <4>1
    <3> QED
      BY <1>2, <1>7, <3>1, PagesBytes
  <2> QED
    BY <1>1, <1>2, <1>7, <2>4, <2>5, SenderStep DEF Publishing
<1> QED
  BY <1>6, <1>7 DEF Send

(* The warmer works on what it holds, or time passes.                         *)
LEMMA WarmerStep ==
  ASSUME ScrapeInv, FP!IInv', UNCHANGED <<renderVars, nextGeneration, callVars>>, CacheKnown,
         now' \in 0 .. MaxTime, Held' \subseteq Held,
         warmQueue' \in Seq(Jobs), warming' \in Tasks \cup {None},
         WarmBytesAccounted', retained' <= MaxWarmBytes, Len(warmQueue') <= WarmCapacity
  PROVE  ScrapeInv'
<1>1. UNCHANGED <<at, mine, request>>
  BY DEF callVars
<1>2. FlightsStay /\ lease' = lease /\ flight' = flight /\ page' = page /\ shared' = shared
  BY RendersStay
<1>3. Typed'
  BY <1>1, <1>2 DEF ScrapeInv, Typed, CacheKnown
<1>4. CallsInOrder'
  BY <1>1, <1>2 DEF ScrapeInv, CallsInOrder, CallInOrder, InItsPlace, Numbered, SharesRender
<1>5. OneRegisters' /\ OnePublisher' /\ MarksFollowFlights'
  BY <1>1, <1>2, MarksStay DEF ScrapeInv, OneRegisters, OnePublisher
<1>6. NothingNew
  <2>1. \A d \in Callers : at'[d] \in HasPage /\ mine'[d].generation \in Nat
          => Carries(mine'[d].generation, mine'[d].page.observed)
    BY <1>1 DEF Carries
  <2>2. \A w \in Held' : Carries(w.generation, w.page.observed)
    BY DEF Carries
  <2> QED
    BY <1>2, <2>1, <2>2, KnownPages DEF ScrapeInv, CacheKnown
<1>7. OnePage' /\ DrawnAlone' /\ Drawn'
  BY <1>1, <1>6, PagesKept DEF ScrapeInv, Typed, CacheKnown
<1>8. EntryIsHonest'
  BY DEF CacheKnown, EntryIsHonest
<1> QED
  BY <1>3, <1>4, <1>5, <1>7, <1>8 DEF ScrapeInv

LEMMA WarmReceiveStep ==
  ASSUME ScrapeInv, FP!IInv', WarmReceive
  PROVE  ScrapeInv'
<1> DEFINE senders == Cardinality({d \in Callers : at[d] = "send"})
<1>1. /\ warming = None /\ warmQueue # <<>> /\ warmQueue' = Tail(warmQueue)
      /\ warming' = [job |-> Head(warmQueue), extracted |-> FALSE]
      /\ UNCHANGED <<renderVars, cacheVars, retained, callVars, now>>
  BY DEF WarmReceive
<1>2. warmQueue \in Seq(Jobs) /\ Head(warmQueue) \in Jobs
  BY <1>1 DEF ScrapeInv, Typed
<1>3. warming' \in Tasks /\ warming' # None /\ warming'.job = Head(warmQueue) /\ ~warming'.extracted
  <2> DEFINE task == [job |-> Head(warmQueue), extracted |-> FALSE]
  <2>1. task \in Tasks /\ task.job = Head(warmQueue) /\ ~task.extracted
    BY <1>2 DEF Tasks
  <2> HIDE DEF task
  <2>2. task # None
    BY <2>1, NoneIsNothingElse
  <2> QED
    BY <1>1, <2>1, <2>2 DEF task
<1>4. /\ warmQueue' \in Seq(Jobs) /\ Len(warmQueue') = Len(warmQueue) - 1 /\ Len(warmQueue) \in Nat
      /\ ToSet(warmQueue') \cup {Head(warmQueue)} \subseteq ToSet(warmQueue)
  BY <1>1, <1>2 DEF ToSet
<1>5. senders \in Nat /\ senders' = senders
  BY <1>1, FiniteCallers, FS_Subset, FS_CardinalityType DEF callVars
<1>6. Held' \subseteq Held
  BY <1>1, <1>3, <1>4 DEF Held
<1>7. WarmBytesAccounted'
  <2>1. retained = PageBytes * (Len(warmQueue) + senders + 0)
    BY <1>1 DEF ScrapeInv, WarmBytesAccounted
  <2> HIDE DEF senders
  <2>2. Len(warmQueue') + senders' + 1 = Len(warmQueue) + senders + 0
    BY <1>4, <1>5
  <2>3. retained' = PageBytes * (Len(warmQueue') + senders' + 1)
    BY <1>1, <2>1, <2>2
  <2> QED
    BY <1>3, <2>3 DEF WarmBytesAccounted, senders
<1>8. CacheKnown /\ nextGeneration' = nextGeneration
  BY <1>1, CacheIsKnown DEF ScrapeInv, cacheVars
<1>9. retained' <= MaxWarmBytes /\ Len(warmQueue') <= WarmCapacity /\ now' \in 0 .. MaxTime
  BY <1>1, <1>4, WarmAssumption DEF ScrapeInv, Typed
<1> HIDE DEF senders
<1> QED
  BY <1>1, <1>3, <1>4, <1>6, <1>7, <1>8, <1>9, WarmerStep

LEMMA WarmExtractStep ==
  ASSUME ScrapeInv, FP!IInv', WarmExtract
  PROVE  ScrapeInv'
<1> DEFINE senders == Cardinality({d \in Callers : at[d] = "send"})
<1>1. /\ warming # None /\ ~warming.extracted /\ retained' = retained - PageBytes
      /\ warming' \in {None, [warming EXCEPT !.extracted = TRUE]}
      /\ UNCHANGED <<renderVars, cacheVars, warmQueue, callVars, now>>
  BY DEF WarmExtract
<1>2. warming \in Tasks /\ warmQueue \in Seq(Jobs) /\ Len(warmQueue) \in Nat
  BY <1>1 DEF ScrapeInv, Typed
<1>3. warming' = None \/ (warming' \in Tasks /\ warming'.job = warming.job /\ warming'.extracted)
  BY <1>1, <1>2 DEF Tasks
<1>5. senders \in Nat /\ senders' = senders
  BY <1>1, FiniteCallers, FS_Subset, FS_CardinalityType DEF callVars
<1>6. Held' \subseteq Held
  BY <1>1, <1>3 DEF Held
<1>7. /\ retained = PageBytes * (Len(warmQueue) + senders + 1)
      /\ retained' = PageBytes * (Len(warmQueue') + senders' + 0)
  <2>1. retained = PageBytes * (Len(warmQueue) + senders + 1)
    BY <1>1 DEF ScrapeInv, WarmBytesAccounted
  <2> HIDE DEF senders
  <2>2. Len(warmQueue) + senders + 0 = (Len(warmQueue) + senders + 1) - 1
    BY <1>2, <1>5
  <2>3. retained' = PageBytes * ((Len(warmQueue) + senders + 1) - 1)
    BY <1>1, <1>2, <1>5, <2>1, PagesBytes
  <2> QED
    BY <1>1, <1>5, <2>1, <2>2, <2>3
<1>8. WarmBytesAccounted'
  BY <1>3, <1>7 DEF WarmBytesAccounted
<1> HIDE DEF senders
<1>9. retained' <= MaxWarmBytes
  <2>1. retained \in Int
    <3>1. \A n \in Int : PageBytes * n \in Int
      BY PagesBytes
    <3> QED
      BY <1>2, <1>5, <1>7, <3>1
  <2>2. retained <= MaxWarmBytes
    BY DEF ScrapeInv
  <2>3. PageBytes \in Nat /\ MaxWarmBytes \in Nat
    BY WarmAssumption
  <2> QED
    BY <1>1, <2>1, <2>2, <2>3
<1>10. CacheKnown /\ nextGeneration' = nextGeneration
  BY <1>1, CacheIsKnown DEF ScrapeInv, cacheVars
<1>11. Len(warmQueue') <= WarmCapacity /\ now' \in 0 .. MaxTime /\ warmQueue' \in Seq(Jobs)
  BY <1>1 DEF ScrapeInv, Typed
<1> QED
  BY <1>1, <1>3, <1>6, <1>8, <1>9, <1>10, <1>11, WarmerStep

(* The entry a warm job renews has the job's generation, and so its page.     *)
LEMMA WarmInsertStep ==
  ASSUME ScrapeInv, FP!IInv', WarmInsert
  PROVE  ScrapeInv'
<1> DEFINE k == warming.job.key
           g == warming.job.generation
           p == warming.job.page
           entry == WarmedEntry(cache, k, FullDocument(p), DocumentSize, now)
<1>1. /\ warming # None /\ warming.extracted /\ warming' = None
      /\ UNCHANGED <<renderVars, nextGeneration, warmQueue, retained, callVars, now>>
      /\ \/ cache' = cache
         \/ WarmAccepted(cache, k, g, DocumentSize, now) /\ cache' = InsertEntry(cache, k, entry, now)
  BY DEF WarmInsert
<1>2. warming \in Tasks /\ warming.job \in Held /\ p \in Pages
  BY <1>1 DEF ScrapeInv, Typed, Tasks, Jobs, Held
<1>3. CacheKnown
  <2>1. CASE cache' = cache
    BY <2>1, CacheIsKnown DEF ScrapeInv
  <2>2. CASE WarmAccepted(cache, k, g, DocumentSize, now) /\ cache' = InsertEntry(cache, k, entry, now)
    <3> DEFINE old == cache.entries[k]
    <3>1. k \in DOMAIN cache.entries /\ old.generation = g /\ IsCache(cache)
      BY <2>2 DEF WarmAccepted, ScrapeInv, Typed
    <3>2. g \in Nat /\ old.observed \in 0 .. MaxTime /\ IsEntry(old)
      BY <3>1 DEF ScrapeInv, Drawn, Typed
    <3>3. old.observed = p.observed
      <4>1. Carries(g, old.observed) /\ Carries(g, p.observed)
        BY <1>2, <3>1 DEF Carries
      <4>2. p.observed \in 0 .. MaxTime
        BY <1>2 DEF Pages
      <4> HIDE DEF p, g, k, old
      <4> QED
        BY <3>2, <4>1, <4>2 DEF ScrapeInv, OnePage
    <3>4. /\ IsEntry(entry) /\ entry.generation = g /\ entry.observed = old.observed
          /\ entry.doc = FullDocument(p) /\ entry.formats = Formats
      BY <3>1, <3>2 DEF WarmedEntry, IsEntry
    <3>5. entry.doc.observed = p.observed /\ entry.formats \subseteq entry.doc.has
      BY <3>4 DEF FullDocument
    <3>6. /\ IsCache(cache') /\ DOMAIN cache'.entries \subseteq DOMAIN cache.entries \cup {k}
          /\ \A j \in DOMAIN cache'.entries : cache'.entries[j] = IF j = k THEN entry ELSE cache.entries[j]
      <4> HIDE DEF entry, k
      <4> QED
        BY <2>2, <3>1, InsertEffect
    <3>7. Carries(g, old.observed)
      BY <3>1 DEF Carries
    <3>8. \A j \in DOMAIN cache.entries :
            Carries(cache.entries[j].generation, cache.entries[j].observed)
      BY DEF Carries
    <3> HIDE DEF entry, g, p, k, old
    <3> QED
      BY <3>1, <3>2, <3>3, <3>4, <3>5, <3>6, <3>7, <3>8
         DEF CacheKnown, ScrapeInv, Typed, Drawn, EntryIsHonest
  <2> QED
    BY <1>1, <2>1, <2>2
<1>4. Held' \subseteq Held
  BY <1>1 DEF Held
<1>5. WarmBytesAccounted'
  BY <1>1 DEF ScrapeInv, WarmBytesAccounted, callVars
<1> QED
  BY <1>1, <1>3, <1>4, <1>5, WarmerStep DEF ScrapeInv, Typed

LEMMA TickStep ==
  ASSUME ScrapeInv, FP!IInv', Tick
  PROVE  ScrapeInv'
<1>1. /\ UNCHANGED <<renderVars, cacheVars, warmVars, callVars>>
      /\ now' \in 0 .. MaxTime
  BY TimeAssumption DEF Tick, ScrapeInv, Typed
<1>2. CacheKnown /\ nextGeneration' = nextGeneration
  BY <1>1, CacheIsKnown DEF ScrapeInv, cacheVars
<1>3. WarmBytesAccounted' /\ Held' \subseteq Held
  BY <1>1 DEF ScrapeInv, WarmBytesAccounted, Held, callVars, warmVars
<1> QED
  BY <1>1, <1>2, <1>3, WarmerStep DEF ScrapeInv, Typed, warmVars

-----------------------------------------------------------------------------
(* The steps of the flights.                                                  *)

(* A step of the flights that drops none and undoes no render.                *)
LEMMA MarksUntouched ==
  ASSUME ScrapeInv, UNCHANGED <<page, shared>>,
         \A f \in Flights : flight'[f] = FP!Dropped => flight[f] = FP!Dropped,
         \A f \in Flights : flight[f].outcome = "Rendered" => flight'[f].outcome = "Rendered"
  PROVE  /\ FlightsStay
         /\ page' \in [Flights -> Pages] /\ shared' \in [Flights -> [Keys -> Publications]]
BY DEF ScrapeInv, Typed, FlightsStay, FlightStays, MarksFollowFlights

(* What hangs on a flight goes with it.                                       *)
LEMMA MarksDropped ==
  ASSUME ScrapeInv, DropWithFlight,
         \A f \in Flights : flight'[f] # FP!Dropped /\ flight[f].outcome = "Rendered"
           => flight'[f].outcome = "Rendered"
  PROVE  /\ FlightsStay
         /\ page' \in [Flights -> Pages] /\ shared' \in [Flights -> [Keys -> Publications]]
<1>1. \A f \in Flights :
        /\ page'[f] = IF flight'[f] = FP!Dropped THEN NoPage ELSE page[f]
        /\ shared'[f] = IF flight'[f] = FP!Dropped THEN Unprepared ELSE shared[f]
  BY DEF DropWithFlight, F!Dropped, FP!Dropped
<1>2. FlightsStay
  BY <1>1 DEF FlightsStay, FlightStays
<1>3. NoPage \in Pages /\ Unprepared \in [Keys -> Publications]
  BY TimeAssumption, BoundsAssumption DEF NoPage, Pages, Unprepared, Publications
<1>4. /\ page' = [f \in Flights |-> IF flight'[f] = F!Dropped THEN NoPage ELSE page[f]]
      /\ shared' = [f \in Flights |-> IF flight'[f] = F!Dropped THEN Unprepared ELSE shared[f]]
  BY DEF DropWithFlight
<1>5. \A f \in Flights : page[f] \in Pages /\ shared[f] \in [Keys -> Publications]
  BY DEF ScrapeInv, Typed
<1>6. page' \in [Flights -> Pages] /\ shared' \in [Flights -> [Keys -> Publications]]
  BY <1>3, <1>4, <1>5
<1> QED
  BY <1>2, <1>6

(* A call that takes a lease, or works with the one it has, on its way to the *)
(* render.                                                                    *)
LEMMA EarlyStep ==
  ASSUME ScrapeInv, FP!IInv', FlightsStay, UNCHANGED <<page, shared, cacheVars, warmVars, request, mine, now>>,
         page' \in [Flights -> Pages], shared' \in [Flights -> [Keys -> Publications]],
         NEW c \in Callers, \A d \in Callers \ {c} : lease'[d] = lease[d], lease'[c] # None,
         at[c] \in {"acquire", "retry", "spawn"},
         NEW to \in {"relookup", "retry", "spawn", "wait", "return"}, at' = [at EXCEPT ![c] = to]
  PROVE  ScrapeInv'
<1>1. mine[c] \in [page : Pages, generation : Nat \cup {None}] /\ mine' = [mine EXCEPT ![c] = mine[c]]
  BY DEF ScrapeInv, Typed
<1>2. at'[c] = to /\ mine'[c] = mine[c] /\ mine[c].generation = None
  BY DEF ScrapeInv, Typed, CallsInOrder, CallInOrder, Numbered, Early
<1>3. CallInOrder(c)'
  BY <1>2
     DEF CallInOrder, InItsPlace, Numbered, SharesRender, Leased, Unleased, Early, Registering, Extracting,
         Publishing
<1>4. CacheKnown /\ UNCHANGED <<request, nextGeneration, warmVars, now>>
  BY CacheIsKnown DEF ScrapeInv, cacheVars
<1>5. /\ to \in Steps /\ "send" \notin {at[c], to}
      /\ to \notin Registering \cup Publishing \cup HasPage \cup Pending
  BY DEF Steps, Registering, Publishing, HasPage, Extracting, Pending
<1> QED
  BY <1>1, <1>3, <1>4, <1>5, CallStep

LEMMA JoinStep ==
  ASSUME ScrapeInv, FP!IInv', NEW c \in Callers, Join(c)
  PROVE  ScrapeInv'
<1> DEFINE k == request[c].flightKey
<1>1. /\ FP!Join(c, k) /\ at[c] = "acquire" /\ at' = [at EXCEPT ![c] = "wait"]
      /\ UNCHANGED <<page, shared, cacheVars, warmVars, request, mine, now>>
  BY SameFlights, RequestAssumption DEF Join, Go, ScrapeInv, Typed
<1>2. k \in FlightKeys /\ FP!TypeOK
  BY RequestAssumption DEF ScrapeInv, Typed, FP!IInv
<1> HIDE DEF k
<1>3. /\ entries[k] \in Flights /\ lease' = [lease EXCEPT ![c] = entries[k]]
      /\ flight' = [flight EXCEPT ![entries[k]].leases = @ + 1]
      /\ flight \in [Flights -> FP!FlightRecords] /\ lease \in [Callers -> Flights \cup {None}]
  BY <1>1, <1>2 DEF FP!Join, FP!TypeOK
<1>4. \A f \in Flights :
        /\ flight'[f].outcome = flight[f].outcome
        /\ flight'[f] = FP!Dropped => flight[f] = FP!Dropped
  BY <1>3 DEF FP!FlightRecords, FP!Dropped
<1>5. lease'[c] # None /\ \A d \in Callers \ {c} : lease'[d] = lease[d]
  BY <1>3, SameFlights DEF FP!NoneAssumption
<1> QED
  BY <1>1, <1>4, <1>5, MarksUntouched, EarlyStep

LEMMA LeadStep ==
  ASSUME ScrapeInv, FP!IInv', NEW c \in Callers, Lead(c)
  PROVE  ScrapeInv'
<1> DEFINE k == request[c].flightKey
<1>1. /\ FP!Lead(c, k) /\ at[c] = "acquire"
      /\ UNCHANGED <<page, shared, cacheVars, warmVars, request, mine, now>>
  BY SameFlights, RequestAssumption DEF Lead, Go, ScrapeInv, Typed
<1>2. PICK to \in {"relookup", "spawn"} : at' = [at EXCEPT ![c] = to]
  BY DEF Lead, Go
<1>3. PICK f \in Flights :
        /\ flight[f] = FP!Dropped /\ lease' = [lease EXCEPT ![c] = f]
        /\ flight' = [flight EXCEPT ![f] = [FP!Dropped EXCEPT !.key = k, !.leases = 1]]
  BY <1>1 DEF FP!Lead, FP!Unused
<1>4. flight \in [Flights -> FP!FlightRecords] /\ lease \in [Callers -> Flights \cup {None}]
  BY DEF ScrapeInv, FP!IInv, FP!TypeOK
<1>5. \A g \in Flights :
        /\ flight[g].outcome = "Rendered" => flight'[g].outcome = "Rendered"
        /\ flight'[g] = FP!Dropped => flight[g] = FP!Dropped
  BY <1>3, <1>4, SameFlights DEF FP!Dropped, FP!NoneAssumption, FP!Outcomes
<1>6. lease'[c] # None /\ \A d \in Callers \ {c} : lease'[d] = lease[d]
  BY <1>3, <1>4, SameFlights DEF FP!NoneAssumption
<1> QED
  BY <1>1, <1>2, <1>5, <1>6, MarksUntouched, EarlyStep

(* The leader ends a flight whose render never began.                         *)
LEMMA RetryStep ==
  ASSUME ScrapeInv, FP!IInv', NEW c \in Callers, Retry(c)
  PROVE  ScrapeInv'
<1>1. /\ FP!RetryUnlink(c) \/ FP!RetryFlag(c) \/ FP!RetrySend(c)
      /\ at[c] = "retry" /\ UNCHANGED <<page, shared, cacheVars, warmVars, request, mine, now>>
  BY SameFlights DEF Retry
<1>2. PICK to \in {"retry", "return"} : at' = [at EXCEPT ![c] = to]
  BY <1>1 DEF Retry, Go, ScrapeInv, Typed
<1>3. /\ lease[c] # None /\ lease[c] \in Flights /\ lease' = lease
      /\ flight \in [Flights -> FP!FlightRecords]
  <2>1. lease[c] # None
    BY <1>1 DEF ScrapeInv, CallsInOrder, CallInOrder, InItsPlace, Leased
  <2> QED
    BY <1>1, <2>1, HeldIsThere
       DEF HeldThere, ScrapeInv, FP!IInv, FP!TypeOK, FP!RetryUnlink, FP!RetryFlag, FP!RetrySend
<1>4. \A g \in Flights :
        /\ flight[g].outcome = "Rendered" => flight'[g].outcome = "Rendered"
        /\ flight'[g] = FP!Dropped => flight[g] = FP!Dropped
  <2>1. CASE FP!RetryUnlink(c)
    BY <2>1 DEF FP!RetryUnlink
  <2>2. CASE FP!RetryFlag(c)
    BY <1>3, <2>2 DEF FP!RetryFlag, FP!FlightRecords, FP!Dropped
  <2>3. CASE FP!RetrySend(c)
    <3>1. flight[lease[c]].outcome = None
      BY <2>3 DEF FP!RetrySend, ScrapeInv, FP!IInv, FP!LeaderDecides, FP!Leads
    <3>2. None \notin {"Rendered", "RetryCache"}
      BY SameFlights DEF FP!NoneAssumption, FP!Outcomes
    <3> QED
      BY <1>3, <2>3, <3>1, <3>2 DEF FP!RetrySend, FP!FlightRecords, FP!Dropped
  <2> QED
    BY <1>1, <2>1, <2>2, <2>3
<1> QED
  BY <1>1, <1>2, <1>3, <1>4, MarksUntouched, EarlyStep

LEMMA SpawnStep ==
  ASSUME ScrapeInv, FP!IInv', NEW c \in Callers, Spawn(c)
  PROVE  ScrapeInv'
<1>1. /\ FP!Spawn(c) /\ at[c] = "spawn" /\ at' = [at EXCEPT ![c] = "wait"]
      /\ UNCHANGED <<page, shared, cacheVars, warmVars, request, mine, now>>
  BY SameFlights DEF Spawn, Go
<1>2. lease[c] # None /\ lease' = lease /\ flight \in [Flights -> FP!FlightRecords]
  BY <1>1 DEF ScrapeInv, CallsInOrder, CallInOrder, InItsPlace, Leased, FP!Spawn, FP!IInv, FP!TypeOK
<1>3. \A g \in Flights :
        /\ flight[g].outcome = "Rendered" => flight'[g].outcome = "Rendered"
        /\ flight'[g] = FP!Dropped => flight[g] = FP!Dropped
  BY <1>1, <1>2 DEF FP!Spawn, FP!FlightRecords, FP!Dropped
<1> QED
  BY <1>1, <1>2, <1>3, MarksUntouched, EarlyStep

(* A call that waited has the outcome, and of a render that ended well the    *)
(* page.                                                                      *)
LEMMA ObserveStep ==
  ASSUME ScrapeInv, FP!IInv', NEW c \in Callers, Observe(c)
  PROVE  ScrapeInv'
<1> DEFINE f == lease[c]
           m == [mine[c] EXCEPT !.page = page[f]]
<1>1. /\ FP!Observe(c) /\ at[c] = "wait" /\ mine' = [mine EXCEPT ![c] = m]
      /\ UNCHANGED <<page, shared, cacheVars, warmVars, request, now>>
  BY SameFlights DEF Observe, Go
<1>2. flight' = flight /\ lease' = lease
  BY <1>1 DEF FP!Observe
<1>3. PICK to \in {"prepare", "extract", "again", "return"} :
        /\ at' = [at EXCEPT ![c] = to]
        /\ to \in {"prepare", "extract"} => flight[f].outcome = "Rendered"
        /\ to = "extract" => ~request[c].stores
  BY DEF Observe, Go
<1>4. f # None /\ f \in Flights /\ mine[c].generation = None
  <2>1. f # None /\ mine[c].generation = None
    BY <1>1 DEF ScrapeInv, CallsInOrder, CallInOrder, InItsPlace, Numbered, Leased, Early
  <2> QED
    BY <2>1, HeldIsThere DEF HeldThere, ScrapeInv
<1>5. /\ m \in [page : Pages, generation : Nat \cup {None}]
      /\ m.generation = None /\ m.page = page[f]
  BY <1>4 DEF ScrapeInv, Typed
<1> HIDE DEF m
<1>6. at'[c] = to /\ mine'[c] = m
  BY <1>1, <1>3 DEF ScrapeInv, Typed
<1>7. CallInOrder(c)'
  BY <1>1, <1>2, <1>3, <1>4, <1>5, <1>6
     DEF CallInOrder, InItsPlace, Numbered, SharesRender, Leased, Unleased, Early, Registering, Extracting,
         Publishing
<1>8. /\ FlightsStay
      /\ page' \in [Flights -> Pages] /\ shared' \in [Flights -> [Keys -> Publications]]
  BY <1>1, <1>2, MarksUntouched
<1>9. CacheKnown /\ UNCHANGED <<request, nextGeneration, warmVars, now>>
  BY <1>1, CacheIsKnown DEF ScrapeInv, cacheVars
<1>10. /\ to \in Steps /\ "send" \notin {at[c], to}
       /\ to \notin Registering \cup Publishing \cup Pending
  BY <1>1 DEF Steps, Registering, Publishing, Pending
<1>11. m.generation \notin Nat
  BY <1>5, NoneIsNothingElse
<1> QED
  BY <1>1, <1>2, <1>3, <1>5, <1>7, <1>8, <1>9, <1>10, <1>11, CallStep

(* A call that ends, or begins anew, leaves its flight, and with the last one *)
(* goes what hangs on the flight.                                             *)
LEMMA ReturnStep ==
  ASSUME ScrapeInv, FP!IInv', NEW c \in Callers, Return(c)
  PROVE  ScrapeInv'
<1>1. PICK to \in {"done", "lookup", "acquire"} : at[c] \in {"return", "again"} /\ at' = [at EXCEPT ![c] = to]
  BY DEF Return, Go, Start
<1>2. mine' = [mine EXCEPT ![c] = Nothing] /\ UNCHANGED <<cacheVars, warmVars, request, now>>
  BY DEF Return
<1>3. Nothing \in [page : Pages, generation : Nat \cup {None}] /\ Nothing.generation = None
  BY TimeAssumption, BoundsAssumption DEF Nothing, NoPage, Pages
<1>4. /\ FlightsStay
      /\ page' \in [Flights -> Pages] /\ shared' \in [Flights -> [Keys -> Publications]]
      /\ lease'[c] = None /\ \A d \in Callers \ {c} : lease'[d] = lease[d]
  <2>1. CASE lease[c] = None
    BY <2>1, RendersStay DEF Return
  <2>2. CASE lease[c] # None
    <3>1. FP!Release(c) /\ DropWithFlight
      BY <2>2, SameFlights DEF Return
    <3>2. /\ flight' = [flight EXCEPT ![lease[c]] =
                          FP!Kept(lease[c], FP!Left(flight[lease[c]],
                            FP!LastLease(c) /\ FP!Current(lease[c]) /\ ~flight[lease[c]].completed))]
          /\ lease' = [lease EXCEPT ![c] = None]
      BY <3>1 DEF FP!Release, FP!LeaseGone
    <3>3. /\ flight \in [Flights -> FP!FlightRecords] /\ lease \in [Callers -> Flights \cup {None}]
      BY DEF ScrapeInv, FP!IInv, FP!TypeOK
    <3>4. \A f \in Flights : flight'[f] # FP!Dropped => flight'[f].outcome = flight[f].outcome
      BY <3>2, <3>3 DEF FP!Kept, FP!Left, FP!FlightRecords
    <3> QED
      BY <3>1, <3>2, <3>3, <3>4, MarksDropped
  <2> QED
    BY <2>1, <2>2
<1> DEFINE m == Nothing
<1> HIDE DEF m
<1>5. at'[c] = to /\ mine'[c] = Nothing
  BY <1>1, <1>2 DEF ScrapeInv, Typed
<1>6. CallInOrder(c)'
  BY <1>1, <1>3, <1>4, <1>5
     DEF CallInOrder, InItsPlace, Numbered, SharesRender, Leased, Unleased, Early, Registering, Extracting,
         Publishing
<1>7. CacheKnown /\ UNCHANGED <<request, nextGeneration, warmVars, now>>
  BY <1>2, CacheIsKnown DEF ScrapeInv, cacheVars
<1>8. /\ to \in Steps /\ "send" \notin {at[c], to}
      /\ to \notin Registering \cup Publishing \cup Pending \cup HasPage
  BY <1>1 DEF Steps, Registering, Publishing, Pending, HasPage, Extracting
<1> QED
  BY <1>1, <1>2, <1>3, <1>4, <1>6, <1>7, <1>8, CallStep

(* No call moves: a render ends, or its producer goes.                        *)
LEMMA ProducerStep ==
  ASSUME ScrapeInv, FP!IInv', FlightsStay, UNCHANGED <<cacheVars, warmVars, callVars, now, lease>>,
         page' \in [Flights -> Pages], shared' \in [Flights -> [Keys -> Publications]]
  PROVE  ScrapeInv'
<1>1. UNCHANGED <<at, mine, request, cache, nextGeneration>> /\ CacheKnown
  BY CacheIsKnown DEF callVars, cacheVars, ScrapeInv
<1>2. Typed'
  BY <1>1 DEF ScrapeInv, Typed, warmVars
<1>3. CallsInOrder'
  BY <1>1, CallStays DEF ScrapeInv, CallsInOrder
<1>4. OneRegisters' /\ OnePublisher' /\ MarksFollowFlights'
  BY <1>1, MarksStay DEF ScrapeInv, OneRegisters, OnePublisher
<1>5. NothingNew
  <2>1. \A d \in Callers : at'[d] \in HasPage /\ mine'[d].generation \in Nat
          => Carries(mine'[d].generation, mine'[d].page.observed)
    BY <1>1 DEF Carries
  <2>2. \A w \in Held' : Carries(w.generation, w.page.observed)
    BY DEF Carries, Held, warmVars
  <2> QED
    BY <1>1, <2>1, <2>2, KnownPages DEF ScrapeInv, CacheKnown
<1>6. OnePage' /\ DrawnAlone' /\ Drawn'
  BY <1>1, <1>5, PagesKept DEF ScrapeInv, Typed, CacheKnown
<1>7. WarmBytesAccounted' /\ retained' <= MaxWarmBytes /\ Len(warmQueue') <= WarmCapacity
  BY <1>1, WarmStays DEF ScrapeInv, warmVars
<1>8. EntryIsHonest'
  BY <1>1 DEF CacheKnown, EntryIsHonest
<1> QED
  BY <1>2, <1>3, <1>4, <1>6, <1>7, <1>8 DEF ScrapeInv

(* A render that ends was still open, so that nothing hangs on it.            *)
LEMMA DeliverStep ==
  ASSUME ScrapeInv, FP!IInv', NEW f \in Flights, Deliver(f)
  PROVE  ScrapeInv'
<1>1. PICK o \in F!Outcomes, ttl \in PageTtls :
        /\ F!Deliver(f, o)
        /\ page' = [page EXCEPT ![f] =
                      IF o = "Rendered" THEN [observed |-> now, ttl |-> ttl] ELSE NoPage]
  BY DEF Deliver
<1>2. UNCHANGED <<shared, cacheVars, warmVars, callVars, now>>
  BY DEF Deliver
<1>3. FP!Deliver(f, o) /\ o # None
  BY <1>1, SameFlights DEF F!Outcomes, FP!Outcomes, FP!NoneAssumption
<1>4. /\ flight' = [flight EXCEPT ![f].outcome = o, ![f].producer = "sent"] /\ lease' = lease
      /\ flight[f].producer = "rendering" /\ flight \in [Flights -> FP!FlightRecords]
  BY <1>3 DEF FP!Deliver, ScrapeInv, FP!IInv, FP!TypeOK
<1>5. flight[f].outcome = None
  BY <1>4 DEF ScrapeInv, FP!IInv, FP!RenderingIsOpen
<1>6. \A g \in Flights :
        /\ flight'[g] = FP!Dropped => flight[g] = FP!Dropped
        /\ flight[g].outcome = "Rendered" => g # f /\ flight'[g].outcome = "Rendered"
  <2>1. None # "Rendered"
    BY SameFlights DEF FP!NoneAssumption, FP!Outcomes
  <2> QED
    BY <1>3, <1>4, <1>5, <2>1 DEF FP!FlightRecords, FP!Dropped
<1>7. page' \in [Flights -> Pages] /\ \A g \in Flights \ {f} : page'[g] = page[g]
  <2>1. NoPage \in Pages /\ [observed |-> now, ttl |-> ttl] \in Pages
    BY PageTtlsBounded, TimeAssumption, BoundsAssumption DEF NoPage, Pages, ScrapeInv, Typed
  <2> QED
    BY <1>1, <2>1 DEF ScrapeInv, Typed
<1>8. FlightsStay
  BY <1>2, <1>6, <1>7 DEF ScrapeInv, MarksFollowFlights, FlightsStay, FlightStays
<1> QED
  BY <1>2, <1>4, <1>7, <1>8, ProducerStep DEF ScrapeInv, Typed

LEMMA CompleteStep ==
  ASSUME ScrapeInv, FP!IInv', NEW f \in Flights, Complete(f)
  PROVE  ScrapeInv'
<1>1. /\ FP!CompleteFlag(f) \/ FP!CompleteReap(f)
      /\ DropWithFlight /\ UNCHANGED <<cacheVars, warmVars, callVars, now>>
  BY SameFlights DEF Complete
<1>2. flight \in [Flights -> FP!FlightRecords] /\ lease' = lease
  BY <1>1 DEF ScrapeInv, FP!IInv, FP!TypeOK, FP!CompleteFlag, FP!CompleteReap
<1>3. \A g \in Flights : flight'[g] # FP!Dropped => flight'[g].outcome = flight[g].outcome
  BY <1>1, <1>2 DEF FP!CompleteFlag, FP!CompleteReap, FP!Kept, FP!FlightRecords
<1> QED
  BY <1>1, <1>2, <1>3, MarksDropped, ProducerStep

-----------------------------------------------------------------------------
(* Every step of the scrape path preserves the invariant.                     *)

LEMMA ScrapeStep == ScrapeInv /\ [Next]_vars => ScrapeInv'
<1> SUFFICES ASSUME ScrapeInv, [Next]_vars PROVE ScrapeInv'
  OBVIOUS
<1>1. FP!IInv'
  <2>1. [FP!Next]_(FP!vars)
    BY FlightStep DEF ScrapeInv, Typed
  <2> QED
    BY <2>1, SameFlights, FP!NextPreserves DEF ScrapeInv
<1>2. ASSUME NEW c \in Callers, Work(c) PROVE ScrapeInv'
  <2>1. CASE Lookup(c) \/ Relookup(c)
    BY <1>1, <2>1, LookupStep
  <2>2. CASE Join(c) \/ Lead(c) \/ Solo(c) \/ Retry(c) \/ Spawn(c)
    BY <1>1, <2>2, JoinStep, LeadStep, SoloStep, RetryStep, SpawnStep
  <2>3. CASE Observe(c) \/ Return(c)
    BY <1>1, <2>3, ObserveStep, ReturnStep
  <2>4. CASE Prepare(c) \/ Register(c) \/ Invalidate(c)
    BY <1>1, <2>4, PrepareStep, RegisterStep, InvalidateStep
  <2>5. CASE SoloDraw(c) \/ SoloRegister(c) \/ SoloRender(c) \/ SoloInvalidate(c)
    BY <1>1, <2>5, SoloDrawStep, RegisterStep, SoloRenderStep, SoloInvalidateStep
  <2>6. CASE Extract(c) \/ Claim(c) \/ Insert(c)
    BY <1>1, <2>6, ExtractStep, ClaimStep, InsertStep
  <2>7. CASE Reserve(c) \/ Send(c)
    BY <1>1, <2>7, ReserveStep, SendStep
  <2> QED
    BY <1>2, <2>1, <2>2, <2>3, <2>4, <2>5, <2>6, <2>7 DEF Work
<1>3. ASSUME NEW c \in Callers, GiveUp(c) PROVE ScrapeInv'
  BY <1>1, <1>3, GiveUpStep
<1>4. ASSUME NEW f \in Flights, Deliver(f) \/ Complete(f) PROVE ScrapeInv'
  BY <1>1, <1>4, DeliverStep, CompleteStep
<1>5. CASE WarmReceive \/ WarmExtract \/ WarmInsert \/ Tick
  BY <1>1, <1>5, WarmReceiveStep, WarmExtractStep, WarmInsertStep, TickStep
<1>6. CASE UNCHANGED vars
  <2>1. UNCHANGED <<renderVars, cacheVars, warmVars, callVars, now>>
    BY <1>6 DEF vars
  <2>2. FlightsStay /\ UNCHANGED lease /\ page' \in [Flights -> Pages]
        /\ shared' \in [Flights -> [Keys -> Publications]]
    BY <2>1, RendersStay
  <2> QED
    BY <1>1, <2>1, <2>2, ProducerStep
<1> QED
  BY <1>2, <1>3, <1>4, <1>5, <1>6 DEF Next

-----------------------------------------------------------------------------
(* Theorems                                                                   *)

(* Throughout a run the shared renders are in order, calls, flights and jobs  *)
(* that know an observation agree on its page, and the warmer's account is    *)
(* right.                                                                     *)
THEOREM ScrapeInvariance == Spec => []ScrapeInv
BY InitScrape, ScrapeStep, PTL DEF Spec

(* The warmer's account never goes below zero nor beyond MAX_CACHE_WARM_BYTES, *)
(* its channel never beyond its capacity, and whatever is cached, rendered or *)
(* held has its type.                                                         *)
THEOREM ScrapeTypes == Spec => []TypeOK
<1>1. ScrapeInv => TypeOK
  <2> SUFFICES ASSUME ScrapeInv PROVE TypeOK
    OBVIOUS
  <2>1. F!TypeOK
    BY SameFlights DEF ScrapeInv, FP!IInv
  <2>2. retained \in 0 .. MaxWarmBytes
    <3> DEFINE n == Len(warmQueue) + Cardinality({c \in Callers : at[c] = "send"})
                    + (IF warming # None /\ ~warming.extracted THEN 1 ELSE 0)
    <3>1. Cardinality({c \in Callers : at[c] = "send"}) \in Nat
      BY FiniteCallers, FS_Subset, FS_CardinalityType
    <3>2. Len(warmQueue) \in Nat
      BY DEF ScrapeInv, Typed
    <3>3. n \in Nat
      BY <3>1, <3>2
    <3>4. retained = PageBytes * n
      BY DEF ScrapeInv, WarmBytesAccounted
    <3> HIDE DEF n
    <3>5. \A p, q \in Nat : p * q \in Nat
      OBVIOUS
    <3>6. retained \in Nat
      BY <3>3, <3>4, <3>5, PagesBytes
    <3>7. retained <= MaxWarmBytes
      BY DEF ScrapeInv
    <3> QED
      BY <3>6, <3>7, WarmAssumption
  <2> QED
    BY <2>1, <2>2 DEF TypeOK, ScrapeInv, Typed
<1> QED
  BY <1>1, ScrapeInvariance, PTL

(* What an entry says of its document is true, in every state: its age is the *)
(* page's, also after the warmer renewed it, and its formats are there.       *)
THEOREM EntriesAreHonest == Spec => []EntryIsHonest
BY ScrapeInvariance, PTL DEF ScrapeInv

(* However many callers share a render, one of them at most is past the claim *)
(* of its publication.                                                        *)
THEOREM PublishedOnce == Spec => []OnePublisher
BY ScrapeInvariance, PTL DEF ScrapeInv

(* Callers that share a render extract and publish under one observation.     *)
THEOREM ObservedOnce == Spec => []OneObservation
<1>1. ScrapeInv => OneObservation
  BY DEF ScrapeInv, OneObservation, CallsInOrder, CallInOrder, SharesRender, Extracting, Publishing
<1> QED
  BY <1>1, ScrapeInvariance, PTL

(* The bytes that the warmer accounts for are those of the pages it holds or  *)
(* is about to be sent: none leaks, none is given back twice.                 *)
THEOREM WarmBytesNeverLeak == Spec => []WarmBytesAccounted
BY ScrapeInvariance, PTL DEF ScrapeInv

(* A call is answered from the cache with the formats it asked for, extracted *)
(* from a page no older than it and the cache's own limit allow.              *)
THEOREM ServedFromCacheIsUsable == Spec => ServedIsUsable
<1> DEFINE Served(c) ==
             \/ at[c] = "lookup" /\ at'[c] = "done"
             \/ at[c] = "relookup" /\ at'[c] = "retry"
           Fit(c) == LET document == cache.entries[request[c].cacheKey].doc IN
                       /\ request[c].formats \subseteq document.has
                       /\ now - document.observed <= Least(request[c].maxAge, CacheTtl)
<1>1. ScrapeInv /\ [Next]_vars => [\A c \in Callers : Served(c) => Fit(c)]_vars
  <2> SUFFICES ASSUME ScrapeInv, Next, NEW c \in Callers, Served(c)
               PROVE  Fit(c)
    OBVIOUS
  <2>1. at \in [Callers -> Steps]
    BY DEF ScrapeInv, Typed
  <2>2. at'[c] # at[c]
    OBVIOUS
  <2>3. PICK d \in Callers : Work(d) \/ GiveUp(d)
    BY <2>2 DEF Next, Deliver, Complete, WarmReceive, WarmExtract, WarmInsert, Tick, callVars
  <2>4. \A from, to : Go(d, from, to) => c = d /\ at[c] = from /\ at'[c] = to
    BY <2>1, <2>2 DEF Go
  <2>5. at[c] \in {"lookup", "relookup"} /\ at'[c] \in {"done", "retry"}
    OBVIOUS
  <2> HIDE DEF Served, Fit
  <2>6. Lookup(c) \/ Relookup(c)
    <3>1. Lookup(d) \/ Relookup(d)
      BY <2>2, <2>3, <2>4, <2>5
         DEF Work, GiveUp, Join, Lead, Solo, Retry, Spawn, Observe, Return, Prepare, Register, Invalidate,
             SoloDraw, SoloRegister, SoloRender, SoloInvalidate, Extract, Claim, Insert, Reserve, Send
    <3> QED
      BY <2>4, <3>1 DEF Lookup, Relookup, LookupAt
  <2>7. Hit(c)
    BY <2>1, <2>6 DEF Lookup, Relookup, LookupAt, Go, Served
  <2>8. LET e == cache.entries[request[c].cacheKey] IN
          e.observed = e.doc.observed /\ e.formats \subseteq e.doc.has
    BY <2>7 DEF Hit, Usable, ScrapeInv, EntryIsHonest
  <2> QED
    BY <2>7, <2>8 DEF Hit, Usable, Fit
<1>2. Spec => [][\A c \in Callers : Served(c) => Fit(c)]_vars
  BY <1>1, ScrapeInvariance, PTL DEF Spec
<1> QED
  BY <1>2 DEF ServedIsUsable
=============================================================================
