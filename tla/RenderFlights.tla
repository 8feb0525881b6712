---------------------------- MODULE RenderFlights ----------------------------
(* Single-flight browser renders: the RenderFlights map of                   *)
(* scorch-engine/src/cache.rs, the RenderFlightLease a caller of scrape_inner *)
(* holds on an entry, and the spawned producer task that renders for it.     *)
(*                                                                           *)
(* One action per step that another thread can see: a critical section of    *)
(* the map's mutex, or one atomic store or channel send made outside it.  A  *)
(* flight is the identity of an Arc<RenderFlightEntry>: it may be used again *)
(* once neither the map, nor a lease, nor a producer refers to it, which is  *)
(* when the Arc is dropped, so Arc::ptr_eq is equality of flights.           *)
EXTENDS Integers, FiniteSets

CONSTANTS
  Callers,           \* concurrent scrape_inner calls
  FlightKeys,        \* RenderFlightKey values
  Flights,           \* pool of Arc<RenderFlightEntry> identities
  MaxRenderFlights,  \* MAX_RENDER_FLIGHTS
  None

ASSUME CallersAssumption == IsFiniteSet(Callers)
ASSUME MaxAssumption == MaxRenderFlights \in Nat \ {0}

(* RenderFlightOutcome.  "Cancelled" is the Failed(Timeout) the producer     *)
(* sends when its cancellation token wins the select; "Failed" is an error   *)
(* of the render itself.                                                     *)
Outcomes == {"Rendered", "Failed", "Cancelled", "RetryCache"}

ASSUME NoneAssumption == None \notin Flights \cup FlightKeys \cup Outcomes

(* What a caller is doing with its lease:                                    *)
(*   out       it holds none                                                 *)
(*   leading   is_leader, before the second cache lookup decides             *)
(*   retrying  in retry_cache, after the map's lock is released              *)
(*   flagged   in retry_cache, after completed is stored                     *)
(*   waiting   in lease.wait()                                               *)
(*   answered  wait() returned, or retry_cache did; the lease is still held  *)
Stages == {"out", "leading", "retrying", "flagged", "waiting", "answered"}

(* The producer task: rendering until its outcome is sent, then two more     *)
(* steps of complete() remain.                                               *)
ProducerStates == {"none", "rendering", "sent", "flagged"}

(* RenderFlightEntry: key is the map key it was created for, outcome the      *)
(* value of its watch sender, producer the spawned task that renders for it. *)
FlightRecords ==
  [key : FlightKeys \cup {None}, leases : Nat, completed : BOOLEAN, cancelled : BOOLEAN,
   outcome : Outcomes \cup {None}, producer : ProducerStates]

(* An identity nothing refers to: no Arc exists.                             *)
Dropped ==
  [key |-> None, leases |-> 0, completed |-> FALSE, cancelled |-> FALSE,
   outcome |-> None, producer |-> "none"]

VARIABLES
  entries,   \* RenderFlights.entries: a flight for every registered key
  flight,    \* the RenderFlightEntry behind each identity
  lease,     \* the flight of each caller's RenderFlightLease
  stage      \* each caller's progress

vars == <<entries, flight, lease, stage>>

TypeOK ==
  /\ entries \in [FlightKeys -> Flights \cup {None}]
  /\ flight \in [Flights -> FlightRecords]
  /\ lease \in [Callers -> Flights \cup {None}]
  /\ stage \in [Callers -> Stages]

Init ==
  /\ entries = [k \in FlightKeys |-> None]
  /\ flight = [f \in Flights |-> Dropped]
  /\ lease = [c \in Callers |-> None]
  /\ stage = [c \in Callers |-> "out"]

Holders(f) == {c \in Callers : lease[c] = f}
Registered == {k \in FlightKeys : entries[k] # None}
Unused == {f \in Flights : flight[f] = Dropped}

(* The map still holds this very Arc under its key.                          *)
Current(f) == flight[f].key \in FlightKeys /\ entries[flight[f].key] = f

Unregister(f) == [entries EXCEPT ![flight[f].key] = None]

(* The record after a reference to it went away: gone with the last one.     *)
Kept(f, record) ==
  IF record.leases = 0 /\ record.producer = "none" /\ (\A k \in FlightKeys : entries'[k] # f)
  THEN Dropped
  ELSE record

-----------------------------------------------------------------------------
(* acquire                                                                   *)

JoinWithoutLease(c, k) ==
  /\ stage[c] = "out"
  /\ entries[k] # None
  /\ lease' = [lease EXCEPT ![c] = entries[k]]
  /\ stage' = [stage EXCEPT ![c] = "waiting"]
  /\ UNCHANGED <<entries, flight>>

(* An entry exists, finished or not: the caller takes a lease on it.         *)
Join(c, k) ==
  /\ stage[c] = "out"
  /\ entries[k] # None
  /\ flight' = [flight EXCEPT ![entries[k]].leases = @ + 1]
  /\ lease' = [lease EXCEPT ![c] = entries[k]]
  /\ stage' = [stage EXCEPT ![c] = "waiting"]
  /\ UNCHANGED entries

(* No entry, and room in the map: the caller leads a new flight.             *)
Lead(c, k) ==
  /\ stage[c] = "out"
  /\ entries[k] = None
  /\ Cardinality(Registered) < MaxRenderFlights
  /\ Unused # {}
  /\ LET f == CHOOSE g \in Unused : TRUE IN
       /\ entries' = [entries EXCEPT ![k] = f]
       /\ flight' = [flight EXCEPT ![f] = [Dropped EXCEPT !.key = k, !.leases = 1]]
       /\ lease' = [lease EXCEPT ![c] = f]
  /\ stage' = [stage EXCEPT ![c] = "leading"]

(* acquire returns None: the caller renders by itself.                       *)
Full(k) == entries[k] = None /\ Cardinality(Registered) >= MaxRenderFlights

-----------------------------------------------------------------------------
(* The leader: retry_cache when its second lookup hits, a producer otherwise *)

RetryUnlink(c) ==
  /\ stage[c] = "leading"
  /\ entries' = IF Current(lease[c]) THEN Unregister(lease[c]) ELSE entries
  /\ stage' = [stage EXCEPT ![c] = "retrying"]
  /\ UNCHANGED <<flight, lease>>

RetryFlag(c) ==
  /\ stage[c] = "retrying"
  /\ flight' = [flight EXCEPT ![lease[c]].completed = TRUE]
  /\ stage' = [stage EXCEPT ![c] = "flagged"]
  /\ UNCHANGED <<entries, lease>>

SkipRetrySend(c) ==
  /\ stage[c] = "flagged"
  /\ stage' = [stage EXCEPT ![c] = "answered"]
  /\ UNCHANGED <<entries, flight, lease>>

RetrySend(c) ==
  /\ stage[c] = "flagged"
  /\ flight' = [flight EXCEPT ![lease[c]].outcome = "RetryCache"]
  /\ stage' = [stage EXCEPT ![c] = "answered"]
  /\ UNCHANGED <<entries, lease>>

SpawnBeforeLookup(c) ==
  /\ stage[c] = "leading"
  /\ flight[lease[c]].producer = "none"
  /\ flight' = [flight EXCEPT ![lease[c]].producer = "rendering"]
  /\ UNCHANGED <<entries, lease, stage>>

Spawn(c) ==
  /\ stage[c] = "leading"
  /\ flight' = [flight EXCEPT ![lease[c]].producer = "rendering"]
  /\ stage' = [stage EXCEPT ![c] = "waiting"]
  /\ UNCHANGED <<entries, lease>>

-----------------------------------------------------------------------------
(* The producer task: select { cancelled, render }, then complete()          *)

(* The select is biased: a cancelled token wins over a finished render.      *)
Deliver(f, o) ==
  /\ flight[f].producer = "rendering"
  /\ IF flight[f].cancelled THEN o = "Cancelled" ELSE o \in {"Rendered", "Failed"}
  /\ flight' = [flight EXCEPT ![f].outcome = o, ![f].producer = "sent"]
  /\ UNCHANGED <<entries, lease, stage>>

CompleteFlag(f) ==
  /\ flight[f].producer = "sent"
  /\ flight' = [flight EXCEPT ![f].completed = TRUE, ![f].producer = "flagged"]
  /\ UNCHANGED <<entries, lease, stage>>

ReapRegardless(f) ==
  /\ flight[f].producer = "flagged"
  /\ entries' = IF Current(f) THEN Unregister(f) ELSE entries
  /\ flight' = [flight EXCEPT ![f] = Kept(f, [@ EXCEPT !.producer = "none"])]
  /\ UNCHANGED <<lease, stage>>

CompleteReap(f) ==
  /\ flight[f].producer = "flagged"
  /\ entries' = IF flight[f].leases = 0 /\ Current(f) THEN Unregister(f) ELSE entries
  /\ flight' = [flight EXCEPT ![f] = Kept(f, [@ EXCEPT !.producer = "none"])]
  /\ UNCHANGED <<lease, stage>>

-----------------------------------------------------------------------------
(* wait() and the drop of a lease                                            *)

ObserveRendered(c) ==
  /\ stage[c] = "waiting"
  /\ flight[lease[c]].outcome = "Rendered"
  /\ stage' = [stage EXCEPT ![c] = "answered"]
  /\ UNCHANGED <<entries, flight, lease>>

Observe(c) ==
  /\ stage[c] = "waiting"
  /\ flight[lease[c]].outcome # None
  /\ stage' = [stage EXCEPT ![c] = "answered"]
  /\ UNCHANGED <<entries, flight, lease>>

Left(record, cancels) ==
  [record EXCEPT !.leases = @ - 1, !.cancelled = @ \/ cancels]

(* What the drop of c's lease leaves behind, when `unlinks` says whether the *)
(* entry goes and `cancels` whether the producer is told to stop.            *)
LeaseGone(c, unlinks, cancels) ==
  LET f == lease[c] IN
    /\ stage[c] \in {"waiting", "answered"}
    /\ entries' = IF unlinks THEN Unregister(f) ELSE entries
    /\ flight' = [flight EXCEPT ![f] = Kept(f, Left(flight[f], cancels))]
    /\ lease' = [lease EXCEPT ![c] = None]
    /\ stage' = [stage EXCEPT ![c] = "out"]

LastLease(c) == flight[lease[c]].leases = 1

CancelUnlessCompleted(c) ==
  LeaseGone(c, LastLease(c) /\ Current(lease[c]), ~flight[lease[c]].completed)

UnlinkOnlyIfCompleted(c) ==
  LET last == LastLease(c) /\ Current(lease[c]) IN
    LeaseGone(c, last /\ flight[lease[c]].completed, last /\ ~flight[lease[c]].completed)

UnlinkWithoutIdentity(c) ==
  LET last == LastLease(c) IN LeaseGone(c, last, last /\ ~flight[lease[c]].completed)

(* Drop for RenderFlightLease: the call returned, failed, or its future was  *)
(* dropped by a timeout or a disconnected client.  The last lease on a       *)
(* registered entry unregisters it, and cancels a producer still at work.    *)
Release(c) ==
  LET last == LastLease(c) /\ Current(lease[c]) IN
    LeaseGone(c, last, last /\ ~flight[lease[c]].completed)

-----------------------------------------------------------------------------

CallerStep(c) ==
  \/ \E k \in FlightKeys : Join(c, k) \/ Lead(c, k)
  \/ RetryUnlink(c)
  \/ RetryFlag(c)
  \/ RetrySend(c)
  \/ Spawn(c)
  \/ Observe(c)
  \/ Release(c)

ProducerStep(f) ==
  \/ \E o \in Outcomes : Deliver(f, o)
  \/ CompleteFlag(f)
  \/ CompleteReap(f)

Next ==
  \/ \E c \in Callers : CallerStep(c)
  \/ \E f \in Flights : ProducerStep(f)

Spec == Init /\ [][Next]_vars

(* The leader's code between acquire and wait has no await point, so it runs *)
(* on; a render ends because BrowserManager::render bounds it by its         *)
(* timeout; a woken waiter is polled again.  Nothing is assumed of new calls *)
(* or of timeouts of callers.                                                *)
Fairness ==
  /\ \A c \in Callers :
       /\ WF_vars(RetryUnlink(c) \/ Spawn(c))
       /\ WF_vars(RetryFlag(c))
       /\ WF_vars(RetrySend(c))
       /\ WF_vars(Observe(c))
  /\ \A f \in Flights : WF_vars(ProducerStep(f))

FairSpec == Spec /\ Fairness

-----------------------------------------------------------------------------
(* Properties                                                                *)

(* The lease counter of an entry, updated by callers that come and go, is    *)
(* always the number of leases alive: release's "remaining" is never wrong.  *)
LeasesCounted == \A f \in Flights : flight[f].leases = Cardinality(Holders(f))

(* A registered flight belongs to its key and to someone: neither a late     *)
(* complete() nor a detached flight's release can leave an entry behind that *)
(* nobody will ever remove and that counts against MAX_RENDER_FLIGHTS.       *)
RegisteredIsHeld ==
  \A k \in FlightKeys :
    entries[k] # None => flight[entries[k]].key = k /\ Holders(entries[k]) # {}

(* A render is cancelled only when no caller holds a lease on it and no new  *)
(* caller can find it, so nobody ever waits for a cancelled render.          *)
CancelledIsAbandoned ==
  \A f \in Flights : flight[f].cancelled => Holders(f) = {} /\ ~Current(f)

(* At most one render that anybody wants runs for a key at any time, and     *)
(* newcomers find it: coalescing never degrades into a second render.        *)
OneLiveRender ==
  \A f \in Flights :
    flight[f].producer = "rendering" /\ ~flight[f].cancelled => Current(f)

(* A caller that waits is not forgotten: its flight has an outcome, a render *)
(* under way, or a leader about to start one or to detach it.                *)
WaiterHasSource ==
  \A c \in Callers :
    stage[c] = "waiting" =>
      \/ flight[lease[c]].outcome # None
      \/ flight[lease[c]].producer = "rendering"
      \/ \E d \in Holders(lease[c]) : stage[d] \in {"leading", "retrying", "flagged"}

(* A flight speaks once: as long as somebody holds a lease on it, an outcome *)
(* it sent is never replaced, so all its callers see the same one.           *)
OneOutcome ==
  [][\A c \in Callers :
       LET f == lease[c] IN
         f # None /\ lease'[c] = f /\ flight[f].outcome # None
           => flight'[f].outcome = flight[f].outcome]_vars

(* The inductive invariant behind these: what leads to and from each stage.  *)

Detached(f) == \A k \in FlightKeys : entries[k] # f
Leads(c) == stage[c] \in {"leading", "retrying", "flagged"}

LeaseByStage == \A c \in Callers : stage[c] = "out" <=> lease[c] = None

(* The leader is alone, and its flight is untouched until it decides.        *)
LeaderDecides ==
  \A c \in Callers :
    Leads(c) =>
      /\ flight[lease[c]].producer = "none"
      /\ flight[lease[c]].outcome = None
      /\ IF stage[c] = "leading"
         THEN Current(lease[c]) /\ ~flight[lease[c]].completed
         ELSE Detached(lease[c])
      /\ \A d \in Callers : Leads(d) /\ lease[d] = lease[c] => d = c

RenderingIsOpen ==
  \A f \in Flights :
    flight[f].producer = "rendering" => flight[f].outcome = None /\ ~flight[f].completed

AnsweredIsTold ==
  \A c \in Callers : stage[c] = "answered" => flight[lease[c]].outcome # None

IInv ==
  /\ TypeOK
  /\ LeasesCounted
  /\ RegisteredIsHeld
  /\ CancelledIsAbandoned
  /\ OneLiveRender
  /\ WaiterHasSource
  /\ LeaseByStage
  /\ LeaderDecides
  /\ RenderingIsOpen
  /\ AnsweredIsTold

(* Every caller that waits is eventually answered, or gives up itself.       *)
WaitersAnswered ==
  \A c \in Callers : stage[c] = "waiting" ~> stage[c] # "waiting"

(* What callers are promised (SharedRender): joint answers, newcomers join   *)
(* while the render is open, it closes with its last participant, and no     *)
(* participant is ever answered by a cancellation.                           *)
Shared == INSTANCE SharedRender WITH
  ticket <- lease,
  open <- entries,
  answer <- [f \in Flights |-> IF Holders(f) = {} THEN None ELSE flight[f].outcome]

SharedSpec == Shared!Spec
=============================================================================
