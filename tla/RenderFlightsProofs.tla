------------------------- MODULE RenderFlightsProofs -------------------------
(* Safety of RenderFlights, and that it implements SharedRender, for any      *)
(* callers, keys, flights and limit.                                          *)
EXTENDS RenderFlights, FiniteSetTheorems, TLAPS

-----------------------------------------------------------------------------
(* Counting the holders of a flight                                          *)

(* There are finitely many leases on a flight.                               *)
LEMMA HoldersFinite ==
  ASSUME NEW f
  PROVE  IsFiniteSet(Holders(f)) /\ Cardinality(Holders(f)) \in Nat
  BY CallersAssumption, FS_Subset, FS_CardinalityType DEF Holders

(* What the counter says of the leases: none, or only this one, are left.    *)
LEMMA CountedHolders ==
  ASSUME LeasesCounted, NEW f \in Flights
  PROVE  /\ flight[f].leases = 0 <=> Holders(f) = {}
         /\ flight[f].leases = 1 => \A c, d \in Holders(f) : c = d
  <1>1. flight[f].leases = Cardinality(Holders(f))
    BY DEF LeasesCounted
  <1>2. Cardinality(Holders(f)) = 0 <=> Holders(f) = {}
    BY HoldersFinite, FS_EmptySet
  <1>3. Cardinality(Holders(f)) = 1 => \E x : Holders(f) = {x}
    BY HoldersFinite, FS_Singleton
  <1> QED BY <1>1, <1>2, <1>3

(* A caller that takes or drops its lease changes one counter by one; any    *)
(* other step leaves leases and counters alone.                              *)
LEMMA LeaseTaken ==
  ASSUME LeasesCounted, lease \in [Callers -> Flights \cup {None}],
         NEW c \in Callers, NEW f \in Flights,
         lease[c] = None, lease' = [lease EXCEPT ![c] = f],
         \A g \in Flights : flight'[g].leases = flight[g].leases + (IF g = f THEN 1 ELSE 0)
  PROVE  LeasesCounted'
  <1> SUFFICES ASSUME NEW g \in Flights
               PROVE  flight'[g].leases = Cardinality(Holders(g)')
    BY DEF LeasesCounted
  <1>1. flight[g].leases = Cardinality(Holders(g))
    BY DEF LeasesCounted
  <1>2. CASE g = f
    <2>1. Holders(g)' = Holders(g) \cup {c} /\ c \notin Holders(g)
      BY <1>2, NoneAssumption DEF Holders
    <2>2. Cardinality(Holders(g)') = Cardinality(Holders(g)) + 1
      BY <2>1, HoldersFinite, FS_AddElement
    <2> QED BY <1>1, <1>2, <2>2
  <1>3. CASE g # f
    <2>1. Holders(g)' = Holders(g)
      BY <1>3, NoneAssumption DEF Holders
    <2> QED BY <1>1, <1>3, <2>1, HoldersFinite
  <1> QED BY <1>2, <1>3

(* Dropping the lease takes one off the count of its flight.                 *)
LEMMA LeaseDropped ==
  ASSUME LeasesCounted, lease \in [Callers -> Flights \cup {None}],
         NEW c \in Callers, lease[c] # None, lease' = [lease EXCEPT ![c] = None],
         \A g \in Flights :
           flight'[g].leases = flight[g].leases - (IF g = lease[c] THEN 1 ELSE 0)
  PROVE  LeasesCounted'
  <1> SUFFICES ASSUME NEW g \in Flights
               PROVE  flight'[g].leases = Cardinality(Holders(g)')
    BY DEF LeasesCounted
  <1>1. flight[g].leases = Cardinality(Holders(g))
    BY DEF LeasesCounted
  <1>2. CASE g = lease[c]
    <2>1. Holders(g)' = Holders(g) \ {c} /\ c \in Holders(g)
      BY <1>2, NoneAssumption DEF Holders
    <2>2. Cardinality(Holders(g)') = Cardinality(Holders(g)) - 1
      BY <2>1, HoldersFinite, FS_RemoveElement
    <2> QED BY <1>1, <1>2, <2>2
  <1>3. CASE g # lease[c]
    <2>1. Holders(g)' = Holders(g)
      BY <1>3, NoneAssumption DEF Holders
    <2> QED BY <1>1, <1>3, <2>1, HoldersFinite
  <1> QED BY <1>2, <1>3

(* A step that leaves the leases alone leaves their counts right.            *)
LEMMA LeasesUntouched ==
  ASSUME LeasesCounted, lease' = lease,
         \A g \in Flights : flight'[g].leases = flight[g].leases
  PROVE  LeasesCounted'
  <1> SUFFICES ASSUME NEW g \in Flights
               PROVE  flight'[g].leases = Cardinality(Holders(g)')
    BY DEF LeasesCounted
  <1>1. Holders(g)' = Holders(g)
    BY DEF Holders
  <1> QED BY <1>1 DEF LeasesCounted

(* Unregister takes the flight out of the map, and nothing else: it is there *)
(* under its own key only.                                                   *)
LEMMA Unregistered ==
  ASSUME TypeOK, RegisteredIsHeld, NEW f \in Flights, Current(f), entries' = Unregister(f)
  PROVE  \A k \in FlightKeys : entries'[k] = IF entries[k] = f THEN None ELSE entries[k]
  BY NoneAssumption DEF TypeOK, RegisteredIsHeld, Current, Unregister

(* The lease of a caller that has one is a flight.                           *)
LEMMA LeaseIsFlight ==
  ASSUME TypeOK, LeaseByStage, NEW c \in Callers, stage[c] # "out"
  PROVE  lease[c] \in Flights /\ c \in Holders(lease[c])
  BY DEF TypeOK, LeaseByStage, Holders

-----------------------------------------------------------------------------
(* The invariant holds initially                                             *)

(* At the start no flight is registered, held or rendering.                  *)
THEOREM InitIInv == Init => IInv
  <1> SUFFICES ASSUME Init PROVE IInv
    OBVIOUS
  <1> USE DEF Init
  <1>1. TypeOK
    BY DEF TypeOK, FlightRecords, Dropped, ProducerStates, Stages
  <1>2. LeasesCounted
    <2>1. \A f \in Flights : Holders(f) = {}
      BY NoneAssumption DEF Holders
    <2> QED BY <2>1, FS_EmptySet DEF LeasesCounted, Dropped
  <1>3. RegisteredIsHeld /\ CancelledIsAbandoned /\ OneLiveRender
    BY DEF RegisteredIsHeld, CancelledIsAbandoned, OneLiveRender, Dropped
  <1>4. WaiterHasSource /\ LeaseByStage /\ LeaderDecides /\ RenderingIsOpen /\ AnsweredIsTold
    BY DEF WaiterHasSource, LeaseByStage, LeaderDecides, Leads, RenderingIsOpen,
           AnsweredIsTold, Dropped
  <1> QED BY <1>1, <1>2, <1>3, <1>4 DEF IInv

-----------------------------------------------------------------------------
(* ... and each action preserves it                                          *)

(* Joining adds a lease to a flight that is registered, so never cancelled.  *)
LEMMA JoinPreserves ==
  ASSUME IInv, NEW c \in Callers, NEW k \in FlightKeys, Join(c, k)
  PROVE  IInv'
  <1> DEFINE f == entries[k]
  <1> USE DEF IInv
  <1>1. f \in Flights /\ lease[c] = None /\ f # None /\ ~Leads(c)
    BY NoneAssumption DEF Join, TypeOK, LeaseByStage, Leads
  <1>2. /\ flight' = [flight EXCEPT ![f] = [flight[f] EXCEPT !.leases = flight[f].leases + 1]]
        /\ lease' = [lease EXCEPT ![c] = f]
        /\ stage' = [stage EXCEPT ![c] = "waiting"]
        /\ entries' = entries
        /\ stage[c] = "out"
    BY DEF Join
  <1>3. TypeOK'
    BY <1>1, <1>2 DEF TypeOK, FlightRecords, Stages
  <1>4. \A g \in Flights :
          /\ flight'[g].key = flight[g].key
          /\ flight'[g].completed = flight[g].completed
          /\ flight'[g].cancelled = flight[g].cancelled
          /\ flight'[g].outcome = flight[g].outcome
          /\ flight'[g].producer = flight[g].producer
          /\ Current(g)' = Current(g)
          /\ Detached(g)' = Detached(g)
          /\ flight'[g].leases = flight[g].leases + (IF g = f THEN 1 ELSE 0)
    BY <1>1, <1>2 DEF TypeOK, FlightRecords, Current, Detached
  <1>5. \A d \in Callers : lease'[d] = IF d = c THEN f ELSE lease[d]
    BY <1>2 DEF TypeOK
  <1>6. LeasesCounted'
    BY <1>1, <1>2, <1>4, LeaseTaken DEF TypeOK
  <1>7. RegisteredIsHeld'
    BY <1>1, <1>2, <1>4, <1>5 DEF TypeOK, RegisteredIsHeld, Holders
  <1>8. CancelledIsAbandoned'
    BY <1>1, <1>2, <1>4, <1>5 DEF TypeOK, CancelledIsAbandoned, RegisteredIsHeld, Current, Holders
  <1>9. OneLiveRender' /\ RenderingIsOpen'
    BY <1>4 DEF OneLiveRender, RenderingIsOpen
  <1>10. WaiterHasSource'
    BY <1>1, <1>2, <1>4, <1>5 DEF TypeOK, WaiterHasSource, RegisteredIsHeld, AnsweredIsTold, LeaseByStage, Stages, Holders
  <1>11. LeaseByStage' /\ AnsweredIsTold'
    BY <1>1, <1>2, <1>4, NoneAssumption DEF TypeOK, LeaseByStage, AnsweredIsTold
  <1>12. LeaderDecides'
    BY <1>1, <1>2, <1>4, NoneAssumption DEF TypeOK, LeaderDecides, LeaseByStage, Leads
  <1> QED
    BY <1>3, <1>6, <1>7, <1>8, <1>9, <1>10, <1>11, <1>12

(* The new flight is nobody else's: it was dropped, so nothing referred to   *)
(* it.                                                                       *)
LEMMA LeadPreserves ==
  ASSUME IInv, NEW c \in Callers, NEW k \in FlightKeys, Lead(c, k)
  PROVE  IInv'
  <1> USE DEF IInv
  <1>1. PICK f \in Unused :
          /\ entries' = [entries EXCEPT ![k] = f]
          /\ flight' = [flight EXCEPT ![f] = [Dropped EXCEPT !.key = k, !.leases = 1]]
          /\ lease' = [lease EXCEPT ![c] = f]
    BY DEF Lead
  <1>2. /\ stage' = [stage EXCEPT ![c] = "leading"]
        /\ stage[c] = "out" /\ lease[c] = None /\ entries[k] = None
    BY DEF Lead, LeaseByStage
  <1>3. /\ f \in Flights /\ flight[f] = Dropped /\ Holders(f) = {}
        /\ \A d \in Callers : lease[d] # f
    <2>1. f \in Flights /\ flight[f] = Dropped
      BY DEF Unused
    <2>2. Holders(f) = {}
      BY <2>1, CountedHolders DEF Dropped
    <2> QED BY <2>1, <2>2 DEF Holders
  <1>4. \A j \in FlightKeys : entries[j] # f
    BY <1>3, NoneAssumption DEF TypeOK, RegisteredIsHeld
  <1>5. TypeOK'
    BY <1>1, <1>2, <1>3 DEF TypeOK, FlightRecords, Stages, Dropped, ProducerStates
  <1>6. \A g \in Flights :
          IF g = f
          THEN /\ flight'[g].key = k /\ flight'[g].leases = 1 /\ flight'[g].outcome = None
               /\ flight'[g].producer = "none" /\ ~flight'[g].completed /\ ~flight'[g].cancelled
          ELSE flight'[g] = flight[g]
    BY <1>1, <1>3 DEF TypeOK, FlightRecords, Dropped
  <1>7. /\ \A d \in Callers : lease'[d] = IF d = c THEN f ELSE lease[d]
        /\ \A d \in Callers : stage'[d] = IF d = c THEN "leading" ELSE stage[d]
        /\ \A j \in FlightKeys : entries'[j] = IF j = k THEN f ELSE entries[j]
    BY <1>1, <1>2 DEF TypeOK
  <1>8. /\ Current(f)'
        /\ \A g \in Flights : g # f => /\ Current(g)' = Current(g)
                                      /\ Detached(g)' = Detached(g)
    BY <1>2, <1>3, <1>6, <1>7, NoneAssumption DEF Current, Detached
  <1>9. LeasesCounted'
    <2>1. \A g \in Flights : flight'[g].leases = flight[g].leases + (IF g = f THEN 1 ELSE 0)
      BY <1>3, <1>6 DEF TypeOK, FlightRecords, Dropped
    <2> QED BY <1>1, <1>2, <1>3, <2>1, LeaseTaken DEF TypeOK
  <1>10. RegisteredIsHeld'
    <2> SUFFICES ASSUME NEW j \in FlightKeys, entries'[j] # None
                 PROVE  /\ flight'[entries'[j]].key = j
                        /\ \E d \in Callers : lease'[d] = entries'[j]
      BY DEF RegisteredIsHeld, Holders
    <2>1. CASE j = k
      BY <1>3, <1>6, <1>7, <2>1
    <2>2. CASE j # k
      <3>1. entries'[j] = entries[j] /\ entries[j] \in Flights /\ entries[j] # f
        BY <1>4, <1>7, <2>2 DEF TypeOK
      <3>2. flight[entries[j]].key = j /\ \E d \in Callers : lease[d] = entries[j]
        BY <3>1 DEF RegisteredIsHeld, Holders
      <3> QED BY <1>2, <1>6, <1>7, <3>1, <3>2, NoneAssumption
    <2> QED BY <2>1, <2>2
  <1>11. CancelledIsAbandoned'
    BY <1>3, <1>6, <1>7, <1>8 DEF CancelledIsAbandoned, Holders
  <1>12. OneLiveRender' /\ RenderingIsOpen'
    BY <1>6, <1>8 DEF OneLiveRender, RenderingIsOpen
  <1>13. WaiterHasSource'
    BY <1>2, <1>3, <1>6, <1>7 DEF TypeOK, WaiterHasSource, LeaseByStage, Holders
  <1>14. LeaseByStage' /\ AnsweredIsTold'
    BY <1>2, <1>3, <1>6, <1>7, NoneAssumption DEF TypeOK, LeaseByStage, AnsweredIsTold
  <1>15. LeaderDecides'
    BY <1>2, <1>3, <1>6, <1>7, <1>8 DEF TypeOK, LeaderDecides, LeaseByStage, Leads
  <1> QED
    BY <1>5, <1>9, <1>10, <1>11, <1>12, <1>13, <1>14, <1>15

(* The leader detaches its flight before anything was rendered for it.       *)
LEMMA RetryUnlinkPreserves ==
  ASSUME IInv, NEW c \in Callers, RetryUnlink(c)
  PROVE  IInv'
  <1> DEFINE f == lease[c]
  <1> USE DEF IInv
  <1>1. /\ stage[c] = "leading" /\ f \in Flights /\ Current(f) /\ Leads(c)
        /\ flight[f].producer = "none"
        /\ \A d \in Callers : Leads(d) /\ lease[d] = f => d = c
    BY LeaseIsFlight DEF RetryUnlink, LeaderDecides, Leads
  <1>2. /\ entries' = Unregister(f)
        /\ stage' = [stage EXCEPT ![c] = "retrying"]
        /\ flight' = flight /\ lease' = lease
    BY <1>1 DEF RetryUnlink
  <1>3. \A k \in FlightKeys : entries'[k] = IF entries[k] = f THEN None ELSE entries[k]
    BY <1>1, <1>2, Unregistered
  <1>4. \A d \in Callers : stage'[d] = IF d = c THEN "retrying" ELSE stage[d]
    BY <1>2 DEF TypeOK
  <1>5. TypeOK'
    BY <1>1, <1>2 DEF TypeOK, Stages, Unregister
  <1>6. /\ Detached(f)' /\ ~Current(f)'
        /\ \A g \in Flights : g # f => /\ Current(g)' = Current(g)
                                      /\ Detached(g)' = Detached(g)
    BY <1>1, <1>2, <1>3, NoneAssumption DEF Current, Detached
  <1>7. LeasesCounted'
    BY <1>2, LeasesUntouched
  <1>8. RegisteredIsHeld' /\ CancelledIsAbandoned'
    BY <1>2, <1>3, <1>6 DEF RegisteredIsHeld, CancelledIsAbandoned, Holders
  <1>9. OneLiveRender' /\ RenderingIsOpen'
    BY <1>1, <1>2, <1>6 DEF OneLiveRender, RenderingIsOpen
  <1>10. WaiterHasSource'
    BY <1>2, <1>4 DEF WaiterHasSource, Holders
  <1>11. LeaseByStage' /\ AnsweredIsTold'
    BY <1>1, <1>2, <1>4 DEF LeaseByStage, AnsweredIsTold
  <1>12. LeaderDecides'
    BY <1>1, <1>2, <1>4, <1>6, LeaseIsFlight DEF LeaderDecides, Leads
  <1> QED
    BY <1>5, <1>7, <1>8, <1>9, <1>10, <1>11, <1>12

(* The other steps of a leader and of a producer, and wait(), touch one      *)
(* flight and one stage, and neither the map nor a lease.                    *)
LEMMA RetryFlagPreserves ==
  ASSUME IInv, NEW c \in Callers, RetryFlag(c)
  PROVE  IInv'
  <1> DEFINE f == lease[c]
  <1> USE DEF IInv
  <1>1. stage[c] = "retrying" /\ f \in Flights /\ Leads(c)
    BY LeaseIsFlight DEF RetryFlag, Leads
  <1>2. TypeOK' /\ entries' = entries /\ lease' = lease
    BY <1>1 DEF RetryFlag, TypeOK, FlightRecords, Stages
  <1>3. \A g \in Flights :
          /\ flight'[g].key = flight[g].key /\ flight'[g].leases = flight[g].leases
          /\ flight'[g].cancelled = flight[g].cancelled
          /\ flight'[g].outcome = flight[g].outcome
          /\ flight'[g].producer = flight[g].producer
          /\ g # f => flight'[g].completed = flight[g].completed
    BY <1>1 DEF RetryFlag, TypeOK, FlightRecords
  <1>4. \A d \in Callers : stage'[d] = IF d = c THEN "flagged" ELSE stage[d]
    BY DEF RetryFlag, TypeOK
  <1>5. \A g \in Flights : Current(g)' = Current(g) /\ Detached(g)' = Detached(g)
    BY <1>2, <1>3 DEF Current, Detached
  <1>6. LeasesCounted'
    BY <1>2, <1>3, LeasesUntouched
  <1>7. RegisteredIsHeld' /\ CancelledIsAbandoned' /\ OneLiveRender'
    BY <1>2, <1>3, <1>5
       DEF TypeOK, RegisteredIsHeld, CancelledIsAbandoned, OneLiveRender, Holders
  <1>8. WaiterHasSource'
    BY <1>1, <1>2, <1>3, <1>4, LeaseIsFlight DEF WaiterHasSource, Holders
  <1>9. LeaseByStage' /\ AnsweredIsTold'
    BY <1>1, <1>2, <1>3, <1>4, LeaseIsFlight DEF LeaseByStage, AnsweredIsTold
  <1>10. LeaderDecides'
    BY <1>1, <1>2, <1>3, <1>4, <1>5, LeaseIsFlight DEF LeaderDecides, Leads
  <1>11. RenderingIsOpen'
    BY <1>1, <1>3 DEF LeaderDecides, RenderingIsOpen
  <1> QED
    BY <1>2, <1>6, <1>7, <1>8, <1>9, <1>10, <1>11

(* RetryCache is the first outcome of a flight that has no producer.         *)
LEMMA RetrySendPreserves ==
  ASSUME IInv, NEW c \in Callers, RetrySend(c)
  PROVE  IInv'
  <1> DEFINE f == lease[c]
  <1> USE DEF IInv
  <1>1. stage[c] = "flagged" /\ f \in Flights /\ Leads(c)
    BY LeaseIsFlight DEF RetrySend, Leads
  <1>2. TypeOK' /\ entries' = entries /\ lease' = lease
    BY <1>1 DEF RetrySend, TypeOK, FlightRecords, Stages, Outcomes
  <1>3. \A g \in Flights :
          /\ flight'[g].key = flight[g].key /\ flight'[g].leases = flight[g].leases
          /\ flight'[g].cancelled = flight[g].cancelled
          /\ flight'[g].completed = flight[g].completed
          /\ flight'[g].producer = flight[g].producer
          /\ flight'[g].outcome = IF g = f THEN "RetryCache" ELSE flight[g].outcome
    BY <1>1 DEF RetrySend, TypeOK, FlightRecords
  <1>4. \A d \in Callers : stage'[d] = IF d = c THEN "answered" ELSE stage[d]
    BY DEF RetrySend, TypeOK
  <1>5. \A g \in Flights : Current(g)' = Current(g) /\ Detached(g)' = Detached(g)
    BY <1>2, <1>3 DEF Current, Detached
  <1>6. LeasesCounted'
    BY <1>2, <1>3, LeasesUntouched
  <1>7. RegisteredIsHeld' /\ CancelledIsAbandoned' /\ OneLiveRender'
    BY <1>2, <1>3, <1>5
       DEF TypeOK, RegisteredIsHeld, CancelledIsAbandoned, OneLiveRender, Holders
  <1>8. "RetryCache" # None
    BY NoneAssumption DEF Outcomes
  <1>9. WaiterHasSource' /\ AnsweredIsTold'
    BY <1>1, <1>2, <1>3, <1>4, <1>8, LeaseIsFlight DEF WaiterHasSource, AnsweredIsTold, Holders
  <1>10. LeaseByStage'
    BY <1>1, <1>2, <1>4 DEF LeaseByStage
  <1>11. LeaderDecides'
    BY <1>1, <1>2, <1>3, <1>4, <1>5, LeaseIsFlight DEF LeaderDecides, Leads
  <1>12. RenderingIsOpen'
    BY <1>1, <1>3 DEF LeaderDecides, RenderingIsOpen
  <1> QED
    BY <1>2, <1>6, <1>7, <1>9, <1>10, <1>11, <1>12

(* The producer starts on a registered flight without an outcome.            *)
LEMMA SpawnPreserves ==
  ASSUME IInv, NEW c \in Callers, Spawn(c)
  PROVE  IInv'
  <1> DEFINE f == lease[c]
  <1> USE DEF IInv
  <1>1. /\ stage[c] = "leading" /\ f \in Flights /\ Leads(c) /\ Current(f)
        /\ flight[f].outcome = None /\ ~flight[f].completed
        /\ \A d \in Callers : Leads(d) /\ lease[d] = f => d = c
    BY LeaseIsFlight DEF Spawn, Leads, LeaderDecides
  <1>2. TypeOK' /\ entries' = entries /\ lease' = lease
    BY <1>1 DEF Spawn, TypeOK, FlightRecords, Stages, ProducerStates
  <1>3. \A g \in Flights :
          /\ flight'[g].key = flight[g].key /\ flight'[g].leases = flight[g].leases
          /\ flight'[g].cancelled = flight[g].cancelled
          /\ flight'[g].completed = flight[g].completed
          /\ flight'[g].outcome = flight[g].outcome
          /\ flight'[g].producer = IF g = f THEN "rendering" ELSE flight[g].producer
    BY <1>1 DEF Spawn, TypeOK, FlightRecords
  <1>4. \A d \in Callers : stage'[d] = IF d = c THEN "waiting" ELSE stage[d]
    BY DEF Spawn, TypeOK
  <1>5. \A g \in Flights : Current(g)' = Current(g) /\ Detached(g)' = Detached(g)
    BY <1>2, <1>3 DEF Current, Detached
  <1>6. LeasesCounted'
    BY <1>2, <1>3, LeasesUntouched
  <1>7. RegisteredIsHeld' /\ CancelledIsAbandoned'
    BY <1>2, <1>3, <1>5 DEF TypeOK, RegisteredIsHeld, CancelledIsAbandoned, Holders
  <1>8. OneLiveRender' /\ RenderingIsOpen'
    BY <1>1, <1>3, <1>5 DEF OneLiveRender, RenderingIsOpen
  <1>9. WaiterHasSource'
    BY <1>1, <1>2, <1>3, <1>4, LeaseIsFlight DEF WaiterHasSource, Holders
  <1>10. LeaseByStage' /\ AnsweredIsTold'
    BY <1>1, <1>2, <1>3, <1>4, LeaseIsFlight DEF LeaseByStage, AnsweredIsTold
  <1>11. LeaderDecides'
    BY <1>1, <1>2, <1>3, <1>4, <1>5, LeaseIsFlight DEF LeaderDecides, Leads
  <1> QED
    BY <1>2, <1>6, <1>7, <1>8, <1>9, <1>10, <1>11

(* The outcome of a render is the first of its flight.                       *)
LEMMA DeliverPreserves ==
  ASSUME IInv, NEW f \in Flights, NEW o \in Outcomes, Deliver(f, o)
  PROVE  IInv'
  <1> USE DEF IInv
  <1>1. flight[f].producer = "rendering"
    BY DEF Deliver
  <1>2. TypeOK' /\ entries' = entries /\ lease' = lease /\ stage' = stage
    BY DEF Deliver, TypeOK, FlightRecords, ProducerStates
  <1>3. \A g \in Flights :
          /\ flight'[g].key = flight[g].key /\ flight'[g].leases = flight[g].leases
          /\ flight'[g].cancelled = flight[g].cancelled
          /\ flight'[g].completed = flight[g].completed
          /\ flight'[g].outcome = IF g = f THEN o ELSE flight[g].outcome
          /\ flight'[g].producer = IF g = f THEN "sent" ELSE flight[g].producer
    BY DEF Deliver, TypeOK, FlightRecords
  <1>4. o # None
    BY NoneAssumption
  <1>5. \A g \in Flights : Current(g)' = Current(g) /\ Detached(g)' = Detached(g)
    BY <1>2, <1>3 DEF Current, Detached
  <1>6. LeasesCounted'
    BY <1>2, <1>3, LeasesUntouched
  <1>7. RegisteredIsHeld' /\ CancelledIsAbandoned' /\ OneLiveRender' /\ RenderingIsOpen'
    BY <1>2, <1>3, <1>5
       DEF TypeOK, RegisteredIsHeld, CancelledIsAbandoned, OneLiveRender, RenderingIsOpen, Holders
  <1>8. WaiterHasSource' /\ AnsweredIsTold'
    BY <1>2, <1>3, <1>4, LeaseIsFlight DEF WaiterHasSource, AnsweredIsTold, Holders
  <1>9. LeaseByStage'
    BY <1>2 DEF LeaseByStage
  <1>10. LeaderDecides'
    BY <1>1, <1>2, <1>3, <1>5, LeaseIsFlight DEF LeaderDecides, Leads
  <1> QED
    BY <1>2, <1>6, <1>7, <1>8, <1>9, <1>10

(* completed is set when the outcome is already there.                       *)
LEMMA CompleteFlagPreserves ==
  ASSUME IInv, NEW f \in Flights, CompleteFlag(f)
  PROVE  IInv'
  <1> USE DEF IInv
  <1>1. flight[f].producer = "sent"
    BY DEF CompleteFlag
  <1>2. TypeOK' /\ entries' = entries /\ lease' = lease /\ stage' = stage
    BY DEF CompleteFlag, TypeOK, FlightRecords, ProducerStates
  <1>3. \A g \in Flights :
          /\ flight'[g].key = flight[g].key /\ flight'[g].leases = flight[g].leases
          /\ flight'[g].cancelled = flight[g].cancelled
          /\ flight'[g].outcome = flight[g].outcome
          /\ flight'[g].producer = IF g = f THEN "flagged" ELSE flight[g].producer
          /\ g # f => flight'[g].completed = flight[g].completed
    BY DEF CompleteFlag, TypeOK, FlightRecords
  <1>4. \A g \in Flights : Current(g)' = Current(g) /\ Detached(g)' = Detached(g)
    BY <1>2, <1>3 DEF Current, Detached
  <1>5. LeasesCounted'
    BY <1>2, <1>3, LeasesUntouched
  <1>6. RegisteredIsHeld' /\ CancelledIsAbandoned' /\ OneLiveRender' /\ RenderingIsOpen'
    BY <1>2, <1>3, <1>4
       DEF TypeOK, RegisteredIsHeld, CancelledIsAbandoned, OneLiveRender, RenderingIsOpen, Holders
  <1>7. WaiterHasSource' /\ AnsweredIsTold'
    BY <1>1, <1>2, <1>3, LeaseIsFlight DEF WaiterHasSource, AnsweredIsTold, Holders
  <1>8. LeaseByStage'
    BY <1>2 DEF LeaseByStage
  <1>9. LeaderDecides'
    BY <1>1, <1>2, <1>3, <1>4, LeaseIsFlight DEF LeaderDecides, Leads
  <1> QED
    BY <1>2, <1>5, <1>6, <1>7, <1>8, <1>9

(* A waiter is answered by an outcome that is there.                         *)
LEMMA ObservePreserves ==
  ASSUME IInv, NEW c \in Callers, Observe(c)
  PROVE  IInv'
  <1> USE DEF IInv
  <1>1. stage[c] = "waiting" /\ lease[c] \in Flights /\ flight[lease[c]].outcome # None
    BY LeaseIsFlight DEF Observe
  <1>2. TypeOK' /\ entries' = entries /\ lease' = lease /\ flight' = flight
    BY DEF Observe, TypeOK, Stages
  <1>3. \A d \in Callers : stage'[d] = IF d = c THEN "answered" ELSE stage[d]
    BY DEF Observe, TypeOK
  <1>4. LeasesCounted'
    BY <1>2, LeasesUntouched
  <1>5. RegisteredIsHeld' /\ CancelledIsAbandoned' /\ OneLiveRender' /\ RenderingIsOpen'
    BY <1>2
       DEF RegisteredIsHeld, CancelledIsAbandoned, OneLiveRender, RenderingIsOpen, Holders, Current
  <1>6. WaiterHasSource' /\ AnsweredIsTold' /\ LeaseByStage'
    BY <1>1, <1>2, <1>3 DEF WaiterHasSource, AnsweredIsTold, LeaseByStage, Holders
  <1>7. LeaderDecides'
    BY <1>1, <1>2, <1>3 DEF LeaderDecides, Leads, Current, Detached
  <1> QED
    BY <1>2, <1>4, <1>5, <1>6, <1>7

(* complete() finds nothing to unregister: an entry without a lease has left *)
(* the map with its last lease.  The flight is gone if nobody holds it.      *)
LEMMA CompleteReapPreserves ==
  ASSUME IInv, NEW f \in Flights, CompleteReap(f)
  PROVE  IInv'
  <1> USE DEF IInv
  <1>1. /\ flight[f].producer = "flagged" /\ lease' = lease /\ stage' = stage
        /\ flight' = [flight EXCEPT ![f] = Kept(f, [flight[f] EXCEPT !.producer = "none"])]
    BY DEF CompleteReap
  <1>2. flight[f].leases = 0 => (\A d \in Callers : lease[d] # f) /\ Detached(f) /\ ~Current(f)
    BY CountedHolders, NoneAssumption DEF TypeOK, RegisteredIsHeld, Detached, Current, Holders
  <1>3. entries' = entries
    BY <1>2 DEF CompleteReap
  <1>4. TypeOK'
    BY <1>1, <1>3 DEF TypeOK, FlightRecords, Kept, Dropped, ProducerStates
  <1>5. /\ \A g \in Flights : g # f => flight'[g] = flight[g]
        /\ flight'[f].producer = "none" /\ flight'[f].leases = flight[f].leases
        /\ flight[f].leases # 0 =>
             /\ flight'[f].key = flight[f].key
             /\ flight'[f].cancelled = flight[f].cancelled
             /\ flight'[f].outcome = flight[f].outcome
    BY <1>1 DEF TypeOK, FlightRecords, Kept, Dropped
  <1>6. /\ \A g \in Flights : g # f => Current(g)' = Current(g)
        /\ flight[f].leases # 0 => Current(f)' = Current(f)
        /\ flight[f].leases = 0 => ~Current(f)'
        /\ \A g \in Flights : Detached(g)' = Detached(g)
    BY <1>2, <1>3, <1>5 DEF Current, Detached
  <1>7. LeasesCounted'
    BY <1>1, <1>5, LeasesUntouched
  <1>8. RegisteredIsHeld'
    BY <1>2, <1>1, <1>3, <1>5 DEF TypeOK, RegisteredIsHeld, Holders, Detached
  <1>9. CancelledIsAbandoned'
    BY <1>1, <1>2, <1>5, <1>6 DEF CancelledIsAbandoned, Holders
  <1>10. OneLiveRender' /\ RenderingIsOpen'
    BY <1>5, <1>6 DEF OneLiveRender, RenderingIsOpen
  <1>11. WaiterHasSource' /\ AnsweredIsTold'
    BY <1>1, <1>2, <1>5, LeaseIsFlight DEF WaiterHasSource, AnsweredIsTold, Holders
  <1>12. LeaseByStage'
    BY <1>1 DEF LeaseByStage
  <1>13. LeaderDecides'
    <2> SUFFICES ASSUME NEW d \in Callers, Leads(d)
                 PROVE  lease[d] # f
      BY <1>1, <1>5, <1>6, LeaseIsFlight DEF LeaderDecides, Leads
    <2> QED BY <1>1 DEF LeaderDecides
  <1> QED
    BY <1>4, <1>7, <1>8, <1>9, <1>10, <1>11, <1>12, <1>13

(* The fields of a record after a lease on it was dropped.                   *)
LEMMA LeftRecord ==
  ASSUME NEW r \in FlightRecords, NEW cancels \in BOOLEAN, r.leases # 0
  PROVE  /\ Left(r, cancels) \in FlightRecords
         /\ Left(r, cancels).key = r.key
         /\ Left(r, cancels).leases = r.leases - 1
         /\ Left(r, cancels).completed = r.completed
         /\ Left(r, cancels).cancelled = (r.cancelled \/ cancels)
         /\ Left(r, cancels).outcome = r.outcome
         /\ Left(r, cancels).producer = r.producer
  <1>1. PICK b \in BOOLEAN : b = (r.cancelled \/ cancels)
    OBVIOUS
  <1>2. PICK q : q = [r EXCEPT !.leases = r.leases - 1]
    OBVIOUS
  <1>3. /\ q \in FlightRecords /\ q.key = r.key /\ q.leases = r.leases - 1
        /\ q.completed = r.completed /\ q.cancelled = r.cancelled
        /\ q.outcome = r.outcome /\ q.producer = r.producer
    BY <1>2 DEF FlightRecords
  <1>4. Left(r, cancels) = [q EXCEPT !.cancelled = b]
    BY <1>1, <1>2 DEF Left
  <1> QED BY <1>1, <1>3, <1>4 DEF FlightRecords

(* What dropping the lease on f changes: the map if it was the last lease,   *)
(* the counter, and, only if it was the last lease, the rest of the flight.  *)
LEMMA ReleaseEffect ==
  ASSUME IInv, NEW c \in Callers, Release(c), NEW f \in Flights, f = lease[c]
  PROVE  /\ stage[c] \in {"waiting", "answered"} /\ ~Leads(c) /\ f # None /\ c \in Holders(f)
         /\ flight[f].leases # 0
         /\ flight[f].leases = 1 => \A d \in Callers : lease[d] = f => d = c
         /\ \A d \in Callers : lease'[d] = IF d = c THEN None ELSE lease[d]
         /\ \A d \in Callers : stage'[d] = IF d = c THEN "out" ELSE stage[d]
         /\ \A k \in FlightKeys :
              entries'[k] = IF flight[f].leases = 1 /\ entries[k] = f THEN None ELSE entries[k]
         /\ \A g \in Flights : g # f => flight'[g] = flight[g]
         /\ flight'[f].leases = flight[f].leases - 1
         /\ flight[f].leases # 1 =>
              /\ flight'[f].key = flight[f].key
              /\ flight'[f].completed = flight[f].completed
              /\ flight'[f].cancelled = flight[f].cancelled
              /\ flight'[f].outcome = flight[f].outcome
              /\ flight'[f].producer = flight[f].producer
         /\ flight'[f].producer = "rendering" =>
              /\ flight[f].producer = "rendering"
              /\ flight'[f].completed = flight[f].completed
              /\ flight'[f].outcome = flight[f].outcome
              /\ flight[f].cancelled => flight'[f].cancelled
              /\ flight[f].leases = 1 /\ Current(f) /\ ~flight[f].completed => flight'[f].cancelled
         /\ TypeOK'
  <1> USE DEF IInv
  <1>0. c \in Holders(f)
    BY LeaseIsFlight DEF Release, LeaseGone
  <1> DEFINE last == flight[f].leases = 1 /\ Current(f)
             cancels == last /\ ~flight[f].completed
             r == Left(flight[f], cancels)
  <1>1. /\ stage[c] \in {"waiting", "answered"} /\ ~Leads(c)
        /\ f # None /\ lease[c] = f /\ c \in Holders(f)
    BY <1>0, NoneAssumption DEF Release, LeaseGone, Leads
  <1>2. /\ entries' = IF last THEN Unregister(f) ELSE entries
        /\ flight' = [flight EXCEPT ![f] = Kept(f, r)]
        /\ lease' = [lease EXCEPT ![c] = None]
        /\ stage' = [stage EXCEPT ![c] = "out"]
    BY <1>0 DEF Release, LeaseGone, LastLease
  <1>3. /\ flight[f].leases # 0
        /\ flight[f].leases = 1 => \A d \in Callers : lease[d] = f => d = c
    BY <1>1, CountedHolders DEF Holders
  <1>4. \A k \in FlightKeys :
          entries'[k] = IF flight[f].leases = 1 /\ entries[k] = f THEN None ELSE entries[k]
    <2>1. CASE last
      BY <1>1, <1>2, <2>1, Unregistered
    <2>2. CASE ~last
      BY <1>1, <1>2, <2>2 DEF RegisteredIsHeld, Current
    <2> QED BY <2>1, <2>2
  <1>5. /\ \A d \in Callers : lease'[d] = IF d = c THEN None ELSE lease[d]
        /\ \A d \in Callers : stage'[d] = IF d = c THEN "out" ELSE stage[d]
    BY <1>2 DEF TypeOK
  <1>6. /\ r \in FlightRecords /\ r.key = flight[f].key /\ r.leases = flight[f].leases - 1
        /\ r.completed = flight[f].completed
        /\ r.cancelled = (flight[f].cancelled \/ cancels)
        /\ r.outcome = flight[f].outcome /\ r.producer = flight[f].producer
    <2>1. flight[f] \in FlightRecords /\ cancels \in BOOLEAN
      BY <1>1 DEF TypeOK
    <2> QED BY <1>3, <2>1, LeftRecord
  <1> HIDE DEF r
  <1>7. /\ flight'[f] = r \/ (flight'[f] = Dropped /\ r.leases = 0 /\ r.producer = "none")
        /\ \A g \in Flights : g # f => flight'[g] = flight[g]
    BY <1>1, <1>2 DEF TypeOK, Kept
  <1>8. TypeOK'
    <2>1. Dropped \in FlightRecords
      BY DEF Dropped, FlightRecords, ProducerStates
    <2>2. flight' \in [Flights -> FlightRecords]
      BY <1>1, <1>2, <1>6, <2>1 DEF TypeOK, Kept
    <2> QED BY <1>1, <1>2, <2>2 DEF TypeOK, Stages, Unregister
  <1>9. flight'[f].leases = flight[f].leases - 1
    BY <1>6, <1>7 DEF Dropped
  <1>10. flight[f].leases # 1 =>
           /\ flight'[f].key = flight[f].key
           /\ flight'[f].completed = flight[f].completed
           /\ flight'[f].cancelled = flight[f].cancelled
           /\ flight'[f].outcome = flight[f].outcome
           /\ flight'[f].producer = flight[f].producer
    BY <1>1, <1>3, <1>6, <1>7 DEF TypeOK, FlightRecords
  <1>11. flight'[f].producer = "rendering" =>
           flight'[f] = r /\ flight[f].producer = "rendering"
    BY <1>6, <1>7 DEF Dropped
  <1> QED
    BY <1>1, <1>3, <1>4, <1>5, <1>6, <1>7, <1>8, <1>9, <1>10, <1>11

(* Dropping a lease: with others left, only the counter moves; the last one  *)
(* takes the flight out of the map, so a render it cancels is nobody's.      *)
LEMMA ReleasePreserves ==
  ASSUME IInv, NEW c \in Callers, Release(c)
  PROVE  IInv'
  <1> USE DEF IInv
  <1>0. PICK f \in Flights : f = lease[c]
    BY LeaseIsFlight DEF Release, LeaseGone
  <1>1. stage[c] \in {"waiting", "answered"} /\ ~Leads(c) /\ f # None /\ c \in Holders(f)
    BY <1>0, ReleaseEffect
  <1>2. /\ \A d \in Callers : lease'[d] = IF d = c THEN None ELSE lease[d]
        /\ \A d \in Callers : stage'[d] = IF d = c THEN "out" ELSE stage[d]
    BY <1>0, ReleaseEffect
  <1>3. /\ flight[f].leases # 0
        /\ flight[f].leases = 1 => \A d \in Callers : lease[d] = f => d = c
        /\ flight'[f].leases = flight[f].leases - 1
    BY <1>0, ReleaseEffect
  <1>4. \A k \in FlightKeys :
          entries'[k] = IF flight[f].leases = 1 /\ entries[k] = f THEN None ELSE entries[k]
    BY <1>0, ReleaseEffect
  <1>5. \A g \in Flights : g # f => flight'[g] = flight[g]
    BY <1>0, ReleaseEffect
  <1>6. flight[f].leases # 1 =>
          /\ flight'[f].key = flight[f].key
          /\ flight'[f].completed = flight[f].completed
          /\ flight'[f].cancelled = flight[f].cancelled
          /\ flight'[f].outcome = flight[f].outcome
          /\ flight'[f].producer = flight[f].producer
    BY <1>0, ReleaseEffect
  <1>7. flight'[f].producer = "rendering" =>
          /\ flight[f].producer = "rendering"
          /\ flight'[f].completed = flight[f].completed
          /\ flight'[f].outcome = flight[f].outcome
          /\ flight[f].cancelled => flight'[f].cancelled
          /\ flight[f].leases = 1 /\ Current(f) /\ ~flight[f].completed => flight'[f].cancelled
    BY <1>0, ReleaseEffect
  <1>8. TypeOK'
    BY <1>0, ReleaseEffect
  <1>9. flight[f].leases = 1 =>
           /\ \A d \in Callers : lease'[d] # f
           /\ Detached(f)' /\ ~Current(f)'
    BY <1>0, <1>2, <1>3, <1>4, NoneAssumption DEF Detached, Current
  <1>10. /\ \A g \in Flights : g # f => Current(g)' = Current(g) /\ Detached(g)' = Detached(g)
         /\ flight[f].leases # 1 => Current(f)' = Current(f) /\ Detached(f)' = Detached(f)
    <2>1. \A g \in Flights, k \in FlightKeys : g # f => (entries'[k] = g <=> entries[k] = g)
      BY <1>4, NoneAssumption
    <2>2. flight[f].leases # 1 => \A k \in FlightKeys : entries'[k] = entries[k]
      BY <1>4
    <2>3. \A g \in Flights : g # f => Current(g)' = Current(g) /\ Detached(g)' = Detached(g)
      BY <1>5, <2>1 DEF Current, Detached
    <2>4. flight[f].leases # 1 => Current(f)' = Current(f) /\ Detached(f)' = Detached(f)
      BY <1>6, <2>2 DEF Current, Detached
    <2> QED BY <2>3, <2>4
  <1>11. LeasesCounted'
    <2>1. \A g \in Flights : flight'[g].leases = flight[g].leases - (IF g = f THEN 1 ELSE 0)
      <3> SUFFICES ASSUME NEW g \in Flights, g # f
                   PROVE  flight'[g].leases = flight[g].leases /\ flight[g].leases \in Int
        BY <1>3
      <3> QED BY <1>5 DEF TypeOK, FlightRecords
    <2> QED BY <1>0, <1>1, <2>1, LeaseDropped DEF TypeOK, Release, LeaseGone
  <1>12. RegisteredIsHeld'
    <2> SUFFICES ASSUME NEW k \in FlightKeys, entries'[k] # None
                 PROVE  /\ flight'[entries'[k]].key = k
                        /\ \E d \in Callers : lease'[d] = entries'[k]
      BY DEF RegisteredIsHeld, Holders
    <2>1. entries'[k] = entries[k] /\ entries[k] \in Flights
      BY <1>4 DEF TypeOK
    <2>2. flight[entries[k]].key = k /\ \E d \in Callers : lease[d] = entries[k]
      BY <2>1 DEF RegisteredIsHeld, Holders
    <2>3. CASE entries[k] # f
      BY <1>0, <1>2, <1>5, <2>1, <2>2, <2>3
    <2>4. CASE entries[k] = f
      <3>1. flight[f].leases # 1 /\ flight'[f].key = k
        BY <1>4, <1>6, <2>1, <2>2, <2>4
      <3>2. \E d \in Callers : lease[d] = f /\ d # c
        <4>1. Holders(f) # {c}
          BY <3>1, FS_Singleton, HoldersFinite DEF LeasesCounted
        <4> QED BY <1>0, <1>1, <4>1 DEF Holders
      <3> QED BY <1>2, <2>1, <2>4, <3>1, <3>2
    <2> QED BY <2>3, <2>4
  <1>13. CancelledIsAbandoned'
    <2>1. \A d \in Callers, g \in Flights : lease'[d] = g => lease[d] = g
      BY <1>2, NoneAssumption
    <2>2. \A g \in Flights : g # f /\ flight'[g].cancelled => Holders(g)' = {} /\ ~Current(g)'
      BY <1>5, <1>10, <2>1 DEF CancelledIsAbandoned, Holders
    <2>3. flight[f].leases # 1 => ~flight'[f].cancelled
      BY <1>1, <1>6 DEF CancelledIsAbandoned
    <2>4. flight[f].leases = 1 => Holders(f)' = {} /\ ~Current(f)'
      BY <1>9 DEF Holders
    <2> QED BY <2>2, <2>3, <2>4 DEF CancelledIsAbandoned
  <1>14. OneLiveRender' /\ RenderingIsOpen'
    <2>1. \A g \in Flights : g # f =>
            /\ flight'[g].producer = "rendering" /\ ~flight'[g].cancelled => Current(g)'
            /\ flight'[g].producer = "rendering" => flight'[g].outcome = None /\ ~flight'[g].completed
      BY <1>5, <1>10 DEF OneLiveRender, RenderingIsOpen
    <2>2. flight'[f].producer = "rendering" =>
            flight'[f].outcome = None /\ ~flight'[f].completed
      BY <1>7 DEF RenderingIsOpen
    <2>3. flight'[f].producer = "rendering" /\ ~flight'[f].cancelled
            => Current(f) /\ flight[f].leases # 1
      BY <1>7 DEF OneLiveRender, RenderingIsOpen
    <2>4. flight'[f].producer = "rendering" /\ ~flight'[f].cancelled => Current(f)'
      BY <1>10, <2>3
    <2> QED BY <2>1, <2>2, <2>4 DEF OneLiveRender, RenderingIsOpen
  <1>15. WaiterHasSource' /\ AnsweredIsTold'
    BY <1>0, <1>1, <1>2, <1>5, <1>6, <1>9, LeaseIsFlight DEF WaiterHasSource, AnsweredIsTold, Holders
  <1>16. LeaseByStage'
    BY <1>2 DEF LeaseByStage
  <1>17. LeaderDecides'
    BY <1>0, <1>1, <1>2, <1>5, <1>6, <1>9, <1>10, LeaseIsFlight DEF LeaderDecides, Leads
  <1> QED
    BY <1>8, <1>11, <1>12, <1>13, <1>14, <1>15, <1>16, <1>17

-----------------------------------------------------------------------------
(* The theorems                                                              *)

(* Every step keeps the invariant.                                           *)
LEMMA NextPreserves == IInv /\ [Next]_vars => IInv'
  <1> SUFFICES ASSUME IInv, [Next]_vars PROVE IInv'
    OBVIOUS
  <1>1. CASE \E c \in Callers : CallerStep(c)
    BY <1>1, JoinPreserves, LeadPreserves, RetryUnlinkPreserves, RetryFlagPreserves,
       RetrySendPreserves, SpawnPreserves, ObservePreserves, ReleasePreserves DEF CallerStep
  <1>2. CASE \E f \in Flights : ProducerStep(f)
    BY <1>2, DeliverPreserves, CompleteFlagPreserves, CompleteReapPreserves DEF ProducerStep
  <1>3. CASE UNCHANGED vars
    BY <1>3 DEF vars, IInv, TypeOK, LeasesCounted, RegisteredIsHeld, CancelledIsAbandoned,
         OneLiveRender, WaiterHasSource, LeaseByStage, LeaderDecides, RenderingIsOpen,
         AnsweredIsTold, Holders, Current, Detached, Leads
  <1> QED BY <1>1, <1>2, <1>3 DEF Next

(* The inductive invariant of coalesced renders holds always.                *)
THEOREM Invariance == Spec => []IInv
  BY InitIInv, NextPreserves, PTL DEF Spec

(* The state of the map, the flights and the leases has its types: no lease  *)
(* counter is ever below zero, nobody waits on what is not a flight.         *)
THEOREM TypeCorrect == Spec => []TypeOK
  <1>1. IInv => TypeOK
    BY DEF IInv
  <1> QED BY <1>1, Invariance, PTL

(* The lease counter is the number of leases, for any number of callers.     *)
THEOREM Counted == Spec => []LeasesCounted
  <1>1. IInv => LeasesCounted
    BY DEF IInv
  <1> QED BY <1>1, Invariance, PTL

(* No registered flight is left behind by its callers, for any limit.        *)
THEOREM NoneLeftBehind == Spec => []RegisteredIsHeld
  <1>1. IInv => RegisteredIsHeld
    BY DEF IInv
  <1> QED BY <1>1, Invariance, PTL

(* No caller ever has a lease on, or can find, a render that was cancelled.  *)
THEOREM CancelledAbandoned == Spec => []CancelledIsAbandoned
  <1>1. IInv => CancelledIsAbandoned
    BY DEF IInv
  <1> QED BY <1>1, Invariance, PTL

(* Every render still wanted is the registered one of its key.               *)
THEOREM Coalesced == Spec => []OneLiveRender
  <1>1. IInv => OneLiveRender
    BY DEF IInv
  <1> QED BY <1>1, Invariance, PTL

(* Whoever waits has an outcome, a render or a leader to wait for.           *)
THEOREM NobodyForgotten == Spec => []WaiterHasSource
  <1>1. IInv => WaiterHasSource
    BY DEF IInv
  <1> QED BY <1>1, Invariance, PTL

-----------------------------------------------------------------------------
(* Outcomes and the promise to callers                                       *)

(* What a step does to the outcome of a flight with a holder before and      *)
(* after: only a leader's RetrySend and the producer's Deliver set it, and   *)
(* both find it unset.                                                       *)
LEMMA OutcomeStep ==
  ASSUME IInv, [Next]_vars, NEW c \in Callers,
         lease[c] # None, lease'[c] = lease[c], flight[lease[c]].outcome # None
  PROVE  flight'[lease[c]].outcome = flight[lease[c]].outcome
  <1> USE DEF IInv
  <1>0. PICK f \in Flights : f = lease[c] /\ c \in Holders(f)
    BY DEF TypeOK, Holders
  <1> SUFFICES flight'[f].outcome = flight[f].outcome
    BY <1>0
  <1>1. flight[f].leases # 0 /\ f \notin Unused
    BY <1>0, CountedHolders DEF Unused, Dropped
  <1>2. ASSUME NEW d \in Callers, NEW k \in FlightKeys, Join(d, k) \/ Lead(d, k)
        PROVE  flight'[f].outcome = flight[f].outcome
    BY <1>1, <1>2 DEF Join, Lead, TypeOK, FlightRecords
  <1>3. ASSUME NEW d \in Callers, RetryUnlink(d) \/ RetryFlag(d) \/ Spawn(d) \/ Observe(d)
        PROVE  flight'[f].outcome = flight[f].outcome
    BY <1>3 DEF RetryUnlink, RetryFlag, Spawn, Observe, TypeOK, FlightRecords
  <1>4. ASSUME NEW d \in Callers, RetrySend(d)
        PROVE  flight'[f].outcome = flight[f].outcome
    BY <1>0, <1>4 DEF RetrySend, LeaderDecides, Leads, TypeOK, FlightRecords
  <1>5. ASSUME NEW g \in Flights, NEW o \in Outcomes, Deliver(g, o)
        PROVE  flight'[f].outcome = flight[f].outcome
    BY <1>0, <1>5 DEF Deliver, RenderingIsOpen, TypeOK, FlightRecords
  <1>6. ASSUME NEW g \in Flights, CompleteFlag(g) \/ CompleteReap(g)
        PROVE  flight'[f].outcome = flight[f].outcome
    BY <1>1, <1>6 DEF CompleteFlag, CompleteReap, Kept, TypeOK, FlightRecords
  <1>7. ASSUME NEW d \in Callers, Release(d)
        PROVE  flight'[f].outcome = flight[f].outcome
    <2>1. PICK g \in Flights : g = lease[d]
      BY <1>7, LeaseIsFlight DEF Release, LeaseGone
    <2>2. d # c
      BY <1>0, <1>7, NoneAssumption DEF Release, LeaseGone, TypeOK
    <2>3. flight[g].leases = 1 => \A e \in Callers : lease[e] = g => e = d
      BY <1>7, <2>1, ReleaseEffect
    <2>4. g = f => flight[f].leases # 1
      BY <1>0, <2>2, <2>3
    <2> QED BY <1>7, <2>1, <2>4, ReleaseEffect
  <1>8. CASE UNCHANGED vars
    BY <1>8 DEF vars
  <1> QED
    BY <1>2, <1>3, <1>4, <1>5, <1>6, <1>7, <1>8 DEF Next, CallerStep, ProducerStep

(* All callers of a flight are told the same.                                *)
THEOREM OneOutcomeHolds == Spec => OneOutcome
  <1>1. IInv /\ [Next]_vars =>
          [\A c \in Callers :
             LET f == lease[c] IN
               f # None /\ lease'[c] = f /\ flight[f].outcome # None
                 => flight'[f].outcome = flight[f].outcome]_vars
    BY OutcomeStep
  <1> QED BY <1>1, Invariance, PTL DEF Spec, OneOutcome

-----------------------------------------------------------------------------
(* RenderFlights implements SharedRender: counters, flags, tasks and          *)
(* cancellations are invisible to callers, for any number of them.            *)

(* What the participants of a shared render were told.                       *)
Told == [f \in Flights |-> IF Holders(f) = {} THEN None ELSE flight[f].outcome]

(* A step that leaves leases and the map alone is invisible unless it sets   *)
(* the outcome of a flight that somebody holds.                              *)
LEMMA Invisible ==
  ASSUME lease' = lease, entries' = entries,
         \A f \in Flights : Holders(f) # {} => flight'[f].outcome = flight[f].outcome
  PROVE  UNCHANGED Shared!sharedVars
  <1>1. \A f \in Flights : (Holders(f) = {})' <=> Holders(f) = {}
    BY DEF Holders
  <1>2. Told' = Told
    BY <1>1 DEF Told
  <1> QED BY <1>2 DEF Told, Shared!sharedVars

(* One that sets such an outcome is an answer.                               *)
LEMMA AnswerStep ==
  ASSUME IInv, NEW f \in Flights, NEW a \in Shared!Answers,
         lease' = lease, entries' = entries, Holders(f) # {}, flight[f].outcome = None,
         \A g \in Flights : flight'[g].outcome = IF g = f THEN a ELSE flight[g].outcome,
         (a = "RetryCache") <=> Detached(f)
  PROVE  Shared!Answer(f, a)
  <1>1. \A g \in Flights : (Holders(g) = {})' <=> Holders(g) = {}
    BY DEF Holders
  <1>2. Told' = [Told EXCEPT ![f] = a] /\ Told[f] = None
    BY <1>1 DEF Told
  <1> QED BY <1>2 DEF Told, Shared!Answer, Shared!Participants, Shared!Closed, Holders, Detached

(* Both specifications start with no tickets, renders or answers.            *)
LEMMA InitRefines == Init => Shared!Init
  <1> SUFFICES ASSUME Init PROVE Shared!Init
    OBVIOUS
  <1>1. \A f \in Flights : flight[f].outcome = None
    BY DEF Init, Dropped
  <1>2. Told = [f \in Flights |-> None]
    BY <1>1 DEF Told
  <1> QED BY <1>2 DEF Init, Told, Shared!Init

(* Taking a lease on a registered flight is joining its open render.         *)
LEMMA JoinRefines ==
  ASSUME IInv, NEW c \in Callers, NEW k \in FlightKeys, Join(c, k)
  PROVE  Shared!Join(c, k)
  <1> USE DEF IInv
  <1>1. /\ entries[k] # None /\ entries' = entries /\ lease[c] = None
        /\ lease' = [lease EXCEPT ![c] = entries[k]]
    BY DEF Join, LeaseByStage
  <1>2. PICK f \in Flights : f = entries[k]
    BY <1>1 DEF TypeOK
  <1>3. \A g \in Flights : flight'[g].outcome = flight[g].outcome
    BY <1>2 DEF Join, TypeOK, FlightRecords
  <1>4. \A g \in Flights : (Holders(g) = {})' <=> Holders(g) = {}
    <2>1. \E d \in Callers : lease[d] = f /\ d # c
      BY <1>1, <1>2, NoneAssumption DEF RegisteredIsHeld, Holders
    <2>2. \A d \in Callers : lease'[d] = IF d = c THEN f ELSE lease[d]
      BY <1>1, <1>2 DEF TypeOK
    <2>3. \A g \in Flights : (\E d \in Callers : lease'[d] = g) <=> \E d \in Callers : lease[d] = g
      BY <1>1, <2>1, <2>2, NoneAssumption
    <2> QED BY <2>3 DEF Holders
  <1>5. Told' = Told
    BY <1>3, <1>4 DEF Told
  <1> QED BY <1>1, <1>5 DEF Told, Shared!Join

(* Leading a new flight is starting a render that nobody takes part in yet.  *)
LEMMA LeadRefines ==
  ASSUME IInv, NEW c \in Callers, NEW k \in FlightKeys, Lead(c, k)
  PROVE  Shared!Start(c, k)
  <1> USE DEF IInv
  <1>1. PICK f \in Unused :
          /\ entries' = [entries EXCEPT ![k] = f]
          /\ flight' = [flight EXCEPT ![f] = [Dropped EXCEPT !.key = k, !.leases = 1]]
          /\ lease' = [lease EXCEPT ![c] = f]
    BY DEF Lead
  <1>2. lease[c] = None /\ entries[k] = None
    BY DEF Lead, LeaseByStage
  <1>3. f \in Flights /\ Holders(f) = {} /\ flight[f].outcome = None
    <2>1. f \in Flights /\ flight[f] = Dropped
      BY DEF Unused
    <2> QED BY <2>1, CountedHolders DEF Dropped
  <1>4. Detached(f)
    BY <1>3, NoneAssumption DEF RegisteredIsHeld, Detached
  <1>5. \A g \in Flights : flight'[g].outcome = flight[g].outcome
    BY <1>1, <1>3 DEF TypeOK, FlightRecords, Dropped
  <1>6. \A g \in Flights : g # f => ((Holders(g) = {})' <=> Holders(g) = {})
    BY <1>1, <1>2, <1>3, NoneAssumption DEF TypeOK, Holders
  <1>7. Told' = Told
    BY <1>3, <1>5, <1>6 DEF Told
  <1> QED
    BY <1>1, <1>2, <1>3, <1>4, <1>7
       DEF Told, Shared!Start, Shared!Participants, Shared!Closed, Holders, Detached

(* Unlinking the flight of a leader is detaching its render.                 *)
LEMMA RetryUnlinkRefines ==
  ASSUME IInv, NEW c \in Callers, RetryUnlink(c)
  PROVE  \E k \in FlightKeys : Shared!Detach(k)
  <1> USE DEF IInv
  <1>1. PICK f \in Flights : f = lease[c] /\ Current(f) /\ flight[f].outcome = None
    BY LeaseIsFlight DEF RetryUnlink, LeaderDecides, Leads
  <1>2. PICK k \in FlightKeys : k = flight[f].key /\ entries[k] = f
    BY <1>1 DEF Current
  <1>3. /\ entries' = [entries EXCEPT ![k] = None]
        /\ lease' = lease /\ flight' = flight
    BY <1>1, <1>2 DEF RetryUnlink, Unregister
  <1>4. Told' = Told /\ Told[f] = None
    <2>1. \A g \in Flights : (Holders(g) = {})' <=> Holders(g) = {}
      BY <1>3 DEF Holders
    <2> QED BY <1>1, <1>3, <2>1 DEF Told
  <1>5. Shared!Detach(k)
    BY <1>2, <1>3, <1>4, NoneAssumption DEF Told, Shared!Detach
  <1> QED BY <1>5

(* RetryCache is the answer of a detached render.                            *)
LEMMA RetrySendRefines ==
  ASSUME IInv, NEW c \in Callers, RetrySend(c)
  PROVE  \E t \in Flights, a \in Shared!Answers : Shared!Answer(t, a)
  <1> USE DEF IInv
  <1>1. PICK f \in Flights : /\ f = lease[c] /\ Holders(f) # {}
                            /\ flight[f].outcome = None /\ Detached(f)
    BY LeaseIsFlight DEF RetrySend, LeaderDecides, Leads
  <1>2. /\ lease' = lease /\ entries' = entries
        /\ \A g \in Flights :
             flight'[g].outcome = IF g = f THEN "RetryCache" ELSE flight[g].outcome
    BY <1>1 DEF RetrySend, TypeOK, FlightRecords
  <1>3. "RetryCache" \in Shared!Answers
    BY DEF Shared!Answers
  <1>4. Shared!Answer(f, "RetryCache")
    BY <1>1, <1>2, <1>3, AnswerStep
  <1> QED BY <1>3, <1>4

(* The outcome of a cancelled render reaches nobody; any other one is the    *)
(* answer of a render that is still open.                                    *)
LEMMA DeliverRefines ==
  ASSUME IInv, NEW f \in Flights, NEW o \in Outcomes, Deliver(f, o)
  PROVE  \/ \E t \in Flights, a \in Shared!Answers : Shared!Answer(t, a)
         \/ UNCHANGED Shared!sharedVars
  <1> USE DEF IInv
  <1>1. /\ lease' = lease /\ entries' = entries /\ flight[f].outcome = None
        /\ \A g \in Flights : flight'[g].outcome = IF g = f THEN o ELSE flight[g].outcome
    BY DEF Deliver, RenderingIsOpen, TypeOK, FlightRecords
  <1>2. CASE Holders(f) = {}
    BY <1>1, <1>2, Invisible
  <1>3. CASE Holders(f) # {}
    <2>1. ~flight[f].cancelled /\ Current(f)
      BY <1>3 DEF Deliver, CancelledIsAbandoned, OneLiveRender
    <2>2. o \in {"Rendered", "Failed"} /\ ~Detached(f)
      BY <2>1 DEF Deliver, Current, Detached
    <2>3. o \in Shared!Answers /\ o # "RetryCache"
      BY <2>2 DEF Shared!Answers
    <2>4. Shared!Answer(f, o)
      BY <1>1, <1>3, <2>2, <2>3, AnswerStep
    <2> QED BY <2>3, <2>4
  <1> QED BY <1>2, <1>3

(* Dropping a lease is leaving; with the last one the render closes.         *)
LEMMA ReleaseRefines ==
  ASSUME IInv, NEW c \in Callers, Release(c)
  PROVE  Shared!Leave(c)
  <1> USE DEF IInv
  <1>0. PICK f \in Flights : f = lease[c]
    BY LeaseIsFlight DEF Release, LeaseGone
  <1> DEFINE last == flight[f].leases = 1
  <1>1. /\ f # None /\ c \in Holders(f) /\ lease' = [lease EXCEPT ![c] = None]
        /\ \A d \in Callers : lease'[d] = IF d = c THEN None ELSE lease[d]
    <2>1. lease' = [lease EXCEPT ![c] = None]
      BY DEF Release, LeaseGone
    <2> HIDE DEF IInv
    <2>2. /\ f # None /\ c \in Holders(f)
          /\ \A d \in Callers : lease'[d] = IF d = c THEN None ELSE lease[d]
      BY <1>0, ReleaseEffect
    <2> QED BY <2>1, <2>2
  <1>2. \A k \in FlightKeys :
          entries'[k] = IF last /\ entries[k] = f THEN None ELSE entries[k]
    BY <1>0, ReleaseEffect
  <1>3. /\ \A g \in Flights : g # f => flight'[g] = flight[g]
        /\ ~last => flight'[f].outcome = flight[f].outcome
    BY <1>0, ReleaseEffect
  <1>4. last <=> Holders(f) = {c}
    <2>1. last => \A d \in Callers : lease[d] = f => d = c
      BY <1>0, ReleaseEffect
    <2>2. last => Holders(f) = {c}
      BY <1>1, <2>1 DEF Holders
    <2>3. Holders(f) = {c} => last
      BY FS_Singleton DEF LeasesCounted
    <2> QED BY <2>2, <2>3
  <1>5. entries' = [k \in FlightKeys |-> IF last /\ entries[k] = f THEN None ELSE entries[k]]
    <2>1. entries' \in [FlightKeys -> Flights \cup {None}]
      BY ReleasePreserves DEF TypeOK
    <2> QED BY <1>2, <2>1
  <1>6. \A g \in Flights : g # f => ((Holders(g) = {})' <=> Holders(g) = {})
    BY <1>0, <1>1, NoneAssumption DEF Holders
  <1>7. (\A d \in Callers : lease'[d] # f) <=> last
    BY <1>1, <1>4 DEF Holders
  <1>8. Told' = [Told EXCEPT ![f] = IF last THEN None ELSE @]
    <2>1. \A g \in Flights : g # f => Told'[g] = Told[g]
      BY <1>3, <1>6 DEF Told
    <2>2. (Holders(f) = {})' <=> last
      BY <1>7 DEF Holders
    <2>3. Told'[f] = IF last THEN None ELSE Told[f]
      BY <1>1, <1>3, <2>2 DEF Told
    <2> QED BY <2>1, <2>3 DEF Told
  <1> QED
    BY <1>0, <1>1, <1>4, <1>5, <1>8 DEF Told, Shared!Leave, Shared!Participants, Holders

(* Every step is one of SharedRender or invisible.                           *)
LEMMA NextRefines == IInv /\ [Next]_vars => [Shared!Next]_(Shared!sharedVars)
  <1> SUFFICES ASSUME IInv, [Next]_vars
               PROVE  Shared!Next \/ UNCHANGED Shared!sharedVars
    OBVIOUS
  <1> USE DEF IInv
  <1>1. ASSUME NEW c \in Callers, NEW k \in FlightKeys, Join(c, k) \/ Lead(c, k)
        PROVE  Shared!Next
    BY <1>1, JoinRefines, LeadRefines DEF Shared!Next
  <1>2. ASSUME NEW c \in Callers, RetryUnlink(c) \/ RetrySend(c)
        PROVE  Shared!Next
    BY <1>2, RetryUnlinkRefines, RetrySendRefines DEF Shared!Next
  <1>3. ASSUME NEW c \in Callers, RetryFlag(c) \/ Spawn(c) \/ Observe(c)
        PROVE  UNCHANGED Shared!sharedVars
    <2>1. /\ lease' = lease /\ entries' = entries
          /\ \A f \in Flights : flight'[f].outcome = flight[f].outcome
      BY <1>3 DEF RetryFlag, Spawn, Observe, TypeOK, FlightRecords
    <2> QED BY <2>1, Invisible
  <1>4. ASSUME NEW f \in Flights, NEW o \in Outcomes, Deliver(f, o)
        PROVE  Shared!Next \/ UNCHANGED Shared!sharedVars
    BY <1>4, DeliverRefines DEF Shared!Next
  <1>5. ASSUME NEW f \in Flights, CompleteFlag(f) \/ CompleteReap(f)
        PROVE  UNCHANGED Shared!sharedVars
    <2>1. flight[f].leases = 0 => Holders(f) = {} /\ ~Current(f)
      BY CountedHolders, NoneAssumption DEF TypeOK, RegisteredIsHeld, Current, Holders
    <2>2. lease' = lease /\ entries' = entries
      BY <1>5, <2>1 DEF CompleteFlag, CompleteReap
    <2>3. \A g \in Flights : Holders(g) # {} => flight'[g].outcome = flight[g].outcome
      BY <1>5, CountedHolders DEF CompleteFlag, CompleteReap, Kept, TypeOK, FlightRecords
    <2> QED BY <2>2, <2>3, Invisible
  <1>6. ASSUME NEW c \in Callers, Release(c)
        PROVE  Shared!Next
    BY <1>6, ReleaseRefines DEF Shared!Next
  <1>7. CASE UNCHANGED vars
    BY <1>7, Invisible DEF vars
  <1> QED
    BY <1>1, <1>2, <1>3, <1>4, <1>5, <1>6, <1>7 DEF Next, CallerStep, ProducerStep

(* Callers of coalesced renders see nothing but SharedRender: joint answers, *)
(* newcomers on the open render, and never an answer made by a cancellation. *)
THEOREM Refinement == Spec => SharedSpec
  BY InitRefines, NextRefines, Invariance, PTL DEF Spec, SharedSpec, Shared!Spec
=============================================================================
