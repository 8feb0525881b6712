-------------------------- MODULE MetaSearchProofs --------------------------
(* That refusals are kept and what the merged list promises, proved for every *)
(* deployment, every set of searches, whatever the sites answer.  Nothing is  *)
(* used for the breakers of what an adapter makes of an answer (Execute); for *)
(* the list, it is proved of each adapter that it makes hits.                 *)
EXTENDS MetaSearch, SequenceTheorems, FiniteSetTheorems, WellFoundedInduction, TLAPS

-----------------------------------------------------------------------------
(* The inductive invariant.                                                   *)

(* While a refusal stands undisturbed the breaker has its cooldown, and only  *)
(* witnesses ask.                                                             *)
RefusalStands ==
  \A engine \in Engines :
    refused[engine] # None /\ now < refused[engine].until
      => /\ breaker[engine].until = refused[engine].until
         /\ Asking(engine) \subseteq refused[engine].witnesses

(* A search that waits for its permit was asked for engines there are.        *)
RequestsPermitted ==
  \A s \in Searches : at[s] = "queued" => Selected(request[s]) \subseteq Engines

BreakerInv == TypeOK /\ RefusalStands /\ RequestsPermitted

-----------------------------------------------------------------------------

(* The threshold the breaker compares with.                                   *)
LEMMA ThresholdIsNat == Max({FailureThreshold, 1}) \in Nat
<1> FailureThreshold \in Nat
  BY MetaSearchAssumption
<1> \E x \in {FailureThreshold, 1} : \A y \in {FailureThreshold, 1} : x >= y
  OBVIOUS
<1> QED
  BY DEF Max

(* What record_failure leaves is a breaker's state.                           *)
LEMMA FailedType ==
  ASSUME TypeOK, NEW engine \in Engines, NEW error
  PROVE  Failed(engine, error) \in [failures : Nat, until : Nat]
BY MetaSearchAssumption, ThresholdIsNat DEF TypeOK, Failed

(* A search that leaves an engine is no longer its witness.                   *)
LEMMA WitnessedType ==
  ASSUME TypeOK, NEW s \in Searches, NEW engines \in SUBSET Engines
  PROVE  Witnessed(s, engines) \in [Engines -> [until : Nat, witnesses : SUBSET Searches] \cup {None}]
<1> SUFFICES ASSUME NEW e \in Engines
             PROVE  (IF e \in engines /\ refused[e] # None
                     THEN [refused[e] EXCEPT !.witnesses = @ \ {s}] ELSE refused[e])
                    \in [until : Nat, witnesses : SUBSET Searches] \cup {None}
  BY DEF Witnessed
<1> QED
  BY DEF TypeOK

-----------------------------------------------------------------------------

(* The breakers' invariant holds at first.                                    *)
LEMMA InitBreaker == Init => BreakerInv
<1> SUFFICES ASSUME Init PROVE BreakerInv
  OBVIOUS
<1>1. TypeOK
  BY MetaSearchAssumption DEF Init, TypeOK, Engines, Closed
<1>2. RefusalStands
  BY DEF Init, RefusalStands
<1>3. RequestsPermitted
  BY DEF Init, RequestsPermitted
<1> QED
  BY <1>1, <1>2, <1>3 DEF BreakerInv

-----------------------------------------------------------------------------
(* The steps.                                                                 *)

Stages == {"idle", "queued", "asking", "merging"}

(* A step that leaves breakers, tasks and history alone.                      *)
LEMMA QuietStep ==
  ASSUME BreakerInv, UNCHANGED <<deployment, breaker, pending, refused, now>>,
         at' \in [Searches -> Stages],
         \A s \in Searches : at'[s] # "asking" => pending[s] = {},
         request' \in [Searches -> Requests \cup {None}],
         RequestsPermitted'
  PROVE  BreakerInv'
<1>1. TypeOK'
  BY DEF BreakerInv, TypeOK, Engines, Requests, Stages
<1>2. RefusalStands'
  BY DEF BreakerInv, RefusalStands, Engines, Asking
<1> QED
  BY <1>1, <1>2 DEF BreakerInv

(* Leaving, a search's request is gone.                                       *)
LEMMA LeaveRequests ==
  ASSUME BreakerInv, NEW s \in Searches, Leave(s), deployment' = deployment
  PROVE  /\ at' \in [Searches -> Stages]
         /\ request' \in [Searches -> Requests \cup {None}]
         /\ RequestsPermitted'
<1> USE DEF BreakerInv, TypeOK, Leave, Stages
<1>1. at' \in [Searches -> Stages]
  OBVIOUS
<1>2. request' \in [Searches -> Requests \cup {None}]
  OBVIOUS
<1>3. RequestsPermitted'
  BY DEF RequestsPermitted, Selected, Engines
<1> QED
  BY <1>1, <1>2, <1>3

(* A search that asks nobody leaves.                                          *)
LEMMA LeaveStep ==
  ASSUME BreakerInv, NEW s \in Searches, at[s] # "asking", Leave(s),
         UNCHANGED <<deployment, breaker, refused, now>>
  PROVE  BreakerInv'
<1>1. pending' = pending
  BY DEF BreakerInv, TypeOK, Leave
<1>2. \A t \in Searches : at'[t] # "asking" => pending[t] = {}
  BY DEF BreakerInv, TypeOK, Leave
<1> QED
  BY <1>1, <1>2, LeaveRequests, QuietStep

(* A search drops the tasks it has.                                           *)
LEMMA DropStep ==
  ASSUME BreakerInv, NEW s \in Searches,
         UNCHANGED <<deployment, breaker, now>>,
         pending' = [pending EXCEPT ![s] = {}],
         refused' = Witnessed(s, pending[s]),
         at' \in [Searches -> Stages],
         \A t \in Searches \ {s} : at'[t] = at[t],
         request' \in [Searches -> Requests \cup {None}],
         RequestsPermitted'
  PROVE  BreakerInv'
<1> USE DEF BreakerInv
<1>1. TypeOK'
  <2>1. refused' \in [Engines -> [until : Nat, witnesses : SUBSET Searches] \cup {None}]
    BY WitnessedType DEF TypeOK
  <2>2. pending' \in [Searches -> SUBSET Engines]
    BY DEF TypeOK
  <2>3. ASSUME NEW t \in Searches, at'[t] # "asking" PROVE pending'[t] = {}
    <3>1. CASE t = s
      BY <3>1 DEF TypeOK
    <3>2. CASE t # s
      BY <3>2, <2>3 DEF TypeOK
    <3> QED
      BY <3>1, <3>2
  <2> QED
    BY <2>1, <2>2, <2>3 DEF TypeOK, Engines, Requests, Stages
<1>2. RefusalStands'
  <2> SUFFICES ASSUME NEW e \in Engines, refused'[e] # None, now < refused'[e].until
               PROVE  /\ breaker[e].until = refused'[e].until
                      /\ Asking(e)' \subseteq refused'[e].witnesses
    BY DEF RefusalStands, Engines
  <2>1. refused[e] # None /\ refused[e] \in [until : Nat, witnesses : SUBSET Searches]
    BY DEF Witnessed, TypeOK
  <2>2. refused'[e].until = refused[e].until
    BY <2>1 DEF Witnessed, TypeOK
  <2>3. breaker[e].until = refused[e].until /\ Asking(e) \subseteq refused[e].witnesses
    BY <2>1, <2>2 DEF RefusalStands
  <2>4. Asking(e)' = Asking(e) \ {s}
    BY DEF Asking, TypeOK
  <2>5. Asking(e) \ {s} \subseteq refused'[e].witnesses
    <3>1. CASE e \in pending[s]
      BY <3>1, <2>1, <2>3 DEF Witnessed
    <3>2. CASE e \notin pending[s]
      BY <3>2, <2>3 DEF Witnessed
    <3> QED
      BY <3>1, <3>2
  <2> QED
    BY <2>2, <2>3, <2>4, <2>5
<1> QED
  BY <1>1, <1>2

(* A search takes its permit and asks engines that are not set aside.         *)
LEMMA BeginStep ==
  ASSUME BreakerInv, NEW s \in Searches, Begin(s)
  PROVE  BreakerInv'
<1> USE DEF BreakerInv
<1> DEFINE engines == AvailableOf(request[s])
<1>1. /\ breaker' = Reset(engines)
      /\ pending' = [pending EXCEPT ![s] = engines]
      /\ UNCHANGED <<deployment, refused, request, now>>
      /\ at' = [at EXCEPT ![s] = "asking"]
      /\ at[s] = "queued" /\ pending[s] = {}
  BY DEF Begin, HasPermit, TypeOK
<1>2. engines \subseteq Engines /\ \A e \in engines : breaker[e].until <= now
  BY <1>1 DEF RequestsPermitted, AvailableOf, Available
<1> HIDE DEF engines
<1>3. /\ breaker' \in [Engines -> [failures : Nat, until : Nat]]
      /\ \A e \in engines : breaker'[e] = Closed
      /\ \A e \in Engines \ engines : breaker'[e] = breaker[e]
  BY <1>1, <1>2 DEF Reset, Closed, TypeOK
<1>4. TypeOK'
  <2>1. pending' \in [Searches -> SUBSET Engines] /\ at' \in [Searches -> Stages]
    BY <1>1, <1>2 DEF TypeOK, Stages
  <2>2. ASSUME NEW t \in Searches, at'[t] # "asking" PROVE pending'[t] = {}
    BY <1>1, <2>2 DEF TypeOK
  <2> QED
    BY <1>1, <1>3, <2>1, <2>2 DEF TypeOK, Engines, Requests, Stages
<1>5. RefusalStands'
  <2> SUFFICES ASSUME NEW e \in Engines, refused[e] # None, now < refused[e].until
               PROVE  /\ breaker'[e].until = refused[e].until
                      /\ Asking(e)' \subseteq refused[e].witnesses
    BY <1>1 DEF RefusalStands, Engines
  <2>1. breaker[e].until = refused[e].until /\ Asking(e) \subseteq refused[e].witnesses
    BY DEF RefusalStands
  <2>2. refused[e].until \in Nat /\ now \in Nat
    BY MetaSearchAssumption DEF TypeOK
  <2>3. e \notin engines
    BY <1>2, <2>1, <2>2
  <2>4. Asking(e)' = Asking(e)
    BY <1>1, <2>3 DEF Asking, TypeOK
  <2> QED
    BY <1>3, <2>1, <2>3, <2>4
<1>6. RequestsPermitted'
  BY <1>1 DEF RequestsPermitted, TypeOK, Engines, Selected
<1> QED
  BY <1>4, <1>5, <1>6

(* A result is recorded, and perhaps the other tasks are dropped.             *)
LEMMA CollectStep ==
  ASSUME BreakerInv, NEW s \in Searches, Collect(s)
  PROVE  BreakerInv'
<1> USE DEF BreakerInv
<1> DEFINE Steps(engine, reply) ==
        LET result == Execute(engine, reply, request[s].limit)
            left == pending[s] \ {engine}
            waits == left # {} /\ now < Deadline(Taken(run[s], engine, result))
        IN  /\ breaker' = [breaker EXCEPT ![engine] = Recorded(engine, result)]
            /\ pending' = [pending EXCEPT ![s] = IF waits THEN left ELSE {}]
            /\ at' = [at EXCEPT ![s] = IF waits THEN "asking" ELSE "merging"]
            /\ refused' = [Witnessed(s, pending[s] \ pending'[s]) EXCEPT ![engine] =
                             IF result.error = "RateLimited"
                             THEN [until |-> now + RateLimitCooldown, witnesses |-> Asking(engine) \ {s}]
                             ELSE None]
<1>a. PICK engine \in pending[s] : \E reply \in Replies[engine] : Steps(engine, reply)
  BY DEF Collect
<1>1. PICK reply \in Replies[engine] : Steps(engine, reply)
  BY <1>a
<1> DEFINE error == Execute(engine, reply, request[s].limit).error
           dropped == pending[s] \ pending'[s]
<1>2. /\ at[s] = "asking" /\ UNCHANGED <<deployment, request, now>>
      /\ engine \in Engines /\ now \in Nat
  BY MetaSearchAssumption DEF Collect, TypeOK
<1>3. /\ \/ error = "none" /\ breaker' = [breaker EXCEPT ![engine] = Closed]
         \/ error # "none" /\ breaker' = [breaker EXCEPT ![engine] = Failed(engine, error)]
      /\ refused' = [Witnessed(s, dropped) EXCEPT ![engine] =
                       IF error = "RateLimited"
                       THEN [until |-> now + RateLimitCooldown, witnesses |-> Asking(engine) \ {s}]
                       ELSE None]
  BY <1>1 DEF Recorded
<1>4. /\ pending' \in [Searches -> SUBSET Engines]
      /\ \A t \in Searches \ {s} : pending'[t] = pending[t] /\ at'[t] = at[t]
      /\ pending'[s] \subseteq pending[s] \ {engine}
      /\ at' \in [Searches -> Stages]
      /\ \/ at'[s] = "asking"
         \/ at'[s] = "merging" /\ pending'[s] = {}
  BY <1>1, <1>2 DEF TypeOK, Stages
<1> HIDE DEF error
<1>5. dropped \in SUBSET Engines /\ engine \in dropped
  BY <1>4, <1>2 DEF TypeOK
<1>6. Witnessed(s, dropped) \in [Engines -> [until : Nat, witnesses : SUBSET Searches] \cup {None}]
  BY <1>5, WitnessedType
<1> HIDE DEF dropped
<1>7. Failed(engine, error) \in [failures : Nat, until : Nat]
  BY <1>2, FailedType
<1>8. TypeOK'
  <2>1. breaker' \in [Engines -> [failures : Nat, until : Nat]]
    <3>1. breaker \in [Engines -> [failures : Nat, until : Nat]]
      BY DEF TypeOK
    <3>2. CASE error = "none"
      <4>1. Closed \in [failures : Nat, until : Nat]
        BY DEF Closed
      <4> QED
        BY <1>3, <3>1, <3>2, <4>1
    <3>3. CASE error # "none"
      BY <1>3, <1>7, <3>1, <3>3
    <3> QED
      BY <3>2, <3>3
  <2>2. refused' \in [Engines -> [until : Nat, witnesses : SUBSET Searches] \cup {None}]
    <3>1. [until |-> now + RateLimitCooldown, witnesses |-> Asking(engine) \ {s}]
            \in [until : Nat, witnesses : SUBSET Searches]
      BY <1>2, MetaSearchAssumption DEF Asking
    <3> QED
      BY <1>3, <1>6, <3>1
  <2>3. ASSUME NEW t \in Searches, at'[t] # "asking" PROVE pending'[t] = {}
    BY <1>4, <2>3 DEF TypeOK
  <2> QED
    BY <1>2, <1>4, <2>1, <2>2, <2>3 DEF TypeOK, Engines, Requests, Stages
<1>9. RefusalStands'
  <2> SUFFICES ASSUME NEW e \in Engines, refused'[e] # None, now < refused'[e].until
               PROVE  /\ breaker'[e].until = refused'[e].until
                      /\ Asking(e)' \subseteq refused'[e].witnesses
    BY <1>2 DEF RefusalStands, Engines
  <2>1. CASE e = engine
    <3>1. /\ error = "RateLimited"
          /\ refused'[e] = [until |-> now + RateLimitCooldown, witnesses |-> Asking(e) \ {s}]
      BY <1>3, <1>6, <2>1
    <3>2. breaker'[e].until = now + RateLimitCooldown
      BY <1>2, <1>3, <2>1, <3>1 DEF Failed, TypeOK
    <3>3. Asking(e)' \subseteq Asking(e) \ {s}
      BY <1>4, <2>1 DEF Asking
    <3> QED
      BY <3>1, <3>2, <3>3
  <2>2. CASE e # engine
    <3>1. breaker'[e] = breaker[e] /\ refused'[e] = Witnessed(s, dropped)[e]
      BY <1>2, <1>3, <1>6, <2>2 DEF TypeOK
    <3>2. refused[e] # None /\ refused[e] \in [until : Nat, witnesses : SUBSET Searches]
      BY <3>1 DEF Witnessed, TypeOK
    <3>3. refused'[e].until = refused[e].until
      BY <3>1, <3>2 DEF Witnessed
    <3>4. breaker[e].until = refused[e].until /\ Asking(e) \subseteq refused[e].witnesses
      BY <3>2, <3>3 DEF RefusalStands
    <3>5. CASE e \in dropped
      <4>1. refused'[e].witnesses = refused[e].witnesses \ {s}
        BY <3>1, <3>2, <3>5 DEF Witnessed
      <4>2. Asking(e)' \subseteq Asking(e) \ {s}
        BY <1>4, <3>5 DEF Asking, dropped
      <4> QED
        BY <3>1, <3>3, <3>4, <4>1, <4>2
    <3>6. CASE e \notin dropped
      <4>1. refused'[e] = refused[e]
        BY <3>1, <3>6 DEF Witnessed
      <4>2. Asking(e)' \subseteq Asking(e)
        BY <1>4 DEF Asking
      <4> QED
        BY <3>1, <3>4, <4>1, <4>2
    <3> QED
      BY <3>5, <3>6
  <2> QED
    BY <2>1, <2>2
<1>10. RequestsPermitted'
  BY <1>2, <1>4 DEF RequestsPermitted, Engines, Selected
<1> QED
  BY <1>8, <1>9, <1>10

(* Time passes: refusals end with their cooldowns.                            *)
LEMMA TickStep ==
  ASSUME BreakerInv, Tick
  PROVE  BreakerInv'
<1> USE DEF BreakerInv
<1>1. /\ now' = now + 1 /\ now \in Nat /\ now' \in 0..MaxTime
      /\ UNCHANGED <<deployment, breaker, at, pending, request>>
      /\ refused' = [engine \in Engines |->
           IF refused[engine] # None /\ refused[engine].until <= now' THEN None ELSE refused[engine]]
  BY MetaSearchAssumption DEF Tick, TypeOK
<1>2. TypeOK'
  BY <1>1 DEF TypeOK, Engines, Requests
<1>3. RefusalStands'
  <2> SUFFICES ASSUME NEW e \in Engines, refused'[e] # None
               PROVE  now' < refused'[e].until =>
                        /\ breaker[e].until = refused'[e].until
                        /\ Asking(e) \subseteq refused'[e].witnesses
    BY <1>1 DEF RefusalStands, Engines, Asking
  <2>1. refused'[e] = refused[e] /\ refused[e].until \in Nat
    BY <1>1 DEF TypeOK
  <2>2. now' < refused[e].until => now < refused[e].until
    BY <1>1, <2>1
  <2> QED
    BY <2>1, <2>2 DEF RefusalStands
<1>4. RequestsPermitted'
  BY <1>1 DEF RequestsPermitted, Engines, Selected
<1> QED
  BY <1>2, <1>3, <1>4

(* A request that waits is one the service permits.                           *)
LEMMA SubmitStep ==
  ASSUME BreakerInv, NEW s \in Searches, Submit(s)
  PROVE  BreakerInv'
<1> USE DEF BreakerInv
<1>1. PICK asked \in deployment.requests[s] :
        Permitted(asked) /\ request' = [request EXCEPT ![s] = asked]
  BY DEF Submit
<1>2. /\ UNCHANGED <<deployment, breaker, pending, refused, now>>
      /\ at[s] = "idle" /\ at' = [at EXCEPT ![s] = "queued"]
  BY DEF Submit
<1>3. at' \in [Searches -> Stages] /\ \A t \in Searches : at'[t] # "asking" => pending[t] = {}
  BY <1>2 DEF TypeOK, Stages
<1>4. request' \in [Searches -> Requests \cup {None}]
  <2>1. asked \in Requests
    BY <1>1 DEF Requests
  <2> QED
    BY <1>1, <2>1 DEF TypeOK
<1>5. RequestsPermitted'
  BY <1>1, <1>2 DEF RequestsPermitted, TypeOK, Permitted, Engines, Selected
<1> QED
  BY <1>2, <1>3, <1>4, <1>5, QuietStep

-----------------------------------------------------------------------------
(* The theorems.                                                              *)

(* Every step keeps the breakers' invariant.                                  *)
LEMMA BreakerStep == BreakerInv /\ [Next]_vars => BreakerInv'
<1> SUFFICES ASSUME BreakerInv, [Next]_vars PROVE BreakerInv'
  OBVIOUS
<1>1. CASE Tick
  BY <1>1, TickStep
<1>2. ASSUME NEW s \in Searches, Submit(s) PROVE BreakerInv'
  BY <1>2, SubmitStep
<1>3. ASSUME NEW s \in Searches, GiveUp(s) \/ AnswerCached(s) \/ Unavailable(s) \/ Finish(s)
      PROVE  BreakerInv'
  <2>1. /\ at[s] # "asking" /\ Leave(s)
        /\ UNCHANGED <<deployment, breaker, refused, now>>
    BY <1>3 DEF GiveUp, AnswerCached, Unavailable, Finish, HasPermit
  <2> QED
    BY <2>1, LeaveStep
<1>4. ASSUME NEW s \in Searches, Begin(s) PROVE BreakerInv'
  BY <1>4, BeginStep
<1>5. ASSUME NEW s \in Searches, Collect(s) PROVE BreakerInv'
  BY <1>5, CollectStep
<1>6. ASSUME NEW s \in Searches, Break(s) PROVE BreakerInv'
  <2>1. /\ UNCHANGED <<deployment, breaker, request, now>>
        /\ pending' = [pending EXCEPT ![s] = {}] /\ refused' = Witnessed(s, pending[s])
        /\ at' = [at EXCEPT ![s] = "merging"]
    BY <1>6 DEF Break
  <2>2. /\ at' \in [Searches -> Stages] /\ \A t \in Searches \ {s} : at'[t] = at[t]
        /\ request' \in [Searches -> Requests \cup {None}]
    BY <2>1 DEF BreakerInv, TypeOK, Stages, Requests
  <2>3. RequestsPermitted'
    BY <2>1 DEF BreakerInv, RequestsPermitted, TypeOK, Engines, Selected
  <2> QED
    BY <2>1, <2>2, <2>3, DropStep
<1>7. ASSUME NEW s \in Searches, Abandon(s) PROVE BreakerInv'
  <2>1. /\ Leave(s) /\ refused' = Witnessed(s, pending[s])
        /\ UNCHANGED <<deployment, breaker, now>>
    BY <1>7 DEF Abandon
  <2>2. /\ pending' = [pending EXCEPT ![s] = {}]
        /\ \A t \in Searches \ {s} : at'[t] = at[t]
    BY <2>1 DEF Leave, BreakerInv, TypeOK
  <2> QED
    BY <2>1, <2>2, LeaveRequests, DropStep
<1>8. CASE UNCHANGED vars
  <2>1. UNCHANGED <<deployment, breaker, at, pending, request, refused, now>>
    BY <1>8 DEF vars
  <2> QED
    BY <2>1 DEF BreakerInv, TypeOK, RefusalStands, RequestsPermitted, Engines, Requests,
                Asking, Selected
<1> QED
  BY <1>1, <1>2, <1>3, <1>4, <1>5, <1>6, <1>7, <1>8 DEF Next, Work

(* It holds in every reachable state.                                         *)
LEMMA SpecKeepsBreakerInv == Spec => []BreakerInv
<1> QED
  BY InitBreaker, BreakerStep, PTL DEF Spec

(* Whatever happens to its searches, the service's state has its shape: only  *)
(* a search that asks has tasks, and every engine asked is one it was started *)
(* with.                                                                      *)
THEOREM MetaSearchTypes == Spec => []TypeOK
<1>1. BreakerInv => TypeOK
  BY DEF BreakerInv
<1> QED
  BY <1>1, SpecKeepsBreakerInv, PTL

(* An engine that refused is asked by nobody until its cooldown is over but   *)
(* those that were asking it already, however searches overlap, end or are    *)
(* dropped (available 346-359, record_failure 369-381).                       *)
THEOREM RefusalsAreKept == Spec => []SetAside
<1>1. BreakerInv => SetAside
  BY DEF BreakerInv, SetAside, RefusalStands
<1> QED
  BY <1>1, SpecKeepsBreakerInv, PTL

-----------------------------------------------------------------------------
(* A set of numbers has a least member.                                       *)
LEMMA LeastMember ==
  ASSUME NEW S \in SUBSET Nat, S # {}
  PROVE  \E x \in S : \A y \in S : x <= y
<1>1. PICK x \in S : \A y \in S : <<y, x>> \notin OpToRel(<, Nat)
  BY NatLessThanWellFounded, WFMin, Zenon
<1>2. OpToRel(<, Nat) = {ss \in Nat \X Nat : ss[1] < ss[2]}
  BY Zenon DEF OpToRel
<1>3. \A y \in S : x <= y
  <2> SUFFICES ASSUME NEW y \in S, y < x PROVE FALSE
    OBVIOUS
  <2>1. <<y, x>> \in {ss \in Nat \X Nat : ss[1] < ss[2]}
    OBVIOUS
  <2> QED
    BY <1>1, <1>2, <2>1, Zenon
<1> QED
  BY <1>3

(* Among subsets of a finite set there is a smallest one.                     *)
LEMMA SmallestSet ==
  ASSUME NEW S, IsFiniteSet(S), NEW F \in SUBSET SUBSET S, F # {}
  PROVE  \E t \in F : \A u \in F : Cardinality(t) <= Cardinality(u)
<1> DEFINE sizes == {Cardinality(t) : t \in F}
<1>1. \A t \in F : Cardinality(t) \in Nat
  BY FS_Subset, FS_CardinalityType
<1>2. sizes \in SUBSET Nat /\ sizes # {}
  BY <1>1
<1>3. \E n \in sizes : \A y \in sizes : n <= y
  <2> HIDE DEF sizes
  <2> QED
    BY <1>2, LeastMember
<1> QED
  BY <1>3

(* A set without one of its members is a smaller set.                         *)
LEMMA OneLess ==
  ASSUME NEW S, IsFiniteSet(S), NEW T \in SUBSET S, NEW x \in T
  PROVE  /\ T \ {x} \in SUBSET S
         /\ Cardinality(T) \in Nat \ {0} /\ Cardinality(T \ {x}) = Cardinality(T) - 1
<1>1. IsFiniteSet(T)
  BY FS_Subset
<1> QED
  BY <1>1, FS_RemoveElement, FS_CardinalityType, FS_EmptySet

-----------------------------------------------------------------------------
(* Folds.                                                                     *)

(* f folds step over the members of every subset T of S, c[T] the last.       *)
Folds(step, base, c, S, f) ==
  \A T \in SUBSET S : f[T] = IF T = {} THEN base ELSE step[<<f[T \ {c[T]}], c[T]>>]

(* Such a fold exists when step keeps to some set V of values.                *)
LEMMA FoldExists ==
  ASSUME NEW S, IsFiniteSet(S), NEW V, NEW base \in V,
         NEW step, \A v \in V : \A x \in S : step[<<v, x>>] \in V,
         NEW c, \A T \in SUBSET S : T # {} => c[T] \in T
  PROVE  \E f \in [SUBSET S -> V] : Folds(step, base, c, S, f)
<1> DEFINE Upto(n) == {T \in SUBSET S : Cardinality(T) <= n}
           Good(n, f) ==
             \A T \in Upto(n) : f[T] = IF T = {} THEN base ELSE step[<<f[T \ {c[T]}], c[T]>>]
           failing == {n \in Nat : ~ \E f \in [Upto(n) -> V] : Good(n, f)}
<1>1. \A T \in SUBSET S : Cardinality(T) \in Nat /\ (Cardinality(T) = 0 => T = {})
  BY FS_Subset, FS_CardinalityType, FS_EmptySet
<1>2. failing = {}
  <2> SUFFICES ASSUME failing # {} PROVE FALSE
    OBVIOUS
  <2>1. PICK n \in failing : \A m \in failing : n <= m
    <3>1. failing \in SUBSET Nat
      OBVIOUS
    <3> HIDE DEF failing
    <3> QED
      BY <3>1, LeastMember
  <2>2. n \in Nat /\ ~ \E f \in [Upto(n) -> V] : Good(n, f)
    BY <2>1
  <2>3. CASE n = 0
    <3> DEFINE f == [T \in Upto(0) |-> base]
    <3>1. \A T \in Upto(0) : T = {}
      BY <1>1
    <3>2. f \in [Upto(0) -> V] /\ Good(0, f)
      BY <3>1
    <3> QED
      BY <2>2, <2>3, <3>2
  <2>4. CASE n # 0
    <3>1. n - 1 \in Nat /\ n - 1 \notin failing
      <4>1. n - 1 \in Nat /\ ~ n <= n - 1
        BY <2>2, <2>4
      <4> HIDE DEF failing
      <4> QED
        BY <2>1, <4>1
    <3>2. PICK g \in [Upto(n - 1) -> V] : Good(n - 1, g)
      BY <3>1
    <3> DEFINE f == [T \in Upto(n) |-> IF T = {} THEN base ELSE step[<<g[T \ {c[T]}], c[T]>>]]
    <3>3. \A T \in Upto(n) : T # {} => T \ {c[T]} \in Upto(n - 1) /\ c[T] \in S
      <4> SUFFICES ASSUME NEW T \in Upto(n), T # {} PROVE T \ {c[T]} \in Upto(n - 1) /\ c[T] \in S
        OBVIOUS
      <4>1. T \in SUBSET S /\ c[T] \in T /\ Cardinality(T) <= n
        OBVIOUS
      <4>2. /\ T \ {c[T]} \in SUBSET S
            /\ Cardinality(T) \in Nat /\ Cardinality(T \ {c[T]}) = Cardinality(T) - 1
        BY <4>1, OneLess
      <4> QED
        BY <2>2, <4>1, <4>2
    <3>4. Upto(n - 1) \subseteq Upto(n)
      BY <1>1, <2>2
    <3> HIDE DEF Upto
    <3>5. f \in [Upto(n) -> V]
      BY <3>2, <3>3
    <3>6. \A T \in Upto(n - 1) : f[T] = g[T]
      BY <3>2, <3>4
    <3>7. Good(n, f)
      BY <3>3, <3>4, <3>6
    <3> HIDE DEF f, Good
    <3> QED
      BY <2>2, <3>5, <3>7
  <2> QED
    BY <2>3, <2>4
<1>3. Cardinality(S) \in Nat /\ Upto(Cardinality(S)) = SUBSET S
  BY FS_Subset, FS_CardinalityType
<1>4. PICK f \in [Upto(Cardinality(S)) -> V] : Good(Cardinality(S), f)
  BY <1>2, <1>3
<1>5. Folds(step, base, c, S, f)
  BY <1>3, <1>4 DEF Folds
<1> QED
  BY <1>3, <1>4, <1>5

-----------------------------------------------------------------------------
(* A merge goes through the hits one by one.                                  *)

Outputs == [engine : EngineKind, hits : Seq(Hits)]

Entries == [hit : Hits, sources : Seq(EngineKind), score : Nat]
Rankings == UNION {[D -> Entries] : D \in SUBSET Links}

(* What a hit adds to a score is a natural number.                            *)
LEMMA ScoreType == ASSUME NEW engine, NEW rank \in Nat \ {0} PROVE Score(engine, rank) \in Nat
<1>1. Weight(engine) \in Nat
  BY DEF Weight
<1> DEFINE w == Weight(engine)
<1> HIDE DEF w
<1>2. (w * 10000) \div (60 + rank) \in Nat
  <2>1. w \in Nat
    BY <1>1 DEF w
  <2>2. w * 10000 \in Nat /\ 60 + rank \in Nat \ {0}
    BY <2>1
  <2> QED
    BY <2>2
<1> QED
  BY <1>2 DEF Score, Scale, RrfK, w

(* An address has one page at most: itself without its tail.                  *)
LEMMA PageOfUrl ==
  ASSUME NEW url \in Links
  PROVE  /\ NormalizedUrl(url) \subseteq Links
         /\ \A page \in NormalizedUrl(url) : page = [url EXCEPT !.tail = ""]
<1>1. Fetchable(url) \subseteq {url}
  BY DEF Fetchable
<1>2. [url EXCEPT !.tail = ""] \in Links
  BY DEF Links
<1>3. NormalizedUrl(url) \subseteq {[url EXCEPT !.tail = ""]}
  BY <1>1 DEF NormalizedUrl
<1> QED
  BY <1>2, <1>3

(* Entering a hit leaves a ranking.                                           *)
LEMMA EnteredType ==
  ASSUME NEW ranked \in Rankings, NEW engine \in EngineKind, NEW rank \in Nat \ {0}, NEW hit \in Hits
  PROVE  Entered(ranked, engine, rank, hit) \in Rankings
<1> DEFINE D == DOMAIN ranked \cup NormalizedUrl(hit.url)
           entered == Entered(ranked, engine, rank, hit)
<1>1. /\ DOMAIN ranked \subseteq Links /\ \A page \in DOMAIN ranked : ranked[page] \in Entries
  BY DEF Rankings
<1>2. D \in SUBSET Links
  BY <1>1, PageOfUrl DEF Hits
<1>3. Score(engine, rank) \in Nat
  BY ScoreType
<1>4. ASSUME NEW page \in D PROVE entered[page] \in Entries
  <2>1. CASE page \notin DOMAIN ranked
    <3>1. entered[page] = RankedHit(hit, <<engine>>, Score(engine, rank))
      BY <1>4, <2>1 DEF Entered
    <3> QED
      BY <1>3, <3>1 DEF RankedHit, Entries
  <2>2. CASE page \in DOMAIN ranked /\ page \notin NormalizedUrl(hit.url)
    BY <1>1, <2>2 DEF Entered
  <2>3. CASE page \in DOMAIN ranked /\ page \in NormalizedUrl(hit.url)
    <3>1. entered[page] = Joined(ranked[page], engine, rank, hit)
      BY <1>4, <2>3 DEF Entered
    <3> DEFINE known == ranked[page]
    <3>2. known \in Entries
      BY <1>1, <2>3
    <3> HIDE DEF known
    <3>3. Joined(known, engine, rank, hit) \in Entries
      <4>1. known.score + Score(engine, rank) \in Nat
        BY <1>3, <3>2 DEF Entries
      <4>2. (IF engine \in ToSet(known.sources) THEN known.sources
             ELSE Append(known.sources, engine)) \in Seq(EngineKind)
        BY <3>2 DEF Entries
      <4>3. [known.hit EXCEPT !.snippet = IF hit.snippet > @ THEN hit.snippet ELSE @] \in Hits
        BY <3>2 DEF Entries, Hits
      <4> QED
        BY <4>1, <4>2, <4>3 DEF Joined, RankedHit, Entries
    <3> QED
      BY <3>1, <3>3 DEF known
  <2> QED
    BY <2>1, <2>2, <2>3
<1>5. entered = [page \in D |-> entered[page]]
  BY DEF Entered
<1> HIDE DEF entered, D
<1>6. entered \in [D -> Entries]
  BY <1>4, <1>5
<1> QED
  BY <1>2, <1>6 DEF Rankings, entered

(* A set of the first numbers has a greatest one.                             *)
LEMMA GreatestMember ==
  ASSUME NEW n \in Nat, NEW S \in SUBSET (1 .. n), S # {}
  PROVE  Max(S) \in S /\ \A y \in S : y <= Max(S)
<1> DEFINE bounds == {m \in Nat : \A y \in S : y <= m}
<1>1. n \in bounds
  OBVIOUS
<1>2. PICK m \in bounds : \A k \in bounds : m <= k
  <2>1. bounds \in SUBSET Nat /\ bounds # {}
    BY <1>1
  <2> HIDE DEF bounds
  <2> QED
    BY <2>1, LeastMember
<1>3. m \in S
  <2> SUFFICES ASSUME m \notin S PROVE FALSE
    OBVIOUS
  <2>1. \A y \in S : y \in Nat /\ y >= 1 /\ y <= m /\ y # m
    BY <1>2
  <2>2. m \in Nat /\ m >= 1
    <3>1. PICK y \in S : y \in Nat /\ y >= 1 /\ y <= m
      BY <2>1
    <3>2. m \in Nat
      BY <1>2
    <3> QED
      BY <3>1, <3>2
  <2>3. m - 1 \in bounds
    BY <2>1, <2>2
  <2> QED
    BY <1>2, <2>2, <2>3
<1>4. \E x \in S : \A y \in S : x >= y
  BY <1>2, <1>3
<1>5. Max(S) \in S /\ \A y \in S : Max(S) >= y
  BY <1>4 DEF Max
<1> QED
  BY <1>5

(* The first numbers are folded from the last to the first.                   *)
LEMMA LastIsMax ==
  ASSUME NEW n \in Nat
  PROVE  /\ IsFiniteSet(1 .. n)
         /\ \A T \in SUBSET (1 .. n) : T # {} => Max(T) \in T
         /\ \A k \in 1 .. n : /\ 1 .. k \in SUBSET (1 .. n) /\ 1 .. k # {} /\ k \in 0 .. n /\ k - 1 \in 0 .. n
                             /\ Max(1 .. k) = k /\ (1 .. k) \ {k} = 1 .. k - 1
<1>1. IsFiniteSet(1 .. n)
  BY FS_Interval
<1>2. \A T \in SUBSET (1 .. n) : T # {} => Max(T) \in T
  BY GreatestMember
<1>3. ASSUME NEW k \in 1 .. n
      PROVE  /\ 1 .. k \in SUBSET (1 .. n) /\ 1 .. k # {} /\ k \in 0 .. n /\ k - 1 \in 0 .. n
             /\ Max(1 .. k) = k /\ (1 .. k) \ {k} = 1 .. k - 1
  <2>1. k \in 1 .. k /\ 1 .. k # {} /\ 1 .. k \in SUBSET (1 .. n) /\ k \in 0 .. n /\ k - 1 \in 0 .. n
    OBVIOUS
  <2>2. Max(1 .. k) \in 1 .. k /\ k <= Max(1 .. k)
    BY <2>1, GreatestMember
  <2> QED
    BY <2>1, <2>2
<1> QED
  BY <1>1, <1>2, <1>3

(* The rankings along one output, from before its first hit to after its last. *)
Along(ranked, output, f) ==
  /\ f[0] = ranked
  /\ \A k \in 1 .. Len(output.hits) : f[k] = Entered(f[k - 1], output.engine, k, output.hits[k])

(* The hits of an output are entered one by one.                              *)
LEMMA HitByHit ==
  ASSUME NEW ranked \in Rankings, NEW output \in Outputs
  PROVE  \E f : Along(ranked, output, f) /\ EnteredAll(ranked, output) = f[Len(output.hits)]
<1> DEFINE n == Len(output.hits)
           Enter(known, k) == Entered(known, output.engine, k, output.hits[k])
           Recursion(h) ==
             h = [T \in SUBSET (1 .. n) |-> IF T = {} THEN ranked ELSE Enter(h[T \ {Max(T)}], Max(T))]
           iter == CHOOSE h : Recursion(h)
           seq == [rank \in 1 .. n |-> rank]
<1>1. /\ n \in Nat /\ output.engine \in EngineKind
      /\ \A k \in 1 .. n : output.hits[k] \in Hits /\ k \in Nat \ {0}
  BY DEF Outputs
<1> DEFINE step == [vk \in Rankings \X (1 .. n) |-> Enter(vk[1], vk[2])]
           c == [T \in SUBSET (1 .. n) |-> Max(T)]
<1>2. \A T \in SUBSET (1 .. n) : T # {} => c[T] \in T
  BY <1>1, LastIsMax
<1>3. \A v \in Rankings : \A k \in 1 .. n : step[<<v, k>>] = Enter(v, k)
  OBVIOUS
<1>4. \A v \in Rankings : \A k \in 1 .. n : Enter(v, k) \in Rankings
  BY <1>1, EnteredType
<1>5. PICK f \in [SUBSET (1 .. n) -> Rankings] : Folds(step, ranked, c, 1 .. n, f)
  <2> HIDE DEF step, c, n, Enter
  <2>1. IsFiniteSet(1 .. n)
    BY <1>1, LastIsMax
  <2>2. \A v \in Rankings : \A k \in 1 .. n : step[<<v, k>>] \in Rankings
    BY <1>3, <1>4
  <2> QED
    BY <1>2, <2>1, <2>2, FoldExists
<1>6. Recursion(f)
  <2>1. ASSUME NEW T \in SUBSET (1 .. n)
        PROVE  f[T] = IF T = {} THEN ranked ELSE Enter(f[T \ {Max(T)}], Max(T))
    <3>1. c[T] = Max(T) /\ f[T] = IF T = {} THEN ranked ELSE step[<<f[T \ {c[T]}], c[T]>>]
      BY <1>5 DEF Folds
    <3>2. f[T \ {Max(T)}] \in Rankings
      BY <1>5
    <3>3. T # {} => Max(T) \in 1 .. n
      BY <1>1, LastIsMax
    <3> HIDE DEF step, c, Enter
    <3> QED
      BY <1>3, <3>1, <3>2, <3>3
  <2> HIDE DEF Enter
  <2> QED
    BY <1>5, <2>1
<1>7. Recursion(iter)
  <2> HIDE DEF Recursion
  <2> QED
    BY <1>6, Zenon
<1>8. EnteredAll(ranked, output) = iter[1 .. n]
  <2> DEFINE Reads(h) ==
               h = [T \in SUBSET (DOMAIN seq) |->
                      IF T = {} THEN ranked ELSE Enter(h[T \ {Max(T)}], seq[Max(T)])]
  <2>1. EnteredAll(ranked, output) =
          MapThenFoldSet(LAMBDA x, y : Enter(y, x), ranked, LAMBDA i : seq[i],
                         LAMBDA T : Max(T), DOMAIN seq)
    BY Zenon DEF EnteredAll, FoldLeft
  <2>2. EnteredAll(ranked, output) = (CHOOSE h : Reads(h))[DOMAIN seq]
    BY <2>1, Zenon DEF MapThenFoldSet
  <2>3. DOMAIN seq = 1 .. n
    OBVIOUS
  <2>4. \A T \in SUBSET (1 .. n) : T # {} => seq[Max(T)] = Max(T)
    BY <1>1, LastIsMax
  <2>5. \A h : Reads(h) <=> Recursion(h)
    <3> HIDE DEF Enter, n, seq
    <3> QED
      BY <2>3, <2>4
  <2>6. (CHOOSE h : Reads(h)) = iter
    <3> HIDE DEF Reads, Recursion
    <3> QED
      BY <2>5
  <2> HIDE DEF Reads, iter, seq
  <2> QED
    BY <2>2, <2>3, <2>6
<1> HIDE DEF iter
<1>9. \A T \in SUBSET (1 .. n) : iter[T] = IF T = {} THEN ranked ELSE Enter(iter[T \ {Max(T)}], Max(T))
  <2> HIDE DEF Enter
  <2> QED
    BY <1>7
<1> DEFINE g == [k \in 0 .. n |-> iter[1 .. k]]
<1>10. Along(ranked, output, g)
  <2>1. g[0] = ranked
    <3>1. 1 .. 0 = {} /\ {} \in SUBSET (1 .. n) /\ 0 \in 0 .. n
      BY <1>1
    <3> QED
      BY <1>9, <3>1
  <2>2. ASSUME NEW k \in 1 .. n PROVE g[k] = Enter(g[k - 1], k)
    <3> HIDE DEF Enter, n
    <3>1. /\ 1 .. k \in SUBSET (1 .. n) /\ 1 .. k # {} /\ k \in 0 .. n /\ k - 1 \in 0 .. n
          /\ Max(1 .. k) = k /\ (1 .. k) \ {k} = 1 .. k - 1
      BY <1>1, LastIsMax
    <3> QED
      BY <1>9, <3>1
  <2> HIDE DEF g
  <2> QED
    BY <2>1, <2>2 DEF Along
<1> QED
  BY <1>1, <1>8, <1>10

(* What holds at first and from one number to the next holds up to the last.  *)
LEMMA Stepwise ==
  ASSUME NEW n \in Nat, NEW S, 0 \in S, \A k \in 1 .. n : k - 1 \in S => k \in S
  PROVE  \A k \in 0 .. n : k \in S
<1> DEFINE failing == {k \in 0 .. n : k \notin S}
<1> SUFFICES ASSUME failing # {} PROVE FALSE
  OBVIOUS
<1>1. PICK k \in failing : \A m \in failing : k <= m
  <2>1. failing \in SUBSET Nat
    OBVIOUS
  <2> HIDE DEF failing
  <2> QED
    BY <2>1, LeastMember
<1>2. k \in 1 .. n /\ k \notin S
  BY <1>1
<1>3. k - 1 \in 0 .. n /\ ~ k <= k - 1
  BY <1>2
<1>4. k - 1 \in S
  BY <1>1, <1>3
<1> QED
  BY <1>2, <1>4

(* Each of them leaves a ranking.                                             *)
LEMMA AlongType ==
  ASSUME NEW ranked \in Rankings, NEW output \in Outputs, NEW f, Along(ranked, output, f)
  PROVE  \A k \in 0 .. Len(output.hits) : f[k] \in Rankings
<1> DEFINE n == Len(output.hits)
           S == {k \in 0 .. n : f[k] \in Rankings}
<1>1. /\ n \in Nat /\ output.engine \in EngineKind
      /\ \A k \in 1 .. n : output.hits[k] \in Hits /\ k \in Nat \ {0}
  BY DEF Outputs
<1>2. 0 \in S
  BY <1>1 DEF Along
<1>3. ASSUME NEW k \in 1 .. n, k - 1 \in S PROVE k \in S
  <2>1. f[k] = Entered(f[k - 1], output.engine, k, output.hits[k])
    BY DEF Along
  <2>2. f[k] \in Rankings
    BY <1>1, <1>3, <2>1, EnteredType
  <2> QED
    BY <1>1, <2>2
<1>4. \A k \in 0 .. n : k \in S
  <2> HIDE DEF n, S
  <2> QED
    BY <1>1, <1>2, <1>3, Stepwise
<1> QED
  BY <1>4

(* So does the output.                                                        *)
LEMMA EnteredAllType ==
  ASSUME NEW ranked \in Rankings, NEW output \in Outputs
  PROVE  EnteredAll(ranked, output) \in Rankings
<1>1. PICK f : Along(ranked, output, f) /\ EnteredAll(ranked, output) = f[Len(output.hits)]
  BY HitByHit
<1>2. \A k \in 0 .. Len(output.hits) : f[k] \in Rankings
  BY <1>1, AlongType
<1>3. Len(output.hits) \in 0 .. Len(output.hits)
  BY DEF Outputs
<1> QED
  BY <1>1, <1>2, <1>3

(* The rankings from no output to all of them.                                *)
Through(outputs, f) ==
  /\ f[0] = <<>>
  /\ \A k \in 1 .. Len(outputs) : f[k] = EnteredAll(f[k - 1], outputs[k])

(* The outputs are entered one by one.                                        *)
LEMMA OutputByOutput ==
  ASSUME NEW outputs \in Seq(Outputs)
  PROVE  \E f : Through(outputs, f) /\ Ranked(outputs) = f[Len(outputs)]
<1> DEFINE n == Len(outputs)
           Recursion(h) ==
             h = [T \in SUBSET (1 .. n) |-> IF T = {} THEN <<>>
                                            ELSE EnteredAll(h[T \ {Max(T)}], outputs[Max(T)])]
           iter == CHOOSE h : Recursion(h)
           step == [vk \in Rankings \X (1 .. n) |-> EnteredAll(vk[1], outputs[vk[2]])]
           c == [T \in SUBSET (1 .. n) |-> Max(T)]
<1>1. n \in Nat /\ DOMAIN outputs = 1 .. n /\ \A k \in 1 .. n : outputs[k] \in Outputs
  OBVIOUS
<1>2. \A T \in SUBSET (1 .. n) : T # {} => c[T] \in T
  BY <1>1, LastIsMax
<1>3. \A v \in Rankings : \A k \in 1 .. n : step[<<v, k>>] = EnteredAll(v, outputs[k])
  OBVIOUS
<1>4. \A v \in Rankings : \A k \in 1 .. n : EnteredAll(v, outputs[k]) \in Rankings
  BY <1>1, EnteredAllType
<1>10. <<>> \in Rankings
  <2>1. <<>> \in [{} -> Entries] /\ {} \in SUBSET Links
    OBVIOUS
  <2> QED
    BY <2>1 DEF Rankings
<1>5. PICK f \in [SUBSET (1 .. n) -> Rankings] : Folds(step, <<>>, c, 1 .. n, f)
  <2> HIDE DEF step, c, n
  <2>1. IsFiniteSet(1 .. n)
    BY <1>1, LastIsMax
  <2>2. \A v \in Rankings : \A k \in 1 .. n : step[<<v, k>>] \in Rankings
    BY <1>3, <1>4
  <2> QED
    BY <1>2, <1>10, <2>1, <2>2, FoldExists
<1>6. Recursion(f)
  <2>1. ASSUME NEW T \in SUBSET (1 .. n)
        PROVE  f[T] = IF T = {} THEN <<>> ELSE EnteredAll(f[T \ {Max(T)}], outputs[Max(T)])
    <3>1. c[T] = Max(T) /\ f[T] = IF T = {} THEN <<>> ELSE step[<<f[T \ {c[T]}], c[T]>>]
      BY <1>5 DEF Folds
    <3>2. f[T \ {Max(T)}] \in Rankings
      BY <1>5
    <3>3. T # {} => Max(T) \in 1 .. n
      BY <1>1, LastIsMax
    <3> HIDE DEF step, c
    <3> QED
      BY <1>3, <3>1, <3>2, <3>3
  <2> QED
    BY <1>5, <2>1
<1>7. Recursion(iter)
  <2> HIDE DEF Recursion
  <2> QED
    BY <1>6, Zenon
<1>8. Ranked(outputs) = iter[1 .. n]
  <2>1. Ranked(outputs) =
          MapThenFoldSet(LAMBDA x, y : EnteredAll(y, x), <<>>, LAMBDA i : outputs[i],
                         LAMBDA T : Max(T), 1 .. n)
    BY <1>1, Zenon DEF Ranked, FoldLeft
  <2> QED
    BY <2>1, Zenon DEF MapThenFoldSet
<1> HIDE DEF iter
<1>9. \A T \in SUBSET (1 .. n) :
        iter[T] = IF T = {} THEN <<>> ELSE EnteredAll(iter[T \ {Max(T)}], outputs[Max(T)])
  BY <1>7
<1> DEFINE g == [k \in 0 .. n |-> iter[1 .. k]]
<1>11. Through(outputs, g)
  <2>1. g[0] = <<>>
    <3>1. 1 .. 0 = {} /\ {} \in SUBSET (1 .. n) /\ 0 \in 0 .. n
      BY <1>1
    <3> QED
      BY <1>9, <3>1
  <2>2. ASSUME NEW k \in 1 .. n PROVE g[k] = EnteredAll(g[k - 1], outputs[k])
    <3> HIDE DEF n
    <3>1. /\ 1 .. k \in SUBSET (1 .. n) /\ 1 .. k # {} /\ k \in 0 .. n /\ k - 1 \in 0 .. n
          /\ Max(1 .. k) = k /\ (1 .. k) \ {k} = 1 .. k - 1
      BY <1>1, LastIsMax
    <3> QED
      BY <1>9, <3>1
  <2> HIDE DEF g
  <2> QED
    BY <2>1, <2>2 DEF Through
<1> QED
  BY <1>1, <1>8, <1>11

(* Each of them leaves a ranking.                                             *)
LEMMA ThroughType ==
  ASSUME NEW outputs \in Seq(Outputs), NEW f, Through(outputs, f)
  PROVE  \A k \in 0 .. Len(outputs) : f[k] \in Rankings
<1> DEFINE n == Len(outputs)
           S == {k \in 0 .. n : f[k] \in Rankings}
<1>1. n \in Nat /\ \A k \in 1 .. n : outputs[k] \in Outputs /\ k \in Nat
  OBVIOUS
<1>2. 0 \in S
  <2>1. <<>> \in [{} -> Entries] /\ {} \in SUBSET Links
    OBVIOUS
  <2>2. <<>> \in Rankings
    BY <2>1 DEF Rankings
  <2> QED
    BY <1>1, <2>2 DEF Through
<1>3. ASSUME NEW k \in 1 .. n, k - 1 \in S PROVE k \in S
  <2>1. f[k] = EnteredAll(f[k - 1], outputs[k])
    BY DEF Through
  <2>2. f[k] \in Rankings
    BY <1>1, <1>3, <2>1, EnteredAllType
  <2> QED
    BY <1>1, <2>2
<1>4. \A k \in 0 .. n : k \in S
  <2> HIDE DEF n, S
  <2> QED
    BY <1>1, <1>2, <1>3, Stepwise
<1> QED
  BY <1>4
-----------------------------------------------------------------------------
(* The score of a page is a sum over the places that mention it.              *)

ScoreAt(outputs, place) == Score(outputs[place[1]].engine, place[2])
ScoreOf(outputs, places) == MapThenSumSet(LAMBDA place : ScoreAt(outputs, place), places)

(* The places of the outputs.                                                 *)
Places(outputs) == UNION {{<<o, rank>> : rank \in DOMAIN outputs[o].hits} : o \in DOMAIN outputs}

(* What a function makes of a finite set is finite.                           *)
LEMMA ImageFinite ==
  ASSUME NEW S, IsFiniteSet(S), NEW f, S \subseteq DOMAIN f
  PROVE  IsFiniteSet({f[x] : x \in S})
<1> DEFINE T == {f[x] : x \in S}
           g == [x \in S |-> f[x]]
<1>1. g \in Surjection(S, T)
  BY DEF Surjection
<1> HIDE DEF g, T
<1>2. IsFiniteSet(T)
  BY <1>1, FS_Surjection
<1> QED
  BY <1>2 DEF T

(* There are finitely many places, each with a hit and what it adds.          *)
LEMMA PlacesFinite ==
  ASSUME NEW outputs \in Seq(Outputs)
  PROVE  /\ IsFiniteSet(Places(outputs))
         /\ \A place \in Places(outputs) :
              /\ place = <<place[1], place[2]>> /\ place[1] \in 1 .. Len(outputs)
              /\ outputs[place[1]] \in Outputs
              /\ place[2] \in 1 .. Len(outputs[place[1]].hits) /\ place[2] \in Nat \ {0}
              /\ outputs[place[1]].hits[place[2]] \in Hits
              /\ ScoreAt(outputs, place) \in Nat
<1> DEFINE Row(o) == {<<o, rank>> : rank \in DOMAIN outputs[o].hits}
<1>1. /\ Len(outputs) \in Nat /\ DOMAIN outputs = 1 .. Len(outputs)
      /\ \A o \in DOMAIN outputs : outputs[o] \in Outputs
  OBVIOUS
<1>2. \A o \in DOMAIN outputs : /\ Len(outputs[o].hits) \in Nat
                                /\ DOMAIN outputs[o].hits = 1 .. Len(outputs[o].hits)
                                /\ \A r \in DOMAIN outputs[o].hits : outputs[o].hits[r] \in Hits
  BY <1>1 DEF Outputs
<1>3. ASSUME NEW o \in DOMAIN outputs PROVE IsFiniteSet(Row(o))
  <2>1. IsFiniteSet(DOMAIN outputs[o].hits)
    BY <1>2, FS_Interval
  <2> DEFINE f == [rank \in DOMAIN outputs[o].hits |-> <<o, rank>>]
  <2>2. Row(o) = {f[rank] : rank \in DOMAIN outputs[o].hits}
    OBVIOUS
  <2>3. DOMAIN outputs[o].hits \subseteq DOMAIN f
    OBVIOUS
  <2> HIDE DEF f, Row
  <2> QED
    BY <2>1, <2>2, <2>3, ImageFinite
<1>4. IsFiniteSet({Row(o) : o \in DOMAIN outputs})
  <2>1. IsFiniteSet(DOMAIN outputs)
    BY <1>1, FS_Interval
  <2> DEFINE f == [o \in DOMAIN outputs |-> Row(o)]
  <2>2. {Row(o) : o \in DOMAIN outputs} = {f[o] : o \in DOMAIN outputs}
    OBVIOUS
  <2>3. DOMAIN outputs \subseteq DOMAIN f
    OBVIOUS
  <2> HIDE DEF f, Row
  <2> QED
    BY <2>1, <2>2, <2>3, ImageFinite
<1>5. IsFiniteSet(Places(outputs))
  <2>1. \A T \in {Row(o) : o \in DOMAIN outputs} : IsFiniteSet(T)
    BY <1>3
  <2>2. Places(outputs) = UNION {Row(o) : o \in DOMAIN outputs}
    BY DEF Places
  <2> HIDE DEF Row
  <2> QED
    BY <1>4, <2>1, <2>2, FS_UNION
<1>6. ASSUME NEW place \in Places(outputs)
      PROVE  /\ place = <<place[1], place[2]>>
             /\ place[1] \in DOMAIN outputs /\ place[1] \in 1 .. Len(outputs)
             /\ outputs[place[1]] \in Outputs
             /\ place[2] \in 1 .. Len(outputs[place[1]].hits) /\ place[2] \in Nat \ {0}
             /\ outputs[place[1]].hits[place[2]] \in Hits
             /\ ScoreAt(outputs, place) \in Nat
  <2>5. PICK o \in DOMAIN outputs : \E r \in DOMAIN outputs[o].hits : place = <<o, r>>
    BY DEF Places
  <2>1. PICK r \in DOMAIN outputs[o].hits : place = <<o, r>>
    BY <2>5
  <2>2. place[1] = o /\ place[2] = r
    BY <2>1
  <2>3. r \in 1 .. Len(outputs[o].hits) /\ r \in Nat \ {0}
    BY <1>2
  <2>4. ScoreAt(outputs, place) \in Nat
    BY <2>2, <2>3, ScoreType DEF ScoreAt
  <2> QED
    BY <1>1, <1>2, <2>1, <2>2, <2>3, <2>4
<1> QED
  BY <1>5, <1>6

Pick(T) == CHOOSE x \in T : TRUE

(* f is the sum of the weights w of every subset of S.                        *)
Adds(w, S, f) == \A T \in SUBSET S : f[T] = IF T = {} THEN 0 ELSE w[Pick(T)] + f[T \ {Pick(T)}]

(* ... whichever member is added last.                                        *)
Sums(w, S, f) ==
  /\ f \in [SUBSET S -> Nat] /\ Adds(w, S, f)
  /\ \A T \in SUBSET S : \A x \in T : f[T] = w[x] + f[T \ {x}]

(* A finite set of weights has sums.                                          *)
LEMMA SumsExist ==
  ASSUME NEW S, IsFiniteSet(S), NEW w, \A x \in S : w[x] \in Nat
  PROVE  \E f : Sums(w, S, f)
<1> DEFINE step == [vx \in Nat \X S |-> w[vx[2]] + vx[1]]
           c == [T \in SUBSET S |-> Pick(T)]
<1>1. \A T \in SUBSET S : T # {} => c[T] \in T /\ c[T] = Pick(T)
  BY DEF Pick
<1>2. \A n \in Nat : \A x \in S : step[<<n, x>>] = w[x] + n /\ step[<<n, x>>] \in Nat
  OBVIOUS
<1>3. PICK f \in [SUBSET S -> Nat] : Folds(step, 0, c, S, f)
  <2> HIDE DEF step, c
  <2>1. \A T \in SUBSET S : T # {} => c[T] \in T
    BY <1>1
  <2>2. \A n \in Nat : \A x \in S : step[<<n, x>>] \in Nat
    BY <1>2
  <2> QED
    BY <2>1, <2>2, FoldExists
<1>4. Adds(w, S, f)
  <2>1. ASSUME NEW T \in SUBSET S PROVE f[T] = IF T = {} THEN 0 ELSE w[Pick(T)] + f[T \ {Pick(T)}]
    <3> HIDE DEF step, c
    <3>1. f[T] = IF T = {} THEN 0 ELSE step[<<f[T \ {c[T]}], c[T]>>]
      BY <1>3 DEF Folds
    <3>2. T # {} => c[T] \in S /\ f[T \ {c[T]}] \in Nat
      BY <1>1, <1>3
    <3> QED
      BY <1>1, <1>2, <3>1, <3>2
  <2> QED
    BY <2>1 DEF Adds
<1>5. ASSUME NEW T \in SUBSET S, NEW x \in T PROVE f[T] = w[x] + f[T \ {x}]
  <2> DEFINE failing == {t \in SUBSET S : \E y \in t : f[t] # w[y] + f[t \ {y}]}
  <2> SUFFICES ASSUME failing # {} PROVE FALSE
    BY <1>5
  <2>1. failing \in SUBSET SUBSET S
    OBVIOUS
  <2>2. PICK t \in failing : \A u \in failing : Cardinality(t) <= Cardinality(u)
    <3> HIDE DEF failing
    <3> QED
      BY <2>1, SmallestSet
  <2>3. t \in SUBSET S
    BY <2>2
  <2>4. PICK y \in t : f[t] # w[y] + f[t \ {y}]
    BY <2>2
  <2> DEFINE p == Pick(t)
  <2>5. p \in t
    BY <2>4 DEF Pick
  <2>6. f[t] = w[p] + f[t \ {p}]
    BY <1>4, <2>3, <2>4 DEF Adds
  <2> HIDE DEF p
  <2>7. p # y
    BY <2>4, <2>6
  <2>8. /\ t \ {p} \in SUBSET S /\ t \ {y} \in SUBSET S /\ Cardinality(t) \in Nat \ {0}
        /\ Cardinality(t \ {y}) = Cardinality(t) - 1 /\ Cardinality(t \ {p}) = Cardinality(t) - 1
    BY <2>3, <2>4, <2>5, OneLess
  <2>9. \A u \in SUBSET S : \A z \in u :
          Cardinality(u) = Cardinality(t) - 1 => f[u] = w[z] + f[u \ {z}]
    <3> SUFFICES ASSUME NEW u \in SUBSET S, NEW z \in u, Cardinality(u) = Cardinality(t) - 1,
                        f[u] # w[z] + f[u \ {z}]
                 PROVE  FALSE
      OBVIOUS
    <3>1. u \in failing
      OBVIOUS
    <3> HIDE DEF failing
    <3> QED
      BY <2>2, <2>8, <3>1
  <2>12. (t \ {p}) \ {y} = (t \ {y}) \ {p}
    OBVIOUS
  <2>10. f[t \ {p}] = w[y] + f[(t \ {p}) \ {y}]
    BY <2>4, <2>7, <2>8, <2>9
  <2> DEFINE rest == f[(t \ {y}) \ {p}]
  <2>11. f[t \ {y}] = w[p] + f[(t \ {y}) \ {p}]
    BY <2>5, <2>7, <2>8, <2>9
  <2>13. w[p] \in Nat /\ w[y] \in Nat /\ rest \in Nat
    BY <1>3, <2>3, <2>4, <2>5
  <2>14. f[t] = w[p] + (w[y] + rest) /\ f[t \ {y}] = w[p] + rest
    BY <2>6, <2>10, <2>11, <2>12
  <2> HIDE DEF rest
  <2>15. w[p] + (w[y] + rest) = w[y] + (w[p] + rest)
    BY <2>13
  <2> QED
    BY <2>4, <2>14, <2>15
<1> QED
  BY <1>3, <1>4, <1>5 DEF Sums

(* Sums of the same weights are the same sums.                                *)
LEMMA SumsAgree ==
  ASSUME NEW S, IsFiniteSet(S), NEW w, NEW f, Adds(w, S, f), NEW T \in SUBSET S, NEW g, Adds(w, T, g)
  PROVE  f[T] = g[T]
<1> DEFINE failing == {t \in SUBSET T : f[t] # g[t]}
<1> SUFFICES ASSUME failing # {} PROVE FALSE
  OBVIOUS
<1>1. failing \in SUBSET SUBSET S
  OBVIOUS
<1>2. PICK t \in failing : \A u \in failing : Cardinality(t) <= Cardinality(u)
  <2> HIDE DEF failing
  <2> QED
    BY <1>1, SmallestSet
<1>3. t \in SUBSET S /\ t \in SUBSET T /\ f[t] # g[t]
  BY <1>2
<1>4. t # {}
  BY <1>3 DEF Adds
<1> DEFINE p == Pick(t)
<1>5. p \in t
  BY <1>4 DEF Pick
<1>6. f[t] = w[p] + f[t \ {p}] /\ g[t] = w[p] + g[t \ {p}]
  BY <1>3, <1>4 DEF Adds
<1> HIDE DEF p
<1>7. Cardinality(t) \in Nat \ {0} /\ Cardinality(t \ {p}) = Cardinality(t) - 1
  BY <1>3, <1>5, OneLess
<1>8. t \ {p} \notin failing
  BY <1>2, <1>7
<1> QED
  BY <1>3, <1>5, <1>6, <1>8

(* The score of some places is the sum of what each of them adds.             *)
LEMMA ScoresAddUp ==
  ASSUME NEW outputs \in Seq(Outputs)
  PROVE  /\ ScoreOf(outputs, {}) = 0
         /\ \A P \in SUBSET Places(outputs) :
              /\ ScoreOf(outputs, P) \in Nat
              /\ \A place \in P :
                   ScoreOf(outputs, P) = ScoreAt(outputs, place) + ScoreOf(outputs, P \ {place})
<1> DEFINE S == Places(outputs)
           w == [place \in S |-> ScoreAt(outputs, place)]
<1>1. IsFiniteSet(S) /\ \A place \in S : w[place] \in Nat /\ w[place] = ScoreAt(outputs, place)
  BY PlacesFinite
<1>6. PICK f : Sums(w, S, f)
  <2> HIDE DEF S, w
  <2>1. IsFiniteSet(S) /\ \A place \in S : w[place] \in Nat
    BY <1>1
  <2> QED
    BY <2>1, SumsExist
<1>2. /\ f \in [SUBSET S -> Nat] /\ Adds(w, S, f)
      /\ \A T \in SUBSET S : \A x \in T : f[T] = w[x] + f[T \ {x}]
  <2> HIDE DEF S, w
  <2> QED
    BY <1>6 DEF Sums
<1>3. ASSUME NEW P \in SUBSET S PROVE ScoreOf(outputs, P) = f[P]
  <2> DEFINE Recursion(h) ==
               h = [T \in SUBSET P |-> IF T = {} THEN 0
                                       ELSE ScoreAt(outputs, CHOOSE x \in T : TRUE)
                                            + h[T \ {CHOOSE x \in T : TRUE}]]
             iter == CHOOSE h : Recursion(h)
             g == [T \in SUBSET P |-> f[T]]
  <2>1. ScoreOf(outputs, P) = iter[P]
    <3>1. ScoreOf(outputs, P) = MapThenFoldSet(+, 0, LAMBDA place : ScoreAt(outputs, place),
                                               LAMBDA s : CHOOSE x \in s : TRUE, P)
      BY Zenon DEF ScoreOf, MapThenSumSet
    <3> QED
      BY <3>1, Zenon DEF MapThenFoldSet
  <2>2. \A T \in SUBSET P : T # {} => w[Pick(T)] = ScoreAt(outputs, Pick(T))
    <3>1. \A T \in SUBSET P : T # {} => Pick(T) \in S
      BY DEF Pick
    <3> HIDE DEF w, S
    <3> QED
      BY <1>1, <3>1
  <2>3. Recursion(g)
    <3>1. \A T \in SUBSET P : g[T] = IF T = {} THEN 0 ELSE ScoreAt(outputs, Pick(T)) + g[T \ {Pick(T)}]
      BY <1>2, <2>2 DEF Adds
    <3>2. g = [T \in SUBSET P |-> g[T]]
      OBVIOUS
    <3> HIDE DEF g
    <3>3. g = [T \in SUBSET P |-> IF T = {} THEN 0 ELSE ScoreAt(outputs, Pick(T)) + g[T \ {Pick(T)}]]
      BY <3>1, <3>2
    <3> QED
      BY <3>3, Zenon DEF Pick
  <2>4. Recursion(iter)
    <3> HIDE DEF Recursion
    <3> QED
      BY <2>3, Zenon
  <2>5. iter = [T \in SUBSET P |-> IF T = {} THEN 0 ELSE ScoreAt(outputs, Pick(T)) + iter[T \ {Pick(T)}]]
    <3> HIDE DEF iter
    <3> QED
      BY <2>4, Zenon DEF Pick
  <2> HIDE DEF iter
  <2>6. Adds(w, P, iter)
    <3>1. \A T \in SUBSET P : iter[T] = IF T = {} THEN 0 ELSE ScoreAt(outputs, Pick(T)) + iter[T \ {Pick(T)}]
      BY <2>5
    <3> HIDE DEF w
    <3> QED
      BY <2>2, <3>1 DEF Adds
  <2>7. f[P] = iter[P]
    <3> HIDE DEF S, w
    <3> QED
      BY <1>1, <1>2, <2>6, SumsAgree
  <2> QED
    BY <2>1, <2>7
<1>4. f[{}] = 0
  BY <1>2 DEF Adds
<1>5. ASSUME NEW P \in SUBSET S
      PROVE  /\ ScoreOf(outputs, P) \in Nat
             /\ \A place \in P :
                  ScoreOf(outputs, P) = ScoreAt(outputs, place) + ScoreOf(outputs, P \ {place})
  <2>1. \A place \in P : /\ P \ {place} \in SUBSET S /\ w[place] = ScoreAt(outputs, place)
                         /\ f[P] = w[place] + f[P \ {place}]
    <3> HIDE DEF S, w
    <3> QED
      BY <1>1, <1>2
  <2> HIDE DEF w, S
  <2> QED
    BY <1>2, <1>3, <2>1
<1> QED
  BY <1>3, <1>4, <1>5
-----------------------------------------------------------------------------
(* What a merge knows after any of the places.                                *)

HitAt(outputs, place) == outputs[place[1]].hits[place[2]]
PagesAt(outputs, place) == NormalizedUrl(HitAt(outputs, place).url)
On(outputs, P, page) == {place \in P : page \in PagesAt(outputs, place)}

(* An entry says of its page what the places M say that mention it.           *)
Tells(entry, outputs, M, page) ==
  /\ [entry.hit.url EXCEPT !.tail = ""] = page
  /\ entry.score = ScoreOf(outputs, M)
  /\ IsInjective(entry.sources) /\ ToSet(entry.sources) = {outputs[place[1]].engine : place \in M}
  /\ \E place \in M : entry.hit.snippet = HitAt(outputs, place).snippet
  /\ \A place \in M : HitAt(outputs, place).snippet <= entry.hit.snippet

Merges(ranked, outputs, P) ==
  /\ ranked \in Rankings
  /\ DOMAIN ranked = UNION {PagesAt(outputs, place) : place \in P}
  /\ \A page \in DOMAIN ranked : Tells(ranked[page], outputs, On(outputs, P, page), page)

(* A source more is one more source.                                          *)
LEMMA SourcesOfAppend ==
  ASSUME NEW V, NEW s \in Seq(V), NEW v \in V
  PROVE  ToSet(Append(s, v)) = ToSet(s) \cup {v}
<1> DEFINE t == Append(s, v)
           n == Len(s)
<1>1. /\ n \in Nat /\ DOMAIN s = 1 .. n /\ DOMAIN t = 1 .. n + 1
      /\ t[n + 1] = v /\ \A i \in 1 .. n : t[i] = s[i]
  OBVIOUS
<1>2. 1 .. n + 1 = (1 .. n) \cup {n + 1}
  BY <1>1
<1> HIDE DEF t, n
<1>3. ToSet(t) = ToSet(s) \cup {v}
  BY <1>1, <1>2 DEF ToSet
<1> QED
  BY <1>3 DEF t

(* A new source leaves each of them there once.                               *)
LEMMA AppendOnce ==
  ASSUME NEW V, NEW s \in Seq(V), NEW v \in V, IsInjective(s), v \notin ToSet(s)
  PROVE  IsInjective(Append(s, v))
<1> DEFINE t == Append(s, v)
           n == Len(s)
<1>1. /\ n \in Nat /\ DOMAIN s = 1 .. n /\ DOMAIN t = 1 .. n + 1
      /\ t[n + 1] = v /\ \A i \in 1 .. n : t[i] = s[i]
  OBVIOUS
<1>2. 1 .. n + 1 = (1 .. n) \cup {n + 1}
  BY <1>1
<1> HIDE DEF t, n
<1>3. \A i \in 1 .. n : s[i] # v
  BY <1>1 DEF ToSet
<1>4. \A i, k \in 1 .. n : s[i] = s[k] => i = k
  BY <1>1 DEF IsInjective
<1>5. \A i, k \in 1 .. n + 1 : t[i] = t[k] => i = k
  BY <1>1, <1>2, <1>3, <1>4
<1>6. IsInjective(t)
  BY <1>1, <1>5 DEF IsInjective
<1> QED
  BY <1>6 DEF t

(* The entry of a page that was not known says what its first place says.     *)
LEMMA FirstMention ==
  ASSUME NEW outputs \in Seq(Outputs), NEW place \in Places(outputs),
         NEW page \in PagesAt(outputs, place)
  PROVE  Tells(RankedHit(HitAt(outputs, place), <<outputs[place[1]].engine>>,
                         Score(outputs[place[1]].engine, place[2])),
               outputs, {place}, page)
<1> DEFINE hit == HitAt(outputs, place)
           engine == outputs[place[1]].engine
           score == Score(engine, place[2])
           entry == RankedHit(hit, <<engine>>, score)
<1>1. /\ engine \in EngineKind /\ hit \in Hits
      /\ ScoreAt(outputs, place) \in Nat /\ score = ScoreAt(outputs, place)
  BY PlacesFinite DEF Outputs, HitAt, ScoreAt
<1>2. ScoreOf(outputs, {place}) = score
  <2>1. {place} \in SUBSET Places(outputs) /\ {place} \ {place} = {} /\ place \in {place}
    OBVIOUS
  <2>2. ScoreOf(outputs, {place}) = ScoreAt(outputs, place) + ScoreOf(outputs, {})
    BY <2>1, ScoresAddUp
  <2>3. ScoreOf(outputs, {}) = 0
    BY ScoresAddUp
  <2> QED
    BY <1>1, <2>2, <2>3
<1>3. [hit.url EXCEPT !.tail = ""] = page
  BY <1>1, PageOfUrl DEF PagesAt, Hits
<1>4. ToSet(<<engine>>) = {engine} /\ IsInjective(<<engine>>)
  BY DEF ToSet, IsInjective
<1>5. hit.snippet \in Nat
  BY <1>1 DEF Hits
<1>6. {outputs[p[1]].engine : p \in {place}} = {engine}
  OBVIOUS
<1>7. entry.hit = hit /\ entry.sources = <<engine>> /\ entry.score = score
  BY DEF RankedHit
<1>8. \A p \in {place} : HitAt(outputs, p) = hit
  OBVIOUS
<1> HIDE DEF hit, engine, entry, score
<1>10. ToSet(entry.sources) = {outputs[p[1]].engine : p \in {place}}
  BY <1>4, <1>6, <1>7
<1>11. /\ \E p \in {place} : entry.hit.snippet = HitAt(outputs, p).snippet
       /\ \A p \in {place} : HitAt(outputs, p).snippet <= entry.hit.snippet
  BY <1>5, <1>7, <1>8
<1>9. Tells(entry, outputs, {place}, page)
  BY <1>2, <1>3, <1>4, <1>7, <1>10, <1>11 DEF Tells
<1> QED
  BY <1>9 DEF hit, engine, entry, score

(* Joining a mention to what is known keeps the entry true.                   *)
LEMMA OneMoreMention ==
  ASSUME NEW outputs \in Seq(Outputs), NEW place \in Places(outputs),
         NEW page \in PagesAt(outputs, place),
         NEW M \in SUBSET Places(outputs), place \notin M,
         NEW known \in Entries, Tells(known, outputs, M, page)
  PROVE  Tells(Joined(known, outputs[place[1]].engine, place[2], HitAt(outputs, place)),
               outputs, M \cup {place}, page)
<1> DEFINE hit == HitAt(outputs, place)
           engine == outputs[place[1]].engine
           score == Score(engine, place[2])
           snippet == IF hit.snippet > known.hit.snippet THEN hit.snippet ELSE known.hit.snippet
           sources == IF engine \in ToSet(known.sources) THEN known.sources
                      ELSE Append(known.sources, engine)
           entry == Joined(known, engine, place[2], hit)
           all == M \cup {place}
<1>1. /\ engine \in EngineKind /\ hit \in Hits
      /\ ScoreAt(outputs, place) \in Nat /\ score = ScoreAt(outputs, place)
  BY PlacesFinite DEF Outputs, HitAt, ScoreAt
<1>2. /\ entry.hit = [known.hit EXCEPT !.snippet = snippet]
      /\ entry.sources = sources /\ entry.score = known.score + score
  BY DEF Joined, RankedHit
<1>3. known.hit \in Hits /\ known.sources \in Seq(EngineKind) /\ known.score \in Nat
  BY DEF Entries
<1>4. entry.hit.url = known.hit.url /\ entry.hit.snippet = snippet
  BY <1>2, <1>3 DEF Hits
<1>5. ScoreOf(outputs, all) = known.score + score
  <2>1. all \in SUBSET Places(outputs) /\ all \ {place} = M /\ place \in all
    OBVIOUS
  <2> HIDE DEF all
  <2>2. ScoreOf(outputs, all) = ScoreAt(outputs, place) + ScoreOf(outputs, M)
    BY <2>1, ScoresAddUp
  <2>3. ScoreOf(outputs, M) = known.score
    BY DEF Tells
  <2> QED
    BY <1>1, <1>3, <2>2, <2>3
<1>6. IsInjective(sources) /\ ToSet(sources) = ToSet(known.sources) \cup {engine}
  <2>1. IsInjective(known.sources)
    BY DEF Tells
  <2> HIDE DEF engine
  <2>2. CASE engine \in ToSet(known.sources)
    BY <2>1, <2>2
  <2>3. CASE engine \notin ToSet(known.sources)
    <3> DEFINE s == known.sources
    <3>2. s \in Seq(EngineKind) /\ IsInjective(s) /\ engine \in EngineKind /\ engine \notin ToSet(s)
      BY <1>1, <1>3, <2>1, <2>3
    <3> HIDE DEF s
    <3>3. ToSet(Append(s, engine)) = ToSet(s) \cup {engine}
      BY <3>2, SourcesOfAppend
    <3>4. IsInjective(Append(s, engine))
      BY <3>2, AppendOnce
    <3>1. /\ IsInjective(Append(known.sources, engine))
          /\ ToSet(Append(known.sources, engine)) = ToSet(known.sources) \cup {engine}
      BY <3>3, <3>4 DEF s
    <3> QED
      BY <2>3, <3>1
  <2> QED
    BY <2>2, <2>3
<1>7. {outputs[p[1]].engine : p \in all} = ToSet(sources)
  <2>1. ToSet(known.sources) = {outputs[p[1]].engine : p \in M}
    BY DEF Tells
  <2> HIDE DEF sources
  <2> QED
    BY <1>6, <2>1
<1>8. /\ hit.snippet \in Nat /\ known.hit.snippet \in Nat
      /\ snippet \in {hit.snippet, known.hit.snippet}
      /\ hit.snippet <= snippet /\ known.hit.snippet <= snippet
  BY <1>1, <1>3 DEF Hits
<1>9. \A p \in M : HitAt(outputs, p).snippet \in Nat
  BY PlacesFinite DEF HitAt, Hits
<1>10. /\ \E p \in M : known.hit.snippet = HitAt(outputs, p).snippet
       /\ \A p \in M : HitAt(outputs, p).snippet <= known.hit.snippet
  BY DEF Tells
<1>11. \E p \in all : snippet = HitAt(outputs, p).snippet
  <2> HIDE DEF snippet
  <2> QED
    BY <1>8, <1>10
<1>12. \A p \in all : HitAt(outputs, p).snippet <= snippet
  <2> SUFFICES ASSUME NEW p \in all PROVE HitAt(outputs, p).snippet <= snippet
    OBVIOUS
  <2>1. CASE p \in M
    <3>1. HitAt(outputs, p).snippet <= known.hit.snippet /\ HitAt(outputs, p).snippet \in Nat
      BY <1>9, <1>10, <2>1
    <3>2. snippet \in Nat
      BY <1>8
    <3> HIDE DEF snippet
    <3> QED
      BY <1>8, <3>1, <3>2
  <2>2. CASE p = place
    BY <1>8, <2>2
  <2> QED
    BY <2>1, <2>2
<1>13. [known.hit.url EXCEPT !.tail = ""] = page
  BY DEF Tells
<1> HIDE DEF snippet, sources, entry, all, score, engine, hit
<1>14. Tells(entry, outputs, all, page)
  BY <1>2, <1>4, <1>5, <1>6, <1>7, <1>11, <1>12, <1>13 DEF Tells
<1> QED
  BY <1>14 DEF entry, all, engine, hit

(* Entering the hit of one more place keeps the ranking true.                 *)
LEMMA MergeOne ==
  ASSUME NEW outputs \in Seq(Outputs), NEW place \in Places(outputs),
         NEW P \in SUBSET Places(outputs), place \notin P,
         NEW ranked, Merges(ranked, outputs, P)
  PROVE  Merges(Entered(ranked, outputs[place[1]].engine, place[2], HitAt(outputs, place)),
                outputs, P \cup {place})
<1> DEFINE hit == HitAt(outputs, place)
           engine == outputs[place[1]].engine
           rank == place[2]
           merged == Entered(ranked, engine, rank, hit)
           all == P \cup {place}
<1>1. engine \in EngineKind /\ hit \in Hits /\ rank \in Nat \ {0}
  BY PlacesFinite DEF Outputs, HitAt
<1>2. ranked \in Rankings /\ \A page \in DOMAIN ranked : ranked[page] \in Entries
  <2>1. ranked \in Rankings
    BY DEF Merges
  <2>2. PICK D \in SUBSET Links : ranked \in [D -> Entries]
    BY <2>1 DEF Rankings
  <2> QED
    BY <2>1, <2>2
<1>3. merged \in Rankings
  <2> HIDE DEF engine, rank, hit
  <2> QED
    BY <1>1, <1>2, EnteredType
<1>4. /\ DOMAIN merged = DOMAIN ranked \cup PagesAt(outputs, place)
      /\ \A page \in DOMAIN merged :
           merged[page] = IF page \notin DOMAIN ranked THEN RankedHit(hit, <<engine>>, Score(engine, rank))
                          ELSE IF page \in PagesAt(outputs, place)
                          THEN Joined(ranked[page], engine, rank, hit)
                          ELSE ranked[page]
  BY DEF Entered, PagesAt
<1>5. DOMAIN merged = UNION {PagesAt(outputs, p) : p \in all}
  <2>1. DOMAIN ranked = UNION {PagesAt(outputs, p) : p \in P}
    BY DEF Merges
  <2> HIDE DEF merged
  <2> QED
    BY <1>4, <2>1
<1>6. ASSUME NEW page \in DOMAIN merged PROVE Tells(merged[page], outputs, On(outputs, all, page), page)
  <2>1. CASE page \notin DOMAIN ranked
    <3>1. page \in PagesAt(outputs, place)
      BY <1>4, <2>1
    <3>2. \A p \in P : page \notin PagesAt(outputs, p)
      BY <2>1 DEF Merges
    <3>3. On(outputs, all, page) = {place}
      BY <3>1, <3>2 DEF On
    <3>4. merged[page] = RankedHit(hit, <<engine>>, Score(engine, rank))
      BY <1>4, <2>1
    <3> HIDE DEF merged, all
    <3> QED
      BY <3>1, <3>3, <3>4, FirstMention
  <2>2. CASE page \in DOMAIN ranked /\ page \in PagesAt(outputs, place)
    <3>1. merged[page] = Joined(ranked[page], engine, rank, hit)
      BY <1>4, <2>2
    <3>2. Tells(ranked[page], outputs, On(outputs, P, page), page)
      BY <2>2 DEF Merges
    <3>3. On(outputs, P, page) \in SUBSET Places(outputs) /\ place \notin On(outputs, P, page)
      BY DEF On
    <3>4. On(outputs, all, page) = On(outputs, P, page) \cup {place}
      BY <2>2 DEF On
    <3> HIDE DEF merged, all
    <3> QED
      BY <1>2, <2>2, <3>1, <3>2, <3>3, <3>4, OneMoreMention
  <2>3. CASE page \in DOMAIN ranked /\ page \notin PagesAt(outputs, place)
    <3>1. merged[page] = ranked[page]
      BY <1>4, <2>3
    <3>2. Tells(ranked[page], outputs, On(outputs, P, page), page)
      BY <2>3 DEF Merges
    <3>3. On(outputs, all, page) = On(outputs, P, page)
      BY <2>3 DEF On
    <3> HIDE DEF merged, all
    <3> QED
      BY <3>1, <3>2, <3>3
  <2> QED
    BY <2>1, <2>2, <2>3
<1> HIDE DEF merged, all
<1>7. Merges(merged, outputs, all)
  BY <1>3, <1>5, <1>6 DEF Merges
<1> QED
  BY <1>7 DEF merged, all

(* The places before a hit of an output.                                      *)
Done(outputs, o, r) ==
  {place \in Places(outputs) : place[1] < o \/ (place[1] = o /\ place[2] <= r)}

(* From one hit to the next there is one more place.                          *)
LEMMA DoneGrows ==
  ASSUME NEW outputs \in Seq(Outputs), NEW o \in 1 .. Len(outputs)
  PROVE  /\ Done(outputs, o, Len(outputs[o].hits)) = Done(outputs, o + 1, 0)
         /\ \A k \in 1 .. Len(outputs[o].hits) :
              /\ <<o, k>> \in Places(outputs) /\ <<o, k>> \notin Done(outputs, o, k - 1)
              /\ Done(outputs, o, k) = Done(outputs, o, k - 1) \cup {<<o, k>>}
<1> DEFINE n == Len(outputs[o].hits)
<1>1. /\ o \in Nat /\ n \in Nat /\ o \in DOMAIN outputs
      /\ DOMAIN outputs[o].hits = 1 .. n
  <2>1. outputs[o] \in Outputs /\ o \in DOMAIN outputs /\ o \in Nat
    OBVIOUS
  <2> QED
    BY <2>1 DEF Outputs
<1>2. \A place \in Places(outputs) :
        /\ place = <<place[1], place[2]>> /\ place[1] \in Nat /\ place[2] \in Nat \ {0}
        /\ place[1] = o => place[2] \in 1 .. n
  BY PlacesFinite
<1> HIDE DEF n
<1>3. Done(outputs, o, n) = Done(outputs, o + 1, 0)
  <2>1. \A place \in Places(outputs) :
          (place[1] < o \/ (place[1] = o /\ place[2] <= n))
            <=> (place[1] < o + 1 \/ (place[1] = o + 1 /\ place[2] <= 0))
    BY <1>1, <1>2
  <2> QED
    BY <2>1 DEF Done
<1>4. ASSUME NEW k \in 1 .. n
      PROVE  /\ <<o, k>> \in Places(outputs) /\ <<o, k>> \notin Done(outputs, o, k - 1)
             /\ Done(outputs, o, k) = Done(outputs, o, k - 1) \cup {<<o, k>>}
  <2>1. <<o, k>> \in Places(outputs)
    BY <1>1 DEF Places
  <2>2. k \in Nat /\ k - 1 \in Nat /\ ~ k <= k - 1 /\ <<o, k>>[1] = o /\ <<o, k>>[2] = k
    BY <1>1
  <2>3. <<o, k>> \notin Done(outputs, o, k - 1)
    BY <1>1, <2>2 DEF Done
  <2>4. \A place \in Places(outputs) :
          (place[1] < o \/ (place[1] = o /\ place[2] <= k))
            <=> ((place[1] < o \/ (place[1] = o /\ place[2] <= k - 1)) \/ place = <<o, k>>)
    <3> SUFFICES ASSUME NEW place \in Places(outputs)
                 PROVE  (place[1] < o \/ (place[1] = o /\ place[2] <= k))
                          <=> ((place[1] < o \/ (place[1] = o /\ place[2] <= k - 1)) \/ place = <<o, k>>)
      OBVIOUS
    <3>1. place[1] \in Nat /\ place[2] \in Nat /\ (place = <<o, k>> <=> place[1] = o /\ place[2] = k)
      BY <1>2
    <3> QED
      BY <1>1, <2>2, <3>1
  <2> QED
    BY <2>1, <2>3, <2>4 DEF Done
<1> QED
  BY <1>3, <1>4 DEF n

(* Entering an output keeps the ranking true of the places before.            *)
LEMMA MergeOutput ==
  ASSUME NEW outputs \in Seq(Outputs), NEW o \in 1 .. Len(outputs),
         NEW ranked, Merges(ranked, outputs, Done(outputs, o, 0))
  PROVE  Merges(EnteredAll(ranked, outputs[o]), outputs, Done(outputs, o + 1, 0))
<1> DEFINE output == outputs[o]
           n == Len(output.hits)
<1>1. output \in Outputs /\ n \in Nat /\ ranked \in Rankings
  <2>1. output \in Outputs
    OBVIOUS
  <2>2. ranked \in Rankings
    BY DEF Merges
  <2> HIDE DEF output
  <2> QED
    BY <2>1, <2>2 DEF Outputs
<1>2. PICK f : Along(ranked, output, f) /\ EnteredAll(ranked, output) = f[n]
  <2> HIDE DEF output
  <2> QED
    BY <1>1, HitByHit
<1> DEFINE S == {k \in 0 .. n : Merges(f[k], outputs, Done(outputs, o, k))}
<1>3. 0 \in S
  BY <1>1, <1>2 DEF Along
<1>4. ASSUME NEW k \in 1 .. n, k - 1 \in S PROVE k \in S
  <2>1. f[k] = Entered(f[k - 1], output.engine, k, output.hits[k])
    BY <1>2 DEF Along
  <2> DEFINE place == <<o, k>>
             P == Done(outputs, o, k - 1)
  <2>2. /\ place \in Places(outputs) /\ place \notin P
        /\ Done(outputs, o, k) = P \cup {place} /\ P \in SUBSET Places(outputs)
    BY DoneGrows DEF Done
  <2>3. Merges(f[k - 1], outputs, P)
    BY <1>4
  <2>4. /\ outputs[place[1]].engine = output.engine /\ place[2] = k
        /\ HitAt(outputs, place) = output.hits[k]
    BY DEF HitAt
  <2> HIDE DEF place, P, output, n
  <2>5. Merges(Entered(f[k - 1], outputs[place[1]].engine, place[2], HitAt(outputs, place)),
               outputs, P \cup {place})
    BY <2>2, <2>3, MergeOne
  <2>6. Merges(f[k], outputs, Done(outputs, o, k)) /\ k \in 0 .. n
    BY <1>1, <2>1, <2>2, <2>4, <2>5
  <2> QED
    BY <2>6
<1>5. \A k \in 0 .. n : k \in S
  <2> HIDE DEF n, S
  <2> QED
    BY <1>1, <1>3, <1>4, Stepwise
<1>6. Merges(f[n], outputs, Done(outputs, o, n))
  BY <1>1, <1>5
<1>7. Done(outputs, o, n) = Done(outputs, o + 1, 0)
  BY DoneGrows
<1> QED
  BY <1>2, <1>6, <1>7

(* What is ranked says of every page what all the outputs say.                *)
LEMMA RankedMerges ==
  ASSUME NEW outputs \in Seq(Outputs)
  PROVE  Merges(Ranked(outputs), outputs, Places(outputs))
<1> DEFINE n == Len(outputs)
<1>1. n \in Nat
  OBVIOUS
<1>2. PICK f : Through(outputs, f) /\ Ranked(outputs) = f[n]
  BY OutputByOutput
<1>3. Done(outputs, 1, 0) = {}
  <2>1. \A place \in Places(outputs) : place[1] \in Nat \ {0} /\ place[2] \in Nat \ {0}
    BY PlacesFinite
  <2>2. \A place \in Places(outputs) : ~ (place[1] < 1 \/ (place[1] = 1 /\ place[2] <= 0))
    BY <2>1
  <2> QED
    BY <2>2 DEF Done
<1>4. Done(outputs, n + 1, 0) = Places(outputs)
  <2>1. \A place \in Places(outputs) : place[1] \in 1 .. n
    BY PlacesFinite
  <2>2. \A place \in Places(outputs) : place[1] < n + 1
    BY <1>1, <2>1
  <2> QED
    BY <2>2 DEF Done
<1> DEFINE S == {k \in 0 .. n : Merges(f[k], outputs, Done(outputs, k + 1, 0))}
<1>5. 0 \in S
  <2>1. f[0] = <<>>
    BY <1>2 DEF Through
  <2>2. <<>> \in [{} -> Entries] /\ {} \in SUBSET Links /\ DOMAIN <<>> = {}
    OBVIOUS
  <2>3. <<>> \in Rankings
    BY <2>2 DEF Rankings
  <2>4. Merges(<<>>, outputs, {})
    BY <2>2, <2>3 DEF Merges
  <2>5. 0 \in 0 .. n /\ 0 + 1 = 1
    BY <1>1
  <2> QED
    BY <1>3, <2>1, <2>4, <2>5
<1>6. ASSUME NEW k \in 1 .. n, k - 1 \in S PROVE k \in S
  <2>1. f[k] = EnteredAll(f[k - 1], outputs[k])
    BY <1>2 DEF Through
  <2>2. (k - 1) + 1 = k /\ k \in 0 .. n
    BY <1>1
  <2>3. Merges(f[k - 1], outputs, Done(outputs, k, 0))
    BY <1>6, <2>2
  <2>4. Merges(f[k], outputs, Done(outputs, k + 1, 0))
    BY <2>1, <2>3, MergeOutput
  <2> QED
    BY <2>2, <2>4
<1>7. \A k \in 0 .. n : k \in S
  <2> HIDE DEF n, S
  <2> QED
    BY <1>1, <1>5, <1>6, Stepwise
<1> QED
  BY <1>1, <1>2, <1>4, <1>7
-----------------------------------------------------------------------------
(* What a merged list says.                                                   *)

(* The mentions and the total of a page are those of all the places.          *)
LEMMA MentionsOn ==
  ASSUME NEW outputs \in Seq(Outputs), NEW page
  PROVE  /\ Mentions(outputs, page) = On(outputs, Places(outputs), page)
         /\ TotalScore(outputs, page) = ScoreOf(outputs, On(outputs, Places(outputs), page))
<1>1. Mentions(outputs, page) = On(outputs, Places(outputs), page)
  <2>1. ASSUME NEW place \in Mentions(outputs, page) PROVE place \in On(outputs, Places(outputs), page)
    <3>1. PICK o \in DOMAIN outputs :
            place \in {<<o, rank>> : rank \in {r \in DOMAIN outputs[o].hits :
                                                page \in NormalizedUrl(outputs[o].hits[r].url)}}
      BY DEF Mentions
    <3>2. PICK r \in DOMAIN outputs[o].hits :
            place = <<o, r>> /\ page \in NormalizedUrl(outputs[o].hits[r].url)
      BY <3>1
    <3> QED
      BY <3>2 DEF On, Places, PagesAt, HitAt
  <2>2. ASSUME NEW place \in On(outputs, Places(outputs), page) PROVE place \in Mentions(outputs, page)
    <3>1. place \in Places(outputs) /\ page \in PagesAt(outputs, place)
      BY DEF On
    <3>2. PICK o \in DOMAIN outputs : \E r \in DOMAIN outputs[o].hits : place = <<o, r>>
      BY <3>1 DEF Places
    <3>3. PICK r \in DOMAIN outputs[o].hits : place = <<o, r>>
      BY <3>2
    <3>4. page \in NormalizedUrl(outputs[o].hits[r].url)
      BY <3>1, <3>3 DEF PagesAt, HitAt
    <3> QED
      BY <3>3, <3>4 DEF Mentions
  <2> QED
    BY <2>1, <2>2
<1>2. TotalScore(outputs, page) = ScoreOf(outputs, Mentions(outputs, page))
  BY Zenon DEF TotalScore, ScoreOf, ScoreAt
<1> QED
  BY <1>1, <1>2

(* The pages mentioned are those the places lead to.                          *)
LEMMA MentionedIsRanked ==
  ASSUME NEW outputs \in Seq(Outputs)
  PROVE  Mentioned(outputs) = UNION {PagesAt(outputs, place) : place \in Places(outputs)}
<1>1. ASSUME NEW page \in Mentioned(outputs)
      PROVE  page \in UNION {PagesAt(outputs, place) : place \in Places(outputs)}
  <2>1. PICK hit \in UNION {ToSet(output.hits) : output \in ToSet(outputs)} : page \in NormalizedUrl(hit.url)
    BY DEF Mentioned
  <2>2. PICK output \in ToSet(outputs) : hit \in ToSet(output.hits)
    BY <2>1
  <2>3. PICK o \in DOMAIN outputs : output = outputs[o]
    BY DEF ToSet
  <2>4. PICK r \in DOMAIN output.hits : hit = output.hits[r]
    BY <2>2 DEF ToSet
  <2> DEFINE place == <<o, r>>
  <2>5. place \in Places(outputs)
    BY <2>3, <2>4 DEF Places
  <2>6. page \in PagesAt(outputs, place)
    BY <2>1, <2>3, <2>4 DEF PagesAt, HitAt
  <2> QED
    BY <2>5, <2>6
<1>2. ASSUME NEW page \in UNION {PagesAt(outputs, place) : place \in Places(outputs)}
      PROVE  page \in Mentioned(outputs)
  <2>1. PICK place \in Places(outputs) : page \in PagesAt(outputs, place)
    OBVIOUS
  <2>2. PICK o \in DOMAIN outputs : \E r \in DOMAIN outputs[o].hits : place = <<o, r>>
    BY DEF Places
  <2>3. PICK r \in DOMAIN outputs[o].hits : place = <<o, r>>
    BY <2>2
  <2>4. page \in NormalizedUrl(outputs[o].hits[r].url)
    BY <2>1, <2>3 DEF PagesAt, HitAt
  <2>5. outputs[o] \in ToSet(outputs) /\ outputs[o].hits[r] \in ToSet(outputs[o].hits)
    BY DEF ToSet
  <2> QED
    BY <2>4, <2>5 DEF Mentioned
<1> QED
  BY <1>1, <1>2

(* Finitely many pages are mentioned.                                         *)
LEMMA MentionedFinite ==
  ASSUME NEW outputs \in Seq(Outputs)
  PROVE  IsFiniteSet(Mentioned(outputs))
<1> DEFINE f == [place \in Places(outputs) |-> PagesAt(outputs, place)]
<1>1. IsFiniteSet({f[place] : place \in Places(outputs)})
  <2>1. IsFiniteSet(Places(outputs)) /\ Places(outputs) \subseteq DOMAIN f
    BY PlacesFinite
  <2> HIDE DEF f
  <2> QED
    BY <2>1, ImageFinite
<1>2. ASSUME NEW place \in Places(outputs) PROVE IsFiniteSet(f[place])
  <2>1. HitAt(outputs, place).url \in Links
    BY PlacesFinite DEF HitAt, Hits
  <2> DEFINE url == HitAt(outputs, place).url
  <2>2. f[place] \in SUBSET {[url EXCEPT !.tail = ""]}
    BY <2>1, PageOfUrl DEF PagesAt
  <2>3. IsFiniteSet({[url EXCEPT !.tail = ""]})
    BY FS_Singleton
  <2> HIDE DEF f, url
  <2> QED
    BY <2>2, <2>3, FS_Subset
<1>3. IsFiniteSet(UNION {f[place] : place \in Places(outputs)})
  <2>1. \A T \in {f[place] : place \in Places(outputs)} : IsFiniteSet(T)
    BY <1>2
  <2> HIDE DEF f
  <2> QED
    BY <1>1, <2>1, FS_UNION
<1>4. Mentioned(outputs) = UNION {f[place] : place \in Places(outputs)}
  BY MentionedIsRanked
<1> QED
  BY <1>3, <1>4

(* An order of a finite set goes through all of it, once.                     *)
LEMMA OrdersAll ==
  ASSUME NEW D, IsFiniteSet(D), NEW keys \in SetToSeqs(D)
  PROVE  /\ Cardinality(D) \in Nat /\ keys \in [1 .. Cardinality(D) -> D]
         /\ Len(keys) = Cardinality(D) /\ keys \in Seq(D)
         /\ \A i, j \in 1 .. Cardinality(D) : keys[i] = keys[j] => i = j
         /\ \A page \in D : \E i \in 1 .. Cardinality(D) : keys[i] = page
<1> DEFINE n == Cardinality(D)
<1>1. n \in Nat
  BY FS_CardinalityType
<1>2. keys \in [1 .. n -> D] /\ \A i, j \in 1 .. n : i # j => keys[i] # keys[j]
  BY DEF SetToSeqs
<1> HIDE DEF n
<1>3. keys \in Seq(D) /\ Len(keys) = n
  BY <1>1, <1>2
<1>4. keys \in Injection(1 .. n, D)
  BY <1>2 DEF Injection, IsInjective
<1>5. Cardinality(1 .. n) = n
  BY <1>1, FS_Interval
<1>6. keys \in Surjection(1 .. n, D)
  BY <1>4, <1>5, FS_Injection DEF n
<1>7. \A page \in D : \E i \in 1 .. n : keys[i] = page
  BY <1>6 DEF Surjection
<1> QED
  BY <1>1, <1>2, <1>3, <1>7 DEF n

(* As many are taken as the limit lets.                                       *)
LEMMA TakeIsPrefix ==
  ASSUME NEW D, NEW keys \in Seq(D), NEW limit \in Nat
  PROVE  Len(Take(keys, limit)) = Min({limit, Len(keys)}) /\ Len(Take(keys, limit)) \in 0 .. Len(keys)
<1> DEFINE m == IF limit < Len(keys) THEN limit ELSE Len(keys)
<1>1. m \in 0 .. Len(keys) /\ Len(keys) \in Nat
  OBVIOUS
<1>2. Take(keys, limit) = SubSeq(keys, 1, m)
  BY DEF Take
<1>3. m \in {limit, Len(keys)} /\ m <= limit /\ m <= Len(keys)
  OBVIOUS
<1>4. Min({limit, Len(keys)}) = m
  BY <1>1, <1>3 DEF Min
<1> HIDE DEF m
<1>5. Len(SubSeq(keys, 1, m)) = m
  BY <1>1
<1> QED
  BY <1>1, <1>2, <1>4, <1>5

(* For outputs of any length in any order and any limit, every list that      *)
(* aggregate may return has the best of the pages mentioned, once each, with  *)
(* all their sources, their whole score and the longest snippet (426-481).    *)
THEOREM AggregateRanksAll ==
  ASSUME NEW outputs \in Seq(Outputs), NEW limit \in Nat, NEW list \in Aggregate(outputs, limit)
  PROVE  RanksAll(list, outputs, limit)
<1> DEFINE ranked == Ranked(outputs)
           pages == Mentioned(outputs)
           n == Cardinality(pages)
           M(page) == On(outputs, Places(outputs), page)
<1>1. PICK keys \in Orders(ranked) :
        list = [i \in 1 .. Len(Take(keys, limit)) |-> AggregatedHit(ranked[keys[i]])]
  BY DEF Aggregate
<1> DEFINE L == Len(Take(keys, limit))
           page == [i \in DOMAIN list |-> [list[i].url EXCEPT !.tail = ""]]
           Earlier(i) == {page[j] : j \in 1 .. i - 1}
<1>2. Merges(ranked, outputs, Places(outputs))
  BY RankedMerges
<1>3. DOMAIN ranked = pages
  <2>1. DOMAIN ranked = UNION {PagesAt(outputs, place) : place \in Places(outputs)}
    BY <1>2 DEF Merges
  <2> QED
    BY <2>1, MentionedIsRanked
<1>4. \A p \in pages : /\ Tells(ranked[p], outputs, M(p), p)
                       /\ TotalScore(outputs, p) = ranked[p].score
                       /\ TotalScore(outputs, p) \in Nat
                       /\ Mentions(outputs, p) = M(p)
  <2> SUFFICES ASSUME NEW p \in pages
               PROVE  /\ Tells(ranked[p], outputs, M(p), p)
                      /\ TotalScore(outputs, p) = ranked[p].score
                      /\ TotalScore(outputs, p) \in Nat
                      /\ Mentions(outputs, p) = M(p)
    OBVIOUS
  <2>1. Tells(ranked[p], outputs, M(p), p)
    BY <1>2, <1>3 DEF Merges
  <2>2. TotalScore(outputs, p) = ScoreOf(outputs, M(p)) /\ Mentions(outputs, p) = M(p)
    BY MentionsOn
  <2>3. ranked[p].score = ScoreOf(outputs, M(p))
    BY <2>1 DEF Tells
  <2>4. M(p) \in SUBSET Places(outputs)
    BY DEF On
  <2>5. ScoreOf(outputs, M(p)) \in Nat
    <3> HIDE DEF M
    <3> QED
      BY <2>4, ScoresAddUp
  <2> QED
    BY <2>1, <2>2, <2>3, <2>5
<1>5. /\ n \in Nat /\ keys \in [1 .. n -> pages] /\ Len(keys) = n /\ keys \in Seq(pages)
      /\ \A i, j \in 1 .. n : keys[i] = keys[j] => i = j
      /\ \A p \in pages : \E i \in 1 .. n : keys[i] = p
  <2>1. keys \in SetToSeqs(pages)
    BY <1>3 DEF Orders
  <2>2. IsFiniteSet(pages)
    BY MentionedFinite
  <2> HIDE DEF pages
  <2> QED
    BY <2>1, <2>2, OrdersAll
<1>6. L = Min({limit, n}) /\ L \in 0 .. n
  <2> HIDE DEF pages, n
  <2> QED
    BY <1>5, TakeIsPrefix
<1>7. \A i, j \in 1 .. n : i < j => ~ Before(ranked[keys[j]], ranked[keys[i]])
  <2>1. DOMAIN keys = 1 .. n
    BY <1>5
  <2> QED
    BY <2>1 DEF Orders
<1>8. DOMAIN list = 1 .. L /\ Len(list) = L
  BY <1>1, <1>6
<1>9. \A i \in 1 .. L :
        /\ i \in 1 .. n /\ keys[i] \in pages
        /\ list[i].url = ranked[keys[i]].hit.url /\ list[i].score = ranked[keys[i]].score
        /\ list[i].sources = ranked[keys[i]].sources /\ list[i].snippet = ranked[keys[i]].hit.snippet
        /\ page[i] = keys[i]
  <2> SUFFICES ASSUME NEW i \in 1 .. L
               PROVE  /\ i \in 1 .. n /\ keys[i] \in pages
                      /\ list[i].url = ranked[keys[i]].hit.url /\ list[i].score = ranked[keys[i]].score
                      /\ list[i].sources = ranked[keys[i]].sources
                      /\ list[i].snippet = ranked[keys[i]].hit.snippet
                      /\ page[i] = keys[i]
    OBVIOUS
  <2>1. i \in 1 .. n
    <3> HIDE DEF L, n
    <3> QED
      BY <1>5, <1>6
  <2>2. keys[i] \in pages
    BY <1>5, <2>1
  <2>3. list[i] = AggregatedHit(ranked[keys[i]])
    BY <1>1
  <2>4. Tells(ranked[keys[i]], outputs, M(keys[i]), keys[i])
    BY <1>4, <2>2
  <2>5. [ranked[keys[i]].hit.url EXCEPT !.tail = ""] = keys[i]
    BY <2>4 DEF Tells
  <2>6. /\ list[i].url = ranked[keys[i]].hit.url /\ list[i].score = ranked[keys[i]].score
        /\ list[i].sources = ranked[keys[i]].sources /\ list[i].snippet = ranked[keys[i]].hit.snippet
    BY <2>3 DEF AggregatedHit
  <2>7. page[i] = keys[i]
    BY <1>8, <2>5, <2>6
  <2> QED
    BY <2>1, <2>2, <2>6, <2>7
<1> HIDE DEF ranked, pages, n, M, page, L
<1>10. ASSUME NEW i \in 1 .. L
       PROVE  /\ page[i] \in pages \ Earlier(i)
              /\ \A other \in pages \ Earlier(i) : TotalScore(outputs, other) <= list[i].score
              /\ list[i].score = TotalScore(outputs, page[i])
              /\ IsInjective(list[i].sources) /\ ToSet(list[i].sources) = Finders(outputs, page[i])
              /\ list[i].snippet = LongestSnippet(outputs, page[i])
  <2>1. /\ Tells(ranked[keys[i]], outputs, M(keys[i]), keys[i])
        /\ keys[i] \in pages /\ page[i] = keys[i] /\ i \in 1 .. n
    BY <1>4, <1>9
  <2>2. \A j \in 1 .. i - 1 : j \in 1 .. L /\ j \in 1 .. n /\ j # i /\ page[j] = keys[j]
    <3>1. \A j \in 1 .. i - 1 : j \in 1 .. L /\ j # i
      BY <1>5, <1>6
    <3> QED
      BY <1>9, <3>1
  <2>3. page[i] \notin Earlier(i)
    BY <1>5, <2>1, <2>2
  <2>4. ASSUME NEW other \in pages \ Earlier(i) PROVE TotalScore(outputs, other) <= list[i].score
    <3>1. PICK j \in 1 .. n : keys[j] = other
      BY <1>5
    <3>2. j >= i
      <4> SUFFICES ASSUME j < i PROVE FALSE
        BY <1>5, <1>6
      <4>1. j \in 1 .. i - 1
        BY <1>5, <1>6
      <4>2. page[j] = other
        BY <2>2, <3>1, <4>1
      <4> QED
        BY <4>1, <4>2
    <3>3. /\ TotalScore(outputs, other) = ranked[keys[j]].score /\ ranked[keys[j]].score \in Nat
          /\ list[i].score = ranked[keys[i]].score /\ ranked[keys[i]].score \in Nat
      BY <1>4, <1>9, <2>1, <3>1
    <3>4. CASE j = i
      BY <3>3, <3>4
    <3>5. CASE j # i
      <4>1. i < j
        BY <1>5, <1>6, <3>2, <3>5
      <4>2. ~ Before(ranked[keys[j]], ranked[keys[i]])
        BY <1>7, <2>1, <4>1
      <4>3. ~ ranked[keys[j]].score > ranked[keys[i]].score
        BY <4>2 DEF Before
      <4> QED
        BY <3>3, <4>3
    <3> QED
      BY <3>4, <3>5
  <2>5. list[i].score = TotalScore(outputs, page[i])
    BY <1>4, <1>9, <2>1
  <2>6. IsInjective(list[i].sources) /\ ToSet(list[i].sources) = Finders(outputs, page[i])
    <3>1. /\ IsInjective(ranked[keys[i]].sources)
          /\ ToSet(ranked[keys[i]].sources) = {outputs[place[1]].engine : place \in M(keys[i])}
      BY <2>1 DEF Tells
    <3>2. Finders(outputs, page[i]) = {outputs[place[1]].engine : place \in M(keys[i])}
      BY <1>4, <2>1 DEF Finders
    <3> QED
      BY <1>9, <3>1, <3>2
  <2>7. list[i].snippet = LongestSnippet(outputs, page[i])
    <3> DEFINE snippets == {HitAt(outputs, place).snippet : place \in M(keys[i])}
               longest == ranked[keys[i]].hit.snippet
    <3>1. longest \in snippets /\ \A x \in snippets : x <= longest
      BY <2>1 DEF Tells
    <3>2. snippets \subseteq Nat
      <4>1. \A place \in M(keys[i]) : place \in Places(outputs)
        BY DEF M, On
      <4>2. \A place \in Places(outputs) : HitAt(outputs, place).snippet \in Nat
        BY PlacesFinite DEF HitAt, Hits
      <4> QED
        BY <4>1, <4>2
    <3>3. LongestSnippet(outputs, page[i]) = Max(snippets)
      BY <1>4, <2>1 DEF LongestSnippet, HitAt
    <3> HIDE DEF snippets, longest
    <3>4. Max(snippets) = longest
      <4>1. \E x \in snippets : \A y \in snippets : x >= y
        BY <3>1, <3>2
      <4>2. Max(snippets) \in snippets /\ \A y \in snippets : Max(snippets) >= y
        BY <4>1 DEF Max
      <4> DEFINE max == Max(snippets)
      <4>3. max \in Nat /\ longest \in Nat /\ max <= longest /\ max >= longest
        BY <3>1, <3>2, <4>2
      <4> HIDE DEF max
      <4>4. max = longest
        BY <4>3
      <4> QED
        BY <4>4 DEF max
    <3> QED
      BY <1>9, <3>3, <3>4 DEF longest
  <2> QED
    BY <2>1, <2>3, <2>4, <2>5, <2>6, <2>7
<1>11. Len(list) = Min({limit, n})
  BY <1>6, <1>8
<1> QED
  BY <1>8, <1>10, <1>11 DEF RanksAll, pages, n, page

-----------------------------------------------------------------------------
(* What an adapter makes of a site's answer is typed.                         *)

Optional(V) == {{}} \cup {{v} : v \in V}

(* An optional value is a sequence of one at most.                            *)
LEMMA SeqOfOptional ==
  ASSUME NEW V, NEW one \in Optional(V)
  PROVE  SetToSeq(one) \in Seq(V)
<1> DEFINE n == Cardinality(one)
<1>1. IsFiniteSet(one) /\ n \in Nat /\ one \subseteq V
  BY FS_EmptySet, FS_Singleton, FS_CardinalityType DEF Optional
<1>2. \E f \in [1 .. n -> one] : IsInjective(f)
  <2>1. PICK f : f \in Bijection(1 .. n, one)
    BY <1>1, FS_CardinalityType DEF ExistsBijection
  <2>2. f \in [1 .. n -> one] /\ IsInjective(f)
    BY <2>1 DEF Bijection, Injection
  <2> QED
    BY <2>2
<1>3. SetToSeq(one) \in [1 .. n -> one]
  <2> HIDE DEF n
  <2>1. SetToSeq(one) = CHOOSE f \in [1 .. n -> one] : IsInjective(f)
    BY DEF SetToSeq, n
  <2> QED
    BY <1>2, <2>1
<1> HIDE DEF n
<1> QED
  BY <1>1, <1>3

(* The values that are there are values.                                      *)
LEMMA PresentType ==
  ASSUME NEW V, NEW found \in Seq(Optional(V))
  PROVE  Present(found) \in Seq(V)
<1> DEFINE n == Len(found)
           Recursion(h) ==
             h = [T \in SUBSET (1 .. n) |-> IF T = {} THEN <<>>
                                            ELSE h[T \ {Max(T)}] \o SetToSeq(found[Max(T)])]
           iter == CHOOSE h : Recursion(h)
           step == [vk \in Seq(V) \X (1 .. n) |-> vk[1] \o SetToSeq(found[vk[2]])]
           c == [T \in SUBSET (1 .. n) |-> Max(T)]
<1>1. n \in Nat /\ DOMAIN found = 1 .. n /\ \A k \in 1 .. n : found[k] \in Optional(V)
  OBVIOUS
<1>2. \A T \in SUBSET (1 .. n) : T # {} => c[T] \in T
  BY <1>1, LastIsMax
<1>3. \A v \in Seq(V) : \A k \in 1 .. n : step[<<v, k>>] = v \o SetToSeq(found[k])
  OBVIOUS
<1>4. \A k \in 1 .. n : SetToSeq(found[k]) \in Seq(V)
  BY <1>1, SeqOfOptional
<1>5. \A v \in Seq(V) : \A k \in 1 .. n : v \o SetToSeq(found[k]) \in Seq(V)
  BY <1>4
<1>6. PICK f \in [SUBSET (1 .. n) -> Seq(V)] : Folds(step, <<>>, c, 1 .. n, f)
  <2> HIDE DEF step, c, n
  <2>1. IsFiniteSet(1 .. n) /\ <<>> \in Seq(V)
    BY <1>1, LastIsMax
  <2>2. \A v \in Seq(V) : \A k \in 1 .. n : step[<<v, k>>] \in Seq(V)
    BY <1>3, <1>5
  <2> QED
    BY <1>2, <2>1, <2>2, FoldExists
<1>7. Recursion(f)
  <2>1. ASSUME NEW T \in SUBSET (1 .. n)
        PROVE  f[T] = IF T = {} THEN <<>> ELSE f[T \ {Max(T)}] \o SetToSeq(found[Max(T)])
    <3>1. c[T] = Max(T) /\ f[T] = IF T = {} THEN <<>> ELSE step[<<f[T \ {c[T]}], c[T]>>]
      BY <1>6 DEF Folds
    <3>2. f[T \ {Max(T)}] \in Seq(V)
      BY <1>6
    <3>3. T # {} => Max(T) \in 1 .. n
      BY <1>1, LastIsMax
    <3> HIDE DEF step, c
    <3> QED
      BY <1>3, <3>1, <3>2, <3>3
  <2> QED
    BY <1>6, <2>1
<1>8. Recursion(iter)
  <2> HIDE DEF Recursion
  <2> QED
    BY <1>7, Zenon
<1>9. Present(found) = iter[1 .. n]
  <2>1. Present(found) =
          MapThenFoldSet(LAMBDA x, y : y \o SetToSeq(x), <<>>, LAMBDA i : found[i],
                         LAMBDA T : Max(T), 1 .. n)
    BY <1>1, Zenon DEF Present, FoldLeft
  <2> QED
    BY <2>1, Zenon DEF MapThenFoldSet
<1> HIDE DEF iter
<1>10. \A T \in SUBSET (1 .. n) :
         iter[T] = IF T = {} THEN <<>> ELSE iter[T \ {Max(T)}] \o SetToSeq(found[Max(T)])
  BY <1>8
<1> DEFINE S == {k \in 0 .. n : iter[1 .. k] \in Seq(V)}
<1>11. 0 \in S
  <2>1. 1 .. 0 = {} /\ {} \in SUBSET (1 .. n) /\ 0 \in 0 .. n
    BY <1>1
  <2>2. iter[1 .. 0] = <<>>
    BY <1>10, <2>1
  <2>3. <<>> \in Seq(V)
    OBVIOUS
  <2> QED
    BY <2>1, <2>2, <2>3
<1>12. ASSUME NEW k \in 1 .. n, k - 1 \in S PROVE k \in S
  <2> HIDE DEF n
  <2>1. /\ 1 .. k \in SUBSET (1 .. n) /\ 1 .. k # {} /\ k \in 0 .. n
        /\ Max(1 .. k) = k /\ (1 .. k) \ {k} = 1 .. k - 1
    BY <1>1, LastIsMax
  <2>2. iter[1 .. k] = iter[1 .. k - 1] \o SetToSeq(found[k])
    BY <1>10, <2>1
  <2>3. iter[1 .. k - 1] \in Seq(V)
    BY <1>12
  <2>4. iter[1 .. k] \in Seq(V)
    BY <1>5, <2>2, <2>3
  <2> QED
    BY <2>1, <2>4
<1>13. \A k \in 0 .. n : k \in S
  <2> HIDE DEF n, S
  <2> QED
    BY <1>1, <1>11, <1>12, Stepwise
<1> QED
  BY <1>1, <1>9, <1>13

(* The first of a sequence are a sequence.                                    *)
LEMMA TakeType ==
  ASSUME NEW V, NEW s \in Seq(V), NEW limit \in Nat
  PROVE  Take(s, limit) \in Seq(V)
<1> DEFINE m == IF limit < Len(s) THEN limit ELSE Len(s)
<1>1. m \in 0 .. Len(s)
  OBVIOUS
<1>2. Take(s, limit) = SubSeq(s, 1, m)
  BY DEF Take
<1> HIDE DEF m
<1>3. SubSeq(s, 1, m) \in Seq(V)
  <2>1. \A i \in 1 .. m : s[i] \in V
    BY <1>1
  <2> QED
    BY <1>1, <2>1
<1> QED
  BY <1>2, <1>3

(* The hits of the entries, when each entry makes one at most.                *)
LEMMA FoundHits ==
  ASSUME NEW items \in Seq(Items), NEW limit \in Nat, NEW found \in [DOMAIN items -> Optional(Hits)]
  PROVE  Take(Present(found), limit) \in Seq(Hits)
<1>1. found \in Seq(Optional(Hits))
  <2>1. DOMAIN items = 1 .. Len(items) /\ Len(items) \in Nat
    OBVIOUS
  <2> QED
    BY <2>1
<1>2. Present(found) \in Seq(Hits)
  BY <1>1, PresentType
<1> QED
  BY <1>2, TakeType

(* One link at most comes of a link.                                          *)
LEMMA LinkTypes ==
  ASSUME NEW link \in Links
  PROVE  /\ Fetchable(link) \in Optional(Links) /\ PublicUrl(link) \in Optional(Links)
         /\ Plain(link) \in Links /\ Destination(link) \in Links
<1>1. Plain(link) \in Links /\ Destination(link) \in Links
  BY DEF Plain, Destination, Links
<1>2. Fetchable(link) \in {{}, {link}}
  BY DEF Fetchable
<1>3. PublicUrl(link) \in {{}, {Plain(link)}}
  BY <1>2 DEF PublicUrl
<1> QED
  BY <1>1, <1>2, <1>3 DEF Optional

(* A titled link is one hit at most.                                          *)
LEMMA TitledType ==
  ASSUME NEW title \in Nat, NEW urls \in Optional(Links), NEW snippet \in Nat
  PROVE  Titled(title, urls, snippet) \in Optional(Hits)
<1>1. CASE urls = {} \/ ~ title > 0
  BY <1>1 DEF Titled, Optional
<1>2. CASE urls # {} /\ title > 0
  <2>1. PICK url \in Links : urls = {url}
    BY <1>2 DEF Optional
  <2>2. Titled(title, urls, snippet) = {SearchHit(title, url, snippet)}
    BY <1>2, <2>1 DEF Titled
  <2>3. SearchHit(title, url, snippet) \in Hits
    BY <2>1 DEF SearchHit, Hits
  <2> QED
    BY <2>2, <2>3 DEF Optional
<1> QED
  BY <1>1, <1>2

(* An address made from a name is a link.                                     *)
LEMMA MadeType == ASSUME NEW item \in Items PROVE Made(item) \in Links
BY DEF Made, Items, Links

(* What an entry has, and the links that come of it.                          *)
LEMMA ItemFields ==
  ASSUME NEW item \in Items
  PROVE  /\ item.title \in Nat /\ item.name \in Nat /\ item.snippet \in Nat /\ item.meta \in Nat
         /\ item.link \in Links /\ item.backup \in Links /\ item.index \in Int
         /\ {Made(item)} \in Optional(Links)
         /\ PublicUrl(item.link) \in Optional(Links) /\ PublicUrl(item.backup) \in Optional(Links)
         /\ Fetchable(item.link) \in Optional(Links)
         /\ OrElse(PublicUrl(item.link), {Made(item)}) \in Optional(Links)
         /\ OrElse(PublicUrl(item.link), PublicUrl(item.backup)) \in Optional(Links)
<1>1. /\ item.title \in Nat /\ item.name \in Nat /\ item.snippet \in Nat /\ item.meta \in Nat
      /\ item.link \in Links /\ item.backup \in Links /\ item.index \in Int
  BY DEF Items
<1>2. /\ PublicUrl(item.link) \in Optional(Links) /\ PublicUrl(item.backup) \in Optional(Links)
      /\ Fetchable(item.link) \in Optional(Links)
  BY <1>1, LinkTypes
<1>3. {Made(item)} \in Optional(Links)
  BY MadeType DEF Optional
<1> QED
  BY <1>1, <1>2, <1>3 DEF OrElse

(* The entry of a page, of each engine.                                       *)
LEMMA PageHits ==
  ASSUME NEW item \in Items
  PROVE  /\ BingHit(item) \in Optional(Hits) /\ DuckDuckGoHit(item) \in Optional(Hits)
         /\ YahooHit(item) \in Optional(Hits) /\ BraveWebHit(item) \in Optional(Hits)
         /\ BraveHit(item) \in Optional(Hits) /\ GoogleHit(item) \in Optional(Hits)
         /\ WikipediaHit(item) \in Optional(Hits)
<1>1. /\ item.title \in Nat /\ item.snippet \in Nat /\ item.link \in Links
      /\ PublicUrl(item.link) \in Optional(Links) /\ Fetchable(item.link) \in Optional(Links)
  BY ItemFields
<1>2. {} \in Optional(Links) /\ {} \in Optional(Hits)
  BY DEF Optional
<1>3. PublicUrl(Destination(item.link)) \in Optional(Links)
  BY <1>1, LinkTypes
<1>4. PublicUrl([item.link EXCEPT !.host = "own", !.scheme = "https"]) \in Optional(Links)
  <2>1. [item.link EXCEPT !.host = "own", !.scheme = "https"] \in Links
    BY <1>1 DEF Links
  <2> QED
    BY <2>1, LinkTypes
<1>5. BingUrl(item.link) \in Optional(Links)
  BY <1>1, <1>3 DEF BingUrl
<1>6. DuckDuckGoUrl(item.link) \in Optional(Links)
  BY <1>1, <1>2, <1>3, <1>4 DEF DuckDuckGoUrl
<1>7. YahooUrl(item.link) \in Optional(Links)
  BY <1>1, <1>2, <1>3 DEF YahooUrl
<1>8. WikipediaUrl(item.link) \in Optional(Links)
  BY <1>1, <1>2 DEF WikipediaUrl
<1>9. BingHit(item) \in Optional(Hits)
  BY <1>1, <1>5, TitledType DEF BingHit
<1>10. DuckDuckGoHit(item) \in Optional(Hits)
  BY <1>1, <1>2, <1>6, TitledType DEF DuckDuckGoHit
<1>11. YahooHit(item) \in Optional(Hits)
  BY <1>1, <1>7, TitledType DEF YahooHit
<1>12. BraveWebHit(item) \in Optional(Hits)
  BY <1>1, TitledType DEF BraveWebHit
<1>13. BraveHit(item) \in Optional(Hits) /\ GoogleHit(item) \in Optional(Hits)
  BY <1>1, TitledType DEF BraveHit, GoogleHit
<1>14. WikipediaHit(item) \in Optional(Hits)
  BY <1>1, <1>8, TitledType DEF WikipediaHit
<1> QED
  BY <1>9, <1>10, <1>11, <1>12, <1>13, <1>14

(* The entry of an interface's answer, of each engine.                        *)
LEMMA AnswerHits ==
  ASSUME NEW item \in Items
  PROVE  /\ MwmblHit(item) \in Optional(Hits) /\ HackerNewsHit(item) \in Optional(Hits)
         /\ NpmHit(item) \in Optional(Hits) /\ CratesIoHit(item) \in Optional(Hits)
         /\ DockerHubHit(item) \in Optional(Hits) /\ OpenLibraryHit(item) \in Optional(Hits)
         /\ OpenAlexHit(item) \in Optional(Hits) /\ WikidataHit(item) \in Optional(Hits)
         /\ HuggingFaceHit(item) \in Optional(Hits) /\ NvdHit(item) \in Optional(Hits)
         /\ GitHubHit(item) \in Optional(Hits) /\ CrossrefHit(item) \in Optional(Hits)
         /\ PubMedHit(item) \in Optional(Hits) /\ GoogleCseHit(item) \in Optional(Hits)
<1>1. /\ item.title \in Nat /\ item.name \in Nat /\ item.snippet \in Nat /\ item.meta \in Nat
      /\ item.link \in Links /\ {Made(item)} \in Optional(Links)
      /\ PublicUrl(item.link) \in Optional(Links)
      /\ OrElse(PublicUrl(item.link), {Made(item)}) \in Optional(Links)
      /\ OrElse(PublicUrl(item.link), PublicUrl(item.backup)) \in Optional(Links)
  BY ItemFields
<1>2. {} \in Optional(Hits)
  BY DEF Optional
<1>3. MwmblHit(item) \in Optional(Hits) /\ GoogleCseHit(item) \in Optional(Hits)
  BY <1>1, TitledType DEF MwmblHit, GoogleCseHit
<1>4. HackerNewsHit(item) \in Optional(Hits) /\ NpmHit(item) \in Optional(Hits)
  BY <1>1, TitledType DEF HackerNewsHit, NpmHit
<1>5. /\ CratesIoHit(item) \in Optional(Hits) /\ DockerHubHit(item) \in Optional(Hits)
      /\ NvdHit(item) \in Optional(Hits)
  BY <1>1, TitledType DEF CratesIoHit, DockerHubHit, NvdHit
<1>6. OpenLibraryHit(item) \in Optional(Hits) /\ PubMedHit(item) \in Optional(Hits)
  BY <1>1, <1>2, TitledType DEF OpenLibraryHit, PubMedHit
<1>7. OpenAlexHit(item) \in Optional(Hits)
  BY <1>1, TitledType DEF OpenAlexHit
<1>8. WikidataHit(item) \in Optional(Hits)
  BY <1>1, <1>2, TitledType DEF WikidataHit
<1>9. HuggingFaceHit(item) \in Optional(Hits)
  <2>1. 1 + item.meta \in Nat
    BY <1>1
  <2> QED
    BY <1>1, <2>1, TitledType DEF HuggingFaceHit
<1>10. GitHubHit(item) \in Optional(Hits)
  <2>1. SearchHit(item.name, Plain(item.link), 1 + item.snippet + item.meta) \in Hits
    <3>1. Plain(item.link) \in Links
      BY <1>1, LinkTypes
    <3>2. 1 + item.snippet + item.meta \in Nat
      BY <1>1
    <3> QED
      BY <1>1, <3>1, <3>2 DEF SearchHit, Hits
  <2> QED
    BY <1>2, <2>1 DEF GitHubHit, Optional
<1>11. CrossrefHit(item) \in Optional(Hits)
  <2>1. CrossrefSnippet(item) \in Nat
    BY <1>1 DEF CrossrefSnippet
  <2> QED
    BY <1>1, <2>1, TitledType DEF CrossrefHit, CrossrefUrl
<1> QED
  BY <1>3, <1>4, <1>5, <1>6, <1>7, <1>8, <1>9, <1>10, <1>11

(* The hits of a page's entries.                                              *)
LEMMA PageHitsOf ==
  ASSUME NEW items \in Seq(Items), NEW limit \in Nat
  PROVE  /\ HitsOf(items, BingHit, limit) \in Seq(Hits)
         /\ HitsOf(items, DuckDuckGoHit, limit) \in Seq(Hits)
         /\ HitsOf(items, YahooHit, limit) \in Seq(Hits)
         /\ HitsOf(items, BraveWebHit, limit) \in Seq(Hits)
         /\ HitsOf(items, BraveHit, limit) \in Seq(Hits)
         /\ HitsOf(items, GoogleHit, limit) \in Seq(Hits)
         /\ HitsOf(items, WikipediaHit, limit) \in Seq(Hits)
<1>1. HitsOf(items, BingHit, limit) \in Seq(Hits)
  BY PageHits, FoundHits DEF HitsOf
<1>2. HitsOf(items, DuckDuckGoHit, limit) \in Seq(Hits)
  BY PageHits, FoundHits DEF HitsOf
<1>3. HitsOf(items, YahooHit, limit) \in Seq(Hits)
  BY PageHits, FoundHits DEF HitsOf
<1>4. HitsOf(items, BraveWebHit, limit) \in Seq(Hits)
  BY PageHits, FoundHits DEF HitsOf
<1>5. HitsOf(items, BraveHit, limit) \in Seq(Hits)
  BY PageHits, FoundHits DEF HitsOf
<1>6. HitsOf(items, GoogleHit, limit) \in Seq(Hits)
  BY PageHits, FoundHits DEF HitsOf
<1>7. HitsOf(items, WikipediaHit, limit) \in Seq(Hits)
  BY PageHits, FoundHits DEF HitsOf
<1> QED
  BY <1>1, <1>2, <1>3, <1>4, <1>5, <1>6, <1>7

(* The hits of the entries an interface answers with.                         *)
LEMMA AnswerHitsOf ==
  ASSUME NEW items \in Seq(Items), NEW limit \in Nat
  PROVE  /\ HitsOf(items, MwmblHit, limit) \in Seq(Hits)
         /\ HitsOf(items, HackerNewsHit, limit) \in Seq(Hits)
         /\ HitsOf(items, NpmHit, limit) \in Seq(Hits)
         /\ HitsOf(items, CratesIoHit, limit) \in Seq(Hits)
         /\ HitsOf(items, DockerHubHit, limit) \in Seq(Hits)
         /\ HitsOf(items, OpenLibraryHit, limit) \in Seq(Hits)
         /\ HitsOf(items, OpenAlexHit, limit) \in Seq(Hits)
         /\ HitsOf(items, WikidataHit, limit) \in Seq(Hits)
         /\ HitsOf(items, HuggingFaceHit, limit) \in Seq(Hits)
         /\ HitsOf(items, NvdHit, limit) \in Seq(Hits)
         /\ HitsOf(items, GitHubHit, limit) \in Seq(Hits)
         /\ HitsOf(items, CrossrefHit, limit) \in Seq(Hits)
         /\ HitsOf(items, PubMedHit, limit) \in Seq(Hits)
         /\ HitsOf(items, GoogleCseHit, limit) \in Seq(Hits)
<1>1. HitsOf(items, MwmblHit, limit) \in Seq(Hits)
  BY AnswerHits, FoundHits DEF HitsOf
<1>2. HitsOf(items, HackerNewsHit, limit) \in Seq(Hits)
  BY AnswerHits, FoundHits DEF HitsOf
<1>3. HitsOf(items, NpmHit, limit) \in Seq(Hits)
  BY AnswerHits, FoundHits DEF HitsOf
<1>4. HitsOf(items, CratesIoHit, limit) \in Seq(Hits)
  BY AnswerHits, FoundHits DEF HitsOf
<1>5. HitsOf(items, DockerHubHit, limit) \in Seq(Hits)
  BY AnswerHits, FoundHits DEF HitsOf
<1>6. HitsOf(items, OpenLibraryHit, limit) \in Seq(Hits)
  BY AnswerHits, FoundHits DEF HitsOf
<1>7. HitsOf(items, OpenAlexHit, limit) \in Seq(Hits)
  BY AnswerHits, FoundHits DEF HitsOf
<1>8. HitsOf(items, WikidataHit, limit) \in Seq(Hits)
  BY AnswerHits, FoundHits DEF HitsOf
<1>9. HitsOf(items, HuggingFaceHit, limit) \in Seq(Hits)
  BY AnswerHits, FoundHits DEF HitsOf
<1>10. HitsOf(items, NvdHit, limit) \in Seq(Hits)
  BY AnswerHits, FoundHits DEF HitsOf
<1>11. HitsOf(items, GitHubHit, limit) \in Seq(Hits)
  BY AnswerHits, FoundHits DEF HitsOf
<1>12. HitsOf(items, CrossrefHit, limit) \in Seq(Hits)
  BY AnswerHits, FoundHits DEF HitsOf
<1>13. HitsOf(items, PubMedHit, limit) \in Seq(Hits)
  BY AnswerHits, FoundHits DEF HitsOf
<1>14. HitsOf(items, GoogleCseHit, limit) \in Seq(Hits)
  BY AnswerHits, FoundHits DEF HitsOf
<1> QED
  BY <1>1, <1>2, <1>3, <1>4, <1>5, <1>6, <1>7, <1>8, <1>9, <1>10, <1>11, <1>12, <1>13, <1>14

(* Sorting keeps the entries.                                                 *)
LEMMA ByIndexType ==
  ASSUME NEW items \in Seq(Items)
  PROVE  ByIndex(items) \in Seq(Items)
<1> DEFINE n == Len(items)
           upto(k) == {i \in 1 .. n : Precedes(items, i, k)}
           rank == [k \in 1 .. n |-> PlaceOf(items, k)]
<1>1. /\ n \in Nat /\ DOMAIN items = 1 .. n
      /\ \A i \in 1 .. n : items[i] \in Items /\ items[i].index \in Int /\ i \in Nat
  <2>1. n \in Nat /\ DOMAIN items = 1 .. n /\ \A i \in 1 .. n : items[i] \in Items /\ i \in Nat
    OBVIOUS
  <2>2. \A item \in Items : item.index \in Int
    BY DEF Items
  <2> QED
    BY <2>1, <2>2
<1>2. IsFiniteSet(1 .. n) /\ Cardinality(1 .. n) = n
  <2> HIDE DEF n
  <2>1. 1 \in Int /\ n \in Int
    BY <1>1
  <2>2. /\ IsFiniteSet(1 .. n)
        /\ Cardinality(1 .. n) = IF 1 > n THEN 0 ELSE n - 1 + 1
    BY <2>1, FS_Interval
  <2> QED
    BY <1>1, <2>2
<1>3. \A k \in 1 .. n : PlaceOf(items, k) = Cardinality(upto(k))
  BY <1>1 DEF PlaceOf
<1> HIDE DEF n
<1>4. \A i, k \in 1 .. n : /\ Precedes(items, i, i)
                           /\ Precedes(items, i, k) \/ Precedes(items, k, i)
                           /\ Precedes(items, i, k) /\ Precedes(items, k, i) => i = k
  BY <1>1 DEF Precedes
<1>5. \A h, i, k \in 1 .. n : Precedes(items, h, i) /\ Precedes(items, i, k) => Precedes(items, h, k)
  BY <1>1 DEF Precedes
<1>6. \A k \in 1 .. n : /\ upto(k) \subseteq 1 .. n /\ k \in upto(k) /\ IsFiniteSet(upto(k))
                        /\ Cardinality(upto(k)) \in 1 .. n
  <2> SUFFICES ASSUME NEW k \in 1 .. n
               PROVE  /\ upto(k) \subseteq 1 .. n /\ k \in upto(k) /\ IsFiniteSet(upto(k))
                      /\ Cardinality(upto(k)) \in 1 .. n
    OBVIOUS
  <2>1. upto(k) \subseteq 1 .. n /\ k \in upto(k)
    BY <1>4
  <2> HIDE DEF upto
  <2>2. IsFiniteSet(upto(k)) /\ Cardinality(upto(k)) <= n
    BY <1>2, <2>1, FS_Subset
  <2>3. Cardinality(upto(k)) \in Nat /\ Cardinality(upto(k)) # 0
    BY <2>1, <2>2, FS_CardinalityType, FS_EmptySet
  <2> QED
    BY <1>1, <2>1, <2>2, <2>3
<1>7. \A i, k \in 1 .. n : rank[i] = rank[k] => i = k
  <2> SUFFICES ASSUME NEW i \in 1 .. n, NEW k \in 1 .. n, rank[i] = rank[k], Precedes(items, i, k)
               PROVE  i = k
    BY <1>4
  <2>1. upto(i) \subseteq upto(k)
    BY <1>5
  <2>2. Cardinality(upto(i)) = Cardinality(upto(k)) /\ IsFiniteSet(upto(k))
    BY <1>3, <1>6
  <2>3. upto(i) = upto(k)
    <3> HIDE DEF upto
    <3> QED
      BY <2>1, <2>2, FS_Subset
  <2>4. Precedes(items, k, i)
    BY <1>6, <2>3
  <2> QED
    BY <1>4, <2>4
<1>8. rank \in [1 .. n -> 1 .. n]
  BY <1>3, <1>6
<1>9. rank \in Surjection(1 .. n, 1 .. n)
  <2>1. rank \in Injection(1 .. n, 1 .. n)
    <3> HIDE DEF rank
    <3> QED
      BY <1>7, <1>8 DEF Injection, IsInjective
  <2> HIDE DEF rank
  <2> QED
    BY <1>2, <2>1, FS_Injection
<1>10. \A place \in 1 .. n : \E k \in 1 .. n : PlaceOf(items, k) = place
  <2>1. \A place \in 1 .. n : \E k \in 1 .. n : rank[k] = place
    <3> HIDE DEF rank
    <3> QED
      BY <1>9 DEF Surjection
  <2> QED
    BY <2>1
<1>11. \A place \in 1 .. n : (CHOOSE k \in 1 .. n : PlaceOf(items, k) = place) \in 1 .. n
  BY <1>10
<1>12. ByIndex(items) \in [1 .. n -> Items]
  BY <1>1, <1>11 DEF ByIndex
<1> QED
  BY <1>1, <1>12

(* An outcome has hits, or none.                                              *)
LEMMA OutcomeType ==
  ASSUME NEW problem, NEW hits \in Seq(Hits)
  PROVE  Outcome(problem, hits).hits \in Seq(Hits)
BY DEF Outcome

(* The adapters of pages make hits.                                           *)
LEMMA PageAdapters ==
  ASSUME NEW reply \in SiteAnswers, NEW limit \in Nat
  PROVE  /\ Bing(reply, limit).hits \in Seq(Hits) /\ DuckDuckGo(reply, limit).hits \in Seq(Hits)
         /\ Yahoo(reply, limit).hits \in Seq(Hits) /\ BraveWeb(reply, limit).hits \in Seq(Hits)
         /\ Brave(reply, limit).hits \in Seq(Hits) /\ Google(reply, limit).hits \in Seq(Hits)
         /\ Wikipedia(reply, limit).hits \in Seq(Hits)
<1>1. reply.items \in Seq(Items)
  BY DEF SiteAnswers, Answers
<1>2. Listed(reply) \in Seq(Items)
  <2>1. <<>> \in Seq(Items)
    OBVIOUS
  <2> QED
    BY <1>1, <2>1 DEF Listed
<1>3. ByIndex(reply.items) \in Seq(Items)
  BY <1>1, ByIndexType
<1>4. Bing(reply, limit).hits \in Seq(Hits)
  BY <1>2, PageHitsOf, OutcomeType DEF Bing
<1>5. DuckDuckGo(reply, limit).hits \in Seq(Hits)
  BY <1>2, PageHitsOf, OutcomeType DEF DuckDuckGo, DuckDuckGoParse
<1>6. Yahoo(reply, limit).hits \in Seq(Hits)
  BY <1>2, PageHitsOf, OutcomeType DEF Yahoo
<1>7. BraveWeb(reply, limit).hits \in Seq(Hits)
  BY <1>2, PageHitsOf, OutcomeType DEF BraveWeb
<1>8. Brave(reply, limit).hits \in Seq(Hits) /\ Google(reply, limit).hits \in Seq(Hits)
  BY <1>1, PageHitsOf, OutcomeType DEF Brave, Google
<1>9. Wikipedia(reply, limit).hits \in Seq(Hits)
  BY <1>3, PageHitsOf, OutcomeType DEF Wikipedia
<1> QED
  BY <1>4, <1>5, <1>6, <1>7, <1>8, <1>9

(* The adapters of interfaces make hits.                                      *)
LEMMA AnswerAdapters ==
  ASSUME NEW reply \in SiteAnswers, NEW limit \in Nat
  PROVE  /\ Mwmbl(reply, limit).hits \in Seq(Hits) /\ HackerNews(reply, limit).hits \in Seq(Hits)
         /\ Npm(reply, limit).hits \in Seq(Hits) /\ CratesIo(reply, limit).hits \in Seq(Hits)
         /\ DockerHub(reply, limit).hits \in Seq(Hits) /\ OpenLibrary(reply, limit).hits \in Seq(Hits)
         /\ OpenAlex(reply, limit).hits \in Seq(Hits) /\ Wikidata(reply, limit).hits \in Seq(Hits)
         /\ HuggingFace(reply, limit).hits \in Seq(Hits) /\ Nvd(reply, limit).hits \in Seq(Hits)
         /\ GitHub(reply, limit).hits \in Seq(Hits) /\ Crossref(reply, limit).hits \in Seq(Hits)
         /\ PubMed(reply, limit).hits \in Seq(Hits) /\ GoogleCse(reply, limit).hits \in Seq(Hits)
<1>1. reply.items \in Seq(Items) /\ <<>> \in Seq(Hits)
  BY DEF SiteAnswers, Answers
<1>2. Mwmbl(reply, limit).hits \in Seq(Hits) /\ HackerNews(reply, limit).hits \in Seq(Hits)
  BY <1>1, AnswerHitsOf, OutcomeType DEF Mwmbl, HackerNews, Answer
<1>3. Npm(reply, limit).hits \in Seq(Hits) /\ CratesIo(reply, limit).hits \in Seq(Hits)
  BY <1>1, AnswerHitsOf, OutcomeType DEF Npm, CratesIo, Answer
<1>4. DockerHub(reply, limit).hits \in Seq(Hits) /\ OpenLibrary(reply, limit).hits \in Seq(Hits)
  BY <1>1, AnswerHitsOf, OutcomeType DEF DockerHub, OpenLibrary, Answer
<1>5. OpenAlex(reply, limit).hits \in Seq(Hits) /\ Wikidata(reply, limit).hits \in Seq(Hits)
  BY <1>1, AnswerHitsOf, OutcomeType DEF OpenAlex, Wikidata, Answer
<1>6. HuggingFace(reply, limit).hits \in Seq(Hits) /\ Nvd(reply, limit).hits \in Seq(Hits)
  BY <1>1, AnswerHitsOf, OutcomeType DEF HuggingFace, Nvd, Answer
<1>7. GitHub(reply, limit).hits \in Seq(Hits) /\ Crossref(reply, limit).hits \in Seq(Hits)
  BY <1>1, AnswerHitsOf, OutcomeType DEF GitHub, Crossref
<1>8. PubMed(reply, limit).hits \in Seq(Hits)
  BY <1>1, AnswerHitsOf, OutcomeType DEF PubMed
<1>9. GoogleCse(reply, limit).hits \in Seq(Hits)
  BY <1>1, AnswerHitsOf, OutcomeType DEF GoogleCse
<1> QED
  BY <1>2, <1>3, <1>4, <1>5, <1>6, <1>7, <1>8, <1>9

(* Whatever a site answers, each of the compiled adapters makes a sequence of *)
(* proper hits of it (SearchEngine::execute, into_hit, clean_url).            *)
THEOREM ExecuteType ==
  ASSUME NEW kind \in EngineKind, NEW reply \in SiteAnswers, NEW limit \in Nat
  PROVE  Execute(kind, reply, limit).hits \in Seq(Hits)
<1>1. Execute(kind, reply, limit) \in
        {Bing(reply, limit), Brave(reply, limit), BraveWeb(reply, limit), CratesIo(reply, limit),
         Crossref(reply, limit), DockerHub(reply, limit), DuckDuckGo(reply, limit),
         GitHub(reply, limit), Google(reply, limit), GoogleCse(reply, limit),
         HackerNews(reply, limit), HuggingFace(reply, limit), Mwmbl(reply, limit),
         Npm(reply, limit), Nvd(reply, limit), OpenAlex(reply, limit), OpenLibrary(reply, limit),
         PubMed(reply, limit), Wikidata(reply, limit), Wikipedia(reply, limit),
         Yahoo(reply, limit)}
  BY DEF Execute, EngineKind
<1> QED
  BY <1>1, PageAdapters, AnswerAdapters

-----------------------------------------------------------------------------
(* What a search has collected is typed.                                      *)

Runs ==
  [since : Nat, outputs : Seq(Outputs), failures : SUBSET EngineKind, window : Nat \cup {None}]

SearchesTyped ==
  /\ run \in [Searches -> Runs]
  /\ \A s \in Searches : at[s] # "idle" => request[s].limit \in Nat

(* A search starts with nothing collected.                                    *)
LEMMA BlankType == Blank \in Runs
<1>1. <<>> \in Seq(Outputs)
  OBVIOUS
<1> QED
  BY <1>1 DEF Blank, Runs

(* Taking a result keeps what is collected typed.                             *)
LEMMA TakenType ==
  ASSUME NEW search \in Runs, NEW engine \in EngineKind, now \in Nat,
         NEW result, result.hits \in Seq(Hits)
  PROVE  Taken(search, engine, result) \in Runs
<1>1. CASE result.error # "none"
  BY <1>1 DEF Taken, Runs
<1>2. CASE result.error = "none"
  <2>1. Append(search.outputs, [engine |-> engine, hits |-> result.hits]) \in Seq(Outputs)
    <3>1. [engine |-> engine, hits |-> result.hits] \in Outputs
      BY DEF Outputs
    <3>2. search.outputs \in Seq(Outputs)
      BY DEF Runs
    <3> QED
      BY <3>1, <3>2
  <2>2. now + CollectionWindow \in Nat
    BY MetaSearchAssumption
  <2> QED
    BY <1>2, <2>1, <2>2 DEF Taken, Runs
<1> QED
  BY <1>1, <1>2

(* No search has collected anything at first.                                 *)
LEMMA SearchesTypedInit == Init => SearchesTyped
BY BlankType DEF Init, SearchesTyped

(* Every step keeps what is collected typed.                                  *)
LEMMA SearchesTypedStep == TypeOK /\ SearchesTyped /\ [Next]_vars => SearchesTyped'
<1> SUFFICES ASSUME TypeOK, SearchesTyped, [Next]_vars PROVE SearchesTyped'
  OBVIOUS
<1>1. /\ now \in Nat /\ at \in [Searches -> {"idle", "queued", "asking", "merging"}]
      /\ Engines \subseteq EngineKind
  BY MetaSearchAssumption DEF TypeOK, Engines
<1>2. ASSUME UNCHANGED <<run, request, at>> PROVE SearchesTyped'
  BY <1>2 DEF SearchesTyped
<1>3. ASSUME NEW s \in Searches, Leave(s) PROVE SearchesTyped'
  BY <1>1, <1>3, BlankType DEF Leave, SearchesTyped
<1>4. ASSUME NEW s \in Searches, Submit(s) PROVE SearchesTyped'
  <2>1. [Blank EXCEPT !.since = now] \in Runs
    BY <1>1, BlankType DEF Runs
  <2>2. PICK asked : Valid(asked) /\ request' = [request EXCEPT ![s] = asked]
    BY <1>4 DEF Submit
  <2>3. asked.limit \in Nat
    BY <2>2, MetaSearchAssumption DEF Valid
  <2>4. run' = [run EXCEPT ![s] = [Blank EXCEPT !.since = now]] /\ at' = [at EXCEPT ![s] = "queued"]
    BY <1>4 DEF Submit
  <2>5. request \in [Searches -> Requests \cup {None}]
    BY DEF TypeOK
  <2> QED
    BY <1>1, <2>1, <2>2, <2>3, <2>4, <2>5 DEF SearchesTyped
<1>5. ASSUME NEW s \in Searches, Begin(s) PROVE SearchesTyped'
  <2>1. run' = [run EXCEPT ![s].since = now] /\ at[s] = "queued" /\ at' = [at EXCEPT ![s] = "asking"]
        /\ request' = request
    BY <1>5 DEF Begin, HasPermit
  <2>2. [run[s] EXCEPT !.since = now] \in Runs
    BY <1>1 DEF SearchesTyped, Runs
  <2> QED
    BY <1>1, <2>1, <2>2 DEF SearchesTyped
<1>6. ASSUME NEW s \in Searches, Collect(s) PROVE SearchesTyped'
  <2>4. PICK engine \in pending[s] : \E reply \in Replies[engine] :
          /\ run' = [run EXCEPT ![s] = Taken(run[s], engine, Execute(engine, reply, request[s].limit))]
          /\ at[s] = "asking" /\ at' \in {[at EXCEPT ![s] = "asking"], [at EXCEPT ![s] = "merging"]}
          /\ request' = request
    BY <1>6 DEF Collect
  <2>1. PICK reply \in Replies[engine] :
          /\ run' = [run EXCEPT ![s] = Taken(run[s], engine, Execute(engine, reply, request[s].limit))]
          /\ at[s] = "asking" /\ at' \in {[at EXCEPT ![s] = "asking"], [at EXCEPT ![s] = "merging"]}
          /\ request' = request
    BY <2>4
  <2>2. engine \in EngineKind /\ reply \in SiteAnswers /\ request[s].limit \in Nat
    BY <1>1, <2>1, MetaSearchAssumption DEF TypeOK, SearchesTyped
  <2>3. Taken(run[s], engine, Execute(engine, reply, request[s].limit)) \in Runs
    BY <1>1, <2>2, ExecuteType, TakenType DEF SearchesTyped
  <2> QED
    BY <1>1, <2>1, <2>3 DEF SearchesTyped
<1>7. ASSUME NEW s \in Searches, Break(s) PROVE SearchesTyped'
  BY <1>1, <1>7 DEF Break, SearchesTyped
<1>8. ASSUME NEW s \in Searches, Work(s) PROVE SearchesTyped'
  BY <1>3, <1>5, <1>7, <1>8 DEF Work, GiveUp, AnswerCached, Unavailable
<1>9. ASSUME NEW s \in Searches, Finish(s) \/ Abandon(s) PROVE SearchesTyped'
  BY <1>3, <1>9 DEF Finish, Abandon
<1>10. CASE Tick
  BY <1>2, <1>10 DEF Tick
<1>11. CASE UNCHANGED vars
  BY <1>2, <1>11 DEF vars
<1> QED
  BY <1>4, <1>6, <1>8, <1>9, <1>10, <1>11 DEF Next

(* When what was collected is typed, every list that may come of it is the    *)
(* faithful one.                                                              *)
LEMMA TypedMergesFaithful == SearchesTyped => MergeFaithful
<1> SUFFICES ASSUME SearchesTyped, NEW s \in Searches, at[s] = "merging",
                    NEW list \in Aggregate(run[s].outputs, request[s].limit)
             PROVE  RanksAll(list, run[s].outputs, request[s].limit)
  BY DEF MergeFaithful
<1>1. run[s].outputs \in Seq(Outputs) /\ request[s].limit \in Nat
  BY DEF SearchesTyped, Runs
<1> QED
  BY <1>1, AggregateRanksAll

(* What a search collects is typed, whatever the sites answer.                *)
THEOREM SearchesAreTyped == Spec => []SearchesTyped
<1>1. TypeOK /\ SearchesTyped /\ [Next]_vars => SearchesTyped'
  BY SearchesTypedStep
<1> QED
  BY <1>1, SearchesTypedInit, MetaSearchTypes, PTL DEF Spec

(* Whatever order the results came in, every list that may be returned has    *)
(* the best pages of all outputs, once each, with all their sources, their    *)
(* whole score and the longest snippet (aggregate 426-481).                   *)
THEOREM MergesAreFaithful == Spec => []MergeFaithful
BY SearchesAreTyped, TypedMergesFaithful, PTL
=============================================================================
