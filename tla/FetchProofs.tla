----------------------------- MODULE FetchProofs -----------------------------
(* The resolver looks a host up once at a time, and fetches and proxied       *)
(* connections, which use it as it allows, reach public addresses only:       *)
(* proved for any number of them.                                             *)
EXTENDS Fetch, FiniteSetTheorems, TLAPS

-----------------------------------------------------------------------------
(* The resolver's inductive invariant.                                        *)

(* A call has a host from the cache on and a gate while it is in its hands.   *)
HeldByStage ==
  \A c \in Callers :
    /\ at[c] # "idle" => host[c] \in Hosts
    /\ at[c] \in R!Holding <=> gate[c] # None
    /\ at[c] \in {"store", "insert", "drop", "release"} => found[c] \in R!Addresses

(* A gate is registered for one host at most, which is the host of whoever    *)
(* holds it.                                                                  *)
GateOfOneHost ==
  /\ \A h, k \in Hosts : resolving[h] # None /\ resolving[h] = resolving[k] => h = k
  /\ \A c \in Callers, h \in Hosts : gate[c] # None /\ resolving[h] = gate[c] => h = host[c]

(* A gate's lock has one owner.                                               *)
OneOwner ==
  \A c, d \in Callers :
    at[c] \in R!Locked /\ at[d] \in R!Locked /\ gate[c] = gate[d] => c = d

ResolverInv == R!TypeOK /\ HeldByStage /\ R!HeldIsRegistered /\ GateOfOneHost /\ OneOwner

-----------------------------------------------------------------------------

(* Of a finite set with at most one member, a member is all.                  *)
LEMMA OneMember ==
  ASSUME NEW S, IsFiniteSet(S), NEW x \in S, Cardinality(S) <= 1
  PROVE  S = {x}
<1>1. IsFiniteSet(S \ {x}) /\ Cardinality(S \ {x}) = Cardinality(S) - 1
  BY FS_RemoveElement
<1>2. Cardinality(S) \in Nat /\ Cardinality(S \ {x}) \in Nat
  BY <1>1, FS_CardinalityType
<1>3. Cardinality(S \ {x}) = 0
  BY <1>1, <1>2
<1> QED
  BY <1>1, <1>3, FS_EmptySet

(* Resolver counts as everybody does.                                         *)
LEMMA SameCounting ==
  \A S : (R!IsFiniteSet(S) <=> IsFiniteSet(S)) /\ R!Cardinality(S) = Cardinality(S)
<1>1. \A S : R!IsFiniteSet(S) <=> IsFiniteSet(S)
  BY DEF R!IsFiniteSet, IsFiniteSet
<1>2. \A S : R!Cardinality(S) = Cardinality(S)
  BY DEF R!Cardinality, Cardinality
<1> QED
  BY <1>1, <1>2

LEMMA InitResolver == R!ResolverAssumption /\ R!Init => ResolverInv
BY DEF R!ResolverAssumption, R!Init, ResolverInv, R!TypeOK, HeldByStage, R!HeldIsRegistered, GateOfOneHost, OneOwner,
       R!Steps, R!Locked, R!Holding

(* A step of one call that neither takes nor lets go of gate and lock, and    *)
(* leaves the map of gates alone.                                             *)
LEMMA StayStep ==
  ASSUME ResolverInv, NEW c \in Callers,
         UNCHANGED <<resolving, gate>>, now' \in Nat,
         dnsCache' \in [Hosts -> R!CachedAddresses \cup {None}],
         NEW to \in R!Steps, at' = [at EXCEPT ![c] = to],
         NEW h \in Hosts \cup {None}, host' = [host EXCEPT ![c] = h],
         NEW a \in R!Addresses \cup {"error", None}, found' = [found EXCEPT ![c] = a],
         to # "idle" => h \in Hosts,
         at[c] \in R!Holding => h = host[c] /\ at[c] # "drop",
         to \in R!Holding <=> at[c] \in R!Holding,
         to \in R!Locked => at[c] \in R!Locked,
         to \in {"store", "insert", "drop", "release"} => a \in R!Addresses
  PROVE  ResolverInv'
<1> USE DEF ResolverInv
<1>1. R!TypeOK'
  BY DEF R!TypeOK
<1>2. \A d \in Callers : /\ at'[d] = IF d = c THEN to ELSE at[d]
                         /\ host'[d] = IF d = c THEN h ELSE host[d]
                         /\ found'[d] = IF d = c THEN a ELSE found[d]
  BY DEF R!TypeOK
<1>3. HeldByStage'
  BY <1>2 DEF HeldByStage
<1>4. R!HeldIsRegistered'
  BY <1>2 DEF R!HeldIsRegistered, HeldByStage, R!Holders
<1>5. GateOfOneHost'
  BY <1>2 DEF GateOfOneHost, HeldByStage
<1>6. OneOwner'
  BY <1>2 DEF OneOwner
<1> QED
  BY <1>1, <1>3, <1>4, <1>5, <1>6

(* A step by which a call lets go of what it holds.                           *)
LEMMA LetGoStep ==
  ASSUME ResolverInv, NEW c \in Callers,
         UNCHANGED <<dnsCache, resolving, now>>,
         gate' = [gate EXCEPT ![c] = None],
         NEW to \in {"idle", "done"}, at' = [at EXCEPT ![c] = to],
         NEW h \in Hosts \cup {None}, host' = [host EXCEPT ![c] = h],
         NEW a \in R!Addresses \cup {"error", None}, found' = [found EXCEPT ![c] = a],
         to # "idle" => h \in Hosts
  PROVE  ResolverInv'
<1> USE DEF ResolverInv
<1>1. R!TypeOK'
  BY DEF R!TypeOK, R!Steps
<1>2. \A d \in Callers : /\ at'[d] = IF d = c THEN to ELSE at[d]
                         /\ host'[d] = IF d = c THEN h ELSE host[d]
                         /\ found'[d] = IF d = c THEN a ELSE found[d]
                         /\ gate'[d] = IF d = c THEN None ELSE gate[d]
  BY DEF R!TypeOK
<1>3. HeldByStage'
  BY <1>2 DEF HeldByStage, R!Holding, R!Locked
<1>4. R!HeldIsRegistered'
  <2> SUFFICES ASSUME NEW d \in Callers, at'[d] \in R!Holding, resolving[host'[d]] # gate'[d]
               PROVE  at'[d] = "drop" /\ {e \in Callers : gate'[e] = gate'[d]} = {d}
    BY DEF R!HeldIsRegistered, R!Holders
  <2>1. d # c /\ gate'[d] = gate[d] /\ gate[d] # None
    BY <1>2 DEF HeldByStage, R!Holding, R!Locked
  <2>2. at[d] = "drop" /\ R!Holders(gate[d]) = {d}
    BY <1>2, <2>1 DEF R!HeldIsRegistered
  <2> QED
    BY <1>2, <2>1, <2>2 DEF R!Holders
<1>5. GateOfOneHost'
  BY <1>2 DEF GateOfOneHost
<1>6. OneOwner'
  BY <1>2 DEF OneOwner, R!Locked
<1> QED
  BY <1>1, <1>3, <1>4, <1>5, <1>6

(* A call takes the registered gate of its host, or registers a new one.      *)
LEMMA TakeGateStep ==
  ASSUME R!ResolverAssumption, ResolverInv, NEW c \in Callers, R!TakeGate(c)
  PROVE  ResolverInv'
<1> USE DEF ResolverInv
<1>1. /\ at[c] = "gate" /\ at' = [at EXCEPT ![c] = "lock"] /\ host[c] \in Hosts /\ gate[c] = None
      /\ UNCHANGED <<dnsCache, host, found, now>>
  BY DEF R!TakeGate, R!Go, HeldByStage, R!Holding, R!Locked
<1>2. PICK g \in Gates :
        /\ gate' = [gate EXCEPT ![c] = g]
        /\ \/ resolving[host[c]] = g /\ resolving' = resolving
           \/ /\ resolving[host[c]] = None /\ g \in R!Unused
              /\ resolving' = [resolving EXCEPT ![host[c]] = g]
  BY <1>1 DEF R!TakeGate, R!TypeOK, R!Unused
<1>3. g # None
  BY DEF R!ResolverAssumption
<1>4. /\ \A d \in Callers : /\ at'[d] = IF d = c THEN "lock" ELSE at[d]
                            /\ gate'[d] = IF d = c THEN g ELSE gate[d]
      /\ \A h \in Hosts : resolving'[h] = IF h = host[c] THEN g ELSE resolving[h]
  BY <1>1, <1>2 DEF R!TypeOK
<1>5. R!TypeOK'
  BY <1>1, <1>2 DEF R!TypeOK, R!Steps
<1>6. HeldByStage'
  BY <1>1, <1>3, <1>4 DEF HeldByStage, R!Holding, R!Locked
<1>7. R!HeldIsRegistered'
  <2> SUFFICES ASSUME NEW d \in Callers, at'[d] \in R!Holding, resolving'[host[d]] # gate'[d]
               PROVE  at'[d] = "drop" /\ {e \in Callers : gate'[e] = gate'[d]} = {d}
    BY <1>1 DEF R!HeldIsRegistered, R!Holders
  <2>1. d # c /\ at[d] \in R!Holding /\ gate[d] # None /\ host[d] \in Hosts
    BY <1>4, <1>1 DEF HeldByStage, R!Holding, R!Locked
  <2>2. resolving[host[d]] # gate[d]
    BY <1>2, <1>4, <2>1
  <2>3. at[d] = "drop" /\ R!Holders(gate[d]) = {d}
    BY <2>1, <2>2 DEF R!HeldIsRegistered
  <2>4. g # gate[d]
    BY <1>1, <1>2, <2>1, <2>2 DEF GateOfOneHost, R!Unused, R!Holders
  <2> QED
    BY <1>4, <2>1, <2>3, <2>4 DEF R!Holders
<1>8. GateOfOneHost'
  <2>1. ASSUME NEW h \in Hosts, NEW k \in Hosts, resolving'[h] # None, resolving'[h] = resolving'[k]
        PROVE  h = k
    BY <1>1, <1>2, <1>4, <2>1 DEF GateOfOneHost, R!Unused
  <2>2. ASSUME NEW d \in Callers, NEW h \in Hosts, gate'[d] # None, resolving'[h] = gate'[d]
        PROVE  h = host'[d]
    <3>1. CASE d = c
      BY <1>1, <1>2, <1>3, <1>4, <2>2, <3>1 DEF GateOfOneHost, R!Unused
    <3>2. CASE d # c
      BY <1>1, <1>2, <1>3, <1>4, <2>2, <3>2 DEF GateOfOneHost, R!Unused, R!Holders
    <3> QED
      BY <3>1, <3>2
  <2> QED
    BY <2>1, <2>2 DEF GateOfOneHost
<1>9. OneOwner'
  BY <1>1, <1>4 DEF OneOwner, R!Locked
<1> QED
  BY <1>5, <1>6, <1>7, <1>8, <1>9

(* A call takes the lock nobody has, and may let go of it at once.            *)
LEMMA LockStep ==
  ASSUME ResolverInv, NEW c \in Callers, R!Lock(c)
  PROVE  ResolverInv'
<1> USE DEF ResolverInv
<1>1. PICK to \in {"release", "lookup"}, a \in R!Addresses \cup {None} :
        /\ at' = [at EXCEPT ![c] = to] /\ found' = [found EXCEPT ![c] = a]
        /\ to = "release" => a \in R!Addresses
  <2>1. host[c] \in Hosts
    BY DEF R!Lock, R!Go, HeldByStage
  <2>2. CASE R!Fresh(host[c])
    BY <2>1, <2>2 DEF R!Lock, R!Go, R!Fresh, R!TypeOK, R!CachedAddresses
  <2>3. CASE ~R!Fresh(host[c])
    BY <2>3 DEF R!Lock, R!Go
  <2> QED
    BY <2>2, <2>3
<1>2. /\ at[c] = "lock" /\ R!Unlocked(gate[c]) /\ gate[c] # None
      /\ UNCHANGED <<dnsCache, resolving, host, gate, now>>
  BY DEF R!Lock, R!Go, HeldByStage, R!Holding
<1>3. \A d \in Callers : /\ at'[d] = IF d = c THEN to ELSE at[d]
                         /\ found'[d] = IF d = c THEN a ELSE found[d]
  BY <1>1 DEF R!TypeOK
<1>4. R!TypeOK'
  BY <1>1, <1>2 DEF R!TypeOK, R!Steps
<1>5. HeldByStage'
  BY <1>1, <1>2, <1>3 DEF HeldByStage, R!Holding, R!Locked
<1>6. R!HeldIsRegistered'
  BY <1>1, <1>2, <1>3 DEF R!HeldIsRegistered, R!Holders, R!Holding, R!Locked
<1>7. GateOfOneHost'
  BY <1>2 DEF GateOfOneHost
<1>8. OneOwner'
  BY <1>2, <1>3 DEF OneOwner, R!Unlocked, R!Holders
<1> QED
  BY <1>4, <1>5, <1>6, <1>7, <1>8

(* release_gate: who removes a gate is alone with it.                         *)
LEMMA ReleaseStep ==
  ASSUME R!ResolverAssumption, ResolverInv, NEW c \in Callers, R!Release(c)
  PROVE  ResolverInv'
<1> USE DEF ResolverInv
<1> DEFINE h == host[c]
<1>1. /\ at[c] = "release" /\ at' = [at EXCEPT ![c] = "drop"] /\ h \in Hosts /\ gate[c] # None
      /\ UNCHANGED <<dnsCache, host, gate, found, now>>
      /\ resolving[h] = gate[c]
  BY DEF R!Release, R!Go, HeldByStage, R!HeldIsRegistered, R!Holding
<1>2. \A d \in Callers : at'[d] = IF d = c THEN "drop" ELSE at[d]
  BY <1>1 DEF R!TypeOK
<1>3. CASE resolving' = resolving
  <2>1. R!TypeOK' /\ HeldByStage'
    BY <1>1, <1>2, <1>3 DEF R!TypeOK, HeldByStage, R!Steps, R!Holding, R!Locked
  <2>2. R!HeldIsRegistered'
    BY <1>1, <1>2, <1>3 DEF R!HeldIsRegistered, R!Holders, R!Holding
  <2>3. GateOfOneHost' /\ OneOwner'
    BY <1>1, <1>2, <1>3 DEF GateOfOneHost, OneOwner, R!Locked
  <2> QED
    BY <2>1, <2>2, <2>3
<1>4. CASE /\ R!StrongCount(resolving[h]) <= 2
           /\ resolving' = [resolving EXCEPT ![h] = None]
  <2>1. R!Holders(gate[c]) = {c}
    <3>1. IsFiniteSet(R!Holders(gate[c])) /\ c \in R!Holders(gate[c])
      BY FS_Subset, SameCounting DEF R!Holders, R!ResolverAssumption
    <3>2. Cardinality(R!Holders(gate[c])) <= 1
      BY <1>1, <1>4, <3>1, FS_CardinalityType, SameCounting DEF R!StrongCount
    <3> QED
      BY <3>1, <3>2, OneMember
  <2>2. \A k \in Hosts : resolving'[k] = IF k = h THEN None ELSE resolving[k]
    BY <1>4 DEF R!TypeOK
  <2>3. R!TypeOK' /\ HeldByStage'
    BY <1>1, <1>2, <1>4 DEF R!TypeOK, HeldByStage, R!Steps, R!Holding, R!Locked
  <2>4. R!HeldIsRegistered'
    <3> SUFFICES ASSUME NEW d \in Callers, at'[d] \in R!Holding, resolving'[host[d]] # gate[d]
                 PROVE  at'[d] = "drop" /\ R!Holders(gate[d]) = {d}
      BY <1>1 DEF R!HeldIsRegistered, R!Holders
    <3>1. CASE d = c
      BY <1>2, <2>1, <3>1
    <3>2. CASE d # c
      <4>1. at[d] \in R!Holding /\ host[d] \in Hosts
        BY <1>2, <3>2 DEF HeldByStage, R!Holding, R!Locked
      <4>2. gate[d] # gate[c]
        BY <2>1, <3>2 DEF R!Holders
      <4>3. resolving[host[d]] # gate[d]
        BY <1>1, <2>2, <4>1, <4>2
      <4> QED
        BY <1>2, <3>2, <4>1, <4>3 DEF R!HeldIsRegistered
    <3> QED
      BY <3>1, <3>2
  <2>5. GateOfOneHost'
    BY <1>1, <2>2 DEF GateOfOneHost
  <2>6. OneOwner'
    BY <1>1, <1>2 DEF OneOwner, R!Locked
  <2> QED
    BY <2>3, <2>4, <2>5, <2>6
<1> QED
  BY <1>1, <1>3, <1>4 DEF R!Release

-----------------------------------------------------------------------------

LEMMA ResolverStep == R!ResolverAssumption /\ ResolverInv /\ [R!Next]_(R!vars) => ResolverInv'
<1> SUFFICES ASSUME R!ResolverAssumption, ResolverInv, [R!Next]_(R!vars) PROVE ResolverInv'
  OBVIOUS
<1> USE DEF ResolverInv
<1>0. now \in Nat /\ DnsTtl \in Nat
  BY DEF R!TypeOK, R!ResolverAssumption
<1>1. CASE R!Tick
  BY <1>0, <1>1 DEF R!Tick, R!TypeOK, HeldByStage, R!HeldIsRegistered, GateOfOneHost, OneOwner, R!Holders
<1>2. ASSUME NEW c \in Callers, NEW h \in Hosts, R!Ask(c, h) PROVE ResolverInv'
  <2>1. PICK to \in {"done", "gate"}, a \in R!Addresses \cup {"error", None} :
          at' = [at EXCEPT ![c] = to] /\ found' = [found EXCEPT ![c] = a]
    BY <1>2 DEF R!Ask, R!Go, R!EnsurePublic, R!Addresses
  <2>2. at[c] = "idle" /\ UNCHANGED <<dnsCache, resolving, gate, now>> /\ host' = [host EXCEPT ![c] = h]
    BY <1>2 DEF R!Ask, R!Go
  <2> QED
    BY <1>0, <2>1, <2>2, StayStep DEF R!TypeOK, R!Steps, R!Holding, R!Locked
<1>3. ASSUME NEW c \in Callers, R!TakeGate(c) PROVE ResolverInv'
  BY <1>3, TakeGateStep
<1>4. ASSUME NEW c \in Callers, R!Lock(c) PROVE ResolverInv'
  BY <1>4, LockStep
<1>5. ASSUME NEW c \in Callers, R!Resolved(c) PROVE ResolverInv'
  <2>1. PICK a \in R!Addresses : found' = [found EXCEPT ![c] = a]
    BY <1>5 DEF R!Resolved
  <2>2. /\ at[c] = "lookup" /\ at' = [at EXCEPT ![c] = "store"]
        /\ UNCHANGED <<dnsCache, resolving, host, gate, now>>
    BY <1>5 DEF R!Resolved, R!Go
  <2>3. host[c] \in Hosts /\ host' = [host EXCEPT ![c] = host[c]]
    BY <2>2 DEF HeldByStage, R!TypeOK
  <2> QED
    BY <1>0, <2>1, <2>2, <2>3, StayStep DEF R!TypeOK, R!Steps, R!Holding, R!Locked
<1>6. ASSUME NEW c \in Callers, R!LookupFails(c) PROVE ResolverInv'
  <2>1. /\ at[c] = "lookup" /\ at' = [at EXCEPT ![c] = "done"]
        /\ found' = [found EXCEPT ![c] = "error"] /\ gate' = [gate EXCEPT ![c] = None]
        /\ UNCHANGED <<dnsCache, resolving, host, now>>
    BY <1>6 DEF R!LookupFails, R!Go
  <2>2. host[c] \in Hosts /\ host' = [host EXCEPT ![c] = host[c]]
    BY <2>1 DEF HeldByStage, R!TypeOK
  <2> QED
    BY <2>1, <2>2, LetGoStep
<1>7. ASSUME NEW c \in Callers, R!Store(c) PROVE ResolverInv'
  <2>1. PICK to \in {"release", "insert"} : at' = [at EXCEPT ![c] = to]
    BY <1>7 DEF R!Store, R!Go
  <2>2. at[c] = "store" /\ UNCHANGED <<resolving, host, gate, found, now>>
    BY <1>7 DEF R!Store, R!Go
  <2>3. /\ host[c] \in Hosts /\ host' = [host EXCEPT ![c] = host[c]]
        /\ found[c] \in R!Addresses /\ found' = [found EXCEPT ![c] = found[c]]
    BY <2>2 DEF HeldByStage, R!TypeOK
  <2>4. dnsCache' \in [Hosts -> R!CachedAddresses \cup {None}]
    BY <1>7 DEF R!Store, R!TypeOK
  <2> QED
    BY <1>0, <2>1, <2>2, <2>3, <2>4, StayStep DEF R!TypeOK, R!Steps, R!Holding, R!Locked
<1>8. ASSUME NEW c \in Callers, R!Insert(c) PROVE ResolverInv'
  <2>1. /\ at[c] = "insert" /\ at' = [at EXCEPT ![c] = "release"]
        /\ UNCHANGED <<resolving, host, gate, found, now>>
    BY <1>8 DEF R!Insert, R!Go
  <2>2. /\ host[c] \in Hosts /\ host' = [host EXCEPT ![c] = host[c]]
        /\ found[c] \in R!Addresses /\ found' = [found EXCEPT ![c] = found[c]]
    BY <2>1 DEF HeldByStage, R!TypeOK
  <2>3. dnsCache' \in [Hosts -> R!CachedAddresses \cup {None}]
    BY <1>0, <1>8, <2>2 DEF R!Insert, R!TypeOK, R!CachedAddresses
  <2> QED
    BY <1>0, <2>1, <2>2, <2>3, StayStep DEF R!TypeOK, R!Steps, R!Holding, R!Locked
<1>9. ASSUME NEW c \in Callers, R!Release(c) PROVE ResolverInv'
  BY <1>9, ReleaseStep
<1>10. ASSUME NEW c \in Callers, R!Drop(c) PROVE ResolverInv'
  <2>1. /\ at[c] = "drop" /\ at' = [at EXCEPT ![c] = "done"]
        /\ found' = [found EXCEPT ![c] = R!EnsurePublic(found[c])] /\ gate' = [gate EXCEPT ![c] = None]
        /\ UNCHANGED <<dnsCache, resolving, host, now>>
    BY <1>10 DEF R!Drop, R!Go
  <2>2. host[c] \in Hosts /\ host' = [host EXCEPT ![c] = host[c]]
    BY <2>1 DEF HeldByStage, R!TypeOK
  <2>3. R!EnsurePublic(found[c]) \in R!Addresses \cup {"error", None}
    BY DEF R!EnsurePublic, R!Addresses
  <2> QED
    BY <2>1, <2>2, <2>3, LetGoStep
<1>11. ASSUME NEW c \in Callers, R!Leave(c) PROVE ResolverInv'
  BY <1>11, LetGoStep DEF R!Leave
<1>12. ASSUME NEW c \in Callers, R!Return(c) PROVE ResolverInv'
  <2>1. /\ at[c] = "done" /\ at' = [at EXCEPT ![c] = "idle"]
        /\ host' = [host EXCEPT ![c] = None] /\ found' = [found EXCEPT ![c] = None]
        /\ UNCHANGED <<dnsCache, resolving, gate, now>>
    BY <1>12 DEF R!Return, R!Go
  <2> QED
    BY <1>0, <2>1, StayStep DEF R!TypeOK, R!Steps, R!Holding, R!Locked
<1>13. CASE UNCHANGED R!vars
  BY <1>13 DEF R!vars, R!TypeOK, HeldByStage, R!HeldIsRegistered, GateOfOneHost, OneOwner, R!Holders
<1> QED
  BY <1>1, <1>2, <1>3, <1>4, <1>5, <1>6, <1>7, <1>8, <1>9, <1>10, <1>11, <1>12, <1>13 DEF R!Next, R!Work

LEMMA InvGivesOneLookup == ResolverInv => R!OneLookup
BY DEF ResolverInv, R!OneLookup, HeldByStage, R!HeldIsRegistered, OneOwner, R!Holding, R!Locked

-----------------------------------------------------------------------------
(* Where the addresses of a request come from: an answer was checked before   *)
(* the call returned it, and nothing else is kept.                            *)
AnswersChecked == \A c \in Callers : at[c] = "done" => found[c] \in {"public", "error"}
RequestsChecked ==
  \A c \in Callers : request[c].stage \in {"send", "reply", "streaming"} => request[c].reached = "public"
PoolChecked == \A h \in Hosts : pool[h] \in {None, "public"}

FetchInv ==
  /\ ResolverInv
  /\ request \in [Callers -> RequestRecords]
  /\ pool \in [Hosts -> R!Addresses \cup {None}]
  /\ untidy \subseteq Hosts
  /\ AnswersChecked /\ RequestsChecked /\ PoolChecked

LEMMA InitFetch == Init => FetchInv
<1> SUFFICES ASSUME Init PROVE FetchInv
  OBVIOUS
<1>1. ResolverInv
  BY NamesAssumption, InitResolver DEF Init
<1>2. request \in [Callers -> RequestRecords]
  BY FetchAssumption DEF Init, Out, RequestRecords
<1> QED
  BY <1>1, <1>2 DEF Init, FetchInv, Out, AnswersChecked, RequestsChecked, PoolChecked, R!Init

(* What a call, a new call and the clock do are steps of the resolver.        *)
LEMMA ResolverMoves ==
  /\ (\E c \in Callers : R!Work(c) \/ R!Leave(c) \/ R!Return(c)) => R!Next
  /\ (\E c \in Callers, h \in Hosts : R!Ask(c, h)) => R!Next
  /\ R!Tick => R!Next
BY DEF R!Next

(* Every step is one that the resolver knows, or leaves it alone.             *)
LEMMA ResolverKept ==
  ASSUME FetchInv,
         \/ R!Next
         \/ UNCHANGED resolverVars
  PROVE  ResolverInv'
BY NamesAssumption, ResolverStep DEF FetchInv, resolverVars, R!vars

(* A step of the resolver's checks what it returns.                           *)
LEMMA AnswersKept ==
  ASSUME FetchInv, NEW c \in Callers,
         \/ R!Work(c) \/ R!Leave(c) \/ R!Return(c)
         \/ \E h \in Hosts : R!Ask(c, h)
  PROVE  AnswersChecked'
<1>1. at \in [Callers -> R!Steps] /\ found \in [Callers -> R!Addresses \cup {"error", None}]
  BY DEF FetchInv, ResolverInv, R!TypeOK
<1>2. \A d \in Callers \ {c} : at'[d] = at[d] /\ found'[d] = found[d]
  BY <1>1 DEF R!Work, R!TakeGate, R!Lock, R!Resolved, R!LookupFails, R!Store, R!Insert, R!Release, R!Drop,
              R!Leave, R!Return, R!Ask, R!Go
<1>3. at'[c] = "done" => found'[c] \in {"public", "error"}
  <2>1. CASE \E h \in Hosts : R!Ask(c, h)
    <3>1. PICK h \in Hosts : R!Ask(c, h)
      BY <2>1
    <3>2. CASE R!Fresh(h)
      BY <1>1, <3>1, <3>2 DEF R!Ask, R!Go, R!EnsurePublic
    <3>3. CASE ~R!Fresh(h)
      BY <1>1, <3>1, <3>3 DEF R!Ask, R!Go
    <3> QED
      BY <3>2, <3>3
  <2>2. CASE R!TakeGate(c) \/ R!Store(c) \/ R!Insert(c) \/ R!Release(c)
    BY <1>1, <2>2 DEF R!TakeGate, R!Store, R!Insert, R!Release, R!Go
  <2>3. CASE R!Lock(c) \/ R!Resolved(c) \/ R!LookupFails(c)
    BY <1>1, <2>3 DEF R!Lock, R!Resolved, R!LookupFails, R!Go
  <2>4. CASE R!Drop(c)
    BY <1>1, <2>4 DEF R!Drop, R!EnsurePublic, R!Go
  <2>5. CASE R!Leave(c) \/ R!Return(c)
    BY <1>1, <2>5 DEF R!Leave, R!Return, R!Go
  <2> QED
    BY <2>1, <2>2, <2>3, <2>4, <2>5 DEF R!Work
<1> QED
  BY <1>2, <1>3 DEF AnswersChecked, FetchInv

(* A step that gives one request a new record.                                *)
LEMMA RequestStep ==
  ASSUME FetchInv, NEW c \in Callers, NEW record \in RequestRecords, Becomes(c, record),
         record.stage \in {"send", "reply", "streaming"} => record.reached = "public"
  PROVE  request' \in [Callers -> RequestRecords] /\ RequestsChecked'
BY DEF FetchInv, Becomes, RequestsChecked

Stages == {"out", "permit", "hop", "validating", "send", "connecting", "reply", "streaming", "ended"}

(* ... the record of an ended request, of one that goes on, or of one that    *)
(* has its addresses.                                                         *)
LEMMA EndsStep ==
  ASSUME FetchInv, NEW c \in Callers, Becomes(c, Ended)
  PROVE  request' \in [Callers -> RequestRecords] /\ RequestsChecked'
<1>1. 0 \in 0 .. MaxRedirects
  BY FetchAssumption
<1>2. Ended \in RequestRecords /\ Ended.stage = "ended"
  BY <1>1 DEF Ended, Out, RequestRecords
<1> QED
  BY <1>2, RequestStep

LEMMA GoesOnStep ==
  ASSUME FetchInv, NEW c \in Callers, NEW stage \in Stages, Goes(c, stage),
         stage \in {"send", "reply", "streaming"} => request[c].reached = "public"
  PROVE  request' \in [Callers -> RequestRecords] /\ RequestsChecked'
<1> DEFINE record == [request[c] EXCEPT !.stage = stage]
<1>1. record \in RequestRecords /\ record.stage = stage /\ record.reached = request[c].reached
  BY DEF FetchInv, RequestRecords, Stages
<1>2. Becomes(c, record)
  BY DEF Goes
<1> HIDE DEF record
<1> QED
  BY <1>1, <1>2, RequestStep

LEMMA ReachesStep ==
  ASSUME FetchInv, NEW c \in Callers, NEW stage \in Stages,
         Becomes(c, [request[c] EXCEPT !.stage = stage, !.reached = "public"])
  PROVE  request' \in [Callers -> RequestRecords] /\ RequestsChecked'
<1> DEFINE record == [request[c] EXCEPT !.stage = stage, !.reached = "public"]
<1>1. record \in RequestRecords /\ record.reached = "public"
  BY DEF FetchInv, RequestRecords, Stages, R!Addresses
<1>2. Becomes(c, record)
  OBVIOUS
<1> HIDE DEF record
<1> QED
  BY <1>1, <1>2, RequestStep

(* Steps that neither touch the resolver nor open or keep a connection.       *)
LEMMA QuietStep ==
  ASSUME FetchInv, UNCHANGED <<resolverVars, pool, untidy>>,
         request' \in [Callers -> RequestRecords] /\ RequestsChecked'
  PROVE  FetchInv'
<1>1. ResolverInv'
  BY ResolverKept
<1> QED
  BY <1>1 DEF FetchInv, resolverVars, AnswersChecked, PoolChecked

-----------------------------------------------------------------------------

LEMMA BeginStep ==
  ASSUME FetchInv, NEW c \in Callers, NEW u \in Urls, Begin(c, u)
  PROVE  FetchInv'
<1>1. PICK stage \in {"permit", "hop"} : Becomes(c, [Out EXCEPT !.stage = stage, !.url = u])
  BY DEF Begin
<1>2. [Out EXCEPT !.stage = stage, !.url = u] \in RequestRecords
  <2>1. 0 \in 0 .. MaxRedirects
    BY FetchAssumption
  <2> QED
    BY <2>1 DEF Out, RequestRecords
<1>3. [Out EXCEPT !.stage = stage, !.url = u].stage \in {"permit", "hop"}
  BY DEF Out
<1> QED
  BY <1>1, <1>2, <1>3, RequestStep, QuietStep DEF Begin

(* Waiting for a permit, connecting to what was validated and copying.        *)
LEMMA GoesStep ==
  ASSUME FetchInv, NEW c \in Callers, Permit(c) \/ ConnectPinned(c) \/ StreamEnds(c)
  PROVE  FetchInv'
<1>1. /\ UNCHANGED <<resolverVars, pool, untidy>>
      /\ \/ Goes(c, "hop")
         \/ Goes(c, "streaming") /\ request[c].stage = "send"
         \/ Becomes(c, Ended)
  BY DEF Permit, ConnectPinned, StreamEnds, At
<1>2. request[c].stage = "send" => request[c].reached = "public"
  BY DEF FetchInv, RequestsChecked
<1>3. request' \in [Callers -> RequestRecords] /\ RequestsChecked'
  <2>1. CASE Goes(c, "hop")
    BY <2>1, GoesOnStep DEF Stages
  <2>2. CASE Goes(c, "streaming") /\ request[c].stage = "send"
    BY <1>2, <2>2, GoesOnStep DEF Stages
  <2>3. CASE Becomes(c, Ended)
    BY <2>3, EndsStep
  <2> QED
    BY <1>1, <2>1, <2>2, <2>3
<1> QED
  BY <1>1, <1>3, QuietStep

LEMMA HopStep ==
  ASSUME FetchInv, NEW c \in Callers, Hop(c)
  PROVE  FetchInv'
<1>1. CASE Destination(c) \in Hosts /\ R!Ask(c, Destination(c)) /\ Goes(c, "validating")
  <2>1. ResolverInv' /\ AnswersChecked'
    BY <1>1, ResolverMoves, ResolverKept, AnswersKept
  <2>2. request' \in [Callers -> RequestRecords] /\ RequestsChecked'
    BY <1>1, GoesOnStep DEF Stages
  <2> QED
    BY <2>1, <2>2 DEF Hop, FetchInv, PoolChecked
<1>2. CASE Becomes(c, [request[c] EXCEPT !.stage = "send", !.reached = "public"]) /\ UNCHANGED resolverVars
  <2>1. request' \in [Callers -> RequestRecords] /\ RequestsChecked'
    BY <1>2, ReachesStep DEF Stages
  <2> QED
    BY <1>2, <2>1, QuietStep DEF Hop
<1>3. CASE Becomes(c, Ended) /\ UNCHANGED resolverVars
  <2>1. request' \in [Callers -> RequestRecords] /\ RequestsChecked'
    BY <1>3, EndsStep
  <2> QED
    BY <1>3, <2>1, QuietStep DEF Hop
<1> QED
  BY <1>1, <1>2, <1>3 DEF Hop

LEMMA ResolveStep ==
  ASSUME FetchInv, NEW c \in Callers, Resolve(c)
  PROVE  FetchInv'
<1>1. R!Work(c) /\ UNCHANGED <<request, pool>>
  BY DEF Resolve
<1>2. ResolverInv' /\ AnswersChecked'
  BY <1>1, ResolverMoves, ResolverKept, AnswersKept
<1>3. untidy' \subseteq Hosts
  <2>1. at[c] # "idle" /\ host[c] \in Hosts
    <3>1. at[c] # "idle"
      BY <1>1 DEF R!Work, R!TakeGate, R!Lock, R!Resolved, R!LookupFails, R!Store, R!Insert, R!Release,
                  R!Drop, R!Go
    <3> QED
      BY <3>1 DEF FetchInv, ResolverInv, HeldByStage
  <2> QED
    BY <2>1 DEF Resolve, FetchInv
<1> QED
  BY <1>1, <1>2, <1>3 DEF FetchInv, RequestsChecked, PoolChecked

(* The resolver's answer is taken: only public addresses go further.          *)
LEMMA ReturnStep ==
  ASSUME FetchInv, NEW c \in Callers, Validated(c) \/ Connected(c)
  PROVE  FetchInv'
<1>1. R!Return(c) /\ UNCHANGED <<pool, untidy>>
  BY DEF Validated, Connected
<1>2. ResolverInv' /\ AnswersChecked'
  BY <1>1, ResolverMoves, ResolverKept, AnswersKept
<1>3. found[c] \in {"public", "error"}
  BY <1>1 DEF R!Return, R!Go, FetchInv, AnswersChecked
<1>4. \/ Becomes(c, Ended)
      \/ \E stage \in {"send", "reply"} :
           Becomes(c, [request[c] EXCEPT !.stage = stage, !.reached = "public"])
  BY <1>3 DEF Validated, Connected
<1>5. request' \in [Callers -> RequestRecords] /\ RequestsChecked'
  BY <1>4, EndsStep, ReachesStep DEF Stages
<1> QED
  BY <1>1, <1>2, <1>5 DEF FetchInv, PoolChecked

LEMMA SendStep ==
  ASSUME FetchInv, NEW c \in Callers, Send(c)
  PROVE  FetchInv'
<1>1. request[c].stage = "send" /\ request[c].reached = "public" /\ UNCHANGED <<pool, untidy>>
  BY DEF Send, At, FetchInv, RequestsChecked
<1>2. CASE Goes(c, "reply") /\ UNCHANGED resolverVars
  <2>1. request' \in [Callers -> RequestRecords] /\ RequestsChecked'
    BY <1>1, <1>2, GoesOnStep DEF Stages
  <2> QED
    BY <1>1, <1>2, <2>1, QuietStep
<1>3. CASE /\ Destination(c) \in Hosts /\ pool[Destination(c)] # None
           /\ Becomes(c, [request[c] EXCEPT !.stage = "reply", !.reached = pool[Destination(c)]])
           /\ UNCHANGED resolverVars
  <2>1. pool[Destination(c)] = "public"
    BY <1>3 DEF FetchInv, PoolChecked
  <2> QED
    BY <1>1, <1>3, <2>1, ReachesStep, QuietStep DEF Stages
<1>4. CASE Destination(c) \in Hosts /\ R!Ask(c, Destination(c)) /\ Goes(c, "connecting")
  <2>1. ResolverInv' /\ AnswersChecked'
    BY <1>4, ResolverMoves, ResolverKept, AnswersKept
  <2>2. request' \in [Callers -> RequestRecords] /\ RequestsChecked'
    BY <1>4, GoesOnStep DEF Stages
  <2> QED
    BY <1>1, <2>1, <2>2 DEF FetchInv, PoolChecked
<1> QED
  BY <1>2, <1>3, <1>4 DEF Send

LEMMA ReplyStep ==
  ASSUME FetchInv, NEW c \in Callers, Reply(c)
  PROVE  FetchInv'
<1>1. request[c].stage = "reply" /\ request[c].reached = "public" /\ UNCHANGED <<resolverVars, untidy>>
  BY DEF Reply, At, FetchInv, RequestsChecked
<1>2. request' \in [Callers -> RequestRecords] /\ RequestsChecked'
  <2>1. CASE Becomes(c, Ended)
    BY <2>1, EndsStep
  <2>2. CASE request[c].redirects < MaxRedirects /\ \E u \in Urls :
               Becomes(c, [request[c] EXCEPT !.stage = "hop", !.url = u, !.redirects = @ + 1,
                                             !.reached = None])
    <3>1. PICK u \in Urls : Becomes(c, [request[c] EXCEPT !.stage = "hop", !.url = u, !.redirects = @ + 1,
                                                          !.reached = None])
      BY <2>2
    <3>2. request[c].redirects + 1 \in 0 .. MaxRedirects
      BY <2>2, FetchAssumption DEF FetchInv, RequestRecords
    <3>3. [request[c] EXCEPT !.stage = "hop", !.url = u, !.redirects = @ + 1, !.reached = None]
            \in RequestRecords
      BY <3>2 DEF FetchInv, RequestRecords
    <3> QED
      BY <3>1, <3>3, RequestStep DEF FetchInv, RequestRecords
  <2> QED
    BY <2>1, <2>2 DEF Reply
<1>3. pool' \in [Hosts -> R!Addresses \cup {None}] /\ PoolChecked'
  BY <1>1 DEF Reply, FetchInv, PoolChecked, R!Addresses
<1>4. ResolverInv'
  BY <1>1, ResolverKept
<1> QED
  BY <1>1, <1>2, <1>3, <1>4 DEF FetchInv, resolverVars, AnswersChecked

LEMMA QuitStep ==
  ASSUME FetchInv, NEW c \in Callers, Quit(c)
  PROVE  FetchInv'
<1>1. pool' = pool /\ request' \in [Callers -> RequestRecords] /\ RequestsChecked'
  BY EndsStep DEF Quit
<1>2. CASE UNCHANGED <<resolverVars, untidy>>
  BY <1>1, <1>2, QuietStep
<1>3. CASE R!Leave(c) /\ untidy' = untidy \cup {host[c]}
  <2>1. ResolverInv' /\ AnswersChecked'
    BY <1>3, ResolverMoves, ResolverKept, AnswersKept
  <2>2. host[c] \in Hosts
    BY <1>3 DEF R!Leave, FetchInv, ResolverInv, HeldByStage
  <2> QED
    BY <1>1, <1>3, <2>1, <2>2 DEF FetchInv, PoolChecked
<1> QED
  BY <1>2, <1>3 DEF Quit

-----------------------------------------------------------------------------
(* The gates.                                                                 *)

(* A registered gate is held by a call that has yet to look whether it is the *)
(* last, unless its host is one whose gate was left behind.                   *)
GatesWatched ==
  \A h \in Hosts \ untidy :
    resolving[h] # None => \E c \in Callers : gate[c] = resolving[h] /\ at[c] # "drop"

(* A step of one call: it leaves the gates of other hosts registered as they  *)
(* are and held by whom they are held.                                        *)
LEMMA WatchedStep ==
  ASSUME FetchInv, GatesWatched, NEW c \in Callers,
         \A d \in Callers \ {c} : at'[d] = at[d] /\ gate'[d] = gate[d],
         \A h \in Hosts : h # host[c] \/ at[c] \notin R!Holding \cup {"gate"}
           => resolving'[h] = resolving[h],
         untidy \subseteq untidy',
         host[c] \in Hosts \ untidy' /\ resolving'[host[c]] # None /\ at[c] \in R!Holding \cup {"gate"}
           => \E d \in Callers : gate'[d] = resolving'[host[c]] /\ at'[d] # "drop"
  PROVE  GatesWatched'
<1> SUFFICES ASSUME NEW h \in Hosts \ untidy', resolving'[h] # None
             PROVE  \E d \in Callers : gate'[d] = resolving'[h] /\ at'[d] # "drop"
  BY DEF GatesWatched
<1>1. CASE h = host[c] /\ at[c] \in R!Holding \cup {"gate"}
  BY <1>1
<1>2. CASE ~(h = host[c] /\ at[c] \in R!Holding \cup {"gate"})
  <2>1. resolving'[h] = resolving[h]
    BY <1>2
  <2>2. PICK d \in Callers : gate[d] = resolving[h] /\ at[d] # "drop"
    BY <2>1 DEF GatesWatched
  <2>3. d # c
    BY <1>2, <2>1, <2>2 DEF FetchInv, ResolverInv, GateOfOneHost, HeldByStage,
         R!Holding, R!Locked
  <2> QED
    BY <2>1, <2>2, <2>3
<1> QED
  BY <1>1, <1>2

(* Calls that do not touch the map of gates: those that ask and those that    *)
(* take their answer hold none, and one that leaves, or whose lookup failed,  *)
(* has its host in the history.                                               *)
LEMMA WatchedElsewhere ==
  ASSUME FetchInv, GatesWatched, NEW c \in Callers,
         \/ \E h \in Hosts : R!Ask(c, h)
         \/ R!Return(c)
         \/ R!Leave(c) /\ host[c] \in untidy'
         \/ R!LookupFails(c) /\ host[c] \in untidy',
         untidy \subseteq untidy'
  PROVE  GatesWatched'
<1>1. resolving' = resolving /\ \A d \in Callers \ {c} : at'[d] = at[d] /\ gate'[d] = gate[d]
  BY DEF FetchInv, ResolverInv, R!TypeOK, R!Ask, R!Return, R!Leave, R!LookupFails, R!Go
<1>2. at[c] \notin R!Holding \cup {"gate"} \/ host[c] \in untidy'
  BY DEF R!Ask, R!Return, R!Go, R!Holding, R!Locked
<1> QED
  BY <1>1, <1>2, WatchedStep

(* A holder that goes on and is not done with release_gate keeps watching.    *)
LEMMA WatchedOn ==
  ASSUME FetchInv, GatesWatched, NEW c \in Callers,
         R!Lock(c) \/ R!Resolved(c) \/ R!Store(c) \/ R!Insert(c),
         untidy \subseteq untidy'
  PROVE  GatesWatched'
<1>1. /\ resolving' = resolving /\ gate' = gate
      /\ \A d \in Callers \ {c} : at'[d] = at[d]
      /\ at[c] \in R!Holding \ {"drop"} /\ at'[c] # "drop"
  BY DEF FetchInv, ResolverInv, R!TypeOK, R!Lock, R!Resolved, R!Store, R!Insert, R!Go, R!Holding, R!Locked
<1>2. gate[c] = resolving[host[c]]
  BY <1>1 DEF FetchInv, ResolverInv, R!HeldIsRegistered
<1> QED
  BY <1>1, <1>2, WatchedStep

LEMMA WatchedByTaker ==
  ASSUME FetchInv, GatesWatched, NEW c \in Callers, R!TakeGate(c), untidy \subseteq untidy'
  PROVE  GatesWatched'
<1>1. host[c] \in Hosts /\ at[c] = "gate" /\ at'[c] = "lock"
  BY DEF FetchInv, ResolverInv, R!TypeOK, HeldByStage, R!TakeGate, R!Go
<1>2. \A d \in Callers \ {c} : at'[d] = at[d] /\ gate'[d] = gate[d]
  BY DEF FetchInv, ResolverInv, R!TypeOK, R!TakeGate, R!Go
<1>3. gate'[c] = resolving'[host[c]] /\ \A h \in Hosts \ {host[c]} : resolving'[h] = resolving[h]
  BY <1>1 DEF FetchInv, ResolverInv, R!TypeOK, R!TakeGate
<1> QED
  BY <1>1, <1>2, <1>3, WatchedStep

(* Whoever looks, and leaves the gate, has seen another holder: one that has  *)
(* yet to look, or one that is done, and then the gate is left behind.        *)
LEMMA WatchedByOther ==
  ASSUME FetchInv, GatesWatched, NEW c \in Callers, R!Release(c), untidy \subseteq untidy',
         (\E d \in R!Holders(gate[c]) : at[d] = "drop") => host[c] \in untidy'
  PROVE  GatesWatched'
<1>1. /\ host[c] \in Hosts /\ at[c] = "release" /\ gate[c] = resolving[host[c]] /\ gate[c] # None
      /\ at'[c] = "drop" /\ gate' = gate
      /\ \A d \in Callers \ {c} : at'[d] = at[d]
  BY DEF FetchInv, ResolverInv, R!TypeOK, HeldByStage, R!HeldIsRegistered, R!Holding, R!Release, R!Go
<1>2. \A h \in Hosts \ {host[c]} : resolving'[h] = resolving[h]
  BY <1>1 DEF R!Release, FetchInv, ResolverInv, R!TypeOK
<1>3. ASSUME host[c] \notin untidy', resolving'[host[c]] # None
      PROVE  \E d \in Callers : gate'[d] = resolving'[host[c]] /\ at'[d] # "drop"
  <2>1. resolving' = resolving /\ ~(R!StrongCount(gate[c]) <= 2)
    BY <1>1, <1>3 DEF R!Release, FetchInv, ResolverInv, R!TypeOK
  <2>2. PICK d \in R!Holders(gate[c]) : d # c
    <3> SUFFICES ASSUME R!Holders(gate[c]) \subseteq {c} PROVE FALSE
      OBVIOUS
    <3>1. R!Holders(gate[c]) = {c}
      BY DEF R!Holders
    <3>2. R!Cardinality({c}) = 1
      BY FS_Singleton, SameCounting
    <3>3. R!StrongCount(gate[c]) = 2
      BY <3>1, <3>2 DEF R!StrongCount
    <3> QED
      BY <2>1, <3>3
  <2> QED
    BY <1>1, <1>3, <2>1, <2>2 DEF R!Holders
<1> QED
  BY <1>1, <1>2, <1>3, WatchedStep DEF R!Holding

(* The one that returns is not who watches.                                   *)
LEMMA WatchedStill ==
  ASSUME FetchInv, GatesWatched, NEW c \in Callers, R!Drop(c), untidy \subseteq untidy'
  PROVE  GatesWatched'
<1>1. /\ at[c] = "drop" /\ resolving' = resolving
      /\ \A d \in Callers \ {c} : at'[d] = at[d] /\ gate'[d] = gate[d]
  BY DEF FetchInv, ResolverInv, R!TypeOK, R!Drop, R!Go
<1> QED
  BY <1>1 DEF GatesWatched

LEMMA GatesStep == FetchInv /\ GatesWatched /\ [Next]_vars => GatesWatched'
<1> SUFFICES ASSUME FetchInv, GatesWatched, [Next]_vars PROVE GatesWatched'
  OBVIOUS
<1>1. CASE UNCHANGED <<resolving, at, gate, untidy>>
  BY <1>1 DEF GatesWatched
<1>2. ASSUME NEW c \in Callers, NEW h \in Hosts, R!Ask(c, h), UNCHANGED untidy PROVE GatesWatched'
  BY <1>2, WatchedElsewhere
<1>3. ASSUME NEW c \in Callers, R!Return(c), UNCHANGED untidy PROVE GatesWatched'
  BY <1>3, WatchedElsewhere
<1>4. ASSUME NEW c \in Callers, Resolve(c) PROVE GatesWatched'
  <2>1. untidy \subseteq untidy' /\ R!Work(c)
    BY <1>4 DEF Resolve
  <2>2. R!LookupFails(c) => host[c] \in untidy'
    BY <1>4 DEF Resolve, R!LookupFails, R!Go, FetchInv, ResolverInv, R!TypeOK
  <2>3. R!Release(c) /\ (\E d \in R!Holders(gate[c]) : at[d] = "drop") => host[c] \in untidy'
    BY <1>4 DEF Resolve, R!Release, R!Go
  <2> QED
    BY <2>1, <2>2, <2>3, WatchedElsewhere, WatchedOn, WatchedByTaker, WatchedByOther, WatchedStill DEF R!Work
<1>5. ASSUME NEW c \in Callers, Quit(c) PROVE GatesWatched'
  <2>1. CASE UNCHANGED <<resolverVars, untidy>>
    BY <1>1, <2>1 DEF resolverVars
  <2>2. CASE R!Leave(c) /\ untidy' = untidy \cup {host[c]}
    BY <2>2, WatchedElsewhere
  <2> QED
    BY <1>5, <2>1, <2>2 DEF Quit
<1>6. ASSUME NEW c \in Callers, Work(c) PROVE GatesWatched'
  BY <1>1, <1>2, <1>3, <1>4, <1>6
     DEF Work, Permit, Hop, Validated, Send, Connected, Reply, ConnectPinned, StreamEnds, resolverVars
<1>7. CASE Tick \/ UNCHANGED vars
  BY <1>1, <1>7 DEF Tick, R!Tick, vars, resolverVars
<1>8. ASSUME NEW c \in Callers, NEW u \in Urls, Begin(c, u) PROVE GatesWatched'
  BY <1>1, <1>8 DEF Begin, resolverVars
<1> QED
  BY <1>5, <1>6, <1>7, <1>8 DEF Next

-----------------------------------------------------------------------------
(* The theorems.                                                              *)

LEMMA FetchStep == FetchInv /\ [Next]_vars => FetchInv'
<1> SUFFICES ASSUME FetchInv, [Next]_vars PROVE FetchInv'
  OBVIOUS
<1>1. CASE Tick
  <2>1. ResolverInv'
    BY <1>1, ResolverMoves, ResolverKept DEF Tick
  <2> QED
    BY <1>1, <2>1 DEF Tick, R!Tick, FetchInv, AnswersChecked, RequestsChecked, PoolChecked
<1>2. ASSUME NEW c \in Callers, NEW u \in Urls, Begin(c, u) PROVE FetchInv'
  BY <1>2, BeginStep
<1>3. ASSUME NEW c \in Callers, Work(c) PROVE FetchInv'
  BY <1>3, GoesStep, HopStep, ResolveStep, ReturnStep, SendStep, ReplyStep DEF Work
<1>4. ASSUME NEW c \in Callers, Quit(c) PROVE FetchInv'
  BY <1>4, QuitStep
<1>5. CASE UNCHANGED vars
  BY <1>5, QuietStep DEF vars, FetchInv, RequestsChecked
<1> QED
  BY <1>1, <1>2, <1>3, <1>4, <1>5 DEF Next

LEMMA SpecKeepsFetchInv == Spec => []FetchInv
BY InitFetch, FetchStep, PTL DEF Spec

(* Requests, connections and the resolver's state have their shapes.          *)
THEOREM FetchTypes == Spec => []TypeOK
<1>1. FetchInv => TypeOK
  BY DEF FetchInv, ResolverInv, TypeOK
<1> QED
  BY <1>1, SpecKeepsFetchInv, PTL

(* Whatever fetches and proxied connections do, and wherever they are         *)
(* dropped, no two lookups of one host are under way.                         *)
THEOREM FetchesShareLookups == Spec => []OneLookup
<1>1. FetchInv => OneLookup
  BY InvGivesOneLookup DEF FetchInv, OneLookup
<1> QED
  BY <1>1, SpecKeepsFetchInv, PTL

(* Every connection there is, fetched, proxied or idle, goes to addresses     *)
(* that were found public, however often a name is resolved and whatever it   *)
(* then stands for (resolve_public_ips, PinnedResolver, connect_pinned).      *)
THEOREM PublicAddressesOnly == Spec => []OnlyPublicReached
<1>1. FetchInv => OnlyPublicReached
  BY DEF FetchInv, RequestsChecked, PoolChecked, OnlyPublicReached
<1> QED
  BY <1>1, SpecKeepsFetchInv, PTL

(* "Drop the entry only when this caller holds the last reference"            *)
(* (release_gate): for any number of calls, gates stay behind after failed    *)
(* lookups, dropped calls and two that let go together, and never otherwise.  *)
THEOREM GatesLetGo == Spec => []GatesReleased
<1>1. Init => GatesWatched
  BY DEF Init, R!Init, GatesWatched
<1>2. GatesWatched => GatesReleased
  BY DEF GatesWatched, GatesReleased, R!Holders
<1> QED
  BY <1>1, <1>2, GatesStep, SpecKeepsFetchInv, PTL DEF Spec
=============================================================================
