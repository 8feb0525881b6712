------------------------------ MODULE Resolver ------------------------------
(* Name resolution in scorch-engine/src/security.rs: the address cache and    *)
(* the gate per host of SecurityPolicy, under the concurrent calls of         *)
(* resolve_public_ips that the fetcher, its connector and the browser's       *)
(* proxy make.                                                                *)
(*                                                                            *)
(* A gate is the identity of an Arc<Mutex<()>>: it may be used again once     *)
(* neither the map nor a call refers to it, so its strong count is one for    *)
(* the map and one for each call that holds it.                               *)
EXTENDS Integers, FiniteSets

CONSTANTS
  Callers,        \* concurrent calls of resolve_public_ips
  Hosts,          \* host names
  Gates,          \* identities of Arc<Mutex<()>>
  DnsTtl,         \* DNS_CACHE_TTL
  DnsCapacity,    \* DNS_CACHE_CAPACITY
  MaxTime,        \* bound: ticks of the clock
  None

(* What a name stands for: addresses that are all public, addresses of which *)
(* one is not, or none.                                                      *)
Addresses == {"public", "private", "none"}

(* What a module that uses this one assumes of the constants.                *)
ResolverAssumption ==
  /\ IsFiniteSet(Callers)
  /\ {DnsTtl, DnsCapacity, MaxTime} \subseteq Nat
  /\ None \notin Hosts \cup Gates \cup Addresses \cup {"error"}

(* How far a call is:                                                        *)
(*   gate     it missed the cache                                            *)
(*   lock     it holds the gate's Arc and waits for the lock                 *)
(*   lookup   it holds the lock and waits for the system's resolver          *)
(*   store    it has addresses, and looks whether the cache has room         *)
(*   insert   ... and is to insert them                                      *)
(*   release  it let go of the lock, and holds the Arc                       *)
(*   drop     release_gate is done; the Arc goes when the call returns       *)
(*   done     it returned its answer                                         *)
Steps == {"idle", "gate", "lock", "lookup", "store", "insert", "release", "drop", "done"}
Locked == {"lookup", "store", "insert"}
Holding == {"lock", "release", "drop"} \cup Locked

VARIABLES
  dnsCache,    \* SecurityPolicy.dns_cache
  resolving,   \* SecurityPolicy.resolving: the gate registered for a host
  at,          \* how far each call is
  host,        \* the host it asks for
  gate,        \* the Arc it holds
  found,       \* the addresses it has, and what it returns
  now

vars == <<dnsCache, resolving, at, host, gate, found, now>>

CachedAddresses == [addresses : Addresses, expires : Nat]

TypeOK ==
  /\ dnsCache \in [Hosts -> CachedAddresses \cup {None}]
  /\ resolving \in [Hosts -> Gates \cup {None}]
  /\ at \in [Callers -> Steps]
  /\ host \in [Callers -> Hosts \cup {None}]
  /\ gate \in [Callers -> Gates \cup {None}]
  /\ found \in [Callers -> Addresses \cup {"error", None}]
  /\ now \in Nat

Init ==
  /\ dnsCache = [h \in Hosts |-> None]
  /\ resolving = [h \in Hosts |-> None]
  /\ at = [c \in Callers |-> "idle"]
  /\ host = [c \in Callers |-> None]
  /\ gate = [c \in Callers |-> None]
  /\ found = [c \in Callers |-> None]
  /\ now = 0

Holders(g) == {c \in Callers : gate[c] = g}
Cached == {h \in Hosts : dnsCache[h] # None}
Unused == {g \in Gates : Holders(g) = {} /\ \A h \in Hosts : resolving[h] # g}

(* cached_addresses                                                          *)
Fresh(h) == dnsCache[h] # None /\ now < dnsCache[h].expires

(* ensure_public, on what the cache or the lookup gave.                      *)
EnsurePublic(addresses) == IF addresses = "public" THEN "public" ELSE "error"

Go(c, from, to) == at[c] = from /\ at' = [at EXCEPT ![c] = to]

-----------------------------------------------------------------------------

AskUnchecked(c, h) ==
  /\ Go(c, "idle", IF Fresh(h) THEN "done" ELSE "gate")
  /\ host' = [host EXCEPT ![c] = h]
  /\ found' = [found EXCEPT ![c] = IF Fresh(h) THEN dnsCache[h].addresses ELSE None]
  /\ UNCHANGED <<dnsCache, resolving, gate, now>>

(* The cache answers, or the call goes for the gate.                         *)
Ask(c, h) ==
  /\ Go(c, "idle", IF Fresh(h) THEN "done" ELSE "gate")
  /\ host' = [host EXCEPT ![c] = h]
  /\ found' = [found EXCEPT ![c] = IF Fresh(h) THEN EnsurePublic(dnsCache[h].addresses) ELSE None]
  /\ UNCHANGED <<dnsCache, resolving, gate, now>>

(* resolve_gate: the registered gate, or a new one.                          *)
TakeGate(c) ==
  LET h == host[c] IN
    /\ Go(c, "gate", "lock")
    /\ IF resolving[h] # None
       THEN gate' = [gate EXCEPT ![c] = resolving[h]] /\ UNCHANGED resolving
       ELSE \E g \in Unused :
              /\ resolving' = [resolving EXCEPT ![h] = g]
              /\ gate' = [gate EXCEPT ![c] = g]
    /\ UNCHANGED <<dnsCache, host, found, now>>

Unlocked(g) == \A d \in Holders(g) : at[d] \notin Locked

(* The lock is taken and the cache looked at again: another call may have    *)
(* resolved the host while this one waited.                                  *)
Lock(c) ==
  LET h == host[c] IN
    /\ Go(c, "lock", IF Fresh(h) THEN "release" ELSE "lookup")
    /\ Unlocked(gate[c])
    /\ found' = [found EXCEPT ![c] = IF Fresh(h) THEN dnsCache[h].addresses ELSE None]
    /\ UNCHANGED <<dnsCache, resolving, host, gate, now>>

(* The system's resolver answers.                                            *)
Resolved(c) ==
  /\ Go(c, "lookup", "store")
  /\ \E addresses \in Addresses : found' = [found EXCEPT ![c] = addresses]
  /\ UNCHANGED <<dnsCache, resolving, host, gate, now>>

(* It fails or takes five seconds: the error leaves the function at once,    *)
(* with lock and Arc and without release_gate.                               *)
LookupFails(c) ==
  /\ Go(c, "lookup", "done")
  /\ found' = [found EXCEPT ![c] = "error"]
  /\ gate' = [gate EXCEPT ![c] = None]
  /\ UNCHANGED <<dnsCache, resolving, host, now>>

(* store_addresses: a full cache is rid of what expired first, and takes     *)
(* nothing while it stays full.                                              *)
Store(c) ==
  LET full == Cardinality(Cached) >= DnsCapacity
      fresh == {h \in Cached : Fresh(h)}
  IN
    /\ Go(c, "store", IF full /\ Cardinality(fresh) >= DnsCapacity THEN "release" ELSE "insert")
    /\ dnsCache' = [h \in Hosts |-> IF full /\ h \notin fresh THEN None ELSE dnsCache[h]]
    /\ UNCHANGED <<resolving, host, gate, found, now>>

Insert(c) ==
  /\ Go(c, "insert", "release")
  /\ dnsCache' = [dnsCache EXCEPT ![host[c]] = [addresses |-> found[c], expires |-> now + DnsTtl]]
  /\ UNCHANGED <<resolving, host, gate, found, now>>

(* The strong count of the gate registered for a host.                       *)
StrongCount(g) == 1 + Cardinality(Holders(g))

ReleaseRegardless(c) ==
  /\ Go(c, "release", "drop")
  /\ resolving' = [resolving EXCEPT ![host[c]] = None]
  /\ UNCHANGED <<dnsCache, host, gate, found, now>>

ReleaseWhenUnheld(c) ==
  LET h == host[c] IN
    /\ Go(c, "release", "drop")
    /\ resolving' = IF resolving[h] # None /\ StrongCount(resolving[h]) <= 1
                    THEN [resolving EXCEPT ![h] = None] ELSE resolving
    /\ UNCHANGED <<dnsCache, host, gate, found, now>>

(* release_gate: whatever gate is registered for the host goes, if only the  *)
(* map and this call hold it.                                                *)
Release(c) ==
  LET h == host[c] IN
    /\ Go(c, "release", "drop")
    /\ resolving' = IF resolving[h] # None /\ StrongCount(resolving[h]) <= 2
                    THEN [resolving EXCEPT ![h] = None] ELSE resolving
    /\ UNCHANGED <<dnsCache, host, gate, found, now>>

(* The call returns; its Arc is dropped.                                     *)
Drop(c) ==
  /\ Go(c, "drop", "done")
  /\ found' = [found EXCEPT ![c] = EnsurePublic(found[c])]
  /\ gate' = [gate EXCEPT ![c] = None]
  /\ UNCHANGED <<dnsCache, resolving, host, now>>

(* The future is dropped where it waits: for the lock or for the lookup.     *)
Leave(c) ==
  /\ at[c] \in {"lock", "lookup"}
  /\ at' = [at EXCEPT ![c] = "idle"]
  /\ host' = [host EXCEPT ![c] = None]
  /\ gate' = [gate EXCEPT ![c] = None]
  /\ found' = [found EXCEPT ![c] = None]
  /\ UNCHANGED <<dnsCache, resolving, now>>

(* The caller takes the answer and may ask again.                            *)
Return(c) ==
  /\ Go(c, "done", "idle")
  /\ host' = [host EXCEPT ![c] = None]
  /\ found' = [found EXCEPT ![c] = None]
  /\ UNCHANGED <<dnsCache, resolving, gate, now>>

Tick ==
  /\ now < MaxTime
  /\ now' = now + 1
  /\ UNCHANGED <<dnsCache, resolving, at, host, gate, found>>

Work(c) ==
  \/ TakeGate(c) \/ Lock(c) \/ Resolved(c) \/ LookupFails(c)
  \/ Store(c) \/ Insert(c) \/ Release(c) \/ Drop(c)

Next ==
  \/ \E c \in Callers : Work(c) \/ Leave(c) \/ Return(c) \/ \E h \in Hosts : Ask(c, h)
  \/ Tick

Spec == Init /\ [][Next]_vars

-----------------------------------------------------------------------------

(* "a burst of concurrent requests for the same host performs one lookup     *)
(* instead of one per caller": no two calls look the same host up at the     *)
(* same time, although gates come and go with the calls that hold them.      *)
OneLookup ==
  \A c, d \in Callers :
    c # d /\ at[c] = "lookup" /\ at[d] = "lookup" => host[c] # host[d]

(* Why: a gate that some call holds is the one registered for its host, so   *)
(* who comes later meets the same lock.  A call whose own release removed    *)
(* the gate is alone with it and does nothing more than drop it.             *)
HeldIsRegistered ==
  \A c \in Callers :
    at[c] \in Holding /\ resolving[host[c]] # gate[c]
      => at[c] = "drop" /\ Holders(gate[c]) = {c}
=============================================================================
