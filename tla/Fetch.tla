-------------------------------- MODULE Fetch --------------------------------
(* Requests to web sites and the resolution under them: SafeFetcher::get of   *)
(* scorch-engine/src/fetch.rs (robots files, sitemaps, root pages) and the    *)
(* connections of the browser's proxy (proxy.rs), over Resolver.              *)
(*                                                                            *)
(* A fetch validates its target, which resolves the host, and then lets the  *)
(* client connect, which resolves it again; a proxied connection goes to the  *)
(* very addresses that were validated.  A fetch's future is dropped where it  *)
(* waits, by its own deadline or with the crawl or request it works for; the  *)
(* time that takes is left open.                                              *)
EXTENDS Integers, FiniteSets

CONSTANTS
  Fetches,         \* calls of SafeFetcher::get
  Proxied,         \* connections accepted by SafeProxy
  Hosts, Gates, DnsTtl, DnsCapacity, MaxTime, None,
  Urls,            \* targets
  Target,          \* what validate makes of a URL: its host, or one of
  Literal,         \*   ... a public address literal
  Refused,         \*   ... a scheme, host or port that is not allowed
  MaxConcurrency,  \* EngineConfig.max_concurrency
  MaxRedirects     \* MAX_REDIRECTS

Callers == Fetches \cup Proxied

ASSUME FetchAssumption ==
  /\ Fetches \cap Proxied = {}
  /\ Target \in [Urls -> Hosts \cup {Literal, Refused}]
  /\ {Literal, Refused} \cap Hosts = {} /\ Literal # Refused
  /\ MaxConcurrency \in Nat \ {0} /\ MaxRedirects \in Nat

VARIABLES
  dnsCache, resolving, at, host, gate, found, now,   \* Resolver
  request,     \* each request, as below
  pool,        \* the client's idle connection to a host, by where it goes to
  untidy       \* history: hosts whose gate a call left behind

resolverVars == <<dnsCache, resolving, at, host, gate, found, now>>
vars == <<resolverVars, request, pool, untidy>>

R == INSTANCE Resolver

ASSUME NamesAssumption == R!ResolverAssumption

(* current, redirect_count, and where a request goes: the addresses that     *)
(* were validated, then those its connection was opened to.                  *)
RequestRecords ==
  [stage : {"out", "permit", "hop", "validating", "send", "connecting", "reply", "streaming", "ended"},
   url : Urls \cup {None}, redirects : 0 .. MaxRedirects, reached : R!Addresses \cup {None}]

Out == [stage |-> "out", url |-> None, redirects |-> 0, reached |-> None]
Ended == [Out EXCEPT !.stage = "ended"]

TypeOK ==
  /\ R!TypeOK
  /\ request \in [Callers -> RequestRecords]
  /\ pool \in [Hosts -> R!Addresses \cup {None}]
  /\ untidy \subseteq Hosts

Init ==
  /\ R!Init
  /\ request = [c \in Callers |-> Out]
  /\ pool = [h \in Hosts |-> None]
  /\ untidy = {}

At(c, stage) == request[c].stage = stage
Becomes(c, record) == request' = [request EXCEPT ![c] = record]
Goes(c, stage) == Becomes(c, [request[c] EXCEPT !.stage = stage])

Permits == {c \in Fetches : request[c].stage \notin {"out", "permit", "ended"}}
Destination(c) == Target[request[c].url]

-----------------------------------------------------------------------------
(* A fetch waits for a permit; a proxied connection first reads a request.   *)

Begin(c, u) ==
  /\ At(c, "out")
  /\ Becomes(c, [Out EXCEPT !.stage = IF c \in Fetches THEN "permit" ELSE "hop", !.url = u])
  /\ UNCHANGED <<resolverVars, pool, untidy>>

Permit(c) ==
  /\ At(c, "permit")
  /\ Cardinality(Permits) < MaxConcurrency
  /\ Goes(c, "hop")
  /\ UNCHANGED <<resolverVars, pool, untidy>>

(* validate: the checks on the URL itself, then its host's addresses.        *)
Hop(c) ==
  /\ At(c, "hop")
  /\ \/ /\ Destination(c) \in Hosts
        /\ R!Ask(c, Destination(c))
        /\ Goes(c, "validating")
     \/ /\ Destination(c) = Literal
        /\ Becomes(c, [request[c] EXCEPT !.stage = "send", !.reached = "public"])
        /\ UNCHANGED resolverVars
     \/ /\ Destination(c) = Refused
        /\ Becomes(c, Ended)
        /\ UNCHANGED resolverVars
  /\ UNCHANGED <<pool, untidy>>

(* One step of resolve_public_ips.  A lookup that fails leaves its gate, and *)
(* so do two calls that each find the other still holding it.                *)
Resolve(c) ==
  /\ R!Work(c)
  /\ untidy' =
       IF \/ at[c] = "lookup" /\ at'[c] = "done"
          \/ at[c] = "release" /\ \E d \in R!Holders(gate[c]) : at[d] = "drop"
       THEN untidy \cup {host[c]} ELSE untidy
  /\ UNCHANGED <<request, pool>>

Validated(c) ==
  /\ At(c, "validating")
  /\ R!Return(c)
  /\ Becomes(c, IF found[c] = "error" THEN Ended
                ELSE [request[c] EXCEPT !.stage = "send", !.reached = found[c]])
  /\ UNCHANGED <<pool, untidy>>

(* A fetch takes an idle connection or opens one, to a literal without       *)
(* resolving it.                                                             *)
Send(c) ==
  /\ c \in Fetches
  /\ At(c, "send")
  /\ \/ Destination(c) = Literal /\ Goes(c, "reply") /\ UNCHANGED resolverVars
     \/ /\ Destination(c) \in Hosts /\ pool[Destination(c)] # None
        /\ Becomes(c, [request[c] EXCEPT !.stage = "reply", !.reached = pool[Destination(c)]])
        /\ UNCHANGED resolverVars
     \/ /\ Destination(c) \in Hosts /\ pool[Destination(c)] = None
        /\ R!Ask(c, Destination(c))
        /\ Goes(c, "connecting")
  /\ UNCHANGED <<pool, untidy>>

(* PinnedResolver's answer, and the connection to it, which may fail.        *)
Connected(c) ==
  /\ At(c, "connecting")
  /\ R!Return(c)
  /\ \/ found[c] # "error" /\ Becomes(c, [request[c] EXCEPT !.stage = "reply", !.reached = found[c]])
     \/ Becomes(c, Ended)
  /\ UNCHANGED <<pool, untidy>>

(* A redirect is followed up to the limit; any other answer is the result,   *)
(* once its body is read.  The connection may stay idle or be closed.        *)
Reply(c) ==
  /\ At(c, "reply")
  /\ \/ /\ request[c].redirects < MaxRedirects
        /\ \E u \in Urls :
             Becomes(c, [request[c] EXCEPT !.stage = "hop", !.url = u, !.redirects = @ + 1,
                                           !.reached = None])
     \/ Becomes(c, Ended)
  /\ \/ /\ Destination(c) \in Hosts
        /\ \E connection \in {None, request[c].reached} :
             pool' = [pool EXCEPT ![Destination(c)] = connection]
     \/ Destination(c) = Literal /\ UNCHANGED pool
  /\ UNCHANGED <<resolverVars, untidy>>

(* A proxied connection: connect_pinned to what was validated, which may     *)
(* fail, and the copying until either side ends.                             *)
ConnectPinned(c) ==
  /\ c \in Proxied
  /\ At(c, "send")
  /\ Goes(c, "streaming") \/ Becomes(c, Ended)
  /\ UNCHANGED <<resolverVars, pool, untidy>>

StreamEnds(c) ==
  /\ At(c, "streaming")
  /\ Becomes(c, Ended)
  /\ UNCHANGED <<resolverVars, pool, untidy>>

(* The fetch's future is dropped where it waits.  In the resolver this lets  *)
(* go of lock and Arc and leaves the gate.                                   *)
Quit(c) ==
  /\ c \in Fetches
  /\ \/ /\ At(c, "permit") \/ At(c, "reply")
        /\ UNCHANGED <<resolverVars, untidy>>
     \/ /\ At(c, "validating") \/ At(c, "connecting")
        /\ R!Leave(c)
        /\ untidy' = untidy \cup {host[c]}
  /\ Becomes(c, Ended)
  /\ UNCHANGED pool

Tick == R!Tick /\ UNCHANGED <<request, pool, untidy>>

Work(c) ==
  \/ Permit(c) \/ Hop(c) \/ Resolve(c) \/ Validated(c) \/ Send(c) \/ Connected(c) \/ Reply(c)
  \/ ConnectPinned(c) \/ StreamEnds(c)

Next ==
  \/ \E c \in Callers : (\E u \in Urls : Begin(c, u)) \/ Work(c) \/ Quit(c)
  \/ Tick

Spec == Init /\ [][Next]_vars

-----------------------------------------------------------------------------

(* Two calls never look one host up at the same time, whatever the callers   *)
(* of the resolver do (Resolver!OneLookup).                                  *)
OneLookup == R!OneLookup

(* "Drop the entry only when this caller holds the last reference": a gate   *)
(* that nobody holds is gone, unless a lookup of its host failed or was      *)
(* dropped, or two calls let go of it at the same time; nothing else leaves  *)
(* an entry in the map of gates behind.                                      *)
GatesReleased ==
  \A h \in Hosts : resolving[h] # None /\ R!Holders(resolving[h]) = {} => h \in untidy

(* "a host that resolves to a private, loopback, or otherwise reserved       *)
(* address is rejected wherever a connection is made": every connection,     *)
(* fetched, proxied or taken from the pool, goes to public addresses,        *)
(* although names may resolve to something else each time and answers that   *)
(* are not public are cached as well.                                        *)
OnlyPublicReached ==
  /\ \A c \in Callers : request[c].stage \in {"reply", "streaming"} => request[c].reached = "public"
  /\ \A h \in Hosts : pool[h] \in {None, "public"}
=============================================================================
