----------------------------- MODULE MCScrapePath -----------------------------
(* Calls for one page.  Requests differ in what the program tells apart: the  *)
(* formats (Plain leaves html to the warmer), the timeout (Slow has its own   *)
(* render key), the extraction options (Main has its own cache key), max_age  *)
(* (Slow forces a refresh) and store_in_cache (Private).                      *)
EXTENDS ScrapePath

CONSTANTS fk1, fk2, k1, k2

MCHashOf == [k \in Keys |-> k]

Request(f, k, formats, maxAge, stores) ==
  [flightKey |-> f, cacheKey |-> k, formats |-> formats, maxAge |-> maxAge, stores |-> stores]

Plain == Request(fk1, k1, {}, 1, TRUE)
Html == Request(fk1, k1, Formats, 1, TRUE)
Slow == Request(fk2, k1, {}, 0, TRUE)
Main == Request(fk1, k2, Formats, 1, TRUE)
Private == Request(fk1, k1, {}, 1, FALSE)

(* Pages that may be cached in full and pages that may not, for each reason.  *)
Plainly == [status |-> 200, redirected |-> FALSE, setsCookie |-> FALSE, vary |-> {}, control |-> <<>>,
            age |-> NoHeader, expires |-> NoHeader]
Lasting(seconds) == [name |-> "max-age", argument |-> seconds]
MCResponses ==
  {Plainly,
   [Plainly EXCEPT !.control = <<Lasting(3), [name |-> "s-maxage", argument |-> 9]>>, !.age = 3],
   [Plainly EXCEPT !.expires = 2, !.vary = {"accept-encoding"}],
   [Plainly EXCEPT !.control = <<Lasting(NoNumber)>>],
   [Plainly EXCEPT !.status = 404], [Plainly EXCEPT !.redirected = TRUE],
   [Plainly EXCEPT !.setsCookie = TRUE], [Plainly EXCEPT !.vary = {"cookie"}],
   [Plainly EXCEPT !.control = <<[name |-> "private", argument |-> NoNumber]>>],
   [Plainly EXCEPT !.control = <<Lasting(3)>>, !.age = 4],
   [Plainly EXCEPT !.expires = NoNumber]}

FiveRequests == {Plain, Html, Slow, Main, Private}
TwoRequests == {Html, [Html EXCEPT !.flightKey = fk2]}
SlowRequests == {Slow}

(* Bound: either three calls for one render meet in one moment, or two of any *)
(* kinds, and the third has not begun (a Private call begins with acquire).   *)
Company ==
  \/ now = 0 /\ \A c \in Callers : request[c] = Html
  \/ \E c \in Callers : request[c] = Private /\ at[c] = "acquire"

Symmetric == Permutations(Callers)
=============================================================================
