------------------------------ MODULE Freshness ------------------------------
(* How long a response may be cached for: response_cache_ttl and its helpers, *)
(* scorch-engine/src/fetch.rs.                                                *)
(*                                                                            *)
(* A response has a status, whether it was redirected and sets a cookie, the  *)
(* names in Vary, its Cache-Control as a sequence of directives -- a name and *)
(* an argument, NoNumber unless it is a number --, Age and how far Expires is *)
(* ahead; NoHeader stands for a header that is absent, NoNumber for one that  *)
(* cannot be read.                                                            *)
EXTENDS Integers, SequencesExt

NoNumber == -1
NoHeader == -2

ResponseRecords ==
  [status : Nat, redirected : BOOLEAN, setsCookie : BOOLEAN, vary : SUBSET STRING,
   control : Seq([name : STRING, argument : Nat \cup {NoNumber}]),
   age : Nat \cup {NoNumber, NoHeader}, expires : Nat \cup {NoNumber, NoHeader}]

(* cache_control_forbids_reuse.                                               *)
ForbidsReuse(directives) ==
  \E directive \in ToSet(directives) :
    \/ directive.name \in {"no-store", "no-cache", "private"}
    \/ directive.name \in {"max-age", "s-maxage"} /\ directive.argument = 0

(* cache_control_max_age: the first s-maxage, else the first max-age, and no  *)
(* other if its argument cannot be read.                                      *)
MaxAge(directives) ==
  LET Named(name) == {i \in DOMAIN directives : directives[i].name = name}
      ages == IF Named("s-maxage") # {} THEN Named("s-maxage") ELSE Named("max-age")
  IN  IF ages = {} THEN NoNumber ELSE directives[Min(ages)].argument

(* Duration arithmetic: what is left of a lifetime, never less than nothing.  *)
Left(seconds, age) == IF age > seconds THEN 0 ELSE seconds - (IF age < 0 THEN 0 ELSE age)

(* response_cache_ttl, where zero is None: at most the cache's own limit.     *)
Uncacheable(response) ==
  \/ response.status \notin 200..299 \/ response.redirected \/ response.setsCookie
  \/ response.vary \ {"accept-encoding"} # {}
  \/ ForbidsReuse(response.control)
Lifetime(response, limit) ==
  CASE MaxAge(response.control) # NoNumber -> Left(MaxAge(response.control), response.age)
    [] response.expires # NoHeader -> Left(response.expires, 0)
    [] OTHER -> limit
ResponseCacheTtl(response, limit) ==
  IF Uncacheable(response) THEN 0
  ELSE IF Lifetime(response, limit) < limit THEN Lifetime(response, limit) ELSE limit
=============================================================================
