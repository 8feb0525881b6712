------------------------------- MODULE MCFetch -------------------------------
(* Two hosts, an address literal and a refused URL.                           *)
EXTENDS Fetch, TLC

CONSTANTS u1, u2, u3, u4, h1, h2

MCTarget == (u1 :> h1) @@ (u2 :> h2) @@ (u3 :> Literal) @@ (u4 :> Refused)

Symmetric == Permutations(Fetches) \cup Permutations(Proxied) \cup Permutations(Gates)
=============================================================================
