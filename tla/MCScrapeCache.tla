---------------------------- MODULE MCScrapeCache ----------------------------
(* Three keys that do not collide in cache_key_hash and two tombstones, so   *)
(* that a third key drops one; two entries or three bytes, so that each      *)
(* limit is met with the other one slack.                                    *)
EXTENDS ScrapeCache

MCHashOf == [k \in Keys |-> k]

Symmetric == Permutations(Keys)
=============================================================================
