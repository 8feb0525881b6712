----------------------------- MODULE MCCrawlJobs -----------------------------
(* A root with two links that both lead on to one page, which the site map    *)
(* has as well; a page the robots file keeps out.  The second crawl is small. *)
EXTENDS CrawlJobs

CONSTANTS r, a, b, c, x, m1, m2, j1, j2

MCLinksOf == (r :> <<a, b, a>>) @@ (a :> <<c, x>>) @@ (b :> <<r, c>>) @@ (c :> <<>>) @@ (x :> <<>>)
MCSizeOf == [p \in Pages |-> IF p = b THEN 2 ELSE 1]
MCSite ==
  [robots |-> <<m1>>,
   listing |-> (m1 :> [urls |-> <<>>, nested |-> <<m2>>]) @@ (m2 :> [urls |-> <<c, x>>, nested |-> <<>>]),
   links |-> <<c>>,
   scope |-> {r, a, b, c, m1, m2}]

Request(limit, depth, concurrency) == [limit |-> limit, depth |-> depth, concurrency |-> concurrency]
MCRequests == (j1 :> {Request(3, 2, 2), Request(4, 2, 1)}) @@ (j2 :> {Request(1, 0, 1), Request(5, 0, 1)})
=============================================================================
