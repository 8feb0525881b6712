---------------------------- MODULE MCMetaSearch ----------------------------
(* Two searches that meet at an engine and in the cache; one that merges what *)
(* two engines return; two that take turns at one permit; and one search of   *)
(* every other adapter.                                                       *)
EXTENDS MetaSearch

CONSTANTS s1, s2

Link(host, page, tail) == [host |-> host, scheme |-> "https", page |-> page, tail |-> tail]
NoLink == Link("none", 0, "")
Item(title, link, snippet) ==
  [title |-> title, name |-> title, proper |-> title < 3, ad |-> FALSE, link |-> link,
   backup |-> Link("web", 9, ""), snippet |-> snippet, meta |-> 1, index |-> 9 - title]

Reply(status, body, items) ==
  [sent |-> "answered", status |-> status, drained |-> FALSE, body |-> body, size |-> "fits",
   upstream |-> "ok", items |-> items, first |-> <<>>]
Results(items) == Reply(200, "results", items)

Apart == Results(<<Item(1, Link("web", 1, "tracking"), 1), Item(2, Link("web", 2, ""), 0)>>)
Again == Results(<<Item(1, Link("redirect", 1, "fragment"), 2), Item(3, Link("hollow", 3, ""), 1)>>)
Own == Results(<<Item(0, Link("own", 1, ""), 0), Item(2, Link("own", 4, ""), 0), Item(3, NoLink, 1)>>)

Plainly == {Apart, Again, Results(<<>>), Reply(429, "other", <<>>), Reply(500, "other", <<>>)}
Challenging == {Apart, Again, Results(<<>>), Reply(200, "challenge", <<>>), [Apart EXCEPT !.sent = "Timeout"]}
Broadly ==
  {Apart, Own, Reply(200, "quoting", Apart.items), Reply(403, "other", <<>>),
   [Reply(403, "other", <<>>) EXCEPT !.drained = TRUE], Reply(202, "other", <<>>),
   [Apart EXCEPT !.size = "grows"], [Apart EXCEPT !.size = "cut"], [Apart EXCEPT !.upstream = "limit"],
   [Apart EXCEPT !.upstream = "failed"], Reply(200, "binary", <<>>)} \cup Plainly \cup Challenging

First(replies, firsts) == {[reply EXCEPT !.first = first] : reply \in replies, first \in firsts}
MCReplies ==
  [kind \in EngineKind |->
     CASE kind = "duckduckgo" -> Challenging
       [] kind = "mwmbl" -> Plainly
       [] kind = "google-cse" -> First(Broadly, {<<>>, <<Apart>>, <<Reply(429, "other", <<>>)>>})
       [] kind = "pubmed" -> First(Broadly, {<<Own>>, <<Results(<<>>)>>, <<Reply(429, "other", <<>>)>>})
       [] OTHER -> Broadly]

Request(spelling, engines, limit) ==
  [words |-> "q", spelling |-> spelling, size |-> 1, limit |-> limit, locale |-> "us-en",
   engines |-> engines]
Deployed(engines, concurrency, first, second) ==
  [engines |-> engines, concurrency |-> concurrency, requests |-> (s1 :> first) @@ (s2 :> second)]

Meeting ==
  Deployed({"mwmbl"}, 2, {Request("q", {"mwmbl"}, 2)},
           {Request("Q", {"mwmbl"}, 2), Request("q", {"mwmbl"}, 1)})
Fusing == Deployed({"duckduckgo", "mwmbl"}, 1, {Request("q", {"duckduckgo", "mwmbl"}, 2)}, {})
Turns ==
  Deployed({"duckduckgo"}, 1, {Request("q", {}, 2)}, {Request("q", {}, 2), Request("q", {"bing"}, 2)})
Each ==
  {Deployed({kind}, 1, {Request("q", {kind}, 2)}, {}) : kind \in EngineKind \ {"duckduckgo", "mwmbl"}}

MCDeployments == {Meeting, Fusing, Turns} \cup Each
=============================================================================
