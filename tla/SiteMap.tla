------------------------------- MODULE SiteMap -------------------------------
(* The site map of scorch-engine/src/map.rs: sitemaps named by robots.txt or  *)
(* the conventional one, indexes of sitemaps, and the links of the root page. *)
(* A function of what the fetches it makes return.                            *)
EXTENDS Naturals, Sequences, SequencesExt, FiniteSets

CONSTANTS
  Pages,          \* URLs of pages
  Sitemaps,       \* URLs of sitemaps
  Conventional,   \* /sitemap.xml
  MaxSitemaps,    \* MAX_SITEMAPS
  MaxMapLimit     \* the greatest limit of a map request

(* The other URLs a map is made from.                                        *)
Robots == "robots.txt"
RootPage == "root page"

(* What a fetch comes back with: a page, a status that is no success, or no  *)
(* response.                                                                 *)
Replies == {"success", "status", "error"}

(* What a sitemap lists: an index names sitemaps only, another pages only.   *)
Listings == [urls : Seq(Pages), nested : {<<>>}] \cup [urls : {<<>>}, nested : Seq(Sitemaps)]

(* A site: the sitemaps its robots file names, what each sitemap lists, the  *)
(* links of its root page; and what of it a request has in its scope.        *)
IsSite(site) ==
  /\ site.robots \in Seq(Sitemaps)
  /\ site.listing \in [Sitemaps -> Listings]
  /\ site.links \in Seq(Pages)
  /\ site.scope \subseteq Pages \cup Sitemaps

ASSUME SiteMapAssumption ==
  /\ Conventional \in Sitemaps
  /\ {MaxSitemaps, MaxMapLimit} \subseteq Nat \ {0}

(* The members of a sequence at some of its places, in their order; and the  *)
(* places where a member of U is first.                                      *)
Selected(s, places) ==
  LET Rank(i) == Cardinality({k \in places : k <= i})
  IN  [n \in 1 .. Cardinality(places) |-> s[CHOOSE i \in places : Rank(i) = n]]
FirstPlaces(s, U) == {i \in DOMAIN s : s[i] \in U /\ \A k \in 1 .. i - 1 : s[k] # s[i]}

InScope(site, urls) == Selected(urls, {i \in DOMAIN urls : urls[i] \in site.scope})

(* Links not seen yet are added up to the limit.                             *)
AddLinks(site, limit, links, urls) ==
  LET all == links \o Selected(urls, FirstPlaces(urls, site.scope \ ToSet(links)))
  IN  SubSeq(all, 1, Min({limit, Len(all)}))

(* The queue of sitemaps, first come first served, until it is empty, enough *)
(* links are found or as many sitemaps are visited as may be.                *)
Visits ==
  [queue : Seq(Sitemaps), visited : {S \in SUBSET Sitemaps : IsFiniteSet(S)}, links : Seq(Pages)]

Enough(limit, v) ==
  v.queue = <<>> \/ Cardinality(v.visited) >= MaxSitemaps \/ Len(v.links) >= limit

(* The first sitemap of the queue is passed over if it was visited before,   *)
(* and has nothing if it cannot be had.                                      *)
AfterVisit(site, limit, reply, v) ==
  LET u == Head(v.queue)
      listing == IF u \in v.visited \/ reply[u] # "success"
                 THEN [urls |-> <<>>, nested |-> <<>>] ELSE site.listing[u]
  IN  [queue |-> Tail(v.queue) \o InScope(site, listing.nested),
       visited |-> v.visited \cup {u},
       links |-> AddLinks(site, limit, v.links, listing.urls)]

SitemapLinks(site, limit, reply, queue) ==
  LET visit[v \in Visits] ==
        IF Enough(limit, v) THEN v.links ELSE visit[AfterVisit(site, limit, reply, v)]
  IN visit[[queue |-> queue, visited |-> {}, links |-> <<>>]]

(* The root page is fetched when the sitemaps did not fill the limit; with   *)
(* no response to that, the map has failed and what was found is dropped.    *)
MapFails(links, limit, reply) == Len(links) < limit /\ reply[RootPage] = "error"

Map(site, limit, reply) ==
  LET named == IF reply[Robots] = "success" THEN InScope(site, site.robots) ELSE <<>>
      links == SitemapLinks(site, limit, reply, IF named = <<>> THEN <<Conventional>> ELSE named)
  IN CASE limit \notin 1 .. MaxMapLimit \/ MapFails(links, limit, reply) -> <<>>
       [] Len(links) < limit /\ reply[RootPage] = "success" -> AddLinks(site, limit, links, site.links)
       [] OTHER -> links

(* Everything a map of a site can come to.                                   *)
Maps(site, limit) ==
  {Map(site, limit, reply) : reply \in [Sitemaps \cup {Robots, RootPage} -> Replies]}
=============================================================================
