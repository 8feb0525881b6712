------------------------------ MODULE Adapters ------------------------------
(* The search engine adapters of crates/metasearch/src/engines: what each of  *)
(* the compiled adapters makes of the answer its site gives.                  *)
(*                                                                            *)
(* Text is abstracted.  A title and a name are their rank in the alphabet,    *)
(* with 0 for the empty text; a snippet is its length.  A link is             *)
(*   host    web, own (the engine's site), redirect (a page of the engine's   *)
(*           that carries another address), hollow (one that carries none),   *)
(*           beacon (an advertisement's), relative, or none                   *)
(*   scheme  https, http or other                                             *)
(*   page    what it leads to                                                 *)
(*   tail    "", fragment or tracking (utm_ and the like)                     *)
(* An optional value is a set with at most one member.                        *)
EXTENDS Integers, SequencesExt

Links ==
  [host : {"web", "own", "redirect", "hollow", "beacon", "relative", "none"},
   scheme : {"https", "http", "other"}, page : Nat, tail : {"", "fragment", "tracking"}]
Hits == [title : Nat, url : Links, snippet : Nat]

(* EngineKind, by the name of the engine.                                     *)
EngineKind ==
  {"bing", "brave", "brave-web", "crates-io", "crossref", "docker-hub", "duckduckgo", "github",
   "google", "google-cse", "hacker-news", "hugging-face", "mwmbl", "npm", "nvd", "openalex",
   "open-library", "pubmed", "wikidata", "wikipedia", "yahoo"}

(* SearchEngine::weight, in hundredths.                                       *)
Weight(kind) ==
  CASE kind = "google" -> 110
    [] kind \in {"brave", "brave-web", "google-cse"} -> 105
    [] kind = "duckduckgo" -> 95
    [] kind \in {"crossref", "github", "openalex", "pubmed"} -> 90
    [] kind \in {"hacker-news", "npm", "crates-io", "open-library", "wikidata"} -> 85
    [] kind = "docker-hub" -> 80
    [] kind \in {"hugging-face", "nvd"} -> 75
    [] kind = "wikipedia" -> 55
    [] OTHER -> 100

-----------------------------------------------------------------------------
(* Links and hits.                                                            *)

(* public_url: an address with a host that can be fetched, its fragment gone. *)
Plain(link) == [link EXCEPT !.tail = IF @ = "fragment" THEN "" ELSE @]
Fetchable(link) ==
  IF link.host \in {"none", "relative"} \/ link.scheme = "other" THEN {} ELSE {link}
PublicUrl(link) == {Plain(url) : url \in Fetchable(link)}

(* The page an engine's redirect leads to.                                    *)
Destination(link) == [link EXCEPT !.host = "web"]

(* An address made from an entry's name.                                      *)
Made(item) == [host |-> "own", scheme |-> "https", page |-> item.name, tail |-> ""]

SearchHit(title, url, snippet) == [title |-> title, url |-> url, snippet |-> snippet]
Titled(title, urls, snippet) == {SearchHit(title, url, snippet) : url \in {u \in urls : title > 0}}

OrElse(urls, others) == IF urls # {} THEN urls ELSE others

Take(seq, limit) == SubSeq(seq, 1, IF limit < Len(seq) THEN limit ELSE Len(seq))
Present(found) == FoldLeft(LAMBDA hits, one : hits \o SetToSeq(one), <<>>, found)
HitsOf(items, ToHit(_), limit) ==
  Take(Present([i \in DOMAIN items |-> ToHit(items[i])]), limit)

-----------------------------------------------------------------------------
(* A site's answer.                                                           *)
(*   sent      answered, Timeout or Request                                   *)
(*   status    of the response;  drained: x-ratelimit-remaining is 0          *)
(*   body      results, quoting (results with the words of a challenge in     *)
(*             them), challenge, other, or binary (not UTF-8)                 *)
(*   size      fits, declared or grows (too large), cut (the stream fails)    *)
(*   upstream  ok, or the error the body itself reports: limit or failed      *)
(*   items     the entries of the body                                        *)
(*   first     the answer to the request that comes before, if there is one   *)
(* An entry has a title and a name, a link and another, a snippet and what    *)
(* can be said instead (meta), and its index; it may be an advertisement, or  *)
(* no proper entry of its kind.                                               *)
Items ==
  [title : Nat, name : Nat, proper : BOOLEAN, ad : BOOLEAN, link : Links, backup : Links,
   snippet : Nat, meta : Nat, index : Int]
Answers(firsts) ==
  [sent : {"answered", "Timeout", "Request"}, status : Nat, drained : BOOLEAN,
   body : {"results", "quoting", "challenge", "other", "binary"},
   size : {"fits", "declared", "grows", "cut"}, upstream : {"ok", "limit", "failed"},
   items : Seq(Items), first : firsts]
SiteAnswers == Answers(Seq(Answers({<<>>})))

(* read_limited.                                                              *)
ReadLimited(reply) ==
  CASE reply.size \in {"declared", "grows"} -> "ResponseTooLarge"
    [] reply.size = "cut" -> "Request"
    [] OTHER -> "none"

(* What is wrong with an answer, up to its body being read: the failure to    *)
(* send, the statuses the adapter knows for a refusal, the other failures.    *)
Problem(reply, refused) ==
  CASE reply.sent # "answered" -> reply.sent
    [] refused -> "RateLimited"
    [] reply.status \notin 200..299 -> "HttpStatus"
    [] OTHER -> ReadLimited(reply)

TooManyRequests(reply) == reply.status = 429

HasResults(reply) == reply.body \in {"results", "quoting"}
HasChallengeWords(reply) == reply.body \in {"quoting", "challenge"}

Then(problem, wrong, error) == IF problem = "none" /\ wrong THEN error ELSE problem

Json(reply, refused) == Then(Problem(reply, refused), ~HasResults(reply), "Parse")

(* Result<EngineOutput>.                                                      *)
Outcome(problem, hits) == [error |-> problem, hits |-> IF problem = "none" THEN hits ELSE <<>>]

(* The entries selectors find in a page.                                      *)
Listed(reply) == IF HasResults(reply) THEN reply.items ELSE <<>>

-----------------------------------------------------------------------------
(* Pages for people.                                                          *)

(* Bing looks for no challenge: one is a page without results.                *)
BingUrl(link) == PublicUrl(IF link.host = "redirect" THEN Destination(link) ELSE link)
BingHit(item) == Titled(item.title, BingUrl(item.link), item.snippet)
Bing(reply, limit) ==
  Outcome(Problem(reply, FALSE), HitsOf(Listed(reply), BingHit, limit))

(* DuckDuckGo serves its challenge with status 202, or in a page's markup.    *)
DuckDuckGoUrl(link) ==
  CASE link.host = "redirect" -> PublicUrl(Destination(link))
    [] link.host \in {"hollow", "beacon"} -> {}
    [] link.host = "relative" -> PublicUrl([link EXCEPT !.host = "own", !.scheme = "https"])
    [] OTHER -> PublicUrl(link)
DuckDuckGoHit(item) ==
  IF item.ad THEN {} ELSE Titled(item.title, DuckDuckGoUrl(item.link), item.snippet)
DuckDuckGoParse(reply, limit) == HitsOf(Listed(reply), DuckDuckGoHit, limit)
DuckDuckGo(reply, limit) ==
  Outcome(Then(Problem(reply, reply.status = 202), reply.body = "challenge", "RateLimited"),
          DuckDuckGoParse(reply, limit))

(* Yahoo and Brave's page know a challenge by its words, whoever wrote them.  *)
YahooUrl(link) ==
  CASE link.host = "redirect" -> PublicUrl(Destination(link))
    [] link.host = "hollow" -> {}
    [] OTHER -> PublicUrl(link)
YahooHit(item) == Titled(item.title, YahooUrl(item.link), item.snippet)
Yahoo(reply, limit) ==
  Outcome(Then(Problem(reply, TooManyRequests(reply)), HasChallengeWords(reply), "RateLimited"),
          HitsOf(Listed(reply), YahooHit, limit))

BraveWebHit(item) == Titled(item.title, PublicUrl(item.link), item.snippet)
BraveWeb(reply, limit) ==
  LET read == Then(Problem(reply, TooManyRequests(reply)), reply.body = "binary", "Parse")
  IN  Outcome(Then(read, HasChallengeWords(reply), "RateLimited"),
              HitsOf(Listed(reply), BraveWebHit, limit))

-----------------------------------------------------------------------------
(* Interfaces that refuse with a plain status.                                *)

BraveHit(item) == Titled(item.title, Fetchable(item.link), item.snippet)
Brave(reply, limit) == Outcome(Json(reply, FALSE), HitsOf(reply.items, BraveHit, limit))

GoogleHit(item) == Titled(item.title, Fetchable(item.link), item.snippet)
Google(reply, limit) == Outcome(Json(reply, FALSE), HitsOf(reply.items, GoogleHit, limit))

(* Only pages of wikipedia.org, in the order of their index; equals stay in   *)
(* the order they came, as the sort of so few leaves them.                    *)
Precedes(items, i, k) ==
  items[i].index < items[k].index \/ (items[i].index = items[k].index /\ i <= k)
PlaceOf(items, k) == Cardinality({i \in DOMAIN items : Precedes(items, i, k)})
ByIndex(items) ==
  [place \in DOMAIN items |-> items[CHOOSE k \in DOMAIN items : PlaceOf(items, k) = place]]
WikipediaUrl(link) ==
  IF link.host = "own" /\ link.scheme = "https" THEN PublicUrl(link) ELSE {}
WikipediaHit(item) == Titled(item.title, WikipediaUrl(item.link), item.snippet)
Wikipedia(reply, limit) ==
  Outcome(Json(reply, FALSE), HitsOf(ByIndex(reply.items), WikipediaHit, limit))

-----------------------------------------------------------------------------
(* Interfaces whose 429 is a refusal.                                         *)

Answer(reply, ToHit(_), limit) ==
  Outcome(Json(reply, TooManyRequests(reply)), HitsOf(reply.items, ToHit, limit))

MwmblHit(item) == Titled(item.title, PublicUrl(item.link), item.snippet)
Mwmbl(reply, limit) == Answer(reply, MwmblHit, limit)

HackerNewsHit(item) ==
  Titled(item.title, OrElse(PublicUrl(item.link), {Made(item)}), item.snippet)
HackerNews(reply, limit) == Answer(reply, HackerNewsHit, limit)

NpmHit(item) == Titled(item.name, OrElse(PublicUrl(item.link), {Made(item)}), item.snippet)
Npm(reply, limit) == Answer(reply, NpmHit, limit)

CratesIoHit(item) == Titled(item.name, {Made(item)}, item.snippet)
CratesIo(reply, limit) == Answer(reply, CratesIoHit, limit)

DockerHubHit(item) == Titled(item.name, {Made(item)}, item.snippet)
DockerHub(reply, limit) == Answer(reply, DockerHubHit, limit)

(* Only works, whose snippet is what is known of their editions.              *)
OpenLibraryHit(item) == IF item.proper THEN Titled(item.title, {Made(item)}, item.meta) ELSE {}
OpenLibrary(reply, limit) == Answer(reply, OpenLibraryHit, limit)

(* The landing page, else the DOI or the work's own address.                  *)
OpenAlexHit(item) ==
  Titled(item.title, OrElse(PublicUrl(item.link), PublicUrl(item.backup)), item.meta)
OpenAlex(reply, limit) == Answer(reply, OpenAlexHit, limit)

(* Only items and properties.                                                 *)
WikidataHit(item) ==
  IF item.proper
  THEN Titled(item.title, OrElse(PublicUrl(item.link), {Made(item)}), item.snippet)
  ELSE {}
Wikidata(reply, limit) == Answer(reply, WikidataHit, limit)

(* Models and vulnerabilities, of catalogs.rs.                                *)
HuggingFaceHit(item) == Titled(item.name, {Made(item)}, 1 + item.meta)
HuggingFace(reply, limit) == Answer(reply, HuggingFaceHit, limit)
NvdHit(item) == Titled(item.name, {Made(item)}, item.snippet)
Nvd(reply, limit) == Answer(reply, NvdHit, limit)

(* Only repositories of github.com; there is a count of stars in any snippet. *)
GitHubHit(item) ==
  IF item.link.host = "own" /\ item.link.scheme = "https"
  THEN {SearchHit(item.name, Plain(item.link), 1 + item.snippet + item.meta)}
  ELSE {}
GitHubRefuses(reply) == TooManyRequests(reply) \/ (reply.status = 403 /\ reply.drained)
GitHub(reply, limit) ==
  Outcome(Json(reply, GitHubRefuses(reply)), HitsOf(reply.items, GitHubHit, limit))

(* The body has a status of its own; metadata stands in for an abstract.      *)
CrossrefSnippet(item) == IF item.snippet > 0 THEN item.snippet ELSE item.meta
CrossrefUrl(item) == OrElse(PublicUrl(item.link), PublicUrl(item.backup))
CrossrefHit(item) == Titled(item.title, CrossrefUrl(item), CrossrefSnippet(item))
Crossref(reply, limit) ==
  Outcome(Then(Json(reply, TooManyRequests(reply)), reply.upstream # "ok", "Parse"),
          HitsOf(reply.items, CrossrefHit, limit))

(* A list of numbers first; then their records, unless the list is empty.     *)
PubMedHit(item) == IF item.proper THEN Titled(item.title, {Made(item)}, item.meta) ELSE {}
PubMedFetch(reply) == Json(reply, TooManyRequests(reply))
PubMed(reply, limit) ==
  LET search == Head(reply.first)
  IN  CASE PubMedFetch(search) # "none" -> Outcome(PubMedFetch(search), <<>>)
        [] search.items = <<>> -> Outcome("none", <<>>)
        [] OTHER -> Outcome(PubMedFetch(reply), HitsOf(reply.items, PubMedHit, limit))

(* A token first, unless one is cached; a refusal to give it is a status.     *)
GoogleCseToken(reply) == IF reply.first = <<>> THEN "none" ELSE Json(Head(reply.first), FALSE)
GoogleCseHit(item) == Titled(item.title, PublicUrl(item.link), item.snippet)
GoogleCseError(reply) ==
  LET read == Json(reply, TooManyRequests(reply))
  IN  Then(Then(read, reply.upstream = "limit", "RateLimited"), reply.upstream = "failed", "Parse")
GoogleCse(reply, limit) ==
  IF GoogleCseToken(reply) # "none"
  THEN Outcome(GoogleCseToken(reply), <<>>)
  ELSE Outcome(GoogleCseError(reply), HitsOf(reply.items, GoogleCseHit, limit))

-----------------------------------------------------------------------------
(* SearchEngine::search of the adapter configured for a kind.                 *)
Execute(kind, reply, limit) ==
  CASE kind = "bing" -> Bing(reply, limit)
    [] kind = "brave" -> Brave(reply, limit)
    [] kind = "brave-web" -> BraveWeb(reply, limit)
    [] kind = "crates-io" -> CratesIo(reply, limit)
    [] kind = "crossref" -> Crossref(reply, limit)
    [] kind = "docker-hub" -> DockerHub(reply, limit)
    [] kind = "duckduckgo" -> DuckDuckGo(reply, limit)
    [] kind = "github" -> GitHub(reply, limit)
    [] kind = "google" -> Google(reply, limit)
    [] kind = "google-cse" -> GoogleCse(reply, limit)
    [] kind = "hacker-news" -> HackerNews(reply, limit)
    [] kind = "hugging-face" -> HuggingFace(reply, limit)
    [] kind = "mwmbl" -> Mwmbl(reply, limit)
    [] kind = "npm" -> Npm(reply, limit)
    [] kind = "nvd" -> Nvd(reply, limit)
    [] kind = "openalex" -> OpenAlex(reply, limit)
    [] kind = "open-library" -> OpenLibrary(reply, limit)
    [] kind = "pubmed" -> PubMed(reply, limit)
    [] kind = "wikidata" -> Wikidata(reply, limit)
    [] kind = "wikipedia" -> Wikipedia(reply, limit)
    [] kind = "yahoo" -> Yahoo(reply, limit)
=============================================================================
