------------------------------- MODULE Ranking -------------------------------
(* The reciprocal rank fusion of metasearch/src/aggregate.rs: how the hits of *)
(* several engines become one list.                                           *)
EXTENDS Adapters

RrfK == 60
Scale == 10000     \* a score is an integer: hundredths of a weight, scaled

(* What one hit at a rank (from 1) adds to the score of its page.             *)
Score(engine, rank) == (Weight(engine) * Scale) \div (RrfK + rank)

(* normalized_url: the address without its fragment and without what only     *)
(* tracks the reader; none for an address that cannot be fetched.             *)
NormalizedUrl(url) == {[link EXCEPT !.tail = ""] : link \in Fetchable(url)}

RankedHit(hit, sources, score) == [hit |-> hit, sources |-> sources, score |-> score]

(* A variant that lets the page keep the score of its first mention.          *)
JoinedUnscored(known, engine, rank, hit) == [known EXCEPT !.sources = Append(@, engine)]

(* A hit of an engine, at a rank, is entered or joined to the one there is,   *)
(* which keeps its title and its address and takes the longer snippet.        *)
Joined(known, engine, rank, hit) ==
  RankedHit([known.hit EXCEPT !.snippet = IF hit.snippet > @ THEN hit.snippet ELSE @],
            IF engine \in ToSet(known.sources) THEN known.sources ELSE Append(known.sources, engine),
            known.score + Score(engine, rank))
Entered(ranked, engine, rank, hit) ==
  [key \in DOMAIN ranked \cup NormalizedUrl(hit.url) |->
     IF key \notin DOMAIN ranked THEN RankedHit(hit, <<engine>>, Score(engine, rank))
     ELSE IF key \in NormalizedUrl(hit.url) THEN Joined(ranked[key], engine, rank, hit)
     ELSE ranked[key]]

EnteredAll(ranked, output) ==
  FoldLeft(LAMBDA known, rank : Entered(known, output.engine, rank, output.hits[rank]),
           ranked, [rank \in 1..Len(output.hits) |-> rank])
Ranked(outputs) == FoldLeft(EnteredAll, <<>>, outputs)

(* The best score first, then by title; what is equal comes in any order.     *)
Before(one, other) ==
  \/ one.score > other.score
  \/ one.score = other.score /\ one.hit.title < other.hit.title
Orders(ranked) ==
  {keys \in SetToSeqs(DOMAIN ranked) :
     \A i, j \in DOMAIN keys : i < j => ~Before(ranked[keys[j]], ranked[keys[i]])}

AggregatedHit(ranked) ==
  [title |-> ranked.hit.title, url |-> ranked.hit.url, snippet |-> ranked.hit.snippet,
   sources |-> ranked.sources, score |-> ranked.score]

(* aggregate: the lists it may return.                                        *)
Aggregate(outputs, limit) ==
  LET ranked == Ranked(outputs)
  IN  {[i \in 1..Len(Take(keys, limit)) |-> AggregatedHit(ranked[keys[i]])] : keys \in Orders(ranked)}

-----------------------------------------------------------------------------
(* What a merged list promises, said of the outputs whatever their order.     *)

(* The places of the outputs where a page is mentioned: <<output, rank>>.     *)
Mentions(outputs, page) ==
  UNION {{<<o, rank>> : rank \in {r \in DOMAIN outputs[o].hits :
                                    page \in NormalizedUrl(outputs[o].hits[r].url)}} :
         o \in DOMAIN outputs}
Mentioned(outputs) ==
  UNION {NormalizedUrl(hit.url) : hit \in UNION {ToSet(output.hits) : output \in ToSet(outputs)}}

TotalScore(outputs, page) ==
  MapThenSumSet(LAMBDA place : Score(outputs[place[1]].engine, place[2]), Mentions(outputs, page))
Finders(outputs, page) == {outputs[place[1]].engine : place \in Mentions(outputs, page)}
LongestSnippet(outputs, page) ==
  Max({outputs[place[1]].hits[place[2]].snippet : place \in Mentions(outputs, page)})

(* A list has the best pages, once each, the better ones first, each with all *)
(* its finders, its whole score and the longest snippet.                      *)
RanksAll(list, outputs, limit) ==
  LET pages == Mentioned(outputs)
      page == [i \in DOMAIN list |-> [list[i].url EXCEPT !.tail = ""]]
      Earlier(i) == {page[j] : j \in 1..i - 1}
  IN  /\ Len(list) = Min({limit, Cardinality(pages)})
      /\ \A i \in DOMAIN list :
           /\ page[i] \in pages \ Earlier(i)
           /\ \A other \in pages \ Earlier(i) : TotalScore(outputs, other) <= list[i].score
           /\ list[i].score = TotalScore(outputs, page[i])
           /\ IsInjective(list[i].sources) /\ ToSet(list[i].sources) = Finders(outputs, page[i])
           /\ list[i].snippet = LongestSnippet(outputs, page[i])
=============================================================================
