---------------------------- MODULE DocumentCache ----------------------------
(* What the document cache promises to Engine::scrape and to the warmer, with *)
(* no queues, tombstones, sizes or generations to compare.  Whoever is about  *)
(* to extract a document begins an observation of its key.  Observations of   *)
(* one hash supersede each other, and only the current one may put a document *)
(* in its key's place, say that what is there is out of date, or add formats  *)
(* to its own.  An observation that has been superseded or forgotten never    *)
(* becomes current again, and a document goes with the history of its hash.   *)
(* Otherwise a document that has not expired goes only to make room for a     *)
(* newer one: looking for it, whatever for, never takes it away.              *)
EXTENDS Integers

CONSTANTS Keys, HashOf, Formats, Observations,
  Lifetime   \* how long a document may be served at most, from its observation

VARIABLES
  documents,   \* the document of each key that has one
  current,     \* the observations that may still say something
  begun,       \* the key of each observation that was begun
  now

documentVars == <<documents, current, begun, now>>

Init ==
  /\ documents = <<>>
  /\ current = {}
  /\ begun = <<>>
  /\ now = 0

Stored(g) == begun[g] \in DOMAIN documents /\ documents[begun[g]].observation = g

(* The documents of some of the keys.                                         *)
Only(K) == [j \in K |-> documents[j]]

(* g supersedes the current observation of its hash.  Others may be           *)
(* forgotten, and the documents of their hashes with them.                    *)
Begin(g, k) ==
  /\ g \notin DOMAIN begun
  /\ begun' = [x \in DOMAIN begun \cup {g} |-> IF x = g THEN k ELSE begun[x]]
  /\ \E forgotten \in SUBSET current :
       current' = {g} \cup {x \in current \ forgotten : HashOf[begun[x]] # HashOf[k]}
  /\ documents' =
       Only({j \in DOMAIN documents : \E x \in current' : HashOf[begun'[x]] = HashOf[j]})
  /\ UNCHANGED now

(* What an observation finds in its key's place is out of date.               *)
Withdraw(g) ==
  /\ g \in current
  /\ ~ Stored(g)
  /\ documents' = Only(DOMAIN documents \ {begun[g]})
  /\ UNCHANGED <<current, begun, now>>

(* A document takes its place unless it has expired already; what has expired *)
(* goes, and as many others as there is no room for.                          *)
Place(k, document) ==
  /\ k \in DOMAIN documents' <=> now <= document.expires
  /\ k \in DOMAIN documents' => documents'[k] = document
  /\ \A j \in DOMAIN documents' \ {k} :
       j \in DOMAIN documents /\ documents'[j] = documents[j] /\ now <= documents[j].expires

Store(g) ==
  /\ g \in current
  /\ ~ Stored(g)
  /\ \E formats \in SUBSET Formats, observed \in 0 .. now, lifetime \in 1 .. Lifetime :
       Place(begun[g], [observation |-> g, formats |-> formats, observed |-> observed,
                        expires |-> observed + lifetime])
  /\ UNCHANGED <<current, begun, now>>

(* Formats are added to the document of this very observation, which gets no  *)
(* younger by it.                                                             *)
Complete(g) ==
  LET k == begun[g] IN
    /\ g \in current
    /\ Stored(g)
    /\ now <= documents[k].expires
    /\ Place(k, [documents[k] EXCEPT !.formats = Formats])
    /\ UNCHANGED <<current, begun, now>>

(* What has expired may be taken away.                                        *)
Expire(k) ==
  /\ k \in DOMAIN documents
  /\ now > documents[k].expires
  /\ documents' = Only(DOMAIN documents \ {k})
  /\ UNCHANGED <<current, begun, now>>

Tick == now' = now + 1 /\ UNCHANGED <<documents, current, begun>>

Next ==
  \/ \E g \in Observations, k \in Keys : Begin(g, k)
  \/ \E g \in current : Withdraw(g) \/ Store(g) \/ Complete(g)
  \/ \E k \in Keys : Expire(k)
  \/ Tick

Spec == Init /\ [][Next]_documentVars
=============================================================================
