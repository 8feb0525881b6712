----------------------------- MODULE SharedRender -----------------------------
(* What coalesced rendering promises to the callers of Engine::scrape, with   *)
(* no counters, flags, tasks or cancellation: each caller takes part in one   *)
(* shared render at a time; callers of one key share the open one; all its    *)
(* participants get the same answer; it closes when the last participant      *)
(* leaves, or when its leader found the page in the cache and sends           *)
(* everybody back there.  "Cancelled" is not among the answers.               *)
CONSTANTS Callers, FlightKeys, Flights, None

VARIABLES
  ticket,   \* the shared render each caller takes part in
  open,     \* the shared render a newcomer for a key would join
  answer    \* what the participants of a shared render were told

sharedVars == <<ticket, open, answer>>

Answers == {"Rendered", "Failed", "RetryCache"}

Participants(t) == {c \in Callers : ticket[c] = t}
Closed(t) == \A k \in FlightKeys : open[k] # t

Init ==
  /\ ticket = [c \in Callers |-> None]
  /\ open = [k \in FlightKeys |-> None]
  /\ answer = [t \in Flights |-> None]

Start(c, k) ==
  /\ ticket[c] = None
  /\ open[k] = None
  /\ \E t \in Flights :
       /\ Participants(t) = {}
       /\ Closed(t)
       /\ ticket' = [ticket EXCEPT ![c] = t]
       /\ open' = [open EXCEPT ![k] = t]
  /\ UNCHANGED answer

Join(c, k) ==
  /\ ticket[c] = None
  /\ open[k] # None
  /\ ticket' = [ticket EXCEPT ![c] = open[k]]
  /\ UNCHANGED <<open, answer>>

(* The leader detaches the render from its key; nobody can join it any more. *)
Detach(k) ==
  /\ open[k] # None
  /\ answer[open[k]] = None
  /\ open' = [open EXCEPT ![k] = None]
  /\ UNCHANGED <<ticket, answer>>

(* Only a detached render sends its participants back to the cache.          *)
Answer(t, a) ==
  /\ Participants(t) # {}
  /\ answer[t] = None
  /\ (a = "RetryCache") <=> Closed(t)
  /\ answer' = [answer EXCEPT ![t] = a]
  /\ UNCHANGED <<ticket, open>>

Leave(c) ==
  LET t == ticket[c]
      last == Participants(t) = {c}
  IN
    /\ t # None
    /\ ticket' = [ticket EXCEPT ![c] = None]
    /\ open' = [k \in FlightKeys |-> IF last /\ open[k] = t THEN None ELSE open[k]]
    /\ answer' = [answer EXCEPT ![t] = IF last THEN None ELSE @]

Next ==
  \/ \E c \in Callers, k \in FlightKeys : Start(c, k) \/ Join(c, k)
  \/ \E k \in FlightKeys : Detach(k)
  \/ \E t \in Flights, a \in Answers : Answer(t, a)
  \/ \E c \in Callers : Leave(c)

Spec == Init /\ [][Next]_sharedVars
=============================================================================
