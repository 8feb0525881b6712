----------------------------- MODULE RenderSlots -----------------------------
(* Admission to the browser: BrowserManager::render and warm_up_once of       *)
(* scorch-engine/src/browser/mod.rs, and the render slots of browser/         *)
(* obscura.rs, each a long-lived thread with a channel for one job.          *)
(*                                                                           *)
(* A caller queues for a permit of the semaphore, pops an idle slot, sends   *)
(* its job with the permit inside, and waits; it may walk away meanwhile.    *)
(* The thread renders, replies, publishes its slot as idle, and only then    *)
(* drops the permit.  Rendering, and what slots keep between renders, is not *)
(* modelled; a thread whose runtime could not be built neither.              *)
EXTENDS Integers, SequencesExt

CONSTANTS
  Calls,    \* calls of BrowserManager::render, and the warm-up
  WarmUp,   \* the call of warm_up_once
  Slots,    \* render threads; their number is max_concurrency
  None

ASSUME SlotsAssumption == IsFiniteSet(Slots)
ASSUME CallsAssumption == IsFiniteSet(Calls) /\ WarmUp \in Calls
ASSUME NoneAssumption == None \notin Calls \cup Slots

(* Where a call is: queued at the semaphore, with its permit, with the slot  *)
(* it popped, or waiting for the reply to the job it sent.                   *)
CallStages == {"out", "queued", "admitted", "popped", "waiting"}

(* What a slot's thread does: blocked on its channel, or on its way through  *)
(* a job.                                                                    *)
WorkerStages == {"free", "rendering", "replied", "published"}

(* Job: whose it is, and whether its reply channel still has a receiver.     *)
Jobs == [call : Calls, awaited : BOOLEAN]
NoJob == [call |-> None, awaited |-> FALSE]

VARIABLES
  permits,   \* available permits of the semaphore
  queue,     \* calls that wait for one; tokio's semaphore serves them in order
  idle,      \* how often the idle list holds each slot; its order is not modelled
  call,      \* where each call is
  taken,     \* the slot a call popped, until its job has ended or it left
  channel,   \* the job in each slot's channel
  worker,    \* what each slot's thread does
  job        \* ... and the job it does it for

vars == <<permits, queue, idle, call, taken, channel, worker, job>>

TypeOK ==
  /\ permits \in 0 .. Cardinality(Slots)
  /\ queue \in Seq(Calls)
  /\ idle \in [Slots -> Nat]
  /\ call \in [Calls -> CallStages]
  /\ taken \in [Calls -> Slots \cup {None}]
  /\ channel \in [Slots -> Jobs \cup {NoJob}]
  /\ worker \in [Slots -> WorkerStages]
  /\ job \in [Slots -> Jobs \cup {NoJob}]

(* BrowserManager::new has made its semaphore and slots, and warms up.       *)
Init ==
  /\ permits = Cardinality(Slots)
  /\ queue = <<WarmUp>>
  /\ idle = [s \in Slots |-> 1]
  /\ call = [c \in Calls |-> IF c = WarmUp THEN "queued" ELSE "out"]
  /\ taken = [c \in Calls |-> None]
  /\ channel = [s \in Slots |-> NoJob]
  /\ worker = [s \in Slots |-> "free"]
  /\ job = [s \in Slots |-> NoJob]

-----------------------------------------------------------------------------
(* The caller                                                                *)

Stage(c, from, to) == call[c] = from /\ call' = [call EXCEPT ![c] = to]

(* The URL is valid.  new() returns the manager when the warm-up is over.    *)
Enter(c) ==
  /\ c # WarmUp
  /\ call[WarmUp] = "out"
  /\ Stage(c, "out", "queued")
  /\ queue' = Append(queue, c)
  /\ UNCHANGED <<permits, idle, taken, channel, worker, job>>

Admit(c) ==
  /\ permits > 0
  /\ queue # <<>> /\ Head(queue) = c
  /\ Stage(c, "queued", "admitted")
  /\ queue' = Tail(queue)
  /\ permits' = permits - 1
  /\ UNCHANGED <<idle, taken, channel, worker, job>>

Fail(c) ==
  /\ call' = [call EXCEPT ![c] = "out"]
  /\ taken' = [taken EXCEPT ![c] = None]
  /\ permits' = permits + 1
  /\ UNCHANGED <<queue, idle, channel, worker, job>>

(* Without an idle slot the call fails, and its permit is dropped.           *)
PopSlot(c) ==
  /\ call[c] = "admitted"
  /\ IF \A s \in Slots : idle[s] = 0 THEN Fail(c)
     ELSE /\ \E s \in Slots :
               /\ idle[s] > 0
               /\ idle' = [idle EXCEPT ![s] = @ - 1]
               /\ taken' = [taken EXCEPT ![c] = s]
          /\ call' = [call EXCEPT ![c] = "popped"]
          /\ UNCHANGED <<permits, queue, channel, worker, job>>

(* try_send, on a channel of capacity one: a refused job drops its permit,   *)
(* and the slot is not given back.                                           *)
SendJob(c) ==
  /\ call[c] = "popped"
  /\ IF channel[taken[c]] # NoJob THEN Fail(c)
     ELSE /\ channel' = [channel EXCEPT ![taken[c]] = [call |-> c, awaited |-> TRUE]]
          /\ call' = [call EXCEPT ![c] = "waiting"]
          /\ UNCHANGED <<permits, queue, idle, taken, worker, job>>

(* The call's timeout, or the drop of its future, at one of its awaits.  The *)
(* warm-up has no timeout of its own on the semaphore.                       *)
LeaveQueue(c) ==
  /\ c # WarmUp
  /\ Stage(c, "queued", "out")
  /\ \E i \in DOMAIN queue : queue[i] = c /\ queue' = RemoveAt(queue, i)
  /\ UNCHANGED <<permits, idle, taken, channel, worker, job>>

LeaveAdmitted(c) ==
  /\ c # WarmUp
  /\ Stage(c, "admitted", "out")
  /\ permits' = permits + 1
  /\ UNCHANGED <<queue, idle, taken, channel, worker, job>>

Forsaken(j, c) == IF j.call = c THEN [j EXCEPT !.awaited = FALSE] ELSE j

LeaveWithPermit(c) ==
  /\ Stage(c, "waiting", "out")
  /\ taken' = [taken EXCEPT ![c] = None]
  /\ channel' = [channel EXCEPT ![taken[c]] = Forsaken(@, c)]
  /\ job' = [job EXCEPT ![taken[c]] = Forsaken(@, c)]
  /\ permits' = permits + 1
  /\ UNCHANGED <<queue, idle, worker>>

(* The job goes on, wherever it is, and keeps its permit.                    *)
LeaveJob(c) ==
  /\ Stage(c, "waiting", "out")
  /\ taken' = [taken EXCEPT ![c] = None]
  /\ channel' = [channel EXCEPT ![taken[c]] = Forsaken(@, c)]
  /\ job' = [job EXCEPT ![taken[c]] = Forsaken(@, c)]
  /\ UNCHANGED <<permits, queue, idle, worker>>

-----------------------------------------------------------------------------
(* The slot's thread                                                         *)

Work(s, from, to) == worker[s] = from /\ worker' = [worker EXCEPT ![s] = to]

ReceiveAndPublish(s) ==
  /\ channel[s] # NoJob
  /\ Work(s, "free", "rendering")
  /\ job' = [job EXCEPT ![s] = channel[s]]
  /\ channel' = [channel EXCEPT ![s] = NoJob]
  /\ idle' = [idle EXCEPT ![s] = @ + 1]
  /\ UNCHANGED <<permits, queue, call, taken>>

Receive(s) ==
  /\ channel[s] # NoJob
  /\ Work(s, "free", "rendering")
  /\ job' = [job EXCEPT ![s] = channel[s]]
  /\ channel' = [channel EXCEPT ![s] = NoJob]
  /\ UNCHANGED <<permits, queue, idle, call, taken>>

(* The render is over, well or badly, and its caller has the result if it is *)
(* still there.                                                              *)
Reply(s) ==
  /\ Work(s, "rendering", "replied")
  /\ LET c == job[s].call IN
       IF job[s].awaited
       THEN /\ call' = [call EXCEPT ![c] = "out"]
            /\ taken' = [taken EXCEPT ![c] = None]
       ELSE UNCHANGED <<call, taken>>
  /\ UNCHANGED <<permits, queue, idle, channel, job>>

PublishIfAwaited(s) ==
  /\ Work(s, "replied", "published")
  /\ idle' = IF job[s].awaited THEN [idle EXCEPT ![s] = @ + 1] ELSE idle
  /\ UNCHANGED <<permits, queue, call, taken, channel, job>>

Publish(s) ==
  /\ Work(s, "replied", "published")
  /\ idle' = [idle EXCEPT ![s] = @ + 1]
  /\ UNCHANGED <<permits, queue, call, taken, channel, job>>

KeepPermit(s) ==
  /\ Work(s, "published", "free")
  /\ job' = [job EXCEPT ![s] = NoJob]
  /\ UNCHANGED <<permits, queue, idle, call, taken, channel>>

DropPermit(s) ==
  /\ Work(s, "published", "free")
  /\ job' = [job EXCEPT ![s] = NoJob]
  /\ permits' = permits + 1
  /\ UNCHANGED <<queue, idle, call, taken, channel>>

-----------------------------------------------------------------------------

CallStep(c) == Admit(c) \/ PopSlot(c) \/ SendJob(c)

Leave(c) == LeaveQueue(c) \/ LeaveAdmitted(c) \/ LeaveJob(c)

WorkerStep(s) == Receive(s) \/ Reply(s) \/ Publish(s) \/ DropPermit(s)

Next ==
  \/ \E c \in Calls : Enter(c) \/ CallStep(c) \/ Leave(c)
  \/ \E s \in Slots : WorkerStep(s)

Spec == Init /\ [][Next]_vars

(* A task woken by the semaphore is polled and runs on to its next await; a  *)
(* render ends, because every step of render_page is bounded by its timeout, *)
(* and the thread runs on.  Nothing is assumed of callers that leave.        *)
Fairness ==
  /\ \A c \in Calls : WF_vars(CallStep(c))
  /\ \A s \in Slots : WF_vars(WorkerStep(s))

FairSpec == Spec /\ Fairness

-----------------------------------------------------------------------------
(* Properties                                                                *)

Members(stage) == {c \in Calls : call[c] = stage}
Loaded == {s \in Slots : channel[s] # NoJob}
Busy == {s \in Slots : worker[s] # "free"}

(* Every permit is somewhere, once: available, with a call about to send its *)
(* job, in a channel, or with a thread.  No caller that leaves takes one     *)
(* along, or gives back one whose job goes on.                               *)
PermitsConserved ==
  permits + Cardinality(Members("admitted")) + Cardinality(Members("popped"))
    + Cardinality(Loaded) + Cardinality(Busy) = Cardinality(Slots)

(* "A caller holding a permit always finds a free slot", although permits    *)
(* and slots are counted apart and given back at different moments.          *)
PermitFindsSlot ==
  \A c \in Calls : call[c] = "admitted" => \E s \in Slots : idle[s] > 0

(* A popped slot is nobody else's, and its channel has room: try_send never  *)
(* fails, so that no slot is lost.                                           *)
PoppedHasRoom ==
  \A c \in Calls :
    call[c] = "popped" =>
      /\ channel[taken[c]] = NoJob
      /\ \A d \in Calls \ {c} : call[d] = "popped" => taken[d] # taken[c]

(* The inductive invariant behind these.                                     *)

PoppedSlots == {s \in Slots : \E c \in Members("popped") : taken[c] = s}
Working == {s \in Slots : worker[s] \in {"rendering", "replied"}}

(* A slot is in one place: on the idle list, popped, loaded, or at work.     *)
SlotInOnePlace ==
  \A s \in Slots :
    /\ idle[s] = IF s \in PoppedSlots \cup Loaded \cup Working THEN 0 ELSE 1
    /\ s \in PoppedSlots => s \notin Loaded \cup Working
    /\ s \in Loaded => s \notin Working

PoppedByOne ==
  \A c, d \in Members("popped") : taken[c] = taken[d] => c = d

TakenByStage ==
  \A c \in Calls : taken[c] # None <=> call[c] \in {"popped", "waiting"}

(* A job whose reply is awaited is that of a call waiting for this slot.     *)
AwaitedWaits ==
  \A s \in Slots :
    /\ channel[s].awaited => call[channel[s].call] = "waiting" /\ taken[channel[s].call] = s
    /\ worker[s] = "rendering" /\ job[s].awaited
         => call[job[s].call] = "waiting" /\ taken[job[s].call] = s

BusyHasJob == \A s \in Slots : worker[s] # "free" => job[s] \in Jobs

IInv ==
  /\ TypeOK
  /\ PermitsConserved
  /\ SlotInOnePlace
  /\ PoppedByOne
  /\ TakenByStage
  /\ AwaitedWaits
  /\ BusyHasJob

(* Whoever asks for a render is done with it some day: it is admitted in its *)
(* turn, however many callers walk away from theirs.                         *)
CallsEnd == \A c \in Calls : call[c] # "out" ~> call[c] = "out"

-----------------------------------------------------------------------------
(* What the repository says and the code does not do                         *)

(* warm_up: "Doing one render here forces the initialisation to completion   *)
(* while nothing else can be running".  The warm-up waits for the reply for  *)
(* thirty seconds only and its failure is ignored; then new() returns while  *)
(* the first render goes on.                                                 *)
ColdRenderAlone ==
  \A s, t \in Slots :
    s # t /\ worker[s] = "rendering" /\ worker[t] = "rendering" => job[s].call # WarmUp
=============================================================================
