-------------------------- MODULE RenderSlotsProofs --------------------------
(* Safety of RenderSlots for any number of render threads and calls.          *)
EXTENDS RenderSlots, FiniteSetTheorems, TLAPS

-----------------------------------------------------------------------------
(* Counting calls and slots                                                  *)

(* There are finitely many calls at a stage, and of slots in a state.        *)
LEMMA FiniteParts ==
  /\ \A stage : IsFiniteSet(Members(stage)) /\ Cardinality(Members(stage)) \in Nat
  /\ IsFiniteSet(Loaded) /\ Cardinality(Loaded) \in Nat
  /\ IsFiniteSet(Busy) /\ Cardinality(Busy) \in Nat
  /\ IsFiniteSet(Working) /\ Cardinality(Working) \in Nat
  /\ IsFiniteSet(PoppedSlots) /\ Cardinality(PoppedSlots) \in Nat
  /\ Cardinality(Slots) \in Nat
  <1>1. \A stage : Members(stage) \in SUBSET Calls
    BY DEF Members
  <1>2. /\ Loaded \in SUBSET Slots /\ Busy \in SUBSET Slots /\ Working \in SUBSET Slots
        /\ PoppedSlots \in SUBSET Slots
    BY DEF Loaded, Busy, Working, PoppedSlots
  <1> QED
    BY <1>1, <1>2, SlotsAssumption, CallsAssumption, FS_Subset, FS_CardinalityType

(* Without idle slots all permits are with calls that popped one, in         *)
(* channels or with threads: none is left for a call that is only admitted.  *)
LEMMA IdleForAdmitted ==
  ASSUME IInv, NEW c \in Calls, call[c] = "admitted"
  PROVE  \E s \in Slots : idle[s] > 0
  <1> SUFFICES ASSUME \A s \in Slots : ~(idle[s] > 0)
               PROVE  FALSE
    OBVIOUS
  <1> USE DEF IInv
  <1>1. Slots = (PoppedSlots \cup Loaded) \cup Working
    BY DEF SlotInOnePlace, PoppedSlots, Loaded, Working
  <1>2. Cardinality(Slots) <= Cardinality(PoppedSlots) + Cardinality(Loaded) + Cardinality(Working)
    <2>1. /\ IsFiniteSet(PoppedSlots \cup Loaded)
          /\ Cardinality(PoppedSlots \cup Loaded) <= Cardinality(PoppedSlots) + Cardinality(Loaded)
      <3>1. Cardinality(PoppedSlots \cap Loaded) \in Nat
        BY FiniteParts, FS_Subset, FS_CardinalityType
      <3>2. /\ IsFiniteSet(PoppedSlots \cup Loaded)
            /\ Cardinality(PoppedSlots \cup Loaded) =
                 Cardinality(PoppedSlots) + Cardinality(Loaded) - Cardinality(PoppedSlots \cap Loaded)
        BY FiniteParts, FS_Union
      <3> QED BY <3>1, <3>2, FiniteParts
    <2>2. Cardinality((PoppedSlots \cup Loaded) \cap Working) \in Nat
      BY <2>1, FiniteParts, FS_Subset, FS_CardinalityType
    <2>3. Cardinality(PoppedSlots \cup Loaded) \in Nat
      BY <2>1, FS_CardinalityType
    <2>4. Cardinality(Slots) = Cardinality(PoppedSlots \cup Loaded) + Cardinality(Working)
                               - Cardinality((PoppedSlots \cup Loaded) \cap Working)
      BY <1>1, <2>1, FiniteParts, FS_Union
    <2> QED BY <2>1, <2>2, <2>3, <2>4, FiniteParts
  <1>3. Cardinality(PoppedSlots) <= Cardinality(Members("popped"))
    <2> DEFINE popped == Members("popped")
               slotOf == [d \in popped |-> taken[d]]
    <2>1. slotOf \in Surjection(popped, PoppedSlots)
      <3>1. slotOf \in [popped -> PoppedSlots]
        BY DEF PoppedSlots, Members, TypeOK, TakenByStage
      <3>2. \A s \in PoppedSlots : \E d \in popped : slotOf[d] = s
        BY DEF PoppedSlots
      <3> QED BY <3>1, <3>2 DEF Surjection
    <2> QED BY <2>1, FiniteParts, FS_Surjection
  <1>4. Cardinality(Working) <= Cardinality(Busy)
    <2>1. Working \in SUBSET Busy
      BY DEF Working, Busy
    <2> QED BY <2>1, FiniteParts, FS_Subset
  <1>5. Cardinality(Members("admitted")) >= 1
    <2>1. Members("admitted") # {}
      BY DEF Members
    <2> QED BY <2>1, FiniteParts, FS_EmptySet
  <1>6. permits \in Nat
    BY FiniteParts DEF TypeOK
  <1> QED BY <1>2, <1>3, <1>4, <1>5, <1>6, FiniteParts DEF PermitsConserved

(* Permits that are conserved cannot exceed max_concurrency.                 *)
LEMMA PermitsBounded ==
  ASSUME PermitsConserved', permits' \in Nat
  PROVE  permits' \in 0 .. Cardinality(Slots)
  <1>1. /\ \A stage : Members(stage)' \in SUBSET Calls
        /\ Loaded' \in SUBSET Slots /\ Busy' \in SUBSET Slots
    BY DEF Members, Loaded, Busy
  <1>2. /\ \A stage : Cardinality(Members(stage)') \in Nat
        /\ Cardinality(Loaded') \in Nat /\ Cardinality(Busy') \in Nat /\ Cardinality(Slots) \in Nat
    BY <1>1, SlotsAssumption, CallsAssumption, FS_Subset, FS_CardinalityType
  <1> QED BY <1>2 DEF PermitsConserved

-----------------------------------------------------------------------------
(* The invariant holds initially                                             *)

(* All permits are available and all slots idle.                             *)
LEMMA InitIInv == Init => IInv
  <1> SUFFICES ASSUME Init PROVE IInv
    OBVIOUS
  <1> USE NoneAssumption, CallsAssumption DEF Init
  <1>1. TypeOK
    BY FiniteParts DEF TypeOK, CallStages, WorkerStages
  <1>2. /\ Members("admitted") = {} /\ Members("popped") = {}
        /\ Loaded = {} /\ Busy = {} /\ Working = {} /\ PoppedSlots = {}
    BY DEF Members, Loaded, Busy, Working, PoppedSlots
  <1>3. PermitsConserved
    BY <1>2, FiniteParts, FS_EmptySet DEF PermitsConserved
  <1>4. SlotInOnePlace /\ PoppedByOne
    BY <1>2 DEF SlotInOnePlace, PoppedByOne
  <1>5. TakenByStage /\ AwaitedWaits /\ BusyHasJob
    BY DEF TakenByStage, AwaitedWaits, BusyHasJob, NoJob
  <1> QED BY <1>1, <1>3, <1>4, <1>5 DEF IInv

-----------------------------------------------------------------------------
(* ... and each action preserves it                                          *)

(* A call that neither takes nor gives up a slot leaves all slots where they *)
(* are: only the permits are to be counted.                                  *)
LEMMA CallMoves ==
  ASSUME IInv, NEW c \in Calls, NEW to \in {"out", "queued", "admitted"},
         call' = [call EXCEPT ![c] = to],
         call[c] \in {"out", "queued", "admitted"},
         queue' \in Seq(Calls), permits' \in Nat,
         idle' = idle, taken' = taken, channel' = channel, worker' = worker, job' = job,
         permits' + Cardinality(Members("admitted")') = permits + Cardinality(Members("admitted"))
  PROVE  IInv'
  <1> USE DEF IInv
  <1>1. PermitsConserved'
    <2>1. Members("popped")' = Members("popped") /\ Loaded' = Loaded /\ Busy' = Busy
      BY DEF Members, Loaded, Busy, TypeOK
    <2>2. Cardinality(Members("popped")') = Cardinality(Members("popped"))
          /\ Cardinality(Loaded') = Cardinality(Loaded) /\ Cardinality(Busy') = Cardinality(Busy)
      BY <2>1
    <2> QED BY <2>2 DEF PermitsConserved
  <1>2. TypeOK'
    BY <1>1, PermitsBounded DEF TypeOK, CallStages
  <1>3. SlotInOnePlace' /\ PoppedByOne'
    <2>1. Members("popped")' = Members("popped")
      BY DEF Members, TypeOK
    <2> QED BY <2>1 DEF SlotInOnePlace, PoppedByOne, PoppedSlots, Loaded, Working
  <1>4. TakenByStage' /\ AwaitedWaits' /\ BusyHasJob'
    BY DEF TakenByStage, AwaitedWaits, BusyHasJob, TypeOK, Jobs, NoJob
  <1> QED BY <1>1, <1>2, <1>3, <1>4

(* Entering, leaving before the job is sent, and being admitted are such     *)
(* moves.                                                                    *)
LEMMA EnterPreserves ==
  ASSUME IInv, NEW c \in Calls, Enter(c)
  PROVE  IInv'
  <1>1. queue' \in Seq(Calls) /\ permits' \in Nat /\ permits' = permits
    BY FiniteParts DEF Enter, IInv, TypeOK
  <1>2. call' = [call EXCEPT ![c] = "queued"] /\ call[c] = "out"
    BY DEF Enter, Stage
  <1>3. Members("admitted")' = Members("admitted")
    BY <1>2 DEF Members, IInv, TypeOK
  <1>4. permits' + Cardinality(Members("admitted")') = permits + Cardinality(Members("admitted"))
    BY <1>1, <1>3
  <1>5. idle' = idle /\ taken' = taken /\ channel' = channel /\ worker' = worker /\ job' = job
    BY DEF Enter
  <1> QED BY <1>1, <1>2, <1>4, <1>5, CallMoves

(* Admission moves one permit from the semaphore to a call.                  *)
LEMMA AdmitPreserves ==
  ASSUME IInv, NEW c \in Calls, Admit(c)
  PROVE  IInv'
  <1>1. queue' \in Seq(Calls) /\ permits \in Nat /\ permits' \in Nat /\ permits' = permits - 1
    BY FiniteParts DEF Admit, IInv, TypeOK
  <1>2. call' = [call EXCEPT ![c] = "admitted"] /\ call[c] = "queued"
    BY DEF Admit, Stage
  <1>3. Cardinality(Members("admitted")') = Cardinality(Members("admitted")) + 1
    <2>1. Members("admitted")' = Members("admitted") \cup {c} /\ c \notin Members("admitted")
      BY <1>2 DEF Members, IInv, TypeOK
    <2> QED BY <2>1, FiniteParts, FS_AddElement
  <1>4. permits' + Cardinality(Members("admitted")') = permits + Cardinality(Members("admitted"))
    BY <1>1, <1>3, FiniteParts
  <1> QED BY <1>1, <1>2, <1>4, CallMoves DEF Admit

(* A call that leaves the queue has no permit to give back.                  *)
LEMMA LeaveQueuePreserves ==
  ASSUME IInv, NEW c \in Calls, LeaveQueue(c)
  PROVE  IInv'
  <1>1. queue' \in Seq(Calls)
    <2>1. PICK i \in DOMAIN queue : queue' = SubSeq(queue, 1, i - 1) \o SubSeq(queue, i + 1, Len(queue))
      BY DEF LeaveQueue, RemoveAt
    <2>2. /\ SubSeq(queue, 1, i - 1) \in Seq(Calls)
          /\ SubSeq(queue, i + 1, Len(queue)) \in Seq(Calls)
      BY DEF IInv, TypeOK
    <2> QED BY <2>1, <2>2
  <1>2. permits' \in Nat /\ permits' = permits
    BY FiniteParts DEF LeaveQueue, IInv, TypeOK
  <1>3. call' = [call EXCEPT ![c] = "out"] /\ call[c] = "queued"
    BY DEF LeaveQueue, Stage
  <1>4. Members("admitted")' = Members("admitted")
    BY <1>3 DEF Members, IInv, TypeOK
  <1>5. permits' + Cardinality(Members("admitted")') = permits + Cardinality(Members("admitted"))
    BY <1>2, <1>4
  <1>6. idle' = idle /\ taken' = taken /\ channel' = channel /\ worker' = worker /\ job' = job
    BY DEF LeaveQueue
  <1> QED BY <1>1, <1>2, <1>3, <1>5, <1>6, CallMoves

(* A call that leaves with a permit gives it back.                           *)
LEMMA LeaveAdmittedPreserves ==
  ASSUME IInv, NEW c \in Calls, LeaveAdmitted(c)
  PROVE  IInv'
  <1>1. queue' \in Seq(Calls) /\ permits \in Nat /\ permits' \in Nat /\ permits' = permits + 1
    BY FiniteParts DEF LeaveAdmitted, IInv, TypeOK
  <1>2. call' = [call EXCEPT ![c] = "out"] /\ call[c] = "admitted"
    BY DEF LeaveAdmitted, Stage
  <1>3. Cardinality(Members("admitted")') = Cardinality(Members("admitted")) - 1
    <2>1. Members("admitted")' = Members("admitted") \ {c} /\ c \in Members("admitted")
      BY <1>2 DEF Members, IInv, TypeOK
    <2> QED BY <2>1, FiniteParts, FS_RemoveElement
  <1>4. permits' + Cardinality(Members("admitted")') = permits + Cardinality(Members("admitted"))
    BY <1>1, <1>3, FiniteParts
  <1> QED BY <1>1, <1>2, <1>4, CallMoves DEF LeaveAdmitted

(* Popping a slot: there is one, and nobody else has it.  The permit goes    *)
(* from the calls that are admitted to those that popped.                    *)
LEMMA PopSlotPreserves ==
  ASSUME IInv, NEW c \in Calls, PopSlot(c)
  PROVE  IInv'
  <1> USE DEF IInv
  <1>1. PICK s \in Slots :
          /\ idle[s] > 0
          /\ idle' = [idle EXCEPT ![s] = idle[s] - 1]
          /\ taken' = [taken EXCEPT ![c] = s]
    BY IdleForAdmitted DEF PopSlot, TypeOK
  <1>2. /\ call[c] = "admitted" /\ call' = [call EXCEPT ![c] = "popped"]
        /\ permits' = permits /\ queue' = queue
        /\ channel' = channel /\ worker' = worker /\ job' = job
    BY IdleForAdmitted DEF PopSlot, TypeOK
  <1>3. idle[s] = 1 /\ s \notin PoppedSlots /\ s \notin Loaded /\ s \notin Working
    BY <1>1 DEF SlotInOnePlace
  <1>4. /\ Members("popped")' = Members("popped") \cup {c}
        /\ Loaded' = Loaded /\ Busy' = Busy /\ Working' = Working
        /\ taken[c] = None
    BY <1>2 DEF Members, Loaded, Busy, Working, TypeOK, TakenByStage
  <1>5. PoppedSlots' = PoppedSlots \cup {s}
    BY <1>1, <1>2, <1>4 DEF PoppedSlots, TypeOK, Members
  <1>6. PermitsConserved'
    <2>1. /\ Cardinality(Members("admitted")') = Cardinality(Members("admitted")) - 1
          /\ Cardinality(Members("popped")') = Cardinality(Members("popped")) + 1
      <3>1. /\ Members("admitted")' = Members("admitted") \ {c} /\ c \in Members("admitted")
            /\ c \notin Members("popped")
        BY <1>2 DEF Members, TypeOK
      <3> QED BY <1>4, <3>1, FiniteParts, FS_RemoveElement, FS_AddElement
    <2>2. Cardinality(Members("admitted")) \in Nat /\ Cardinality(Members("popped")) \in Nat
      BY FiniteParts
    <2>3. permits \in Nat /\ Cardinality(Loaded') = Cardinality(Loaded)
            /\ Cardinality(Busy') = Cardinality(Busy)
      BY <1>4, FiniteParts DEF TypeOK
    <2>4. Cardinality(Members("admitted")') + Cardinality(Members("popped")')
            = Cardinality(Members("admitted")) + Cardinality(Members("popped"))
      BY <2>1, <2>2
    <2>5. /\ Cardinality(Members("admitted")') \in Int /\ Cardinality(Members("popped")') \in Int
          /\ Cardinality(Loaded) \in Nat /\ Cardinality(Busy) \in Nat
      BY <2>1, <2>2, FiniteParts
    <2> QED BY <1>2, <2>2, <2>3, <2>4, <2>5 DEF PermitsConserved
  <1>7. TypeOK'
    BY <1>1, <1>2, <1>3 DEF TypeOK, CallStages
  <1>8. SlotInOnePlace'
    <2>1. \A t \in Slots : idle'[t] = IF t = s THEN 0 ELSE idle[t]
      BY <1>1, <1>3 DEF TypeOK
    <2> QED BY <1>3, <1>4, <1>5, <2>1 DEF SlotInOnePlace
  <1>9. PoppedByOne'
    <2>1. \A d \in Members("popped") : d # c /\ taken'[d] = taken[d] /\ taken[d] # s
      BY <1>1, <1>2, <1>3 DEF Members, PoppedSlots, TypeOK
    <2>2. taken'[c] = s
      BY <1>1 DEF TypeOK
    <2> QED BY <1>4, <2>1, <2>2 DEF PoppedByOne
  <1>10. TakenByStage'
    BY <1>1, <1>2, NoneAssumption DEF TakenByStage, TypeOK
  <1>11. AwaitedWaits'
    BY <1>1, <1>2 DEF AwaitedWaits, TypeOK, Jobs, NoJob
  <1>12. BusyHasJob'
    BY <1>2 DEF BusyHasJob
  <1> QED
    BY <1>6, <1>7, <1>8, <1>9, <1>10, <1>11, <1>12

(* Sending the job: the channel has room.  The permit goes into the channel. *)
LEMMA SendJobPreserves ==
  ASSUME IInv, NEW c \in Calls, SendJob(c)
  PROVE  IInv'
  <1> DEFINE s == taken[c]
             sent == [call |-> c, awaited |-> TRUE]
  <1> USE DEF IInv
  <1>1. call[c] = "popped" /\ s \in Slots /\ c \in Members("popped") /\ s \in PoppedSlots
    BY DEF SendJob, TypeOK, TakenByStage, Members, PoppedSlots
  <1>2. channel[s] = NoJob /\ s \notin Loaded /\ s \notin Working
    BY <1>1 DEF SlotInOnePlace, Loaded
  <1>3. /\ channel' = [channel EXCEPT ![s] = sent]
        /\ call' = [call EXCEPT ![c] = "waiting"]
        /\ permits' = permits /\ queue' = queue /\ idle' = idle
        /\ taken' = taken /\ worker' = worker /\ job' = job
    BY <1>2 DEF SendJob
  <1>4. sent \in Jobs /\ sent # NoJob
    BY DEF Jobs, NoJob
  <1>5. /\ Members("popped")' = Members("popped") \ {c}
        /\ Loaded' = Loaded \cup {s} /\ Busy' = Busy /\ Working' = Working
    BY <1>1, <1>3, <1>4 DEF Members, Loaded, Busy, Working, TypeOK
  <1>6. PoppedSlots' = PoppedSlots \ {s}
    BY <1>1, <1>3, <1>5 DEF PoppedSlots, PoppedByOne
  <1>7. PermitsConserved'
    <2>1. Cardinality(Members("popped")') = Cardinality(Members("popped")) - 1
      BY <1>1, <1>5, FiniteParts, FS_RemoveElement
    <2>2. Cardinality(Loaded') = Cardinality(Loaded) + 1
      BY <1>2, <1>5, FiniteParts, FS_AddElement
    <2>3. Members("admitted")' = Members("admitted")
      BY <1>1, <1>3 DEF Members, TypeOK
    <2>4. Cardinality(Members("admitted")) \in Nat /\ Cardinality(Members("popped")) \in Nat
      BY FiniteParts
    <2>5. permits \in Nat /\ Cardinality(Members("admitted")') = Cardinality(Members("admitted"))
            /\ Cardinality(Busy') = Cardinality(Busy)
      BY <1>5, <2>3, FiniteParts DEF TypeOK
    <2> QED BY <1>3, <2>1, <2>2, <2>4, <2>5, FiniteParts DEF PermitsConserved
  <1>8. TypeOK'
    BY <1>1, <1>3, <1>4 DEF TypeOK, CallStages
  <1>9. SlotInOnePlace'
    BY <1>1, <1>2, <1>3, <1>5, <1>6 DEF SlotInOnePlace
  <1>10. PoppedByOne'
    BY <1>3, <1>5 DEF PoppedByOne
  <1>11. TakenByStage'
    BY <1>1, <1>3 DEF TakenByStage, TypeOK
  <1>12. AwaitedWaits'
    <2>1. call'[c] = "waiting" /\ taken'[c] = s /\ channel'[s] = sent
      BY <1>1, <1>3 DEF TypeOK
    <2>2. \A t \in Slots \ {s} : channel'[t] = channel[t]
      BY <1>3 DEF TypeOK
    <2>3. \A d \in Calls : call[d] = "waiting" => call'[d] = "waiting" /\ taken'[d] = taken[d]
      BY <1>1, <1>3 DEF TypeOK
    <2>4. \A t \in Slots : channel[t].awaited => channel[t].call \in Calls
      BY DEF TypeOK, Jobs, NoJob
    <2>5. \A t \in Slots : worker[t] = "rendering" => job[t].call \in Calls
      BY DEF BusyHasJob, Jobs
    <2> QED BY <1>3, <2>1, <2>2, <2>3, <2>4, <2>5 DEF AwaitedWaits
  <1>13. BusyHasJob'
    BY <1>3 DEF BusyHasJob
  <1> QED
    BY <1>7, <1>8, <1>9, <1>10, <1>11, <1>12, <1>13

(* A waiting call ends, by its own timeout or by the reply: no permit and no *)
(* slot moves, and no job is awaited by a call that is gone.                 *)
LEMMA WaitingEnds ==
  ASSUME IInv, NEW c \in Calls, call[c] = "waiting",
         call' = [call EXCEPT ![c] = "out"], taken' = [taken EXCEPT ![c] = None],
         permits' = permits, queue' = queue, idle' = idle,
         channel' \in [Slots -> Jobs \cup {NoJob}], job' \in [Slots -> Jobs \cup {NoJob}],
         worker' \in [Slots -> WorkerStages], Loaded' = Loaded, Busy' = Busy, Working' = Working,
         AwaitedWaits', BusyHasJob'
  PROVE  IInv'
  <1> USE DEF IInv
  <1>1. /\ Members("admitted")' = Members("admitted")
        /\ Members("popped")' = Members("popped")
        /\ \A d \in Members("popped") : taken'[d] = taken[d]
    BY DEF Members, TypeOK
  <1>2. PoppedSlots' = PoppedSlots
    BY <1>1 DEF PoppedSlots
  <1>3. PermitsConserved'
    BY <1>1 DEF PermitsConserved
  <1>4. TypeOK'
    BY DEF TypeOK, CallStages
  <1>5. SlotInOnePlace' /\ PoppedByOne'
    BY <1>1, <1>2 DEF SlotInOnePlace, PoppedByOne
  <1>6. TakenByStage'
    BY DEF TakenByStage, TypeOK
  <1> QED BY <1>3, <1>4, <1>5, <1>6

(* A call that walks away leaves its job, with the permit, to the thread.    *)
LEMMA LeaveJobPreserves ==
  ASSUME IInv, NEW c \in Calls, LeaveJob(c)
  PROVE  IInv'
  <1> DEFINE s == taken[c]
  <1> USE DEF IInv
  <1>1. /\ call[c] = "waiting" /\ s \in Slots
        /\ call' = [call EXCEPT ![c] = "out"] /\ taken' = [taken EXCEPT ![c] = None]
        /\ channel' = [channel EXCEPT ![s] = Forsaken(channel[s], c)]
        /\ job' = [job EXCEPT ![s] = Forsaken(job[s], c)]
        /\ permits' = permits /\ queue' = queue /\ idle' = idle /\ worker' = worker
    BY DEF LeaveJob, Stage, TypeOK, TakenByStage
  <1>2. ASSUME NEW j \in Jobs \cup {NoJob}
        PROVE  /\ Forsaken(j, c) \in Jobs \cup {NoJob}
               /\ Forsaken(j, c) = NoJob <=> j = NoJob
               /\ Forsaken(j, c).call = j.call
               /\ Forsaken(j, c).awaited => j.awaited /\ j.call # c
    <2>1. CASE j = NoJob
      BY <2>1, NoneAssumption DEF Forsaken, NoJob
    <2>2. CASE j \in Jobs
      <3>1. j.call # None /\ j # NoJob
        BY <2>2, NoneAssumption DEF Jobs, NoJob
      <3>2. /\ Forsaken(j, c) \in Jobs /\ Forsaken(j, c).call = j.call
            /\ Forsaken(j, c).awaited => j.awaited /\ j.call # c
        BY <2>2 DEF Forsaken, Jobs
      <3> QED BY <3>1, <3>2 DEF NoJob
    <2> QED BY <2>1, <2>2
  <1>3. \A t \in Slots :
          /\ channel'[t] = IF t = s THEN Forsaken(channel[t], c) ELSE channel[t]
          /\ job'[t] = IF t = s THEN Forsaken(job[t], c) ELSE job[t]
          /\ channel[t] \in Jobs \cup {NoJob} /\ job[t] \in Jobs \cup {NoJob}
    BY <1>1 DEF TypeOK
  <1>4. channel' \in [Slots -> Jobs \cup {NoJob}] /\ job' \in [Slots -> Jobs \cup {NoJob}]
    BY <1>1, <1>2, <1>3 DEF TypeOK
  <1>5. Loaded' = Loaded /\ Busy' = Busy /\ Working' = Working
    BY <1>1, <1>2, <1>3 DEF Loaded, Busy, Working
  <1>6. AwaitedWaits'
    <2>1. \A d \in Calls \ {c} : call'[d] = call[d] /\ taken'[d] = taken[d]
      BY <1>1 DEF TypeOK
    <2>2. ASSUME NEW t \in Slots, channel'[t].awaited
          PROVE  call'[channel'[t].call] = "waiting" /\ taken'[channel'[t].call] = t
      <3>1. channel[t].awaited /\ channel'[t].call = channel[t].call /\ channel[t] \in Jobs
        BY <1>2, <1>3, <2>2 DEF NoJob
      <3>2. call[channel[t].call] = "waiting" /\ taken[channel[t].call] = t
        BY <3>1 DEF AwaitedWaits
      <3>3. channel[t].call # c
        <4>1. CASE t = s
          BY <4>1, <1>2, <1>3, <2>2
        <4>2. CASE t # s
          BY <4>2, <3>2
        <4> QED BY <4>1, <4>2
      <3> QED BY <2>1, <3>1, <3>2, <3>3 DEF Jobs
    <2>3. ASSUME NEW t \in Slots, worker'[t] = "rendering", job'[t].awaited
          PROVE  call'[job'[t].call] = "waiting" /\ taken'[job'[t].call] = t
      <3>1. job[t].awaited /\ job'[t].call = job[t].call /\ job[t] \in Jobs
        BY <1>2, <1>3, <2>3 DEF NoJob
      <3>2. call[job[t].call] = "waiting" /\ taken[job[t].call] = t
        BY <1>1, <2>3, <3>1 DEF AwaitedWaits
      <3>3. job[t].call # c
        <4>1. CASE t = s
          BY <4>1, <1>2, <1>3, <2>3
        <4>2. CASE t # s
          BY <4>2, <3>2
        <4> QED BY <4>1, <4>2
      <3> QED BY <2>1, <3>1, <3>2, <3>3 DEF Jobs
    <2> QED BY <2>2, <2>3 DEF AwaitedWaits
  <1>7. BusyHasJob'
    <2>1. ASSUME NEW t \in Slots, worker[t] # "free"
          PROVE  job'[t] \in Jobs
      <3>1. job[t] \in Jobs /\ job[t] # NoJob
        BY <2>1, NoneAssumption DEF BusyHasJob, Jobs, NoJob
      <3> QED BY <1>2, <1>3, <3>1
    <2> QED BY <1>1, <2>1 DEF BusyHasJob
  <1>8. worker' \in [Slots -> WorkerStages]
    BY <1>1 DEF TypeOK
  <1> QED BY <1>1, <1>4, <1>5, <1>6, <1>7, <1>8, WaitingEnds

(* The thread takes the job, and its permit, out of its channel.             *)
LEMMA ReceivePreserves ==
  ASSUME IInv, NEW s \in Slots, Receive(s)
  PROVE  IInv'
  <1> USE DEF IInv
  <1>1. /\ channel[s] # NoJob /\ worker[s] = "free"
        /\ worker' = [worker EXCEPT ![s] = "rendering"]
        /\ job' = [job EXCEPT ![s] = channel[s]]
        /\ channel' = [channel EXCEPT ![s] = NoJob]
        /\ permits' = permits /\ queue' = queue /\ idle' = idle
        /\ call' = call /\ taken' = taken
    BY DEF Receive, Work
  <1>2. /\ channel[s] \in Jobs /\ s \in Loaded /\ s \notin Busy
        /\ s \notin Working /\ s \notin PoppedSlots
    BY <1>1 DEF TypeOK, Loaded, Busy, SlotInOnePlace, Working
  <1>3. /\ Loaded' = Loaded \ {s} /\ Busy' = Busy \cup {s} /\ Working' = Working \cup {s}
        /\ \A stage : Members(stage)' = Members(stage)
        /\ PoppedSlots' = PoppedSlots
    BY <1>1 DEF Loaded, Busy, Working, Members, PoppedSlots, TypeOK
  <1>4. PermitsConserved'
    <2>1. /\ Cardinality(Loaded') = Cardinality(Loaded) - 1
          /\ Cardinality(Busy') = Cardinality(Busy) + 1
      BY <1>2, <1>3, FiniteParts, FS_AddElement, FS_RemoveElement
    <2>2. /\ Cardinality(Members("admitted")') = Cardinality(Members("admitted"))
          /\ Cardinality(Members("popped")') = Cardinality(Members("popped"))
          /\ permits \in Nat
      BY <1>3, FiniteParts DEF TypeOK
    <2>3. Cardinality(Members("admitted")) \in Nat /\ Cardinality(Members("popped")) \in Nat
      BY FiniteParts
    <2> QED BY <1>1, <2>1, <2>2, <2>3, FiniteParts DEF PermitsConserved
  <1>5. TypeOK'
    BY <1>1, <1>2 DEF TypeOK, WorkerStages
  <1>6. SlotInOnePlace'
    BY <1>1, <1>2, <1>3 DEF SlotInOnePlace
  <1>7. PoppedByOne' /\ TakenByStage'
    BY <1>1, <1>3 DEF PoppedByOne, TakenByStage
  <1>8. AwaitedWaits'
    <2>1. \A t \in Slots : /\ channel'[t] = IF t = s THEN NoJob ELSE channel[t]
                           /\ job'[t] = IF t = s THEN channel[t] ELSE job[t]
                           /\ worker'[t] = IF t = s THEN "rendering" ELSE worker[t]
      BY <1>1 DEF TypeOK
    <2> QED BY <1>1, <2>1 DEF AwaitedWaits, NoJob
  <1>9. BusyHasJob'
    BY <1>1, <1>2 DEF BusyHasJob, TypeOK
  <1> QED BY <1>4, <1>5, <1>6, <1>7, <1>8, <1>9

(* The reply ends the call that waits for it, if there is one.               *)
LEMMA ReplyPreserves ==
  ASSUME IInv, NEW s \in Slots, Reply(s)
  PROVE  IInv'
  <1> DEFINE c == job[s].call
  <1> USE DEF IInv
  <1>1. /\ worker[s] = "rendering" /\ worker' = [worker EXCEPT ![s] = "replied"]
        /\ permits' = permits /\ queue' = queue /\ idle' = idle
        /\ channel' = channel /\ job' = job
    BY DEF Reply, Work
  <1>2. Loaded' = Loaded /\ Busy' = Busy /\ Working' = Working
    BY <1>1 DEF Loaded, Busy, Working, TypeOK
  <1>3. BusyHasJob' /\ worker' \in [Slots -> WorkerStages] /\ c \in Calls
    BY <1>1 DEF BusyHasJob, TypeOK, WorkerStages, Jobs
  <1>4. CASE job[s].awaited
    <2>1. /\ call[c] = "waiting" /\ taken[c] = s
          /\ call' = [call EXCEPT ![c] = "out"] /\ taken' = [taken EXCEPT ![c] = None]
      BY <1>1, <1>4 DEF Reply, AwaitedWaits
    <2>2. s \notin Loaded
      BY <1>1 DEF SlotInOnePlace, Working
    <2>3. \A d \in Calls \ {c} : call'[d] = call[d] /\ taken'[d] = taken[d]
      BY <2>1 DEF TypeOK
    <2>4. \A t \in Slots : channel[t].awaited => t # s /\ channel[t].call \in Calls
      BY <2>2 DEF Loaded, TypeOK, Jobs, NoJob
    <2>5. \A t \in Slots : worker'[t] = "rendering" =>
             t # s /\ worker[t] = "rendering" /\ job[t].call \in Calls
      BY <1>1 DEF TypeOK, BusyHasJob, Jobs
    <2>6. AwaitedWaits'
      BY <1>1, <2>1, <2>3, <2>4, <2>5 DEF AwaitedWaits
    <2> QED BY <1>1, <1>2, <1>3, <2>1, <2>6, WaitingEnds DEF TypeOK
  <1>5. CASE ~job[s].awaited
    <2>1. call' = call /\ taken' = taken
      BY <1>5 DEF Reply
    <2>2. PermitsConserved' /\ SlotInOnePlace' /\ PoppedByOne' /\ TakenByStage'
      BY <1>1, <1>2, <2>1
         DEF PermitsConserved, SlotInOnePlace, PoppedByOne, TakenByStage, Members, PoppedSlots
    <2>3. AwaitedWaits'
      BY <1>1, <2>1 DEF AwaitedWaits, TypeOK
    <2>4. TypeOK'
      BY <1>1, <1>3, <2>1 DEF TypeOK
    <2> QED BY <1>3, <2>2, <2>3, <2>4
  <1> QED BY <1>4, <1>5

(* The slot goes back on the idle list, while its permit stays where it is.  *)
LEMMA PublishPreserves ==
  ASSUME IInv, NEW s \in Slots, Publish(s)
  PROVE  IInv'
  <1> USE DEF IInv
  <1>1. /\ worker[s] = "replied" /\ worker' = [worker EXCEPT ![s] = "published"]
        /\ idle' = [idle EXCEPT ![s] = idle[s] + 1]
        /\ permits' = permits /\ queue' = queue /\ call' = call /\ taken' = taken
        /\ channel' = channel /\ job' = job
    BY DEF Publish, Work, TypeOK
  <1>2. s \in Working /\ idle[s] = 0 /\ s \notin PoppedSlots \cup Loaded
    BY <1>1 DEF Working, SlotInOnePlace
  <1>3. /\ Working' = Working \ {s} /\ Loaded' = Loaded /\ Busy' = Busy
        /\ PoppedSlots' = PoppedSlots /\ \A stage : Members(stage)' = Members(stage)
    BY <1>1 DEF Working, Loaded, Busy, PoppedSlots, Members, TypeOK
  <1>4. PermitsConserved' /\ PoppedByOne' /\ TakenByStage'
    BY <1>1, <1>3 DEF PermitsConserved, PoppedByOne, TakenByStage
  <1>5. TypeOK'
    BY <1>1 DEF TypeOK, WorkerStages
  <1>6. SlotInOnePlace'
    <2>1. \A t \in Slots : idle'[t] = IF t = s THEN 1 ELSE idle[t]
      BY <1>1, <1>2 DEF TypeOK
    <2> QED BY <1>2, <1>3, <2>1 DEF SlotInOnePlace
  <1>7. AwaitedWaits' /\ BusyHasJob'
    BY <1>1 DEF AwaitedWaits, BusyHasJob, TypeOK
  <1> QED BY <1>4, <1>5, <1>6, <1>7

(* The permit goes back to the semaphore with the end of the job.            *)
LEMMA DropPermitPreserves ==
  ASSUME IInv, NEW s \in Slots, DropPermit(s)
  PROVE  IInv'
  <1> USE DEF IInv
  <1>1. /\ worker[s] = "published" /\ worker' = [worker EXCEPT ![s] = "free"]
        /\ job' = [job EXCEPT ![s] = NoJob]
        /\ permits' = permits + 1
        /\ queue' = queue /\ call' = call /\ taken' = taken
        /\ channel' = channel /\ idle' = idle
    BY DEF DropPermit, Work
  <1>2. /\ Working' = Working /\ Loaded' = Loaded
        /\ Busy' = Busy \ {s} /\ s \in Busy
        /\ PoppedSlots' = PoppedSlots /\ \A stage : Members(stage)' = Members(stage)
    BY <1>1 DEF Working, Loaded, Busy, PoppedSlots, Members, TypeOK
  <1>3. PermitsConserved' /\ permits' \in Nat
    <2>1. Cardinality(Busy') = Cardinality(Busy) - 1
      BY <1>2, FiniteParts, FS_RemoveElement
    <2>2. /\ Cardinality(Members("admitted")') = Cardinality(Members("admitted"))
          /\ Cardinality(Members("popped")') = Cardinality(Members("popped"))
          /\ Cardinality(Loaded') = Cardinality(Loaded)
          /\ permits \in Nat
      BY <1>2, FiniteParts DEF TypeOK
    <2>3. Cardinality(Members("admitted")) \in Nat /\ Cardinality(Members("popped")) \in Nat
      BY FiniteParts
    <2> QED BY <1>1, <2>1, <2>2, <2>3, FiniteParts DEF PermitsConserved
  <1>4. TypeOK'
    BY <1>1, <1>3, PermitsBounded DEF TypeOK, WorkerStages
  <1>5. SlotInOnePlace' /\ PoppedByOne' /\ TakenByStage'
    BY <1>1, <1>2 DEF SlotInOnePlace, PoppedByOne, TakenByStage
  <1>6. AwaitedWaits' /\ BusyHasJob'
    BY <1>1 DEF AwaitedWaits, BusyHasJob, TypeOK, NoJob
  <1> QED BY <1>3, <1>4, <1>5, <1>6

-----------------------------------------------------------------------------
(* The theorems                                                              *)

(* Every step keeps the invariant.                                           *)
LEMMA NextPreserves == IInv /\ [Next]_vars => IInv'
  <1> SUFFICES ASSUME IInv, [Next]_vars
               PROVE  IInv'
    OBVIOUS
  <1>1. CASE UNCHANGED vars
    BY <1>1 DEF vars, IInv, TypeOK, PermitsConserved, SlotInOnePlace, PoppedByOne, TakenByStage,
                AwaitedWaits, BusyHasJob, Members, Loaded, Busy, PoppedSlots, Working
  <1>2. ASSUME NEW c \in Calls, Enter(c) \/ CallStep(c) \/ Leave(c)
        PROVE  IInv'
    BY <1>2, EnterPreserves, AdmitPreserves, PopSlotPreserves, SendJobPreserves,
       LeaveQueuePreserves, LeaveAdmittedPreserves, LeaveJobPreserves DEF CallStep, Leave
  <1>3. ASSUME NEW s \in Slots, WorkerStep(s)
        PROVE  IInv'
    BY <1>3, ReceivePreserves, ReplyPreserves, PublishPreserves, DropPermitPreserves
       DEF WorkerStep
  <1> QED BY <1>1, <1>2, <1>3 DEF Next

(* The inductive invariant of the render slots holds always.                 *)
THEOREM Invariance == Spec => []IInv
  BY InitIInv, NextPreserves, PTL DEF Spec

(* Permits, slots, channels and calls have their types; in particular no     *)
(* more permits are available than there are slots.                          *)
THEOREM TypeCorrect == Spec => []TypeOK
  <1>1. IInv => TypeOK
    BY DEF IInv
  <1> QED BY <1>1, Invariance, PTL

(* No permit is lost or doubled, whichever callers walk away and when.       *)
THEOREM NoPermitLost == Spec => []PermitsConserved
  <1>1. IInv => PermitsConserved
    BY DEF IInv
  <1> QED BY <1>1, Invariance, PTL

(* A caller holding a permit always finds a free slot, for any number of     *)
(* slots and callers.                                                        *)
THEOREM PermitsFindSlots == Spec => []PermitFindsSlot
  <1>1. IInv => PermitFindsSlot
    BY IdleForAdmitted DEF PermitFindsSlot
  <1> QED BY <1>1, Invariance, PTL

(* try_send never fails on a popped slot.                                    *)
THEOREM SendNeverFails == Spec => []PoppedHasRoom
  <1>1. IInv => PoppedHasRoom
    BY DEF IInv, PoppedHasRoom, SlotInOnePlace, PoppedByOne, PoppedSlots, Loaded, Members,
           TakenByStage, TypeOK
  <1> QED BY <1>1, Invariance, PTL
=============================================================================
