--------------------------- MODULE CrawlJobsProofs ---------------------------
(* A reader of a crawl misses nothing, its progress adds up and its frontier  *)
(* loses no page: proved for any jobs, sites, limits and page sizes, whatever *)
(* is deleted, expires or times out meanwhile.                                *)
EXTENDS CrawlJobs, SequenceTheorems, FiniteSetTheorems, WellFoundedInduction, TLAPS

-----------------------------------------------------------------------------
(* The inductive invariant.                                                   *)

JobFields == {"status", "expires", "total", "completed", "documents", "errors", "bytes"}
TaskFields == {"at", "request", "deadline", "permit", "robots", "queue", "seen", "active"}

JobsShaped ==
  /\ DOMAIN jobs = Jobs
  /\ \A j \in Jobs : Stored(j) => DOMAIN jobs[j] = JobFields /\ jobs[j].documents \in Seq(Pages)

TasksShaped ==
  /\ DOMAIN task = Jobs
  /\ \A j \in Jobs : At(j, "none") \/ At(j, "over") \/ DOMAIN task[j] = TaskFields

ReadingShaped == reading \in [job : Jobs \cup {None}, read : Seq(Pages), all : BOOLEAN]

(* Nothing of a job is there before it is started, and nothing comes after    *)
(* its final status.                                                          *)
NotStarted == \A j \in Jobs : At(j, "none") => ~Stored(j) /\ reading.job # j
FinalIsOver == \A j \in Jobs : Stored(j) /\ jobs[j].status \in Finals => At(j, "over")

(* What was read is no more than there is.                                    *)
ReadWithin ==
  LET j == reading.job IN
    j # None /\ Stored(j) => Len(reading.read) <= Len(jobs[j].documents)

ReaderInv ==
  /\ JobsShaped /\ TasksShaped /\ ReadingShaped
  /\ NotStarted /\ FinalIsOver /\ ReadWithin /\ ReaderHasAll

-----------------------------------------------------------------------------
(* Beginnings of sequences.                                                   *)

Begins(s, t) == Len(s) <= Len(t) /\ s = SubSeq(t, 1, Len(s))

(* What begins a sequence begins it still when it has grown.                  *)
LEMMA BeginsLonger ==
  ASSUME NEW s \in Seq(Pages), NEW t \in Seq(Pages), NEW p \in Pages, Begins(s, t)
  PROVE  Begins(s, Append(t, p))
<1>1. Len(s) \in Nat /\ Len(t) \in Nat /\ Len(Append(t, p)) = Len(t) + 1
  OBVIOUS
<1>2. /\ Append(t, p) \in Seq(Pages)
      /\ \A i \in 1 .. Len(t) : Append(t, p)[i] = t[i]
  OBVIOUS
<1>3. SubSeq(t, 1, Len(s)) = SubSeq(Append(t, p), 1, Len(s))
  BY <1>1, <1>2 DEF Begins
<1> QED
  BY <1>1, <1>3 DEF Begins

(* A page that is read goes on where the reading stopped.                     *)
LEMMA BeginsFurther ==
  ASSUME NEW s \in Seq(Pages), NEW t \in Seq(Pages), Begins(s, t), NEW end \in Len(s) .. Len(t)
  PROVE  LET u == s \o SubSeq(t, Len(s) + 1, end) IN
           u \in Seq(Pages) /\ Len(u) = end /\ Begins(u, t)
<1> DEFINE n == Len(s)
           u == s \o SubSeq(t, n + 1, end)
<1>1. n \in Nat /\ end \in Nat /\ Len(t) \in Nat /\ n <= end /\ end <= Len(t)
  BY DEF Begins
<1>2. s = SubSeq(t, 1, n)
  BY DEF Begins
<1>3. SubSeq(t, 1, n) \o SubSeq(t, n + 1, end) = SubSeq(t, 1, end)
  <2>1. 1 \in 1 .. Len(t) + 1 /\ n \in 1 - 1 .. Len(t) /\ end \in n .. Len(t)
    BY <1>1
  <2> HIDE DEF n
  <2> QED
    BY <2>1, ConcatAdjacentSubSeq
<1>4. u = SubSeq(t, 1, end)
  BY <1>2, <1>3
<1>5. u \in Seq(Pages) /\ Len(u) = end
  <2> HIDE DEF u
  <2> QED
    BY <1>1, <1>4
<1> QED
  BY <1>1, <1>4, <1>5 DEF Begins

(* The two parts about the reader, in these terms.                            *)
LEMMA ReaderBegins ==
  ReadWithin /\ ReaderHasAll <=>
    LET j == reading.job IN
      j # None /\ Stored(j) =>
        /\ Begins(reading.read, jobs[j].documents)
        /\ reading.all => Len(reading.read) = Len(jobs[j].documents) /\ jobs[j].status \in Finals
BY DEF ReadWithin, ReaderHasAll, Begins

-----------------------------------------------------------------------------
(* Kinds of steps.                                                            *)

LEMMA InitReader == Init => ReaderInv
<1> SUFFICES ASSUME Init PROVE ReaderInv
  OBVIOUS
<1>1. /\ reading.job = None /\ \A j \in Jobs : ~Stored(j) /\ At(j, "none")
      /\ ReadingShaped
  BY DEF Init, Closed, NoTask, Stored, At, ReadingShaped
<1>2. DOMAIN jobs = Jobs /\ DOMAIN task = Jobs
  BY DEF Init
<1> QED
  BY <1>1, <1>2, CrawlAssumption
     DEF ReaderInv, JobsShaped, TasksShaped, NotStarted, FinalIsOver, ReadWithin, ReaderHasAll

(* Jobs are removed.                                                          *)
Pruned(new) == DOMAIN new = Jobs /\ \A j \in Jobs : new[j] \in {None, jobs[j]}

LEMMA CleanedPruned == Pruned(Cleaned)
BY DEF Pruned, Cleaned

LEMMA PruneStep ==
  ASSUME ReaderInv, Pruned(jobs'), UNCHANGED <<task, reading>>
  PROVE  ReaderInv'
<1> USE DEF ReaderInv, Pruned
<1>1. \A j \in Jobs : Stored(j)' => Stored(j) /\ jobs'[j] = jobs[j]
  BY DEF Stored
<1>2. JobsShaped' /\ TasksShaped' /\ ReadingShaped'
  BY <1>1 DEF JobsShaped, TasksShaped, ReadingShaped, At
<1>3. NotStarted' /\ FinalIsOver'
  BY <1>1 DEF NotStarted, FinalIsOver, At
<1>4. ReadWithin' /\ ReaderHasAll'
  BY <1>1 DEF ReadWithin, ReaderHasAll, ReadingShaped
<1> QED
  BY <1>2, <1>3, <1>4

(* A task goes on and may change its job, to which it adds at most a page, as *)
(* long as it is not over.                                                    *)
Goes(j, job) ==
  /\ j \in Jobs /\ ~At(j, "none") /\ ~At(j, "over")
  /\ jobs' = [jobs EXCEPT ![j] = job] \/ jobs' = jobs
  /\ Stored(j) /\ jobs' # jobs =>
       /\ DOMAIN job = JobFields
       /\ \/ job.documents = jobs[j].documents
          \/ \E p \in Pages : job.documents = Append(jobs[j].documents, p)
       /\ job.status \in Finals => task'[j].at = "over"
  /\ ~Stored(j) => jobs' = jobs
  /\ DOMAIN task' = Jobs /\ \A i \in Jobs \ {j} : task'[i] = task[i]
  /\ task'[j].at # "none"
  /\ task'[j].at = "over" \/ DOMAIN task'[j] = TaskFields
  /\ reading' = reading

LEMMA TaskStep ==
  ASSUME ReaderInv, NEW j, NEW job, Goes(j, job)
  PROVE  ReaderInv'
<1> USE DEF ReaderInv, Goes
<1>1. /\ DOMAIN jobs' = Jobs /\ DOMAIN task' = Jobs
      /\ \A i \in Jobs : i # j => jobs'[i] = jobs[i] /\ task'[i] = task[i]
      /\ jobs'[j] \in {job, jobs[j]}
  BY DEF JobsShaped, TasksShaped
<1>2. \A i \in Jobs : Stored(i)' => Stored(i)
  BY <1>1 DEF Stored
<1>3. ASSUME Stored(j)'
      PROVE  /\ DOMAIN jobs'[j] = JobFields
             /\ jobs[j].documents \in Seq(Pages)
             /\ \/ jobs'[j].documents = jobs[j].documents
                \/ \E p \in Pages : jobs'[j].documents = Append(jobs[j].documents, p)
             /\ jobs'[j].status \in Finals => task'[j].at = "over"
             /\ jobs[j].status \notin Finals
  BY <1>1, <1>2, <1>3 DEF JobsShaped, FinalIsOver
<1>4. JobsShaped'
  <2>1. ASSUME NEW i \in Jobs, Stored(i)'
        PROVE  DOMAIN jobs'[i] = JobFields /\ jobs'[i].documents \in Seq(Pages)
    <3>1. CASE i = j
      <4>1. /\ DOMAIN jobs'[j] = JobFields
            /\ jobs[j].documents \in Seq(Pages)
            /\ \/ jobs'[j].documents = jobs[j].documents
               \/ \E p \in Pages : jobs'[j].documents = Append(jobs[j].documents, p)
        BY <1>3, <2>1, <3>1
      <4>2. ASSUME NEW s \in Seq(Pages), NEW p \in Pages PROVE Append(s, p) \in Seq(Pages)
        OBVIOUS
      <4>3. jobs'[j].documents \in Seq(Pages)
        BY <4>1, <4>2
      <4> QED
        BY <3>1, <4>1, <4>3
    <3>2. CASE i # j
      BY <1>1, <1>2, <2>1, <3>2 DEF JobsShaped
    <3> QED
      BY <3>1, <3>2
  <2> QED
    BY <1>1, <2>1 DEF JobsShaped
<1>5. TasksShaped' /\ ReadingShaped'
  BY <1>1 DEF TasksShaped, ReadingShaped, At
<1>6. NotStarted' /\ FinalIsOver'
  BY <1>1, <1>2, <1>3 DEF NotStarted, FinalIsOver, At, Stored
<1>7. ReadWithin' /\ ReaderHasAll'
  <2> DEFINE i == reading.job
  <2> SUFFICES ASSUME i # None, Stored(i)'
               PROVE  /\ Begins(reading.read, jobs'[i].documents)
                      /\ reading.all => Len(reading.read) = Len(jobs'[i].documents) /\ jobs'[i].status \in Finals
    BY DEF ReadWithin, ReaderHasAll, Begins
  <2>1. i \in Jobs /\ Stored(i) /\ reading.read \in Seq(Pages)
    BY <1>2 DEF ReadingShaped
  <2>2. /\ Begins(reading.read, jobs[i].documents)
        /\ reading.all => Len(reading.read) = Len(jobs[i].documents) /\ jobs[i].status \in Finals
    BY <2>1, ReaderBegins
  <2>3. CASE i # j
    BY <1>1, <2>1, <2>2, <2>3
  <2>4. CASE i = j
    <3>1. Stored(j)'
      BY <2>4
    <3>2. Begins(reading.read, jobs'[j].documents)
      <4>1. /\ jobs[j].documents \in Seq(Pages)
            /\ \/ jobs'[j].documents = jobs[j].documents
               \/ \E p \in Pages : jobs'[j].documents = Append(jobs[j].documents, p)
        BY <1>3, <3>1
      <4>2. Begins(reading.read, jobs[j].documents) /\ reading.read \in Seq(Pages)
        BY <2>1, <2>2, <2>4
      <4> HIDE DEF ReaderInv, Goes, i
      <4> QED
        BY <4>1, <4>2, BeginsLonger
    <3>3. ~reading.all
      BY <1>3, <2>1, <2>2, <2>4, <3>1
    <3> QED
      BY <2>4, <3>2, <3>3
  <2> QED
    BY <2>3, <2>4
<1> QED
  BY <1>4, <1>5, <1>6, <1>7

-----------------------------------------------------------------------------
(* The task's actions.                                                        *)

LEMMA TaskFacts ==
  ASSUME ReaderInv, NEW j \in Jobs, ~At(j, "none"), ~At(j, "over")
  PROVE  /\ DOMAIN task[j] = TaskFields
         /\ Stored(j) => /\ DOMAIN jobs[j] = JobFields /\ jobs[j].status \notin Finals
                         /\ jobs[j].documents \in Seq(Pages)
BY DEF ReaderInv, TasksShaped, JobsShaped, FinalIsOver

(* Discovering pages changes a task's queue and what it has seen.             *)
LEMMA DiscoverShape ==
  ASSUME NEW t, NEW pages, NEW depth, DOMAIN t = TaskFields
  PROVE  /\ DOMAIN Discover(t, pages, depth) = TaskFields
         /\ Discover(t, pages, depth).at = t.at
<1> DEFINE queue == t.queue \o pages
           seen == [p \in DOMAIN t.seen \cup ToSet(pages) |-> IF p \in DOMAIN t.seen THEN t.seen[p] ELSE depth]
<1>1. Discover(t, pages, depth) = [t EXCEPT !.queue = queue, !.seen = seen]
  BY DEF Discover
<1> HIDE DEF queue, seen
<1> QED
  BY <1>1 DEF TaskFields

(* ... that change where it is and its own state, and leave the job alone.    *)
LEMMA PrivateStep ==
  ASSUME ReaderInv, NEW j \in Jobs, Top(j) \/ FetchRobots(j) \/ MapSite(j)
  PROVE  ReaderInv'
<1>1. ~At(j, "none") /\ ~At(j, "over")
  BY DEF Top, FetchRobots, MapSite, At
<1>2. DOMAIN task = Jobs /\ DOMAIN task[j] = TaskFields
  BY <1>1, TaskFacts DEF ReaderInv, TasksShaped
<1>3. PICK t : task' = [task EXCEPT ![j] = t] /\ t.at \in {"fill", "map", "top"} /\ DOMAIN t = TaskFields
  <2>1. CASE Top(j)
    <3> DEFINE t == [task[j] EXCEPT !.at = "fill"]
    <3>1. task' = [task EXCEPT ![j] = t] /\ t.at = "fill" /\ DOMAIN t = TaskFields
      BY <1>2, <2>1 DEF Top, TaskFields
    <3> QED
      BY <3>1
  <2>2. CASE FetchRobots(j)
    <3>1. PICK found \in BOOLEAN : task' = [task EXCEPT ![j].at = "map", ![j].robots = found]
      BY <2>2 DEF FetchRobots
    <3> DEFINE t == [task[j] EXCEPT !.at = "map", !.robots = found]
    <3>2. task' = [task EXCEPT ![j] = t] /\ t.at = "map" /\ DOMAIN t = TaskFields
      BY <1>2, <3>1 DEF TaskFields
    <3> QED
      BY <3>2
  <2>3. CASE MapSite(j)
    <3> DEFINE s == [task[j] EXCEPT !.at = "top", !.queue = <<Root>>]
    <3>1. PICK links : task' = [task EXCEPT ![j] = Discover(s, Unseen(s, links), 1)]
      BY <2>3 DEF MapSite
    <3>2. s.at = "top" /\ DOMAIN s = TaskFields
      BY <1>2 DEF TaskFields
    <3> HIDE DEF s
    <3>3. Discover(s, Unseen(s, links), 1).at = "top" /\ DOMAIN Discover(s, Unseen(s, links), 1) = TaskFields
      BY <3>2, DiscoverShape
    <3> QED
      BY <3>1, <3>3
  <2> QED
    BY <2>1, <2>2, <2>3
<1>4. jobs' = jobs /\ reading' = reading
  BY DEF Top, FetchRobots, MapSite
<1>5. Goes(j, jobs[j])
  BY <1>1, <1>2, <1>3, <1>4 DEF Goes
<1> QED
  BY <1>5, TaskStep

(* What is recorded of a page keeps the status and adds a document at most.   *)
LEMMA RecordShape ==
  ASSUME NEW job, NEW p, DOMAIN job = JobFields
  PROVE  /\ DOMAIN RecordError(job, p) = JobFields
         /\ RecordError(job, p).documents = job.documents /\ RecordError(job, p).status = job.status
         /\ DOMAIN StoreDocument(job, p) = JobFields
         /\ StoreDocument(job, p).documents \in {job.documents, Append(job.documents, p)}
         /\ StoreDocument(job, p).status = job.status
<1>1. /\ DOMAIN RecordError(job, p) = JobFields
      /\ RecordError(job, p).documents = job.documents /\ RecordError(job, p).status = job.status
  BY DEF RecordError, JobFields
<1> DEFINE stored == [job EXCEPT !.completed = @ + 1, !.documents = Append(@, p), !.bytes = @ + SizeOf[p]]
<1>2. /\ DOMAIN stored = JobFields
      /\ stored.documents = Append(job.documents, p) /\ stored.status = job.status
  BY DEF JobFields
<1>3. StoreDocument(job, p) \in {stored, RecordError(job, p)}
  BY DEF StoreDocument
<1> HIDE DEF stored
<1> QED
  BY <1>1, <1>2, <1>3

(* A step that may change the job in one critical section.                    *)
LEMMA JobStep ==
  ASSUME ReaderInv, NEW j \in Jobs, ~At(j, "none"), ~At(j, "over"), NEW job, NEW t,
         Mutate(j, job) \/ jobs' = jobs,
         Stored(j) =>
           /\ DOMAIN job = JobFields
           /\ job.documents = jobs[j].documents \/ \E p \in Pages : job.documents = Append(jobs[j].documents, p)
           /\ job.status \in Finals => t.at = "over",
         task' = [task EXCEPT ![j] = t], t.at # "none", t.at = "over" \/ DOMAIN t = TaskFields,
         reading' = reading
  PROVE  ReaderInv'
<1>1. DOMAIN task = Jobs
  BY DEF ReaderInv, TasksShaped
<1>2. /\ DOMAIN task' = Jobs /\ task'[j] = t
      /\ \A i \in Jobs \ {j} : task'[i] = task[i]
  BY <1>1
<1>3. Goes(j, job)
  BY <1>2 DEF Goes, Mutate
<1> QED
  BY <1>3, TaskStep

(* Steps that end a job.                                                      *)
LEMMA FinishStep ==
  ASSUME ReaderInv, NEW j \in Jobs, Cancel(j) \/ End(j) \/ Fail(j)
  PROVE  ReaderInv'
<1>1. ~At(j, "none") /\ ~At(j, "over")
  BY DEF Cancel, End, Fail, At
<1>2. PICK status : Mutate(j, Finish(j, status))
  BY DEF Cancel, End, Fail
<1>3. task' = [task EXCEPT ![j] = OverTask] /\ reading' = reading
  BY DEF Cancel, End, Fail
<1>4. Stored(j) => /\ DOMAIN Finish(j, status) = JobFields
                   /\ Finish(j, status).documents = jobs[j].documents
  BY <1>1, TaskFacts DEF Finish, JobFields
<1>5. OverTask.at = "over"
  BY DEF OverTask
<1> HIDE DEF OverTask, Finish
<1> QED
  BY <1>1, <1>2, <1>3, <1>4, <1>5, JobStep

(* Steps that change the job and are no end.                                  *)
LEMMA ProgressStep ==
  ASSUME ReaderInv, NEW j \in Jobs,
         Admit(j) \/ Fill(j) \/ Filled(j) \/ Drain(j) \/ TimeOut(j) \/ NoticeDeadline(j)
  PROVE  ReaderInv'
<1>1. ~At(j, "none") /\ ~At(j, "over")
  BY DEF Admit, Fill, Filled, Drain, TimeOut, NoticeDeadline, At
<1>2. /\ DOMAIN task[j] = TaskFields
      /\ Stored(j) => DOMAIN jobs[j] = JobFields /\ jobs[j].status \notin Finals
  BY <1>1, TaskFacts
<1>3. reading' = reading
  BY DEF Admit, Fill, Filled, Drain, TimeOut, NoticeDeadline
<1> DEFINE Harmless(job) == Stored(j) => /\ DOMAIN job = JobFields
                                         /\ job.documents = jobs[j].documents
                                         /\ job.status \notin Finals
           Lives(t) == /\ task' = [task EXCEPT ![j] = t]
                       /\ t.at # "none" /\ DOMAIN t = TaskFields
<1>4. \E job, t : (Mutate(j, job) \/ jobs' = jobs) /\ Harmless(job) /\ Lives(t)
  <2>1. CASE Admit(j)
    <3> DEFINE job == [jobs[j] EXCEPT !.status = "running"]
               t == [task[j] EXCEPT !.at = "robots", !.permit = TRUE]
    <3>1. Mutate(j, job)
      BY <2>1 DEF Admit
    <3>2. Harmless(job)
      BY <1>2 DEF JobFields, Finals
    <3>3. Lives(t)
      BY <1>2, <2>1 DEF Admit, TaskFields
    <3> QED
      BY <3>1, <3>2, <3>3
  <2>2. CASE Fill(j)
    <3> DEFINE p == Head(task[j].queue)
               t == [task[j] EXCEPT !.queue = Tail(@)]
               u == [task[j] EXCEPT !.queue = Tail(@), !.active = @ \cup {p}]
    <3>1. \/ Mutate(j, RecordError(jobs[j], p)) /\ task' = [task EXCEPT ![j] = t]
          \/ jobs' = jobs /\ task' = [task EXCEPT ![j] = u]
      BY <2>2 DEF Fill
    <3>2. /\ DOMAIN t = TaskFields /\ t.at = "fill"
          /\ DOMAIN u = TaskFields /\ u.at = "fill"
      BY <1>2, <2>2 DEF Fill, At, TaskFields
    <3>3. Harmless(RecordError(jobs[j], p)) /\ Harmless(jobs[j])
      BY <1>2, RecordShape
    <3> HIDE DEF t, u, p, Harmless
    <3> QED
      BY <3>1, <3>2, <3>3
  <2>3. CASE Filled(j)
    <3> DEFINE known == Completed(j) + Cardinality(task[j].active) + Len(task[j].queue)
               total == Larger(jobs[j].total, Smaller(known, task[j].request.limit))
               job == [jobs[j] EXCEPT !.total = total]
               t == [task[j] EXCEPT !.at = "wait"]
    <3>1. Mutate(j, job) /\ task' = [task EXCEPT ![j] = t]
      BY <2>3 DEF Filled
    <3>2. Harmless(job)
      <4> HIDE DEF total
      <4> QED
        BY <1>2 DEF JobFields
    <3>3. DOMAIN t = TaskFields /\ t.at = "wait"
      BY <1>2 DEF TaskFields
    <3> HIDE DEF job, t, Harmless
    <3> QED
      BY <3>1, <3>2, <3>3
  <2>4. CASE Drain(j)
    <3> DEFINE job == [jobs[j] EXCEPT !.total = jobs[j].completed]
               t == [task[j] EXCEPT !.at = "ending"]
    <3>1. Mutate(j, job) /\ task' = [task EXCEPT ![j] = t]
      BY <2>4 DEF Drain
    <3>2. Harmless(job)
      BY <1>2 DEF JobFields
    <3>3. DOMAIN t = TaskFields /\ t.at = "ending"
      BY <1>2 DEF TaskFields
    <3> HIDE DEF job, t, Harmless
    <3> QED
      BY <3>1, <3>2, <3>3
  <2>5. CASE TimeOut(j) \/ NoticeDeadline(j)
    <3> DEFINE job == [jobs[j] EXCEPT !.errors = Append(@, Root)]
               t == [task[j] EXCEPT !.at = "failing", !.active = {}]
               u == [task[j] EXCEPT !.at = "failing", !.active = {}, !.permit = FALSE]
    <3>1. Mutate(j, job)
      BY <2>5 DEF TimeOut, NoticeDeadline, FailWith
    <3>2. task' = [task EXCEPT ![j] = t] \/ task' = [task EXCEPT ![j] = u]
      BY <2>5 DEF TimeOut, NoticeDeadline
    <3>3. Harmless(job)
      BY <1>2 DEF JobFields
    <3>4. /\ DOMAIN t = TaskFields /\ t.at = "failing"
          /\ DOMAIN u = TaskFields /\ u.at = "failing"
      BY <1>2 DEF TaskFields
    <3> HIDE DEF job, t, u, Harmless
    <3> QED
      BY <3>1, <3>2, <3>3, <3>4
  <2> QED
    BY <2>1, <2>2, <2>3, <2>4, <2>5
<1> QED
  BY <1>1, <1>3, <1>4, JobStep

LEMMA AnswerStep ==
  ASSUME ReaderInv, NEW j \in Jobs, NEW p \in Pages, Answer(j, p)
  PROVE  ReaderInv'
<1>1. ~At(j, "none") /\ ~At(j, "over")
  BY DEF Answer, At
<1>2. /\ DOMAIN task[j] = TaskFields
      /\ Stored(j) => DOMAIN jobs[j] = JobFields /\ jobs[j].status \notin Finals
  BY <1>1, TaskFacts
<1> DEFINE t == [task[j] EXCEPT !.at = "top", !.active = @ \ {p}]
<1>3. /\ \/ Mutate(j, StoreDocument(jobs[j], p)) /\ task' = [task EXCEPT ![j] = Follow(t, p)]
         \/ Mutate(j, RecordError(jobs[j], p)) /\ task' = [task EXCEPT ![j] = t]
      /\ reading' = reading
  BY DEF Answer
<1>4. DOMAIN t = TaskFields /\ t.at = "top"
  BY <1>2 DEF TaskFields
<1> HIDE DEF t
<1>5. DOMAIN Follow(t, p) = TaskFields /\ Follow(t, p).at = "top"
  <2>1. \/ Follow(t, p) = t
        \/ \E pages, depth : Follow(t, p) = Discover(t, pages, depth)
    BY DEF Follow
  <2> QED
    BY <1>4, <2>1, DiscoverShape
<1>6. CASE Mutate(j, StoreDocument(jobs[j], p)) /\ task' = [task EXCEPT ![j] = Follow(t, p)]
  <2>1. Stored(j) =>
          /\ DOMAIN StoreDocument(jobs[j], p) = JobFields
          /\ \/ StoreDocument(jobs[j], p).documents = jobs[j].documents
             \/ \E q \in Pages : StoreDocument(jobs[j], p).documents = Append(jobs[j].documents, q)
          /\ StoreDocument(jobs[j], p).status \notin Finals
    BY <1>2, RecordShape
  <2> QED
    BY <1>1, <1>3, <1>5, <1>6, <2>1, JobStep
<1>7. CASE Mutate(j, RecordError(jobs[j], p)) /\ task' = [task EXCEPT ![j] = t]
  <2>1. Stored(j) =>
          /\ DOMAIN RecordError(jobs[j], p) = JobFields
          /\ RecordError(jobs[j], p).documents = jobs[j].documents
          /\ RecordError(jobs[j], p).status \notin Finals
    BY <1>2, RecordShape
  <2> QED
    BY <1>1, <1>3, <1>4, <1>7, <2>1, JobStep
<1> QED
  BY <1>3, <1>6, <1>7

-----------------------------------------------------------------------------
(* The client's calls.                                                        *)

LEMMA StartStep ==
  ASSUME ReaderInv, NEW j \in Jobs, NEW r, Start(j, r)
  PROVE  ReaderInv'
<1> USE DEF ReaderInv
<1> DEFINE job == [status |-> "queued", expires |-> now + Ttl, total |-> 1, completed |-> 0,
                   documents |-> <<>>, errors |-> <<>>, bytes |-> 0]
           t == [at |-> "queued", request |-> r, deadline |-> now + CrawlTimeout, permit |-> FALSE,
                 robots |-> FALSE, queue |-> <<>>, seen |-> [p \in {Root} |-> 0], active |-> {}]
<1>1. /\ At(j, "none") /\ reading' = reading
      /\ jobs' = [Cleaned EXCEPT ![j] = job]
      /\ task' = [task EXCEPT ![j] = t]
  BY DEF Start
<1>2. /\ DOMAIN job = JobFields /\ job.documents \in Seq(Pages) /\ job.status = "queued"
      /\ DOMAIN t = TaskFields /\ t.at = "queued"
  <2>1. DOMAIN t = TaskFields /\ t.at = "queued"
    BY DEF TaskFields
  <2>2. DOMAIN job = JobFields /\ job.documents \in Seq(Pages) /\ job.status = "queued"
    BY DEF JobFields
  <2> QED
    BY <2>1, <2>2
<1> HIDE DEF job, t
<1>3. /\ DOMAIN jobs' = Jobs /\ jobs'[j] = job
      /\ \A i \in Jobs \ {j} : jobs'[i] \in {None, jobs[i]}
  BY <1>1, CleanedPruned DEF Pruned
<1>4. DOMAIN task' = Jobs /\ task'[j] = t /\ \A i \in Jobs \ {j} : task'[i] = task[i]
  BY <1>1 DEF TasksShaped
<1>5. reading.job # j
  BY <1>1 DEF NotStarted
<1>6. \A i \in Jobs \ {j} : Stored(i)' => Stored(i) /\ jobs'[i] = jobs[i]
  BY <1>3 DEF Stored
<1>7. JobsShaped'
  BY <1>2, <1>3, <1>6 DEF JobsShaped
<1>8. TasksShaped' /\ ReadingShaped'
  BY <1>1, <1>2, <1>4 DEF TasksShaped, ReadingShaped, At
<1>9. NotStarted' /\ FinalIsOver'
  BY <1>1, <1>2, <1>3, <1>4, <1>6 DEF NotStarted, FinalIsOver, At, Finals
<1>10. ReadWithin' /\ ReaderHasAll'
  <2>1. reading.job \in (Jobs \ {j}) \cup {None}
    BY <1>5 DEF ReadingShaped
  <2> QED
    BY <1>1, <1>6, <2>1 DEF ReadWithin, ReaderHasAll
<1> QED
  BY <1>7, <1>8, <1>9, <1>10

LEMMA RemoveStep ==
  ASSUME ReaderInv, NEW j \in Jobs, StartRefused(j) \/ Delete(j)
  PROVE  ReaderInv'
<1>1. Pruned(jobs')
  BY CleanedPruned DEF StartRefused, Delete, Pruned, ReaderInv, JobsShaped
<1>2. UNCHANGED <<task, reading>>
  BY DEF StartRefused, Delete
<1> QED
  BY <1>1, <1>2, PruneStep

LEMMA OpenStep ==
  ASSUME ReaderInv, NEW j \in Jobs, Open(j)
  PROVE  ReaderInv'
<1> USE DEF ReaderInv
<1>1. /\ Stored(j) /\ reading' = [job |-> j, read |-> <<>>, all |-> FALSE]
      /\ UNCHANGED <<jobs, task>>
  BY DEF Open, Closed
<1>2. JobsShaped' /\ TasksShaped' /\ ReadingShaped' /\ FinalIsOver'
  BY <1>1 DEF JobsShaped, TasksShaped, ReadingShaped, FinalIsOver, Stored, At
<1>3. NotStarted'
  BY <1>1 DEF NotStarted, Stored, At
<1>4. jobs[j].documents \in Seq(Pages)
  BY <1>1 DEF JobsShaped
<1>5. Begins(<<>>, jobs[j].documents)
  BY <1>4 DEF Begins
<1>6. ReadWithin' /\ ReaderHasAll'
  BY <1>1, <1>5 DEF ReadWithin, ReaderHasAll, Begins
<1> QED
  BY <1>2, <1>3, <1>6

LEMMA ReadPageStep ==
  ASSUME ReaderInv, ReadPage
  PROVE  ReaderInv'
<1> USE DEF ReaderInv
<1> DEFINE j == reading.job
           documents == Cleaned[j].documents
           cursor == Len(reading.read)
           end == PageEnd(Cleaned[j], cursor)
           read == reading.read \o SubSeq(documents, cursor + 1, end)
           all == NextCursor(Cleaned[j], cursor) = None /\ Cleaned[j].status \in Finals
<1>1. /\ j # None /\ jobs' = Cleaned /\ task' = task
      /\ reading' = IF Cleaned[j] = None THEN Closed ELSE [reading EXCEPT !.read = read, !.all = all]
  BY DEF ReadPage
<1>2. j \in Jobs /\ reading.read \in Seq(Pages) /\ Pruned(Cleaned)
  BY <1>1, CleanedPruned DEF ReadingShaped
<1>3. \A i \in Jobs : Stored(i)' => Stored(i) /\ jobs'[i] = jobs[i]
  BY <1>1, <1>2 DEF Pruned, Stored
<1>4. JobsShaped' /\ TasksShaped' /\ FinalIsOver'
  BY <1>1, <1>2, <1>3 DEF JobsShaped, TasksShaped, FinalIsOver, Pruned, At
<1>5. CASE Cleaned[j] = None
  <2>1. reading' = [job |-> None, read |-> <<>>, all |-> FALSE]
    BY <1>1, <1>5 DEF Closed
  <2>2. ReadingShaped' /\ ReadWithin' /\ ReaderHasAll'
    BY <2>1 DEF ReadingShaped, ReadWithin, ReaderHasAll
  <2>3. NotStarted'
    BY <1>1, <1>3, <2>1, CrawlAssumption DEF NotStarted, At
  <2> QED
    BY <1>4, <2>2, <2>3
<1>6. CASE Cleaned[j] # None
  <2>1. Stored(j) /\ Stored(j)' /\ Cleaned[j] = jobs[j] /\ jobs'[j] = jobs[j]
    BY <1>1, <1>2, <1>3, <1>6 DEF Pruned, Stored
  <2>2. documents \in Seq(Pages) /\ Begins(reading.read, documents)
    BY <1>1, <1>2, <2>1, ReaderBegins DEF JobsShaped
  <2>3. /\ end \in cursor .. Len(documents)
        /\ NextCursor(Cleaned[j], cursor) = None => end = Len(documents)
    <3>1. PageSize \in Nat /\ None \notin Nat
      BY CrawlAssumption
    <3>2. cursor \in Nat /\ Len(documents) \in Nat /\ cursor <= Len(documents)
      BY <1>2, <2>2 DEF Begins
    <3>3. end = IF cursor + PageSize < Len(documents) THEN cursor + PageSize ELSE Len(documents)
      BY DEF PageEnd
    <3>4. end \in Nat /\ cursor <= end /\ end <= Len(documents)
      <4> HIDE DEF cursor, documents, end
      <4> QED
        BY <3>1, <3>2, <3>3
    <3>5. NextCursor(Cleaned[j], cursor) = IF end < Len(documents) THEN end ELSE None
      BY DEF NextCursor
    <3> HIDE DEF cursor, documents, end
    <3> QED
      BY <3>1, <3>2, <3>4, <3>5
  <2>4. read \in Seq(Pages) /\ Len(read) = end /\ Begins(read, documents)
    <3> HIDE DEF documents, end
    <3> QED
      BY <1>2, <2>2, <2>3, BeginsFurther
  <2> HIDE DEF read, all, end
  <2>5. reading' = [job |-> j, read |-> read, all |-> all]
    BY <1>1, <1>6 DEF ReadingShaped
  <2>6. all \in BOOLEAN /\ (all => end = Len(documents) /\ jobs[j].status \in Finals)
    BY <2>1, <2>3 DEF all
  <2>7. ReadingShaped'
    BY <1>2, <2>4, <2>5, <2>6 DEF ReadingShaped
  <2>8. NotStarted'
    BY <1>1, <1>3, <2>5 DEF NotStarted, At
  <2>9. ReadWithin' /\ ReaderHasAll'
    BY <2>1, <2>4, <2>5, <2>6 DEF ReadWithin, ReaderHasAll, Begins
  <2> QED
    BY <1>4, <2>7, <2>8, <2>9
<1> QED
  BY <1>5, <1>6

LEMMA ReaderStep == ReaderInv /\ [Next]_vars => ReaderInv'
<1> SUFFICES ASSUME ReaderInv, [Next]_vars PROVE ReaderInv'
  OBVIOUS
<1>1. CASE Client
  BY <1>1, StartStep, RemoveStep, OpenStep, ReadPageStep DEF Client
<1>2. CASE \E j \in Jobs : Work(j)
  BY <1>2, PrivateStep, FinishStep, ProgressStep, AnswerStep DEF Work
<1>3. CASE \E j \in Jobs : TimeOut(j)
  BY <1>3, ProgressStep
<1>4. CASE Tick \/ UNCHANGED vars
  <2>1. UNCHANGED <<jobs, task, reading>>
    BY <1>4 DEF Tick, vars
  <2>2. Pruned(jobs')
    BY <2>1 DEF Pruned, ReaderInv, JobsShaped
  <2> QED
    BY <2>1, <2>2, PruneStep
<1> QED
  BY <1>1, <1>2, <1>3, <1>4 DEF Next

(* The inductive invariant holds in every reachable state.                    *)
THEOREM ReaderInvariance == Spec => []ReaderInv
BY InitReader, ReaderStep, PTL DEF Spec

(* Who reads a crawl page by page gets every document once and in order, and  *)
(* what it was told is everything stays everything.                           *)
THEOREM ReadersMissNothing == Spec => []ReaderHasAll
<1>1. ReaderInv => ReaderHasAll
  BY DEF ReaderInv
<1> QED
  BY <1>1, ReaderInvariance, PTL

(* A final status is the last thing a job's task writes.                      *)
THEOREM FinalStatusIsLast == Spec => []FinalIsOver
<1>1. ReaderInv => FinalIsOver
  BY DEF ReaderInv
<1> QED
  BY <1>1, ReaderInvariance, PTL
-----------------------------------------------------------------------------
(* What is retained.                                                          *)

(* A set of numbers has a least member.                                       *)
LEMMA LeastMember ==
  ASSUME NEW S \in SUBSET Nat, S # {}
  PROVE  \E x \in S : \A y \in S : x <= y
<1>1. PICK x \in S : \A y \in S : <<y, x>> \notin OpToRel(<, Nat)
  BY NatLessThanWellFounded, WFMin, Zenon
<1>2. OpToRel(<, Nat) = {ss \in Nat \X Nat : ss[1] < ss[2]}
  BY Zenon DEF OpToRel
<1>3. \A y \in S : x <= y
  <2> SUFFICES ASSUME NEW y \in S, y < x PROVE FALSE
    OBVIOUS
  <2>1. <<y, x>> \in {ss \in Nat \X Nat : ss[1] < ss[2]}
    OBVIOUS
  <2> QED
    BY <1>1, <1>2, <2>1, Zenon
<1> QED
  BY <1>3

LEMMA GreatestMember ==
  ASSUME NEW n \in Nat, NEW S \in SUBSET (1 .. n), S # {}
  PROVE  Max(S) \in S /\ \A y \in S : y <= Max(S)
<1> DEFINE bounds == {m \in Nat : \A y \in S : y <= m}
<1>1. n \in bounds
  OBVIOUS
<1>2. PICK m \in bounds : \A k \in bounds : m <= k
  <2>1. bounds \in SUBSET Nat /\ bounds # {}
    BY <1>1
  <2> HIDE DEF bounds
  <2> QED
    BY <2>1, LeastMember
<1>3. m \in S
  <2> SUFFICES ASSUME m \notin S PROVE FALSE
    OBVIOUS
  <2>1. \A y \in S : y \in Nat /\ y >= 1 /\ y <= m /\ y # m
    BY <1>2
  <2>2. m \in Nat /\ m >= 1
    <3>1. PICK y \in S : y \in Nat /\ y >= 1 /\ y <= m
      BY <2>1
    <3>2. m \in Nat
      BY <1>2
    <3> QED
      BY <3>1, <3>2
  <2>3. m - 1 \in bounds
    BY <2>1, <2>2
  <2> QED
    BY <1>2, <2>2, <2>3
<1>4. \E x \in S : \A y \in S : x >= y
  BY <1>2, <1>3
<1>5. Max(S) \in S /\ \A y \in S : Max(S) >= y
  BY <1>4 DEF Max
<1> QED
  BY <1>5

LEMMA UpTo ==
  ASSUME NEW n \in Nat, n # 0
  PROVE  /\ n \in 1 .. n /\ 1 .. n # {} /\ Max(1 .. n) = n
         /\ (1 .. n) \ {n} = 1 .. n - 1
<1>1. n \in 1 .. n /\ (1 .. n) \ {n} = 1 .. n - 1
  OBVIOUS
<1>2. Max(1 .. n) \in 1 .. n /\ n <= Max(1 .. n)
  <2>1. 1 .. n \in SUBSET (1 .. n) /\ 1 .. n # {}
    BY <1>1
  <2> QED
    BY <1>1, <2>1, GreatestMember
<1> QED
  BY <1>1, <1>2

(* f adds up the weights w of every set of places, from the last to the first. *)
AddsUp(w, n, f) ==
  \A T \in SUBSET (1 .. n) : f[T] = IF T = {} THEN 0 ELSE f[T \ {Max(T)}] + w[Max(T)]

LEMMA AddsUpExists ==
  ASSUME NEW n \in Nat, NEW w \in [1 .. n -> Nat]
  PROVE  \E f \in [SUBSET (1 .. n) -> Nat] : AddsUp(w, n, f)
<1> DEFINE Good(k) == \E f \in [SUBSET (1 .. k) -> Nat] : AddsUp(w, k, f)
           failing == {k \in 0 .. n : ~ Good(k)}
<1> SUFFICES ASSUME failing # {} PROVE FALSE
  <2>1. n \in 0 .. n
    OBVIOUS
  <2>2. failing = {} => Good(n)
    BY <2>1
  <2> QED
    BY <2>2
<1>1. PICK k \in failing : \A m \in failing : k <= m
  <2>1. failing \in SUBSET Nat
    OBVIOUS
  <2> HIDE DEF failing
  <2> QED
    BY <2>1, LeastMember
<1>2. k \in 0 .. n /\ ~ Good(k)
  BY <1>1
<1>3. CASE k = 0
  <2> DEFINE f == [T \in SUBSET (1 .. 0) |-> 0]
  <2>1. \A T \in SUBSET (1 .. 0) : T = {}
    OBVIOUS
  <2>2. f \in [SUBSET (1 .. 0) -> Nat] /\ AddsUp(w, 0, f)
    BY <2>1 DEF AddsUp
  <2> QED
    BY <1>2, <1>3, <2>2
<1>4. CASE k # 0
  <2>1. k - 1 \in 0 .. n /\ k - 1 \notin failing /\ k \in Nat /\ k \in 1 .. n
    <3>1. k \in Nat /\ k <= n /\ k >= 1
      BY <1>2, <1>4
    <3>2. k - 1 \in 0 .. n /\ k \in 1 .. n /\ ~ k <= k - 1
      BY <3>1
    <3> HIDE DEF failing
    <3> QED
      BY <1>1, <3>1, <3>2
  <2>2. PICK g \in [SUBSET (1 .. k - 1) -> Nat] : AddsUp(w, k - 1, g)
    BY <2>1
  <2> DEFINE f == [T \in SUBSET (1 .. k) |-> IF k \in T THEN g[T \ {k}] + w[k] ELSE g[T]]
  <2>3. \A T \in SUBSET (1 .. k) : T \ {k} \in SUBSET (1 .. k - 1) /\ (k \notin T => T \in SUBSET (1 .. k - 1))
    BY <2>1
  <2>4. f \in [SUBSET (1 .. k) -> Nat]
    <3> SUFFICES ASSUME NEW T \in SUBSET (1 .. k)
                 PROVE  (IF k \in T THEN g[T \ {k}] + w[k] ELSE g[T]) \in Nat
      OBVIOUS
    <3>1. CASE k \in T
      <4>1. g[T \ {k}] \in Nat /\ w[k] \in Nat
        BY <2>1, <2>2, <2>3
      <4> QED
        BY <3>1, <4>1
    <3>2. CASE k \notin T
      BY <2>2, <2>3, <3>2
    <3> QED
      BY <3>1, <3>2
  <2>5. \A T \in SUBSET (1 .. k - 1) : T \in SUBSET (1 .. k) /\ k \notin T /\ f[T] = g[T]
    <3>1. 1 .. k - 1 \subseteq 1 .. k /\ k \notin 1 .. k - 1
      BY <2>1
    <3> QED
      BY <3>1
  <2>6. ASSUME NEW T \in SUBSET (1 .. k)
        PROVE  f[T] = IF T = {} THEN 0 ELSE f[T \ {Max(T)}] + w[Max(T)]
    <3>1. CASE k \in T
      <4>1. Max(T) \in T /\ k <= Max(T)
        BY <2>1, <3>1, GreatestMember
      <4>2. Max(T) = k
        <5>1. Max(T) \in 1 .. k
          BY <4>1
        <5> QED
          BY <2>1, <4>1, <5>1
      <4>3. f[T] = g[T \ {k}] + w[k] /\ f[T \ {k}] = g[T \ {k}]
        BY <2>3, <2>5, <3>1
      <4> QED
        BY <3>1, <4>2, <4>3
    <3>2. CASE k \notin T
      <4>1. T \in SUBSET (1 .. k - 1) /\ f[T] = g[T] /\ f[T \ {Max(T)}] = g[T \ {Max(T)}]
        BY <2>3, <2>5, <3>2
      <4> QED
        BY <2>2, <4>1 DEF AddsUp
    <3> QED
      BY <3>1, <3>2
  <2> HIDE DEF f
  <2>7. AddsUp(w, k, f)
    BY <2>6 DEF AddsUp
  <2> QED
    BY <1>2, <2>4, <2>7
<1> QED
  BY <1>3, <1>4

(* What adds up the same weights of the first places has the same sum.        *)
LEMMA AddsUpAgree ==
  ASSUME NEW m \in Nat, NEW w, NEW f, AddsUp(w, m, f),
         NEW n \in Nat, NEW v, NEW g, AddsUp(v, n, g),
         NEW k \in Nat, k <= m, k <= n, \A i \in 1 .. k : w[i] = v[i]
  PROVE  f[1 .. k] = g[1 .. k]
<1> DEFINE failing == {i \in 0 .. k : f[1 .. i] # g[1 .. i]}
<1> SUFFICES ASSUME failing # {} PROVE FALSE
  <2>1. k \in 0 .. k
    OBVIOUS
  <2> QED
    BY <2>1
<1>1. PICK i \in failing : \A j \in failing : i <= j
  <2>1. failing \in SUBSET Nat
    OBVIOUS
  <2> HIDE DEF failing
  <2> QED
    BY <2>1, LeastMember
<1>2. /\ i \in 0 .. k /\ i \in Nat /\ f[1 .. i] # g[1 .. i]
      /\ 1 .. i \in SUBSET (1 .. m) /\ 1 .. i \in SUBSET (1 .. n)
  BY <1>1
<1>3. i # 0
  <2> SUFFICES ASSUME i = 0 PROVE FALSE
    OBVIOUS
  <2>1. 1 .. i = {}
    OBVIOUS
  <2> QED
    BY <1>2, <2>1 DEF AddsUp
<1>4. i \in 1 .. i /\ 1 .. i # {} /\ Max(1 .. i) = i /\ (1 .. i) \ {i} = 1 .. i - 1
  BY <1>2, <1>3, UpTo
<1>7. f[1 .. i] = f[1 .. i - 1] + w[i] /\ g[1 .. i] = g[1 .. i - 1] + v[i]
  BY <1>2, <1>4 DEF AddsUp
<1>8. w[i] = v[i]
  BY <1>2, <1>4
<1>9. i - 1 \in 0 .. k /\ ~ i <= i - 1
  BY <1>2, <1>3
<1>10. f[1 .. i - 1] = g[1 .. i - 1]
  BY <1>1, <1>9
<1> QED
  BY <1>2, <1>7, <1>8, <1>10

Weights(s) == [i \in 1 .. Len(s) |-> SizeOf[s[i]]]

LEMMA SumAddsUp ==
  ASSUME NEW s \in Seq(Pages)
  PROVE  /\ \E f : AddsUp(Weights(s), Len(s), f) /\ Sum(s) = f[1 .. Len(s)]
         /\ Sum(s) \in Nat
<1> DEFINE n == Len(s)
           Recursion(h) ==
             h = [T \in SUBSET (1 .. n) |-> IF T = {} THEN 0
                                            ELSE h[T \ {Max(T)}] + SizeOf[s[Max(T)]]]
           iter == CHOOSE h : Recursion(h)
<1>1. n \in Nat /\ DOMAIN s = 1 .. n /\ s \in [1 .. n -> Pages]
  OBVIOUS
<1>2. Sum(s) = iter[1 .. n]
  <2>1. Sum(s) = MapThenFoldSet(LAMBDA x, y : y + SizeOf[x], 0, LAMBDA i : s[i],
                                LAMBDA T : Max(T), 1 .. n)
    BY <1>1, Zenon DEF Sum, FoldLeft
  <2> QED
    BY <2>1, Zenon DEF MapThenFoldSet
<1>3. Weights(s) \in [1 .. n -> Nat] /\ \A i \in 1 .. n : Weights(s)[i] = SizeOf[s[i]]
  BY <1>1, CrawlAssumption DEF Weights
<1>4. PICK g \in [SUBSET (1 .. n) -> Nat] : AddsUp(Weights(s), n, g)
  BY <1>1, <1>3, AddsUpExists
<1>5. \A T \in SUBSET (1 .. n) : T # {} => Weights(s)[Max(T)] = SizeOf[s[Max(T)]]
  BY <1>1, <1>3, GreatestMember
<1>6. Recursion(g)
  <2>1. \A T \in SUBSET (1 .. n) : g[T] = IF T = {} THEN 0 ELSE g[T \ {Max(T)}] + SizeOf[s[Max(T)]]
    BY <1>4, <1>5 DEF AddsUp
  <2> QED
    BY <1>4, <2>1
<1>7. Recursion(iter)
  <2> HIDE DEF Recursion
  <2> QED
    BY <1>6, Zenon
<1> HIDE DEF iter
<1>8. \A T \in SUBSET (1 .. n) : iter[T] = IF T = {} THEN 0 ELSE iter[T \ {Max(T)}] + SizeOf[s[Max(T)]]
  BY <1>7
<1>9. AddsUp(Weights(s), n, iter)
  BY <1>5, <1>8 DEF AddsUp
<1>10. iter[1 .. n] = g[1 .. n]
  <2>1. n <= n /\ \A i \in 1 .. n : Weights(s)[i] = Weights(s)[i]
    BY <1>1
  <2> QED
    BY <1>1, <1>4, <1>9, <2>1, AddsUpAgree
<1>11. g[1 .. n] \in Nat
  BY <1>4
<1> QED
  BY <1>2, <1>9, <1>10, <1>11

(* A document more is its size more.                                          *)
LEMMA SumAppend ==
  ASSUME NEW s \in Seq(Pages), NEW p \in Pages
  PROVE  Sum(Append(s, p)) = Sum(s) + SizeOf[p]
<1> DEFINE t == Append(s, p)
           n == Len(s)
<1>1. /\ n \in Nat /\ t \in Seq(Pages) /\ Len(t) = n + 1 /\ t[n + 1] = p
      /\ \A i \in 1 .. n : t[i] = s[i] /\ i \in 1 .. n + 1
  OBVIOUS
<1> HIDE DEF t, n
<1>2. PICK f : AddsUp(Weights(s), n, f) /\ Sum(s) = f[1 .. n]
  BY SumAddsUp DEF n
<1>3. PICK g : AddsUp(Weights(t), n + 1, g) /\ Sum(t) = g[1 .. n + 1]
  BY <1>1, SumAddsUp
<1>4. \A i \in 1 .. n : Weights(s)[i] = Weights(t)[i]
  BY <1>1 DEF Weights, n
<1>5. f[1 .. n] = g[1 .. n]
  <2>1. n + 1 \in Nat /\ n <= n + 1 /\ n <= n
    BY <1>1
  <2> QED
    BY <1>1, <1>2, <1>3, <1>4, <2>1, AddsUpAgree
<1>6. /\ 1 .. n + 1 # {} /\ n + 1 \in 1 .. n + 1 /\ Max(1 .. n + 1) = n + 1
      /\ (1 .. n + 1) \ {n + 1} = 1 .. n
  <2>1. n + 1 \in Nat /\ n + 1 # 0 /\ (n + 1) - 1 = n
    BY <1>1
  <2> QED
    BY <2>1, UpTo
<1>9. g[1 .. n + 1] = g[1 .. n] + Weights(t)[n + 1]
  BY <1>3, <1>6 DEF AddsUp
<1>10. Weights(t)[n + 1] = SizeOf[p]
  BY <1>1, <1>6 DEF Weights
<1> QED
  BY <1>2, <1>3, <1>5, <1>9, <1>10 DEF t

LEMMA SumEmpty == Sum(<<>>) = 0
<1>1. <<>> \in Seq(Pages) /\ 1 .. Len(<<>>) = {}
  OBVIOUS
<1>2. PICK f : AddsUp(Weights(<<>>), Len(<<>>), f) /\ Sum(<<>>) = f[1 .. Len(<<>>)]
  BY <1>1, SumAddsUp
<1> QED
  BY <1>1, <1>2 DEF AddsUp

-----------------------------------------------------------------------------
(* The selected members of a sequence are those at the places, in number, too. *)
LEMMA SelectedEffect ==
  ASSUME NEW V, NEW s \in Seq(V), NEW places \in SUBSET DOMAIN s
  PROVE  /\ Selected(s, places) \in Seq(V)
         /\ ToSet(Selected(s, places)) = {s[i] : i \in places}
         /\ (\A i, k \in places : s[i] = s[k] => i = k)
              => \A i, k \in 1 .. Len(Selected(s, places)) :
                   Selected(s, places)[i] = Selected(s, places)[k] => i = k
<1> DEFINE Rank(i) == Cardinality({k \in places : k <= i})
           m == Cardinality(places)
           selected == Selected(s, places)
<1>1. Len(s) \in Nat /\ DOMAIN s = 1 .. Len(s) /\ \A i \in places : i \in 1 .. Len(s) /\ s[i] \in V
  OBVIOUS
<1>2. IsFiniteSet(places) /\ m \in Nat /\ places \subseteq 1 .. Len(s)
  <2>1. IsFiniteSet(1 .. Len(s))
    BY <1>1, FS_Interval
  <2>2. IsFiniteSet(places)
    BY <1>1, <2>1, FS_Subset
  <2> QED
    BY <1>1, <2>2, FS_CardinalityType
<1>3. selected = [n \in 1 .. m |-> s[CHOOSE i \in places : Rank(i) = n]]
  BY DEF Selected
<1>7. \A i \in places : Rank(i) \in 1 .. m
  <2> SUFFICES ASSUME NEW i \in places
               PROVE  Rank(i) \in 1 .. m
    OBVIOUS
  <2>1. {k \in places : k <= i} \subseteq places /\ i \in {k \in places : k <= i}
    BY <1>2
  <2>2. /\ IsFiniteSet({k \in places : k <= i}) /\ Rank(i) <= m
        /\ Rank(i) # 0 /\ Rank(i) \in Nat
    BY <1>2, <2>1, FS_Subset, FS_EmptySet, FS_CardinalityType
  <2> QED
    BY <1>2, <2>2
<1>8. \A i, k \in places : i < k => Rank(i) < Rank(k)
  <2> SUFFICES ASSUME NEW i \in places, NEW k \in places, i < k
               PROVE  Rank(i) < Rank(k)
    OBVIOUS
  <2> DEFINE A == {n \in places : n <= i}
             B == {n \in places : n <= k}
  <2>1. A \subseteq B /\ k \in B /\ k \notin A /\ B \subseteq places
    <3>1. \A n \in places : n \in Nat
      BY <1>1, <1>2
    <3> QED
      BY <3>1
  <2>2. IsFiniteSet(B)
    BY <1>2, <2>1, FS_Subset
  <2>3. Cardinality(A) <= Cardinality(B) /\ Cardinality(A) # Cardinality(B)
    <3> HIDE DEF A, B
    <3> QED
      BY <2>1, <2>2, FS_Subset
  <2> QED
    BY <1>2, <1>7, <2>3
<1> DEFINE rank == [i \in places |-> Rank(i)]
<1> HIDE DEF Rank, m
<1>9. rank \in Injection(places, 1 .. m)
  BY <1>2, <1>7, <1>8 DEF Injection, IsInjective
<1>10. IsFiniteSet(1 .. m) /\ Cardinality(1 .. m) = m
  BY <1>2, FS_Interval
<1>11. rank \in Surjection(places, 1 .. m)
  <2> HIDE DEF rank
  <2> QED
    BY <1>9, <1>10, FS_Injection DEF m
<1> DEFINE Pick(n) == CHOOSE i \in places : Rank(i) = n
<1>12. \A n \in 1 .. m : Pick(n) \in places /\ Rank(Pick(n)) = n
  <2>1. \A n \in 1 .. m : \E i \in places : Rank(i) = n
    BY <1>11 DEF Surjection
  <2> QED
    BY <2>1
<1>13. \A i, k \in places : Rank(i) = Rank(k) => i = k
  BY <1>9 DEF Injection, IsInjective
<1>14. selected = [n \in 1 .. m |-> s[Pick(n)]]
  BY <1>3
<1> HIDE DEF Pick, selected, rank
<1>15. /\ selected \in Seq(V) /\ Len(selected) = m /\ DOMAIN selected = 1 .. m
       /\ \A n \in 1 .. m : selected[n] = s[Pick(n)]
  <2>1. \A n \in 1 .. m : s[Pick(n)] \in V
    BY <1>1, <1>12
  <2>2. selected \in [1 .. m -> V]
    BY <1>14, <2>1
  <2>3. selected \in Seq(V)
    BY <1>2, <2>2
  <2>4. Len(selected) = m
    BY <1>2, <2>2, <2>3
  <2> QED
    BY <1>14, <2>3, <2>4
<1>16. (\A i, k \in places : s[i] = s[k] => i = k)
         => \A i, k \in 1 .. m : selected[i] = selected[k] => i = k
  BY <1>12, <1>15
<1>17. ToSet(selected) = {s[i] : i \in places}
  <2>1. ToSet(selected) = {selected[n] : n \in 1 .. m}
    BY <1>15 DEF ToSet
  <2>2. \A n \in 1 .. m : Pick(n) \in places /\ selected[n] = s[Pick(n)]
    BY <1>12, <1>15
  <2>3. \A i \in places : Rank(i) \in 1 .. m /\ selected[Rank(i)] = s[i]
    BY <1>7, <1>12, <1>13, <1>15
  <2> QED
    BY <2>1, <2>2, <2>3
<1> QED
  BY <1>15, <1>16, <1>17 DEF selected

(* Taking the members of U where each is first takes each once.               *)
LEMMA FirstPlacesEffect ==
  ASSUME NEW V, NEW s \in Seq(V), NEW U
  PROVE  /\ FirstPlaces(s, U) \in SUBSET DOMAIN s
         /\ {s[i] : i \in FirstPlaces(s, U)} = ToSet(s) \cap U
         /\ \A i, k \in FirstPlaces(s, U) : s[i] = s[k] => i = k
<1>1. Len(s) \in Nat /\ DOMAIN s = 1 .. Len(s)
  OBVIOUS
<1>2. FirstPlaces(s, U) \in SUBSET DOMAIN s /\ \A i \in FirstPlaces(s, U) : s[i] \in U
  BY DEF FirstPlaces
<1>3. \A x \in U : (\E i \in 1 .. Len(s) : s[i] = x) => \E i \in FirstPlaces(s, U) : s[i] = x
  <2> SUFFICES ASSUME NEW x \in U, \E i \in 1 .. Len(s) : s[i] = x
               PROVE  \E i \in FirstPlaces(s, U) : s[i] = x
    OBVIOUS
  <2> DEFINE places == {i \in 1 .. Len(s) : s[i] = x}
  <2>1. PICK i \in places : \A k \in places : i <= k
    <3>1. places \in SUBSET Nat /\ places # {}
      BY <1>1
    <3> HIDE DEF places
    <3> QED
      BY <3>1, LeastMember
  <2>2. \A k \in 1 .. i - 1 : s[k] # s[i]
    <3> SUFFICES ASSUME NEW k \in 1 .. i - 1, s[k] = x PROVE FALSE
      BY <2>1
    <3>1. k \in 1 .. Len(s) /\ ~ i <= k
      BY <1>1, <2>1
    <3> QED
      BY <2>1, <3>1
  <2> QED
    BY <1>1, <2>1, <2>2 DEF FirstPlaces
<1>4. \A i, k \in FirstPlaces(s, U) : s[i] = s[k] => i = k
  <2> SUFFICES ASSUME NEW i \in FirstPlaces(s, U), NEW k \in FirstPlaces(s, U), s[i] = s[k], i < k
               PROVE  FALSE
    BY <1>1, <1>2
  <2>1. i \in 1 .. k - 1
    BY <1>1, <1>2
  <2> QED
    BY <2>1 DEF FirstPlaces
<1>5. ToSet(s) = {s[i] : i \in 1 .. Len(s)}
  BY <1>1 DEF ToSet
<1>6. {s[i] : i \in FirstPlaces(s, U)} = ToSet(s) \cap U
  BY <1>1, <1>2, <1>3, <1>5
<1> QED
  BY <1>2, <1>4, <1>6

(* Each page that was not come across before is taken up once.                *)
LEMMA UnseenEffect ==
  ASSUME NEW t, NEW pages \in Seq(Pages)
  PROVE  LET unseen == Unseen(t, pages) IN
           /\ unseen \in Seq(Pages)
           /\ ToSet(unseen) = (ToSet(pages) \cap Allowed) \ DOMAIN t.seen
           /\ \A i, k \in 1 .. Len(unseen) : unseen[i] = unseen[k] => i = k
<1> DEFINE U == Allowed \ DOMAIN t.seen
           places == FirstPlaces(pages, U)
<1>1. /\ places \in SUBSET DOMAIN pages
      /\ {pages[i] : i \in places} = ToSet(pages) \cap U
      /\ \A i, k \in places : pages[i] = pages[k] => i = k
  <2> HIDE DEF U
  <2> QED
    BY FirstPlacesEffect, Zenon
<1>2. Unseen(t, pages) = Selected(pages, places)
  BY DEF Unseen
<1> HIDE DEF places
<1>3. /\ Selected(pages, places) \in Seq(Pages)
      /\ ToSet(Selected(pages, places)) = ToSet(pages) \cap U
      /\ \A i, k \in 1 .. Len(Selected(pages, places)) :
           Selected(pages, places)[i] = Selected(pages, places)[k] => i = k
  BY <1>1, SelectedEffect
<1> QED
  BY <1>2, <1>3

-----------------------------------------------------------------------------
(* What a site map comes to.                                                  *)

(* What a map may list: pages in scope, each once, and no more than asked for. *)
Listed(site, limit) ==
  {links \in Seq(Pages) : /\ Len(links) <= limit
                          /\ ToSet(links) \subseteq site.scope
                          /\ \A i, k \in 1 .. Len(links) : links[i] = links[k] => i = k}

LEMMA LesserOfTwo ==
  ASSUME NEW a \in Nat, NEW b \in Nat
  PROVE  Min({a, b}) \in {a, b} /\ Min({a, b}) <= a /\ Min({a, b}) <= b
<1>1. \E x \in {a, b} : \A y \in {a, b} : x <= y
  OBVIOUS
<1> QED
  BY <1>1 DEF Min

(* Links are added to those there, up to the limit.                           *)
LEMMA AddLinksEffect ==
  ASSUME NEW site, NEW limit \in Nat, NEW links \in Seq(Pages), NEW urls \in Seq(Pages)
  PROVE  /\ AddLinks(site, limit, links, urls) \in Seq(Pages)
         /\ links \in Listed(site, limit) => AddLinks(site, limit, links, urls) \in Listed(site, limit)
<1> DEFINE U == site.scope \ ToSet(links)
           new == Selected(urls, FirstPlaces(urls, U))
           all == links \o new
           n == Min({limit, Len(all)})
           l == SubSeq(all, 1, n)
<1>1. /\ new \in Seq(Pages) /\ ToSet(new) = ToSet(urls) \cap U
      /\ \A i, k \in 1 .. Len(new) : new[i] = new[k] => i = k
  <2> DEFINE places == FirstPlaces(urls, U)
  <2>1. /\ places \in SUBSET DOMAIN urls /\ {urls[i] : i \in places} = ToSet(urls) \cap U
        /\ \A i, k \in places : urls[i] = urls[k] => i = k
    <3> HIDE DEF U
    <3> QED
      BY FirstPlacesEffect, Zenon
  <2> HIDE DEF places
  <2>2. /\ Selected(urls, places) \in Seq(Pages) /\ ToSet(Selected(urls, places)) = ToSet(urls) \cap U
        /\ \A i, k \in 1 .. Len(Selected(urls, places)) :
             Selected(urls, places)[i] = Selected(urls, places)[k] => i = k
    BY <2>1, SelectedEffect
  <2> QED
    BY <2>2 DEF places
<1>2. AddLinks(site, limit, links, urls) = l
  BY DEF AddLinks
<1> HIDE DEF new
<1>3. /\ all \in Seq(Pages) /\ Len(all) = Len(links) + Len(new) /\ Len(all) \in Nat
      /\ Len(links) \in Nat /\ Len(new) \in Nat
      /\ \A i \in 1 .. Len(links) : all[i] = links[i] /\ links[i] \in ToSet(links)
      /\ \A i \in 1 .. Len(all) : i \notin 1 .. Len(links) =>
           /\ i - Len(links) \in 1 .. Len(new)
           /\ all[i] = new[i - Len(links)] /\ all[i] \in ToSet(new)
  <2>1. /\ all \in Seq(Pages) /\ Len(all) = Len(links) + Len(new) /\ Len(all) \in Nat
        /\ Len(links) \in Nat /\ Len(new) \in Nat
    BY <1>1
  <2>2. \A i \in 1 .. Len(links) : all[i] = links[i] /\ links[i] \in ToSet(links)
    BY <1>1 DEF ToSet
  <2>3. ASSUME NEW i \in 1 .. Len(all), i \notin 1 .. Len(links)
        PROVE  i - Len(links) \in 1 .. Len(new) /\ all[i] = new[i - Len(links)] /\ all[i] \in ToSet(new)
    <3>1. i - Len(links) \in 1 .. Len(new) /\ all[i] = new[i - Len(links)]
      BY <1>1, <2>1, <2>3
    <3> QED
      BY <1>1, <3>1 DEF ToSet
  <2> QED
    BY <2>1, <2>2, <2>3
<1> HIDE DEF all
<1>4. n \in 0 .. Len(all) /\ n <= limit
  BY <1>3, LesserOfTwo
<1> HIDE DEF n
<1>5. /\ l \in Seq(Pages) /\ Len(l) = n /\ \A i \in 1 .. n : l[i] = all[i] /\ i \in 1 .. Len(all)
  BY <1>3, <1>4
<1>6. ASSUME links \in Listed(site, limit) PROVE l \in Listed(site, limit)
  <2>1. /\ ToSet(links) \subseteq site.scope
        /\ \A i, k \in 1 .. Len(links) : links[i] = links[k] => i = k
    BY <1>6 DEF Listed
  <2>2. \A i \in 1 .. Len(all) : all[i] \in site.scope
    BY <1>1, <1>3, <2>1
  <2>3. ASSUME NEW i \in 1 .. Len(all), NEW k \in 1 .. Len(all), all[i] = all[k] PROVE i = k
    <3>1. CASE i \in 1 .. Len(links) /\ k \in 1 .. Len(links)
      BY <1>3, <2>1, <2>3, <3>1
    <3>2. CASE i \notin 1 .. Len(links) /\ k \notin 1 .. Len(links)
      <4>1. i - Len(links) = k - Len(links)
        BY <1>1, <1>3, <2>3, <3>2
      <4> QED
        BY <1>3, <4>1
    <3>3. CASE (i \in 1 .. Len(links)) # (k \in 1 .. Len(links))
      BY <1>1, <1>3, <2>3, <3>3
    <3> QED
      BY <3>1, <3>2, <3>3
  <2>4. ToSet(l) \subseteq site.scope
    <3>1. DOMAIN l = 1 .. n
      BY <1>5
    <3> HIDE DEF l
    <3> QED
      BY <1>5, <2>2, <3>1 DEF ToSet
  <2> HIDE DEF l
  <2> QED
    BY <1>4, <1>5, <2>3, <2>4 DEF Listed
<1> QED
  BY <1>2, <1>5, <1>6

(* Only sitemaps that were selected are put in the queue.                     *)
LEMMA InScopeType ==
  ASSUME NEW V, NEW site, NEW urls \in Seq(V)
  PROVE  /\ InScope(site, urls) \in Seq(V)
         /\ urls = <<>> => InScope(site, urls) = <<>>
<1> DEFINE places == {i \in DOMAIN urls : urls[i] \in site.scope}
<1>1. places \in SUBSET DOMAIN urls /\ InScope(site, urls) = Selected(urls, places)
  BY DEF InScope
<1>2. urls = <<>> => places = {}
  OBVIOUS
<1> HIDE DEF places
<1>3. Selected(urls, places) \in Seq(V) /\ ToSet(Selected(urls, places)) = {urls[i] : i \in places}
  BY <1>1, SelectedEffect
<1>4. ASSUME places = {} PROVE Selected(urls, places) = <<>>
  <2>1. ToSet(Selected(urls, places)) = {}
    BY <1>3, <1>4
  <2>2. Len(Selected(urls, places)) = 0
    BY <1>3, <2>1 DEF ToSet
  <2> QED
    BY <1>3, <2>2
<1> QED
  BY <1>1, <1>2, <1>3, <1>4

(* A visit takes a sitemap from the queue, and either it was visited before   *)
(* or there is one visited more.                                              *)
LEMMA AfterVisitEffect ==
  ASSUME NEW site, IsSite(site), NEW limit \in Nat, NEW reply, NEW v \in Visits, ~ Enough(limit, v)
  PROVE  LET next == AfterVisit(site, limit, reply, v) IN
           /\ next \in Visits
           /\ v.links \in Listed(site, limit) => next.links \in Listed(site, limit)
           /\ \/ Cardinality(next.visited) = Cardinality(v.visited) + 1
              \/ next.visited = v.visited /\ Len(next.queue) = Len(v.queue) - 1
<1> DEFINE u == Head(v.queue)
           nothing == [urls |-> <<>>, nested |-> <<>>]
           listing == IF u \in v.visited \/ reply[u] # "success" THEN nothing ELSE site.listing[u]
           next == AfterVisit(site, limit, reply, v)
<1>1. /\ v.queue \in Seq(Sitemaps) /\ v.visited \in SUBSET Sitemaps /\ IsFiniteSet(v.visited)
      /\ v.links \in Seq(Pages) /\ v.queue # <<>>
  BY DEF Visits, Enough
<1>2. u \in Sitemaps /\ Tail(v.queue) \in Seq(Sitemaps) /\ Len(Tail(v.queue)) = Len(v.queue) - 1
  BY <1>1
<1>3. listing.urls \in Seq(Pages) /\ listing.nested \in Seq(Sitemaps)
  <2>1. site.listing[u] \in Listings
    BY <1>2 DEF IsSite
  <2>2. site.listing[u].urls \in Seq(Pages) /\ site.listing[u].nested \in Seq(Sitemaps)
    <3>1. <<>> \in Seq(Pages) /\ <<>> \in Seq(Sitemaps)
      OBVIOUS
    <3> QED
      BY <2>1, <3>1 DEF Listings
  <2>3. nothing.urls \in Seq(Pages) /\ nothing.nested \in Seq(Sitemaps)
    OBVIOUS
  <2> HIDE DEF nothing, u
  <2> QED
    BY <2>2, <2>3
<1>4. u \in v.visited => listing.nested = <<>>
  OBVIOUS
<1>5. next = [queue |-> Tail(v.queue) \o InScope(site, listing.nested),
              visited |-> v.visited \cup {u},
              links |-> AddLinks(site, limit, v.links, listing.urls)]
  BY DEF AfterVisit
<1> HIDE DEF u, listing, next
<1>6. /\ InScope(site, listing.nested) \in Seq(Sitemaps)
      /\ u \in v.visited => InScope(site, listing.nested) = <<>>
  BY <1>3, <1>4, InScopeType
<1>7. /\ AddLinks(site, limit, v.links, listing.urls) \in Seq(Pages)
      /\ v.links \in Listed(site, limit)
           => AddLinks(site, limit, v.links, listing.urls) \in Listed(site, limit)
  BY <1>1, <1>3, AddLinksEffect
<1>8. v.visited \cup {u} \in SUBSET Sitemaps /\ IsFiniteSet(v.visited \cup {u})
  BY <1>1, <1>2, FS_AddElement
<1>9. next \in Visits
  <2>1. Tail(v.queue) \o InScope(site, listing.nested) \in Seq(Sitemaps)
    BY <1>2, <1>6
  <2> QED
    BY <1>5, <1>7, <1>8, <2>1 DEF Visits
<1>10. ASSUME u \in v.visited
       PROVE  next.visited = v.visited /\ Len(next.queue) = Len(v.queue) - 1
  <2>1. next.visited = v.visited
    BY <1>5, <1>10
  <2>2. Tail(v.queue) \o <<>> = Tail(v.queue)
    BY <1>2
  <2>3. Len(next.queue) = Len(v.queue) - 1
    BY <1>2, <1>5, <1>6, <1>10, <2>2
  <2> QED
    BY <2>1, <2>3
<1>11. ASSUME u \notin v.visited
       PROVE  Cardinality(next.visited) = Cardinality(v.visited) + 1
  <2>1. Cardinality(next.visited) = Cardinality(v.visited) + 1
    BY <1>1, <1>5, <1>11, FS_AddElement
  <2> QED
    BY <2>1
<1>12. v.links \in Listed(site, limit) => next.links \in Listed(site, limit)
  BY <1>5, <1>7
<1> QED
  BY <1>9, <1>10, <1>11, <1>12 DEF next

(* A walk from state to state hands on the result of the next state.          *)
Walks(S, end, out, next, f) == f = [v \in S |-> IF end[v] THEN out[v] ELSE f[next[v]]]

(* What a walk may come to: the least relation that gives an end its result   *)
(* and any other state that of the next.                                      *)
Explained(S, V, end, out, next, G) ==
  /\ \A v \in S : end[v] => <<v, out[v]>> \in G
  /\ \A v \in S : ~ end[v] => \A r \in V : <<next[v], r>> \in G => <<v, r>> \in G

(* There are walks, wherever they lead: no result is made on the way back.    *)
LEMMA WalkExists ==
  ASSUME NEW S, NEW V, NEW end \in [S -> BOOLEAN], NEW out \in [S -> V], NEW next \in [S -> S]
  PROVE  \E f : Walks(S, end, out, next, f)
<1> DEFINE All == SUBSET (S \X V)
           R == {p \in S \X V : \A G \in All : Explained(S, V, end, out, next, G) => p \in G}
           Results(v) == {r \in V : <<v, r>> \in R}
           f == [v \in S |-> IF end[v] THEN out[v] ELSE CHOOSE r : r \in Results(v)]
<1>1. Explained(S, V, end, out, next, R)
  <2>1. ASSUME NEW v \in S, end[v] PROVE <<v, out[v]>> \in R
    BY <2>1 DEF Explained
  <2>2. ASSUME NEW v \in S, ~ end[v], NEW r \in V, <<next[v], r>> \in R PROVE <<v, r>> \in R
    BY <2>2 DEF Explained
  <2> HIDE DEF R
  <2> QED
    BY <2>1, <2>2 DEF Explained
<1>2. \A G \in All : Explained(S, V, end, out, next, G) => R \subseteq G
  OBVIOUS
<1>3. R \in All
  OBVIOUS
<1> HIDE DEF R
<1>4. ASSUME NEW v \in S, ~ end[v], NEW r \in V, <<v, r>> \in R PROVE <<next[v], r>> \in R
  <2> SUFFICES ASSUME <<next[v], r>> \notin R PROVE FALSE
    OBVIOUS
  <2> DEFINE G == R \ {<<v, r>>}
  <2>1. G \in All /\ <<v, r>> \notin G
    BY <1>3
  <2>2. ASSUME NEW w \in S, end[w] PROVE <<w, out[w]>> \in G
    <3>1. <<w, out[w]>> \in R /\ w # v
      BY <1>1, <1>4, <2>2 DEF Explained
    <3> QED
      BY <3>1
  <2>3. ASSUME NEW w \in S, ~ end[w], NEW x \in V, <<next[w], x>> \in G PROVE <<w, x>> \in G
    <3>1. <<w, x>> \in R
      BY <1>1, <2>3 DEF Explained
    <3>2. ~ (w = v /\ x = r)
      BY <2>3
    <3> QED
      BY <3>1, <3>2
  <2> HIDE DEF G
  <2>4. Explained(S, V, end, out, next, G)
    BY <2>2, <2>3 DEF Explained
  <2> QED
    BY <1>2, <1>4, <2>1, <2>4
<1>5. ASSUME NEW v \in S, end[v], NEW r \in V, <<v, r>> \in R PROVE r = out[v]
  <2> SUFFICES ASSUME r # out[v] PROVE FALSE
    OBVIOUS
  <2> DEFINE G == R \ {<<v, r>>}
  <2>1. G \in All /\ <<v, r>> \notin G
    BY <1>3
  <2>2. ASSUME NEW w \in S, end[w] PROVE <<w, out[w]>> \in G
    <3>1. <<w, out[w]>> \in R /\ ~ (w = v /\ out[w] = r)
      BY <1>1, <2>2 DEF Explained
    <3> QED
      BY <3>1
  <2>3. ASSUME NEW w \in S, ~ end[w], NEW x \in V, <<next[w], x>> \in G PROVE <<w, x>> \in G
    <3>1. <<w, x>> \in R /\ w # v
      BY <1>1, <1>5, <2>3 DEF Explained
    <3> QED
      BY <3>1
  <2> HIDE DEF G
  <2>4. Explained(S, V, end, out, next, G)
    BY <2>2, <2>3 DEF Explained
  <2> QED
    BY <1>2, <1>5, <2>1, <2>4
<1>6. \A v \in S : ~ end[v] => Results(v) = Results(next[v])
  BY <1>1, <1>4 DEF Explained
<1>7. \A v \in S : end[v] => Results(v) = {out[v]}
  BY <1>1, <1>5 DEF Explained
<1> HIDE DEF Results
<1>8. \A v \in S : f[v] = CHOOSE r : r \in Results(v)
  BY <1>7
<1>9. \A v \in S : f[v] = IF end[v] THEN out[v] ELSE f[next[v]]
  <2> HIDE DEF f
  <2>1. ASSUME NEW v \in S, end[v] PROVE f[v] = out[v]
    BY <1>7, <1>8, <2>1
  <2>2. ASSUME NEW v \in S, ~ end[v] PROVE f[v] = f[next[v]]
    <3>1. next[v] \in S /\ Results(v) = Results(next[v])
      BY <1>6, <2>2
    <3> QED
      BY <1>8, <3>1
  <2> QED
    BY <2>1, <2>2
<1>10. Walks(S, end, out, next, f)
  <2>1. f = [v \in S |-> f[v]]
    OBVIOUS
  <2> HIDE DEF f
  <2> QED
    BY <1>9, <2>1 DEF Walks
<1> HIDE DEF f
<1> QED
  BY <1>10

(* The walk through the sitemaps ends, since no more than so many are visited *)
(* and the queue gets shorter when none is; hence it comes to proper links.   *)
LEMMA SitemapLinksListed ==
  ASSUME NEW site, IsSite(site), NEW limit \in Nat, NEW reply, NEW queue \in Seq(Sitemaps)
  PROVE  SitemapLinks(site, limit, reply, queue) \in Listed(site, limit)
<1> DEFINE Then(v) == AfterVisit(site, limit, reply, v)
           Recursion(f) == f = [v \in Visits |-> IF Enough(limit, v) THEN v.links ELSE f[Then(v)]]
           visit == CHOOSE f : Recursion(f)
           first == [queue |-> queue, visited |-> {}, links |-> <<>>]
           Fails(v) == v \in Visits /\ v.links \in Listed(site, limit) /\ visit[v] \notin Listed(site, limit)
           Left(v) == IF Cardinality(v.visited) < MaxSitemaps THEN MaxSitemaps - Cardinality(v.visited) ELSE 0
<1>1. SitemapLinks(site, limit, reply, queue) = visit[first]
  BY Zenon DEF SitemapLinks
<1>2. \A v \in Visits : ~ Enough(limit, v) => Then(v) \in Visits
  BY AfterVisitEffect
<1> HIDE DEF Then
<1>3. \E f : Recursion(f)
  <2> DEFINE end == [v \in Visits |-> Enough(limit, v)]
             out == [v \in Visits |-> v.links]
             next == [v \in Visits |-> IF Enough(limit, v) THEN v ELSE Then(v)]
  <2>1. end \in [Visits -> BOOLEAN]
    BY DEF Enough
  <2>2. out \in [Visits -> Seq(Pages)]
    BY DEF Visits
  <2>3. next \in [Visits -> Visits]
    BY <1>2
  <2>4. \A v \in Visits : /\ end[v] = Enough(limit, v) /\ out[v] = v.links
                          /\ ~ Enough(limit, v) => next[v] = Then(v)
    OBVIOUS
  <2> HIDE DEF end, out, next
  <2>5. PICK f : Walks(Visits, end, out, next, f)
    BY <2>1, <2>2, <2>3, WalkExists, Zenon
  <2>6. [v \in Visits |-> IF end[v] THEN out[v] ELSE f[next[v]]]
          = [v \in Visits |-> IF Enough(limit, v) THEN v.links ELSE f[Then(v)]]
    BY <2>4
  <2> QED
    BY <2>5, <2>6 DEF Walks
<1>4. Recursion(visit)
  <2> HIDE DEF Recursion
  <2> QED
    BY <1>3, Zenon
<1> HIDE DEF visit
<1>5. \A v \in Visits : visit[v] = IF Enough(limit, v) THEN v.links ELSE visit[Then(v)]
  BY <1>4
<1>6. \A v \in Visits : /\ Cardinality(v.visited) \in Nat /\ Len(v.queue) \in Nat /\ Left(v) \in Nat
  <2>1. \A v \in Visits : Cardinality(v.visited) \in Nat /\ Len(v.queue) \in Nat
    BY FS_CardinalityType DEF Visits
  <2> QED
    BY <2>1, SiteMapAssumption
<1>7. ASSUME NEW v, Fails(v)
      PROVE  \E w : Fails(w) /\ (Left(w) < Left(v) \/ (Left(w) = Left(v) /\ Len(w.queue) < Len(v.queue)))
  <2>1. ~ Enough(limit, v)
    BY <1>5, <1>7
  <2>2. /\ Then(v) \in Visits /\ Then(v).links \in Listed(site, limit)
        /\ \/ Cardinality(Then(v).visited) = Cardinality(v.visited) + 1
           \/ Then(v).visited = v.visited /\ Len(Then(v).queue) = Len(v.queue) - 1
    BY <1>7, <2>1, AfterVisitEffect DEF Then
  <2>3. Fails(Then(v))
    BY <1>5, <1>7, <2>1, <2>2
  <2>4. Cardinality(v.visited) < MaxSitemaps /\ MaxSitemaps \in Nat
    BY <1>6, <1>7, <2>1, SiteMapAssumption DEF Enough
  <2>5. CASE Cardinality(Then(v).visited) = Cardinality(v.visited) + 1
    <3>1. Left(Then(v)) < Left(v)
      BY <1>6, <1>7, <2>2, <2>4, <2>5
    <3> QED
      BY <2>3, <3>1
  <2>6. CASE Then(v).visited = v.visited /\ Len(Then(v).queue) = Len(v.queue) - 1
    <3>1. Left(Then(v)) = Left(v) /\ Len(Then(v).queue) < Len(v.queue)
      BY <1>6, <1>7, <2>2, <2>6
    <3> QED
      BY <2>3, <3>1
  <2> QED
    BY <2>2, <2>5, <2>6
<1> DEFINE lefts == {n \in Nat : \E v : Fails(v) /\ Left(v) = n}
           lengths(m) == {n \in Nat : \E v : Fails(v) /\ Left(v) = m /\ Len(v.queue) = n}
<1>8. ASSUME NEW v, Fails(v) PROVE FALSE
  <2>1. v \in Visits /\ Left(v) \in Nat
    BY <1>6, <1>8
  <2> HIDE DEF Left, Fails
  <2>2. PICK m \in lefts : \A n \in lefts : m <= n
    <3>1. lefts \in SUBSET Nat /\ lefts # {}
      BY <1>8, <2>1
    <3> HIDE DEF lefts
    <3> QED
      BY <3>1, LeastMember
  <2>3. PICK w : Fails(w) /\ Left(w) = m
    OBVIOUS
  <2>4. w \in Visits /\ Len(w.queue) \in Nat
    BY <1>6, <2>3 DEF Fails
  <2>5. PICK k \in lengths(m) : \A n \in lengths(m) : k <= n
    <3>1. lengths(m) \in SUBSET Nat /\ lengths(m) # {}
      BY <2>3, <2>4
    <3> HIDE DEF lengths
    <3> QED
      BY <3>1, LeastMember
  <2>6. PICK x : Fails(x) /\ Left(x) = m /\ Len(x.queue) = k
    OBVIOUS
  <2>7. PICK y : Fails(y) /\ (Left(y) < m \/ (Left(y) = m /\ Len(y.queue) < k))
    BY <1>7, <2>6
  <2>8. Left(y) \in Nat /\ Len(y.queue) \in Nat
    BY <1>6, <2>7 DEF Fails
  <2>9. Left(y) \in lefts /\ (Left(y) = m => Len(y.queue) \in lengths(m))
    BY <2>7, <2>8
  <2>10. m \in Nat /\ k \in Nat
    OBVIOUS
  <2> HIDE DEF lefts, lengths
  <2>11. ~ Left(y) < m
    BY <2>2, <2>8, <2>9, <2>10
  <2>12. ~ (Left(y) = m /\ Len(y.queue) < k)
    BY <2>5, <2>8, <2>9, <2>10
  <2> QED
    BY <2>7, <2>11, <2>12
<1>9. first \in Visits /\ first.links \in Listed(site, limit)
  <2>1. <<>> \in Seq(Pages) /\ Len(<<>>) = 0 /\ ToSet(<<>>) = {}
    BY DEF ToSet
  <2>2. {} \in SUBSET Sitemaps /\ IsFiniteSet({})
    BY FS_EmptySet
  <2> QED
    BY <2>1, <2>2 DEF Visits, Listed
<1> QED
  BY <1>1, <1>8, <1>9

(* However its fetches end, a map lists pages in scope, each once, and no more *)
(* than asked for (map.rs, map): the links of all sitemaps, however nested or  *)
(* named twice, and of the root page count together.                          *)
THEOREM MapsKeepTheirLimits ==
  ASSUME NEW site, IsSite(site), NEW limit \in Nat
  PROVE  Maps(site, limit) \subseteq Listed(site, limit)
<1> SUFFICES ASSUME NEW reply PROVE Map(site, limit, reply) \in Listed(site, limit)
  BY DEF Maps
<1> DEFINE named == IF reply[Robots] = "success" THEN InScope(site, site.robots) ELSE <<>>
           queue == IF named = <<>> THEN <<Conventional>> ELSE named
           links == SitemapLinks(site, limit, reply, queue)
<1>1. queue \in Seq(Sitemaps)
  <2>1. InScope(site, site.robots) \in Seq(Sitemaps)
    BY InScopeType DEF IsSite
  <2>2. <<Conventional>> \in Seq(Sitemaps)
    BY SiteMapAssumption
  <2> QED
    BY <2>1, <2>2
<1>2. <<>> \in Listed(site, limit)
  <2>1. <<>> \in Seq(Pages) /\ Len(<<>>) = 0 /\ ToSet(<<>>) = {}
    BY DEF ToSet
  <2> QED
    BY <2>1 DEF Listed
<1>3. Map(site, limit, reply) \in {<<>>, links, AddLinks(site, limit, links, site.links)}
  BY DEF Map
<1> HIDE DEF queue
<1>4. links \in Listed(site, limit)
  BY <1>1, SitemapLinksListed
<1> HIDE DEF links
<1>5. links \in Seq(Pages) /\ site.links \in Seq(Pages)
  BY <1>4 DEF Listed, IsSite
<1>6. AddLinks(site, limit, links, site.links) \in Listed(site, limit)
  BY <1>4, <1>5, AddLinksEffect
<1> QED
  BY <1>2, <1>3, <1>4, <1>6

(* A site map of the crawled site has pages only.                             *)
LEMMA MapType == \A limit \in 1 .. MaxCrawlLimit : Maps(Site, limit) \subseteq Seq(Pages)
<1>1. IsSite(Site) /\ \A limit \in 1 .. MaxCrawlLimit : limit \in Nat
  BY CrawlAssumption
<1>2. \A limit \in Nat : Maps(Site, limit) \subseteq Listed(Site, limit)
  BY <1>1, MapsKeepTheirLimits
<1> QED
  BY <1>1, <1>2 DEF Listed

-----------------------------------------------------------------------------
(* Counters and frontier: the second inductive invariant, of each job and its *)
(* task.                                                                      *)

IsLive(t) ==
  /\ DOMAIN t = TaskFields
  /\ t.request \in [limit : Nat, depth : Nat, concurrency : Nat]
  /\ t.request.limit \in 1 .. MaxCrawlLimit /\ t.request.concurrency >= 1
  /\ t.queue \in Seq(Pages)
  /\ DOMAIN t.seen \subseteq Pages /\ IsFiniteSet(DOMAIN t.seen)
  /\ \A p \in DOMAIN t.seen : t.seen[p] \in Nat
  /\ t.active \subseteq Pages /\ IsFiniteSet(t.active)
  /\ t.active \cup ToSet(t.queue) \subseteq DOMAIN t.seen
  /\ t.at \in {"queued", "robots", "map"} =>
       t.active = {} /\ DOMAIN t.seen = {Root} /\ t.seen[Root] = 0
  /\ t.at = "ending" => t.active = {}

Sane(t) == t.at \in {"none", "over"} \/ IsLive(t)

(* The counters of a job whose task is t.                                     *)
Counted(job, t) ==
  /\ DOMAIN job = JobFields
  /\ job.total \in Nat /\ job.completed \in Nat /\ job.bytes \in Nat
  /\ job.documents \in Seq(Pages) /\ job.errors \in Seq(Pages)
  /\ t.at # "failing" /\ job.status # "failed" =>
       job.completed = Len(job.documents) + Len(job.errors)
  /\ t.at = "failing" \/ job.status = "failed" =>
       job.completed + 1 = Len(job.documents) + Len(job.errors)
  /\ job.bytes = Sum(job.documents) /\ job.bytes <= MaxJobBytes
  /\ t.at \in {"queued", "robots", "map"} => job.completed = 0
  /\ t.at \in {"top", "fill", "wait"} => job.completed + Cardinality(t.active) <= t.request.limit
  /\ t.at \in {"top", "wait"} => job.completed + Cardinality(t.active) <= job.total
  /\ t.at # "fill" => job.completed <= job.total
  /\ t.at = "ending" => job.total = job.completed
  /\ job.status \in Finals => t.at = "over"
  /\ job.status = "completed" => job.total = job.completed

(* Every page that was come across is done, under way or queued.              *)
Placed(job, t) ==
  /\ DOMAIN t.seen = ToSet(job.documents) \cup ToSet(job.errors) \cup t.active \cup ToSet(t.queue)
  /\ Cardinality(DOMAIN t.seen) =
       Len(job.documents) + Len(job.errors) + Cardinality(t.active) + Len(t.queue)

QueuedOnce(t) ==
  /\ \A i, k \in 1 .. Len(t.queue) : t.queue[i] = t.queue[k] => i = k
  /\ ToSet(t.queue) \cap t.active = {}

(* The links of a page were taken up.                                         *)
Taken(t, p) ==
  \/ t.seen[p] >= t.request.depth
  \/ ToSet(LinksOf[p]) \cap Allowed \subseteq DOMAIN t.seen
  \/ Cardinality(DOMAIN t.seen) >= 10 * t.request.limit

(* The queue is in the order of depths, of which it has two at most, the      *)
(* first of them that of the page under way.                                  *)
ByDepth(t) ==
  LET depth(i) == t.seen[t.queue[i]] IN
  /\ \A i, k \in 1 .. Len(t.queue) : (i < k => depth(i) <= depth(k)) /\ depth(k) <= depth(i) + 1
  /\ \A p \in t.active, i \in 1 .. Len(t.queue) : t.seen[p] <= depth(i) /\ depth(i) <= t.seen[p] + 1
  /\ \A p, q \in t.active : p = q

(* No more was begun because nothing is left or the crawl is full.            *)
Filling(job, t) ==
  /\ t.at = "wait" =>
       \/ Cardinality(t.active) >= t.request.concurrency
       \/ job.completed + Cardinality(t.active) >= t.request.limit
       \/ t.queue = <<>>
  /\ t.at = "ending" => t.queue = <<>> \/ job.completed = t.request.limit

Frontier(job, t) ==
  t.at \in {"top", "fill", "wait", "ending"} =>
    /\ Placed(job, t) /\ QueuedOnce(t)
    /\ \A p \in ToSet(job.documents) : Taken(t, p)
    /\ t.request.concurrency = 1 => ByDepth(t)
    /\ Filling(job, t)

Sound(job, t) == Counted(job, t) /\ Frontier(job, t)

CrawlInv ==
  /\ ReaderInv
  /\ \A j \in Jobs : Sane(task[j]) /\ (Stored(j) => Sound(jobs[j], task[j]))

-----------------------------------------------------------------------------

(* Steps of a task, of which only what they say about it matters.             *)

LEMMA JobGoesOn ==
  ASSUME CrawlInv, ReaderInv', NEW j \in Jobs, NEW t, NEW job,
         task' = [task EXCEPT ![j] = t], Sane(t),
         Mutate(j, job) \/ (jobs' = jobs /\ job = jobs[j]),
         Stored(j) => Sound(job, t)
  PROVE  CrawlInv'
<1>1. DOMAIN task = Jobs /\ DOMAIN jobs = Jobs
  BY DEF CrawlInv, ReaderInv, TasksShaped, JobsShaped
<1>2. ASSUME NEW i \in Jobs
      PROVE  Sane(task'[i]) /\ (jobs'[i] # None => Sound(jobs'[i], task'[i]))
  <2>1. CASE i # j
    BY <1>1, <2>1 DEF CrawlInv, Mutate, Stored
  <2>2. CASE i = j
    <3>1. task'[i] = t
      BY <1>1, <2>2
    <3>2. jobs'[i] # None => Stored(j) /\ jobs'[i] = job
      BY <1>1, <2>2 DEF Mutate, Stored
    <3> QED
      BY <3>1, <3>2
  <2> QED
    BY <2>1, <2>2
<1> QED
  BY <1>2 DEF CrawlInv, Stored, Sane, Sound, IsLive, Counted, Frontier,
     Placed, QueuedOnce, Taken, ByDepth, Filling

(* A task that went to another place only.                                    *)
Moved(t, u) ==
  /\ DOMAIN u = TaskFields
  /\ u.request = t.request /\ u.queue = t.queue /\ u.seen = t.seen /\ u.active = t.active

LEMMA MovedLives ==
  ASSUME NEW t, NEW u, IsLive(t), Moved(t, u),
         u.at \in {"queued", "robots", "map"} => t.at \in {"queued", "robots", "map"},
         u.at = "ending" => t.active = {}
  PROVE  IsLive(u)
BY DEF IsLive, Moved

LEMMA MovedFrontier ==
  ASSUME NEW job, NEW new, NEW t, NEW u, Moved(t, u), Frontier(job, t),
         t.at \in {"top", "fill", "wait"}, u.at \in {"top", "fill", "wait", "ending"},
         new.documents = job.documents, new.errors = job.errors,
         Filling(new, u)
  PROVE  Frontier(new, u)
<1>1. Placed(new, u)
  BY DEF Moved, Frontier, Placed
<1>2. QueuedOnce(u)
  BY DEF Moved, Frontier, QueuedOnce
<1>3. \A p \in ToSet(new.documents) : Taken(u, p)
  BY DEF Moved, Frontier, Taken
<1>4. u.request.concurrency = 1 => ByDepth(u)
  BY DEF Moved, Frontier, ByDepth
<1> QED
  BY <1>1, <1>2, <1>3, <1>4 DEF Frontier

(* A crawl that is no longer in its loop.                                     *)
LEMMA NoFrontier ==
  ASSUME NEW job, NEW u, u.at \notin {"top", "fill", "wait", "ending"}
  PROVE  Frontier(job, u)
BY DEF Frontier

LEMMA LiveTask ==
  ASSUME CrawlInv, NEW j \in Jobs, ~At(j, "none"), ~At(j, "over")
  PROVE  IsLive(task[j]) /\ (Stored(j) => Sound(jobs[j], task[j]))
BY DEF CrawlInv, Sane, At

LEMMA TopCrawl ==
  ASSUME CrawlInv, ReaderInv', NEW j \in Jobs, Top(j)
  PROVE  CrawlInv'
<1> DEFINE t == task[j]
           u == [t EXCEPT !.at = "fill"]
<1>1. t.at = "top" /\ task' = [task EXCEPT ![j] = u] /\ jobs' = jobs
  BY DEF Top, At
<1>2. IsLive(t) /\ (Stored(j) => Sound(jobs[j], t))
  BY <1>1, LiveTask DEF At
<1>3. Moved(t, u) /\ u.at = "fill"
  BY <1>2 DEF IsLive, Moved, TaskFields
<1> HIDE DEF u, t
<1>4. IsLive(u)
  BY <1>2, <1>3, MovedLives
<1>5. ASSUME Stored(j) PROVE Sound(jobs[j], u)
  <2>1. Counted(jobs[j], u)
    BY <1>1, <1>2, <1>3, <1>5 DEF Sound, Counted, Moved
  <2>2. Filling(jobs[j], u)
    BY <1>3 DEF Filling
  <2>3. Frontier(jobs[j], u)
    BY <1>1, <1>2, <1>3, <1>5, <2>2, MovedFrontier DEF Sound
  <2> QED
    BY <2>1, <2>3 DEF Sound
<1> QED
  BY <1>1, <1>4, <1>5, JobGoesOn DEF Sane

LEMMA RobotsCrawl ==
  ASSUME CrawlInv, ReaderInv', NEW j \in Jobs, FetchRobots(j)
  PROVE  CrawlInv'
<1>1. PICK found \in BOOLEAN : task' = [task EXCEPT ![j].at = "map", ![j].robots = found]
  BY DEF FetchRobots
<1> DEFINE t == task[j]
           u == [t EXCEPT !.at = "map", !.robots = found]
<1>2. t.at = "robots" /\ task' = [task EXCEPT ![j] = u] /\ jobs' = jobs
  BY <1>1 DEF FetchRobots, At
<1>3. IsLive(t) /\ (Stored(j) => Sound(jobs[j], t))
  BY <1>2, LiveTask DEF At
<1>4. Moved(t, u) /\ u.at = "map"
  BY <1>3 DEF IsLive, Moved, TaskFields
<1> HIDE DEF u, t
<1>5. IsLive(u)
  BY <1>2, <1>3, <1>4, MovedLives
<1>6. ASSUME Stored(j) PROVE Sound(jobs[j], u)
  <2>1. Counted(jobs[j], u)
    BY <1>2, <1>3, <1>4, <1>6 DEF Sound, Counted, Moved
  <2> QED
    BY <1>4, <2>1, NoFrontier DEF Sound
<1> QED
  BY <1>2, <1>5, <1>6, JobGoesOn DEF Sane

LEMMA AdmitCrawl ==
  ASSUME CrawlInv, ReaderInv', NEW j \in Jobs, Admit(j)
  PROVE  CrawlInv'
<1> DEFINE t == task[j]
           u == [t EXCEPT !.at = "robots", !.permit = TRUE]
           job == [jobs[j] EXCEPT !.status = "running"]
<1>1. t.at = "queued" /\ task' = [task EXCEPT ![j] = u] /\ Mutate(j, job)
  BY DEF Admit, At
<1>2. IsLive(t) /\ (Stored(j) => Sound(jobs[j], t))
  BY <1>1, LiveTask DEF At
<1>3. Moved(t, u) /\ u.at = "robots"
  BY <1>2 DEF IsLive, Moved, TaskFields
<1>4. IsLive(u)
  BY <1>1, <1>2, <1>3, MovedLives
<1>5. ASSUME Stored(j) PROVE Sound(job, u)
  <2>1. Counted(jobs[j], t) /\ DOMAIN jobs[j] = JobFields
    BY <1>2, <1>5 DEF Sound, Counted
  <2>2. /\ DOMAIN job = JobFields /\ job.status = "running"
        /\ job.total = jobs[j].total /\ job.completed = jobs[j].completed
        /\ job.bytes = jobs[j].bytes /\ job.documents = jobs[j].documents /\ job.errors = jobs[j].errors
    BY <2>1 DEF JobFields
  <2>3. jobs[j].status \notin Finals
    BY <1>1, <2>1 DEF Counted
  <2> HIDE DEF job, u, t
  <2>4. Counted(job, u)
    BY <1>1, <1>3, <2>1, <2>2, <2>3 DEF Counted, Finals
  <2> QED
    BY <1>3, <2>4, NoFrontier DEF Sound
<1> HIDE DEF job, u, t
<1> QED
  BY <1>1, <1>4, <1>5, JobGoesOn DEF Sane

(* Steps that end a crawl or lead to its end.                                 *)

LEMMA FilledCrawl ==
  ASSUME CrawlInv, ReaderInv', NEW j \in Jobs, Filled(j)
  PROVE  CrawlInv'
<1> DEFINE t == task[j]
           u == [t EXCEPT !.at = "wait"]
           known == Completed(j) + Cardinality(t.active) + Len(t.queue)
           total == Larger(jobs[j].total, Smaller(known, t.request.limit))
           job == [jobs[j] EXCEPT !.total = total]
<1>1. t.at = "fill" /\ task' = [task EXCEPT ![j] = u] /\ Mutate(j, job) /\ ~CanFill(j)
  BY DEF Filled, At
<1>2. IsLive(t) /\ (Stored(j) => Sound(jobs[j], t))
  BY <1>1, LiveTask DEF At
<1>3. Moved(t, u) /\ u.at = "wait"
  BY <1>2 DEF IsLive, Moved, TaskFields
<1>4. IsLive(u)
  BY <1>1, <1>2, <1>3, MovedLives
<1>5. ASSUME Stored(j) PROVE Sound(job, u)
  <2>1. Counted(jobs[j], t) /\ DOMAIN jobs[j] = JobFields
    BY <1>2, <1>5 DEF Sound, Counted
  <2>2. /\ DOMAIN job = JobFields /\ job.status = jobs[j].status
        /\ job.total = total /\ job.completed = jobs[j].completed
        /\ job.bytes = jobs[j].bytes /\ job.documents = jobs[j].documents /\ job.errors = jobs[j].errors
    <3> HIDE DEF total
    <3> QED
      BY <2>1 DEF JobFields
  <2>3. /\ jobs[j].completed \in Nat /\ Cardinality(t.active) \in Nat /\ Len(t.queue) \in Nat
        /\ jobs[j].total \in Nat /\ t.request.limit \in Nat
        /\ jobs[j].completed + Cardinality(t.active) <= t.request.limit
    <3>1. Cardinality(t.active) \in Nat
      BY <1>2, FS_CardinalityType DEF IsLive
    <3> QED
      BY <1>1, <1>2, <2>1, <3>1 DEF IsLive, Counted
  <2>4. /\ total \in Nat /\ total >= jobs[j].total
        /\ jobs[j].completed + Cardinality(t.active) <= total
    <3>1. Completed(j) = jobs[j].completed
      BY <1>5 DEF Completed
    <3> HIDE DEF t
    <3> QED
      BY <2>3, <3>1 DEF Larger, Smaller
  <2>5. Filling(job, u)
    <3>1. \/ Cardinality(t.active) >= t.request.concurrency
          \/ jobs[j].completed + Cardinality(t.active) >= t.request.limit
          \/ t.queue = <<>>
      <4>1. t.request.concurrency \in Nat
        BY <1>2 DEF IsLive
      <4> QED
        BY <1>1, <1>5, <2>3, <4>1 DEF CanFill, Completed
    <3> QED
      BY <1>3, <2>2, <3>1 DEF Filling, Moved
  <2> HIDE DEF job, u, t, total
  <2>6. Counted(job, u)
    <3>1. jobs[j].status \notin Finals
      BY <1>1, <2>1 DEF Counted
    <3>2. /\ job.status # "failed" /\ jobs[j].status # "failed" /\ job.status # "completed"
          /\ t.at # "failing" /\ u.at # "failing" /\ u.active = t.active /\ u.request = t.request
      BY <1>1, <1>3, <2>2, <3>1 DEF Finals, Moved
    <3>3. jobs[j].completed = Len(jobs[j].documents) + Len(jobs[j].errors)
      BY <2>1, <3>2 DEF Counted
    <3>4. job.completed = Len(job.documents) + Len(job.errors)
      BY <2>2, <2>3, <3>2, <3>3
    <3>5. /\ job.bytes = Sum(job.documents) /\ job.bytes \in Nat /\ job.bytes <= MaxJobBytes
          /\ job.documents \in Seq(Pages) /\ job.errors \in Seq(Pages)
      BY <2>1, <2>2 DEF Counted
    <3>6. job.completed + Cardinality(u.active) <= u.request.limit /\ job.completed + Cardinality(u.active) <= job.total
      BY <2>2, <2>3, <2>4, <3>2
    <3>7. job.completed \in Nat /\ job.total \in Nat /\ job.completed <= job.total
      BY <2>2, <2>3, <2>4
    <3> QED
      BY <1>3, <2>2, <3>1, <3>2, <3>4, <3>5, <3>6, <3>7 DEF Counted
  <2>7. Frontier(job, u)
    BY <1>1, <1>2, <1>3, <1>5, <2>2, <2>5, MovedFrontier DEF Sound
  <2> QED
    BY <2>6, <2>7 DEF Sound
<1> HIDE DEF job, u, t
<1> QED
  BY <1>1, <1>4, <1>5, JobGoesOn DEF Sane

LEMMA DrainCrawl ==
  ASSUME CrawlInv, ReaderInv', NEW j \in Jobs, Drain(j)
  PROVE  CrawlInv'
<1> DEFINE t == task[j]
           u == [t EXCEPT !.at = "ending"]
           job == [jobs[j] EXCEPT !.total = jobs[j].completed]
<1>1. t.at = "wait" /\ task' = [task EXCEPT ![j] = u] /\ Mutate(j, job) /\ t.active = {}
  BY DEF Drain, At
<1>2. IsLive(t) /\ (Stored(j) => Sound(jobs[j], t))
  BY <1>1, LiveTask DEF At
<1>3. Moved(t, u) /\ u.at = "ending"
  BY <1>2 DEF IsLive, Moved, TaskFields
<1>4. IsLive(u)
  BY <1>1, <1>2, <1>3, MovedLives
<1>5. ASSUME Stored(j) PROVE Sound(job, u)
  <2>1. Counted(jobs[j], t) /\ DOMAIN jobs[j] = JobFields
    BY <1>2, <1>5 DEF Sound, Counted
  <2>2. /\ DOMAIN job = JobFields /\ job.status = jobs[j].status
        /\ job.total = jobs[j].completed /\ job.completed = jobs[j].completed
        /\ job.bytes = jobs[j].bytes /\ job.documents = jobs[j].documents /\ job.errors = jobs[j].errors
    BY <2>1 DEF JobFields
  <2>3. Filling(job, u)
    <3>1. Cardinality(t.active) = 0
      BY <1>1, FS_EmptySet
    <3>2. Filling(jobs[j], t)
      BY <1>1, <1>2, <1>5 DEF Sound, Frontier
    <3>3. /\ t.request.concurrency >= 1 /\ t.request.concurrency \in Nat /\ t.request.limit \in Nat
          /\ jobs[j].completed \in Nat /\ jobs[j].completed <= t.request.limit
      BY <1>1, <1>2, <2>1, <3>1 DEF IsLive, Counted
    <3>4. t.queue = <<>> \/ jobs[j].completed = t.request.limit
      <4> HIDE DEF t
      <4> QED
        BY <1>1, <3>1, <3>2, <3>3 DEF Filling
    <3> QED
      BY <1>3, <2>2, <3>4 DEF Filling, Moved
  <2> HIDE DEF job, u, t
  <2>4. Counted(job, u)
    <3>1. jobs[j].status \notin Finals
      BY <1>1, <2>1 DEF Counted
    <3>2. /\ job.status # "failed" /\ jobs[j].status # "failed" /\ job.status # "completed"
          /\ t.at # "failing" /\ u.at # "failing"
      BY <1>1, <1>3, <2>2, <3>1 DEF Finals
    <3>3. jobs[j].completed = Len(jobs[j].documents) + Len(jobs[j].errors) /\ jobs[j].completed \in Nat
      BY <2>1, <3>2 DEF Counted
    <3>4. job.completed = Len(job.documents) + Len(job.errors)
      BY <2>2, <3>2, <3>3
    <3>5. /\ job.bytes = Sum(job.documents) /\ job.bytes \in Nat /\ job.bytes <= MaxJobBytes
          /\ job.documents \in Seq(Pages) /\ job.errors \in Seq(Pages)
      BY <2>1, <2>2 DEF Counted
    <3>6. job.completed <= job.total
      BY <2>2, <3>3
    <3> QED
      BY <1>3, <2>2, <3>1, <3>2, <3>3, <3>4, <3>5, <3>6 DEF Counted
  <2>5. Frontier(job, u)
    BY <1>1, <1>2, <1>3, <1>5, <2>2, <2>3, MovedFrontier DEF Sound
  <2> QED
    BY <2>4, <2>5 DEF Sound
<1> HIDE DEF job, u, t
<1> QED
  BY <1>1, <1>4, <1>5, JobGoesOn DEF Sane

(* The task writes a final status and is over.                                *)
LEMMA FinishCrawl ==
  ASSUME CrawlInv, ReaderInv', NEW j \in Jobs, Cancel(j) \/ End(j) \/ Fail(j)
  PROVE  CrawlInv'
<1> DEFINE t == task[j]
<1>1. PICK status :
        /\ Mutate(j, Finish(j, status)) /\ task' = [task EXCEPT ![j] = OverTask]
        /\ \/ t.at \in {"queued", "top", "wait"} /\ status = "cancelled"
           \/ t.at = "ending" /\ status \in {"completed", "cancelled"}
           \/ t.at = "failing" /\ status = "failed"
  BY DEF Cancel, End, Fail, At
<1>2. Stored(j) => Counted(jobs[j], t)
  BY <1>1, LiveTask DEF At, Sound
<1>3. OverTask.at = "over"
  BY DEF OverTask
<1> DEFINE job == Finish(j, status)
<1>4. ASSUME Stored(j) PROVE Sound(job, OverTask)
  <2>1. /\ DOMAIN job = JobFields /\ job.status = status
        /\ job.total = jobs[j].total /\ job.completed = jobs[j].completed
        /\ job.bytes = jobs[j].bytes /\ job.documents = jobs[j].documents /\ job.errors = jobs[j].errors
    <3>1. DOMAIN jobs[j] = JobFields
      BY <1>2, <1>4 DEF Counted
    <3> QED
      BY <3>1 DEF Finish, JobFields
  <2> HIDE DEF job, t, OverTask
  <2>2. jobs[j].status \notin Finals
    BY <1>1, <1>2, <1>4 DEF Counted
  <2>3. Counted(job, OverTask)
    BY <1>1, <1>2, <1>3, <1>4, <2>1, <2>2 DEF Counted, Finals
  <2> QED
    BY <1>3, <2>3, NoFrontier DEF Sound
<1> HIDE DEF job, t, OverTask
<1> QED
  BY <1>1, <1>3, <1>4, JobGoesOn DEF Sane, job

(* The deadline: the error of the whole crawl.                                *)
LEMMA DeadlineCrawl ==
  ASSUME CrawlInv, ReaderInv', NEW j \in Jobs, TimeOut(j) \/ NoticeDeadline(j)
  PROVE  CrawlInv'
<1> DEFINE t == task[j]
           job == [jobs[j] EXCEPT !.errors = Append(@, Root)]
<1>1. /\ t.at \in {"queued", "robots", "map", "top", "wait"} /\ Mutate(j, job)
      /\ \/ task' = [task EXCEPT ![j] = [t EXCEPT !.at = "failing", !.active = {}]]
         \/ task' = [task EXCEPT ![j] = [t EXCEPT !.at = "failing", !.active = {}, !.permit = FALSE]]
  BY DEF TimeOut, NoticeDeadline, FailWith, At
<1>2. IsLive(t) /\ (Stored(j) => Sound(jobs[j], t))
  BY <1>1, LiveTask DEF At
<1>3. PICK u : /\ task' = [task EXCEPT ![j] = u] /\ DOMAIN u = TaskFields /\ u.at = "failing"
               /\ u.active = {} /\ u.request = t.request /\ u.queue = t.queue /\ u.seen = t.seen
  <2> DEFINE v == [t EXCEPT !.at = "failing", !.active = {}]
             w == [t EXCEPT !.at = "failing", !.active = {}, !.permit = FALSE]
  <2>1. /\ DOMAIN v = TaskFields /\ v.at = "failing" /\ v.active = {}
        /\ v.request = t.request /\ v.queue = t.queue /\ v.seen = t.seen
    BY <1>2 DEF IsLive, TaskFields
  <2>2. /\ DOMAIN w = TaskFields /\ w.at = "failing" /\ w.active = {}
        /\ w.request = t.request /\ w.queue = t.queue /\ w.seen = t.seen
    BY <1>2 DEF IsLive, TaskFields
  <2>3. task' = [task EXCEPT ![j] = v] \/ task' = [task EXCEPT ![j] = w]
    BY <1>1
  <2> HIDE DEF v, w, t
  <2> QED
    BY <2>1, <2>2, <2>3
<1>4. IsLive(u)
  <2>1. IsFiniteSet({})
    BY FS_EmptySet
  <2> QED
    BY <1>2, <1>3, <2>1 DEF IsLive
<1>5. ASSUME Stored(j) PROVE Sound(job, u)
  <2>1. Counted(jobs[j], t) /\ DOMAIN jobs[j] = JobFields
    BY <1>2, <1>5 DEF Sound, Counted
  <2>2. /\ DOMAIN job = JobFields /\ job.status = jobs[j].status
        /\ job.total = jobs[j].total /\ job.completed = jobs[j].completed
        /\ job.bytes = jobs[j].bytes /\ job.documents = jobs[j].documents
        /\ job.errors = Append(jobs[j].errors, Root)
    BY <2>1 DEF JobFields
  <2>3. /\ job.errors \in Seq(Pages) /\ Len(job.errors) = Len(jobs[j].errors) + 1
        /\ Len(jobs[j].errors) \in Nat /\ Len(jobs[j].documents) \in Nat
    <3>1. Root \in Pages /\ jobs[j].errors \in Seq(Pages) /\ jobs[j].documents \in Seq(Pages)
      BY <2>1, CrawlAssumption DEF Counted
    <3> HIDE DEF job
    <3> QED
      BY <2>2, <3>1
  <2> HIDE DEF job, t
  <2>4. jobs[j].status \notin Finals
    BY <1>1, <2>1 DEF Counted
  <2>5. Counted(job, u)
    <3>1. jobs[j].status # "failed" /\ job.status # "completed" /\ t.at # "failing" /\ t.at # "fill"
      BY <1>1, <2>2, <2>4 DEF Finals
    <3>2. /\ jobs[j].completed = Len(jobs[j].documents) + Len(jobs[j].errors)
          /\ jobs[j].completed \in Nat /\ jobs[j].total \in Nat /\ jobs[j].completed <= jobs[j].total
      BY <2>1, <3>1 DEF Counted
    <3>3. job.completed + 1 = Len(job.documents) + Len(job.errors)
      <4>1. /\ Len(job.documents) = Len(jobs[j].documents) /\ Len(job.errors) = Len(jobs[j].errors) + 1
            /\ Len(jobs[j].errors) \in Nat /\ Len(jobs[j].documents) \in Nat
            /\ job.completed = Len(jobs[j].documents) + Len(jobs[j].errors)
        BY <2>2, <2>3, <3>2
      <4>2. \A m, n \in Nat : (m + n) + 1 = m + (n + 1)
        OBVIOUS
      <4> QED
        BY <4>1, <4>2, Zenon
    <3>4. /\ job.bytes = Sum(job.documents) /\ job.bytes \in Nat /\ job.bytes <= MaxJobBytes
          /\ job.documents \in Seq(Pages)
      BY <2>1, <2>2 DEF Counted
    <3> QED
      BY <1>3, <2>2, <2>3, <2>4, <3>1, <3>2, <3>3, <3>4 DEF Counted
  <2> QED
    BY <1>3, <2>5, NoFrontier DEF Sound
<1> HIDE DEF job, t
<1> QED
  BY <1>1, <1>3, <1>4, <1>5, JobGoesOn DEF Sane

-----------------------------------------------------------------------------
(* Pages that are discovered.                                                 *)

(* Pages t has not come across, each once.                                    *)
NewPages(t, new) ==
  /\ new \in Seq(Pages)
  /\ \A i, k \in 1 .. Len(new) : new[i] = new[k] => i = k
  /\ ToSet(new) \cap DOMAIN t.seen = {}

(* u is t with new pages of a depth.                                          *)
Grown(t, new, depth, u) ==
  /\ DOMAIN u = TaskFields
  /\ u.at = t.at /\ u.request = t.request /\ u.active = t.active
  /\ u.queue = t.queue \o new
  /\ DOMAIN u.seen = DOMAIN t.seen \cup ToSet(new)
  /\ \A p \in ToSet(new) : u.seen[p] = depth
  /\ \A p \in DOMAIN t.seen : u.seen[p] = t.seen[p]

LEMMA DiscoverGrows ==
  ASSUME NEW t, DOMAIN t = TaskFields, NEW new, NewPages(t, new), NEW depth
  PROVE  Grown(t, new, depth, Discover(t, new, depth))
<1> DEFINE queue == t.queue \o new
           seen == [p \in DOMAIN t.seen \cup ToSet(new) |-> IF p \in DOMAIN t.seen THEN t.seen[p] ELSE depth]
           u == [t EXCEPT !.queue = queue, !.seen = seen]
<1>1. Discover(t, new, depth) = u
  BY DEF Discover
<1>2. /\ DOMAIN seen = DOMAIN t.seen \cup ToSet(new)
      /\ \A p \in ToSet(new) : seen[p] = depth
      /\ \A p \in DOMAIN t.seen : seen[p] = t.seen[p]
  BY DEF NewPages
<1> HIDE DEF queue, seen
<1>3. /\ DOMAIN u = TaskFields /\ u.queue = queue /\ u.seen = seen
      /\ u.at = t.at /\ u.request = t.request /\ u.active = t.active
  BY DEF TaskFields
<1> HIDE DEF u
<1> QED
  BY <1>1, <1>2, <1>3 DEF Grown, queue

(* The members of a sequence without repetition.                              *)
LEMMA DistinctMembers ==
  ASSUME NEW s \in Seq(Pages), \A i, k \in 1 .. Len(s) : s[i] = s[k] => i = k
  PROVE  IsFiniteSet(ToSet(s)) /\ Cardinality(ToSet(s)) = Len(s) /\ ToSet(s) \subseteq Pages
<1>1. Len(s) \in Nat /\ DOMAIN s = 1 .. Len(s) /\ s \in [1 .. Len(s) -> ToSet(s)] /\ ToSet(s) \subseteq Pages
  BY DEF ToSet
<1>2. s \in Surjection(1 .. Len(s), ToSet(s)) /\ s \in Injection(1 .. Len(s), ToSet(s))
  BY <1>1 DEF Surjection, Injection, IsInjective, ToSet
<1>3. IsFiniteSet(1 .. Len(s)) /\ Cardinality(1 .. Len(s)) = Len(s)
  BY <1>1, FS_Interval
<1> QED
  BY <1>1, <1>2, <1>3, FS_Surjection

LEMMA AppendedMembers ==
  ASSUME NEW s \in Seq(Pages), NEW p \in Pages
  PROVE  /\ Append(s, p) \in Seq(Pages) /\ Len(Append(s, p)) = Len(s) + 1 /\ Len(s) \in Nat
         /\ ToSet(Append(s, p)) = ToSet(s) \cup {p}
<1> DEFINE t == Append(s, p)
           n == Len(s)
<1>1. /\ n \in Nat /\ t \in Seq(Pages) /\ Len(t) = n + 1 /\ t[n + 1] = p
      /\ DOMAIN t = 1 .. n + 1 /\ DOMAIN s = 1 .. n
      /\ \A i \in 1 .. n : t[i] = s[i]
  OBVIOUS
<1> HIDE DEF t, n
<1>2. \A i : i \in 1 .. n + 1 <=> (i \in 1 .. n \/ i = n + 1)
  BY <1>1
<1>3. ToSet(t) = ToSet(s) \cup {p}
  BY <1>1, <1>2 DEF ToSet
<1> QED
  BY <1>1, <1>3 DEF t, n

LEMMA JoinedMembers ==
  ASSUME NEW s \in Seq(Pages), NEW r \in Seq(Pages)
  PROVE  LET t == s \o r IN
           /\ t \in Seq(Pages) /\ Len(t) = Len(s) + Len(r)
           /\ Len(s) \in Nat /\ Len(r) \in Nat
           /\ ToSet(t) = ToSet(s) \cup ToSet(r)
           /\ \A i \in 1 .. Len(t) : \/ i \in 1 .. Len(s) /\ t[i] = s[i]
                                     \/ /\ i - Len(s) \in 1 .. Len(r) /\ t[i] = r[i - Len(s)]
                                        /\ Len(s) < i /\ i \in Nat
<1> DEFINE t == s \o r
           n == Len(s)
           m == Len(r)
<1>1. /\ n \in Nat /\ m \in Nat /\ t \in Seq(Pages) /\ Len(t) = n + m
      /\ DOMAIN s = 1 .. n /\ DOMAIN r = 1 .. m /\ DOMAIN t = 1 .. n + m
      /\ \A i \in 1 .. n : t[i] = s[i]
      /\ \A i \in 1 .. m : t[n + i] = r[i]
  OBVIOUS
<1> HIDE DEF t, n, m
<1>2. \A i \in 1 .. n + m : \/ i \in 1 .. n
                            \/ i - n \in 1 .. m /\ n + (i - n) = i /\ n < i /\ i \in Nat
  BY <1>1
<1>3. \A i \in 1 .. n + m : \/ i \in 1 .. n /\ t[i] = s[i]
                            \/ i - n \in 1 .. m /\ t[i] = r[i - n] /\ n < i /\ i \in Nat
  <2> SUFFICES ASSUME NEW i \in 1 .. n + m, i \notin 1 .. n
               PROVE  i - n \in 1 .. m /\ t[i] = r[i - n] /\ n < i /\ i \in Nat
    BY <1>1
  <2>1. i - n \in 1 .. m /\ n + (i - n) = i /\ n < i /\ i \in Nat
    BY <1>2
  <2>2. t[n + (i - n)] = r[i - n]
    BY <1>1, <2>1
  <2> QED
    BY <2>1, <2>2
<1>4. ToSet(t) = ToSet(s) \cup ToSet(r)
  <2>1. ToSet(t) = {t[i] : i \in 1 .. n + m} /\ ToSet(s) = {s[i] : i \in 1 .. n} /\ ToSet(r) = {r[i] : i \in 1 .. m}
    BY <1>1 DEF ToSet
  <2>2. \A i \in 1 .. n : i \in 1 .. n + m
    BY <1>1
  <2>3. \A i \in 1 .. m : n + i \in 1 .. n + m
    BY <1>1
  <2>4. ASSUME NEW x \in ToSet(s) \cup ToSet(r) PROVE x \in ToSet(t)
    <3>1. CASE x \in ToSet(s)
      BY <1>1, <2>1, <2>2, <3>1
    <3>2. CASE x \in ToSet(r)
      <4>1. PICK i \in 1 .. m : r[i] = x
        BY <2>1, <3>2
      <4> QED
        BY <1>1, <2>1, <2>3, <4>1
    <3> QED
      BY <3>1, <3>2
  <2>5. ASSUME NEW x \in ToSet(t) PROVE x \in ToSet(s) \cup ToSet(r)
    BY <1>3, <2>1, <2>5
  <2> QED
    BY <2>4, <2>5
<1> QED
  BY <1>1, <1>3, <1>4 DEF t, n, m

(* What is discovered has its place and is queued once.                       *)
LEMMA GrownPlaced ==
  ASSUME NEW job, NEW t, NEW new, NEW depth, NEW u,
         Grown(t, new, depth, u), NewPages(t, new), t.queue \in Seq(Pages), IsFiniteSet(DOMAIN t.seen),
         Placed(job, t), QueuedOnce(t), Counted(job, t), IsFiniteSet(t.active)
  PROVE  Placed(job, u) /\ QueuedOnce(u)
<1>1. /\ u.queue \in Seq(Pages) /\ Len(u.queue) = Len(t.queue) + Len(new)
      /\ Len(t.queue) \in Nat /\ Len(new) \in Nat
      /\ ToSet(u.queue) = ToSet(t.queue) \cup ToSet(new)
      /\ \A i \in 1 .. Len(u.queue) : \/ i \in 1 .. Len(t.queue) /\ u.queue[i] = t.queue[i]
                                      \/ /\ i - Len(t.queue) \in 1 .. Len(new)
                                         /\ u.queue[i] = new[i - Len(t.queue)]
                                         /\ Len(t.queue) < i /\ i \in Nat
  <2>1. u.queue = t.queue \o new /\ new \in Seq(Pages)
    BY DEF Grown, NewPages
  <2> QED
    BY <2>1, JoinedMembers
<1>2. IsFiniteSet(ToSet(new)) /\ Cardinality(ToSet(new)) = Len(new)
  BY DistinctMembers DEF NewPages
<1>3. Placed(job, u)
  <2>1. DOMAIN u.seen = DOMAIN t.seen \cup ToSet(new) /\ DOMAIN t.seen \cap ToSet(new) = {}
    BY DEF Grown, NewPages
  <2>2. Cardinality(DOMAIN t.seen \cap ToSet(new)) = 0
    BY <2>1, FS_EmptySet
  <2>3. Cardinality(DOMAIN u.seen) = Cardinality(DOMAIN t.seen) + Cardinality(ToSet(new)) - 0
    BY <1>2, <2>1, <2>2, FS_Union
  <2>4. /\ Len(job.documents) \in Nat /\ Len(job.errors) \in Nat /\ Cardinality(t.active) \in Nat
        /\ Cardinality(DOMAIN t.seen) \in Nat
    BY FS_CardinalityType DEF Counted
  <2>5. Cardinality(DOMAIN t.seen) = Len(job.documents) + Len(job.errors) + Cardinality(t.active) + Len(t.queue)
    BY DEF Placed
  <2>6. Cardinality(DOMAIN u.seen) = Len(job.documents) + Len(job.errors) + Cardinality(t.active) + Len(u.queue)
    <3> DEFINE a == Len(job.documents)
               b == Len(job.errors)
               c == Cardinality(t.active)
               d == Len(t.queue)
               e == Len(new)
               f == Cardinality(DOMAIN t.seen)
    <3>1. Cardinality(DOMAIN u.seen) = (a + b + c + d) + e /\ Len(u.queue) = d + e
      <4>1. Cardinality(DOMAIN u.seen) = f + e - 0 /\ f \in Nat /\ e \in Nat /\ f = a + b + c + d /\ Len(u.queue) = d + e
        BY <1>1, <1>2, <2>3, <2>4, <2>5, Zenon
      <4>2. \A x, y \in Nat : x + y - 0 = x + y
        OBVIOUS
      <4> HIDE DEF a, b, c, d, e, f
      <4>3. Cardinality(DOMAIN u.seen) = f + e
        BY <4>1, <4>2, Zenon
      <4> QED
        BY <4>1, <4>3, Zenon
    <3>2. a \in Nat /\ b \in Nat /\ c \in Nat /\ d \in Nat /\ e \in Nat
      BY <1>1, <2>4
    <3> HIDE DEF a, b, c, d, e
    <3>3. Cardinality(DOMAIN u.seen) = a + b + c + Len(u.queue)
      BY <3>1, <3>2
    <3> QED
      BY <3>3 DEF a, b, c
  <2>7. u.active = t.active
    BY DEF Grown
  <2>8. DOMAIN u.seen = ToSet(job.documents) \cup ToSet(job.errors) \cup u.active \cup ToSet(u.queue)
    BY <1>1, <2>1, <2>7 DEF Placed
  <2> QED
    BY <2>6, <2>7, <2>8 DEF Placed
<1>4. QueuedOnce(u)
  <2>1. ToSet(u.queue) \cap u.active = {}
    BY <1>1 DEF Grown, NewPages, Placed, QueuedOnce
  <2>2. \A i \in 1 .. Len(t.queue) : t.queue[i] \in ToSet(t.queue)
    BY DEF ToSet
  <2>3. \A i \in 1 .. Len(new) : new[i] \in ToSet(new)
    BY DEF ToSet, NewPages
  <2>4. ToSet(t.queue) \cap ToSet(new) = {}
    BY DEF Placed, NewPages
  <2>5. ASSUME NEW i \in 1 .. Len(u.queue), NEW k \in 1 .. Len(u.queue), u.queue[i] = u.queue[k]
        PROVE  i = k
    <3>1. CASE i \in 1 .. Len(t.queue) /\ u.queue[i] = t.queue[i]
      <4>1. k \in 1 .. Len(t.queue) /\ u.queue[k] = t.queue[k]
        BY <1>1, <2>2, <2>3, <2>4, <2>5, <3>1
      <4> QED
        BY <2>5, <3>1, <4>1 DEF QueuedOnce
    <3>2. CASE /\ i - Len(t.queue) \in 1 .. Len(new) /\ i \in Nat
               /\ u.queue[i] = new[i - Len(t.queue)]
      <4>1. /\ k - Len(t.queue) \in 1 .. Len(new) /\ k \in Nat
            /\ u.queue[k] = new[k - Len(t.queue)]
        BY <1>1, <2>2, <2>3, <2>4, <2>5, <3>2
      <4>2. i - Len(t.queue) = k - Len(t.queue)
        BY <2>5, <3>2, <4>1 DEF NewPages
      <4> QED
        BY <1>1, <3>2, <4>1, <4>2
    <3> QED
      BY <1>1, <3>1, <3>2
  <2> QED
    BY <2>1, <2>5 DEF QueuedOnce
<1> QED
  BY <1>3, <1>4

(* ... and comes last by depth when it is a step deeper than the first.       *)
LEMMA GrownByDepth ==
  ASSUME NEW t, NEW new, NEW depth \in Nat, NEW u,
         Grown(t, new, depth, u), NewPages(t, new), t.queue \in Seq(Pages),
         ToSet(t.queue) \subseteq DOMAIN t.seen, t.active \subseteq DOMAIN t.seen,
         \A p \in DOMAIN t.seen : t.seen[p] \in Nat,
         ByDepth(t),
         \A p \in ToSet(t.queue) \cup t.active : t.seen[p] <= depth /\ depth <= t.seen[p] + 1
  PROVE  ByDepth(u)
<1> DEFINE n == Len(t.queue)
           m == Len(new)
           before(i) == t.seen[t.queue[i]]
           after(i) == u.seen[u.queue[i]]
<1>1. /\ Len(u.queue) = n + m /\ n \in Nat /\ m \in Nat
      /\ \A i \in 1 .. Len(u.queue) : \/ i \in 1 .. n /\ u.queue[i] = t.queue[i]
                                      \/ i - n \in 1 .. m /\ u.queue[i] = new[i - n] /\ n < i /\ i \in Nat
  <2>1. u.queue = t.queue \o new /\ new \in Seq(Pages)
    BY DEF Grown, NewPages
  <2> QED
    BY <2>1, JoinedMembers
<1>2. /\ \A i \in 1 .. n : t.queue[i] \in ToSet(t.queue)
      /\ \A i \in 1 .. m : new[i] \in ToSet(new)
  BY DEF ToSet, NewPages
<1>3. \A i \in 1 .. n : before(i) \in Nat /\ before(i) <= depth /\ depth <= before(i) + 1
  BY <1>2
<1>4. \A i \in 1 .. n + m : \/ i \in 1 .. n /\ after(i) = before(i)
                            \/ n < i /\ i \in Nat /\ after(i) = depth
  BY <1>1, <1>2 DEF Grown
<1>5. u.active = t.active /\ \A p \in t.active : u.seen[p] = t.seen[p] /\ t.seen[p] \in Nat
  BY DEF Grown
<1>6. /\ \A i, k \in 1 .. n : (i < k => before(i) <= before(k)) /\ before(k) <= before(i) + 1
      /\ \A p \in t.active, i \in 1 .. n : t.seen[p] <= before(i) /\ before(i) <= t.seen[p] + 1
      /\ \A p, q \in t.active : p = q
  BY DEF ByDepth
<1>7. \A p \in t.active : t.seen[p] <= depth /\ depth <= t.seen[p] + 1
  OBVIOUS
<1> HIDE DEF n, m, before, after
<1>8. ASSUME NEW i \in 1 .. n + m, NEW k \in 1 .. n + m
      PROVE  (i < k => after(i) <= after(k)) /\ after(k) <= after(i) + 1
  <2>1. CASE i \in 1 .. n /\ k \in 1 .. n
    <3>1. after(i) = before(i) /\ after(k) = before(k)
      BY <1>1, <1>4, <2>1
    <3> QED
      BY <1>6, <2>1, <3>1
  <2>2. CASE i \in 1 .. n /\ k \notin 1 .. n
    <3>1. after(i) = before(i) /\ after(k) = depth
      BY <1>1, <1>4, <2>2
    <3> QED
      BY <1>3, <2>2, <3>1
  <2>3. CASE i \notin 1 .. n /\ k \in 1 .. n
    <3>1. after(i) = depth /\ after(k) = before(k) /\ ~ i < k
      BY <1>1, <1>4, <2>3
    <3> QED
      BY <1>3, <2>3, <3>1
  <2>4. CASE i \notin 1 .. n /\ k \notin 1 .. n
    <3>1. after(i) = depth /\ after(k) = depth
      BY <1>4, <2>4
    <3> QED
      BY <3>1
  <2> QED
    BY <2>1, <2>2, <2>3, <2>4
<1>9. ASSUME NEW p \in t.active, NEW i \in 1 .. n + m
      PROVE  u.seen[p] <= after(i) /\ after(i) <= u.seen[p] + 1
  BY <1>4, <1>5, <1>6, <1>7
<1> QED
  BY <1>1, <1>5, <1>6, <1>8, <1>9 DEF ByDepth, after, n, m

(* What was taken up stays so.                                                *)
LEMMA GrownTaken ==
  ASSUME NEW t, NEW new, NEW depth, NEW u, NEW p \in DOMAIN t.seen,
         Grown(t, new, depth, u), NewPages(t, new), IsFiniteSet(DOMAIN t.seen),
         t.request.limit \in Nat, Taken(t, p)
  PROVE  Taken(u, p)
<1>1. DOMAIN t.seen \subseteq DOMAIN u.seen /\ u.seen[p] = t.seen[p] /\ u.request = t.request
  BY DEF Grown
<1>2. /\ Cardinality(DOMAIN t.seen) <= Cardinality(DOMAIN u.seen)
      /\ Cardinality(DOMAIN t.seen) \in Nat /\ Cardinality(DOMAIN u.seen) \in Nat
  <2>1. IsFiniteSet(ToSet(new))
    BY DistinctMembers DEF NewPages
  <2>2. IsFiniteSet(DOMAIN u.seen)
    BY <2>1, FS_Union DEF Grown
  <2> QED
    BY <1>1, <2>2, FS_Subset, FS_CardinalityType
<1>3. Cardinality(DOMAIN t.seen) >= 10 * t.request.limit => Cardinality(DOMAIN u.seen) >= 10 * u.request.limit
  <2>1. 10 * t.request.limit \in Nat
    OBVIOUS
  <2> QED
    BY <1>1, <1>2, <2>1
<1> QED
  BY <1>1, <1>3 DEF Taken

(* A task that discovers pages stays a task.                                  *)
LEMMA GrownLives ==
  ASSUME NEW t, NEW new, NEW depth \in Nat, NEW u, IsLive(t), Grown(t, new, depth, u), NewPages(t, new),
         t.at = "top"
  PROVE  IsLive(u)
<1>1. u.queue \in Seq(Pages) /\ ToSet(u.queue) = ToSet(t.queue) \cup ToSet(new)
  BY JoinedMembers DEF IsLive, Grown, NewPages
<1>2. IsFiniteSet(ToSet(new)) /\ ToSet(new) \subseteq Pages
  BY DistinctMembers DEF NewPages
<1>3. IsFiniteSet(DOMAIN u.seen) /\ DOMAIN u.seen \subseteq Pages
  <2>1. DOMAIN u.seen = DOMAIN t.seen \cup ToSet(new) /\ IsFiniteSet(DOMAIN t.seen) /\ DOMAIN t.seen \subseteq Pages
    BY DEF IsLive, Grown
  <2> QED
    BY <1>2, <2>1, FS_Union
<1>4. \A p \in DOMAIN u.seen : u.seen[p] \in Nat
  BY DEF IsLive, Grown
<1>5. u.active \cup ToSet(u.queue) \subseteq DOMAIN u.seen
  BY <1>1 DEF IsLive, Grown
<1> QED
  BY <1>1, <1>3, <1>4, <1>5 DEF IsLive, Grown

LEMMA UnseenIsNew ==
  ASSUME NEW t, NEW pages \in Seq(Pages)
  PROVE  NewPages(t, Unseen(t, pages))
<1> DEFINE unseen == Unseen(t, pages)
<1>1. /\ unseen \in Seq(Pages)
      /\ ToSet(unseen) = (ToSet(pages) \cap Allowed) \ DOMAIN t.seen
      /\ \A i, k \in 1 .. Len(unseen) : unseen[i] = unseen[k] => i = k
  BY UnseenEffect
<1> HIDE DEF unseen
<1>2. NewPages(t, unseen)
  BY <1>1 DEF NewPages
<1> QED
  BY <1>2 DEF unseen

(* The loop begins with the root and what the site map came to.               *)
LEMMA MapCrawl ==
  ASSUME CrawlInv, ReaderInv', NEW j \in Jobs, MapSite(j)
  PROVE  CrawlInv'
<1> DEFINE t == task[j]
           s == [t EXCEPT !.at = "top", !.queue = <<Root>>]
<1>1. t.at = "map" /\ jobs' = jobs
  BY DEF MapSite, At
<1>2. PICK links \in Mapped[t.request.limit] : task' = [task EXCEPT ![j] = Discover(s, Unseen(s, links), 1)]
  BY DEF MapSite
<1>3. IsLive(t) /\ (Stored(j) => Sound(jobs[j], t))
  BY <1>1, LiveTask DEF At
<1>4. links \in Seq(Pages)
  <2>1. t.request.limit \in 1 .. MaxCrawlLimit
    BY <1>3 DEF IsLive
  <2>2. links \in Maps(Site, t.request.limit) \cup {<<>>}
    BY <1>2, <2>1 DEF Mapped
  <2> QED
    <3>1. <<>> \in Seq(Pages)
      OBVIOUS
    <3>2. Maps(Site, t.request.limit) \subseteq Seq(Pages)
      BY <2>1, MapType
    <3> HIDE DEF t
    <3> QED
      BY <2>2, <3>1, <3>2
<1>5. /\ DOMAIN s = TaskFields /\ s.at = "top" /\ s.queue = <<Root>>
      /\ s.request = t.request /\ s.seen = t.seen /\ s.active = {}
  BY <1>1, <1>3 DEF IsLive, TaskFields
<1> HIDE DEF s
<1> DEFINE new == Unseen(s, links)
           u == Discover(s, new, 1)
<1>6. NewPages(s, new)
  BY <1>4, UnseenIsNew
<1> HIDE DEF new
<1>7. Grown(s, new, 1, u)
  BY <1>5, <1>6, DiscoverGrows
<1> HIDE DEF u
<1>8. IsLive(s)
  <2>1. <<Root>> \in Seq(Pages)
    BY CrawlAssumption
  <2>2. ToSet(<<Root>>) = {Root}
    BY DEF ToSet
  <2> QED
    BY <1>1, <1>3, <1>5, <2>1, <2>2 DEF IsLive
<1>9. IsLive(u)
  BY <1>5, <1>6, <1>7, <1>8, GrownLives
<1>10. u.at = "top" /\ u.active = {} /\ u.request = t.request
  BY <1>5, <1>7 DEF Grown
<1>11. DOMAIN t.seen = {Root} /\ t.seen[Root] = 0
  BY <1>1, <1>3 DEF IsLive
<1>12. ToSet(s.queue) = {Root} /\ Len(s.queue) = 1 /\ s.queue[1] = Root
  BY <1>5 DEF ToSet
<1>13. ASSUME Stored(j) PROVE Sound(jobs[j], u)
  <2> DEFINE job == jobs[j]
  <2>1. Counted(job, t)
    BY <1>3, <1>13 DEF Sound
  <2> HIDE DEF job
  <2>2. /\ job.completed = 0 /\ job.documents = <<>> /\ job.errors = <<>>
        /\ job.status \notin Finals
    <3>1. job.completed = 0 /\ job.status \notin Finals /\ job.status # "failed"
      BY <1>1, <2>1 DEF Counted, Finals
    <3>2. 0 = Len(job.documents) + Len(job.errors) /\ job.documents \in Seq(Pages) /\ job.errors \in Seq(Pages)
      BY <1>1, <2>1, <3>1 DEF Counted
    <3>3. Len(job.documents) = 0 /\ Len(job.errors) = 0
      <4>1. Len(job.documents) \in Nat /\ Len(job.errors) \in Nat
        BY <3>2
      <4>2. \A m, n \in Nat : 0 = m + n => m = 0 /\ n = 0
        OBVIOUS
      <4> QED
        BY <3>2, <4>1, <4>2, Zenon
    <3> QED
      BY <3>1, <3>2, <3>3
  <2>3. Cardinality({}) = 0 /\ Cardinality({Root}) = 1 /\ IsFiniteSet({}) /\ IsFiniteSet({Root})
    BY FS_EmptySet, FS_Singleton
  <2>4. Counted(job, u) /\ Counted(job, s)
    <3>1. u.request.limit \in Nat /\ s.request.limit \in Nat /\ job.total \in Nat
      BY <1>8, <1>9, <2>1 DEF IsLive, Counted
    <3> QED
      BY <1>1, <1>5, <1>10, <2>1, <2>2, <2>3, <3>1 DEF Counted, Finals
  <2>5. Placed(job, s) /\ QueuedOnce(s)
    <3>1. Len(<<>>) = 0 /\ ToSet(<<>>) = {}
      BY DEF ToSet
    <3>2. \A i, k \in 1 .. 1 : i = k
      OBVIOUS
    <3> QED
      BY <1>5, <1>11, <1>12, <2>2, <2>3, <3>1, <3>2 DEF Placed, QueuedOnce
  <2>6. Placed(job, u) /\ QueuedOnce(u)
    <3>1. s.queue \in Seq(Pages) /\ IsFiniteSet(DOMAIN s.seen) /\ IsFiniteSet(s.active)
      BY <1>8 DEF IsLive
    <3> QED
      BY <1>6, <1>7, <2>4, <2>5, <3>1, GrownPlaced
  <2>7. ByDepth(u)
    <3>1. ByDepth(s)
      <4>1. \A i \in 1 .. 1 : s.seen[s.queue[i]] = 0
        BY <1>5, <1>11, <1>12
      <4>2. \A i, k \in 1 .. 1 : ~ i < k
        OBVIOUS
      <4> QED
        BY <1>5, <1>12, <4>1, <4>2 DEF ByDepth
    <3>2. /\ s.queue \in Seq(Pages) /\ ToSet(s.queue) \subseteq DOMAIN s.seen /\ s.active \subseteq DOMAIN s.seen
          /\ \A p \in DOMAIN s.seen : s.seen[p] \in Nat
      BY <1>5, <1>8, <1>11, <1>12 DEF IsLive
    <3>3. \A p \in ToSet(s.queue) \cup s.active : s.seen[p] <= 1 /\ 1 <= s.seen[p] + 1
      BY <1>5, <1>11, <1>12
    <3>4. 1 \in Nat
      OBVIOUS
    <3> QED
      BY <1>6, <1>7, <3>1, <3>2, <3>3, <3>4, GrownByDepth
  <2>8. Frontier(job, u)
    <3>1. \A p \in ToSet(job.documents) : Taken(u, p)
      BY <2>2 DEF ToSet
    <3>2. Filling(job, u)
      BY <1>10 DEF Filling
    <3> QED
      BY <2>6, <2>7, <3>1, <3>2 DEF Frontier
  <2> QED
    BY <2>4, <2>8 DEF Sound, job
<1>14. task' = [task EXCEPT ![j] = u]
  BY <1>2 DEF u, new
<1> QED
  BY <1>1, <1>9, <1>13, <1>14, JobGoesOn DEF Sane

(* new is job with a document or an error more, that of p.                    *)
Recorded(job, p, new) ==
  /\ DOMAIN new = JobFields /\ new.status = job.status /\ new.total = job.total
  /\ new.completed = job.completed + 1
  /\ new.documents \in Seq(Pages) /\ new.errors \in Seq(Pages)
  /\ new.completed = Len(new.documents) + Len(new.errors)
  /\ Len(new.documents) + Len(new.errors) = Len(job.documents) + Len(job.errors) + 1
  /\ ToSet(new.documents) \cup ToSet(new.errors) = ToSet(job.documents) \cup ToSet(job.errors) \cup {p}
  /\ ToSet(new.documents) \subseteq ToSet(job.documents) \cup {p}
  /\ new.bytes = Sum(new.documents) /\ new.bytes \in Nat /\ new.bytes <= MaxJobBytes

LEMMA RecordEffect ==
  ASSUME NEW job, NEW p \in Pages, NEW t, Counted(job, t), t.at # "failing", job.status # "failed"
  PROVE  \A new \in {RecordError(job, p), StoreDocument(job, p)} : Recorded(job, p, new)
<1>1. /\ DOMAIN job = JobFields /\ job.documents \in Seq(Pages) /\ job.errors \in Seq(Pages)
      /\ job.completed \in Nat /\ job.bytes \in Nat /\ job.bytes = Sum(job.documents) /\ job.bytes <= MaxJobBytes
      /\ job.completed = Len(job.documents) + Len(job.errors)
  BY DEF Counted
<1>2. Len(job.documents) \in Nat /\ Len(job.errors) \in Nat
  BY <1>1
<1> DEFINE a == Len(job.documents)
           b == Len(job.errors)
<1>3. \A m, n \in Nat : (m + n) + 1 = (m + 1) + n /\ (m + n) + 1 = m + (n + 1)
  OBVIOUS
<1>4. ASSUME NEW new, new = RecordError(job, p)
      PROVE  /\ DOMAIN new = JobFields /\ new.status = job.status /\ new.total = job.total
             /\ new.completed = job.completed + 1
             /\ new.documents = job.documents /\ new.errors = Append(job.errors, p)
             /\ new.bytes = job.bytes
  BY <1>1, <1>4 DEF RecordError, JobFields
<1>5. ASSUME NEW new,
             new = [job EXCEPT !.completed = @ + 1, !.documents = Append(@, p), !.bytes = @ + SizeOf[p]]
      PROVE  /\ DOMAIN new = JobFields /\ new.status = job.status /\ new.total = job.total
             /\ new.completed = job.completed + 1
             /\ new.documents = Append(job.documents, p) /\ new.errors = job.errors
             /\ new.bytes = job.bytes + SizeOf[p]
  BY <1>1, <1>5 DEF JobFields
<1>6. ASSUME NEW new, new = RecordError(job, p)
      PROVE  Recorded(job, p, new)
  <2>1. /\ new.errors \in Seq(Pages) /\ Len(new.errors) = Len(job.errors) + 1
        /\ ToSet(new.errors) = ToSet(job.errors) \cup {p}
    <3>1. new.errors = Append(job.errors, p)
      BY <1>4, <1>6
    <3> QED
      BY <1>1, <3>1, AppendedMembers
  <2>2. Len(new.documents) + Len(new.errors) = (a + b) + 1
    <3>1. Len(new.documents) = a /\ Len(new.errors) = b + 1
      BY <1>4, <1>6, <2>1
    <3>2. (a + b) + 1 = a + (b + 1)
      BY <1>2, <1>3
    <3> QED
      BY <3>1, <3>2, Zenon
  <2>3. new.completed = Len(new.documents) + Len(new.errors)
    BY <1>1, <1>4, <1>6, <2>2, Zenon
  <2> QED
    BY <1>1, <1>4, <1>6, <2>1, <2>2, <2>3, Zenon DEF Recorded
<1>7. ASSUME NEW new, ~ job.bytes + SizeOf[p] > MaxJobBytes,
             new = [job EXCEPT !.completed = @ + 1, !.documents = Append(@, p), !.bytes = @ + SizeOf[p]]
      PROVE  Recorded(job, p, new)
  <2>1. /\ new.documents \in Seq(Pages) /\ Len(new.documents) = Len(job.documents) + 1
        /\ ToSet(new.documents) = ToSet(job.documents) \cup {p}
        /\ Sum(new.documents) = Sum(job.documents) + SizeOf[p]
    <3>1. new.documents = Append(job.documents, p)
      BY <1>5, <1>7
    <3> QED
      BY <1>1, <3>1, AppendedMembers, SumAppend
  <2>2. Len(new.documents) + Len(new.errors) = (a + b) + 1
    <3>1. Len(new.documents) = a + 1 /\ Len(new.errors) = b
      BY <1>5, <1>7, <2>1
    <3>2. (a + b) + 1 = (a + 1) + b
      BY <1>2, <1>3
    <3> QED
      BY <3>1, <3>2, Zenon
  <2>3. new.completed = Len(new.documents) + Len(new.errors)
    BY <1>1, <1>5, <1>7, <2>2, Zenon
  <2>4. new.bytes = Sum(new.documents)
    BY <1>1, <1>5, <1>7, <2>1, Zenon
  <2>5. new.bytes \in Nat /\ new.bytes <= MaxJobBytes
    <3>1. SizeOf[p] \in Nat /\ MaxJobBytes \in Nat /\ new.bytes = job.bytes + SizeOf[p]
      BY <1>5, <1>7, CrawlAssumption
    <3> QED
      BY <1>1, <1>7, <3>1
  <2> QED
    BY <1>1, <1>5, <1>7, <2>1, <2>2, <2>3, <2>4, <2>5, Zenon DEF Recorded
<1> QED
  BY <1>6, <1>7, Zenon DEF StoreDocument

-----------------------------------------------------------------------------
(* Filling: the next page of the queue.                                       *)

LEMMA HeadAndTail ==
  ASSUME NEW s \in Seq(Pages), s # <<>>
  PROVE  /\ Head(s) \in Pages /\ Tail(s) \in Seq(Pages) /\ Len(s) = Len(Tail(s)) + 1
         /\ Len(Tail(s)) \in Nat /\ 1 \in 1 .. Len(s) /\ s[1] = Head(s)
         /\ \A i \in 1 .. Len(Tail(s)) : i + 1 \in 1 .. Len(s) /\ Tail(s)[i] = s[i + 1] /\ 1 < i + 1
         /\ ToSet(s) = {Head(s)} \cup ToSet(Tail(s))
<1> DEFINE r == Tail(s)
           n == Len(r)
<1>1. /\ Head(s) \in Pages /\ r \in Seq(Pages) /\ Len(s) = n + 1 /\ n \in Nat /\ s[1] = Head(s)
      /\ DOMAIN s = 1 .. n + 1 /\ DOMAIN r = 1 .. n
      /\ \A i \in 1 .. n : r[i] = s[i + 1]
  OBVIOUS
<1> HIDE DEF r, n
<1>2. 1 \in 1 .. n + 1 /\ \A i \in 1 .. n : i + 1 \in 1 .. n + 1 /\ 1 < i + 1
  BY <1>1
<1>3. \A i \in 1 .. n + 1 : i = 1 \/ (i - 1 \in 1 .. n /\ (i - 1) + 1 = i)
  BY <1>1
<1>4. \A i \in 1 .. n + 1 : s[i] = Head(s) \/ \E k \in 1 .. n : s[i] = r[k]
  BY <1>1, <1>3
<1>5. ToSet(s) = {Head(s)} \cup ToSet(r)
  <2>1. ToSet(s) = {s[i] : i \in 1 .. n + 1} /\ ToSet(r) = {r[i] : i \in 1 .. n}
    BY <1>1 DEF ToSet
  <2> QED
    BY <1>1, <1>2, <1>4, <2>1
<1> QED
  BY <1>1, <1>2, <1>5 DEF r, n

(* u is t without the next page of its queue.                                 *)
Popped(t, u) ==
  /\ DOMAIN u = TaskFields /\ u.at = "fill" /\ t.at = "fill"
  /\ u.request = t.request /\ u.seen = t.seen /\ u.queue = Tail(t.queue)

LEMMA PoppedOnce ==
  ASSUME NEW t, NEW u, Popped(t, u), t.queue \in Seq(Pages), t.queue # <<>>, QueuedOnce(t),
         u.active \subseteq t.active \cup {Head(t.queue)}
  PROVE  QueuedOnce(u) /\ Head(t.queue) \notin t.active
<1> DEFINE s == t.queue
           r == Tail(s)
<1>1. /\ Len(r) \in Nat /\ 1 \in 1 .. Len(s) /\ s[1] = Head(s) /\ Len(s) = Len(r) + 1 /\ r \in Seq(Pages)
      /\ \A i \in 1 .. Len(r) : i + 1 \in 1 .. Len(s) /\ r[i] = s[i + 1] /\ 1 < i + 1
      /\ ToSet(s) = {Head(s)} \cup ToSet(r)
  BY HeadAndTail
<1>2. /\ \A i, k \in 1 .. Len(s) : s[i] = s[k] => i = k
      /\ ToSet(s) \cap t.active = {}
  BY DEF QueuedOnce
<1>3. u.queue = r
  BY DEF Popped
<1> HIDE DEF r, s
<1>4. \A i, k \in 1 .. Len(r) : r[i] = r[k] => i = k
  <2> SUFFICES ASSUME NEW i \in 1 .. Len(r), NEW k \in 1 .. Len(r), r[i] = r[k] PROVE i = k
    OBVIOUS
  <2>1. i + 1 = k + 1
    BY <1>1, <1>2
  <2> QED
    BY <1>1, <2>1
<1>5. Head(s) \notin ToSet(r)
  <2> SUFFICES ASSUME Head(s) \in ToSet(r) PROVE FALSE
    OBVIOUS
  <2>1. PICK i \in 1 .. Len(r) : r[i] = Head(s)
    <3>1. DOMAIN r = 1 .. Len(r)
      BY <1>1
    <3> QED
      BY <3>1 DEF ToSet
  <2>2. s[i + 1] = s[1] /\ i + 1 # 1
    BY <1>1, <2>1
  <2> QED
    BY <1>1, <1>2, <2>2
<1>6. ToSet(r) \cap u.active = {} /\ Head(s) \notin t.active
  BY <1>1, <1>2, <1>5 DEF s
<1> QED
  BY <1>3, <1>4, <1>6 DEF QueuedOnce, s

LEMMA PoppedByDepth ==
  ASSUME NEW t, NEW u, Popped(t, u), t.queue \in Seq(Pages), t.queue # <<>>, ByDepth(t),
         \/ u.active = t.active
         \/ t.active = {} /\ u.active = {Head(t.queue)}
  PROVE  ByDepth(u)
<1> DEFINE s == t.queue
           r == Tail(s)
           before(i) == t.seen[s[i]]
           after(i) == u.seen[u.queue[i]]
<1>1. /\ Len(r) \in Nat /\ 1 \in 1 .. Len(s) /\ s[1] = Head(s) /\ Len(s) = Len(r) + 1
      /\ \A i \in 1 .. Len(r) : i + 1 \in 1 .. Len(s) /\ r[i] = s[i + 1] /\ 1 < i + 1
  BY HeadAndTail
<1>2. u.queue = r /\ u.seen = t.seen
  BY DEF Popped
<1>3. \A i \in 1 .. Len(r) : after(i) = before(i + 1)
  BY <1>1, <1>2
<1>4. before(1) = t.seen[Head(s)]
  BY <1>1
<1>5. /\ \A i, k \in 1 .. Len(s) : (i < k => before(i) <= before(k)) /\ before(k) <= before(i) + 1
      /\ \A p \in t.active, i \in 1 .. Len(s) : t.seen[p] <= before(i) /\ before(i) <= t.seen[p] + 1
      /\ \A p, q \in t.active : p = q
  BY DEF ByDepth
<1> HIDE DEF s, r, before, after
<1>6. \A i, k \in 1 .. Len(r) : (i < k => after(i) <= after(k)) /\ after(k) <= after(i) + 1
  <2> SUFFICES ASSUME NEW i \in 1 .. Len(r), NEW k \in 1 .. Len(r)
               PROVE  (i < k => after(i) <= after(k)) /\ after(k) <= after(i) + 1
    OBVIOUS
  <2>1. i + 1 \in 1 .. Len(s) /\ k + 1 \in 1 .. Len(s) /\ (i < k => i + 1 < k + 1)
    BY <1>1
  <2> QED
    BY <1>3, <1>5, <2>1
<1>7. \A p \in u.active, i \in 1 .. Len(r) : u.seen[p] <= after(i) /\ after(i) <= u.seen[p] + 1
  <2> SUFFICES ASSUME NEW p \in u.active, NEW i \in 1 .. Len(r)
               PROVE  u.seen[p] <= after(i) /\ after(i) <= u.seen[p] + 1
    OBVIOUS
  <2>1. i + 1 \in 1 .. Len(s) /\ 1 < i + 1
    BY <1>1
  <2>2. CASE u.active = t.active
    BY <1>2, <1>3, <1>5, <2>1, <2>2
  <2>3. CASE u.active = {Head(t.queue)}
    <3>1. u.seen[p] = before(1)
      BY <1>2, <1>4, <2>3 DEF s
    <3> QED
      BY <1>1, <1>3, <1>5, <2>1, <3>1
  <2> QED
    BY <2>2, <2>3
<1>8. \A p, q \in u.active : p = q
  BY <1>5
<1> QED
  BY <1>2, <1>6, <1>7, <1>8 DEF ByDepth, after

LEMMA FillCrawl ==
  ASSUME CrawlInv, ReaderInv', NEW j \in Jobs, Fill(j)
  PROVE  CrawlInv'
<1> DEFINE t == task[j]
           p == Head(t.queue)
           v == [t EXCEPT !.queue = Tail(@)]
           w == [t EXCEPT !.queue = Tail(@), !.active = @ \cup {p}]
<1>1. t.at = "fill" /\ CanFill(j)
  BY DEF Fill, At
<1>2. \/ Mutate(j, RecordError(jobs[j], p)) /\ task' = [task EXCEPT ![j] = v]
      \/ jobs' = jobs /\ task' = [task EXCEPT ![j] = w]
  BY DEF Fill
<1>3. IsLive(t) /\ (Stored(j) => Sound(jobs[j], t))
  BY <1>1, LiveTask DEF At
<1>4. Popped(t, v) /\ v.active = t.active
  BY <1>1, <1>3 DEF IsLive, Popped, TaskFields
<1>5. Popped(t, w) /\ w.active = t.active \cup {p}
  BY <1>1, <1>3 DEF IsLive, Popped, TaskFields
<1>6. t.queue # <<>> /\ Cardinality(t.active) < t.request.concurrency
  BY <1>1 DEF CanFill
<1> HIDE DEF v, w
<1>7. /\ p \in Pages /\ Tail(t.queue) \in Seq(Pages) /\ Len(t.queue) = Len(Tail(t.queue)) + 1
      /\ Len(Tail(t.queue)) \in Nat
      /\ ToSet(t.queue) = {p} \cup ToSet(Tail(t.queue))
  BY <1>3, <1>6, HeadAndTail DEF IsLive
<1>8. /\ IsFiniteSet(t.active \cup {p}) /\ Cardinality(t.active) \in Nat
      /\ p \notin t.active => Cardinality(t.active \cup {p}) = Cardinality(t.active) + 1
  BY <1>3, FS_AddElement, FS_CardinalityType DEF IsLive
<1>9. IsLive(v)
  BY <1>1, <1>3, <1>4, <1>7 DEF IsLive, Popped
<1>10. IsLive(w)
  BY <1>1, <1>3, <1>5, <1>7, <1>8 DEF IsLive, Popped
<1>11. ASSUME Stored(j)
       PROVE  /\ Counted(jobs[j], t) /\ Placed(jobs[j], t) /\ QueuedOnce(t)
              /\ \A q \in ToSet(jobs[j].documents) : Taken(t, q)
              /\ t.request.concurrency = 1 => ByDepth(t)
              /\ jobs[j].completed + Cardinality(t.active) < t.request.limit
              /\ jobs[j].status # "failed" /\ jobs[j].status \notin Finals
  <2>1. Counted(jobs[j], t) /\ Frontier(jobs[j], t)
    BY <1>3, <1>11 DEF Sound
  <2>2. jobs[j].completed + Cardinality(t.active) < t.request.limit
    BY <1>1, <1>11 DEF CanFill, Completed
  <2> QED
    BY <1>1, <2>1, <2>2 DEF Counted, Frontier, Finals
<1>12. /\ t.request.concurrency = 1 => t.active = {}
       /\ t.request.limit \in Nat
  <2>1. t.request.concurrency = 1 => Cardinality(t.active) = 0
    BY <1>6, <1>8
  <2> QED
    BY <1>3, <2>1, FS_EmptySet DEF IsLive
<1>13. ASSUME Stored(j) PROVE Sound(RecordError(jobs[j], p), v)
  <2> DEFINE job == jobs[j]
             new == RecordError(job, p)
  <2>1. /\ DOMAIN new = JobFields /\ new.status = job.status /\ new.total = job.total
        /\ new.completed = job.completed + 1
        /\ new.documents \in Seq(Pages) /\ new.errors \in Seq(Pages)
        /\ new.completed = Len(new.documents) + Len(new.errors)
        /\ Len(new.documents) + Len(new.errors) = Len(job.documents) + Len(job.errors) + 1
        /\ ToSet(new.documents) \cup ToSet(new.errors) = ToSet(job.documents) \cup ToSet(job.errors) \cup {p}
        /\ new.bytes = Sum(new.documents) /\ new.bytes \in Nat /\ new.bytes <= MaxJobBytes
    BY <1>1, <1>7, <1>11, <1>13, RecordEffect DEF Recorded
  <2>2. new.documents = job.documents
    BY <1>11, <1>13, RecordShape DEF Counted
  <2> HIDE DEF new
  <2>3. job.completed \in Nat /\ job.total \in Nat /\ Len(job.documents) \in Nat /\ Len(job.errors) \in Nat
    BY <1>11, <1>13 DEF Counted
  <2>4. Counted(new, v)
    <3>1. new.completed + Cardinality(v.active) <= v.request.limit
      <4>1. v.request = t.request
        BY <1>4 DEF Popped
      <4> QED
        BY <1>4, <1>8, <1>11, <1>12, <1>13, <2>1, <2>3, <4>1
    <3>2. v.at = "fill" /\ new.completed \in Nat /\ new.status \notin Finals /\ new.status # "failed"
      BY <1>4, <1>11, <1>13, <2>1, <2>3 DEF Popped
    <3> HIDE DEF job
    <3> QED
      BY <2>1, <2>3, <3>1, <3>2 DEF Counted, Finals, job
  <2>5. Placed(new, v)
    <3>1. /\ DOMAIN t.seen = ToSet(job.documents) \cup ToSet(job.errors) \cup t.active \cup ToSet(t.queue)
          /\ Cardinality(DOMAIN t.seen)
               = Len(job.documents) + Len(job.errors) + Cardinality(t.active) + Len(t.queue)
      BY <1>11, <1>13 DEF Placed
    <3>2. v.seen = t.seen /\ v.active = t.active /\ v.queue = Tail(t.queue)
      BY <1>4 DEF Popped
    <3>3. DOMAIN v.seen = ToSet(new.documents) \cup ToSet(new.errors) \cup v.active \cup ToSet(v.queue)
      BY <1>7, <2>1, <3>1, <3>2
    <3>4. Cardinality(DOMAIN t.seen)
            = (Len(job.documents) + Len(job.errors) + 1) + Cardinality(t.active) + Len(Tail(t.queue))
      <4> DEFINE a == Len(job.documents)
                 b == Len(job.errors)
                 c == Cardinality(t.active)
                 d == Len(Tail(t.queue))
      <4>1. /\ a \in Nat /\ b \in Nat /\ c \in Nat /\ d \in Nat
            /\ Cardinality(DOMAIN t.seen) = a + b + c + (d + 1)
        BY <1>7, <1>8, <2>3, <3>1, Zenon
      <4> HIDE DEF a, b, c, d
      <4>2. a + b + c + (d + 1) = (a + b + 1) + c + d
        BY <4>1
      <4>3. Cardinality(DOMAIN t.seen) = (a + b + 1) + c + d
        BY <4>1, <4>2, Zenon
      <4> QED
        BY <4>3 DEF a, b, c, d
    <3>5. Cardinality(DOMAIN v.seen) = Len(new.documents) + Len(new.errors) + Cardinality(v.active) + Len(v.queue)
      BY <2>1, <3>2, <3>4, Zenon
    <3> QED
      BY <3>3, <3>5 DEF Placed
  <2>6. QueuedOnce(v)
    BY <1>3, <1>4, <1>6, <1>11, <1>13, PoppedOnce DEF IsLive
  <2>7. \A q \in ToSet(new.documents) : Taken(v, q)
    BY <1>4, <1>11, <1>13, <2>2 DEF Taken, Popped
  <2>8. v.request.concurrency = 1 => ByDepth(v)
    <3>1. v.request = t.request
      BY <1>4 DEF Popped
    <3> QED
      BY <1>3, <1>4, <1>6, <1>11, <1>13, <3>1, PoppedByDepth DEF IsLive
  <2>9. Filling(new, v)
    BY <1>4 DEF Filling, Popped
  <2> QED
    BY <2>4, <2>5, <2>6, <2>7, <2>8, <2>9 DEF Sound, Frontier, new
<1>14. ASSUME Stored(j) PROVE Sound(jobs[j], w)
  <2> DEFINE job == jobs[j]
  <2>1. p \notin t.active /\ QueuedOnce(w)
    BY <1>3, <1>5, <1>6, <1>11, <1>14, PoppedOnce DEF IsLive
  <2>2. job.completed \in Nat /\ Len(job.documents) \in Nat /\ Len(job.errors) \in Nat
    BY <1>11, <1>14 DEF Counted
  <2>3. Counted(job, w)
    <3>1. job.completed + Cardinality(w.active) <= w.request.limit
      <4>1. w.request = t.request /\ Cardinality(w.active) = Cardinality(t.active) + 1
        BY <1>5, <1>8, <2>1 DEF Popped
      <4> QED
        BY <1>8, <1>11, <1>12, <1>14, <2>2, <4>1
    <3>2. w.at = "fill" /\ t.at = "fill"
      BY <1>5 DEF Popped
    <3>3. Counted(job, t) /\ job.status \notin Finals
      BY <1>11, <1>14
    <3> HIDE DEF job, t
    <3> QED
      BY <3>1, <3>2, <3>3 DEF Counted, Finals
  <2>4. Placed(job, w)
    <3>1. /\ DOMAIN t.seen = ToSet(job.documents) \cup ToSet(job.errors) \cup t.active \cup ToSet(t.queue)
          /\ Cardinality(DOMAIN t.seen)
               = Len(job.documents) + Len(job.errors) + Cardinality(t.active) + Len(t.queue)
      BY <1>11, <1>14 DEF Placed
    <3>2. /\ w.seen = t.seen /\ w.active = t.active \cup {p} /\ w.queue = Tail(t.queue)
          /\ Cardinality(w.active) = Cardinality(t.active) + 1
      BY <1>5, <1>8, <2>1 DEF Popped
    <3>3. DOMAIN w.seen = ToSet(job.documents) \cup ToSet(job.errors) \cup w.active \cup ToSet(w.queue)
      BY <1>7, <3>1, <3>2
    <3>4. Cardinality(DOMAIN t.seen)
            = Len(job.documents) + Len(job.errors) + (Cardinality(t.active) + 1) + Len(Tail(t.queue))
      <4> DEFINE a == Len(job.documents)
                 b == Len(job.errors)
                 c == Cardinality(t.active)
                 d == Len(Tail(t.queue))
      <4>1. /\ a \in Nat /\ b \in Nat /\ c \in Nat /\ d \in Nat
            /\ Cardinality(DOMAIN t.seen) = a + b + c + (d + 1)
        BY <1>7, <1>8, <2>2, <3>1, Zenon
      <4> HIDE DEF a, b, c, d
      <4>2. a + b + c + (d + 1) = a + b + (c + 1) + d
        BY <4>1
      <4>3. Cardinality(DOMAIN t.seen) = a + b + (c + 1) + d
        BY <4>1, <4>2, Zenon
      <4> QED
        BY <4>3 DEF a, b, c, d
    <3>5. Cardinality(DOMAIN w.seen) = Len(job.documents) + Len(job.errors) + Cardinality(w.active) + Len(w.queue)
      BY <3>2, <3>4, Zenon
    <3> QED
      BY <3>3, <3>5 DEF Placed
  <2>5. \A q \in ToSet(job.documents) : Taken(w, q)
    BY <1>5, <1>11, <1>14 DEF Taken, Popped
  <2>6. w.request.concurrency = 1 => ByDepth(w)
    <3> SUFFICES ASSUME w.request.concurrency = 1 PROVE ByDepth(w)
      OBVIOUS
    <3>1. t.request.concurrency = 1
      BY <1>5 DEF Popped
    <3>2. t.active = {} /\ w.active = {p}
      BY <1>5, <1>12, <3>1
    <3> QED
      BY <1>3, <1>5, <1>6, <1>11, <1>14, <3>1, <3>2, PoppedByDepth DEF IsLive
  <2>7. Filling(job, w)
    BY <1>5 DEF Filling, Popped
  <2> QED
    BY <2>1, <2>3, <2>4, <2>5, <2>6, <2>7 DEF Sound, Frontier
<1>15. Sane(v) /\ Sane(w)
  BY <1>9, <1>10 DEF Sane
<1> HIDE DEF t, p
<1> QED
  BY <1>2, <1>13, <1>14, <1>15, JobGoesOn

-----------------------------------------------------------------------------
(* Answers.                                                                   *)

(* The links of a document are taken up.                                      *)
LEMMA FollowGrows ==
  ASSUME NEW t, IsLive(t), NEW p \in DOMAIN t.seen
  PROVE  /\ \E new : NewPages(t, new) /\ Grown(t, new, t.seen[p] + 1, Follow(t, p))
         /\ Taken(Follow(t, p), p)
<1> DEFINE depth == t.seen[p]
           unseen == Unseen(t, LinksOf[p])
           known == Cardinality(DOMAIN t.seen)
           room == 10 * t.request.limit - known
           k == Smaller(room, Len(unseen))
           new == SubSeq(unseen, 1, k)
           u == Follow(t, p)
<1>1. /\ p \in Pages /\ LinksOf[p] \in Seq(Pages) /\ depth \in Nat
      /\ known \in Nat /\ 10 * t.request.limit \in Nat /\ t.request.depth \in Nat
      /\ DOMAIN t = TaskFields /\ t.queue \in Seq(Pages)
  <2>1. p \in Pages /\ depth \in Nat /\ t.request.limit \in Nat /\ t.request.depth \in Nat
    BY DEF IsLive
  <2>2. 10 * t.request.limit \in Nat
    BY <2>1
  <2>3. known \in Nat
    BY FS_CardinalityType DEF IsLive
  <2>4. LinksOf[p] \in Seq(Pages)
    BY <2>1, CrawlAssumption
  <2> QED
    BY <2>1, <2>2, <2>3, <2>4 DEF IsLive
<1>2. /\ unseen \in Seq(Pages)
      /\ ToSet(unseen) = (ToSet(LinksOf[p]) \cap Allowed) \ DOMAIN t.seen
      /\ \A i, n \in 1 .. Len(unseen) : unseen[i] = unseen[n] => i = n
  BY <1>1, UnseenEffect
<1>3. u = IF depth < t.request.depth /\ room > 0 THEN Discover(t, new, depth + 1) ELSE t
  BY DEF Follow
<1> HIDE DEF unseen, u
<1>4. CASE depth < t.request.depth /\ room > 0
  <2>1. k \in 0 .. Len(unseen) /\ Len(unseen) \in Nat /\ (k = Len(unseen) \/ k = room) /\ k \in Nat
    <3>1. room \in Int
      BY <1>1
    <3> HIDE DEF room
    <3> QED
      BY <1>2, <1>4, <3>1 DEF Smaller
  <2> HIDE DEF k
  <2>2. new \in Seq(Pages) /\ Len(new) = k /\ \A i \in 1 .. k : new[i] = unseen[i] /\ i \in 1 .. Len(unseen)
    BY <1>2, <2>1
  <2>3. k = Len(unseen) => new = unseen
    BY <1>2, <2>1
  <2> HIDE DEF new
  <2>4. ToSet(new) \subseteq ToSet(unseen)
    BY <1>2, <2>2 DEF ToSet
  <2>5. NewPages(t, new)
    BY <1>2, <2>2, <2>4 DEF NewPages
  <2>6. Grown(t, new, depth + 1, u)
    BY <1>1, <1>3, <1>4, <2>5, DiscoverGrows
  <2>7. Taken(u, p)
    <3>1. CASE k = Len(unseen)
      <4>1. ToSet(LinksOf[p]) \cap Allowed \subseteq DOMAIN u.seen
        BY <1>2, <2>3, <2>6, <3>1 DEF Grown
      <4> QED
        BY <4>1 DEF Taken
    <3>2. CASE k = room
      <4>1. DOMAIN u.seen = DOMAIN t.seen \cup ToSet(new) /\ DOMAIN t.seen \cap ToSet(new) = {}
        BY <2>5, <2>6 DEF Grown, NewPages
      <4>2. IsFiniteSet(ToSet(new)) /\ Cardinality(ToSet(new)) = k
        BY <2>2, <2>5, DistinctMembers DEF NewPages
      <4>3. Cardinality(DOMAIN u.seen) = known + k - 0
        <5>1. Cardinality(DOMAIN t.seen \cap ToSet(new)) = 0
          BY <4>1, FS_EmptySet
        <5>2. IsFiniteSet(DOMAIN t.seen)
          BY DEF IsLive
        <5> QED
          BY <4>1, <4>2, <5>1, <5>2, FS_Union
      <4>4. Cardinality(DOMAIN u.seen) = 10 * t.request.limit
        <5> DEFINE most == 10 * t.request.limit
        <5>1. most \in Nat /\ known \in Nat /\ k = most - known /\ Cardinality(DOMAIN u.seen) = known + k - 0
          BY <1>1, <3>2, <4>3
        <5> HIDE DEF most, known
        <5>2. Cardinality(DOMAIN u.seen) = most
          BY <5>1
        <5> QED
          BY <5>2 DEF most
      <4>5. u.request = t.request
        BY <2>6 DEF Grown
      <4>6. Cardinality(DOMAIN u.seen) >= 10 * u.request.limit
        BY <1>1, <4>4, <4>5
      <4> QED
        BY <4>6 DEF Taken
    <3> QED
      BY <2>1, <3>1, <3>2
  <2> QED
    BY <2>5, <2>6, <2>7 DEF u
<1>5. CASE ~(depth < t.request.depth /\ room > 0)
  <2>1. u = t
    BY <1>3, <1>5
  <2>2. /\ <<>> \in Seq(Pages) /\ ToSet(<<>>) = {} /\ t.queue = t.queue \o <<>>
        /\ \A i, n \in 1 .. Len(<<>>) : <<>>[i] = <<>>[n] => i = n
    BY <1>1 DEF ToSet
  <2>3. NewPages(t, <<>>) /\ Grown(t, <<>>, depth + 1, u)
    BY <1>1, <2>1, <2>2 DEF NewPages, Grown
  <2>4. Taken(u, p)
    <3>1. depth >= t.request.depth \/ known >= 10 * t.request.limit
      BY <1>1, <1>5
    <3> QED
      BY <2>1, <3>1 DEF Taken
  <2> QED
    BY <2>3, <2>4 DEF u
<1> QED
  BY <1>4, <1>5

(* s is t, whose page p has been answered.                                    *)
Answered(t, p, s) ==
  /\ DOMAIN s = TaskFields /\ s.at = "top" /\ t.at = "wait"
  /\ s.request = t.request /\ s.seen = t.seen /\ s.queue = t.queue
  /\ p \in t.active /\ s.active = t.active \ {p}

LEMMA AnsweredLives ==
  ASSUME NEW t, IsLive(t), NEW p, NEW s, Answered(t, p, s)
  PROVE  /\ IsLive(s) /\ Cardinality(t.active) = Cardinality(s.active) + 1
         /\ Cardinality(s.active) \in Nat
<1>1. IsFiniteSet(t.active) /\ s.active = t.active \ {p} /\ p \in t.active
  BY DEF IsLive, Answered
<1>2. IsFiniteSet(s.active) /\ Cardinality(s.active) = Cardinality(t.active) - 1
  BY <1>1, FS_RemoveElement
<1>3. Cardinality(s.active) \in Nat /\ Cardinality(t.active) \in Nat
  BY <1>1, <1>2, FS_CardinalityType
<1>4. IsLive(s)
  BY <1>2 DEF IsLive, Answered
<1> QED
  BY <1>2, <1>3, <1>4

(* The page is done then, and recorded.                                       *)
LEMMA AnsweredSound ==
  ASSUME NEW job, NEW t, IsLive(t), Sound(job, t), NEW p \in Pages, NEW s, Answered(t, p, s),
         NEW new \in {RecordError(job, p), StoreDocument(job, p)}
  PROVE  /\ Counted(new, s) /\ Placed(new, s) /\ QueuedOnce(s)
         /\ s.request.concurrency = 1 => ByDepth(s)
         /\ ToSet(s.queue) \subseteq DOMAIN s.seen /\ s.active \subseteq DOMAIN s.seen
         /\ p \in DOMAIN s.seen
<1>1. /\ IsLive(s) /\ Cardinality(t.active) = Cardinality(s.active) + 1
      /\ Cardinality(s.active) \in Nat
  BY AnsweredLives
<1>2. /\ s.at = "top" /\ t.at = "wait" /\ s.request = t.request /\ s.seen = t.seen /\ s.queue = t.queue
      /\ p \in t.active /\ s.active = t.active \ {p}
  BY DEF Answered
<1>3. Counted(job, t) /\ Frontier(job, t)
  BY DEF Sound
<1>4. /\ job.status \notin Finals /\ job.status # "failed" /\ job.completed \in Nat /\ job.total \in Nat
      /\ job.completed + Cardinality(t.active) <= t.request.limit
      /\ job.completed + Cardinality(t.active) <= job.total
      /\ Len(job.documents) \in Nat /\ Len(job.errors) \in Nat
  BY <1>2, <1>3 DEF Counted, Finals
<1>5. /\ DOMAIN new = JobFields /\ new.status = job.status /\ new.total = job.total
      /\ new.completed = job.completed + 1
      /\ new.documents \in Seq(Pages) /\ new.errors \in Seq(Pages)
      /\ new.completed = Len(new.documents) + Len(new.errors)
      /\ Len(new.documents) + Len(new.errors) = Len(job.documents) + Len(job.errors) + 1
      /\ ToSet(new.documents) \cup ToSet(new.errors) = ToSet(job.documents) \cup ToSet(job.errors) \cup {p}
      /\ new.bytes = Sum(new.documents) /\ new.bytes \in Nat /\ new.bytes <= MaxJobBytes
  <2>1. Counted(job, t) /\ t.at # "failing" /\ job.status # "failed"
    BY <1>2, <1>3, <1>4
  <2>2. Recorded(job, p, new)
    BY <2>1, RecordEffect
  <2> QED
    BY <2>2 DEF Recorded
<1>6. Counted(new, s)
  <2>1. t.request.limit \in Nat
    BY DEF IsLive
  <2>2. /\ new.completed + Cardinality(s.active) <= s.request.limit
        /\ new.completed + Cardinality(s.active) <= new.total
    BY <1>1, <1>2, <1>4, <1>5, <2>1
  <2>3. new.completed \in Nat /\ new.completed <= new.total
    BY <1>1, <1>4, <1>5, <2>2
  <2> QED
    BY <1>2, <1>4, <1>5, <2>2, <2>3 DEF Counted, Finals
<1>7. /\ DOMAIN t.seen = ToSet(job.documents) \cup ToSet(job.errors) \cup t.active \cup ToSet(t.queue)
      /\ Cardinality(DOMAIN t.seen)
           = Len(job.documents) + Len(job.errors) + Cardinality(t.active) + Len(t.queue)
  BY <1>2, <1>3 DEF Frontier, Placed
<1>8. Placed(new, s)
  <2>1. DOMAIN s.seen = ToSet(new.documents) \cup ToSet(new.errors) \cup s.active \cup ToSet(s.queue)
    BY <1>2, <1>5, <1>7
  <2>2. Cardinality(DOMAIN s.seen)
          = Len(new.documents) + Len(new.errors) + Cardinality(s.active) + Len(s.queue)
    <3> DEFINE a == Len(job.documents)
               b == Len(job.errors)
               c == Cardinality(s.active)
               d == Len(s.queue)
    <3>1. /\ a \in Nat /\ b \in Nat /\ c \in Nat /\ d \in Nat
          /\ Cardinality(DOMAIN s.seen) = a + b + (c + 1) + d
      <4>1. Len(s.queue) \in Nat
        BY <1>1 DEF IsLive
      <4> QED
        BY <1>1, <1>2, <1>4, <1>7, <4>1, Zenon
    <3> HIDE DEF a, b, c, d
    <3>2. a + b + (c + 1) + d = (a + b + 1) + c + d
      BY <3>1
    <3>3. Cardinality(DOMAIN s.seen) = (a + b + 1) + c + d
      BY <3>1, <3>2, Zenon
    <3> QED
      BY <1>5, <3>3, Zenon DEF a, b, c, d
  <2> QED
    BY <2>1, <2>2 DEF Placed
<1>9. QueuedOnce(s)
  BY <1>2, <1>3 DEF Frontier, QueuedOnce
<1>10. s.request.concurrency = 1 => ByDepth(s)
  BY <1>2, <1>3 DEF Frontier, ByDepth
<1> QED
  BY <1>2, <1>6, <1>7, <1>8, <1>9, <1>10

LEMMA AnswerCrawl ==
  ASSUME CrawlInv, ReaderInv', NEW j \in Jobs, NEW p \in Pages, Answer(j, p)
  PROVE  CrawlInv'
<1> DEFINE t == task[j]
           s == [t EXCEPT !.at = "top", !.active = @ \ {p}]
           u == Follow(s, p)
<1>1. t.at = "wait" /\ p \in t.active
  BY DEF Answer, At
<1>2. \/ Mutate(j, StoreDocument(jobs[j], p)) /\ task' = [task EXCEPT ![j] = u]
      \/ Mutate(j, RecordError(jobs[j], p)) /\ task' = [task EXCEPT ![j] = s]
  BY DEF Answer
<1>3. IsLive(t) /\ (Stored(j) => Sound(jobs[j], t))
  BY <1>1, LiveTask DEF At
<1>4. Answered(t, p, s)
  BY <1>1, <1>3 DEF IsLive, Answered, TaskFields
<1> HIDE DEF s
<1>5. IsLive(s) /\ s.at = "top" /\ s.request = t.request /\ s.seen = t.seen
  BY <1>3, <1>4, AnsweredLives DEF Answered
<1>6. ASSUME Stored(j), NEW new \in {RecordError(jobs[j], p), StoreDocument(jobs[j], p)}
      PROVE  /\ Counted(new, s) /\ Placed(new, s) /\ QueuedOnce(s)
             /\ s.request.concurrency = 1 => ByDepth(s)
             /\ ToSet(s.queue) \subseteq DOMAIN s.seen /\ s.active \subseteq DOMAIN s.seen
             /\ p \in DOMAIN s.seen
  BY <1>3, <1>4, <1>6, AnsweredSound
<1>7. ASSUME Stored(j)
      PROVE  \A q \in ToSet(jobs[j].documents) : Taken(s, q) /\ q \in DOMAIN s.seen
  <2>1. Frontier(jobs[j], t)
    BY <1>3, <1>7 DEF Sound
  <2>2. \A q \in ToSet(jobs[j].documents) : Taken(t, q) /\ q \in DOMAIN t.seen
    BY <1>1, <2>1 DEF Frontier, Placed
  <2> QED
    BY <1>5, <2>2 DEF Taken
<1>8. CASE Mutate(j, RecordError(jobs[j], p)) /\ task' = [task EXCEPT ![j] = s]
  <2> DEFINE new == RecordError(jobs[j], p)
  <2>1. ASSUME Stored(j) PROVE Sound(new, s)
    <3>1. new.documents = jobs[j].documents
      BY <1>3, <2>1, RecordShape DEF Sound, Counted
    <3>2. new \in {RecordError(jobs[j], p), StoreDocument(jobs[j], p)}
      OBVIOUS
    <3> HIDE DEF new
    <3>3. Counted(new, s) /\ Placed(new, s) /\ QueuedOnce(s) /\ (s.request.concurrency = 1 => ByDepth(s))
      BY <1>6, <2>1, <3>2
    <3>4. Filling(new, s)
      BY <1>5 DEF Filling
    <3> QED
      BY <1>7, <2>1, <3>1, <3>3, <3>4 DEF Sound, Frontier
  <2>2. Sane(s)
    BY <1>5 DEF Sane
  <2> HIDE DEF new, t
  <2> QED
    BY <1>8, <2>1, <2>2, JobGoesOn DEF new
<1>9. CASE Mutate(j, StoreDocument(jobs[j], p)) /\ task' = [task EXCEPT ![j] = u] /\ Stored(j)
  <2> DEFINE job == StoreDocument(jobs[j], p)
             depth == s.seen[p] + 1
  <2>1. job \in {RecordError(jobs[j], p), StoreDocument(jobs[j], p)}
    OBVIOUS
  <2>2. ToSet(job.documents) \subseteq ToSet(jobs[j].documents) \cup {p}
    <3>1. Counted(jobs[j], t) /\ t.at # "failing" /\ jobs[j].status # "failed"
      BY <1>1, <1>3, <1>9 DEF Sound, Counted, Finals
    <3> QED
      BY <2>1, <3>1, RecordEffect DEF Recorded
  <2> HIDE DEF job
  <2>3. /\ Counted(job, s) /\ Placed(job, s) /\ QueuedOnce(s) /\ (s.request.concurrency = 1 => ByDepth(s))
        /\ ToSet(s.queue) \subseteq DOMAIN s.seen /\ s.active \subseteq DOMAIN s.seen /\ p \in DOMAIN s.seen
    BY <1>6, <1>9, <2>1
  <2>4. depth \in Nat /\ s.queue \in Seq(Pages) /\ IsFiniteSet(DOMAIN s.seen) /\ IsFiniteSet(s.active)
        /\ s.request.limit \in Nat /\ \A q \in DOMAIN s.seen : s.seen[q] \in Nat
    BY <1>5, <2>3 DEF IsLive
  <2>5. PICK new : NewPages(s, new) /\ Grown(s, new, depth, u)
    BY <1>5, <2>3, FollowGrows
  <2>6. Taken(u, p)
    BY <1>5, <2>3, FollowGrows
  <2> HIDE DEF u, depth
  <2>7. IsLive(u)
    BY <1>5, <2>4, <2>5, GrownLives
  <2>8. u.at = "top" /\ u.request = s.request /\ u.active = s.active
    BY <1>5, <2>5 DEF Grown
  <2>9. Counted(job, u)
    BY <1>5, <2>3, <2>8 DEF Counted
  <2>10. Placed(job, u) /\ QueuedOnce(u)
    BY <2>3, <2>4, <2>5, GrownPlaced
  <2>11. \A q \in ToSet(job.documents) : Taken(u, q)
    BY <1>7, <1>9, <2>2, <2>4, <2>5, <2>6, GrownTaken
  <2>12. u.request.concurrency = 1 => ByDepth(u)
    <3> SUFFICES ASSUME u.request.concurrency = 1 PROVE ByDepth(u)
      OBVIOUS
    <3>1. ByDepth(s) /\ ByDepth(t)
      BY <1>1, <1>3, <1>5, <1>9, <2>3, <2>8 DEF Sound, Frontier
    <3>2. \A q \in ToSet(s.queue) \cup s.active : s.seen[q] <= depth /\ depth <= s.seen[q] + 1
      <4>1. s.active = {} /\ s.queue = t.queue
        BY <1>1, <1>4, <3>1 DEF Answered, ByDepth
      <4>2. ASSUME NEW q \in ToSet(s.queue)
            PROVE  s.seen[q] <= depth /\ depth <= s.seen[q] + 1
        <5>1. PICK i \in 1 .. Len(s.queue) : q = s.queue[i]
          BY <2>4 DEF ToSet
        <5>2. s.seen[p] <= s.seen[q] /\ s.seen[q] <= s.seen[p] + 1
          BY <1>1, <1>5, <3>1, <4>1, <5>1 DEF ByDepth
        <5>3. s.seen[p] \in Nat /\ s.seen[q] \in Nat
          BY <2>3, <2>4
        <5> QED
          BY <5>2, <5>3 DEF depth
      <4> QED
        BY <4>1, <4>2
    <3> QED
      BY <2>3, <2>4, <2>5, <3>1, <3>2, GrownByDepth
  <2>13. Filling(job, u)
    BY <2>8 DEF Filling
  <2>14. Sound(job, u)
    BY <2>9, <2>10, <2>11, <2>12, <2>13 DEF Sound, Frontier
  <2>15. Sane(u)
    BY <2>7 DEF Sane
  <2> HIDE DEF t
  <2> QED
    BY <1>9, <2>14, <2>15, JobGoesOn DEF job
<1>10. CASE Mutate(j, StoreDocument(jobs[j], p)) /\ task' = [task EXCEPT ![j] = u] /\ ~Stored(j)
  <2> DEFINE job == StoreDocument(jobs[j], p)
  <2>1. p \in DOMAIN s.seen
    BY <1>1, <1>3, <1>5 DEF IsLive
  <2>2. PICK new : NewPages(s, new) /\ Grown(s, new, s.seen[p] + 1, u)
    BY <1>5, <2>1, FollowGrows
  <2>3. s.seen[p] + 1 \in Nat
    BY <1>5, <2>1 DEF IsLive
  <2> HIDE DEF u
  <2>4. IsLive(u)
    BY <1>5, <2>2, <2>3, GrownLives
  <2>5. Sane(u) /\ (Stored(j) => Sound(job, u))
    BY <1>10, <2>4 DEF Sane
  <2> HIDE DEF t, job
  <2> QED
    BY <1>10, <2>5, JobGoesOn DEF job
<1> QED
  BY <1>2, <1>8, <1>9, <1>10

-----------------------------------------------------------------------------
(* The client's steps.                                                        *)

LEMMA PrunedCrawl ==
  ASSUME CrawlInv, ReaderInv', UNCHANGED task, Pruned(jobs')
  PROVE  CrawlInv'
<1>1. ASSUME NEW i \in Jobs
      PROVE  Sane(task'[i]) /\ (jobs'[i] # None => Sound(jobs'[i], task'[i]))
  <2>1. jobs'[i] # None => Stored(i) /\ jobs'[i] = jobs[i]
    BY DEF Pruned, Stored
  <2> QED
    BY <2>1 DEF CrawlInv
<1> QED
  BY <1>1 DEF CrawlInv, Stored, Sane, Sound, IsLive, Counted, Frontier,
     Placed, QueuedOnce, Taken, ByDepth, Filling

LEMMA StartCrawl ==
  ASSUME CrawlInv, ReaderInv', NEW j \in Jobs, NEW r \in Requests[j], Start(j, r)
  PROVE  CrawlInv'
<1> DEFINE job == [status |-> "queued", expires |-> now + Ttl, total |-> 1, completed |-> 0,
                   documents |-> <<>>, errors |-> <<>>, bytes |-> 0]
           t == [at |-> "queued", request |-> r, deadline |-> now + CrawlTimeout, permit |-> FALSE,
                 robots |-> FALSE, queue |-> <<>>, seen |-> [p \in {Root} |-> 0], active |-> {}]
<1>1. jobs' = [Cleaned EXCEPT ![j] = job] /\ task' = [task EXCEPT ![j] = t]
  BY DEF Start
<1>2. DOMAIN task = Jobs /\ Pruned(Cleaned)
  BY CleanedPruned DEF CrawlInv, ReaderInv, TasksShaped
<1>3. /\ r \in [limit : Nat, depth : Nat, concurrency : Nat]
      /\ r.limit \in 1 .. MaxCrawlLimit /\ r.concurrency >= 1
  <2>1. r \in [limit : Nat, depth : Nat, concurrency : Nat]
    BY CrawlAssumption
  <2>2. MaxConcurrency \in Nat
    BY CrawlAssumption
  <2>3. r.limit \in 1 .. MaxCrawlLimit /\ r.concurrency \in 1 .. MaxConcurrency
    BY DEF Start, Valid
  <2> QED
    BY <2>1, <2>2, <2>3
<1>4. t.at = "queued" /\ DOMAIN t = TaskFields /\ t.request = r /\ t.queue = <<>> /\ t.active = {}
  BY DEF TaskFields
<1>5. DOMAIN t.seen = {Root} /\ t.seen[Root] = 0
  OBVIOUS
<1>6. /\ DOMAIN job = JobFields /\ job.status = "queued" /\ job.total = 1 /\ job.completed = 0
      /\ job.documents = <<>> /\ job.errors = <<>> /\ job.bytes = 0
  BY DEF JobFields
<1> HIDE DEF job, t
<1>7. IsLive(t)
  <2>1. Root \in Pages
    BY CrawlAssumption
  <2>2. IsFiniteSet({Root}) /\ IsFiniteSet({})
    BY FS_EmptySet, FS_Singleton
  <2>3. <<>> \in Seq(Pages) /\ ToSet(<<>>) = {}
    BY DEF ToSet
  <2> QED
    BY <1>3, <1>4, <1>5, <2>1, <2>2, <2>3 DEF IsLive
<1>8. Sound(job, t)
  <2>1. MaxJobBytes \in Nat
    BY CrawlAssumption
  <2>2. Len(<<>>) = 0 /\ <<>> \in Seq(Pages)
    OBVIOUS
  <2>3. Counted(job, t)
    BY <1>4, <1>6, <2>1, <2>2, SumEmpty DEF Counted, Finals
  <2> QED
    BY <1>4, <2>3, NoFrontier DEF Sound
<1>9. ASSUME NEW i \in Jobs
      PROVE  Sane(task'[i]) /\ (jobs'[i] # None => Sound(jobs'[i], task'[i]))
  <2>1. CASE i = j
    <3>1. task'[i] = t /\ jobs'[i] = job
      BY <1>1, <1>2, <2>1 DEF Pruned
    <3> QED
      BY <1>7, <1>8, <3>1 DEF Sane
  <2>2. CASE i # j
    <3>1. task'[i] = task[i] /\ (jobs'[i] # None => Stored(i) /\ jobs'[i] = jobs[i])
      BY <1>1, <1>2, <2>2 DEF Pruned, Stored
    <3> QED
      BY <3>1 DEF CrawlInv
  <2> QED
    BY <2>1, <2>2
<1> QED
  BY <1>9 DEF CrawlInv, Stored, Sane, Sound, IsLive, Counted, Frontier,
     Placed, QueuedOnce, Taken, ByDepth, Filling

LEMMA InitCrawl == Init => CrawlInv
BY InitReader DEF Init, CrawlInv, NoTask, Stored, Sane

LEMMA CrawlStep == CrawlInv /\ [Next]_vars => CrawlInv'
<1> SUFFICES ASSUME CrawlInv, [Next]_vars PROVE CrawlInv'
  OBVIOUS
<1>1. ReaderInv'
  BY ReaderStep DEF CrawlInv
<1>2. DOMAIN jobs = Jobs
  BY DEF CrawlInv, ReaderInv, JobsShaped
<1>3. ASSUME NEW j \in Jobs, NEW r \in Requests[j], Start(j, r) PROVE CrawlInv'
  BY <1>1, <1>3, StartCrawl
<1>4. ASSUME NEW j \in Jobs, StartRefused(j) PROVE CrawlInv'
  BY <1>1, <1>4, PrunedCrawl, CleanedPruned DEF StartRefused
<1>5. ASSUME NEW j \in Jobs, Delete(j) PROVE CrawlInv'
  <2>1. Pruned(jobs')
    BY <1>2, <1>5 DEF Delete, Pruned
  <2> QED
    BY <1>1, <1>5, <2>1, PrunedCrawl DEF Delete
<1>6. Pruned(jobs)
  BY <1>2 DEF Pruned
<1>7. ASSUME UNCHANGED <<jobs, task>> PROVE CrawlInv'
  <2>1. Pruned(jobs')
    BY <1>6, <1>7
  <2> QED
    BY <1>1, <1>7, <2>1, PrunedCrawl
<1>8. ASSUME NEW j \in Jobs, Open(j) PROVE CrawlInv'
  BY <1>7, <1>8 DEF Open
<1>9. ASSUME ReadPage PROVE CrawlInv'
  BY <1>1, <1>9, PrunedCrawl, CleanedPruned DEF ReadPage
<1>10. ASSUME NEW j \in Jobs, Work(j) PROVE CrawlInv'
  <2>1. CASE Cancel(j) \/ End(j) \/ Fail(j)
    BY <1>1, <2>1, FinishCrawl
  <2>2. CASE Admit(j)
    BY <1>1, <2>2, AdmitCrawl
  <2>3. CASE FetchRobots(j)
    BY <1>1, <2>3, RobotsCrawl
  <2>4. CASE MapSite(j)
    BY <1>1, <2>4, MapCrawl
  <2>5. CASE Top(j)
    BY <1>1, <2>5, TopCrawl
  <2>6. CASE Fill(j)
    BY <1>1, <2>6, FillCrawl
  <2>7. CASE Filled(j)
    BY <1>1, <2>7, FilledCrawl
  <2>8. CASE \E p \in Pages : Answer(j, p)
    BY <1>1, <2>8, AnswerCrawl
  <2>9. CASE Drain(j)
    BY <1>1, <2>9, DrainCrawl
  <2>10. CASE NoticeDeadline(j)
    BY <1>1, <2>10, DeadlineCrawl
  <2> QED
    BY <1>10, <2>1, <2>2, <2>3, <2>4, <2>5, <2>6, <2>7, <2>8, <2>9, <2>10 DEF Work
<1>11. ASSUME NEW j \in Jobs, TimeOut(j) PROVE CrawlInv'
  BY <1>1, <1>11, DeadlineCrawl
<1>12. ASSUME Tick PROVE CrawlInv'
  BY <1>7, <1>12 DEF Tick
<1>13. ASSUME UNCHANGED vars PROVE CrawlInv'
  BY <1>7, <1>13 DEF vars
<1> QED
  BY <1>3, <1>4, <1>5, <1>8, <1>9, <1>10, <1>11, <1>12, <1>13 DEF Next, Client

-----------------------------------------------------------------------------
(* What the invariant says of every crawl.                                    *)

(* The inductive invariant of counters and frontier holds in every reachable  *)
(* state.                                                                     *)
THEOREM CrawlInvariance == Spec => []CrawlInv
BY InitCrawl, CrawlStep, PTL DEF Spec

LEMMA CrawlCounts == CrawlInv => CountersAgree
<1> SUFFICES ASSUME CrawlInv, NEW j \in Retained
             PROVE  LET job == jobs[j]
                        whole == IF At(j, "failing") \/ job.status = "failed" THEN 1 ELSE 0
                    IN
                      /\ job.completed + whole = Len(job.documents) + Len(job.errors)
                      /\ job.bytes = Sum(job.documents) /\ job.bytes <= MaxJobBytes
                      /\ task[j].at \in {"top", "fill", "wait"} =>
                           job.completed + Cardinality(task[j].active) <= task[j].request.limit
                      /\ task[j].at \notin {"top", "fill"} => job.completed <= job.total
                      /\ job.status = "completed" => job.total = job.completed
  BY DEF CountersAgree
<1> DEFINE job == jobs[j]
           t == task[j]
           whole == IF At(j, "failing") \/ job.status = "failed" THEN 1 ELSE 0
<1>1. j \in Jobs /\ Stored(j)
  BY DEF Retained
<1>2. Counted(job, t)
  BY <1>1 DEF CrawlInv, Sound
<1>3. At(j, "failing") <=> t.at = "failing"
  BY DEF At
<1> HIDE DEF job, t
<1>4. /\ whole \in {0, 1} /\ (whole = 0 => t.at # "failing" /\ job.status # "failed")
      /\ (whole = 1 => t.at = "failing" \/ job.status = "failed")
  BY <1>3
<1>5. job.completed + whole = Len(job.documents) + Len(job.errors)
  <2> HIDE DEF whole
  <2>1. CASE whole = 0
    <3>1. job.completed = Len(job.documents) + Len(job.errors) /\ job.completed \in Nat
      BY <1>2, <1>4, <2>1 DEF Counted
    <3>2. job.completed + 0 = job.completed
      BY <3>1
    <3> QED
      BY <2>1, <3>1, <3>2, Zenon
  <2>2. CASE whole = 1
    <3>1. job.completed + 1 = Len(job.documents) + Len(job.errors)
      BY <1>2, <1>4, <2>2 DEF Counted
    <3> QED
      BY <2>2, <3>1, Zenon
  <2> QED
    BY <1>4, <2>1, <2>2
<1>6. /\ job.bytes = Sum(job.documents) /\ job.bytes <= MaxJobBytes
      /\ t.at \in {"top", "fill", "wait"} => job.completed + Cardinality(t.active) <= t.request.limit
      /\ t.at \notin {"top", "fill"} => job.completed <= job.total
      /\ job.status = "completed" => job.total = job.completed
  BY <1>2 DEF Counted
<1> QED
  BY <1>5, <1>6 DEF job, t

(* Progress adds up in every crawl a client can see.                          *)
THEOREM ProgressAddsUp == Spec => []CountersAgree
BY CrawlInvariance, CrawlCounts, PTL

LEMMA CrawlFollows == CrawlInv => FollowsLinks
<1> SUFFICES ASSUME CrawlInv, NEW j \in Retained, task[j].at \in {"top", "fill", "wait", "ending"}
             PROVE  LET t == task[j]
                        job == jobs[j]
                        done == ToSet(job.documents) \cup ToSet(job.errors)
                        depths == [i \in 1 .. Len(t.queue) |-> t.seen[t.queue[i]]]
                    IN
                      /\ DOMAIN t.seen = done \cup t.active \cup ToSet(t.queue)
                      /\ Cardinality(DOMAIN t.seen) =
                           Len(job.documents) + Len(job.errors) + Cardinality(t.active) + Len(t.queue)
                      /\ \A p \in ToSet(job.documents) :
                           \/ t.seen[p] >= t.request.depth
                           \/ ToSet(LinksOf[p]) \cap Allowed \subseteq DOMAIN t.seen
                           \/ Cardinality(DOMAIN t.seen) >= 10 * t.request.limit
                      /\ At(j, "ending") => t.queue = <<>> \/ job.completed = t.request.limit
                      /\ t.request.concurrency = 1 => \A i \in 1 .. Len(depths) - 1 : depths[i] <= depths[i + 1]
  BY DEF FollowsLinks
<1> DEFINE job == jobs[j]
           t == task[j]
           depths == [i \in 1 .. Len(t.queue) |-> t.seen[t.queue[i]]]
<1>1. j \in Jobs /\ Stored(j)
  BY DEF Retained
<1>2. Frontier(job, t) /\ IsLive(t)
  BY <1>1 DEF CrawlInv, Sound, Sane
<1>3. t.at \in {"top", "fill", "wait", "ending"} /\ (At(j, "ending") <=> t.at = "ending")
  BY DEF At
<1> HIDE DEF job, t
<1>4. /\ Placed(job, t) /\ \A p \in ToSet(job.documents) : Taken(t, p)
      /\ (t.request.concurrency = 1 => ByDepth(t)) /\ Filling(job, t)
  BY <1>2, <1>3 DEF Frontier
<1>5. t.request.concurrency = 1 => \A i \in 1 .. Len(depths) - 1 : depths[i] <= depths[i + 1]
  <2>1. Len(t.queue) \in Nat /\ DOMAIN depths = 1 .. Len(t.queue) /\ Len(depths) = Len(t.queue)
    BY <1>2 DEF IsLive
  <2>2. ASSUME t.request.concurrency = 1, NEW i \in 1 .. Len(depths) - 1
        PROVE  depths[i] <= depths[i + 1]
    <3>1. i \in 1 .. Len(t.queue) /\ i + 1 \in 1 .. Len(t.queue) /\ i < i + 1
      BY <2>1
    <3>2. t.seen[t.queue[i]] <= t.seen[t.queue[i + 1]]
      BY <1>4, <2>2, <3>1 DEF ByDepth
    <3> QED
      BY <3>1, <3>2
  <2> QED
    BY <2>2
<1> HIDE DEF depths
<1>6. At(j, "ending") => t.queue = <<>> \/ job.completed = t.request.limit
  BY <1>3, <1>4 DEF Filling
<1> QED
  BY <1>4, <1>5, <1>6 DEF Placed, Taken, job, t, depths

(* Every page a crawl came across is in one place, its links were taken up,   *)
(* and a crawl of a page at a time goes by depth.                             *)
THEOREM EveryPageHasItsPlace == Spec => []FollowsLinks
BY CrawlInvariance, CrawlFollows, PTL
=============================================================================
