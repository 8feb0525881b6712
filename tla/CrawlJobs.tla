------------------------------ MODULE CrawlJobs ------------------------------
(* Crawls: JobStore of scorch-engine/src/jobs.rs with the task of each job,   *)
(* Engine::crawl_page, and a client that reads a crawl page by page.          *)
(*                                                                            *)
(* A step of a task is what it does between two points where another thread   *)
(* can see or change the job: a critical section of the map of jobs, or the   *)
(* code up to the next await.  Scrapes, robots file and site map are answers  *)
(* that come at any time.                                                     *)
EXTENDS SiteMap, Integers

CONSTANTS
  Jobs,            \* identities of jobs
  Requests,        \* the CrawlRequests a job may be started with
  Root,            \* the page every crawl starts at
  LinksOf,         \* the links of each page, in order
  Allowed,         \* pages in the crawl's origin and paths
  Disallowed,      \* pages its robots file keeps from ScorchBot
  Site,            \* its site map
  SizeOf,          \* document_size of each page
  MaxCrawlLimit, MaxCrawlDepth, MaxConcurrency,   \* EngineConfig
  MaxJobs, MaxActive, MaxJobBytes,
  Ttl,             \* job_ttl
  CrawlTimeout,    \* crawl_timeout
  PageSize,        \* of the client
  MaxTime,         \* bound: ticks of the clock
  None

ASSUME CrawlAssumption ==
  /\ Requests \in [Jobs -> SUBSET [limit : Nat, depth : Nat, concurrency : Nat]]
  /\ Root \in Pages /\ LinksOf \in [Pages -> Seq(Pages)] /\ SizeOf \in [Pages -> Nat]
  /\ Allowed \subseteq Pages /\ Disallowed \subseteq Pages
  /\ IsSite(Site)
  /\ {MaxCrawlLimit, MaxCrawlDepth, MaxConcurrency} \subseteq Nat
  /\ {MaxJobs, MaxActive, MaxJobBytes, Ttl, CrawlTimeout, PageSize} \subseteq Nat \ {0}
  /\ None \notin Jobs \cup Nat

Finals == {"completed", "cancelled", "failed"}
Statuses == {"queued", "running"} \cup Finals

JobRecords ==
  [status : Statuses, expires : Nat, total : Nat, completed : Nat, documents : Seq(Pages),
   errors : Seq(Pages), bytes : 0 .. MaxJobBytes]

(* How far a job's task is.  "failing" and "ending" are inside fail and      *)
(* inside the end of run_inner, between two critical sections.               *)
Places ==
  {"none", "queued", "robots", "map", "top", "fill", "wait", "ending", "failing", "over"}

(* A task's own state: seen gives the depth of every page it came across,    *)
(* robots says whether a robots file was found.                              *)
IsTask(t) ==
  /\ t.at \in Places \ {"none", "over"}
  /\ t.request \in [limit : Nat, depth : Nat, concurrency : Nat]
  /\ t.deadline \in Nat
  /\ t.permit \in BOOLEAN /\ t.robots \in BOOLEAN
  /\ t.queue \in Seq(Pages)
  /\ DOMAIN t.seen \subseteq Pages /\ t.seen \in [DOMAIN t.seen -> Nat]
  /\ t.active \subseteq Pages

VARIABLES
  jobs,       \* JobStore.jobs
  task,       \* the task of each job
  cancelled,  \* the jobs whose token is cancelled
  reading,    \* what the client reads and has read
  now

vars == <<jobs, task, cancelled, reading, now>>

NoTask == [at |-> "none"]
OverTask == [at |-> "over"]

(* The client: the job it reads, the documents it has, and whether it was    *)
(* told that these are all.                                                  *)
Closed == [job |-> None, read |-> <<>>, all |-> FALSE]

Init ==
  /\ jobs = [j \in Jobs |-> None]
  /\ task = [j \in Jobs |-> NoTask]
  /\ cancelled = {}
  /\ reading = Closed
  /\ now = 0

Stored(j) == jobs[j] # None
Retained == {j \in Jobs : Stored(j)}
At(j, place) == task[j].at = place
Running(j) == task[j].at \in {"top", "fill", "wait"}

(* cleanup: what has expired goes, and its task is told.                     *)
Expired == {j \in Retained : jobs[j].expires <= now}
Cleaned == [j \in Jobs |-> IF j \in Expired THEN None ELSE jobs[j]]
Cleanup == cancelled' = cancelled \cup Expired

(* mutate: a job that is gone is left alone.                                 *)
Mutate(j, job) == jobs' = IF Stored(j) THEN [jobs EXCEPT ![j] = job] ELSE jobs

-----------------------------------------------------------------------------
(* start, get, cancel_and_delete                                             *)

Valid(r) ==
  /\ r.limit \in 1 .. MaxCrawlLimit
  /\ r.depth <= MaxCrawlDepth
  /\ r.concurrency \in 1 .. MaxConcurrency

Start(j, r) ==
  /\ At(j, "none")
  /\ r \in Requests[j]
  /\ Valid(r)
  /\ Cardinality(Retained \ Expired) < MaxJobs
  /\ Cleanup
  /\ jobs' = [Cleaned EXCEPT ![j] =
                [status |-> "queued", expires |-> now + Ttl, total |-> 1, completed |-> 0,
                 documents |-> <<>>, errors |-> <<>>, bytes |-> 0]]
  /\ task' = [task EXCEPT ![j] =
                [at |-> "queued", request |-> r, deadline |-> now + CrawlTimeout, permit |-> FALSE,
                 robots |-> FALSE, queue |-> <<>>, seen |-> [p \in {Root} |-> 0], active |-> {}]]
  /\ UNCHANGED <<reading, now>>

(* Refused for want of room, a start has cleaned up all the same.            *)
StartRefused(j) ==
  /\ At(j, "none")
  /\ \E r \in Requests[j] : Valid(r)
  /\ Cardinality(Retained \ Expired) >= MaxJobs
  /\ Cleanup
  /\ jobs' = Cleaned
  /\ UNCHANGED <<task, reading, now>>

Delete(j) ==
  /\ Stored(j)
  /\ jobs' = [jobs EXCEPT ![j] = None]
  /\ cancelled' = cancelled \cup {j}
  /\ UNCHANGED <<task, reading, now>>

(* crawl_page: the documents from a cursor on, and the next cursor if there  *)
(* are more.                                                                 *)
PageEnd(job, cursor) ==
  IF cursor + PageSize < Len(job.documents) THEN cursor + PageSize ELSE Len(job.documents)

NextCursor(job, cursor) ==
  IF PageEnd(job, cursor) < Len(job.documents) THEN PageEnd(job, cursor) ELSE None

Open(j) ==
  /\ reading.job = None
  /\ Stored(j)
  /\ reading' = [Closed EXCEPT !.job = j]
  /\ UNCHANGED <<jobs, task, cancelled, now>>

(* The client goes on where it stopped.  It has everything when there is no  *)
(* next cursor and the crawl has ended.                                      *)
ReadPage ==
  LET j == reading.job
      job == Cleaned[j]
      cursor == Len(reading.read)
  IN
    /\ j # None
    /\ ~reading.all
    /\ Cleanup
    /\ jobs' = Cleaned
    /\ reading' =
         IF job = None THEN Closed
         ELSE [reading EXCEPT
                 !.read = @ \o SubSeq(job.documents, cursor + 1, PageEnd(job, cursor)),
                 !.all = NextCursor(job, cursor) = None /\ job.status \in Finals]
    /\ UNCHANGED <<task, now>>

-----------------------------------------------------------------------------
(* run and run_inner, up to the loop                                         *)

Finish(j, status) == [jobs[j] EXCEPT !.status = status, !.expires = now + Ttl]

(* finish with Cancelled, and return.                                        *)
Cancel(j) ==
  /\ j \in cancelled
  /\ task[j].at \in {"queued", "top", "wait"}
  /\ Mutate(j, Finish(j, "cancelled"))
  /\ task' = [task EXCEPT ![j] = OverTask]
  /\ UNCHANGED <<cancelled, reading, now>>

Admit(j) ==
  /\ At(j, "queued")
  /\ j \notin cancelled
  /\ Cardinality({i \in Jobs : task[i].at # "none" /\ task[i].at # "over" /\ task[i].permit}) < MaxActive
  /\ Mutate(j, [jobs[j] EXCEPT !.status = "running"])
  /\ task' = [task EXCEPT ![j].at = "robots", ![j].permit = TRUE]
  /\ UNCHANGED <<cancelled, reading, now>>

FetchRobots(j) ==
  /\ At(j, "robots")
  /\ \E found \in BOOLEAN : task' = [task EXCEPT ![j].at = "map", ![j].robots = found]
  /\ UNCHANGED <<jobs, cancelled, reading, now>>

(* New pages get their depth and their place in the queue.                   *)
Discover(t, pages, depth) ==
  [t EXCEPT !.queue = @ \o pages,
            !.seen = [p \in DOMAIN t.seen \cup ToSet(pages) |->
                        IF p \in DOMAIN t.seen THEN t.seen[p] ELSE depth]]

(* The pages among these that are in scope and were not come across before,  *)
(* in their order, each where it is first.                                   *)
Unseen(t, pages) == Selected(pages, FirstPlaces(pages, Allowed \ DOMAIN t.seen))

(* The root, and what the site map has; a map that fails has nothing.        *)
Mapped == [limit \in 1 .. MaxCrawlLimit |-> Maps(Site, limit) \cup {<<>>}]

MapSite(j) ==
  /\ At(j, "map")
  /\ \E links \in Mapped[task[j].request.limit] :
       LET t == [task[j] EXCEPT !.at = "top", !.queue = <<Root>>] IN
         task' = [task EXCEPT ![j] = Discover(t, Unseen(t, links), 1)]
  /\ UNCHANGED <<jobs, cancelled, reading, now>>

-----------------------------------------------------------------------------
(* The loop                                                                  *)

Top(j) ==
  /\ At(j, "top")
  /\ j \notin cancelled
  /\ task' = [task EXCEPT ![j].at = "fill"]
  /\ UNCHANGED <<jobs, cancelled, reading, now>>

Completed(j) == IF Stored(j) THEN jobs[j].completed ELSE 0

RecordError(job, p) == [job EXCEPT !.completed = @ + 1, !.errors = Append(@, p)]

CanFill(j) ==
  /\ Cardinality(task[j].active) < task[j].request.concurrency
  /\ Completed(j) + Cardinality(task[j].active) < task[j].request.limit
  /\ task[j].queue # <<>>

FillPastLimit(j) ==
  /\ At(j, "fill")
  /\ Cardinality(task[j].active) < task[j].request.concurrency
  /\ Completed(j) < task[j].request.limit
  /\ task[j].queue # <<>>
  /\ task' = [task EXCEPT ![j].queue = Tail(@), ![j].active = @ \cup {Head(task[j].queue)}]
  /\ UNCHANGED <<jobs, cancelled, reading, now>>

(* One turn of the filling loop: the next page is refused by the robots file *)
(* or begins to be scraped.                                                  *)
Fill(j) ==
  LET p == Head(task[j].queue) IN
    /\ At(j, "fill")
    /\ CanFill(j)
    /\ IF task[j].robots /\ p \in Disallowed
       THEN /\ Mutate(j, RecordError(jobs[j], p))
            /\ task' = [task EXCEPT ![j].queue = Tail(@)]
       ELSE /\ task' = [task EXCEPT ![j].queue = Tail(@), ![j].active = @ \cup {p}]
            /\ UNCHANGED jobs
    /\ UNCHANGED <<cancelled, reading, now>>

Larger(m, n) == IF m < n THEN n ELSE m
Smaller(m, n) == IF m < n THEN m ELSE n

(* ... and its end: the total is brought up to what is known of.             *)
Filled(j) ==
  LET known == Completed(j) + Cardinality(task[j].active) + Len(task[j].queue) IN
    /\ At(j, "fill")
    /\ ~CanFill(j)
    /\ Mutate(j, [jobs[j] EXCEPT !.total = Larger(@, Smaller(known, task[j].request.limit))])
    /\ task' = [task EXCEPT ![j].at = "wait"]
    /\ UNCHANGED <<cancelled, reading, now>>

(* Links of a document are followed below the greatest depth, as long as     *)
(* fewer pages than ten times the limit were seen.                           *)
Follow(t, p) ==
  LET depth == t.seen[p]
      new == Unseen(t, LinksOf[p])
      room == 10 * t.request.limit - Cardinality(DOMAIN t.seen)
  IN IF depth < t.request.depth /\ room > 0
     THEN Discover(t, SubSeq(new, 1, Smaller(room, Len(new))), depth + 1) ELSE t

(* store_document: refused when it is more than the job may retain, which is *)
(* then an error of the page.                                                *)
StoreDocument(job, p) ==
  IF job.bytes + SizeOf[p] > MaxJobBytes THEN RecordError(job, p)
  ELSE [job EXCEPT !.completed = @ + 1, !.documents = Append(@, p), !.bytes = @ + SizeOf[p]]

StoreWithoutFollowing(j, p) ==
  /\ At(j, "wait")
  /\ p \in task[j].active
  /\ Mutate(j, StoreDocument(jobs[j], p))
  /\ task' = [task EXCEPT ![j].at = "top", ![j].active = @ \ {p}]
  /\ UNCHANGED <<cancelled, reading, now>>

(* A scrape ends with a document or an error.                                *)
Answer(j, p) ==
  LET t == [task[j] EXCEPT !.at = "top", !.active = @ \ {p}] IN
    /\ At(j, "wait")
    /\ j \notin cancelled
    /\ p \in task[j].active
    /\ \/ /\ Mutate(j, StoreDocument(jobs[j], p))
          /\ task' = [task EXCEPT ![j] = Follow(t, p)]
       \/ /\ Mutate(j, RecordError(jobs[j], p))
          /\ task' = [task EXCEPT ![j] = t]
    /\ UNCHANGED <<cancelled, reading, now>>

DrainAgain(j) ==
  /\ At(j, "wait")
  /\ j \notin cancelled
  /\ task[j].active = {}
  /\ task' = [task EXCEPT ![j].at = "top"]
  /\ UNCHANGED <<jobs, cancelled, reading, now>>

(* Nothing is under way any more: the total is what was done, then the job   *)
(* is finished.                                                              *)
Drain(j) ==
  /\ At(j, "wait")
  /\ j \notin cancelled
  /\ task[j].active = {}
  /\ Mutate(j, [jobs[j] EXCEPT !.total = jobs[j].completed])
  /\ task' = [task EXCEPT ![j].at = "ending"]
  /\ UNCHANGED <<cancelled, reading, now>>

End(j) ==
  /\ At(j, "ending")
  /\ Mutate(j, Finish(j, IF j \in cancelled THEN "cancelled" ELSE "completed"))
  /\ task' = [task EXCEPT ![j] = OverTask]
  /\ UNCHANGED <<cancelled, reading, now>>

-----------------------------------------------------------------------------
(* The deadline                                                              *)

(* fail, in two critical sections: the error, then the status.               *)
FailWith(j) == Mutate(j, [jobs[j] EXCEPT !.errors = Append(@, Root)])

(* run's timeout drops run_inner where it waits, with its scrapes and its    *)
(* permit.                                                                   *)
TimeOutDetached(j) ==
  /\ task[j].at \in {"queued", "robots", "map", "wait"}
  /\ now >= task[j].deadline
  /\ jobs' = IF Stored(j) THEN [jobs EXCEPT ![j] = [Finish(j, "failed") EXCEPT !.errors = Append(@, Root)]] ELSE jobs
  /\ UNCHANGED <<task, cancelled, reading, now>>

TimeOut(j) ==
  /\ task[j].at \in {"queued", "robots", "map", "wait"}
  /\ now >= task[j].deadline
  /\ FailWith(j)
  /\ cancelled' = cancelled \cup {j}
  /\ task' = [task EXCEPT ![j].at = "failing", ![j].active = {}, ![j].permit = FALSE]
  /\ UNCHANGED <<reading, now>>

(* run_inner finds the deadline passed by itself, and keeps its permit until *)
(* it returns.                                                               *)
NoticeDeadline(j) ==
  /\ task[j].at \in {"top", "wait"}
  /\ now >= task[j].deadline
  /\ j \notin cancelled \/ At(j, "top")
  /\ FailWith(j)
  /\ task' = [task EXCEPT ![j].at = "failing", ![j].active = {}]
  /\ UNCHANGED <<cancelled, reading, now>>

Fail(j) ==
  /\ At(j, "failing")
  /\ Mutate(j, Finish(j, "failed"))
  /\ task' = [task EXCEPT ![j] = OverTask]
  /\ UNCHANGED <<cancelled, reading, now>>

Tick ==
  /\ now < MaxTime
  /\ now' = now + 1
  /\ UNCHANGED <<jobs, task, cancelled, reading>>

-----------------------------------------------------------------------------

Work(j) ==
  \/ Cancel(j) \/ Admit(j) \/ FetchRobots(j) \/ MapSite(j)
  \/ Top(j) \/ Fill(j) \/ Filled(j) \/ (\E p \in Pages : Answer(j, p)) \/ Drain(j) \/ End(j)
  \/ NoticeDeadline(j) \/ Fail(j)

Client ==
  \/ \E j \in Jobs : (\E r \in Requests[j] : Start(j, r)) \/ StartRefused(j) \/ Delete(j) \/ Open(j)
  \/ ReadPage

Next == Client \/ (\E j \in Jobs : Work(j) \/ TimeOut(j)) \/ Tick

Spec == Init /\ [][Next]_vars

(* A task goes on as long as it can: its scrapes, the robots file and the    *)
(* map all have timeouts of their own, and permits are handed out in order.  *)
FairSpec == Spec /\ \A j \in Jobs : WF_vars(Work(j))

-----------------------------------------------------------------------------

TypeOK ==
  /\ jobs \in [Jobs -> JobRecords \cup {None}]
  /\ \A j \in Jobs : task[j] \in {NoTask, OverTask} \/ IsTask(task[j])
  /\ cancelled \subseteq Jobs
  /\ reading \in [job : Jobs \cup {None}, read : Seq(Pages), all : BOOLEAN]
  /\ now \in Nat

Sum(s) == FoldLeft(LAMBDA n, p : n + SizeOf[p], 0, s)

(* Progress adds up ("progress totals consistent"): completed counts the     *)
(* documents and the errors, without the one of a crawl that failed as a     *)
(* whole; with the scrapes under way it never exceeds the limit, although    *)
(* robots refusals, failures and documents that do not fit all count; what   *)
(* is retained is the documents' bytes; and the total a client is shown      *)
(* covers completed, except while the frontier is being filled.              *)
CountersAgree ==
  \A j \in Retained :
    LET job == jobs[j]
        whole == IF At(j, "failing") \/ job.status = "failed" THEN 1 ELSE 0
    IN
      /\ job.completed + whole = Len(job.documents) + Len(job.errors)
      /\ job.bytes = Sum(job.documents) /\ job.bytes <= MaxJobBytes
      /\ task[j].at \in {"top", "fill", "wait"} =>
           job.completed + Cardinality(task[j].active) <= task[j].request.limit
      /\ task[j].at \notin {"top", "fill"} => job.completed <= job.total
      /\ job.status = "completed" => job.total = job.completed

(* Reading a crawl page by page while documents are added neither skips nor  *)
(* repeats one, and what a client was told is everything stays everything:   *)
(* nothing is added to a crawl whose status is final.                        *)
ReaderHasAll ==
  LET j == reading.job IN
    j # None /\ Stored(j) =>
      /\ reading.read = SubSeq(jobs[j].documents, 1, Len(reading.read))
      /\ reading.all => Len(reading.read) = Len(jobs[j].documents) /\ jobs[j].status \in Finals
(* "follows same-origin links breadth-first": every page a crawl came across *)
(* is in exactly one place, done, under way or queued, so that none is       *)
(* scraped twice and none is lost; the links of a document above the         *)
(* greatest depth were all taken up, until ten times the limit was seen; a   *)
(* crawl ends with pages left only at its limit; and one that scrapes a page *)
(* at a time takes them by depth.                                            *)
FollowsLinks ==
  \A j \in Retained :
    LET t == task[j]
        job == jobs[j]
        done == ToSet(job.documents) \cup ToSet(job.errors)
        depths == [i \in 1 .. Len(t.queue) |-> t.seen[t.queue[i]]]
    IN
      task[j].at \in {"top", "fill", "wait", "ending"} =>
        /\ DOMAIN t.seen = done \cup t.active \cup ToSet(t.queue)
        /\ Cardinality(DOMAIN t.seen) =
             Len(job.documents) + Len(job.errors) + Cardinality(t.active) + Len(t.queue)
        /\ \A p \in ToSet(job.documents) :
             \/ t.seen[p] >= t.request.depth
             \/ ToSet(LinksOf[p]) \cap Allowed \subseteq DOMAIN t.seen
             \/ Cardinality(DOMAIN t.seen) >= 10 * t.request.limit
        /\ At(j, "ending") => t.queue = <<>> \/ job.completed = t.request.limit
        /\ t.request.concurrency = 1 => \A i \in 1 .. Len(depths) - 1 : depths[i] <= depths[i + 1]

(* Every crawl that was started ends, whether it is deleted, expires, times  *)
(* out or waits for a permit, and gives its permit back.                     *)
CrawlsEnd == \A j \in Jobs : ~At(j, "none") ~> At(j, "over")
=============================================================================
