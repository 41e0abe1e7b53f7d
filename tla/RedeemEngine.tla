---------------------------- MODULE RedeemEngine ----------------------------
(***************************************************************************)
(* The gift-code engine: POST /moderator/redeem handlers (Redeem and       *)
(* StartJob), the JobQueue channel, the single worker goroutine running    *)
(* processJob, the jobs table, the Redis keys global_job_lock and          *)
(* current_job_status, and the report files.                               *)
(*                                                                         *)
(* A job is named by the request that asks for it.  Its targets are        *)
(* numbered 1..total[j] in the order GetPlayers returned them and its      *)
(* codes 1..codes[j]; what one redemption does is RedeemForPlayer's        *)
(* business.  MySQL, Redis and the report folder outlive a server process; *)
(* the queue, the handlers and the worker do not.                          *)
(***************************************************************************)
EXTENDS Naturals, Sequences

CONSTANTS
  Servers,      \* API processes sharing one MySQL and one Redis
  Jobs,         \* the requests to start a job
  NoJob,        \* the absent value of the Redis keys and of a worker's job
  MaxTotal,     \* bound: at most this many targets in a job
  MaxCodes,     \* bound: at most this many codes in a job
  QueueCap,     \* capacity of JobQueue (100 in NewProcessor)
  Faults,       \* errors the code ignores that may happen: "db", "redis", "report"
  MaxCrashes,   \* bound: server processes lost
  OverrunTTL    \* TRUE: a job may outlive the 24 h of its lock

ASSUME EngineAssumption ==
  /\ NoJob \notin Jobs
  /\ MaxTotal \in Nat /\ MaxCodes \in Nat /\ MaxCrashes \in Nat
  /\ QueueCap \in Nat \ {0}
  /\ Faults \subseteq {"db", "redis", "report"}
  /\ OverrunTTL \in BOOLEAN

VARIABLES
  \* requests
  req,          \* req[j]: how far the handler of request j is
  server,       \* server[j]: the process that handles request j
  total,        \* total[j]: number of targets of the job, GetPlayers' snapshot
  codes,        \* codes[j]: number of gift codes posted
  \* in the memory of each process
  queue,        \* queue[s]: JobQueue
  pc, job,      \* the worker goroutine: where it is, and its job
  count, tried, \* processJob's locals: targets done, codes done for the next one,
  entries,      \*   and the reportEntries so far
  \* persistent
  status,       \* status[j] and processed[j]: the columns status and
  processed,    \*   processed_players of the jobs row
  report,       \* report[j]: the entries in the CSV of job j
  lock,         \* global_job_lock
  current,      \* current_job_status
  \* auxiliary
  fate,         \* fate[j]: "open", then "processed" or "dropped"
  crashes,      \* server processes lost
  lostWrites    \* kinds of write that failed without the code acting on it

requestVars == <<req, server, total, codes>>
worker == <<pc, job, count, tried, entries>>
row == <<status, processed>>
stores == <<row, report, lock, current>>
history == <<fate, crashes, lostWrites>>
vars == <<requestVars, queue, worker, stores, history>>

HandlerStates ==
  {"new", "checked", "created", "accepted", "refused", "failed", "lost"}

\* Program counters of processJob between AcquireJobLock and the deferred release.
InJob == {"reset", "redeem", "publish", "complete", "finish", "release"}

Indices(n, m) == (1..n) \X (1..m)
Entries(j) == Indices(total[j], codes[j])

NoStatus == [job |-> NoJob, processed |-> 0, status |-> "NONE"]

Holding(s) == pc[s] \in InJob

RequestTypes ==
  /\ req \in [Jobs -> HandlerStates]
  /\ server \in [Jobs -> Servers]
  /\ total \in [Jobs -> 0..MaxTotal]
  /\ codes \in [Jobs -> 0..MaxCodes]
  /\ fate \in [Jobs -> {"open", "processed", "dropped"}]
  /\ crashes \in 0..MaxCrashes
  /\ lostWrites \subseteq Faults

QueueTypes == queue \in [Servers -> Seq(Jobs)]

WorkerTypes ==
  /\ pc \in [Servers -> {"idle", "lock"} \cup InJob]
  /\ job \in [Servers -> Jobs \cup {NoJob}]
  /\ count \in [Servers -> 0..MaxTotal]
  /\ tried \in [Servers -> 0..MaxCodes]
  /\ entries \in [Servers -> SUBSET Indices(MaxTotal, MaxCodes)]

RowTypes ==
  /\ status \in [Jobs -> {"NONE", "PENDING", "COMPLETED"}]
  /\ processed \in [Jobs -> 0..MaxTotal]
  /\ report \in [Jobs -> SUBSET Indices(MaxTotal, MaxCodes)]

KeyTypes ==
  /\ lock \in Jobs \cup {NoJob}
  /\ current \in [job: Jobs \cup {NoJob}, processed: 0..MaxTotal,
                  status: {"NONE", "RUNNING", "COMPLETED"}]

\* The values every variable keeps within: in particular no count runs past the bounds.
TypeOK == RequestTypes /\ QueueTypes /\ WorkerTypes /\ RowTypes /\ KeyTypes

Init ==
  /\ req = [j \in Jobs |-> "new"]
  /\ server \in [Jobs -> Servers]
  /\ total \in [Jobs -> 0..MaxTotal]
  /\ codes \in [Jobs -> 0..MaxCodes]
  /\ queue = [s \in Servers |-> <<>>]
  /\ pc = [s \in Servers |-> "idle"]
  /\ job = [s \in Servers |-> NoJob]
  /\ count = [s \in Servers |-> 0]
  /\ tried = [s \in Servers |-> 0]
  /\ entries = [s \in Servers |-> {}]
  /\ status = [j \in Jobs |-> "NONE"]
  /\ processed = [j \in Jobs |-> 0]
  /\ report = [j \in Jobs |-> {}]
  /\ lock = NoJob
  /\ current = NoStatus
  /\ fate = [j \in Jobs |-> "open"]
  /\ crashes = 0
  /\ lostWrites = {}

-----------------------------------------------------------------------------
\* Helpers

\* The code tests for PENDING too, a value nothing ever writes to the key.
StatusRunning == current.status \in {"PENDING", "RUNNING"}

\* A write whose error the code ignores: it takes effect or, under fault f, is lost.
Written(f, effect, v) ==
  \/ effect /\ UNCHANGED lostWrites
  \/ f \in Faults /\ lostWrites' = lostWrites \cup {f} /\ UNCHANGED v

SetStatus(j, v) == status' = [status EXCEPT ![j] = v] /\ UNCHANGED processed

SetJobProgress(j, n, v) ==
  Written("redis", current' = [job |-> j, processed |-> n, status |-> v], current)

UpdateJobProgress(j, n) ==
  /\ Written("db", processed' = [processed EXCEPT ![j] = n], processed)
  /\ UNCHANGED status

\* The worker moves on within processJob.
GoTo(s, q) == pc' = [pc EXCEPT ![s] = q] /\ UNCHANGED <<job, count, tried, entries>>

\* The worker takes job j, or none, with fresh locals.
Take(s, q, j) ==
  /\ pc' = [pc EXCEPT ![s] = q]
  /\ job' = [job EXCEPT ![s] = j]
  /\ count' = [count EXCEPT ![s] = 0]
  /\ tried' = [tried EXCEPT ![s] = 0]
  /\ entries' = [entries EXCEPT ![s] = {}]

Idle(s) == Take(s, "idle", NoJob)

\* processedCount++ at the end of the outer loop's body.
Advance(s) ==
  /\ pc' = [pc EXCEPT ![s] = "publish"]
  /\ count' = [count EXCEPT ![s] = @ + 1]
  /\ tried' = [tried EXCEPT ![s] = 0]
  /\ UNCHANGED <<job, entries>>

-----------------------------------------------------------------------------
\* POST /moderator/redeem

\* Redeem up to the conflict answer.  A Redis error reads as "no job is running".
CheckRunning(j) ==
  /\ req[j] = "new"
  /\ \/ StatusRunning /\ req' = [req EXCEPT ![j] = "refused"]
     \/ /\ ~StatusRunning \/ "redis" \in Faults
        /\ req' = [req EXCEPT ![j] = "checked"]
  /\ UNCHANGED <<server, total, codes, queue, worker, stores, history>>

\* Redeem and StartJob from GetPlayers to the jobs row; nothing here reads what
\* other handlers write, so reading the roster and inserting the row are one step.
CreateJob(j) ==
  /\ req[j] = "checked"
  /\ \/ /\ req' = [req EXCEPT ![j] = "created"]
        /\ SetStatus(j, "PENDING")
     \/ /\ "db" \in Faults
        /\ req' = [req EXCEPT ![j] = "failed"]
        /\ UNCHANGED row
  /\ UNCHANGED <<server, total, codes, queue, worker, report, lock, current, history>>

\* Mutation: a non-blocking send that gives up when the buffer is full.
EnqueueOrFail(j) ==
  /\ req[j] = "created"
  /\ IF Len(queue[server[j]]) < QueueCap
     THEN /\ queue' = [queue EXCEPT ![server[j]] = Append(@, j)]
          /\ req' = [req EXCEPT ![j] = "accepted"]
     ELSE /\ req' = [req EXCEPT ![j] = "failed"]
          /\ UNCHANGED queue
  /\ UNCHANGED <<server, total, codes, worker, stores, history>>

\* p.JobQueue <- job blocks while the buffer is full; then the 200 answer.
Enqueue(j) ==
  /\ req[j] = "created"
  /\ Len(queue[server[j]]) < QueueCap
  /\ queue' = [queue EXCEPT ![server[j]] = Append(@, j)]
  /\ req' = [req EXCEPT ![j] = "accepted"]
  /\ UNCHANGED <<server, total, codes, worker, stores, history>>

-----------------------------------------------------------------------------
\* worker and processJob

\* Mutation: the job is read without being taken off the queue.
DequeuePeek(s) ==
  /\ pc[s] = "idle"
  /\ queue[s] # <<>>
  /\ Take(s, "lock", Head(queue[s]))
  /\ UNCHANGED <<requestVars, queue, stores, history>>

Dequeue(s) ==
  /\ pc[s] = "idle"
  /\ queue[s] # <<>>
  /\ Take(s, "lock", Head(queue[s]))
  /\ queue' = [queue EXCEPT ![s] = Tail(@)]
  /\ UNCHANGED <<requestVars, stores, history>>

\* Mutation: SET instead of SETNX.
AcquireLockAlways(s) ==
  /\ pc[s] = "lock"
  /\ lock' = job[s]
  /\ GoTo(s, "reset")
  /\ UNCHANGED <<requestVars, queue, row, report, current, history>>

\* SETNX global_job_lock.  An error counts as "not acquired" even when the key was
\* set; a job that does not get the lock is dropped, with no requeue and no row update.
AcquireLock(s) ==
  /\ pc[s] = "lock"
  /\ \/ /\ lock = NoJob
        /\ lock' = job[s]
        /\ GoTo(s, "reset")
        /\ UNCHANGED <<fate, lostWrites>>
     \/ /\ \/ lock # NoJob /\ UNCHANGED <<lock, lostWrites>>
           \/ /\ "redis" \in Faults
              /\ lostWrites' = lostWrites \cup {"redis"}
              /\ UNCHANGED lock \/ (lock = NoJob /\ lock' = job[s])
        /\ Idle(s)
        /\ fate' = [fate EXCEPT ![job[s]] = "dropped"]
  /\ UNCHANGED <<requestVars, queue, row, report, current, crashes>>

ResetProgress(s) ==
  /\ pc[s] = "reset"
  /\ UpdateJobProgress(job[s], 0)
  /\ GoTo(s, "redeem")
  /\ UNCHANGED <<requestVars, queue, report, lock, current, fate, crashes>>

\* One pass of the inner loop: redeemForPlayer and the report entry.
RedeemCode(s) ==
  /\ pc[s] = "redeem"
  /\ count[s] < total[job[s]]
  /\ tried[s] < codes[job[s]]
  /\ tried' = [tried EXCEPT ![s] = @ + 1]
  /\ entries' = [entries EXCEPT ![s] = @ \cup {<<count[s] + 1, tried[s] + 1>>}]
  /\ UNCHANGED <<pc, job, count, requestVars, queue, stores, history>>

\* Mutation: the outer loop runs once too often.
NextTargetOffByOne(s) ==
  /\ pc[s] = "redeem"
  /\ count[s] <= total[job[s]]
  /\ Advance(s)
  /\ UpdateJobProgress(job[s], count[s] + 1)
  /\ UNCHANGED <<requestVars, queue, report, lock, current, fate, crashes>>

\* Mutation: a code that fails ends the target's inner loop.
NextTargetEarly(s) ==
  /\ pc[s] = "redeem"
  /\ count[s] < total[job[s]]
  /\ Advance(s)
  /\ UpdateJobProgress(job[s], count[s] + 1)
  /\ UNCHANGED <<requestVars, queue, report, lock, current, fate, crashes>>

\* Mutation: only Redis is told of the progress.
NextTargetNoRow(s) ==
  /\ pc[s] = "redeem"
  /\ count[s] < total[job[s]]
  /\ tried[s] = codes[job[s]]
  /\ Advance(s)
  /\ UNCHANGED <<requestVars, queue, stores, history>>

\* The end of the outer loop's body: processedCount++ and the row, then the key.
NextTarget(s) ==
  /\ pc[s] = "redeem"
  /\ count[s] < total[job[s]]
  /\ tried[s] = codes[job[s]]
  /\ Advance(s)
  /\ UpdateJobProgress(job[s], count[s] + 1)
  /\ UNCHANGED <<requestVars, queue, report, lock, current, fate, crashes>>

\* Mutation: the total is published where the processed count belongs.
PublishTotal(s) ==
  /\ pc[s] = "publish"
  /\ SetJobProgress(job[s], total[job[s]], "RUNNING")
  /\ GoTo(s, "redeem")
  /\ UNCHANGED <<requestVars, queue, row, report, lock, fate, crashes>>

PublishProgress(s) ==
  /\ pc[s] = "publish"
  /\ SetJobProgress(job[s], count[s], "RUNNING")
  /\ GoTo(s, "redeem")
  /\ UNCHANGED <<requestVars, queue, row, report, lock, fate, crashes>>

\* Mutation: processJob returns when the export fails.
ExportReportOrReturn(s) ==
  /\ pc[s] = "redeem"
  /\ count[s] = total[job[s]]
  /\ \/ /\ Written("report", report' = [report EXCEPT ![job[s]] = entries[s]], report)
        /\ GoTo(s, "complete")
     \/ /\ "report" \in Faults
        /\ UNCHANGED <<report, lostWrites>>
        /\ GoTo(s, "release")
  /\ UNCHANGED <<requestVars, queue, row, lock, current, fate, crashes>>

\* ExportJobResults: an error leaves no report and skips CompleteJob; the error of the
\* deferred Flush is not looked at, and the entries still buffered are gone.
ExportReport(s) ==
  /\ pc[s] = "redeem"
  /\ count[s] = total[job[s]]
  /\ \/ /\ Written("report", report' = [report EXCEPT ![job[s]] = entries[s]], report)
        /\ GoTo(s, "complete")
     \/ /\ "report" \in Faults
        /\ UNCHANGED <<report, lostWrites>>
        /\ GoTo(s, "finish")
  /\ UNCHANGED <<requestVars, queue, row, lock, current, fate, crashes>>

CompleteJob(s) ==
  /\ pc[s] = "complete"
  /\ Written("db", SetStatus(job[s], "COMPLETED"), row)
  /\ GoTo(s, "finish")
  /\ UNCHANGED <<requestVars, queue, report, lock, current, fate, crashes>>

PublishCompleted(s) ==
  /\ pc[s] = "finish"
  /\ SetJobProgress(job[s], count[s], "COMPLETED")
  /\ GoTo(s, "release")
  /\ UNCHANGED <<requestVars, queue, row, report, lock, fate, crashes>>

\* Mutation: the lock is released only on the path that exported a report.
ReleaseLockOnSuccess(s) ==
  /\ pc[s] = "release"
  /\ IF status[job[s]] = "COMPLETED" THEN lock' = NoJob ELSE UNCHANGED lock
  /\ Idle(s)
  /\ fate' = [fate EXCEPT ![job[s]] = "processed"]
  /\ UNCHANGED <<requestVars, queue, row, report, current, crashes, lostWrites>>

\* The deferred DEL global_job_lock, whoever holds it by then.
ReleaseLock(s) ==
  /\ pc[s] = "release"
  /\ Written("redis", lock' = NoJob, lock)
  /\ Idle(s)
  /\ fate' = [fate EXCEPT ![job[s]] = "processed"]
  /\ UNCHANGED <<requestVars, queue, row, report, current, crashes>>

-----------------------------------------------------------------------------
\* Time and failures

\* Mutation: the key was set without a time to live.
ExpireNever == FALSE

\* The 24 h of the lock pass.
ExpireLock ==
  /\ lock # NoJob
  /\ OverrunTTL \/ \A s \in Servers : ~Holding(s)
  /\ lock' = NoJob
  /\ UNCHANGED <<requestVars, queue, worker, row, report, current, history>>

\* The hour of current_job_status passes: every SetJobProgress starts it again, so
\* it can pass while a job runs only when one target takes that long.
ExpireStatus ==
  /\ current # NoStatus
  /\ current' = NoStatus
  /\ UNCHANGED <<requestVars, queue, worker, row, report, lock, history>>

Unanswered(j) == req[j] \in {"checked", "created"}

Held(s) == {j \in Jobs : server[j] = s /\ req[j] = "accepted" /\ fate[j] = "open"}

\* The process dies (also what a shutdown does to the engine: main never stops it) and
\* starts again: handlers, queue and worker are gone, rows and keys stay as they were.
CrashRestart(s) ==
  /\ crashes < MaxCrashes
  /\ crashes' = crashes + 1
  /\ req' = [j \in Jobs |->
               IF server[j] = s /\ Unanswered(j) THEN "lost" ELSE req[j]]
  /\ queue' = [queue EXCEPT ![s] = <<>>]
  /\ Idle(s)
  /\ fate' = [j \in Jobs |-> IF j \in Held(s) THEN "dropped" ELSE fate[j]]
  /\ UNCHANGED <<server, total, codes, stores, lostWrites>>

-----------------------------------------------------------------------------
HandlerStep(j) == CheckRunning(j) \/ CreateJob(j) \/ Enqueue(j)

WorkerStep(s) ==
  \/ Dequeue(s) \/ AcquireLock(s) \/ ResetProgress(s) \/ RedeemCode(s)
  \/ NextTarget(s) \/ PublishProgress(s) \/ ExportReport(s)
  \/ CompleteJob(s) \/ PublishCompleted(s) \/ ReleaseLock(s)

Next ==
  \/ \E j \in Jobs : HandlerStep(j)
  \/ \E s \in Servers : WorkerStep(s) \/ CrashRestart(s)
  \/ ExpireLock
  \/ ExpireStatus

Spec == Init /\ [][Next]_vars

\* Goroutines are scheduled and every call of the worker returns (RedeemForPlayer:
\* the game stops refusing at last); a blocked send is taken when there is room.
FairSpec ==
  /\ Spec
  /\ \A j \in Jobs : WF_vars(CreateJob(j)) /\ SF_vars(Enqueue(j))
  /\ \A s \in Servers : WF_vars(WorkerStep(s))

\* Redis drops its keys when their time is up.
FairExpirySpec == FairSpec /\ WF_vars(ExpireLock) /\ WF_vars(ExpireStatus)

-----------------------------------------------------------------------------
\* Safety

\* Of all processes sharing the Redis, at most one is between AcquireJobLock and
\* ReleaseJobLock (processJob), whatever crashes and whatever Redis calls fail, as
\* long as no job outlives the 24 h of its lock.
OneJobAtATime ==
  ~OverrunTTL => \A s, t \in Servers : Holding(s) /\ Holding(t) => s = t

\* While no report was cut short by a failed flush, a jobs row reads COMPLETED only when
\* its report holds an entry for every code of every target of the snapshot taken by
\* Redeem (processJob, ExportJobResults).
CompletedMeansReported ==
  \A j \in Jobs : (status[j] = "COMPLETED" /\ "report" \notin lostWrites) =>
                    report[j] = Entries(j)

\* Neither the jobs row nor the Redis key ever claims more targets than processJob
\* has gone through, even when some of the writes in between were lost.
ProgressNotAheadOfWork ==
  /\ \A s \in Servers : Holding(s) =>
       /\ processed[job[s]] <= count[s]
       /\ current.job = job[s] => current.processed <= count[s]
  /\ \A j \in Jobs : req[j] # "accepted" => processed[j] = 0 /\ current.job # j

\* While no write to the row was lost, the key the dashboard polls is never ahead of the
\* row the history page reads, and says COMPLETED (the "job finished" toast) only when
\* every target is in that row.
StatusNotAheadOfRow ==
  ("db" \notin lostWrites /\ current.job # NoJob) =>
     LET j == current.job IN
     /\ current.processed <= processed[j]
     /\ current.status = "COMPLETED" => processed[j] = total[j]

\* Requests are answered 409 for a job that a worker is really at: every way out of
\* processJob's loop, the one of a failed export too, takes the RUNNING off the key (Redeem,
\* processJob).  Asked while no server was lost and no call to Redis failed: those leave it
\* to the hour of the key.
ConflictMeansRunning ==
  (crashes = 0 /\ "redis" \notin lostWrites /\ current.status = "RUNNING") =>
     \E s \in Servers : Holding(s) /\ job[s] = current.job

\* A single server that has not crashed never drops a job, unless Redis has failed it: the
\* lock is always free again by the time the worker takes the next job.
NoJobDroppedInOneLife ==
  (crashes = 0 /\ "redis" \notin lostWrites /\ \A s, t \in Servers : s = t) =>
     \A j \in Jobs : fate[j] # "dropped"

\* processed_players never goes down: no job is run a second time over its row.
ProgressMonotone ==
  [][\A j \in Jobs : processed[j] <= processed'[j]]_vars

Running(j) == \E s \in Servers : Holding(s) /\ job[s] = j

\* The life of a job as JobLifecycle sees it.
Phase(j) ==
  IF req[j] \in {"new", "checked", "created"} THEN "requested"
  ELSE IF req[j] # "accepted" THEN "refused"
  ELSE IF fate[j] # "open" THEN fate[j]
  ELSE IF Running(j) THEN "running" ELSE "accepted"

Lifecycle == INSTANCE JobLifecycle WITH phase <- [j \in Jobs |-> Phase(j)]

\* The engine implements JobLifecycle: one answer per request, jobs one at a time,
\* no job started twice or after it was dropped.
ImplementsLifecycle == Lifecycle!LifecycleSpec

-----------------------------------------------------------------------------
\* The inductive invariant behind the theorems of RedeemEngineProofs

\* Only the process that took the request holds its job, accepted and open.
WorkerOK ==
  \A s \in Servers : pc[s] # "idle" =>
    LET j == job[s] IN
    j \in Jobs /\ server[j] = s /\ req[j] = "accepted" /\ fate[j] = "open"

\* Only a job that was queued can have been processed or dropped.
FateOK == \A j \in Jobs : req[j] # "accepted" => fate[j] = "open"

\* A queued job is held by nobody and is queued once, where its request came in.
QueueOK ==
  \A s \in Servers : \A i \in 1..Len(queue[s]) :
    LET j == queue[s][i] IN
    /\ server[j] = s /\ req[j] = "accepted" /\ fate[j] = "open"
    /\ pc[s] # "idle" => job[s] # j
    /\ \A k \in 1..Len(queue[s]) : queue[s][k] = j => k = i

\* Until its time is up the lock names the job of whoever is in the critical section.
LockOK == ~OverrunTTL => \A s \in Servers : Holding(s) => lock = job[s]

\* Where a worker stands in processJob's loops, and the entries it has collected.
LoopAt(s) ==
  LET j == job[s] IN
  /\ count[s] <= total[j] /\ tried[s] <= codes[j]
  /\ tried[s] > 0 => pc[s] = "redeem" /\ count[s] < total[j]
  /\ entries[s] = Indices(count[s], codes[j]) \cup ({count[s] + 1} \X (1..tried[s]))
  /\ pc[s] \in {"lock", "reset"} => count[s] = 0
  /\ pc[s] \in {"complete", "finish", "release"} => count[s] = total[j]
  /\ (pc[s] = "complete" /\ "report" \notin lostWrites) => report[j] = Entries(j)

LoopOK == \A s \in Servers : pc[s] # "idle" => LoopAt(s)

\* The workers, the queues and the lock, whatever has become of the progress records.
WorkInv ==
  /\ TypeOK
  /\ FateOK
  /\ WorkerOK
  /\ QueueOK
  /\ LockOK
  /\ LoopOK
  /\ CompletedMeansReported

\* A job that nobody has begun has left no trace; a worker's job has at most his own.
ProgressOK ==
  /\ \A s \in Servers : Holding(s) =>
       /\ processed[job[s]] <= count[s]
       /\ current.job = job[s] => current.processed <= count[s]
  /\ \A j \in Jobs : (fate[j] = "open" /\ ~Running(j)) => processed[j] = 0 /\ current.job # j

\* With no write to the row lost, the row is exactly as far as the worker at it.
RowExact ==
  "db" \notin lostWrites => \A s \in Servers : Holding(s) => processed[job[s]] = count[s]

\* With one server, no crash and no lost call to Redis, a lock that is taken is in use.
LockInUse ==
  (crashes = 0 /\ "redis" \notin lostWrites /\ \A s, t \in Servers : s = t) =>
     (lock # NoJob => \E s \in Servers : Holding(s))

RecordsInv ==
  /\ ProgressOK
  /\ RowExact
  /\ StatusNotAheadOfRow
  /\ LockInUse
  /\ NoJobDroppedInOneLife

IInv == WorkInv /\ RecordsInv

-----------------------------------------------------------------------------
\* Liveness

\* A job whose row exists gets into the queue, even when the queue is full, and its row
\* ends COMPLETED, unless its server is lost.  Asked of engines whose calls do not fail.
JobsComplete ==
  \A j \in Jobs : (status[j] = "PENDING") ~> (status[j] = "COMPLETED" \/ crashes > 0)

\* A crash cannot block redemption for ever: the lock a dead worker left behind goes.
LockEventuallyFree == []<>(lock = NoJob)

-----------------------------------------------------------------------------
\* What the repository's texts say and the code does not do

\* docs/gift_code_engine.mmd: a request checked while a job is running is answered 409.
SecondJobConflicts ==
  [][\A j \in Jobs : (req[j] = "new" /\ req'[j] = "checked") =>
       \A s \in Servers : ~Holding(s)]_vars

Outstanding(j) == req[j] = "accepted" /\ fate[j] = "open"

\* docs/gift_code_engine.mmd: an accepted job (200) ends with Mark Job COMPLETED.  Asked
\* only of jobs open in a server life that no crash ends.
AcceptedJobsComplete ==
  \A j \in Jobs : (Outstanding(j) /\ crashes = MaxCrashes) ~> (status[j] = "COMPLETED")
=============================================================================
