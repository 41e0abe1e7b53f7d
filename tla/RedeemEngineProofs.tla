-------------------------- MODULE RedeemEngineProofs --------------------------
(***************************************************************************)
(* Theorems of RedeemEngine: its type invariant, mutual exclusion of the   *)
(* jobs and the report behind every COMPLETED row, from the inductive      *)
(* invariant WorkInv.  One lemma shows that every step keeps one conjunct  *)
(* of WorkInv: a step for each action that can disturb it, and CASE        *)
(* UNCHANGED for the others.  RedeemRecordsProofs goes on from here.       *)
(***************************************************************************)
EXTENDS RedeemEngine, TLAPS

USE EngineAssumption
USE DEF requestVars, row, worker, stores, history

-----------------------------------------------------------------------------
\* Type correctness

\* What the types say of the locals of a worker that has a job.
LEMMA WorkingJob ==
  ASSUME RequestTypes, WorkerTypes, WorkerOK, NEW s \in Servers, pc[s] # "idle"
  PROVE  /\ job[s] \in Jobs
         /\ total[job[s]] \in 0..MaxTotal
         /\ codes[job[s]] \in 0..MaxCodes
         /\ count[s] \in 0..MaxTotal
         /\ tried[s] \in 0..MaxCodes
         /\ entries[s] \in SUBSET Indices(MaxTotal, MaxCodes)
  BY DEF RequestTypes, WorkerTypes, WorkerOK

\* The job a worker takes next is a job.
LEMMA HeadIsJob ==
  ASSUME QueueTypes, NEW s \in Servers, queue[s] # <<>>
  PROVE  /\ Head(queue[s]) \in Jobs
         /\ Head(queue[s]) = queue[s][1]
         /\ Tail(queue[s]) \in Seq(Jobs)
         /\ Len(queue[s]) \in Nat \ {0}
         /\ Len(Tail(queue[s])) = Len(queue[s]) - 1
         /\ \A i \in 1..Len(Tail(queue[s])) : Tail(queue[s])[i] = queue[s][i + 1]
  BY DEF QueueTypes

\* Every step keeps the types of the request variables, fate and crashes.
LEMMA RequestTypesStep ==
  ASSUME RequestTypes, WorkerTypes, WorkerOK, [Next]_vars
  PROVE  RequestTypes'
<1>1. ASSUME NEW j \in Jobs, HandlerStep(j)
      PROVE  RequestTypes'
  BY <1>1 DEF HandlerStep, CheckRunning, CreateJob, Enqueue, RequestTypes, HandlerStates
<1>2. ASSUME NEW s \in Servers, AcquireLock(s) \/ ReleaseLock(s)
      PROVE  RequestTypes'
  BY <1>2 DEF AcquireLock, ReleaseLock, Written, RequestTypes
<1>3. ASSUME NEW s \in Servers, CrashRestart(s)
      PROVE  RequestTypes'
  BY <1>3 DEF CrashRestart, RequestTypes, HandlerStates
<1>4. CASE UNCHANGED <<requestVars, fate, crashes>> /\ lostWrites' \subseteq lostWrites \cup Faults
  BY <1>4 DEF RequestTypes
<1>. QED
  BY <1>1, <1>2, <1>3, <1>4
     DEF Next, WorkerStep, Dequeue, ResetProgress, RedeemCode, NextTarget, PublishProgress,
         ExportReport, CompleteJob, PublishCompleted, ExpireLock, ExpireStatus,
         UpdateJobProgress, SetJobProgress, Written, vars

\* Every step keeps the type of the queues.
LEMMA QueueTypesStep ==
  ASSUME RequestTypes, QueueTypes, [Next]_vars
  PROVE  QueueTypes'
<1>1. ASSUME NEW j \in Jobs, Enqueue(j)
      PROVE  QueueTypes'
  <2>1. server[j] \in Servers
    BY DEF RequestTypes
  <2>2. Append(queue[server[j]], j) \in Seq(Jobs)
    BY <2>1 DEF QueueTypes
  <2>. QED
    BY <1>1, <2>1, <2>2 DEF Enqueue, QueueTypes
<1>2. ASSUME NEW s \in Servers, Dequeue(s)
      PROVE  QueueTypes'
  BY <1>2 DEF Dequeue, QueueTypes
<1>3. ASSUME NEW s \in Servers, CrashRestart(s)
      PROVE  QueueTypes'
  BY <1>3 DEF CrashRestart, QueueTypes
<1>4. CASE UNCHANGED queue
  BY <1>4 DEF QueueTypes
<1>. QED
  BY <1>1, <1>2, <1>3, <1>4
     DEF Next, HandlerStep, CheckRunning, CreateJob, WorkerStep, AcquireLock, ResetProgress,
         RedeemCode, NextTarget, PublishProgress, ExportReport, CompleteJob, PublishCompleted,
         ReleaseLock, ExpireLock, ExpireStatus, vars

\* Every step keeps the types of the workers' locals.
LEMMA WorkerTypesStep ==
  ASSUME RequestTypes, QueueTypes, WorkerTypes, WorkerOK, [Next]_vars
  PROVE  WorkerTypes'
<1>1. ASSUME NEW s \in Servers, Dequeue(s)
      PROVE  WorkerTypes'
  BY <1>1, HeadIsJob DEF Dequeue, Take, WorkerTypes
<1>2. ASSUME NEW s \in Servers, Idle(s)
      PROVE  WorkerTypes'
  BY <1>2 DEF Idle, Take, WorkerTypes
<1>3. ASSUME NEW s \in Servers, RedeemCode(s)
      PROVE  WorkerTypes'
  <2>1. count[s] + 1 \in 1..MaxTotal /\ tried[s] + 1 \in 1..MaxCodes
    BY <1>3, WorkingJob DEF RedeemCode
  <2>2. <<count[s] + 1, tried[s] + 1>> \in Indices(MaxTotal, MaxCodes)
    BY <2>1 DEF Indices
  <2>. QED
    BY <1>3, <2>1, <2>2 DEF RedeemCode, WorkerTypes
<1>4. ASSUME NEW s \in Servers, NextTarget(s)
      PROVE  WorkerTypes'
  <2>1. count[s] + 1 \in 1..MaxTotal
    BY <1>4, WorkingJob DEF NextTarget
  <2>. QED
    BY <1>4, <2>1 DEF NextTarget, Advance, WorkerTypes, InJob
<1>5. ASSUME NEW s \in Servers, NEW q \in InJob, GoTo(s, q)
      PROVE  WorkerTypes'
  BY <1>5 DEF GoTo, WorkerTypes
<1>6. CASE UNCHANGED worker
  BY <1>6 DEF WorkerTypes
<1>. QED
  BY <1>1, <1>2, <1>3, <1>4, <1>5, <1>6
     DEF Next, HandlerStep, CheckRunning, CreateJob, Enqueue, WorkerStep, AcquireLock,
         ResetProgress, PublishProgress, ExportReport, CompleteJob, PublishCompleted,
         ReleaseLock, CrashRestart, ExpireLock, ExpireStatus, InJob, vars

\* Every step keeps the types of the rows and the reports.
LEMMA RowTypesStep ==
  ASSUME RequestTypes, WorkerTypes, RowTypes, WorkerOK, [Next]_vars
  PROVE  RowTypes'
<1>1. ASSUME NEW j \in Jobs, NEW v \in {"PENDING", "COMPLETED"}, SetStatus(j, v),
             UNCHANGED report
      PROVE  RowTypes'
  BY <1>1 DEF SetStatus, RowTypes
<1>2. ASSUME NEW s \in Servers, ResetProgress(s)
      PROVE  RowTypes'
  BY <1>2 DEF ResetProgress, UpdateJobProgress, Written, RowTypes
<1>3. ASSUME NEW s \in Servers, NextTarget(s)
      PROVE  RowTypes'
  <2>1. count[s] + 1 \in 1..MaxTotal
    BY <1>3, WorkingJob DEF NextTarget
  <2>. QED
    BY <1>3, <2>1 DEF NextTarget, UpdateJobProgress, Written, RowTypes
<1>4. ASSUME NEW s \in Servers, ExportReport(s)
      PROVE  RowTypes'
  <2>1. entries[s] \in SUBSET Indices(MaxTotal, MaxCodes)
    BY DEF WorkerTypes
  <2>. QED
    BY <1>4, <2>1 DEF ExportReport, Written, RowTypes
<1>5. ASSUME NEW s \in Servers, CompleteJob(s)
      PROVE  RowTypes'
  BY <1>1, <1>5, WorkingJob DEF CompleteJob, Written, RowTypes
<1>6. CASE UNCHANGED <<row, report>>
  BY <1>6 DEF RowTypes
<1>. QED
  BY <1>1, <1>2, <1>3, <1>4, <1>5, <1>6
     DEF Next, HandlerStep, CheckRunning, CreateJob, Enqueue, WorkerStep, Dequeue, AcquireLock,
         RedeemCode, PublishProgress, PublishCompleted, ReleaseLock, CrashRestart, ExpireLock,
         ExpireStatus, vars

\* Every step keeps the types of the Redis keys.
LEMMA KeyTypesStep ==
  ASSUME RequestTypes, WorkerTypes, KeyTypes, WorkerOK, [Next]_vars
  PROVE  KeyTypes'
<1>1. ASSUME NEW s \in Servers, AcquireLock(s) \/ ReleaseLock(s)
      PROVE  KeyTypes'
  BY <1>1, WorkingJob DEF AcquireLock, ReleaseLock, Written, KeyTypes
<1>2. ASSUME NEW s \in Servers, PublishProgress(s) \/ PublishCompleted(s)
      PROVE  KeyTypes'
  <2>1. job[s] \in Jobs /\ count[s] \in 0..MaxTotal
    BY <1>2, WorkingJob DEF PublishProgress, PublishCompleted
  <2>. QED
    BY <1>2, <2>1 DEF PublishProgress, PublishCompleted, SetJobProgress, Written, KeyTypes
<1>3. CASE ExpireLock \/ ExpireStatus
  BY <1>3 DEF ExpireLock, ExpireStatus, NoStatus, KeyTypes
<1>4. CASE UNCHANGED <<lock, current>>
  BY <1>4 DEF KeyTypes
<1>. QED
  BY <1>1, <1>2, <1>3, <1>4
     DEF Next, HandlerStep, CheckRunning, CreateJob, Enqueue, WorkerStep, Dequeue,
         ResetProgress, RedeemCode, NextTarget, ExportReport, CompleteJob, CrashRestart, vars

-----------------------------------------------------------------------------
\* The job of a worker and the jobs in the queues

\* Two workers past the dequeue never have the same job.
LEMMA OwnJob ==
  ASSUME WorkerOK, NEW s \in Servers, NEW t \in Servers,
         pc[s] # "idle", pc[t] # "idle", job[s] = job[t]
  PROVE  s = t
  BY DEF WorkerOK

\* Every step keeps the jobs of the workers accepted, open and on their own server.
LEMMA WorkerStepOK ==
  ASSUME TypeOK, WorkerOK, QueueOK, [Next]_vars
  PROVE  WorkerOK'
<1>. USE DEF TypeOK
<1>1. ASSUME NEW j \in Jobs, HandlerStep(j)
      PROVE  WorkerOK'
  <2>1. req[j] # "accepted" /\ UNCHANGED <<server, pc, job, fate>>
    BY <1>1 DEF HandlerStep, CheckRunning, CreateJob, Enqueue
  <2>2. \A i \in Jobs \ {j} : req'[i] = req[i]
    BY <1>1 DEF HandlerStep, CheckRunning, CreateJob, Enqueue, RequestTypes
  <2>. QED
    BY <2>1, <2>2 DEF WorkerOK
<1>2. ASSUME NEW s \in Servers, Dequeue(s)
      PROVE  WorkerOK'
  <2>1. Head(queue[s]) = queue[s][1] /\ 1 \in 1..Len(queue[s])
    BY <1>2, HeadIsJob DEF Dequeue
  <2>2. /\ Head(queue[s]) \in Jobs
        /\ server[Head(queue[s])] = s
        /\ req[Head(queue[s])] = "accepted"
        /\ fate[Head(queue[s])] = "open"
    BY <1>2, <2>1, HeadIsJob DEF Dequeue, QueueOK
  <2>. QED
    BY <1>2, <2>2 DEF Dequeue, Take, WorkerOK, WorkerTypes
<1>3. ASSUME NEW s \in Servers, AcquireLock(s) \/ ReleaseLock(s)
      PROVE  WorkerOK'
  <2>1. pc[s] # "idle" /\ UNCHANGED requestVars
    BY <1>3 DEF AcquireLock, ReleaseLock
  <2>2. CASE GoTo(s, "reset") /\ UNCHANGED fate
    BY <2>1, <2>2 DEF GoTo, WorkerOK, WorkerTypes
  <2>3. CASE /\ Idle(s)
             /\ \A i \in Jobs \ {job[s]} : fate'[i] = fate[i]
    BY <2>1, <2>3, OwnJob DEF Idle, Take, WorkerOK, WorkerTypes
  <2>. QED
    BY <1>3, <2>2, <2>3 DEF AcquireLock, ReleaseLock, RequestTypes
<1>4. ASSUME NEW s \in Servers, CrashRestart(s)
      PROVE  WorkerOK'
  <2>1. \A t \in Servers \ {s} : pc'[t] = pc[t] /\ job'[t] = job[t]
    BY <1>4 DEF CrashRestart, Idle, Take, WorkerTypes
  <2>2. pc'[s] = "idle"
    BY <1>4 DEF CrashRestart, Idle, Take, WorkerTypes
  <2>3. \A i \in Jobs : server[i] # s => req'[i] = req[i] /\ fate'[i] = fate[i]
    BY <1>4 DEF CrashRestart, Held
  <2>. QED
    BY <1>4, <2>1, <2>2, <2>3 DEF CrashRestart, WorkerOK
<1>5. ASSUME NEW s \in Servers, pc[s] # "idle", UNCHANGED <<requestVars, job, fate>>,
             \A t \in Servers \ {s} : pc'[t] = pc[t]
      PROVE  WorkerOK'
  BY <1>5 DEF WorkerOK
<1>6. CASE UNCHANGED <<requestVars, pc, job, fate>>
  BY <1>6 DEF WorkerOK
<1>7. ASSUME NEW s \in Servers,
             \/ ResetProgress(s) \/ RedeemCode(s) \/ NextTarget(s) \/ PublishProgress(s)
             \/ ExportReport(s) \/ CompleteJob(s) \/ PublishCompleted(s)
      PROVE  WorkerOK'
  BY <1>5, <1>7
     DEF ResetProgress, RedeemCode, NextTarget, PublishProgress, ExportReport, CompleteJob,
         PublishCompleted, GoTo, Advance, WorkerTypes
<1>. QED
  BY <1>1, <1>2, <1>3, <1>4, <1>6, <1>7
     DEF Next, WorkerStep, ExpireLock, ExpireStatus, vars

\* Every step leaves a job open until it was queued.
LEMMA FateStepOK ==
  ASSUME RequestTypes, FateOK, WorkerOK, [Next]_vars
  PROVE  FateOK'
<1>1. ASSUME NEW j \in Jobs, HandlerStep(j)
      PROVE  FateOK'
  BY <1>1 DEF HandlerStep, CheckRunning, CreateJob, Enqueue, FateOK, RequestTypes
<1>2. ASSUME NEW s \in Servers, AcquireLock(s) \/ ReleaseLock(s)
      PROVE  FateOK'
  BY <1>2 DEF AcquireLock, ReleaseLock, FateOK, WorkerOK, RequestTypes
<1>3. ASSUME NEW s \in Servers, CrashRestart(s)
      PROVE  FateOK'
  BY <1>3 DEF CrashRestart, Held, Unanswered, FateOK
<1>4. CASE UNCHANGED <<req, fate>>
  BY <1>4 DEF FateOK
<1>. QED
  BY <1>1, <1>2, <1>3, <1>4
     DEF Next, WorkerStep, Dequeue, ResetProgress, RedeemCode, NextTarget, PublishProgress,
         ExportReport, CompleteJob, PublishCompleted, ExpireLock, ExpireStatus, vars

\* Every step keeps the queued jobs open, queued once and held by nobody.
LEMMA QueueStepOK ==
  ASSUME TypeOK, FateOK, WorkerOK, QueueOK, [Next]_vars
  PROVE  QueueOK'
<1>. USE DEF TypeOK
<1>1. ASSUME NEW j \in Jobs, Enqueue(j)
      PROVE  QueueOK'
  <2>. DEFINE s == server[j]
              q == queue[s]
  <2>1. s \in Servers /\ q \in Seq(Jobs) /\ fate[j] = "open"
    BY <1>1 DEF Enqueue, RequestTypes, QueueTypes, FateOK
  <2>2. /\ queue' = [queue EXCEPT ![s] = Append(q, j)]
        /\ UNCHANGED <<server, pc, job, fate>>
    BY <1>1 DEF Enqueue
  <2>3. \A i \in Jobs : req'[i] = "accepted" <=> (req[i] = "accepted" \/ i = j)
    BY <1>1 DEF Enqueue, RequestTypes
  <2>4. \A t \in Servers : /\ \A i \in 1..Len(queue[t]) : queue[t][i] \in Jobs \ {j}
                           /\ pc[t] # "idle" => job[t] # j
    BY <1>1 DEF Enqueue, QueueOK, QueueTypes, WorkerOK
  <2>5. /\ Len(Append(q, j)) = Len(q) + 1
        /\ \A i \in 1..Len(q) : Append(q, j)[i] = q[i]
        /\ Append(q, j)[Len(q) + 1] = j
    BY <2>1
  <2>. QED
    BY <2>1, <2>2, <2>3, <2>4, <2>5 DEF QueueOK, QueueTypes
<1>2. ASSUME NEW s \in Servers, Dequeue(s)
      PROVE  QueueOK'
  BY <1>2, HeadIsJob DEF Dequeue, Take, QueueOK, QueueTypes, WorkerTypes
<1>3. ASSUME NEW s \in Servers, AcquireLock(s) \/ ReleaseLock(s)
      PROVE  QueueOK'
  <2>1. /\ pc[s] # "idle"
        /\ UNCHANGED <<requestVars, queue>>
        /\ \A t \in Servers \ {s} : pc'[t] = pc[t] /\ job'[t] = job[t]
        /\ pc'[s] # "idle" => job'[s] = job[s]
        /\ \A i \in Jobs \ {job[s]} : fate'[i] = fate[i]
    BY <1>3 DEF AcquireLock, ReleaseLock, GoTo, Idle, Take, RequestTypes, WorkerTypes
  <2>2. \A t \in Servers : \A i \in 1..Len(queue[t]) : queue[t][i] \in Jobs \ {job[s]}
    BY <2>1 DEF QueueOK, QueueTypes, WorkerOK
  <2>. QED
    BY <2>1, <2>2 DEF QueueOK
<1>4. ASSUME NEW s \in Servers, CrashRestart(s)
      PROVE  QueueOK'
  <2>1. queue'[s] = <<>> /\ UNCHANGED server
    BY <1>4 DEF CrashRestart, QueueTypes
  <2>2. \A t \in Servers \ {s} : queue'[t] = queue[t] /\ pc'[t] = pc[t] /\ job'[t] = job[t]
    BY <1>4 DEF CrashRestart, Idle, Take, QueueTypes, WorkerTypes
  <2>3. \A i \in Jobs : server[i] # s => req'[i] = req[i] /\ fate'[i] = fate[i]
    BY <1>4 DEF CrashRestart, Held
  <2>4. \A t \in Servers : \A i \in 1..Len(queue[t]) : queue[t][i] \in Jobs
    BY DEF QueueTypes
  <2>. QED
    BY <2>1, <2>2, <2>3, <2>4 DEF QueueOK
<1>5. ASSUME NEW s \in Servers, pc[s] # "idle", UNCHANGED <<requestVars, queue, job, fate>>,
             \A t \in Servers \ {s} : pc'[t] = pc[t]
      PROVE  QueueOK'
  BY <1>5 DEF QueueOK
<1>6. CASE UNCHANGED <<req, server, queue, pc, job, fate>>
  BY <1>6 DEF QueueOK
<1>7. ASSUME NEW j \in Jobs, CheckRunning(j) \/ CreateJob(j)
      PROVE  QueueOK'
  <2>1. \A t \in Servers : \A i \in 1..Len(queue[t]) : queue[t][i] # j
    BY <1>7 DEF CheckRunning, CreateJob, QueueOK
  <2>2. \A t \in Servers : \A i \in 1..Len(queue[t]) : queue[t][i] \in Jobs
    BY DEF QueueTypes
  <2>. QED
    BY <1>7, <2>1, <2>2 DEF CheckRunning, CreateJob, QueueOK, RequestTypes
<1>8. ASSUME NEW s \in Servers,
             \/ ResetProgress(s) \/ RedeemCode(s) \/ NextTarget(s) \/ PublishProgress(s)
             \/ ExportReport(s) \/ CompleteJob(s) \/ PublishCompleted(s)
      PROVE  QueueOK'
  BY <1>5, <1>8
     DEF ResetProgress, RedeemCode, NextTarget, PublishProgress, ExportReport, CompleteJob,
         PublishCompleted, GoTo, Advance, WorkerTypes
<1>. QED
  BY <1>1, <1>2, <1>3, <1>4, <1>6, <1>7, <1>8
     DEF Next, HandlerStep, WorkerStep, ExpireLock, ExpireStatus, vars

-----------------------------------------------------------------------------
\* Mutual exclusion

\* Every step keeps the lock named after the job of whoever is in the critical section.
LEMMA LockStepOK ==
  ASSUME TypeOK, WorkerOK, LockOK, [Next]_vars
  PROVE  LockOK'
<1>. SUFFICES ASSUME ~OverrunTTL
              PROVE  LockOK'
  BY DEF LockOK
<1>. USE DEF TypeOK
<1>0. \A s \in Servers : Holding(s) => lock = job[s] /\ lock \in Jobs
  BY DEF LockOK, Holding, InJob, WorkerOK
<1>1. ASSUME NEW s \in Servers, AcquireLock(s)
      PROVE  LockOK'
  <2>1. \A t \in Servers : ~Holding(t) \/ lock # NoJob
    BY <1>0
  <2>. QED
    BY <1>0, <1>1 DEF AcquireLock, GoTo, Idle, Take, LockOK, Holding, InJob, WorkerTypes
<1>2. ASSUME NEW s \in Servers, ReleaseLock(s)
      PROVE  LockOK'
  <2>1. \A t \in Servers : Holding(t) => t = s
    BY <1>0, <1>2, OwnJob DEF ReleaseLock, Holding, InJob
  <2>. QED
    BY <1>2, <2>1 DEF ReleaseLock, Idle, Take, LockOK, Holding, InJob, WorkerTypes
<1>3. ASSUME NEW s \in Servers, Dequeue(s) \/ CrashRestart(s)
      PROVE  LockOK'
  BY <1>3 DEF Dequeue, CrashRestart, Idle, Take, LockOK, Holding, InJob, WorkerTypes
<1>4. CASE ExpireLock
  BY <1>4 DEF ExpireLock, LockOK, Holding
<1>5. ASSUME NEW s \in Servers, Holding(s), UNCHANGED <<job, lock>>,
             \A t \in Servers \ {s} : pc'[t] = pc[t]
      PROVE  LockOK'
  BY <1>5 DEF LockOK, Holding
<1>6. ASSUME NEW s \in Servers,
             \/ ResetProgress(s) \/ RedeemCode(s) \/ NextTarget(s) \/ PublishProgress(s)
             \/ ExportReport(s) \/ CompleteJob(s) \/ PublishCompleted(s)
      PROVE  LockOK'
  BY <1>5, <1>6
     DEF ResetProgress, RedeemCode, NextTarget, PublishProgress, ExportReport, CompleteJob,
         PublishCompleted, GoTo, Advance, Holding, InJob, WorkerTypes
<1>7. CASE UNCHANGED <<pc, job, lock>>
  BY <1>7 DEF LockOK, Holding
<1>8. ASSUME NEW j \in Jobs, HandlerStep(j)
      PROVE  LockOK'
  BY <1>7, <1>8 DEF HandlerStep, CheckRunning, CreateJob, Enqueue
<1>9. CASE ExpireStatus \/ UNCHANGED vars
  BY <1>7, <1>9 DEF ExpireStatus, vars
<1>. QED
  BY <1>1, <1>2, <1>3, <1>4, <1>6, <1>8, <1>9 DEF Next, WorkerStep

-----------------------------------------------------------------------------
\* processJob's loops and the report

\* What the entries of a report become when a code, and when a target, is done.
LEMMA EntriesGrow ==
  ASSUME NEW n \in Nat, NEW m \in Nat, NEW k \in Nat
  PROVE  /\ (Indices(n, m) \cup ({n + 1} \X (1..k))) \cup {<<n + 1, k + 1>>}
              = Indices(n, m) \cup ({n + 1} \X (1..(k + 1)))
         /\ Indices(n, m) \cup ({n + 1} \X (1..m))
              = Indices(n + 1, m) \cup ({n + 1 + 1} \X (1..0))
         /\ Indices(n, m) \cup ({n + 1} \X (1..0)) = Indices(n, m)
         /\ Indices(0, m) \cup ({0 + 1} \X (1..0)) = {}
<1>1. 1..0 = {} /\ 1..(k + 1) = (1..k) \cup {k + 1} /\ 1..(n + 1) = (1..n) \cup {n + 1}
  OBVIOUS
<1>. QED
  BY <1>1 DEF Indices

\* The worker exports its report with an entry for every code of every target.
LEMMA FullEntries ==
  ASSUME RequestTypes, WorkerTypes, WorkerOK, LoopOK, NEW s \in Servers, ExportReport(s)
  PROVE  tried[s] = 0 /\ entries[s] = Entries(job[s])
<1>. DEFINE j == job[s]
            n == count[s]
<1>1. n \in Nat /\ tried[s] \in Nat /\ codes[j] \in Nat /\ n = total[j]
  BY WorkingJob DEF ExportReport
<1>2. tried[s] = 0
  BY <1>1 DEF ExportReport, LoopOK, LoopAt
<1>3. entries[s] = Indices(n, codes[j]) \cup ({n + 1} \X (1..0))
  BY <1>2 DEF ExportReport, LoopOK, LoopAt
<1>4. entries[s] = Indices(n, codes[j])
  BY <1>1, <1>3, EntriesGrow
<1>. QED
  BY <1>1, <1>2, <1>4 DEF Entries

\* No step takes back that a write was lost.
LEMMA LostStaysLost ==
  ASSUME [Next]_vars
  PROVE  lostWrites \subseteq lostWrites'
<1>1. ASSUME NEW s \in Servers, WorkerStep(s)
      PROVE  lostWrites \subseteq lostWrites'
  BY <1>1 DEF WorkerStep, Dequeue, AcquireLock, ResetProgress, RedeemCode, NextTarget,
              PublishProgress, ExportReport, CompleteJob, PublishCompleted, ReleaseLock,
              UpdateJobProgress, SetJobProgress, Written, history
<1>2. CASE UNCHANGED lostWrites
  BY <1>2
<1>. QED
  BY <1>1, <1>2
     DEF Next, HandlerStep, CheckRunning, CreateJob, Enqueue, CrashRestart, ExpireLock,
         ExpireStatus, history, vars

\* A step that touches neither the locals of t, nor its job's size, nor its job's report
\* leaves t where it was.
LEMMA LoopFrame ==
  ASSUME NEW t \in Servers, LoopAt(t), UNCHANGED <<total, codes>>,
         UNCHANGED <<pc[t], job[t], count[t], tried[t], entries[t]>>,
         pc[t] = "complete" => UNCHANGED report[job[t]],
         lostWrites \subseteq lostWrites'
  PROVE  LoopAt(t)'
  BY DEF LoopAt, Entries, Indices

\* Every step keeps the locals of processJob where its loops can be.
LEMMA LoopStepOK ==
  ASSUME TypeOK, WorkerOK, LoopOK, [Next]_vars
  PROVE  LoopOK'
<1>. USE DEF TypeOK
<1>0. lostWrites \subseteq lostWrites'
  BY LostStaysLost
<1>1. ASSUME NEW s \in Servers, WorkerStep(s), NEW t \in Servers \ {s}, pc'[t] # "idle"
      PROVE  LoopAt(t)'
  <2>1. UNCHANGED <<pc[t], job[t], count[t], tried[t], entries[t], total, codes>>
    BY <1>1 DEF WorkerStep, Dequeue, AcquireLock, ResetProgress, RedeemCode, NextTarget,
                PublishProgress, ExportReport, CompleteJob, PublishCompleted, ReleaseLock,
                GoTo, Take, Idle, Advance, WorkerTypes
  <2>2. report'[job[t]] = report[job[t]]
    <3>1. CASE ExportReport(s)
      <4>1. job[s] # job[t]
        BY <1>1, <2>1, <3>1, OwnJob DEF ExportReport
      <4>. QED
        BY <1>1, <2>1, <3>1, <4>1 DEF ExportReport, Written, RowTypes, WorkerOK
    <3>2. CASE UNCHANGED report
      BY <3>2
    <3>. QED
      BY <1>1, <3>1, <3>2
         DEF WorkerStep, Dequeue, AcquireLock, ResetProgress, RedeemCode, NextTarget,
             PublishProgress, CompleteJob, PublishCompleted, ReleaseLock
  <2>. QED
    BY <1>0, <1>1, <2>1, <2>2, LoopFrame DEF LoopOK
<1>2. ASSUME NEW s \in Servers, WorkerStep(s), pc'[s] # "idle"
      PROVE  LoopAt(s)'
  <2>1. CASE Dequeue(s)
    <3>. DEFINE j == Head(queue[s])
    <3>1. j \in Jobs
      BY <2>1, HeadIsJob DEF Dequeue
    <3>2. total[j] \in Nat /\ codes[j] \in Nat
      BY <3>1 DEF RequestTypes
    <3>3. Indices(0, codes[j]) \cup ({0 + 1} \X (1..0)) = {}
      BY <3>2, EntriesGrow
    <3>4. /\ pc'[s] = "lock" /\ job'[s] = j /\ count'[s] = 0 /\ tried'[s] = 0
          /\ entries'[s] = {} /\ UNCHANGED <<total, codes>>
      BY <2>1 DEF Dequeue, Take, WorkerTypes
    <3>. QED
      BY <3>2, <3>3, <3>4 DEF LoopAt, Indices
  <2>2. CASE AcquireLock(s)
    BY <1>2, <2>2 DEF AcquireLock, GoTo, Idle, Take, LoopOK, LoopAt, WorkerTypes
  <2>3. CASE ResetProgress(s) \/ PublishProgress(s)
    BY <2>3 DEF ResetProgress, PublishProgress, GoTo, LoopOK, LoopAt, WorkerTypes
  <2>4. CASE RedeemCode(s)
    <3>. DEFINE j == job[s]
                n == count[s]
                k == tried[s]
    <3>1. n \in Nat /\ k \in Nat /\ total[j] \in Nat /\ codes[j] \in Nat
      BY <2>4, WorkingJob DEF RedeemCode
    <3>2. /\ pc[s] = "redeem" /\ n < total[j] /\ k < codes[j]
          /\ tried'[s] = k + 1 /\ entries'[s] = entries[s] \cup {<<n + 1, k + 1>>}
          /\ UNCHANGED <<pc, job, count, total, codes>>
      BY <2>4 DEF RedeemCode, WorkerTypes
    <3>3. entries[s] = Indices(n, codes[j]) \cup ({n + 1} \X (1..k))
      BY <3>2 DEF LoopOK, LoopAt
    <3>4. entries'[s] = Indices(n, codes[j]) \cup ({n + 1} \X (1..(k + 1)))
      <4>. HIDE DEF j, n, k
      <4>1. (Indices(n, codes[j]) \cup ({n + 1} \X (1..k))) \cup {<<n + 1, k + 1>>}
              = Indices(n, codes[j]) \cup ({n + 1} \X (1..(k + 1)))
        BY <3>1, EntriesGrow
      <4>. QED
        BY <3>2, <3>3, <4>1
    <3>. QED
      BY <3>1, <3>2, <3>4 DEF LoopAt, Indices
  <2>5. CASE NextTarget(s)
    <3>. DEFINE j == job[s]
                n == count[s]
    <3>1. n \in Nat /\ total[j] \in Nat /\ codes[j] \in Nat
      BY <2>5, WorkingJob DEF NextTarget
    <3>2. /\ pc[s] = "redeem" /\ n < total[j] /\ tried[s] = codes[j]
          /\ pc'[s] = "publish" /\ count'[s] = n + 1 /\ tried'[s] = 0
          /\ UNCHANGED <<job, entries, total, codes>>
      BY <2>5 DEF NextTarget, Advance, WorkerTypes
    <3>3. entries[s] = Indices(n, codes[j]) \cup ({n + 1} \X (1..codes[j]))
      BY <3>2 DEF LoopOK, LoopAt
    <3>4. entries'[s] = Indices(n + 1, codes[j]) \cup ({n + 1 + 1} \X (1..0))
      BY <3>1, <3>2, <3>3, EntriesGrow
    <3>. QED
      BY <3>1, <3>2, <3>4 DEF LoopAt, Indices
  <2>6. CASE ExportReport(s)
    <3>1. job[s] \in Jobs
      BY <2>6, WorkingJob DEF ExportReport
    <3>2. tried[s] = 0 /\ entries[s] = Entries(job[s])
      BY <2>6, FullEntries
    <3>. QED
      BY <2>6, <3>1, <3>2
         DEF ExportReport, Written, GoTo, LoopOK, LoopAt, Entries, WorkerTypes, RowTypes
  <2>7. CASE CompleteJob(s) \/ PublishCompleted(s)
    BY <2>7 DEF CompleteJob, PublishCompleted, GoTo, LoopOK, LoopAt, WorkerTypes
  <2>8. CASE ReleaseLock(s)
    BY <1>2, <2>8 DEF ReleaseLock, Idle, Take, WorkerTypes
  <2>. QED
    BY <1>2, <2>1, <2>2, <2>3, <2>4, <2>5, <2>6, <2>7, <2>8 DEF WorkerStep
<1>3. ASSUME NEW s \in Servers, CrashRestart(s), NEW t \in Servers, pc'[t] # "idle"
      PROVE  LoopAt(t)'
  <2>1. t # s /\ UNCHANGED <<pc[t], job[t], count[t], tried[t], entries[t], total, codes, report>>
    BY <1>3 DEF CrashRestart, Idle, Take, WorkerTypes
  <2>. QED
    BY <1>0, <1>3, <2>1, LoopFrame DEF LoopOK
<1>4. CASE UNCHANGED <<worker, total, codes, report>>
  BY <1>0, <1>4, LoopFrame DEF LoopOK
<1>. QED
  BY <1>1, <1>2, <1>3, <1>4
     DEF Next, HandlerStep, CheckRunning, CreateJob, Enqueue, ExpireLock, ExpireStatus, LoopOK, vars

\* Every step keeps a full report behind a COMPLETED row.
LEMMA ReportStepOK ==
  ASSUME TypeOK, WorkerOK, LoopOK, CompletedMeansReported, [Next]_vars
  PROVE  CompletedMeansReported'
<1>. USE DEF TypeOK
<1>0. lostWrites \subseteq lostWrites'
  BY LostStaysLost
<1>1. ASSUME NEW j \in Jobs, CreateJob(j)
      PROVE  CompletedMeansReported'
  BY <1>0, <1>1 DEF CreateJob, SetStatus, CompletedMeansReported, Entries, Indices, RowTypes
<1>2. ASSUME NEW s \in Servers, ExportReport(s)
      PROVE  CompletedMeansReported'
  <2>1. job[s] \in Jobs
    BY <1>2, WorkingJob DEF ExportReport
  <2>2. entries[s] = Entries(job[s])
    BY <1>2, FullEntries
  <2>. QED
    BY <1>2, <2>1, <2>2
       DEF ExportReport, Written, CompletedMeansReported, Entries, Indices, RowTypes
<1>3. ASSUME NEW s \in Servers, CompleteJob(s)
      PROVE  CompletedMeansReported'
  <2>1. "report" \notin lostWrites => report[job[s]] = Entries(job[s])
    BY <1>3 DEF CompleteJob, LoopOK, LoopAt
  <2>. QED
    BY <1>0, <1>3, <2>1 DEF CompleteJob, SetStatus, Written, CompletedMeansReported, Entries, Indices, RowTypes
<1>4. CASE UNCHANGED <<status, report, total, codes>>
  BY <1>0, <1>4 DEF CompletedMeansReported, Entries, Indices
<1>. QED
  BY <1>1, <1>2, <1>3, <1>4
     DEF Next, HandlerStep, CheckRunning, Enqueue, WorkerStep, Dequeue, AcquireLock,
         ResetProgress, UpdateJobProgress, RedeemCode, NextTarget, PublishProgress,
         PublishCompleted, ReleaseLock, CrashRestart, ExpireLock, ExpireStatus, vars

-----------------------------------------------------------------------------
\* The inductive invariant and the theorems

\* WorkInv holds initially and is kept by every step of the engine.
THEOREM WorkInductive == Spec => []WorkInv
<1>1. Init => WorkInv
  BY DEF Init, WorkInv, TypeOK, RequestTypes, QueueTypes, WorkerTypes, RowTypes, KeyTypes, NoStatus,
         HandlerStates, FateOK, WorkerOK, QueueOK, LockOK, Holding, InJob, LoopOK,
         CompletedMeansReported
<1>2. WorkInv /\ [Next]_vars => WorkInv'
  BY RequestTypesStep, QueueTypesStep, WorkerTypesStep, RowTypesStep, KeyTypesStep, FateStepOK,
     WorkerStepOK, QueueStepOK, LockStepOK, LoopStepOK, ReportStepOK DEF WorkInv, TypeOK
<1>. QED
  BY <1>1, <1>2, PTL DEF Spec

\* Every variable of the engine keeps its type; no progress count passes its bound.
THEOREM TypeCorrect == Spec => []TypeOK
<1>1. WorkInv => TypeOK
  BY DEF WorkInv
<1>. QED
  BY <1>1, WorkInductive, PTL

\* At most one process at a time is between AcquireJobLock and ReleaseJobLock in
\* processJob, for any number of processes, requests, crashes and failed Redis calls.
THEOREM MutualExclusion == Spec => []OneJobAtATime
<1>1. WorkInv => OneJobAtATime
  <2>. SUFFICES ASSUME WorkInv, ~OverrunTTL, NEW s \in Servers, NEW t \in Servers,
                       Holding(s), Holding(t)
                PROVE  s = t
    BY DEF OneJobAtATime
  <2>1. pc[s] # "idle" /\ pc[t] # "idle" /\ job[s] = job[t]
    BY DEF WorkInv, LockOK, Holding, InJob
  <2>. QED
    BY <2>1, OwnJob DEF WorkInv
<1>. QED
  BY <1>1, WorkInductive, PTL

\* A jobs row marked COMPLETED has a report with every code of every target, whatever
\* crashes, whichever writes are lost and even when a job outlives its lock.
THEOREM CompletedReported == Spec => []CompletedMeansReported
<1>1. WorkInv => CompletedMeansReported
  BY DEF WorkInv
<1>. QED
  BY <1>1, WorkInductive, PTL

-----------------------------------------------------------------------------
\* The engine implements JobLifecycle

\* A step after which every job has the same phase is a stuttering step of JobLifecycle.
LEMMA PhasesKept ==
  ASSUME \A j \in Jobs : Phase(j)' = Phase(j)
  PROVE  UNCHANGED [j \in Jobs |-> Phase(j)]
  OBVIOUS

\* A step that gives one job a new phase is a step of JobLifecycle that does so.
LEMMA PhaseBecomes ==
  ASSUME NEW i \in Jobs, NEW p, Phase(i)' = p, \A j \in Jobs \ {i} : Phase(j)' = Phase(j)
  PROVE  Lifecycle!Becomes(i, p)
  BY DEF Lifecycle!Becomes

\* A step that moves handlers or workers without changing what Phase looks at.
LEMMA SamePhases ==
  ASSUME UNCHANGED <<req, fate, job>>, \A s \in Servers : Holding(s)' = Holding(s)
  PROVE  \A j \in Jobs : Phase(j)' = Phase(j)
  BY DEF Phase, Running

\* Every step of a handler answers its request or is invisible to JobLifecycle.
LEMMA HandlerStepImplements ==
  ASSUME TypeOK, FateOK, WorkerOK, NEW i \in Jobs, HandlerStep(i)
  PROVE  [Lifecycle!LifecycleNext]_[j \in Jobs |-> Phase(j)]
<1>1. /\ req[i] \in {"new", "checked", "created"}
      /\ req'[i] \in HandlerStates
      /\ req' = [req EXCEPT ![i] = req'[i]]
      /\ UNCHANGED <<fate, pc, job>>
  BY DEF HandlerStep, CheckRunning, CreateJob, Enqueue, TypeOK, RequestTypes, HandlerStates
<1>2. \A j \in Jobs \ {i} : Phase(j)' = Phase(j)
  BY <1>1 DEF Phase, Running, Holding, TypeOK, RequestTypes
<1>3. Phase(i) = "requested"
  BY <1>1 DEF Phase
<1>4. ~Running(i)' /\ fate'[i] = "open"
  BY <1>1 DEF Running, Holding, InJob, WorkerOK, FateOK
<1>5. Phase(i)' \in {"requested", "refused", "accepted"}
  BY <1>4 DEF Phase
<1>6. CASE Phase(i)' = "requested"
  BY <1>2, <1>3, <1>6, PhasesKept
<1>7. CASE Phase(i)' \in {"refused", "accepted"}
  <2>1. Lifecycle!Answer(i)
    BY <1>2, <1>3, <1>7, PhaseBecomes DEF Lifecycle!Answer
  <2>. QED
    BY <2>1 DEF Lifecycle!LifecycleNext
<1>. QED
  BY <1>5, <1>6, <1>7

\* Every step of a worker starts, finishes or drops its job or is invisible.
LEMMA WorkerStepImplements ==
  ASSUME WorkInv, ~OverrunTTL, NEW s \in Servers, WorkerStep(s)
  PROVE  [Lifecycle!LifecycleNext]_[j \in Jobs |-> Phase(j)]
<1>. USE DEF WorkInv, TypeOK
<1>0. PICK i : i = job[s]
  OBVIOUS
<1>1. ASSUME pc[s] # "idle"
      PROVE  /\ i \in Jobs /\ req[i] = "accepted" /\ fate[i] = "open"
             /\ \A t \in Servers : pc[t] # "idle" /\ job[t] = i => t = s
  BY <1>0, <1>1, OwnJob DEF WorkerOK
<1>2. CASE Dequeue(s)
  BY <1>2, PhasesKept DEF Dequeue, Take, Phase, Running, Holding, InJob, WorkerTypes
<1>3. CASE AcquireLock(s) /\ GoTo(s, "reset")
  <2>1. lock = NoJob /\ pc[s] = "lock" /\ UNCHANGED <<req, fate, job>>
    BY <1>3 DEF AcquireLock, GoTo, Idle, Take, WorkerTypes
  <2>2. \A t \in Servers : ~Holding(t)
    BY <2>1 DEF LockOK, WorkerOK, Holding, InJob
  <2>3. pc' = [pc EXCEPT ![s] = "reset"]
    BY <1>3 DEF GoTo
  <2>4. \A j \in Jobs : ~Running(j) /\ (Running(j)' <=> j = i)
    BY <1>0, <2>1, <2>2, <2>3 DEF Running, Holding, InJob, WorkerTypes
  <2>5. Phase(i) = "accepted" /\ Phase(i)' = "running"
    BY <1>1, <2>1, <2>4 DEF Phase
  <2>6. \A j \in Jobs \ {i} : Phase(j)' = Phase(j)
    BY <2>1, <2>4 DEF Phase
  <2>7. \A j \in Jobs : Phase(j) # "running"
    BY <2>4 DEF Phase, RequestTypes
  <2>8. Lifecycle!Start(i)
    BY <1>1, <2>1, <2>5, <2>6, <2>7, PhaseBecomes DEF Lifecycle!Start
  <2>. QED
    BY <1>1, <2>1, <2>8 DEF Lifecycle!LifecycleNext
<1>4. CASE AcquireLock(s) /\ Idle(s)
  <2>1. /\ pc[s] = "lock" /\ UNCHANGED req /\ fate' = [fate EXCEPT ![i] = "dropped"]
        /\ pc' = [pc EXCEPT ![s] = "idle"] /\ job' = [job EXCEPT ![s] = NoJob]
    BY <1>0, <1>4 DEF AcquireLock, GoTo, Idle, Take, WorkerTypes
  <2>2. \A j \in Jobs : Running(j)' <=> Running(j)
    BY <2>1 DEF Running, Holding, InJob, WorkerTypes
  <2>3. ~Running(i)
    BY <1>1, <2>1 DEF Running, Holding, InJob
  <2>4. Phase(i) = "accepted" /\ Phase(i)' = "dropped"
    <3>1. i \in Jobs /\ req[i] = "accepted" /\ fate[i] = "open"
      BY <1>1, <2>1
    <3>2. req'[i] = "accepted" /\ fate'[i] = "dropped"
      BY <2>1, <3>1 DEF RequestTypes
    <3>. QED
      BY <2>3, <3>1, <3>2 DEF Phase
  <2>5. \A j \in Jobs \ {i} : Phase(j)' = Phase(j)
    BY <1>1, <2>1, <2>2 DEF Phase, RequestTypes
  <2>6. Lifecycle!Lose({i})
    <3>1. i \in Jobs
      BY <1>1, <2>1
    <3>. QED
      BY <2>4, <2>5, <3>1 DEF Lifecycle!Lose
  <2>. QED
    BY <1>1, <2>1, <2>6 DEF Lifecycle!LifecycleNext
<1>5. CASE ReleaseLock(s)
  <2>1. /\ pc[s] = "release" /\ UNCHANGED req /\ fate' = [fate EXCEPT ![i] = "processed"]
        /\ pc' = [pc EXCEPT ![s] = "idle"] /\ job' = [job EXCEPT ![s] = NoJob]
    BY <1>0, <1>5 DEF ReleaseLock, Idle, Take
  <2>2. \A j \in Jobs \ {i} : Running(j)' <=> Running(j)
    BY <1>0, <2>1 DEF Running, Holding, InJob, WorkerTypes
  <2>3. Running(i)
    BY <1>0, <2>1 DEF Running, Holding, InJob
  <2>4. i \in Jobs /\ Phase(i) = "running" /\ Phase(i)' = "processed"
    <3>1. i \in Jobs /\ req[i] = "accepted" /\ fate[i] = "open"
      BY <1>1, <2>1
    <3>2. req'[i] = "accepted" /\ fate'[i] = "processed"
      BY <2>1, <3>1 DEF RequestTypes
    <3>. QED
      BY <2>3, <3>1, <3>2 DEF Phase
  <2>5. \A j \in Jobs \ {i} : Phase(j)' = Phase(j)
    BY <1>1, <2>1, <2>2 DEF Phase, RequestTypes
  <2>6. Lifecycle!Finish(i)
    BY <2>4, <2>5, PhaseBecomes DEF Lifecycle!Finish
  <2>. QED
    BY <2>4, <2>6 DEF Lifecycle!LifecycleNext
<1>6. CASE \/ ResetProgress(s) \/ RedeemCode(s) \/ NextTarget(s) \/ PublishProgress(s)
           \/ ExportReport(s) \/ CompleteJob(s) \/ PublishCompleted(s)
  <2>1. UNCHANGED <<req, fate, job>> /\ \A t \in Servers : Holding(t)' = Holding(t)
    BY <1>6 DEF ResetProgress, RedeemCode, NextTarget, PublishProgress, ExportReport,
                CompleteJob, PublishCompleted, GoTo, Advance, Holding, InJob, WorkerTypes
  <2>. QED
    BY <2>1, SamePhases, PhasesKept
<1>7. AcquireLock(s) => GoTo(s, "reset") \/ Idle(s)
  BY DEF AcquireLock
<1>. QED
  BY <1>2, <1>3, <1>4, <1>5, <1>6, <1>7 DEF WorkerStep

\* Losing a server loses exactly its unanswered requests and the jobs it holds.
LEMMA CrashImplements ==
  ASSUME WorkInv, NEW s \in Servers, CrashRestart(s)
  PROVE  [Lifecycle!LifecycleNext]_[j \in Jobs |-> Phase(j)]
<1>. USE DEF WorkInv, TypeOK
<1>. DEFINE S == {j \in Jobs : server[j] = s /\ (Unanswered(j) \/ j \in Held(s))}
<1>1. /\ \A j \in Jobs \ S : req'[j] = req[j] /\ fate'[j] = fate[j]
      /\ \A j \in S : Unanswered(j) => req'[j] = "lost" /\ req[j] # "accepted"
      /\ \A j \in S : ~Unanswered(j) => /\ req[j] = "accepted" /\ fate[j] = "open"
                                        /\ req'[j] = "accepted" /\ fate'[j] = "dropped"
  BY DEF CrashRestart, Unanswered, Held
<1>2. \A j \in Jobs \ S : req[j] = "accepted" /\ fate[j] = "open" => (Running(j)' <=> Running(j))
  <2>1. \A j \in Jobs \ S : req[j] = "accepted" /\ fate[j] = "open" => server[j] # s
    BY DEF Held
  <2>2. \A t \in Servers : Holding(t) => server[job[t]] = t
    BY DEF WorkerOK, Holding, InJob
  <2>3. /\ \A t \in Servers \ {s} : pc'[t] = pc[t] /\ job'[t] = job[t]
        /\ pc'[s] = "idle"
    BY DEF CrashRestart, Idle, Take, WorkerTypes
  <2>. QED
    BY <2>1, <2>2, <2>3 DEF Running, Holding, InJob
<1>3. \A j \in Jobs \ S : Phase(j)' = Phase(j)
  BY <1>1, <1>2 DEF Phase
<1>4. \A j \in S : Unanswered(j) => Phase(j) = "requested" /\ Phase(j)' = "refused"
  BY <1>1 DEF Phase, Unanswered
<1>5. \A j \in S : ~Unanswered(j) => Phase(j) \in {"accepted", "running"} /\ Phase(j)' = "dropped"
  BY <1>1 DEF Phase
<1>6. Lifecycle!Lose(S)
  BY <1>3, <1>4, <1>5 DEF Lifecycle!Lose
<1>. QED
  BY <1>6 DEF Lifecycle!LifecycleNext

\* The engine implements JobLifecycle as long as no job outlives its lock: every request
\* is answered once, jobs run one at a time and none is run again or after it was dropped.
THEOREM Refinement ==
  ASSUME ~OverrunTTL
  PROVE  Spec => ImplementsLifecycle
<1>1. Init => Lifecycle!LifecycleInit
  BY DEF Init, Lifecycle!LifecycleInit, Phase
<1>2. WorkInv /\ [Next]_vars => [Lifecycle!LifecycleNext]_[j \in Jobs |-> Phase(j)]
  <2>. SUFFICES ASSUME WorkInv, [Next]_vars
                PROVE  [Lifecycle!LifecycleNext]_[j \in Jobs |-> Phase(j)]
    OBVIOUS
  <2>1. CASE ExpireLock \/ ExpireStatus \/ UNCHANGED vars
    BY <2>1, SamePhases, PhasesKept DEF ExpireLock, ExpireStatus, Holding, vars
  <2>. QED
    BY <2>1, HandlerStepImplements, WorkerStepImplements, CrashImplements DEF Next, WorkInv
<1>. QED
  BY <1>1, <1>2, WorkInductive, PTL DEF Spec, ImplementsLifecycle, Lifecycle!LifecycleSpec

=============================================================================
