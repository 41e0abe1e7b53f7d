-------------------------- MODULE RedeemRecordsProofs --------------------------
(***************************************************************************)
(* What the records of a job's progress tell of the work, proved on top of *)
(* RedeemEngineProofs: the row and the Redis key never run ahead of the    *)
(* worker, the key never runs ahead of the row, no progress is taken back, *)
(* and a server that has had no crash drops no job.                        *)
(***************************************************************************)
EXTENDS RedeemEngineProofs

USE EngineAssumption
USE DEF requestVars, row, worker, stores, history

-----------------------------------------------------------------------------
\* What a step does to the records

\* The steps of a worker within processJob; its job and who holds what stay the same.
LoopStep(s) ==
  \/ ResetProgress(s) \/ RedeemCode(s) \/ NextTarget(s) \/ PublishProgress(s)
  \/ ExportReport(s) \/ CompleteJob(s) \/ PublishCompleted(s)

\* A worker in processJob: his job, and where he is in it.
LEMMA AtWork ==
  ASSUME WorkInv, NEW s \in Servers, Holding(s)
  PROVE  /\ pc[s] # "idle" /\ job[s] \in Jobs /\ job[s] # NoJob
         /\ count[s] \in Nat /\ processed[job[s]] \in Nat /\ total[job[s]] \in Nat
         /\ fate[job[s]] = "open" /\ Running(job[s])
         /\ \A t \in Servers : Holding(t) /\ job[t] = job[s] => t = s
<1>. USE DEF WorkInv, TypeOK
<1>1. pc[s] # "idle"
  BY DEF Holding, InJob
<1>2. job[s] \in Jobs /\ fate[job[s]] = "open"
  BY <1>1 DEF WorkerOK
<1>3. count[s] \in Nat /\ total[job[s]] \in Nat
  BY <1>1, WorkingJob
<1>4. processed[job[s]] \in Nat
  BY <1>2 DEF RowTypes
<1>5. \A t \in Servers : Holding(t) /\ job[t] = job[s] => t = s
  BY <1>1, OwnJob DEF Holding, InJob
<1>. QED
  BY <1>1, <1>2, <1>3, <1>4, <1>5 DEF Running

\* A step within processJob changes neither who holds a job nor what has become of it.
LEMMA LoopStepFrame ==
  ASSUME WorkInv, NEW s \in Servers, LoopStep(s)
  PROVE  /\ Holding(s) /\ UNCHANGED <<job, fate, req, total, lock, crashes>>
         /\ \A t \in Servers : Holding(t)' = Holding(t)
         /\ \A t \in Servers \ {s} : count'[t] = count[t]
         /\ \A j \in Jobs : Running(j)' = Running(j)
<1>1. /\ Holding(s) /\ UNCHANGED <<job, fate, req, total, lock, crashes>>
      /\ \A t \in Servers : Holding(t)' = Holding(t)
      /\ \A t \in Servers \ {s} : count'[t] = count[t]
  BY DEF LoopStep, ResetProgress, RedeemCode, NextTarget, PublishProgress, ExportReport,
         CompleteJob, PublishCompleted, GoTo, Advance, Holding, InJob, WorkInv, TypeOK, WorkerTypes
<1>. QED
  BY <1>1 DEF Running

\* What it does to the records: at most one of the two, and of its own job.
LEMMA LoopStepRecords ==
  ASSUME WorkInv, NEW s \in Servers, LoopStep(s)
  PROVE  \/ /\ UNCHANGED <<processed, current>> /\ count'[s] = count[s]
         \/ /\ UNCHANGED current /\ count'[s] = count[s] /\ count[s] = 0
            /\ \/ processed' = [processed EXCEPT ![job[s]] = 0]
               \/ UNCHANGED processed /\ "db" \in lostWrites'
         \/ /\ UNCHANGED current /\ count'[s] = count[s] + 1
            /\ count[s] < total[job[s]]
            /\ \/ processed' = [processed EXCEPT ![job[s]] = count[s] + 1]
               \/ UNCHANGED processed /\ "db" \in lostWrites'
         \/ /\ UNCHANGED processed /\ count'[s] = count[s]
            /\ \E v \in {"RUNNING", "COMPLETED"} :
                 /\ current' = [job |-> job[s], processed |-> count[s], status |-> v]
                 /\ v = "COMPLETED" => count[s] = total[job[s]]
<1>. USE DEF WorkInv, TypeOK
<1>1. CASE ResetProgress(s)
  <2>1. pc[s] = "reset" /\ count[s] = 0
    BY <1>1 DEF ResetProgress, LoopOK, LoopAt
  <2>. QED
    BY <1>1, <2>1 DEF ResetProgress, UpdateJobProgress, Written, GoTo
<1>2. CASE NextTarget(s)
  BY <1>2 DEF NextTarget, UpdateJobProgress, Written, Advance, WorkerTypes
<1>3. CASE PublishProgress(s)
  BY <1>3 DEF PublishProgress, SetJobProgress, Written, GoTo
<1>4. CASE PublishCompleted(s)
  <2>1. count[s] = total[job[s]] /\ pc[s] = "finish"
    BY <1>4 DEF PublishCompleted, LoopOK, LoopAt
  <2>. QED
    BY <1>4, <2>1 DEF PublishCompleted, SetJobProgress, Written, GoTo
<1>5. CASE RedeemCode(s)
  BY <1>5 DEF RedeemCode
<1>6. CASE ExportReport(s)
  BY <1>6 DEF ExportReport, GoTo
<1>7. CASE CompleteJob(s)
  BY <1>7 DEF CompleteJob, SetStatus, Written, GoTo
<1>. QED
  BY <1>1, <1>2, <1>3, <1>4, <1>5, <1>6, <1>7 DEF LoopStep

\* The steps that give a worker a job, take it from him, or crash him; and the handlers'.
\* None writes a progress record.
LEMMA OtherStepRecords ==
  ASSUME [Next]_vars, ~\E s \in Servers : LoopStep(s), ~ExpireStatus
  PROVE  UNCHANGED <<processed, current>>
  BY DEF LoopStep, Next, HandlerStep, CheckRunning, CreateJob, SetStatus, Enqueue, WorkerStep,
         Dequeue, AcquireLock, ReleaseLock, CrashRestart, ExpireLock, vars

-----------------------------------------------------------------------------
\* Progress never runs ahead of the work

LEMMA ProgressStepOK ==
  ASSUME WorkInv, ProgressOK, [Next]_vars
  PROVE  ProgressOK'
<1>. USE DEF WorkInv, TypeOK
<1>1. ASSUME NEW s \in Servers, LoopStep(s)
      PROVE  ProgressOK'
  <2>. DEFINE j == job[s]
  <2>1. /\ Holding(s) /\ UNCHANGED <<job, fate>>
        /\ \A t \in Servers : Holding(t)' = Holding(t)
        /\ \A t \in Servers \ {s} : count'[t] = count[t]
        /\ \A i \in Jobs : Running(i)' = Running(i)
    BY <1>1, LoopStepFrame
  <2>2. /\ j \in Jobs /\ j # NoJob /\ Running(j) /\ count[s] \in Nat /\ processed[j] \in Nat
        /\ \A t \in Servers : Holding(t) /\ job[t] = j => t = s
    BY <2>1, AtWork
  <2>3. processed[j] <= count[s] /\ (current.job = j => current.processed <= count[s])
    BY <2>1 DEF ProgressOK
  <2>4. \A i \in Jobs \ {j} : processed'[i] = processed[i]
    BY <1>1, <2>2, LoopStepRecords DEF RowTypes
  <2>5. current'.job # j => current' = current
    BY <1>1, LoopStepRecords
  <2>6. processed'[j] <= count'[s] /\ (current'.job = j => current'.processed <= count'[s])
    BY <1>1, <2>2, <2>3, LoopStepRecords DEF RowTypes, KeyTypes
  <2>7. \A t \in Servers : Holding(t)' =>
          /\ processed'[job'[t]] <= count'[t]
          /\ current'.job = job'[t] => current'.processed <= count'[t]
    <3>. SUFFICES ASSUME NEW t \in Servers \ {s}, Holding(t)
                  PROVE  /\ processed'[job[t]] <= count[t]
                         /\ current'.job = job[t] => current'.processed <= count[t]
      BY <2>1, <2>6
    <3>1. job[t] \in Jobs \ {j}
      BY <2>2, AtWork
    <3>. QED
      BY <2>4, <2>5, <3>1 DEF ProgressOK
  <2>8. \A i \in Jobs : (fate'[i] = "open" /\ ~Running(i)') => processed'[i] = 0 /\ current'.job # i
    BY <2>1, <2>2, <2>4, <2>5 DEF ProgressOK
  <2>. QED
    BY <2>7, <2>8 DEF ProgressOK
<1>2. ASSUME NEW s \in Servers, Dequeue(s)
      PROVE  ProgressOK'
  <2>1. \A t \in Servers : /\ Holding(t)' = Holding(t)
                           /\ Holding(t) => job'[t] = job[t] /\ count'[t] = count[t]
    BY <1>2 DEF Dequeue, Take, Holding, InJob, WorkerTypes
  <2>2. UNCHANGED <<processed, current, fate>>
    BY <1>2 DEF Dequeue
  <2>3. \A i \in Jobs : Running(i)' = Running(i)
    BY <2>1 DEF Running
  <2>. QED
    BY <2>1, <2>2, <2>3 DEF ProgressOK
<1>3. ASSUME NEW s \in Servers, AcquireLock(s), GoTo(s, "reset")
      PROVE  ProgressOK'
  <2>1. pc[s] = "lock" /\ UNCHANGED <<job, count, processed, current>> /\ fate' = fate
    BY <1>3 DEF AcquireLock, GoTo, Idle, Take, WorkerTypes
  <2>2. \A t \in Servers : Holding(t)' <=> Holding(t) \/ t = s
    BY <1>3, <2>1 DEF GoTo, Holding, InJob, WorkerTypes
  <2>3. job[s] \in Jobs /\ fate[job[s]] = "open" /\ ~Running(job[s]) /\ count[s] = 0
    BY <2>1, OwnJob DEF WorkerOK, Running, Holding, InJob, LoopOK, LoopAt
  <2>4. \A i \in Jobs : Running(i) => Running(i)'
    BY <2>1, <2>2 DEF Running
  <2>. QED
    BY <2>1, <2>2, <2>3, <2>4 DEF ProgressOK
<1>4. ASSUME NEW s \in Servers, AcquireLock(s) \/ ReleaseLock(s), Idle(s)
      PROVE  ProgressOK'
  <2>1. UNCHANGED <<processed, current>> /\ pc[s] # "idle" /\ fate'[job[s]] # "open"
        /\ \A i \in Jobs : fate'[i] = "open" => fate[i] = "open" /\ i # job[s]
    <3>1. pc[s] # "idle"
      BY <1>4 DEF AcquireLock, ReleaseLock
    <3>2. job[s] \in Jobs
      BY <3>1 DEF WorkerOK
    <3>. QED
      BY <1>4, <3>1, <3>2 DEF AcquireLock, ReleaseLock, GoTo, Idle, Take, WorkerTypes, RequestTypes
  <2>2. \A t \in Servers : /\ Holding(t)' <=> Holding(t) /\ t # s
                           /\ t # s => job'[t] = job[t] /\ count'[t] = count[t]
    BY <1>4 DEF Idle, Take, Holding, InJob, WorkerTypes
  <2>3. \A i \in Jobs : i # job[s] => (Running(i)' <=> Running(i))
    BY <2>2 DEF Running
  <2>. QED
    BY <2>1, <2>2, <2>3 DEF ProgressOK
<1>5. ASSUME NEW s \in Servers, CrashRestart(s)
      PROVE  ProgressOK'
  <2>1. UNCHANGED <<processed, current>>
    BY <1>5 DEF CrashRestart
  <2>2. \A t \in Servers : /\ Holding(t)' <=> Holding(t) /\ t # s
                           /\ t # s => job'[t] = job[t] /\ count'[t] = count[t]
    BY <1>5 DEF CrashRestart, Idle, Take, Holding, InJob, WorkerTypes
  <2>3. \A i \in Jobs : fate'[i] = "open" => fate[i] = "open" /\ (Holding(s) => i # job[s])
    BY <1>5 DEF CrashRestart, Held, WorkerOK, Holding, InJob
  <2>4. \A i \in Jobs : fate'[i] = "open" /\ Running(i) => Running(i)'
    BY <2>2, <2>3 DEF Running
  <2>. QED
    BY <2>1, <2>2, <2>3, <2>4 DEF ProgressOK
<1>6. CASE ExpireStatus
  <2>1. UNCHANGED <<processed, worker, fate>> /\ current' = NoStatus
    BY <1>6 DEF ExpireStatus
  <2>2. \A s \in Servers : Holding(s)' = Holding(s) /\ (Holding(s) => job[s] # NoJob)
    BY <2>1, AtWork DEF Holding
  <2>. QED
    BY <2>1, <2>2 DEF ProgressOK, Running, NoStatus
<1>7. CASE UNCHANGED <<processed, current, fate, worker>>
  BY <1>7 DEF ProgressOK, Running, Holding
<1>8. ASSUME NEW s \in Servers, AcquireLock(s) \/ ReleaseLock(s)
      PROVE  ProgressOK'
  <2>1. ReleaseLock(s) => Idle(s)
    BY DEF ReleaseLock
  <2>2. AcquireLock(s) => GoTo(s, "reset") \/ Idle(s)
    BY DEF AcquireLock
  <2>. QED
    BY <1>3, <1>4, <1>8, <2>1, <2>2
<1>9. (\E j \in Jobs : HandlerStep(j)) \/ ExpireLock \/ UNCHANGED vars => ProgressOK'
  BY <1>7 DEF HandlerStep, CheckRunning, CreateJob, SetStatus, Enqueue, ExpireLock, vars
<1>. QED
  BY <1>1, <1>2, <1>5, <1>6, <1>8, <1>9 DEF Next, WorkerStep, LoopStep

-----------------------------------------------------------------------------
\* The row and the key agree

\* A step that gives nobody a job leaves fewer at work, each with the job and count he had.
LEMMA FewerAtWork ==
  ASSUME WorkInv, NEW s \in Servers,
         Dequeue(s) \/ (AcquireLock(s) /\ Idle(s)) \/ ReleaseLock(s) \/ CrashRestart(s)
  PROVE  \A t \in Servers : Holding(t)' =>
           Holding(t) /\ job'[t] = job[t] /\ count'[t] = count[t]
  BY DEF Dequeue, ReleaseLock, CrashRestart, Idle, Take, Holding, InJob, WorkInv, TypeOK,
         WorkerTypes

\* A worker enters processJob with an untouched row, and no target done.
LEMMA BeginsUntouched ==
  ASSUME WorkInv, ProgressOK, NEW s \in Servers, AcquireLock(s), GoTo(s, "reset")
  PROVE  /\ UNCHANGED <<job, count, processed>> /\ processed[job[s]] = 0 /\ count[s] = 0
         /\ \A t \in Servers : Holding(t)' <=> Holding(t) \/ t = s
<1>. USE DEF WorkInv, TypeOK
<1>1. pc[s] = "lock" /\ UNCHANGED <<job, count, processed>>
  BY DEF AcquireLock, GoTo, Idle, Take, WorkerTypes
<1>2. job[s] \in Jobs /\ fate[job[s]] = "open" /\ ~Running(job[s]) /\ count[s] = 0
  BY <1>1, OwnJob DEF WorkerOK, Running, Holding, InJob, LoopOK, LoopAt
<1>3. \A t \in Servers : Holding(t)' <=> Holding(t) \/ t = s
  BY <1>1 DEF GoTo, Holding, InJob, WorkerTypes
<1>. QED
  BY <1>1, <1>2, <1>3 DEF ProgressOK

\* As long as no write to the row is lost, it says how far its worker is.
LEMMA RowExactStepOK ==
  ASSUME WorkInv, ProgressOK, RowExact, [Next]_vars
  PROVE  RowExact'
<1>. SUFFICES ASSUME "db" \notin lostWrites', NEW t \in Servers, Holding(t)'
              PROVE  processed'[job'[t]] = count'[t]
  BY DEF RowExact
<1>1. \A s \in Servers : Holding(s) => processed[job[s]] = count[s]
  BY LostStaysLost DEF RowExact
<1>2. ASSUME NEW s \in Servers, LoopStep(s)
      PROVE  processed'[job'[t]] = count'[t]
  <2>1. /\ Holding(s) /\ Holding(t) /\ UNCHANGED job
        /\ \A r \in Servers \ {s} : count'[r] = count[r]
    BY <1>2, LoopStepFrame
  <2>2. /\ job[s] \in Jobs /\ job[t] \in Jobs /\ count[s] \in Nat
        /\ job[t] = job[s] => t = s
    BY <2>1, AtWork
  <2>3. CASE t = s
    BY <1>1, <1>2, <2>1, <2>2, <2>3, LoopStepRecords DEF WorkInv, TypeOK, RowTypes
  <2>4. CASE t # s
    <3>1. processed'[job[t]] = processed[job[t]]
      BY <1>2, <2>2, <2>4, LoopStepRecords DEF WorkInv, TypeOK, RowTypes
    <3>. QED
      BY <1>1, <2>1, <2>4, <3>1
  <2>. QED
    BY <2>3, <2>4
<1>3. ASSUME NEW s \in Servers, AcquireLock(s), GoTo(s, "reset")
      PROVE  processed'[job'[t]] = count'[t]
  BY <1>1, <1>3, BeginsUntouched
<1>4. ASSUME NEW s \in Servers,
             Dequeue(s) \/ (AcquireLock(s) /\ Idle(s)) \/ ReleaseLock(s) \/ CrashRestart(s)
      PROVE  processed'[job'[t]] = count'[t]
  <2>1. UNCHANGED processed
    BY <1>4 DEF Dequeue, AcquireLock, ReleaseLock, CrashRestart
  <2>. QED
    BY <1>1, <1>4, <2>1, FewerAtWork
<1>5. CASE UNCHANGED <<processed, worker>>
  BY <1>1, <1>5 DEF Holding
<1>6. \A s \in Servers : AcquireLock(s) => GoTo(s, "reset") \/ Idle(s)
  BY DEF AcquireLock
<1>7. (\E j \in Jobs : HandlerStep(j)) \/ ExpireLock \/ ExpireStatus \/ UNCHANGED vars
        => UNCHANGED <<processed, worker>>
  BY DEF HandlerStep, CheckRunning, CreateJob, SetStatus, Enqueue, ExpireLock, ExpireStatus, vars
<1>. QED
  BY <1>2, <1>3, <1>4, <1>5, <1>6, <1>7 DEF Next, WorkerStep, LoopStep

\* The size of a job is settled by its request.
LEMMA SizesStay ==
  ASSUME [Next]_vars
  PROVE  UNCHANGED <<server, total, codes>>
  BY DEF Next, HandlerStep, CheckRunning, CreateJob, Enqueue, WorkerStep, Dequeue, AcquireLock,
         ResetProgress, RedeemCode, NextTarget, PublishProgress, ExportReport, CompleteJob,
         PublishCompleted, ReleaseLock, CrashRestart, ExpireLock, ExpireStatus, vars

\* The key follows the row: what it says is in the row already.
LEMMA StatusStepOK ==
  ASSUME WorkInv, ProgressOK, RowExact, StatusNotAheadOfRow, [Next]_vars
  PROVE  StatusNotAheadOfRow'
<1>. SUFFICES ASSUME "db" \notin lostWrites', current'.job # NoJob, NEW j, j = current'.job
              PROVE  /\ current'.processed <= processed'[j]
                     /\ current'.status = "COMPLETED" => processed'[j] = total'[j]
  BY DEF StatusNotAheadOfRow
<1>. USE DEF WorkInv, TypeOK
<1>1. "db" \notin lostWrites /\ UNCHANGED total
  BY LostStaysLost, SizesStay
<1>2. ASSUME NEW s \in Servers, LoopStep(s)
      PROVE  /\ current'.processed <= processed'[j]
             /\ current'.status = "COMPLETED" => processed'[j] = total'[j]
  <2>1. /\ Holding(s) /\ job[s] \in Jobs /\ count[s] \in Nat
        /\ total[job[s]] \in Nat /\ processed[job[s]] = count[s]
    BY <1>1, <1>2, AtWork, LoopStepFrame DEF RowExact
  <2>2. CASE UNCHANGED <<processed, current>>
    BY <1>1, <2>2 DEF StatusNotAheadOfRow
  <2>3. CASE UNCHANGED current /\ processed' = [processed EXCEPT ![job[s]] = 0] /\ count[s] = 0
    <3>1. processed' = processed
      BY <2>1, <2>3 DEF RowTypes
    <3>. QED
      BY <1>1, <2>3, <3>1 DEF StatusNotAheadOfRow
  <2>4. CASE /\ UNCHANGED current /\ count[s] < total[job[s]]
             /\ processed' = [processed EXCEPT ![job[s]] = count[s] + 1]
    <3>1. j # job[s] => processed'[j] = processed[j]
      BY <2>4 DEF RowTypes
    <3>2. processed'[job[s]] = count[s] + 1
      BY <2>1, <2>4 DEF RowTypes
    <3>3. current.processed \in Nat
      BY DEF KeyTypes
    <3>4. current.processed <= processed[j] /\ (current.status = "COMPLETED" => processed[j] = total[j])
      BY <1>1, <2>4 DEF StatusNotAheadOfRow
    <3>. QED
      BY <1>1, <2>1, <2>4, <3>1, <3>2, <3>3, <3>4
  <2>5. ASSUME NEW v \in {"RUNNING", "COMPLETED"}, UNCHANGED processed,
               current' = [job |-> job[s], processed |-> count[s], status |-> v],
               v = "COMPLETED" => count[s] = total[job[s]]
        PROVE  /\ current'.processed <= processed'[j]
               /\ current'.status = "COMPLETED" => processed'[j] = total'[j]
    BY <1>1, <2>1, <2>5
  <2>. QED
    BY <1>2, <2>2, <2>3, <2>4, <2>5, LoopStepRecords
<1>3. CASE ExpireStatus
  BY <1>3 DEF ExpireStatus, NoStatus
<1>4. CASE UNCHANGED <<processed, current>>
  BY <1>1, <1>4 DEF StatusNotAheadOfRow
<1>. QED
  BY <1>2, <1>3, <1>4, OtherStepRecords

-----------------------------------------------------------------------------
\* One server in one life

\* A server alone, without a crash and with every call to Redis answered.
OneLife == crashes = 0 /\ "redis" \notin lostWrites /\ \A s, t \in Servers : s = t

\* Nothing undoes a crash or a lost write.
LEMMA OneLifeBefore ==
  ASSUME RequestTypes, [Next]_vars, OneLife'
  PROVE  OneLife /\ ~\E s \in Servers : CrashRestart(s)
<1>1. crashes' = crashes \/ crashes' = crashes + 1
  BY DEF Next, HandlerStep, CheckRunning, CreateJob, Enqueue, WorkerStep, Dequeue, AcquireLock,
         ResetProgress, RedeemCode, NextTarget, PublishProgress, ExportReport, CompleteJob,
         PublishCompleted, ReleaseLock, CrashRestart, ExpireLock, ExpireStatus, vars
<1>2. \A s \in Servers : CrashRestart(s) => crashes' = crashes + 1
  BY DEF CrashRestart
<1>3. crashes \in Nat
  BY DEF RequestTypes
<1>. QED
  BY <1>1, <1>2, <1>3, LostStaysLost DEF OneLife

\* Who finds the lock taken, alone, would have to hold it himself.
LEMMA LockStaysInUse ==
  ASSUME WorkInv, LockInUse, [Next]_vars, OneLife'
  PROVE  /\ lock' # NoJob => \E s \in Servers : Holding(s)'
         /\ \A s \in Servers : AcquireLock(s) => GoTo(s, "reset")
<1>. USE DEF WorkInv, TypeOK
<1>0. /\ lock # NoJob => \E s \in Servers : Holding(s)
      /\ \A s, t \in Servers : s = t
      /\ "redis" \notin lostWrites' /\ ~\E s \in Servers : CrashRestart(s)
  BY OneLifeBefore DEF LockInUse, OneLife
<1>1. ASSUME NEW s \in Servers, AcquireLock(s)
      PROVE  GoTo(s, "reset") /\ Holding(s)'
  <2>1. pc[s] = "lock"
    BY <1>1 DEF AcquireLock
  <2>2. ~\E t \in Servers : Holding(t)
    BY <1>0, <2>1 DEF Holding, InJob
  <2>3. GoTo(s, "reset")
    BY <1>0, <1>1, <2>2 DEF AcquireLock
  <2>. QED
    BY <2>3 DEF GoTo, Holding, InJob, WorkerTypes
<1>2. ASSUME NEW s \in Servers, LoopStep(s)
      PROVE  lock' # NoJob => \E t \in Servers : Holding(t)'
  BY <1>0, <1>2, LoopStepFrame
<1>3. ASSUME NEW s \in Servers, Dequeue(s)
      PROVE  lock' # NoJob => \E t \in Servers : Holding(t)'
  BY <1>0, <1>3 DEF Dequeue, Take, Holding, InJob, WorkerTypes
<1>4. ASSUME NEW s \in Servers, ReleaseLock(s)
      PROVE  lock' = NoJob
  BY <1>0, <1>4 DEF ReleaseLock, Written
<1>5. CASE ExpireLock
  BY <1>1, <1>5 DEF ExpireLock
<1>6. CASE UNCHANGED <<lock, worker>>
  BY <1>0, <1>1, <1>6 DEF Holding
<1>7. (\E j \in Jobs : HandlerStep(j)) \/ ExpireStatus \/ UNCHANGED vars
        => UNCHANGED <<lock, worker>>
  BY DEF HandlerStep, CheckRunning, CreateJob, SetStatus, Enqueue, ExpireStatus, vars
<1>. QED
  BY <1>0, <1>1, <1>2, <1>3, <1>4, <1>5, <1>6, <1>7 DEF Next, WorkerStep, LoopStep

\* The lock is in use or free, so the one worker there is always gets it.
LEMMA OneLifeStepOK ==
  ASSUME WorkInv, LockInUse, NoJobDroppedInOneLife, [Next]_vars
  PROVE  LockInUse' /\ NoJobDroppedInOneLife'
<1>1. LockInUse'
  BY LockStaysInUse DEF LockInUse, OneLife
<1>2. NoJobDroppedInOneLife'
  <2>. SUFFICES ASSUME OneLife', NEW j \in Jobs
                PROVE  fate'[j] # "dropped"
    BY DEF NoJobDroppedInOneLife, OneLife
  <2>1. fate[j] # "dropped" /\ ~\E s \in Servers : CrashRestart(s)
    BY OneLifeBefore DEF NoJobDroppedInOneLife, OneLife, WorkInv, TypeOK
  <2>2. ASSUME NEW s \in Servers, AcquireLock(s)
        PROVE  fate' = fate
    <3>1. GoTo(s, "reset") /\ pc[s] = "lock"
      BY <2>2, LockStaysInUse DEF AcquireLock
    <3>. QED
      BY <2>2, <3>1 DEF AcquireLock, GoTo, Idle, Take, WorkInv, TypeOK, WorkerTypes
  <2>3. ASSUME NEW s \in Servers, ReleaseLock(s)
        PROVE  fate'[j] # "dropped"
    BY <2>1, <2>3 DEF ReleaseLock, WorkInv, TypeOK, RequestTypes
  <2>. QED
    BY <2>1, <2>2, <2>3
       DEF Next, HandlerStep, CheckRunning, CreateJob, Enqueue, WorkerStep, Dequeue,
           ResetProgress, RedeemCode, NextTarget, PublishProgress, ExportReport, CompleteJob,
           PublishCompleted, ExpireLock, ExpireStatus, vars
<1>. QED
  BY <1>1, <1>2

-----------------------------------------------------------------------------
\* A 409 means a job at work

Telling(s) == pc[s] \in {"redeem", "publish", "complete", "finish"}

\* While nothing crashed and Redis did not fail, whoever has written RUNNING has not come past
\* the place where he writes COMPLETED.
RunningHeld ==
  (crashes = 0 /\ "redis" \notin lostWrites /\ current.status = "RUNNING") =>
     \E s \in Servers : Telling(s) /\ job[s] = current.job

LEMMA RunningHeldStepOK ==
  ASSUME WorkInv, RunningHeld, [Next]_vars
  PROVE  RunningHeld'
<1>. SUFFICES ASSUME crashes' = 0, "redis" \notin lostWrites', current'.status = "RUNNING"
              PROVE  \E t \in Servers : Telling(t)' /\ job'[t] = current'.job
  BY DEF RunningHeld
<1>. USE DEF WorkInv, TypeOK
<1>0. "redis" \notin lostWrites
  BY LostStaysLost
<1>1. ~\E s \in Servers : CrashRestart(s)
  BY DEF CrashRestart, RequestTypes
<1>2. crashes = 0
  BY <1>1 DEF Next, HandlerStep, CheckRunning, CreateJob, Enqueue, WorkerStep, Dequeue,
         AcquireLock, ResetProgress, RedeemCode, NextTarget, PublishProgress, ExportReport,
         CompleteJob, PublishCompleted, ReleaseLock, ExpireLock, ExpireStatus, vars
<1>3. ASSUME NEW s \in Servers, PublishProgress(s)
      PROVE  \E t \in Servers : Telling(t)' /\ job'[t] = current'.job
  <2>1. current'.job = job[s] /\ job' = job /\ pc' = [pc EXCEPT ![s] = "redeem"]
    BY <1>3 DEF PublishProgress, SetJobProgress, Written, GoTo
  <2>. QED
    BY <2>1 DEF Telling, WorkerTypes
<1>4. ASSUME NEW s \in Servers, PublishCompleted(s)
      PROVE  FALSE
  BY <1>4 DEF PublishCompleted, SetJobProgress, Written
<1>5. ASSUME current' = current, NEW s \in Servers,
             \A t \in Servers \ {s} : pc'[t] = pc[t] /\ job'[t] = job[t],
             Telling(s) => Telling(s)' /\ job'[s] = job[s]
      PROVE  \E t \in Servers : Telling(t)' /\ job'[t] = current'.job
  <2>1. PICK t \in Servers : Telling(t) /\ job[t] = current.job
    BY <1>0, <1>2, <1>5 DEF RunningHeld
  <2>. QED
    BY <1>5, <2>1 DEF Telling
<1>6. ASSUME NEW s \in Servers,
             \/ Dequeue(s) \/ AcquireLock(s) \/ ResetProgress(s) \/ RedeemCode(s)
             \/ NextTarget(s) \/ ExportReport(s) \/ CompleteJob(s) \/ ReleaseLock(s)
      PROVE  \E t \in Servers : Telling(t)' /\ job'[t] = current'.job
  <2>1. current' = current
    BY <1>6 DEF Dequeue, AcquireLock, ResetProgress, RedeemCode, NextTarget, ExportReport,
         CompleteJob, ReleaseLock
  <2>2. \A t \in Servers \ {s} : pc'[t] = pc[t] /\ job'[t] = job[t]
    BY <1>6 DEF Dequeue, AcquireLock, ResetProgress, RedeemCode, NextTarget, ExportReport,
         CompleteJob, ReleaseLock, GoTo, Advance, Idle, Take, WorkerTypes
  <2>3. Telling(s) => Telling(s)' /\ job'[s] = job[s]
    BY <1>6 DEF Dequeue, AcquireLock, ResetProgress, RedeemCode, NextTarget, ExportReport,
         CompleteJob, ReleaseLock, GoTo, Advance, Telling, WorkerTypes
  <2>. QED
    BY <1>5, <2>1, <2>2, <2>3
<1>7. ASSUME UNCHANGED <<worker, current>>
      PROVE  \E t \in Servers : Telling(t)' /\ job'[t] = current'.job
  BY <1>0, <1>2, <1>7 DEF RunningHeld, Telling
<1>8. (\E j \in Jobs : HandlerStep(j)) \/ ExpireLock \/ UNCHANGED vars
        => UNCHANGED <<worker, current>>
  BY DEF HandlerStep, CheckRunning, CreateJob, SetStatus, Enqueue, ExpireLock, vars
<1>9. ~ExpireStatus
  BY DEF ExpireStatus, NoStatus
<1>. QED
  BY <1>1, <1>3, <1>4, <1>6, <1>7, <1>8, <1>9 DEF Next, WorkerStep

-----------------------------------------------------------------------------
\* The theorems

\* IInv holds initially and is kept by every step of the engine.
THEOREM Inductive == Spec => []IInv
<1>1. Init => RecordsInv
  BY DEF Init, RecordsInv, ProgressOK, RowExact, StatusNotAheadOfRow, LockInUse,
         NoJobDroppedInOneLife, NoStatus, Holding, InJob
<1>2. WorkInv /\ RecordsInv /\ [Next]_vars => RecordsInv'
  BY ProgressStepOK, RowExactStepOK, StatusStepOK, OneLifeStepOK DEF RecordsInv
<1>3. WorkInv /\ RecordsInv => IInv
  BY DEF IInv
<1>. QED
  BY <1>1, <1>2, <1>3, WorkInductive, PTL DEF Spec

\* Neither the jobs row nor the Redis key ever claims more targets than processJob has gone
\* through, for any number of servers and even when some of the writes in between were lost
\* or the job outlives its lock.
THEOREM ProgressHonest == Spec => []ProgressNotAheadOfWork
<1>1. IInv => ProgressNotAheadOfWork
  <2>. SUFFICES ASSUME IInv
                PROVE  ProgressNotAheadOfWork
    OBVIOUS
  <2>1. \A j \in Jobs : req[j] # "accepted" => fate[j] = "open" /\ ~Running(j)
    BY DEF IInv, WorkInv, FateOK, WorkerOK, Running, Holding, InJob
  <2>. QED
    BY <2>1 DEF IInv, RecordsInv, ProgressOK, ProgressNotAheadOfWork
<1>. QED
  BY <1>1, Inductive, PTL

\* While no write to the row was lost, the key that the dashboard polls is never ahead of
\* the row, and says COMPLETED only of a row that counts every target.
THEOREM StatusBehindRow == Spec => []StatusNotAheadOfRow
<1>1. IInv => StatusNotAheadOfRow
  BY DEF IInv, RecordsInv
<1>. QED
  BY <1>1, Inductive, PTL

\* The key says RUNNING, and Redeem answers 409, only for a job that a worker is at, for any
\* number of servers, whatever exports and writes to the row fail, with time limits that pass
\* or not, as long as no server is lost and Redis answers.
THEOREM ConflictIsReal == Spec => []ConflictMeansRunning
<1>1. Init => RunningHeld
  BY DEF Init, RunningHeld, NoStatus
<1>2. RunningHeld => ConflictMeansRunning
  BY DEF RunningHeld, ConflictMeansRunning, Telling, Holding, InJob
<1>. QED
  BY <1>1, <1>2, RunningHeldStepOK, WorkInductive, PTL DEF Spec

\* A server alone that has not crashed and that Redis has not failed drops no job, for any
\* number of requests, with time limits that pass or not.
THEOREM NoneDroppedInOneLife == Spec => []NoJobDroppedInOneLife
<1>1. IInv => NoJobDroppedInOneLife
  BY DEF IInv, RecordsInv
<1>. QED
  BY <1>1, Inductive, PTL

\* No step lowers processed_players: the reset at the start of processJob finds a row that
\* no one has counted in, as no job is begun twice.
THEOREM ProgressOnlyGrows == Spec => ProgressMonotone
<1>1. IInv /\ [Next]_vars => [\A j \in Jobs : processed[j] <= processed'[j]]_vars
  <2>. SUFFICES ASSUME IInv, [Next]_vars, NEW j \in Jobs
                PROVE  processed[j] <= processed'[j]
    OBVIOUS
  <2>. USE DEF IInv, WorkInv, TypeOK, RowTypes
  <2>1. ASSUME NEW s \in Servers, LoopStep(s)
        PROVE  processed[j] <= processed'[j]
    <3>1. /\ job[s] \in Jobs /\ count[s] \in Nat /\ processed[job[s]] \in Nat
          /\ processed[job[s]] <= count[s]
      BY <2>1, AtWork, LoopStepFrame DEF RecordsInv, ProgressOK
    <3>. QED
      BY <2>1, <3>1, LoopStepRecords
  <2>2. CASE UNCHANGED processed
    BY <2>2
  <2>3. ExpireStatus => UNCHANGED processed
    BY DEF ExpireStatus
  <2>. QED
    BY <2>1, <2>2, <2>3, OtherStepRecords
<1>. QED
  BY <1>1, Inductive, PTL DEF Spec, ProgressMonotone
=============================================================================
