------------------------ MODULE CanvasPipelineProofs ------------------------
(***************************************************************************)
(* Theorems about CanvasPipeline, for any number of strokes, threshold,    *)
(* number of attempts and number of failures: its safety properties, and   *)
(* that it implements CanvasContract. Theorems about CanvasJoin follow,    *)
(* since who reads the canvas needs what is known of who writes it.        *)
(***************************************************************************)
EXTENDS CanvasRefinement, CanvasJoin, TLAPS

USE ProcsAssumption, HistoryAssumption, BoundsAssumption, SwitchAssumption

(* What the shared operators do to the type of a variable. *)
LEMMA RecordTypes ==
  /\ NoSnap \in Snapshots /\ NoJob \in Jobs /\ NewJob \in Jobs
  /\ \A strokes \in SUBSET Strokes, ttl \in BOOLEAN : Stored(strokes, ttl) \in Snapshots
<1>1. NoSnap \in Snapshots
  BY DEF NoSnap, Snapshots
<1>2. NoJob \in Jobs
  BY DEF NoJob, Jobs
<1>4. NewJob \in Jobs
  BY DEF NewJob, Jobs
<1>5. \A strokes \in SUBSET Strokes, ttl \in BOOLEAN : Stored(strokes, ttl) \in Snapshots
  BY DEF Stored, Snapshots
<1>6. QED
  BY <1>1, <1>2, <1>4, <1>5

LEMMA RowType ==
  ASSUME TypeOK, NEW p \in Procs PROVE Inserted(p) \in Rows
BY DEF TypeOK, Inserted, Rows

LEMMA GotoType ==
  ASSUME pc \in [Procs -> Labels], NEW p \in Procs, NEW label \in Labels, Goto(p, label)
  PROVE  pc' \in [Procs -> Labels]
BY DEF Goto

LEMMA WorksType ==
  ASSUME work \in [Procs -> SUBSET Strokes], NEW p \in Procs,
         NEW strokes \in SUBSET Strokes, Works(p, strokes)
  PROVE  work' \in [Procs -> SUBSET Strokes]
BY DEF Works

LEMMA OutcomeType ==
  ASSUME faults \in 0..MaxFaults, NEW ok \in BOOLEAN, Outcome(ok)
  PROVE  faults' \in 0..MaxFaults
BY DEF Outcome

LEMMA ForgetType ==
  ASSUME TypeOK, NEW p \in Procs, Forget(p)
  PROVE  /\ work' \in [Procs -> SUBSET Strokes]
         /\ row' \in [Procs -> SUBSET Strokes]
         /\ stamp' \in [Procs -> Nat]
BY DEF TypeOK, Forget

LEMMA InitTypeOK == Init => TypeOK
<1> SUFFICES ASSUME Init PROVE TypeOK
  OBVIOUS
<1>1. db \in Rows
  BY DEF Init, NoRow, Rows, Strokes
<1>2. snap \in Snapshots
  BY RecordTypes DEF Init, Strokes
<1>3. QED
  BY <1>1, <1>2, RecordTypes DEF Init, TypeOK, Procs, Labels, Critical

LEMMA HashStrokeType ==
  ASSUME TypeOK, NEW e \in Events, HashStroke(e) PROVE TypeOK'
BY DEF TypeOK, HashStroke, Step, Outcome, Goto, Applied, Procs, Labels, Critical

LEMMA HandleDrawType ==
  ASSUME TypeOK, NEW e \in Events, HandleDraw(e) PROVE TypeOK'
<1> USE RecordTypes DEF TypeOK, Step, Outcome, Goto, Applied, Works, Procs, Labels, Critical, ghosts
<1>1. CASE RemoveOldJob(e) BY <1>1 DEF RemoveOldJob, Removed
<1>2. CASE AddJob(e) BY <1>2 DEF AddJob
<1>3. CASE CountPending(e) BY <1>3 DEF CountPending
<1>4. CASE AcquireLock(e) BY <1>4 DEF AcquireLock
<1>5. CASE ReadPending(e) BY <1>5 DEF ReadPending, Strokes
<1>6. CASE ReadCache(e) BY <1>6 DEF ReadCache, Snapshots
<1>7. CASE FindLatest(e) BY <1>7 DEF FindLatest, Rows
<1>8. CASE FillCache(e)
  <2>1. Stored(row[e], TRUE) \in Snapshots
    BY RecordTypes
  <2>2. snap' \in Snapshots
    BY <1>8, <2>1 DEF FillCache
  <2>3. QED
    BY <1>8, <2>2 DEF FillCache
<1>9. CASE EncodeSnapshot(e)
  <2>1. Stored(work[e], TRUE) \in Snapshots
    BY RecordTypes
  <2>2. snap' \in Snapshots
    BY <1>9, <2>1 DEF EncodeSnapshot
  <2>3. QED
    BY <1>9, <2>2 DEF EncodeSnapshot
<1>10. CASE DeletePending(e) BY <1>10 DEF DeletePending
<1>11. CASE CreateSnapshot(e) BY <1>11, RowType DEF CreateSnapshot, Forget
<1>12. CASE RemoveIdleJob(e) BY <1>12 DEF RemoveIdleJob, Removed
<1>13. CASE Unlock(e) BY <1>13 DEF Unlock
<1>14. QED
  BY HandleDraw(e), <1>1, <1>2, <1>3, <1>4, <1>5, <1>6, <1>7, <1>8, <1>9, <1>10,
     <1>11, <1>12, <1>13 DEF HandleDraw
LEMMA CrashHandlerType ==
  ASSUME TypeOK, NEW e \in Events, CrashHandler(e) PROVE TypeOK'
BY DEF TypeOK, CrashHandler, Outcome, Goto, Forget, Procs, Labels, Critical, ghosts

LEMMA JobThrowsType ==
  ASSUME TypeOK, JobThrows, job.attempts < MaxAttempts
  PROVE  /\ faults' \in 0..MaxFaults
         /\ pc' \in [Procs -> Labels]
         /\ job' \in Jobs
         /\ work' \in [Procs -> SUBSET Strokes]
         /\ row' \in [Procs -> SUBSET Strokes]
         /\ stamp' \in [Procs -> Nat]
<1>1. /\ job.attempts \in 0..MaxAttempts /\ job.attempts + 1 \in 0..MaxAttempts
      /\ job.stalled \in BOOLEAN
  BY DEF TypeOK, Jobs
<1>3. PICK st \in {"delayed", "failed"} : job' = [job EXCEPT !.attempts = @ + 1, !.state = st]
  BY DEF JobThrows
<1>4. job' = [state |-> st, attempts |-> job.attempts + 1, stalled |-> job.stalled]
  BY <1>3 DEF TypeOK, Jobs
<1>5. job' \in Jobs
  BY <1>1, <1>4 DEF Jobs
<1>2. QED
  BY <1>5 DEF TypeOK, JobThrows, Outcome, Goto, Forget, Procs, Labels, Critical
(* The counter of attempts stays in its range only because a job that runs *)
(* or will run again has attempts left.                                    *)
JobInv ==
  /\ pc[Worker] # "idle" => job.state = "active"
  /\ job.state # "failed" => job.attempts < MaxAttempts

TypeInv == TypeOK /\ JobInv

LEMMA JobMayThrow ==
  ASSUME TypeInv, pc[Worker] # "idle" PROVE job.attempts < MaxAttempts
BY DEF TypeInv, JobInv

LEMMA RunJobType ==
  ASSUME TypeInv, RunJob PROVE TypeOK'
<1> USE RecordTypes, JobMayThrow, JobThrowsType
    DEF TypeInv, TypeOK, Outcome, Goto, Works, JobContinues, Procs, Labels, Critical, ghosts
<1>1. CASE JobAcquiresLock BY <1>1 DEF JobAcquiresLock
<1>2. CASE JobReadsPending BY <1>2 DEF JobReadsPending, Strokes
<1>3. CASE JobReadsCache BY <1>3 DEF JobReadsCache, TakeStamp, Snapshots
<1>4. CASE JobFindsLatest BY <1>4 DEF JobFindsLatest, TakeStamp, Rows
<1>5. CASE JobEncodes
  <2>1. Stored(work[Worker], FALSE) \in Snapshots
    OBVIOUS
  <2>2. CASE JobContinues("insert")
    BY <1>5, <2>1, <2>2 DEF JobEncodes
  <2>3. CASE JobThrows /\ UNCHANGED snap
    BY <1>5, <2>3 DEF JobEncodes
  <2>4. QED
    BY <1>5, <2>2, <2>3 DEF JobEncodes
<1>6. CASE JobInserts BY <1>6, RowType DEF JobInserts, Forget
<1>7. CASE JobDeletesPending BY <1>7 DEF JobDeletesPending
<1>8. CASE JobUnlocks BY <1>8 DEF JobUnlocks
<1>9. CASE CompleteJob BY <1>9 DEF CompleteJob, Forget
<1>10. QED
  BY RunJob, <1>1, <1>2, <1>3, <1>4, <1>5, <1>6, <1>7, <1>8, <1>9 DEF RunJob
LEMMA JobStateSet ==
  ASSUME TypeOK, NEW st \in {"active", "stalled", "failed"},
         \/ job' = [job EXCEPT !.state = st]
         \/ job' = [job EXCEPT !.state = st, !.stalled = TRUE]
  PROVE  job' \in Jobs
<1>1. \E b \in BOOLEAN : job' = [state |-> st, attempts |-> job.attempts, stalled |-> b]
  <2>1. CASE job' = [job EXCEPT !.state = st]
    <3>1. job' = [state |-> st, attempts |-> job.attempts, stalled |-> job.stalled]
      BY <2>1 DEF TypeOK, Jobs
    <3>2. QED
      BY <3>1 DEF TypeOK, Jobs
  <2>2. CASE job' = [job EXCEPT !.state = st, !.stalled = TRUE]
    <3>1. job' = [state |-> st, attempts |-> job.attempts, stalled |-> TRUE]
      BY <2>2 DEF TypeOK, Jobs
    <3>2. QED
      BY <3>1
  <2>3. QED
    BY <2>1, <2>2
<1>2. QED
  BY <1>1 DEF TypeOK, Jobs

LEMMA OtherStepsType ==
  ASSUME TypeInv,
         \/ StartJob \/ CrashWorker \/ RestartStalledJob
         \/ ExpireLock \/ ExpireSnapshot \/ ExpirePending
         \/ UNCHANGED vars
  PROVE  TypeOK'
<1> USE RecordTypes
    DEF TypeInv, TypeOK, Outcome, Goto, Procs, Labels, Critical, handlers, ghosts
<1>1. CASE StartJob BY <1>1 DEF StartJob, Jobs
<1>2. CASE CrashWorker BY <1>2 DEF CrashWorker, Forget, Jobs
<1>3. CASE RestartStalledJob
  <2>1. job' \in Jobs
    BY <1>3, JobStateSet DEF RestartStalledJob
  <2>2. QED
    BY <1>3, <2>1 DEF RestartStalledJob
<1>4. CASE ExpireLock BY <1>4 DEF ExpireLock
<1>5. CASE ExpireSnapshot BY <1>5 DEF ExpireSnapshot
<1>6. CASE ExpirePending BY <1>6 DEF ExpirePending
<1>7. CASE UNCHANGED vars BY <1>7 DEF vars
<1>8. QED
  BY <1>1, <1>2, <1>3, <1>4, <1>5, <1>6, <1>7

LEMMA JobInvStep ==
  ASSUME TypeInv, [Next]_vars PROVE JobInv'
<1> USE DEF TypeInv, TypeOK, JobInv, Goto, Procs, Jobs, handlers, ghosts
<1>1. CASE \E e \in Events : HashStroke(e) \/ CrashHandler(e)
  BY <1>1 DEF HashStroke, CrashHandler, Step
<1>2. ASSUME NEW e \in Events, HandleDraw(e) PROVE JobInv'
  <2>1. pc'[Worker] = pc[Worker]
    BY <1>2 DEF HandleDraw, Step, RemoveOldJob, AddJob, CountPending, AcquireLock,
         ReadPending, ReadCache, FindLatest, FillCache, EncodeSnapshot, DeletePending,
         CreateSnapshot, RemoveIdleJob, Unlock
  <2>2. job' \in {job, NoJob, NewJob} /\ (job.state = "active" => job' = job)
    <3>1. CASE RemoveOldJob(e) \/ RemoveIdleJob(e)
      BY <3>1 DEF RemoveOldJob, RemoveIdleJob, Removed
    <3>2. CASE AddJob(e)
      BY <3>2 DEF AddJob, Applied, NoJob
    <3>3. CASE UNCHANGED job
      BY <3>3
    <3>4. QED
      BY <1>2, <3>1, <3>2, <3>3 DEF HandleDraw, CountPending, AcquireLock,
           ReadPending, ReadCache, FindLatest, FillCache, EncodeSnapshot, DeletePending,
           CreateSnapshot, Unlock
  <2>3. QED
    BY <2>1, <2>2 DEF NoJob, NewJob
<1>3. CASE JobThrows
  BY <1>3, JobMayThrow DEF JobThrows
<1>4. CASE CompleteJob
  BY <1>4 DEF CompleteJob, NoJob
<1>5. CASE RunJob /\ ~JobThrows /\ ~CompleteJob
  <2>1. job' = job /\ pc[Worker] # "idle"
    BY <1>5 DEF RunJob, JobAcquiresLock, JobReadsPending, JobReadsCache, JobFindsLatest,
         JobEncodes, JobInserts, JobDeletesPending, JobUnlocks, JobContinues
  <2>2. QED
    BY <2>1
<1>9. CASE StartJob \/ CrashWorker \/ RestartStalledJob
  <2>1. PICK st \in {"active", "stalled", "failed"} : job' = [job EXCEPT !.state = st]
                \/ job' = [job EXCEPT !.state = st, !.stalled = TRUE]
    BY <1>9 DEF StartJob, CrashWorker, RestartStalledJob
  <2>2. job'.state = st /\ job'.attempts = job.attempts
    BY <2>1
  <2>3. job.state # "failed"
    BY <1>9 DEF StartJob, CrashWorker, RestartStalledJob
  <2>4. pc'[Worker] # "idle" => st = "active"
    BY <1>9, <2>1, <2>2 DEF StartJob, CrashWorker, RestartStalledJob
  <2>5. QED
    BY <2>2, <2>3, <2>4
<1>6. CASE ExpireLock \/ ExpireSnapshot \/ ExpirePending
  BY <1>6 DEF ExpireLock, ExpireSnapshot, ExpirePending
<1>7. CASE UNCHANGED vars
  BY <1>7 DEF vars
<1>8. QED
  BY <1>1, <1>2, <1>3, <1>4, <1>5, <1>6, <1>7, <1>9 DEF Next, Background, Rest
LEMMA TypeStep == TypeInv /\ [Next]_vars => TypeInv'
<1> SUFFICES ASSUME TypeInv, [Next]_vars PROVE TypeInv'
  OBVIOUS
<1>1. TypeOK'
  BY HashStrokeType, HandleDrawType, CrashHandlerType, RunJobType, OtherStepsType
     DEF Next, Background, Rest, TypeInv
<1>2. QED
  BY <1>1, JobInvStep DEF TypeInv

LEMMA TypeInit == Init => TypeInv
<1> SUFFICES ASSUME Init PROVE TypeInv
  OBVIOUS
<1>1. pc[Worker] = "idle"
  BY DEF Init, Procs
<1>2. job.attempts < MaxAttempts
  BY DEF Init, NoJob
<1>3. QED
  BY <1>1, <1>2, InitTypeOK DEF TypeInv, JobInv

\* Every variable keeps its type: in particular a snapshot and a row only ever
\* hold strokes of the room, and a job is not attempted more than MaxAttempts times.
THEOREM TypeCorrect == Spec => []TypeOK
<1>1. TypeInv => TypeOK
  BY DEF TypeInv
<1>2. QED
  BY <1>1, TypeInit, TypeStep, PTL DEF Spec

-----------------------------------------------------------------------------
(* Mutual exclusion of flushes.                                            *)

\* A step that leaves the lock alone and lets nobody in.
LEMMA MutexKept ==
  ASSUME FlushMutex, lock' = lock,
         \A p \in Procs : pc'[p] \in Critical => pc[p] \in Critical
  PROVE  FlushMutex'
BY DEF FlushMutex

LEMMA MutexHandler ==
  ASSUME TypeInv, FlushMutex, NEW e \in Events, HandleDraw(e) PROVE FlushMutex'
<1> USE DEF TypeInv, TypeOK, Goto, Step, Outcome, Procs
<1>1. CASE AcquireLock(e)
  BY <1>1 DEF AcquireLock, FlushMutex, Applied, Critical
<1>2. CASE Unlock(e)
  BY <1>2 DEF Unlock, FlushMutex, Applied, Critical
<1>3. CASE ~AcquireLock(e) /\ ~Unlock(e)
  <2>1. lock' = lock
    BY <1>3, HandleDraw(e) DEF HandleDraw, RemoveOldJob, AddJob, CountPending,
         ReadPending, ReadCache, FindLatest, FillCache, EncodeSnapshot, DeletePending,
         CreateSnapshot, RemoveIdleJob
  <2>2. \E label \in Labels : Goto(e, label) /\ (label \in Critical => pc[e] \in Critical)
    BY <1>3, HandleDraw(e) DEF HandleDraw, RemoveOldJob, AddJob, CountPending,
         ReadPending, ReadCache, FindLatest, FillCache, EncodeSnapshot, DeletePending,
         CreateSnapshot, RemoveIdleJob, Labels, Critical
  <2>3. \A p \in Procs : pc'[p] \in Critical => pc[p] \in Critical
    BY <2>2
  <2>4. QED
    BY <2>1, <2>3, MutexKept
<1>4. QED
  BY <1>1, <1>2, <1>3

LEMMA MutexWorker ==
  ASSUME TypeInv, FlushMutex, RunJob PROVE FlushMutex'
<1> USE DEF TypeInv, TypeOK, Goto, Outcome, Procs
<1>1. CASE JobAcquiresLock
  BY <1>1 DEF JobAcquiresLock, JobContinues, JobThrows, FlushMutex, Critical
<1>2. CASE JobUnlocks
  BY <1>2 DEF JobUnlocks, JobContinues, JobThrows, FlushMutex, Critical
<1>3. CASE ~JobAcquiresLock /\ ~JobUnlocks
  <2>1. lock' = lock
    BY <1>3, RunJob DEF RunJob, JobReadsPending, JobReadsCache, JobFindsLatest,
         JobEncodes, JobInserts, JobDeletesPending, CompleteJob
  <2>2. \E label \in Labels :
          Goto(Worker, label) /\ (label \in Critical => pc[Worker] \in Critical)
    BY <1>3, RunJob DEF RunJob, JobReadsPending, JobReadsCache, JobFindsLatest,
         JobEncodes, JobInserts, JobDeletesPending, CompleteJob, JobContinues, JobThrows,
         Labels, Critical
  <2>3. \A p \in Procs : pc'[p] \in Critical => pc[p] \in Critical
    BY <2>2
  <2>4. QED
    BY <2>1, <2>3, MutexKept
<1>4. QED
  BY <1>1, <1>2, <1>3

LEMMA MutexStep == TypeInv /\ FlushMutex /\ [Next]_vars => FlushMutex'
<1> SUFFICES ASSUME TypeInv, FlushMutex, [Next]_vars PROVE FlushMutex'
  OBVIOUS
<1> USE DEF TypeInv, TypeOK, Goto, Outcome, Procs, handlers, ghosts
<1>1. ASSUME NEW e \in Events, HashStroke(e) \/ CrashHandler(e) PROVE FlushMutex'
  BY <1>1, MutexKept DEF HashStroke, CrashHandler, Step, Critical
<1>2. ASSUME NEW e \in Events, HandleDraw(e) PROVE FlushMutex'
  BY <1>2, MutexHandler
<1>3. CASE RunJob
  BY <1>3, MutexWorker
<1>4. CASE StartJob \/ CrashWorker \/ RestartStalledJob
  BY <1>4, MutexKept DEF StartJob, CrashWorker, RestartStalledJob, Critical
<1>5. CASE ExpireLock
  BY <1>5 DEF ExpireLock, FlushMutex
<1>6. CASE ExpireSnapshot \/ ExpirePending \/ UNCHANGED vars
  BY <1>6, MutexKept DEF ExpireSnapshot, ExpirePending, vars
<1>7. QED
  BY <1>1, <1>2, <1>3, <1>4, <1>5, <1>6 DEF Next, Background, Rest

\* Two flushes of a room never overlap, on whatever server or in the processor they
\* run and whatever failed before, if a flush takes less than LOCK_TTL.
THEOREM MutualExclusion == Spec => []FlushMutex
<1>1. Init => FlushMutex
  BY DEF Init, FlushMutex, Critical, Procs
<1>2. QED
  BY <1>1, TypeInit, TypeStep, MutexStep, PTL DEF Spec
-----------------------------------------------------------------------------
(* Only raced strokes vanish.                                              *)

RowInv == db.timestamp = 0 => db.strokes = {}

\* Every process has what FlushPhase says of its label.
InPhase == \A p \in Procs : FlushPhase(p)

PhaseInv == TypeInv /\ FlushMutex /\ InPhase /\ RowInv

\* The labels FlushPhase says something of.
Phases == {"cache", "find", "fill", "encode", "del", "insert"}

NoLoss == Canvas \ Canvas' \subseteq raced

LEMMA PhaseOutside ==
  ASSUME NEW p \in Procs, pc'[p] \notin Phases PROVE FlushPhase(p)'
BY DEF FlushPhase, Phases

\* While p is in its critical section nobody else is, before or after its step.
LEMMA PhaseAlone ==
  ASSUME PhaseInv, Timely, NEW p \in Procs, pc[p] \in Critical,
         \A q \in Procs \ {p} : pc'[q] = pc[q],
         FlushPhase(p)'
  PROVE  InPhase'
<1>1. ASSUME NEW q \in Procs \ {p} PROVE pc'[q] \notin Phases
  BY DEF PhaseInv, FlushMutex, Critical, Phases
<1>2. ASSUME NEW q \in Procs PROVE FlushPhase(q)'
  BY <1>1, PhaseOutside
<1>3. QED
  BY <1>2 DEF InPhase

\* A step that touches neither the hash, the snapshot nor the row.
LEMMA PhaseFrame ==
  ASSUME PhaseInv, Timely, NEW p \in Procs, pc'[p] \notin Phases,
         \A q \in Procs \ {p} : pc'[q] = pc[q] /\ work'[q] = work[q] /\ row'[q] = row[q],
         UNCHANGED <<pending, snap, db, raced>>
  PROVE  InPhase' /\ NoLoss
<1>1. Canvas' = Canvas
  BY DEF Canvas
<1>2. ASSUME NEW q \in Procs \ {p} PROVE FlushPhase(q)'
  BY <1>1 DEF PhaseInv, InPhase, FlushPhase, Racing
<1>3. ASSUME NEW q \in Procs PROVE FlushPhase(q)'
  BY <1>2, PhaseOutside
<1>4. QED
  BY <1>1, <1>3 DEF InPhase, NoLoss

LEMMA PhaseHash ==
  ASSUME PhaseInv, Timely, NEW e \in Events, HashStroke(e)
  PROVE  InPhase' /\ NoLoss
<1> USE DEF PhaseInv, TypeInv, TypeOK
<1>1. /\ pc'[e] \notin Phases /\ pc[e] \notin Phases
      /\ \A q \in Procs \ {e} : pc'[q] = pc[q]
      /\ UNCHANGED <<work, row, snap, db>>
      /\ pending \subseteq pending'
      /\ raced' = raced \cup {s \in pending' \ pending : \E p \in Procs : Racing(p)}
  BY DEF HashStroke, Step, Goto, Applied, Phases, Procs
<1>2. NoLoss
  BY <1>1 DEF NoLoss, Canvas
<1>3. ASSUME NEW q \in Procs, q # e PROVE FlushPhase(q)'
  <2>1. FlushPhase(q)
    BY DEF InPhase
  <2>2. CASE Racing(q)
    <3>1. pending' \ raced' \subseteq pending \ raced
      BY <1>1, <2>2
    <3>2. Canvas' \ raced' \subseteq Canvas \ raced
      BY <1>1, <3>1 DEF Canvas
    <3>3. QED
      BY <1>1, <1>3, <2>1, <2>2, <3>1, <3>2 DEF FlushPhase, Racing
  <2>3. CASE ~Racing(q)
    BY <1>1, <1>3, <2>1, <2>3 DEF FlushPhase, Racing, BeforeDel, WorkerBeforeDel
  <2>4. QED
    BY <2>2, <2>3
<1>4. ASSUME NEW q \in Procs PROVE FlushPhase(q)'
  BY <1>1, <1>3, PhaseOutside
<1>5. QED
  BY <1>2, <1>4 DEF InPhase
\* The flush of a handler: each step between HGETALL and the insert.
LEMMA PhaseFlush ==
  ASSUME PhaseInv, Timely, NEW e \in Events,
         \/ ReadPending(e) \/ ReadCache(e) \/ FindLatest(e) \/ FillCache(e)
         \/ EncodeSnapshot(e) \/ DeletePending(e) \/ CreateSnapshot(e)
  PROVE  InPhase' /\ NoLoss
<1> USE DEF PhaseInv, TypeInv, TypeOK, Procs
<1>1. pc[e] \in Critical /\ e # Worker /\ FlushPhase(e)
  BY DEF ReadPending, ReadCache, FindLatest, FillCache, EncodeSnapshot, DeletePending,
     CreateSnapshot, Critical, InPhase
<1>2. \A q \in Procs \ {e} : pc'[q] = pc[q]
  BY DEF ReadPending, ReadCache, FindLatest, FillCache, EncodeSnapshot, DeletePending,
     CreateSnapshot, Step, Goto
<1> DEFINE Goal == FlushPhase(e)' /\ NoLoss
<1> USE DEF FlushPhase, NoLoss, Canvas, Step, Goto, Works, Phases
<1>3. ASSUME ReadPending(e) PROVE Goal
  BY <1>1, <1>3 DEF ReadPending, ghosts
<1>4. ASSUME ReadCache(e) PROVE Goal
  BY <1>1, <1>4 DEF ReadCache, ghosts
<1>5. ASSUME FindLatest(e) PROVE Goal
  BY <1>1, <1>5 DEF FindLatest, ghosts, RowInv
<1>6. ASSUME FillCache(e) PROVE Goal
  BY <1>1, <1>6 DEF FillCache, ghosts, Applied, Stored
<1>7. ASSUME EncodeSnapshot(e) PROVE Goal
  BY <1>1, <1>7 DEF EncodeSnapshot, ghosts, Applied, Stored, Racing
<1>8. ASSUME DeletePending(e) PROVE Goal
  BY <1>1, <1>8 DEF DeletePending, ghosts, Applied, Racing, BeforeDel
<1>9. ASSUME CreateSnapshot(e) PROVE Goal
  BY <1>1, <1>9 DEF CreateSnapshot, ghosts, Applied
<1>10. Goal
  BY <1>3, <1>4, <1>5, <1>6, <1>7, <1>8, <1>9
<1>11. QED
  BY <1>1, <1>2, <1>10, PhaseAlone

\* The flush of the worker.
LEMMA PhaseJob ==
  ASSUME PhaseInv, Timely,
         \/ JobReadsPending \/ JobReadsCache \/ JobFindsLatest
         \/ JobEncodes \/ JobInserts \/ JobDeletesPending
  PROVE  InPhase' /\ NoLoss
<1> USE DEF PhaseInv, TypeInv, TypeOK, Procs
<1>1. pc[Worker] \in Critical /\ FlushPhase(Worker)
  BY DEF JobReadsPending, JobReadsCache, JobFindsLatest, JobEncodes, JobInserts,
     JobDeletesPending, Critical, InPhase
<1>2. \A q \in Procs \ {Worker} : pc'[q] = pc[q]
  BY DEF JobReadsPending, JobReadsCache, JobFindsLatest, JobEncodes, JobInserts,
     JobDeletesPending, JobContinues, JobThrows, Goto
<1> DEFINE Goal == FlushPhase(Worker)' /\ NoLoss
<1> USE DEF FlushPhase, NoLoss, Canvas, Goto, Works, JobContinues, JobThrows
<1>3. ASSUME JobReadsPending PROVE Goal
  BY <1>1, <1>3 DEF JobReadsPending, ghosts
<1>4. ASSUME JobReadsCache PROVE Goal
  <2>1. UNCHANGED <<pending, snap, db, raced>> /\ Worker \in Procs
    BY <1>4 DEF JobReadsCache, ghosts
  <2>2. CASE snap.there /\ pc'[Worker] = "encode"
    <3>1. work'[Worker] = work[Worker] \cup snap.strokes
      BY <1>4, <2>2 DEF JobReadsCache
    <3>2. QED
      BY <1>1, <1>4, <2>1, <2>2, <3>1 DEF JobReadsCache
  <2>3. CASE ~snap.there /\ pc'[Worker] = "find"
    BY <1>1, <1>4, <2>1, <2>3 DEF JobReadsCache
  <2>4. CASE pc'[Worker] = "idle"
    BY <2>1, <2>4
  <2>5. QED
    BY <1>4, <2>2, <2>3, <2>4 DEF JobReadsCache
<1>5. ASSUME JobFindsLatest PROVE Goal
  <2>1. UNCHANGED <<pending, snap, db, raced>> /\ ~snap.there /\ Worker \in Procs
    BY <1>1, <1>5 DEF JobFindsLatest, ghosts
  <2>2. CASE pc'[Worker] = "encode"
    <3>1. work'[Worker] = work[Worker] \cup db.strokes
      BY <1>5, <2>2 DEF JobFindsLatest
    <3>2. QED
      BY <1>1, <1>5, <2>1, <2>2, <3>1 DEF JobFindsLatest
  <2>3. CASE pc'[Worker] = "idle"
    BY <2>1, <2>3
  <2>4. QED
    BY <1>5, <2>2, <2>3 DEF JobFindsLatest
<1>6. ASSUME JobEncodes PROVE Goal
  <2>1. UNCHANGED <<pending, db, raced>> /\ Canvas \ raced \subseteq work[Worker]
    BY <1>1, <1>6 DEF JobEncodes, ghosts
  <2>2. CASE pc'[Worker] = "insert" /\ snap' = Stored(work[Worker], FALSE)
    <3>1. snap'.there /\ snap'.strokes = work[Worker]
      BY <2>2 DEF Stored
    <3>2. QED
      BY <2>1, <2>2, <3>1
  <2>3. CASE pc'[Worker] = "idle" /\ UNCHANGED snap
    BY <2>1, <2>3
  <2>4. QED
    BY <1>6, <2>2, <2>3 DEF JobEncodes, Stored
<1>7. ASSUME JobInserts PROVE Goal
  BY <1>1, <1>7 DEF JobInserts, ghosts, Racing, WorkerBeforeDel
<1>8. ASSUME JobDeletesPending PROVE Goal
  BY <1>1, <1>8 DEF JobDeletesPending, ghosts, Racing, WorkerBeforeDel
<1>9. Goal
  BY <1>3, <1>4, <1>5, <1>6, <1>7, <1>8
<1>10. QED
  BY <1>1, <1>2, <1>9, PhaseAlone
\* The steps of a handler and of the worker that are not part of a flush.
LEMMA PhaseOther ==
  ASSUME PhaseInv, Timely,
         \/ \E e \in Events : \/ RemoveOldJob(e) \/ AddJob(e) \/ CountPending(e)
                             \/ AcquireLock(e) \/ RemoveIdleJob(e) \/ Unlock(e)
                             \/ CrashHandler(e)
         \/ JobAcquiresLock \/ JobUnlocks \/ CompleteJob
         \/ StartJob \/ CrashWorker \/ RestartStalledJob
         \/ ExpireLock \/ UNCHANGED vars
  PROVE  InPhase' /\ NoLoss
<1> USE DEF PhaseInv, TypeInv, TypeOK, Procs, Goto, Forget, handlers, ghosts
<1>1. ASSUME NEW e \in Events,
             \/ RemoveOldJob(e) \/ AddJob(e) \/ CountPending(e) \/ AcquireLock(e)
             \/ RemoveIdleJob(e) \/ Unlock(e) \/ CrashHandler(e)
      PROVE  InPhase' /\ NoLoss
  <2>1. UNCHANGED <<pending, snap, db, raced>> /\ pc'[e] \notin Phases
    BY <1>1 DEF RemoveOldJob, AddJob, CountPending, AcquireLock, RemoveIdleJob, Unlock,
         CrashHandler, Step, Phases
  <2>2. \A q \in Procs \ {e} : pc'[q] = pc[q] /\ work'[q] = work[q] /\ row'[q] = row[q]
    BY <1>1 DEF RemoveOldJob, AddJob, CountPending, AcquireLock, RemoveIdleJob, Unlock,
         CrashHandler, Step
  <2>3. QED
    BY <2>1, <2>2, PhaseFrame
<1>2. CASE \/ JobAcquiresLock \/ JobUnlocks \/ CompleteJob
           \/ StartJob \/ CrashWorker \/ RestartStalledJob
  <2>1. UNCHANGED <<pending, snap, db, raced>>
    BY <1>2 DEF JobAcquiresLock, JobUnlocks, CompleteJob, StartJob, CrashWorker,
         RestartStalledJob
  <2>2. pc'[Worker] \notin Phases \/ UNCHANGED <<pc, work, row>>
    BY <1>2 DEF JobAcquiresLock, JobUnlocks, CompleteJob, StartJob, CrashWorker,
         RestartStalledJob, JobContinues, JobThrows, Phases
  <2>3. \A q \in Procs \ {Worker} :
          pc'[q] = pc[q] /\ work'[q] = work[q] /\ row'[q] = row[q]
    BY <1>2 DEF JobAcquiresLock, JobUnlocks, CompleteJob, StartJob, CrashWorker,
         RestartStalledJob, JobContinues, JobThrows
  <2>4. CASE UNCHANGED <<pc, work, row>>
    BY <2>1, <2>4 DEF InPhase, FlushPhase, NoLoss, Canvas, Racing
  <2>5. QED
    BY <2>1, <2>2, <2>3, <2>4, PhaseFrame
<1>3. CASE ExpireLock \/ UNCHANGED vars
  BY <1>3 DEF ExpireLock, vars, InPhase, FlushPhase, NoLoss, Canvas, Racing
<1>4. QED
  BY <1>1, <1>2, <1>3

LEMMA RowStep ==
  ASSUME PhaseInv, [Next]_vars PROVE RowInv'
<1>1. db' = db \/ \E p \in Procs : db' = Inserted(p)
  BY DEF Next, Background, Rest, HashStroke, CrashHandler, HandleDraw, RemoveOldJob, AddJob,
     CountPending, AcquireLock, ReadPending, ReadCache, FindLatest, FillCache,
     EncodeSnapshot, DeletePending, CreateSnapshot, RemoveIdleJob, Unlock, StartJob,
     RunJob, JobAcquiresLock, JobReadsPending, JobReadsCache, JobFindsLatest, JobEncodes,
     JobInserts, JobDeletesPending, JobUnlocks, CompleteJob, CrashWorker,
     RestartStalledJob, ExpireLock, ExpireSnapshot, ExpirePending, Applied, Procs, vars
<1>2. QED
  BY <1>1 DEF PhaseInv, TypeInv, TypeOK, RowInv, Inserted, Rows

LEMMA PhaseStep ==
  ASSUME PhaseInv, Timely, ~CanExpire, [Next]_vars
  PROVE  PhaseInv' /\ NoLoss
<1>1. TypeInv' /\ FlushMutex' /\ RowInv'
  BY TypeStep, MutexStep, RowStep DEF PhaseInv
<1>2. InPhase' /\ NoLoss
  BY PhaseHash, PhaseFlush, PhaseJob, PhaseOther
     DEF Next, Background, Rest, HandleDraw, RunJob, ExpireSnapshot, ExpirePending
<1>3. QED
  BY <1>1, <1>2 DEF PhaseInv

LEMMA PhaseInit == Init => PhaseInv
<1> SUFFICES ASSUME Init PROVE PhaseInv
  OBVIOUS
<1>1. FlushMutex
  BY DEF Init, FlushMutex, Critical, Procs
<1>2. InPhase
  BY DEF Init, InPhase, FlushPhase, Procs
<1>3. RowInv
  BY DEF Init, NoRow, RowInv
<1>4. QED
  BY <1>1, <1>2, <1>3, TypeInit DEF PhaseInv

\* In every phase of a flush the batch, the merged snapshot and the cached snapshot
\* have every stroke that is not raced, whatever fails and whoever dies.
THEOREM PhasesHold ==
  ASSUME Timely, ~CanExpire PROVE Spec => []FlushPhases
<1>1. PhaseInv => FlushPhases
  BY DEF PhaseInv, InPhase, FlushPhases
<1>2. PhaseInv /\ [Next]_vars => PhaseInv'
  BY PhaseStep
<1>3. QED
  BY <1>1, <1>2, PhaseInit, PTL DEF Spec

\* A stroke that no flusher raced with never leaves the canvas, for any number of
\* strokes, handlers, retries, failures and crashes.
THEOREM NoUnracedStrokeVanishes ==
  ASSUME Timely, ~CanExpire PROVE Spec => OnlyRacedStrokesVanish
<1>1. PhaseInv /\ [Next]_vars => PhaseInv' /\ [Canvas \ Canvas' \subseteq raced]_vars
  BY PhaseStep DEF NoLoss
<1>2. QED
  BY <1>1, PhaseInit, PTL DEF Spec, OnlyRacedStrokesVanish
-----------------------------------------------------------------------------
(* As long as nothing fails, the one-day TTLs take nothing that is not     *)
(* saved: the cached snapshot is the newest row when no flush is between   *)
(* its SET and its INSERT, and pending strokes that nobody will flush are  *)
(* unwatched ones.                                                         *)

\* p has stored its merged snapshot in the cache and has yet to insert its row.
Saving(p) == pc[p] = "insert" \/ (p # Worker /\ pc[p] = "del")

\* The row that a flush inserts will be the newest one.
FreshInv ==
  /\ db.timestamp <= clock
  /\ \A p \in Procs : pc[p] = "insert" \/ (p = Worker /\ pc[p] = "encode") =>
                        db.timestamp < stamp[p] /\ stamp[p] <= clock

\* The cached snapshot is what is being inserted, or what has been. The worker sets it
\* without a TTL.
SyncInv ==
  /\ \A p \in Procs : Saving(p) => snap.there /\ snap.strokes = work[p]
  /\ pc[Worker] \in {"insert", "del"} => ~snap.ttl
  /\ snap.there /\ (\A p \in Procs : ~Saving(p)) => snap.strokes = db.strokes

\* Without a failure a job runs with its first attempt, and only a worker that found
\* the hash empty leaves the lock behind.
QueueInv ==
  /\ job = NoJob \/ (job.state \in {"delayed", "active"} /\ job.attempts = 0)
  /\ job.state = "active" => pc[Worker] # "idle"
  /\ pc[Worker] \in Critical \cup {"idle", "lock", "complete"}
  /\ lock \in Events => pc[lock] \in Critical
  /\ pc[Worker] = "lock" => lock # Worker

\* Somebody will flush the hash: the job, a handler that is about to add one, the worker
\* before it asks for the lock, or a flush that has not deleted the hash yet.
Watched ==
  \/ job.state = "delayed"
  \/ job.state # "active" /\ \E e \in Events : pc[e] \in {"remove", "add"}
  \/ pc[Worker] = "lock"
  \/ \E p \in Procs : pc[p] = "read" \/ Racing(p)

WatchInv ==
  /\ raced \subseteq unwatched
  /\ \A e \in Events : pc[e] \in {"insert", "unjob", "unlock"} => pending \subseteq unwatched
  /\ pending \subseteq unwatched \/ Watched

CalmInv == PhaseInv /\ FreshInv /\ SyncInv /\ QueueInv /\ WatchInv

\* Only unwatched strokes leave the canvas in a step.
Spared == Canvas \ Canvas' \subseteq unwatched

LEMMA FailuresRemain ==
  ASSUME TypeOK, [Next]_vars, faults' = 0 PROVE faults = 0
<1>1. faults \in Nat
  BY DEF TypeOK
<1>2. faults' = faults \/ faults' = faults + 1
  BY DEF Next, Background, Rest, HashStroke, CrashHandler, HandleDraw, RemoveOldJob, AddJob,
     CountPending, AcquireLock, ReadPending, ReadCache, FindLatest, FillCache,
     EncodeSnapshot, DeletePending, CreateSnapshot, RemoveIdleJob, Unlock, StartJob,
     RunJob, JobAcquiresLock, JobReadsPending, JobReadsCache, JobFindsLatest, JobEncodes,
     JobInserts, JobDeletesPending, JobUnlocks, CompleteJob, CrashWorker, JobContinues,
     JobThrows, RestartStalledJob, ExpireLock, ExpireSnapshot, ExpirePending, Step, Outcome,
     vars
<1>3. QED
  BY <1>1, <1>2

\* What the calls of a handler do when none of them fails.
LEMMA CalmHandler ==
  ASSUME TypeOK, faults = 0, faults' = 0, NEW e \in Events
  PROVE  /\ HashStroke(e) => Goto(e, "remove") /\ pending' = pending \cup {e}
         /\ RemoveOldJob(e) => Goto(e, "add") /\ job' \in Removed
         /\ AddJob(e) => Goto(e, "hlen") /\ job' = IF job = NoJob THEN NewJob ELSE job
         /\ CountPending(e) => Goto(e, "done") \/ Goto(e, "lock")
         /\ AcquireLock(e) => \/ lock = Free /\ Goto(e, "read") /\ lock' = e
                              \/ lock # Free /\ Goto(e, "done") /\ lock' = lock
         /\ ReadPending(e) => Goto(e, "cache")
         /\ ReadCache(e) => Goto(e, "encode") \/ Goto(e, "find")
         /\ FindLatest(e) => Goto(e, "encode") \/ Goto(e, "fill")
         /\ FillCache(e) => Goto(e, "encode")
         /\ EncodeSnapshot(e) => Goto(e, "del")
         /\ DeletePending(e) => Goto(e, "insert") /\ pending' = {}
         /\ CreateSnapshot(e) => Goto(e, "unjob")
         /\ RemoveIdleJob(e) => Goto(e, "unlock") /\ job' \in Removed
         /\ Unlock(e) => Goto(e, "done") /\ lock' = Free
         /\ ~CrashHandler(e)
<1>1. \A ok \in BOOLEAN : Outcome(ok) => ok
  BY DEF Outcome, TypeOK
<1> USE DEF Step
<1>3. HashStroke(e) => Goto(e, "remove") /\ pending' = pending \cup {e}
  BY <1>1 DEF HashStroke, Applied
<1>4. RemoveOldJob(e) => Goto(e, "add") /\ job' \in Removed
  BY <1>1 DEF RemoveOldJob
<1>5. AddJob(e) => Goto(e, "hlen") /\ job' = IF job = NoJob THEN NewJob ELSE job
  BY <1>1 DEF AddJob, Applied
<1>6. CountPending(e) => Goto(e, "done") \/ Goto(e, "lock")
  BY <1>1 DEF CountPending
<1>7. AcquireLock(e) => \/ lock = Free /\ Goto(e, "read") /\ lock' = e
                        \/ lock # Free /\ Goto(e, "done") /\ lock' = lock
  BY <1>1 DEF AcquireLock, Applied
<1>8. ReadPending(e) => Goto(e, "cache")
  BY <1>1 DEF ReadPending
<1>9. ReadCache(e) => Goto(e, "encode") \/ Goto(e, "find")
  BY <1>1 DEF ReadCache
<1>10. FindLatest(e) => Goto(e, "encode") \/ Goto(e, "fill")
  BY <1>1 DEF FindLatest
<1>11. FillCache(e) => Goto(e, "encode")
  BY DEF FillCache
<1>12. EncodeSnapshot(e) => Goto(e, "del")
  BY <1>1 DEF EncodeSnapshot
<1>13. DeletePending(e) => Goto(e, "insert") /\ pending' = {}
  BY <1>1 DEF DeletePending, Applied
<1>14. CreateSnapshot(e) => Goto(e, "unjob")
  BY <1>1 DEF CreateSnapshot
<1>15. RemoveIdleJob(e) => Goto(e, "unlock") /\ job' \in Removed
  BY <1>1 DEF RemoveIdleJob
<1>16. Unlock(e) => Goto(e, "done") /\ lock' = Free
  BY <1>1 DEF Unlock, Applied
<1>17. ~CrashHandler(e)
  BY <1>1 DEF CrashHandler
<1>18. QED
  BY <1>3, <1>4, <1>5, <1>6, <1>7, <1>8, <1>9, <1>10, <1>11, <1>12, <1>13, <1>14, <1>15,
     <1>16, <1>17

\* The same for the worker.
LEMMA CalmWorker ==
  ASSUME TypeOK, faults = 0, faults' = 0
  PROVE  /\ ~JobThrows /\ ~CrashWorker
         /\ JobAcquiresLock => \/ lock = Free /\ Goto(Worker, "read") /\ lock' = Worker
                               \/ lock # Free /\ Goto(Worker, "complete") /\ lock' = lock
<1>1. ~Outcome(FALSE)
  BY DEF Outcome
<1>2. ~JobThrows /\ ~CrashWorker
  BY <1>1 DEF JobThrows, CrashWorker
<1>3. QED
  BY <1>1, <1>2 DEF JobAcquiresLock, JobContinues

LEMMA CalmFresh ==
  ASSUME CalmInv, Timely, faults = 0, faults' = 0, Next
  PROVE  FreshInv'
<1> USE DEF CalmInv, PhaseInv, TypeInv, TypeOK, FreshInv, Procs, Goto, Step, Outcome, Rows,
        Forget, handlers, ghosts
<1>1. ASSUME NEW e \in Events,
             \/ HashStroke(e) \/ RemoveOldJob(e) \/ AddJob(e) \/ CountPending(e)
             \/ AcquireLock(e) \/ ReadPending(e) \/ ReadCache(e) \/ FindLatest(e)
             \/ FillCache(e) \/ EncodeSnapshot(e) \/ RemoveIdleJob(e) \/ Unlock(e)
      PROVE  FreshInv'
  <2>1. UNCHANGED <<db, clock, stamp>> /\ pc'[e] # "insert" /\ e # Worker
        /\ \A q \in Procs \ {e} : pc'[q] = pc[q]
    BY <1>1 DEF HashStroke, RemoveOldJob, AddJob, CountPending, AcquireLock, ReadPending,
         ReadCache, FindLatest, FillCache, EncodeSnapshot, RemoveIdleJob, Unlock
  <2>2. QED
    BY <2>1
<1>2. ASSUME NEW e \in Events, DeletePending(e) PROVE FreshInv'
  BY <1>2 DEF DeletePending
<1>3. ASSUME NEW e \in Events, CreateSnapshot(e) PROVE FreshInv'
  <2>1. db' = Inserted(e) \/ db' = db
    BY <1>3 DEF CreateSnapshot, Applied
  <2>2. \A q \in Procs \ {e} : pc'[q] = pc[q] /\ pc[q] \notin Critical
    BY <1>3 DEF CreateSnapshot, FlushMutex, Critical
  <2>3. QED
    BY <1>3, <2>1, <2>2 DEF CreateSnapshot, Critical, Inserted
<1>4. CASE JobReadsCache \/ JobFindsLatest
  <2>1. UNCHANGED db /\ clock' \in {clock, clock + 1}
        /\ \A q \in Procs \ {Worker} :
             pc'[q] = pc[q] /\ pc[q] \notin Critical /\ stamp'[q] = stamp[q]
    BY <1>4 DEF JobReadsCache, JobFindsLatest, JobContinues, JobThrows, TakeStamp, FlushMutex,
         Critical
  <2>2. pc'[Worker] \in {"find", "encode", "idle"}
        /\ (pc'[Worker] = "encode" => stamp'[Worker] = clock + 1 /\ clock' = clock + 1)
    BY <1>4 DEF JobReadsCache, JobFindsLatest, JobContinues, JobThrows, TakeStamp
  <2>3. QED
    BY <2>1, <2>2 DEF Critical
<1>5. CASE JobEncodes
  <2>1. UNCHANGED <<db, clock>> /\ pc[Worker] = "encode"
        /\ \A q \in Procs \ {Worker} : pc'[q] = pc[q] /\ pc[q] \notin Critical
    BY <1>5 DEF JobEncodes, JobContinues, JobThrows, FlushMutex, Critical
  <2>2. UNCHANGED stamp
    BY <1>5 DEF JobEncodes, JobContinues, JobThrows
  <2>3. QED
    BY <2>1, <2>2 DEF Critical
<1>6. CASE JobInserts
  <2>1. UNCHANGED clock /\ db' \in {Inserted(Worker), db} /\ pc[Worker] = "insert"
        /\ \A q \in Procs \ {Worker} : pc'[q] = pc[q] /\ pc[q] \notin Critical
    BY <1>6 DEF JobInserts, JobContinues, JobThrows, FlushMutex, Critical
  <2>2. pc'[Worker] \notin {"insert", "encode"}
    BY <1>6 DEF JobInserts, JobContinues, JobThrows
  <2>3. QED
    BY <2>1, <2>2 DEF Critical, Inserted
<1>7. CASE \/ JobAcquiresLock \/ JobReadsPending \/ JobDeletesPending \/ JobUnlocks \/ CompleteJob
           \/ StartJob \/ CrashWorker \/ RestartStalledJob
  <2>1. UNCHANGED <<db, clock>>
        /\ \A q \in Procs \ {Worker} : pc'[q] = pc[q] /\ stamp'[q] = stamp[q]
    BY <1>7 DEF JobAcquiresLock, JobReadsPending, JobDeletesPending, JobUnlocks, CompleteJob,
         StartJob, CrashWorker, RestartStalledJob, JobContinues, JobThrows
  <2>2. pc'[Worker] \notin {"insert", "encode"} \/ UNCHANGED <<pc, stamp>>
    BY <1>7 DEF JobAcquiresLock, JobReadsPending, JobDeletesPending, JobUnlocks, CompleteJob,
         StartJob, CrashWorker, RestartStalledJob, JobContinues, JobThrows
  <2>3. QED
    BY <2>1, <2>2
<1>8. CASE ExpireLock \/ ExpireSnapshot \/ ExpirePending \/ UNCHANGED vars
  BY <1>8 DEF ExpireLock, ExpireSnapshot, ExpirePending, vars
<1>9. ASSUME NEW e \in Events, CrashHandler(e) PROVE FALSE
  BY <1>9 DEF CrashHandler
<1>10. QED
  BY <1>1, <1>2, <1>3, <1>4, <1>5, <1>6, <1>7, <1>8, <1>9
     DEF Next, Background, Rest, HandleDraw, RunJob

LEMMA CalmSync ==
  ASSUME CalmInv, Timely, faults = 0, faults' = 0, Next
  PROVE  SyncInv'
<1> USE DEF CalmInv, PhaseInv, TypeInv, TypeOK, SyncInv, Saving, Procs, Goto, Step, Outcome,
        Works, Forget, handlers, ghosts
<1>1. ASSUME NEW e \in Events,
             \/ HashStroke(e) \/ RemoveOldJob(e) \/ AddJob(e) \/ CountPending(e)
             \/ AcquireLock(e) \/ ReadPending(e) \/ ReadCache(e) \/ FindLatest(e)
             \/ RemoveIdleJob(e) \/ Unlock(e)
      PROVE  SyncInv'
  <2>1. UNCHANGED <<db, snap>> /\ ~Saving(e)' /\ ~Saving(e)
        /\ \A q \in Procs \ {e} : pc'[q] = pc[q] /\ work'[q] = work[q]
    BY <1>1 DEF HashStroke, RemoveOldJob, AddJob, CountPending, AcquireLock, ReadPending,
         ReadCache, FindLatest, RemoveIdleJob, Unlock
  <2>2. \A q \in Procs : Saving(q)' <=> Saving(q)
    BY <2>1
  <2>3. QED
    BY <2>1, <2>2
<1>2. ASSUME NEW e \in Events, FillCache(e) PROVE SyncInv'
  <2>1. row[e] = db.strokes /\ UNCHANGED db
    BY <1>2 DEF FillCache, InPhase, FlushPhase
  <2>2. snap' = Stored(row[e], TRUE)
    <3>1. PICK ok \in BOOLEAN : Outcome(ok) /\ snap' \in Applied(ok, Stored(row[e], TRUE), snap)
      BY <1>2 DEF FillCache
    <3>2. ok
      BY <3>1
    <3>3. QED
      BY <3>1, <3>2 DEF Applied
  <2>3. \A q \in Procs : ~Saving(q)'
    BY <1>2 DEF FillCache, FlushMutex, Critical
  <2>4. pc'[Worker] \notin Critical
    BY <1>2 DEF FillCache, FlushMutex, Critical
  <2>5. QED
    BY <2>1, <2>2, <2>3, <2>4 DEF Stored, Critical
<1>3. ASSUME NEW e \in Events, EncodeSnapshot(e) PROVE SyncInv'
  <2>1. snap' = Stored(work'[e], TRUE) /\ Saving(e)'
    <3>1. PICK ok \in BOOLEAN : /\ Step(e, ok, "del")
                               /\ snap' \in Applied(ok, Stored(work[e], TRUE), snap)
                               /\ Works(e, IF ok THEN work[e] ELSE {})
      BY <1>3 DEF EncodeSnapshot
    <3>2. ok
      BY <3>1
    <3>3. QED
      BY <1>3, <3>1, <3>2 DEF Applied
  <2>2. \A q \in Procs \ {e} : ~Saving(q)'
    BY <1>3 DEF EncodeSnapshot, FlushMutex, Critical
  <2>3. pc'[Worker] \notin Critical
    BY <1>3 DEF EncodeSnapshot, FlushMutex, Critical
  <2>4. QED
    BY <2>1, <2>2, <2>3 DEF Stored, Critical
<1>4. ASSUME NEW e \in Events, DeletePending(e) PROVE SyncInv'
  <2>1. UNCHANGED <<snap, db, work>> /\ Saving(e) /\ Saving(e)'
    BY <1>4 DEF DeletePending
  <2>2. \A q \in Procs \ {e} : ~Saving(q)'
    BY <1>4 DEF DeletePending, FlushMutex, Critical
  <2>3. pc'[Worker] \notin Critical
    BY <1>4 DEF DeletePending, FlushMutex, Critical
  <2>4. QED
    BY <2>1, <2>2, <2>3 DEF Critical
<1>5. ASSUME NEW e \in Events, CreateSnapshot(e) PROVE SyncInv'
  <2>1. db' = Inserted(e) /\ Saving(e) /\ ~Saving(e)' /\ UNCHANGED snap
    BY <1>5 DEF CreateSnapshot, Applied
  <2>2. db'.strokes = work[e]
    BY <1>5, <2>1 DEF CreateSnapshot, Inserted, FreshInv
  <2>3. \A q \in Procs \ {e} : ~Saving(q)'
    BY <1>5 DEF CreateSnapshot, FlushMutex, Critical
  <2>4. pc'[Worker] \notin Critical
    BY <1>5 DEF CreateSnapshot, FlushMutex, Critical
  <2>5. QED
    BY <2>1, <2>2, <2>4, <2>3 DEF Critical
<1>6. CASE JobEncodes
  <2>1. snap' = Stored(work'[Worker], FALSE) /\ Saving(Worker)'
    BY <1>6 DEF JobEncodes, JobContinues, JobThrows
  <2>2. \A q \in Procs \ {Worker} : ~Saving(q)'
    BY <1>6 DEF JobEncodes, JobContinues, JobThrows, FlushMutex, Critical
  <2>3. QED
    BY <2>1, <2>2 DEF Stored
<1>7. CASE JobInserts
  <2>1. db' = Inserted(Worker) /\ Saving(Worker) /\ ~Saving(Worker)' /\ UNCHANGED snap
    BY <1>7 DEF JobInserts, JobContinues, JobThrows
  <2>2. db'.strokes = work[Worker]
    BY <1>7, <2>1 DEF JobInserts, Inserted, FreshInv
  <2>3. \A q \in Procs \ {Worker} : ~Saving(q)'
    BY <1>7 DEF JobInserts, JobContinues, JobThrows, FlushMutex, Critical
  <2>4. QED
    BY <2>1, <2>2, <2>3
<1>8. CASE \/ JobAcquiresLock \/ JobReadsPending \/ JobReadsCache \/ JobFindsLatest
           \/ JobDeletesPending \/ JobUnlocks \/ CompleteJob \/ StartJob
           \/ CrashWorker \/ RestartStalledJob
  <2>1. UNCHANGED <<db, snap>>
        /\ \A q \in Procs \ {Worker} : pc'[q] = pc[q] /\ work'[q] = work[q]
    BY <1>8 DEF JobAcquiresLock, JobReadsPending, JobReadsCache, JobFindsLatest,
         JobDeletesPending, JobUnlocks, CompleteJob, StartJob, CrashWorker,
         RestartStalledJob, JobContinues, JobThrows
  <2>2. (pc[Worker] # "insert" /\ pc'[Worker] \notin {"insert", "del"}) \/ UNCHANGED <<pc, work>>
    BY <1>8 DEF JobAcquiresLock, JobReadsPending, JobReadsCache, JobFindsLatest,
         JobDeletesPending, JobUnlocks, CompleteJob, StartJob, CrashWorker,
         RestartStalledJob, JobContinues, JobThrows, QueueInv, NoJob
  <2>3. \A q \in Procs : Saving(q)' <=> Saving(q)
    BY <2>1, <2>2
  <2>4. QED
    BY <2>1, <2>2, <2>3
<1>9. CASE ExpireSnapshot
  <2>1. ~snap'.there /\ ~snap'.ttl /\ UNCHANGED <<pc, work>>
    BY <1>9 DEF ExpireSnapshot, NoSnap
  <2>2. \A q \in Procs : ~Saving(q)
    BY <1>9 DEF ExpireSnapshot
  <2>3. QED
    BY <2>1, <2>2
<1>10. CASE ExpireLock \/ ExpirePending \/ UNCHANGED vars
  BY <1>10 DEF ExpireLock, ExpirePending, vars
<1>11. ASSUME NEW e \in Events, CrashHandler(e) PROVE FALSE
  BY <1>11 DEF CrashHandler
<1>12. QED
  BY <1>1, <1>2, <1>3, <1>4, <1>5, <1>6, <1>7, <1>8, <1>9, <1>10, <1>11
     DEF Next, Background, Rest, HandleDraw, RunJob

LEMMA CalmQueue ==
  ASSUME CalmInv, Timely, faults = 0, faults' = 0, Next
  PROVE  QueueInv'
<1> USE DEF CalmInv, PhaseInv, TypeInv, TypeOK, JobInv, QueueInv, Procs, Goto, NoJob, handlers,
        ghosts
<1>1. ASSUME NEW e \in Events, RemoveOldJob(e) \/ RemoveIdleJob(e) PROVE QueueInv'
  BY <1>1, CalmHandler DEF RemoveOldJob, RemoveIdleJob, Removed, Critical
<1>2. ASSUME NEW e \in Events, AddJob(e) PROVE QueueInv'
  <2>1. job' = NewJob \/ job' = job
    BY <1>2, CalmHandler
  <2>2. UNCHANGED lock /\ pc[e] = "add" /\ pc' = [pc EXCEPT ![e] = "hlen"]
    BY <1>2, CalmHandler DEF AddJob
  <2>3. QED
    BY <2>1, <2>2 DEF NewJob, Critical
<1>3. ASSUME NEW e \in Events, AcquireLock(e) PROVE QueueInv'
  BY <1>3, CalmHandler DEF AcquireLock, Critical
<1>4. ASSUME NEW e \in Events, Unlock(e) PROVE QueueInv'
  BY <1>4, CalmHandler DEF Unlock, Critical
<1>5. ASSUME NEW e \in Events,
             \/ HashStroke(e) \/ CountPending(e) \/ ReadPending(e) \/ ReadCache(e)
             \/ FindLatest(e) \/ FillCache(e) \/ EncodeSnapshot(e) \/ DeletePending(e)
             \/ CreateSnapshot(e)
      PROVE  QueueInv'
  <2>1. UNCHANGED <<job, lock>>
    BY <1>5 DEF HashStroke, CountPending, ReadPending, ReadCache, FindLatest, FillCache,
         EncodeSnapshot, DeletePending, CreateSnapshot
  <2>2. \E l \in Labels : Goto(e, l) /\ (pc[e] \in Critical => l \in Critical)
    BY <1>5, CalmHandler DEF HashStroke, CountPending, Labels, Critical
  <2>3. QED
    BY <2>1, <2>2
<1>6. CASE StartJob
  BY <1>6 DEF StartJob, Quiet
<1>7. CASE RunJob /\ ~CompleteJob
  <2>1. \E l \in Critical \cup {"complete"} : Goto(Worker, l)
    BY <1>7, CalmWorker DEF RunJob, JobAcquiresLock, JobReadsPending, JobReadsCache, JobFindsLatest,
         JobEncodes, JobInserts, JobDeletesPending, JobUnlocks, JobContinues, Critical
  <2>2. UNCHANGED job
    BY <1>7, CalmWorker DEF RunJob, JobAcquiresLock, JobReadsPending, JobReadsCache, JobFindsLatest,
         JobEncodes, JobInserts, JobDeletesPending, JobUnlocks, JobContinues
  <2>3. lock' \in {lock, Worker, Free}
    BY <1>7, CalmWorker DEF RunJob, JobAcquiresLock, JobReadsPending, JobReadsCache, JobFindsLatest,
         JobEncodes, JobInserts, JobDeletesPending, JobUnlocks
  <2>4. QED
    BY <2>1, <2>2, <2>3 DEF Critical
<1>8. CASE CompleteJob
  BY <1>8 DEF CompleteJob
<1>9. CASE CrashWorker \/ RestartStalledJob
  BY <1>9, CalmWorker DEF RestartStalledJob
<1>10. CASE ExpireLock \/ ExpireSnapshot \/ ExpirePending \/ UNCHANGED vars
  BY <1>10 DEF ExpireLock, ExpireSnapshot, ExpirePending, vars
<1>11. QED
  BY <1>1, <1>2, <1>3, <1>4, <1>5, <1>6, <1>7, <1>8, <1>9, <1>10, CalmHandler
     DEF Next, Background, Rest, HandleDraw

\* A step that takes no watcher away.
LEMMA WatchFrame ==
  ASSUME CalmInv, NEW p \in Procs, UNCHANGED <<pending, raced, unwatched>>,
         \A q \in Procs \ {p} : pc'[q] = pc[q],
         pc'[p] \in {"insert", "unjob", "unlock"} /\ p \in Events => pending \subseteq unwatched,
         Watched => Watched'
  PROVE  WatchInv'
BY DEF CalmInv, WatchInv, Procs

LEMMA WatchHash ==
  ASSUME CalmInv, Timely, faults = 0, faults' = 0, NEW e \in Events, HashStroke(e)
  PROVE  WatchInv'
<1> USE DEF CalmInv, PhaseInv, TypeInv, TypeOK, JobInv, Procs, Goto, Step, Outcome
<1>1. /\ pending' = pending \cup {e} /\ pc'[e] = "remove" /\ pc[e] = "hset"
      /\ \A q \in Procs \ {e} : pc'[q] = pc[q]
      /\ raced' = raced \cup {s \in pending' \ pending : \E p \in Procs : Racing(p)}
      /\ unwatched' = unwatched \cup {s \in pending' \ pending : \E p \in Procs : Finishing(p)}
      /\ UNCHANGED job
  BY CalmHandler DEF HashStroke
<1>2. \A p \in Procs : Racing(p) => Finishing(p)
  BY DEF Racing, Finishing, BeforeDel, WorkerBeforeDel, Critical
<1>3. raced' \subseteq unwatched'
  BY <1>1, <1>2 DEF WatchInv
<1>4. Watched => Watched'
  <2>1. ~Racing(e) /\ pc[e] # "read" /\ pc[e] \notin {"remove", "add"} /\ e # Worker
    BY <1>1 DEF Racing, BeforeDel
  <2>2. \A q \in Procs \ {e} : Racing(q) => Racing(q)'
    BY <1>1 DEF Racing
  <2>3. QED
    BY <1>1, <2>1, <2>2 DEF Watched
<1>5. CASE \E p \in Procs : Finishing(p)
  <2>1. pending' \ unwatched' \subseteq pending \ unwatched
    BY <1>1, <1>5
  <2>2. QED
    BY <1>1, <1>3, <1>4, <2>1 DEF WatchInv
<1>6. CASE \A p \in Procs : ~Finishing(p)
  <2>1. \A d \in Events : pc'[d] \notin {"insert", "unjob", "unlock"}
    BY <1>1, <1>6 DEF Finishing, Critical
  <2>2. CASE job.state # "active"
    <3>1. Watched'
      BY <1>1, <2>2 DEF Watched
    <3>2. QED
      BY <1>3, <2>1, <3>1 DEF WatchInv
  <2>3. CASE job.state = "active"
    <3>1. pc[Worker] \in {"lock", "read"}
      BY <1>6, <2>3 DEF QueueInv, Finishing
    <3>2. pc'[Worker] = pc[Worker]
      BY <1>1
    <3>3. Watched'
      BY <3>1, <3>2 DEF Watched
    <3>4. QED
      BY <1>3, <2>1, <3>3 DEF WatchInv
  <2>4. QED
    BY <2>2, <2>3
<1>7. QED
  BY <1>5, <1>6

\* A step of a handler that drops no job: nobody stops watching.
LEMMA WatchHandler ==
  ASSUME CalmInv, Timely, faults = 0, faults' = 0, NEW e \in Events, HandleDraw(e)
  PROVE  WatchInv'
<1> USE DEF CalmInv, PhaseInv, TypeInv, TypeOK, Procs
<1>1. UNCHANGED <<raced, unwatched>> /\ e # Worker
  BY DEF HandleDraw, RemoveOldJob, AddJob, CountPending, AcquireLock, ReadPending, ReadCache,
     FindLatest, FillCache, EncodeSnapshot, DeletePending, CreateSnapshot, RemoveIdleJob,
     Unlock, ghosts
<1>2. \A q \in Procs \ {e} : pc'[q] = pc[q]
  BY CalmHandler DEF HandleDraw, Goto
<1>3. \A q \in Procs \ {e} : Racing(q)' <=> Racing(q)
  BY <1>2 DEF Racing
<1>4. \A l : Goto(e, l) => pc'[e] = l
  BY DEF Goto
<1>5. CASE RemoveOldJob(e)
  <2>1. pc[e] = "remove" /\ pc'[e] = "add" /\ UNCHANGED pending
    BY <1>4, <1>5, CalmHandler DEF RemoveOldJob
  <2>2. job' \in {job, NoJob} /\ (job.state = "active" => job' = job)
    BY <1>5, CalmHandler DEF Removed, RemoveOldJob
  <2>3. ~Racing(e)
    BY <1>1, <2>1 DEF Racing, BeforeDel
  <2>4. job'.state # "active" => Watched'
    BY <2>1 DEF Watched
  <2>5. job'.state = "active" /\ Watched => Watched'
    BY <1>1, <1>2, <1>3, <2>1, <2>2, <2>3 DEF Watched, NoJob
  <2>6. QED
    BY <1>1, <1>2, <2>1, <2>4, <2>5 DEF WatchInv
<1>6. CASE AddJob(e)
  <2>1. pc[e] = "add" /\ pc'[e] = "hlen" /\ UNCHANGED pending
    BY <1>4, <1>6, CalmHandler DEF AddJob
  <2>2. job' = IF job = NoJob THEN NewJob ELSE job
    BY <1>6, CalmHandler
  <2>3. ~Racing(e)
    BY <1>1, <2>1 DEF Racing, BeforeDel
  <2>4. job'.state = "delayed" \/ (job.state = "active" /\ job' = job)
    BY <2>2 DEF QueueInv, NewJob
  <2>5. Watched => Watched'
    BY <1>1, <1>2, <1>3, <2>1, <2>3, <2>4 DEF Watched
  <2>6. QED
    BY <1>1, <1>2, <2>1, <2>5 DEF WatchInv
<1>7. CASE CountPending(e) \/ AcquireLock(e) \/ ReadPending(e)
  <2>1. UNCHANGED <<job, pending>> /\ pc[e] \notin {"remove", "add"}
    BY <1>7 DEF CountPending, AcquireLock, ReadPending
  <2>2. pc'[e] \notin {"insert", "unjob", "unlock"} /\ ~Racing(e)
    BY <1>1, <1>4, <1>7, CalmHandler
       DEF Racing, BeforeDel, CountPending, AcquireLock, ReadPending
  <2>3. pc[e] = "read" => Racing(e)'
    BY <1>1, <1>4, <1>7, CalmHandler
       DEF Racing, BeforeDel, CountPending, AcquireLock, ReadPending
  <2>4. Watched => Watched'
    BY <1>1, <1>2, <1>3, <2>1, <2>2, <2>3 DEF Watched
  <2>5. QED
    BY <1>1, <1>2, <2>1, <2>2, <2>4 DEF WatchInv
<1>8. CASE ReadCache(e) \/ FindLatest(e) \/ FillCache(e) \/ EncodeSnapshot(e)
  <2>1. UNCHANGED <<job, pending>> /\ pc[e] \notin {"remove", "add", "read"}
    BY <1>8 DEF ReadCache, FindLatest, FillCache, EncodeSnapshot
  <2>2. pc'[e] \in BeforeDel
    BY <1>4, <1>8, CalmHandler DEF BeforeDel
  <2>3. Racing(e)'
    BY <1>1, <2>2 DEF Racing
  <2>4. Watched => Watched'
    BY <1>2, <1>3, <2>1, <2>3 DEF Watched
  <2>5. QED
    BY <1>1, <1>2, <2>1, <2>2, <2>4 DEF WatchInv, BeforeDel
<1>9. CASE DeletePending(e)
  <2>1. pending' = {}
    BY <1>9, CalmHandler
  <2>2. QED
    BY <1>1, <2>1 DEF WatchInv
<1>10. CASE CreateSnapshot(e) \/ Unlock(e)
  <2>1. UNCHANGED <<job, pending>> /\ pc[e] \in {"insert", "unlock"}
    BY <1>10 DEF CreateSnapshot, Unlock
  <2>2. pending \subseteq unwatched
    BY <2>1 DEF WatchInv
  <2>3. QED
    BY <1>1, <2>1, <2>2 DEF WatchInv
<1>11. CASE RemoveIdleJob(e)
  <2>1. pc[e] = "unjob" /\ UNCHANGED pending
    BY <1>11 DEF RemoveIdleJob
  <2>2. pending \subseteq unwatched
    BY <2>1 DEF WatchInv
  <2>3. QED
    BY <1>1, <2>1, <2>2 DEF WatchInv
<1>12. QED
  BY <1>5, <1>6, <1>7, <1>8, <1>9, <1>10, <1>11 DEF HandleDraw

LEMMA WatchWorker ==
  ASSUME CalmInv, Timely, faults = 0, faults' = 0,
         StartJob \/ RunJob \/ CrashWorker \/ RestartStalledJob
  PROVE  WatchInv'
<1> USE DEF CalmInv, PhaseInv, TypeInv, TypeOK, JobInv, Procs
<1>1. UNCHANGED <<raced, unwatched>> /\ \A e \in Events : pc'[e] = pc[e]
  BY CalmWorker DEF StartJob, RunJob, RestartStalledJob, JobAcquiresLock, JobReadsPending,
     JobReadsCache, JobFindsLatest, JobEncodes, JobInserts, JobDeletesPending, JobUnlocks,
     CompleteJob, JobContinues, Goto, ghosts
<1>2. \A e \in Events : Racing(e)' <=> Racing(e)
  BY <1>1 DEF Racing
<1>3. \A l : Goto(Worker, l) => pc'[Worker] = l
  BY DEF Goto
<1>4. ASSUME UNCHANGED pending, Watched' PROVE WatchInv'
  BY <1>1, <1>4 DEF WatchInv
<1>5. ASSUME pending' = {} PROVE WatchInv'
  BY <1>1, <1>5 DEF WatchInv
<1>6. CASE StartJob
  BY <1>3, <1>4, <1>6 DEF StartJob, Watched
<1>7. CASE JobAcquiresLock
  <2>1. UNCHANGED <<pending, job>>
    BY <1>7, CalmWorker DEF JobAcquiresLock, JobContinues
  <2>2. CASE lock = Free
    <3>1. pc'[Worker] = "read"
      BY <1>3, <1>7, <2>2, CalmWorker
    <3>2. QED
      BY <1>4, <2>1, <3>1 DEF Watched
  <2>3. CASE lock # Free
    <3>1. PICK e \in Events : pc[e] \in Critical
      BY <1>7, <2>3 DEF QueueInv, JobAcquiresLock
    <3>2. CASE pc[e] \in {"insert", "unjob", "unlock"}
      BY <1>1, <2>1, <3>1, <3>2 DEF WatchInv
    <3>3. CASE pc[e] \notin {"insert", "unjob", "unlock"}
      <4>1. pc'[e] = "read" \/ Racing(e)'
        BY <1>1, <3>1, <3>3 DEF Critical, Racing, BeforeDel
      <4>2. QED
        BY <1>4, <2>1, <3>1, <4>1 DEF Watched
    <3>4. QED
      BY <3>2, <3>3
  <2>4. QED
    BY <2>2, <2>3
<1>8. CASE JobReadsPending
  <2>1. UNCHANGED pending
    BY <1>8 DEF JobReadsPending
  <2>2. CASE pending = {}
    BY <1>5, <2>1, <2>2
  <2>3. CASE pending # {}
    <3>1. pc'[Worker] = "cache"
      BY <1>3, <1>8, <2>3, CalmWorker DEF JobReadsPending, JobContinues
    <3>2. QED
      BY <1>4, <2>1, <3>1 DEF Watched, Racing, WorkerBeforeDel
  <2>4. QED
    BY <2>2, <2>3
<1>9. CASE JobReadsCache \/ JobFindsLatest \/ JobEncodes \/ JobInserts
  <2>1. UNCHANGED pending
    BY <1>9 DEF JobReadsCache, JobFindsLatest, JobEncodes, JobInserts
  <2>2. pc'[Worker] \in WorkerBeforeDel
    BY <1>3, <1>9, CalmWorker
       DEF JobReadsCache, JobFindsLatest, JobEncodes, JobInserts, JobContinues, WorkerBeforeDel
  <2>3. QED
    BY <1>4, <2>1, <2>2 DEF Watched, Racing
<1>10. CASE JobDeletesPending
  BY <1>5, <1>10, CalmWorker DEF JobDeletesPending
<1>11. CASE JobUnlocks \/ CompleteJob
  <2>1. UNCHANGED pending /\ job' \in {job, NoJob} /\ pc[Worker] \in {"unlock", "complete"}
        /\ job.state = "active"
    BY <1>11, CalmWorker DEF JobUnlocks, CompleteJob, JobContinues
  <2>2. Watched => \E e \in Events : pc[e] = "read" \/ Racing(e)
    BY <2>1 DEF Watched, Racing, WorkerBeforeDel
  <2>3. Watched => Watched'
    BY <1>1, <1>2, <2>2 DEF Watched
  <2>4. QED
    BY <1>1, <2>1, <2>3 DEF WatchInv
<1>12. CASE CrashWorker \/ RestartStalledJob
  BY <1>12, CalmWorker DEF RestartStalledJob, QueueInv, NoJob
<1>13. QED
  BY <1>6, <1>7, <1>8, <1>9, <1>10, <1>11, <1>12 DEF RunJob

LEMMA WatchTime ==
  ASSUME CalmInv, ExpireLock \/ ExpireSnapshot \/ ExpirePending \/ UNCHANGED vars
  PROVE  WatchInv'
<1>1. UNCHANGED <<pc, job, raced, unwatched>> /\ pending' \in {pending, {}}
  BY DEF ExpireLock, ExpireSnapshot, ExpirePending, vars, handlers, ghosts
<1>2. Watched => Watched'
  BY <1>1 DEF Watched, Racing
<1>3. QED
  BY <1>1, <1>2 DEF CalmInv, WatchInv

\* The TTLs leave the canvas as it is, but for unwatched strokes, and the phases, too.
LEMMA CalmTtl ==
  ASSUME CalmInv, Timely, ExpireSnapshot \/ ExpirePending
  PROVE  InPhase' /\ Spared
<1> USE DEF CalmInv, PhaseInv, TypeInv, TypeOK, InPhase
<1>1. UNCHANGED <<pc, work, row, db, raced>>
  BY DEF ExpireSnapshot, ExpirePending, handlers, ghosts
<1>2. CASE ExpireSnapshot
  <2>1. \A p \in Procs : ~Saving(p)
    BY <1>2 DEF ExpireSnapshot, SyncInv, Saving, Procs
  <2>2. UNCHANGED pending /\ ~snap'.there /\ snap.there /\ snap.strokes = db.strokes
    BY <1>2, <2>1 DEF ExpireSnapshot, NoSnap, SyncInv
  <2>3. Canvas' = Canvas
    BY <1>1, <2>2 DEF Canvas
  <2>4. \A p \in Procs : pc[p] \notin {"del", "insert"}
    BY <1>2 DEF ExpireSnapshot, SyncInv, Procs
  <2>5. QED
    BY <1>1, <2>2, <2>3, <2>4 DEF FlushPhase, Racing, Spared
<1>3. CASE ExpirePending
  <2>1. pending' = {} /\ UNCHANGED snap /\ pc[Worker] = "idle"
        /\ \A e \in Events : pc[e] \in {"hset", "done"}
    BY <1>3 DEF ExpirePending, JobInv
  <2>2. ~Watched
    BY <1>3, <2>1 DEF ExpirePending, Watched, Racing, BeforeDel, WorkerBeforeDel, Procs
  <2>3. pending \subseteq unwatched
    BY <2>2 DEF WatchInv
  <2>4. QED
    BY <1>1, <2>1, <2>3 DEF FlushPhase, Racing, Spared, Canvas, Procs
<1>4. QED
  BY <1>2, <1>3

LEMMA CalmStep ==
  ASSUME CalmInv, Timely, faults = 0, faults' = 0, [Next]_vars
  PROVE  CalmInv' /\ Spared
<1>1. CASE UNCHANGED vars
  BY <1>1 DEF vars, CalmInv, PhaseInv, TypeInv, TypeOK, JobInv, FlushMutex, InPhase, FlushPhase,
     RowInv, FreshInv, SyncInv, Saving, QueueInv, WatchInv, Watched, Racing, Spared, Canvas
<1>2. CASE Next
  <2>1. TypeInv' /\ FlushMutex' /\ RowInv'
    BY TypeStep, MutexStep, RowStep DEF CalmInv, PhaseInv
  <2>2. FreshInv' /\ SyncInv' /\ QueueInv'
    BY <1>2, CalmFresh, CalmSync, CalmQueue
  <2>3. WatchInv'
    BY <1>2, WatchHash, WatchHandler, WatchWorker, WatchTime, CalmHandler
       DEF Next, Background, Rest, CalmInv, PhaseInv, TypeInv
  <2>4. InPhase' /\ Spared
    <3>1. CASE ExpireSnapshot \/ ExpirePending
      BY <3>1, CalmTtl
    <3>2. CASE ~ExpireSnapshot /\ ~ExpirePending
      BY <1>2, <3>2, PhaseHash, PhaseFlush, PhaseJob, PhaseOther
         DEF Next, Background, Rest, HandleDraw, RunJob, NoLoss, Spared, CalmInv, WatchInv
    <3>3. QED
      BY <3>1, <3>2
  <2>5. QED
    BY <2>1, <2>2, <2>3, <2>4 DEF CalmInv, PhaseInv
<1>3. QED
  BY <1>1, <1>2

LEMMA CalmInit == Init => CalmInv
<1> SUFFICES ASSUME Init PROVE CalmInv
  OBVIOUS
<1>1. PhaseInv
  BY PhaseInit
<1>2. FreshInv
  BY DEF Init, FreshInv, Procs, NoRow
<1>3. SyncInv
  BY DEF Init, SyncInv, Saving, Procs, NoRow, NoSnap, Stored
<1>4. QueueInv
  BY DEF Init, QueueInv, Procs, NoJob
<1>5. WatchInv
  BY DEF Init, WatchInv
<1>6. QED
  BY <1>1, <1>2, <1>3, <1>4, <1>5 DEF CalmInv

\* As long as nothing fails, the one-day TTLs of hash and snapshot take no stroke from
\* the canvas that is not in the database, but for those hashed while a flusher was
\* finishing: however handlers and worker interleave, a pending stroke keeps a job, a
\* handler that adds one, or a flush that has it. For any number of strokes, if flushes
\* take less than LOCK_TTL.
THEOREM TtlsTakeUnwatchedStrokesOnly ==
  ASSUME Timely PROVE Spec => OnlyUnwatchedStrokesExpire
<1> DEFINE Inv == TypeInv /\ (faults = 0 => CalmInv)
<1>1. Init => Inv
  BY CalmInit DEF CalmInv, PhaseInv
<1>2. Inv /\ [Next]_vars => Inv' /\ [faults' = 0 => Spared]_vars
  <2> SUFFICES ASSUME Inv, [Next]_vars PROVE Inv' /\ [faults' = 0 => Spared]_vars
    OBVIOUS
  <2>1. TypeInv'
    BY TypeStep
  <2>2. CASE faults' = 0
    <3>1. faults = 0
      BY <2>2, FailuresRemain DEF TypeInv
    <3>2. QED
      BY <2>1, <2>2, <3>1, CalmStep
  <2>3. CASE faults' # 0
    BY <2>1, <2>3
  <2>4. QED
    BY <2>2, <2>3
<1>3. QED
  BY <1>1, <1>2, PTL DEF Spec, OnlyUnwatchedStrokesExpire, Spared

-----------------------------------------------------------------------------
(* CanvasPipeline implements CanvasContract as long as flushes take less   *)
(* than LOCK_TTL and nothing is evicted. A flush merges strokes of the     *)
(* canvas only, and when it inserts its row the cached snapshot is what it *)
(* merged.                                                                 *)

MergePhase(p) ==
  /\ pc[p] \in {"cache", "find", "fill", "encode"} => work[p] \subseteq Canvas
  /\ Saving(p) => work[p] = snap.strokes /\ pending \ unwatched \subseteq work[p]

MergeInv ==
  /\ raced \subseteq unwatched
  /\ snap.there \/ snap.strokes = {}
  /\ \A p \in Procs : MergePhase(p)

RefInv == PhaseInv /\ MergeInv

\* The promise of the contract for one step: a stutter, or a step of it.
Kept == Contract!Next \/ UNCHANGED <<Canvas, db.strokes, unwatched>>

\* The labels that MergePhase says something of.
Merging == {"cache", "find", "fill", "encode", "insert", "del"}

LEMMA RacingIsFinishing == \A p \in Procs : Racing(p) => Finishing(p)
BY DEF Racing, Finishing, BeforeDel, WorkerBeforeDel, Critical

\* A step that moves nothing on the canvas, by p or outside of flushes.
LEMMA MergeFrame ==
  ASSUME RefInv, NEW p \in Procs, pc'[p] \notin Merging,
         \A q \in Procs \ {p} : pc'[q] = pc[q] /\ work'[q] = work[q],
         UNCHANGED <<pending, snap, db, raced, unwatched>>
  PROVE  MergeInv' /\ Kept
<1>1. UNCHANGED <<Canvas, db.strokes, unwatched>>
  BY DEF Canvas
<1>2. ASSUME NEW q \in Procs PROVE MergePhase(q)'
  <2>1. CASE q = p BY <2>1 DEF MergePhase, Saving, Merging
  <2>2. CASE q # p BY <1>1, <2>2 DEF RefInv, MergeInv, MergePhase, Saving
  <2> QED BY <2>1, <2>2
<1> QED BY <1>1, <1>2 DEF RefInv, MergeInv, Kept

\* While p is in its critical section nobody else merges.
LEMMA MergeAlone ==
  ASSUME RefInv, Timely, NEW p \in Procs, pc[p] \in Critical,
         \A q \in Procs \ {p} : pc'[q] = pc[q],
         MergePhase(p)'
  PROVE  \A q \in Procs : MergePhase(q)'
<1>1. ASSUME NEW q \in Procs \ {p} PROVE pc'[q] \notin Merging
  BY DEF RefInv, PhaseInv, FlushMutex, Critical, Merging
<1> QED BY <1>1 DEF MergePhase, Saving, Merging

\* A step that leaves the rows and the strokes at risk alone, and takes from the canvas
\* what is at risk.
LEMMA VanishKept ==
  ASSUME UNCHANGED <<db, unwatched>>, Canvas' \subseteq Canvas, Canvas \ Canvas' \subseteq unwatched
  PROVE  Kept
<1>1. Canvas' = Canvas \ (Canvas \ Canvas')
  OBVIOUS
<1> QED BY <1>1 DEF Kept, Contract!Next, Contract!Vanish

\* A row that has the canvas but for the strokes at risk.
LEMMA CheckpointKept ==
  ASSUME RefInv, NEW p \in Procs, Saving(p), UNCHANGED <<pending, snap, unwatched>>, snap.there,
         db' = Inserted(p)
  PROVE  Kept
<1>1. Canvas = pending \cup snap.strokes /\ Canvas' = Canvas
  BY DEF Canvas
<1>2. work[p] = snap.strokes /\ pending \ unwatched \subseteq work[p]
  BY DEF RefInv, MergeInv, MergePhase
<1>3. work[p] \subseteq Strokes
  BY DEF RefInv, PhaseInv, TypeInv, TypeOK
<1>4. CASE db' = db
  BY <1>1, <1>4 DEF Kept
<1>5. CASE db'.strokes = work[p]
  BY <1>1, <1>2, <1>3, <1>5 DEF Kept, Contract!Next, Contract!Checkpoint
<1> QED BY <1>4, <1>5 DEF Inserted

LEMMA MergeHash ==
  ASSUME RefInv, NEW e \in Events, HashStroke(e)
  PROVE  MergeInv' /\ Kept
<1> USE DEF RefInv, PhaseInv, TypeInv, TypeOK
<1>1. /\ pc'[e] \notin Merging /\ pc[e] = "hset" /\ e \in Procs
      /\ \A q \in Procs \ {e} : pc'[q] = pc[q]
      /\ UNCHANGED <<work, row, snap, db>>
      /\ pending' \in {pending \cup {e}, pending}
      /\ raced' = raced \cup {s \in pending' \ pending : \E p \in Procs : Racing(p)}
      /\ unwatched' = unwatched \cup {s \in pending' \ pending : \E p \in Procs : Finishing(p)}
  BY DEF HashStroke, Step, Goto, Applied, Procs, Merging
<1>2. raced' \subseteq unwatched'
  BY <1>1, RacingIsFinishing DEF MergeInv
<1>3. Canvas \subseteq Canvas'
  BY <1>1 DEF Canvas
<1>4. ASSUME NEW q \in Procs PROVE MergePhase(q)'
  <2>1. CASE q = e BY <1>1, <2>1 DEF MergePhase, Saving, Merging
  <2>2. CASE q # e /\ Saving(q)
    <3>1. Finishing(q) BY <2>2 DEF Saving, Finishing, Critical
    <3>2. pending' \ unwatched' \subseteq pending \ unwatched BY <1>1, <3>1
    <3> QED BY <1>1, <1>3, <2>2, <3>2 DEF MergeInv, MergePhase, Saving
  <2>3. CASE q # e /\ ~Saving(q)
    BY <1>1, <1>3, <2>3 DEF MergeInv, MergePhase, Saving
  <2> QED BY <2>1, <2>2, <2>3
<1>5. Kept
  <2>1. CASE pending' = pending
    BY <1>1, <2>1 DEF Kept, Canvas
  <2>2. CASE pending' = pending \cup {e}
    <3>1. Canvas' = Canvas \cup {e} BY <1>1, <2>2 DEF Canvas
    <3>2. unwatched' \in {unwatched, unwatched \cup {e}}
      BY <1>1, <2>2
    <3> QED BY <1>1, <3>1, <3>2 DEF Kept, Contract!Next, Contract!Draw, Strokes
  <2> QED BY <1>1, <2>1, <2>2
<1> QED BY <1>1, <1>2, <1>4, <1>5 DEF MergeInv

\* The flush of a handler, from its HGETALL to its insert.
LEMMA MergeFlush ==
  ASSUME RefInv, Timely, ~CanExpire, NEW e \in Events,
         \/ ReadPending(e) \/ ReadCache(e) \/ FindLatest(e) \/ FillCache(e)
         \/ EncodeSnapshot(e) \/ DeletePending(e) \/ CreateSnapshot(e)
  PROVE  MergeInv' /\ Kept
<1> USE DEF RefInv, PhaseInv, TypeInv, TypeOK
<1>1. /\ pc[e] \in Critical /\ e # Worker /\ e \in Procs /\ FlushPhase(e) /\ MergePhase(e)
      /\ \A q \in Procs \ {e} : pc'[q] = pc[q]
      /\ UNCHANGED <<raced, unwatched>>
  BY DEF ReadPending, ReadCache, FindLatest, FillCache, EncodeSnapshot, DeletePending,
     CreateSnapshot, Critical, InPhase, Step, Goto, Procs, MergeInv, ghosts
<1>2. ASSUME MergePhase(e)', snap'.there \/ snap'.strokes = {} PROVE MergeInv'
  BY <1>1, <1>2, MergeAlone DEF MergeInv
<1> USE DEF Step, Goto, Works, MergePhase, FlushPhase, Saving
<1>3. CASE ReadPending(e)
  <2>1. UNCHANGED <<pending, snap, db>> BY <1>3 DEF ReadPending
  <2>2. MergePhase(e)' BY <1>1, <1>3, <2>1 DEF ReadPending, Canvas
  <2> QED BY <1>1, <1>2, <2>1, <2>2 DEF MergeInv, Kept, Canvas
<1>4. CASE ReadCache(e)
  <2>1. UNCHANGED <<pending, snap, db>> BY <1>4 DEF ReadCache
  <2>2. MergePhase(e)' BY <1>1, <1>4, <2>1 DEF ReadCache, Canvas, MergeInv
  <2> QED BY <1>1, <1>2, <2>1, <2>2 DEF MergeInv, Kept, Canvas
<1>5. CASE FindLatest(e)
  <2>1. UNCHANGED <<pending, snap, db>> BY <1>5 DEF FindLatest
  <2>2. MergePhase(e)' BY <1>1, <1>5, <2>1 DEF FindLatest, Canvas
  <2> QED BY <1>1, <1>2, <2>1, <2>2 DEF MergeInv, Kept, Canvas
<1>6. CASE FillCache(e)
  <2>1. UNCHANGED <<pending, db>> /\ ~snap.there /\ row[e] = db.strokes
    BY <1>1, <1>6 DEF FillCache
  <2>2. snap' = snap \/ snap' = Stored(row[e], TRUE) BY <1>6 DEF FillCache, Applied
  <2>3. Canvas' = Canvas BY <2>1, <2>2 DEF Canvas, Stored
  <2>4. MergePhase(e)' BY <1>1, <1>6, <2>1, <2>3 DEF FillCache, Canvas
  <2>5. snap'.there \/ snap'.strokes = {} BY <2>2 DEF Stored, MergeInv
  <2> QED BY <1>1, <1>2, <2>1, <2>3, <2>4, <2>5 DEF Kept
<1>7. CASE EncodeSnapshot(e)
  <2>1. UNCHANGED <<pending, db>> /\ Canvas \ raced \subseteq work[e] /\ work[e] \subseteq Canvas
    BY <1>1, <1>7 DEF EncodeSnapshot
  <2>2. snap' = snap \/ snap' = Stored(work[e], TRUE) BY <1>7 DEF EncodeSnapshot, Applied
  <2>3. Canvas' \subseteq Canvas /\ Canvas \ Canvas' \subseteq unwatched
    BY <2>1, <2>2 DEF Canvas, Stored, MergeInv
  <2>4. pending \ unwatched \subseteq work[e] BY <2>1 DEF Canvas, MergeInv
  <2>5. MergePhase(e)' BY <1>1, <1>7, <2>1, <2>4 DEF EncodeSnapshot, Applied, Stored
  <2>6. snap'.there \/ snap'.strokes = {} BY <2>2 DEF Stored, MergeInv
  <2> QED BY <1>1, <1>2, <2>1, <2>3, <2>5, <2>6, VanishKept
<1>8. CASE DeletePending(e)
  <2>1. UNCHANGED <<snap, db, work>> /\ pending' \in {{}, pending} /\ snap.there
        /\ pending \ raced \subseteq snap.strokes
    BY <1>1, <1>8 DEF DeletePending, Applied, Racing, BeforeDel
  <2>2. Canvas' \subseteq Canvas /\ Canvas \ Canvas' \subseteq unwatched
    BY <2>1 DEF Canvas, MergeInv
  <2>3. MergePhase(e)' BY <1>1, <1>8, <2>1 DEF DeletePending
  <2> QED BY <1>1, <1>2, <2>1, <2>2, <2>3, VanishKept
<1>9. CASE CreateSnapshot(e)
  <2>1. UNCHANGED <<pending, snap>> /\ snap.there /\ Saving(e) BY <1>1, <1>9 DEF CreateSnapshot
  <2>2. db' = db \/ db' = Inserted(e) BY <1>9 DEF CreateSnapshot, Applied
  <2>3. Kept
    <3>1. CASE db' = db BY <1>1, <2>1, <3>1 DEF Kept, Canvas
    <3>2. CASE db' = Inserted(e) BY <1>1, <2>1, <3>2, CheckpointKept
    <3> QED BY <2>2, <3>1, <3>2
  <2>4. MergePhase(e)' BY <1>1, <1>9 DEF CreateSnapshot
  <2> QED BY <1>1, <1>2, <2>1, <2>3, <2>4
<1> QED BY <1>3, <1>4, <1>5, <1>6, <1>7, <1>8, <1>9

\* The flush of the worker.
LEMMA MergeJob ==
  ASSUME RefInv, Timely, ~CanExpire,
         \/ JobReadsPending \/ JobReadsCache \/ JobFindsLatest
         \/ JobEncodes \/ JobInserts \/ JobDeletesPending
  PROVE  MergeInv' /\ Kept
<1> USE DEF RefInv, PhaseInv, TypeInv, TypeOK
<1>1. /\ pc[Worker] \in Critical /\ Worker \in Procs /\ FlushPhase(Worker) /\ MergePhase(Worker)
      /\ \A q \in Procs \ {Worker} : pc'[q] = pc[q]
      /\ UNCHANGED <<raced, unwatched>>
  BY DEF JobReadsPending, JobReadsCache, JobFindsLatest, JobEncodes, JobInserts,
     JobDeletesPending, JobContinues, JobThrows, Critical, InPhase, Goto, Procs, MergeInv,
     ghosts
<1>2. ASSUME MergePhase(Worker)', snap'.there \/ snap'.strokes = {} PROVE MergeInv'
  BY <1>1, <1>2, MergeAlone DEF MergeInv
<1>3. ASSUME UNCHANGED <<pending, snap, db>>, MergePhase(Worker)' PROVE MergeInv' /\ Kept
  BY <1>1, <1>2, <1>3 DEF MergeInv, Kept, Canvas
<1>4. ASSUME pc'[Worker] \notin Merging PROVE MergePhase(Worker)'
  BY <1>4 DEF MergePhase, Saving, Merging
<1> USE DEF Goto, Works, MergePhase, FlushPhase, Saving, JobContinues, JobThrows
<1>5. CASE JobReadsPending
  BY <1>1, <1>3, <1>5 DEF JobReadsPending, Canvas
<1>6. CASE JobReadsCache
  <2>1. UNCHANGED <<pending, snap, db>> BY <1>6 DEF JobReadsCache
  <2>2. CASE snap.there /\ pc'[Worker] = "encode" /\ work'[Worker] = work[Worker] \cup snap.strokes
    BY <1>1, <1>3, <1>6, <2>1, <2>2 DEF JobReadsCache, Canvas
  <2>3. CASE pc'[Worker] = "find" /\ work' = work
    BY <1>1, <1>3, <1>6, <2>1, <2>3 DEF JobReadsCache, Canvas
  <2>4. CASE pc'[Worker] = "idle"
    BY <1>3, <1>4, <2>1, <2>4 DEF Merging
  <2> QED BY <1>1, <1>6, <2>2, <2>3, <2>4 DEF JobReadsCache
<1>7. CASE JobFindsLatest
  <2>1. UNCHANGED <<pending, snap, db>> /\ ~snap.there BY <1>1, <1>7 DEF JobFindsLatest
  <2>2. CASE pc'[Worker] = "encode" /\ work'[Worker] = work[Worker] \cup db.strokes
    BY <1>1, <1>3, <1>7, <2>1, <2>2 DEF JobFindsLatest, Canvas
  <2>3. CASE pc'[Worker] = "idle"
    BY <1>3, <1>4, <2>1, <2>3 DEF Merging
  <2> QED BY <1>1, <1>7, <2>2, <2>3 DEF JobFindsLatest
<1>8. CASE JobEncodes
  <2>1. UNCHANGED <<pending, db>> /\ Canvas \ raced \subseteq work[Worker]
        /\ work[Worker] \subseteq Canvas
    BY <1>1, <1>8 DEF JobEncodes
  <2>2. CASE JobContinues("insert") /\ snap' = Stored(work[Worker], FALSE) /\ work' = work
    <3>1. snap'.there /\ snap'.strokes = work[Worker] BY <2>2 DEF Stored
    <3>2. Canvas' \subseteq Canvas /\ Canvas \ Canvas' \subseteq unwatched
      BY <2>1, <3>1 DEF Canvas, MergeInv
    <3>3. pending \ unwatched \subseteq work[Worker] BY <2>1 DEF Canvas, MergeInv
    <3>4. MergePhase(Worker)' BY <1>1, <2>1, <2>2, <3>1, <3>3
    <3> QED BY <1>1, <1>2, <2>1, <3>1, <3>2, <3>4, VanishKept
  <2>3. CASE pc'[Worker] = "idle" /\ UNCHANGED snap
    BY <1>3, <1>4, <2>1, <2>3 DEF Merging
  <2> QED BY <1>1, <1>8, <2>2, <2>3 DEF JobEncodes
<1>9. CASE JobInserts
  <2>1. UNCHANGED <<pending, snap>> /\ snap.there /\ Saving(Worker) BY <1>1, <1>9 DEF JobInserts
  <2>2. db' = db \/ db' = Inserted(Worker) BY <1>9 DEF JobInserts
  <2>3. Kept
    <3>1. CASE db' = db BY <1>1, <2>1, <3>1 DEF Kept, Canvas
    <3>2. CASE db' = Inserted(Worker) BY <1>1, <2>1, <3>2, CheckpointKept
    <3> QED BY <2>2, <3>1, <3>2
  <2>4. MergePhase(Worker)' BY <1>1, <1>9 DEF JobInserts
  <2> QED BY <1>1, <1>2, <2>1, <2>3, <2>4
<1>10. CASE JobDeletesPending
  <2>1. UNCHANGED <<snap, db>> /\ pending' \in {{}, pending} /\ snap.there
        /\ pending \ raced \subseteq snap.strokes /\ pc'[Worker] \notin Merging
    BY <1>1, <1>10 DEF JobDeletesPending, Racing, WorkerBeforeDel, Merging
  <2>2. Canvas' \subseteq Canvas /\ Canvas \ Canvas' \subseteq unwatched
    BY <2>1 DEF Canvas, MergeInv
  <2> QED BY <1>1, <1>2, <1>4, <2>1, <2>2, VanishKept
<1> QED BY <1>5, <1>6, <1>7, <1>8, <1>9, <1>10

\* The steps of a handler and of the worker that are not part of a flush.
LEMMA MergeOther ==
  ASSUME RefInv, Timely, ~CanExpire,
         \/ \E e \in Events : \/ RemoveOldJob(e) \/ AddJob(e) \/ CountPending(e)
                             \/ AcquireLock(e) \/ RemoveIdleJob(e) \/ Unlock(e)
                             \/ CrashHandler(e)
         \/ JobAcquiresLock \/ JobUnlocks \/ CompleteJob
         \/ StartJob \/ CrashWorker \/ RestartStalledJob
         \/ ExpireLock \/ UNCHANGED vars
  PROVE  MergeInv' /\ Kept
<1> USE DEF RefInv, PhaseInv, TypeInv, TypeOK, Procs, Goto, Forget, handlers, ghosts
<1>0. ASSUME UNCHANGED <<pc, work, pending, snap, db, raced, unwatched>> PROVE MergeInv' /\ Kept
  BY <1>0 DEF MergeInv, MergePhase, Saving, Kept, Canvas
<1>1. ASSUME NEW e \in Events,
             \/ RemoveOldJob(e) \/ AddJob(e) \/ CountPending(e) \/ AcquireLock(e)
             \/ RemoveIdleJob(e) \/ Unlock(e) \/ CrashHandler(e)
      PROVE  MergeInv' /\ Kept
  <2>1. UNCHANGED <<pending, snap, db, raced, unwatched>> /\ pc'[e] \notin Merging
    BY <1>1 DEF RemoveOldJob, AddJob, CountPending, AcquireLock, RemoveIdleJob, Unlock,
         CrashHandler, Step, Merging
  <2>2. \A q \in Procs \ {e} : pc'[q] = pc[q] /\ work'[q] = work[q]
    BY <1>1 DEF RemoveOldJob, AddJob, CountPending, AcquireLock, RemoveIdleJob, Unlock,
         CrashHandler, Step
  <2> QED BY <2>1, <2>2, MergeFrame
<1>2. CASE \/ JobAcquiresLock \/ JobUnlocks \/ CompleteJob
           \/ StartJob \/ CrashWorker \/ RestartStalledJob
  <2>1. UNCHANGED <<pending, snap, db, raced, unwatched>>
    BY <1>2 DEF JobAcquiresLock, JobUnlocks, CompleteJob, StartJob, CrashWorker,
         RestartStalledJob
  <2>2. pc'[Worker] \notin Merging \/ UNCHANGED <<pc, work>>
    BY <1>2 DEF JobAcquiresLock, JobUnlocks, CompleteJob, StartJob, CrashWorker,
         RestartStalledJob, JobContinues, JobThrows, Merging
  <2>3. \A q \in Procs \ {Worker} : pc'[q] = pc[q] /\ work'[q] = work[q]
    BY <1>2 DEF JobAcquiresLock, JobUnlocks, CompleteJob, StartJob, CrashWorker,
         RestartStalledJob, JobContinues, JobThrows
  <2> QED BY <1>0, <2>1, <2>2, <2>3, MergeFrame
<1>3. CASE ExpireLock \/ UNCHANGED vars
  BY <1>0, <1>3 DEF ExpireLock, vars
<1> QED BY <1>1, <1>2, <1>3

LEMMA RefStep ==
  ASSUME RefInv, Timely, ~CanExpire, [Next]_vars
  PROVE  RefInv' /\ [Contract!Next]_<<Canvas, db.strokes, unwatched>>
<1>1. PhaseInv' BY PhaseStep DEF RefInv
<1>2. MergeInv' /\ Kept
  BY MergeHash, MergeFlush, MergeJob, MergeOther
  DEF Next, Background, Rest, HandleDraw, RunJob, ExpireSnapshot, ExpirePending
<1> QED BY <1>1, <1>2 DEF RefInv, Kept

LEMMA RefInit == Init => RefInv /\ Contract!Init
<1> SUFFICES ASSUME Init PROVE RefInv /\ Contract!Init
  OBVIOUS
<1>1. PhaseInv BY PhaseInit
<1>2. MergeInv BY DEF Init, MergeInv, MergePhase, Saving, NoSnap, Stored
<1>3. Contract!Init
  BY <1>1 DEF Init, Contract!Init, Canvas, NoRow, NoSnap, Stored, Strokes
<1> QED BY <1>1, <1>2, <1>3 DEF RefInv

\* The write path keeps the promise of CanvasContract: each step of handlers and worker,
\* with failures and crashes, draws one stroke, drops strokes at risk, or inserts a row
\* that has the canvas but for strokes at risk and nothing else, for any number of
\* strokes, as long as flushes take less than LOCK_TTL and nothing is evicted.
THEOREM PipelineKeepsContract ==
  ASSUME Timely, ~CanExpire PROVE Spec => ImplementsContract
<1>1. RefInv /\ [Next]_vars => RefInv' /\ [Contract!Next]_<<Canvas, db.strokes, unwatched>>
  BY RefStep
<1> QED
  BY <1>1, RefInit, PTL DEF Spec, ImplementsContract, Contract!Spec, Contract!vars

-----------------------------------------------------------------------------
(* CanvasJoin, for any strokes, failures and crashes. A stroke is hashed   *)
(* once, so one that was on the canvas when the joiner read the hash is in *)
(* its batch or in the latest snapshot, wherever flushes move it           *)
(* afterwards.                                                             *)

USE ClockAssumption

\* The pipeline has the stroke s somewhere: nobody can draw it again.
Held(s) ==
  \/ s \in pending \/ s \in snap.strokes \/ s \in db.strokes
  \/ \E p \in Procs : s \in work[p] \/ s \in row[p]

DrawnOnce == \A e \in Events : pc[e] = "hset" => ~Held(e) /\ e \notin jrow

\* Until the joiner has looked at the cache, who is about to insert a row finds its
\* snapshot still in the cache: the worker's has no TTL.
FlushIsCached ==
  jpc \in {"join", "read", "cache"} =>
    \A p \in Procs : Saving(p) => snap.there /\ (p = Worker /\ CanExpire => ~snap.ttl)

\* What is left on the canvas is in the batch, or where the joiner looks next; a row
\* that is about to replace the newest one has it too.
NothingMissed ==
  /\ kept \subseteq Canvas
  /\ jpc = "join" => late = {}
  /\ jpc = "read" => kept \cap late = {}
  /\ jpc \in {"cache", "find"} => kept \cap pending \subseteq batch
  /\ jpc = "find" => kept \subseteq batch \cup db.strokes
  /\ jpc = "find" => \A p \in Procs : Saving(p) => kept \subseteq batch \cup work[p]
  /\ jpc = "fill" => kept \subseteq batch \cup jrow
  /\ jpc = "ready" => kept \subseteq screen

-----------------------------------------------------------------------------
(* What a step of the write path does to what the joiner reads.            *)

\* p goes on with its merged snapshot, or has just stored it.
Merges(p) ==
  /\ work'[p] = work[p]
  /\ Saving(p) \/ (pc[p] = "encode" /\ snap' = Stored(work[p], p # Worker))

Moves ==
  /\ \A p \in Procs : pc'[p] = "hset" => pc[p] = "hset"
  /\ pending' \subseteq pending
  /\ \A s \in Strokes : Held(s)' => Held(s)
  /\ \A p \in Procs : Saving(p)' => Merges(p)
  /\ db' = db \/ \E p \in Procs : pc[p] = "insert" /\ db' = Inserted(p)
  /\ \/ snap' = snap
     \/ ExpireSnapshot
     \/ \E p \in Procs : pc[p] \in {"fill", "encode"} /\ snap'.there

LEMMA HandlerMoves ==
  ASSUME TypeInv, NEW e \in Events, HandleDraw(e) \/ CrashHandler(e)
  PROVE  Moves
<1> USE DEF TypeInv, TypeOK, Step, Goto, Works, Procs, ghosts
<1>0. e \in Procs /\ e # Worker
  OBVIOUS
<1>1. \A p \in Procs \ {e} : pc'[p] = pc[p] /\ work'[p] = work[p] /\ row'[p] = row[p]
  BY DEF HandleDraw, RemoveOldJob, AddJob, CountPending, AcquireLock, ReadPending, ReadCache,
     FindLatest, FillCache, EncodeSnapshot, DeletePending, CreateSnapshot, RemoveIdleJob,
     Unlock, CrashHandler, Forget
<1>2. pc'[e] # "hset"
  BY DEF HandleDraw, RemoveOldJob, AddJob, CountPending, AcquireLock, ReadPending, ReadCache,
     FindLatest, FillCache, EncodeSnapshot, DeletePending, CreateSnapshot, RemoveIdleJob,
     Unlock, CrashHandler
<1>3. pending' \subseteq pending
  BY DEF HandleDraw, RemoveOldJob, AddJob, CountPending, AcquireLock, ReadPending, ReadCache,
     FindLatest, FillCache, EncodeSnapshot, DeletePending, CreateSnapshot, RemoveIdleJob,
     Unlock, CrashHandler, Applied
<1>4. Saving(e)' => Merges(e)
  BY <1>0 DEF HandleDraw, RemoveOldJob, AddJob, CountPending, AcquireLock, ReadPending, ReadCache,
     FindLatest, FillCache, EncodeSnapshot, DeletePending, CreateSnapshot, RemoveIdleJob,
     Unlock, CrashHandler, Applied, Saving, Merges
<1>5. db' = db \/ (pc[e] = "insert" /\ db' = Inserted(e))
  BY DEF HandleDraw, RemoveOldJob, AddJob, CountPending, AcquireLock, ReadPending, ReadCache,
     FindLatest, FillCache, EncodeSnapshot, DeletePending, CreateSnapshot, RemoveIdleJob,
     Unlock, CrashHandler, Applied
<1>6. /\ work'[e] \subseteq work[e] \cup pending \cup snap.strokes \cup db.strokes \cup row[e]
      /\ row'[e] \subseteq row[e] \cup db.strokes
      /\ snap'.strokes \subseteq snap.strokes \cup work[e] \cup row[e]
  <2>1. CASE UNCHANGED <<work, row, snap>> BY <2>1
  <2>2. CASE ReadPending(e) BY <1>0, <2>2 DEF ReadPending
  <2>3. CASE ReadCache(e) BY <1>0, <2>3 DEF ReadCache
  <2>4. CASE FindLatest(e) BY <1>0, <2>4 DEF FindLatest
  <2>5. CASE FillCache(e) BY <1>0, <2>5 DEF FillCache, Applied, Stored
  <2>6. CASE EncodeSnapshot(e) BY <1>0, <2>6 DEF EncodeSnapshot, Applied, Stored
  <2>7. CASE CreateSnapshot(e) \/ CrashHandler(e)
    BY <1>0, <2>7 DEF CreateSnapshot, CrashHandler, Forget
  <2> QED
    BY <2>1, <2>2, <2>3, <2>4, <2>5, <2>6, <2>7
    DEF HandleDraw, RemoveOldJob, AddJob, CountPending, AcquireLock, DeletePending,
        RemoveIdleJob, Unlock
<1>8. db'.strokes \subseteq db.strokes \cup work[e]
  BY <1>0, <1>5 DEF Inserted
<1>9. ASSUME NEW s \in Strokes, Held(s)' PROVE Held(s)
  <2>1. \A p \in Procs \ {e} : s \in work'[p] \/ s \in row'[p] => Held(s)
    BY <1>1 DEF Held
  <2>2. s \in work'[e] \/ s \in row'[e] => Held(s)
    BY <1>0, <1>6 DEF Held
  <2>3. s \in pending' \/ s \in snap'.strokes \/ s \in db'.strokes => Held(s)
    BY <1>0, <1>3, <1>6, <1>8 DEF Held
  <2> QED BY <1>9, <2>1, <2>2, <2>3 DEF Held
<1>10. \A p \in Procs : Saving(p)' => Merges(p)
  BY <1>1, <1>4 DEF Saving, Merges
<1>11. snap' = snap \/ (pc[e] \in {"fill", "encode"} /\ snap'.there)
  <2>1. CASE FillCache(e) BY <2>1 DEF FillCache, Applied, Stored
  <2>2. CASE EncodeSnapshot(e) BY <2>2 DEF EncodeSnapshot, Applied, Stored
  <2> QED
    BY <2>1, <2>2
    DEF HandleDraw, RemoveOldJob, AddJob, CountPending, AcquireLock, ReadPending, ReadCache,
        FindLatest, DeletePending, CreateSnapshot, RemoveIdleJob, Unlock, CrashHandler
<1> QED
  BY <1>0, <1>1, <1>2, <1>3, <1>5, <1>9, <1>10, <1>11 DEF Moves

LEMMA WorkerMoves ==
  ASSUME TypeInv, RunJob \/ StartJob \/ CrashWorker \/ RestartStalledJob
  PROVE  Moves
<1> USE DEF TypeInv, TypeOK, Goto, Works, Procs, JobContinues, JobThrows, Forget, ghosts
<1>0. Worker \in Procs
  OBVIOUS
<1>1. \A p \in Procs \ {Worker} : pc'[p] = pc[p] /\ work'[p] = work[p] /\ row'[p] = row[p]
  BY DEF RunJob, JobAcquiresLock, JobReadsPending, JobReadsCache, JobFindsLatest, JobEncodes,
     JobInserts, JobDeletesPending, JobUnlocks, CompleteJob, StartJob, CrashWorker,
     RestartStalledJob
<1>2. pc'[Worker] # "hset" \/ pc'[Worker] = pc[Worker]
  BY DEF RunJob, JobAcquiresLock, JobReadsPending, JobReadsCache, JobFindsLatest, JobEncodes,
     JobInserts, JobDeletesPending, JobUnlocks, CompleteJob, StartJob, CrashWorker,
     RestartStalledJob
<1>3. pending' \subseteq pending
  BY DEF RunJob, JobAcquiresLock, JobReadsPending, JobReadsCache, JobFindsLatest, JobEncodes,
     JobInserts, JobDeletesPending, JobUnlocks, CompleteJob, StartJob, CrashWorker,
     RestartStalledJob
<1>4. Saving(Worker)' => Merges(Worker)
  BY <1>0 DEF RunJob, JobAcquiresLock, JobReadsPending, JobReadsCache, JobFindsLatest, JobEncodes,
     JobInserts, JobDeletesPending, JobUnlocks, CompleteJob, StartJob, CrashWorker,
     RestartStalledJob, Saving, Merges
<1>5. db' = db \/ (pc[Worker] = "insert" /\ db' = Inserted(Worker))
  BY DEF RunJob, JobAcquiresLock, JobReadsPending, JobReadsCache, JobFindsLatest, JobEncodes,
     JobInserts, JobDeletesPending, JobUnlocks, CompleteJob, StartJob, CrashWorker,
     RestartStalledJob
<1>6. /\ work'[Worker] \subseteq work[Worker] \cup pending \cup snap.strokes \cup db.strokes
      /\ row'[Worker] \subseteq row[Worker]
      /\ snap'.strokes \subseteq snap.strokes \cup work[Worker]
  <2>1. CASE UNCHANGED <<work, row, snap>> BY <2>1
  <2>2. CASE JobThrows /\ UNCHANGED snap BY <1>0, <2>2
  <2>3. CASE JobReadsPending BY <1>0, <2>3 DEF JobReadsPending
  <2>4. CASE JobReadsCache BY <1>0, <2>4 DEF JobReadsCache
  <2>5. CASE JobFindsLatest BY <1>0, <2>5 DEF JobFindsLatest
  <2>6. CASE JobEncodes
    <3>1. snap' = Stored(work[Worker], FALSE) \/ snap' = snap
      BY <2>6 DEF JobEncodes
    <3>2. snap'.strokes \subseteq snap.strokes \cup work[Worker]
      BY <3>1 DEF Stored
    <3> QED BY <1>0, <2>6, <3>2 DEF JobEncodes
  <2>7. CASE JobInserts \/ CompleteJob \/ CrashWorker
    BY <1>0, <2>7 DEF JobInserts, CompleteJob, CrashWorker
  <2> QED
    BY <2>1, <2>2, <2>3, <2>4, <2>5, <2>6, <2>7
    DEF RunJob, JobAcquiresLock, JobDeletesPending, JobUnlocks, StartJob, RestartStalledJob
<1>8. db'.strokes \subseteq db.strokes \cup work[Worker]
  BY <1>0, <1>5 DEF Inserted
<1>9. ASSUME NEW s \in Strokes, Held(s)' PROVE Held(s)
  <2>1. \A p \in Procs \ {Worker} : s \in work'[p] \/ s \in row'[p] => Held(s)
    BY <1>1 DEF Held
  <2>2. s \in work'[Worker] \/ s \in row'[Worker] => Held(s)
    BY <1>0, <1>6 DEF Held
  <2>3. s \in pending' \/ s \in snap'.strokes \/ s \in db'.strokes => Held(s)
    BY <1>0, <1>3, <1>6, <1>8 DEF Held
  <2> QED BY <1>9, <2>1, <2>2, <2>3 DEF Held
<1>10. \A p \in Procs : Saving(p)' => Merges(p)
  BY <1>1, <1>4 DEF Saving, Merges
<1>11. snap' = snap \/ (pc[Worker] = "encode" /\ snap'.there)
  <2>1. CASE JobEncodes
    <3>1. snap' = Stored(work[Worker], FALSE) \/ snap' = snap
      BY <2>1 DEF JobEncodes
    <3> QED BY <2>1, <3>1 DEF JobEncodes, Stored
  <2> QED
    BY <2>1
    DEF RunJob, JobAcquiresLock, JobReadsPending, JobReadsCache, JobFindsLatest, JobInserts,
        JobDeletesPending, JobUnlocks, CompleteJob, StartJob, CrashWorker, RestartStalledJob
<1> QED
  BY <1>0, <1>1, <1>2, <1>3, <1>5, <1>9, <1>10, <1>11 DEF Moves

LEMMA BackgroundMoves ==
  ASSUME TypeInv, Background PROVE Moves
<1>1. CASE ExpireLock \/ ExpireSnapshot \/ ExpirePending \/ Rest
  <2>1. /\ UNCHANGED <<pc, work, row, db>> /\ pending' \subseteq pending
        /\ snap' = snap \/ (ExpireSnapshot /\ snap' = NoSnap)
    BY <1>1 DEF ExpireLock, ExpireSnapshot, ExpirePending, Rest, handlers, vars
  <2>2. \A s \in Strokes : Held(s)' => Held(s)
    BY <2>1 DEF Held, NoSnap
  <2>3. \A p \in Procs : Saving(p)' => Merges(p)
    BY <2>1 DEF Saving, Merges
  <2> QED BY <2>1, <2>2, <2>3 DEF Moves
<1> QED BY <1>1, HandlerMoves, WorkerMoves DEF Background

-----------------------------------------------------------------------------
(* What a step of the joiner does to the write path.                       *)

JoinerStep ==
  \/ \E e \in Events : Deliver(e)
  \/ JoinRoom \/ HandleConnection

LEMMA JoinerShares ==
  ASSUME TypeInv, JoinTypeOK, JoinerStep
  PROVE  /\ UNCHANGED <<handlers, pending, db, lock, job, clock, ghosts>>
         /\ faults' \in 0..MaxFaults
         /\ snap' = snap \/ (jpc = "fill" /\ snap' = Stored(jrow, TRUE))
         /\ TypeInv'
<1> USE DEF TypeInv, TypeOK, JoinTypeOK
<1>1. UNCHANGED <<handlers, pending, db, lock, job, clock, ghosts>>
  BY DEF JoinerStep, Deliver, JoinRoom, HandleConnection, JoinReadsPending, JoinReadsCache,
     JoinFindsLatest, JoinFillsCache, vars, handlers, ghosts
<1>2. faults' \in 0..MaxFaults
  <2>1. UNCHANGED faults \/ \E ok \in BOOLEAN : Outcome(ok)
    BY DEF JoinerStep, Deliver, JoinRoom, HandleConnection, JoinReadsPending, JoinReadsCache,
       JoinFindsLatest, JoinFillsCache, Disconnect, vars
  <2> QED BY <2>1, OutcomeType
<1>3. snap' = snap \/ (jpc = "fill" /\ snap' = Stored(jrow, TRUE))
  BY DEF JoinerStep, Deliver, JoinRoom, HandleConnection, JoinReadsPending, JoinReadsCache,
     JoinFindsLatest, JoinFillsCache, Applied, vars
<1>4. snap' \in Snapshots
  BY <1>3, RecordTypes
<1>5. TypeOK' BY <1>1, <1>2, <1>4 DEF handlers, ghosts
<1>6. JobInv' BY <1>1 DEF JobInv, handlers
<1> QED BY <1>1, <1>2, <1>3, <1>5, <1>6

LEMMA StepCases ==
  JoinStep <=> \/ Background /\ UNCHANGED joinVars
               \/ \E e \in Events : Draw(e)
               \/ JoinerStep
BY DEF JoinStep, JoinerStep

Types == TypeInv /\ JoinTypeOK

LEMMA TypesKept == Types /\ [JoinNext]_allVars => Types'
<1> SUFFICES ASSUME Types, [JoinNext]_allVars PROVE Types'
  OBVIOUS
<1>1. CASE UNCHANGED allVars
  <2>1. UNCHANGED vars BY <1>1 DEF allVars
  <2>2. TypeInv' BY <2>1, TypeStep DEF Types
  <2> QED BY <1>1, <2>2 DEF allVars, joinVars, Types, JoinTypeOK
<1>2. CASE JoinNext
  <2>1. TypeInv'
    <3>1. CASE Background \/ \E e \in Events : Draw(e)
      BY <3>1, TypeStep DEF Types, Next, Draw
    <3>2. CASE JoinerStep BY <3>2, JoinerShares DEF Types
    <3> QED BY <1>2, <3>1, <3>2, StepCases DEF JoinNext
  <2>2. Canvas' \subseteq Strokes
    BY <2>1 DEF TypeInv, TypeOK, Canvas, Snapshots, Rows, Strokes
  <2>3. kept' \subseteq Strokes
    BY <1>2, <2>2 DEF JoinNext, Track, Types, JoinTypeOK
  <2> USE DEF Types, JoinTypeOK
  <2>4. ASSUME UNCHANGED joinVars PROVE Types'
    BY <2>1, <2>3, <2>4 DEF joinVars
  <2>5. ASSUME NEW e \in Events, Draw(e) PROVE Types'
    <3>1. UNCHANGED <<jpc, batch, jrow, screen>> BY <2>5 DEF Draw, joiner
    <3>2. wire' \subseteq Events
      BY <2>1, <2>5 DEF Draw, TypeInv, TypeOK
    <3>3. late' \subseteq Events BY <2>5 DEF Draw
    <3> QED BY <2>1, <2>3, <3>1, <3>2, <3>3
  <2>6. ASSUME NEW e \in Events, Deliver(e) PROVE Types'
    BY <2>1, <2>3, <2>6 DEF Deliver, joiner, Strokes
  <2>7. CASE JoinRoom
    BY <2>1, <2>3, <2>7 DEF JoinRoom
  <2>8. CASE HandleConnection
    BY <2>1, <2>3, <2>8
    DEF HandleConnection, JoinReadsPending, JoinReadsCache, JoinFindsLatest, JoinFillsCache,
        SendState, Disconnect, TypeInv, TypeOK, Snapshots, Rows, Strokes
  <2> QED BY <1>2, <2>4, <2>5, <2>6, <2>7, <2>8 DEF JoinNext, JoinStep
<1> QED BY <1>1, <1>2

\* Every variable keeps its type while users draw and one joins.
THEOREM JoinTypeCorrect == JoinSpec => []JoinTypeOK
<1>1. JoinInit => Types
  <2> SUFFICES ASSUME JoinInit PROVE Types
    OBVIOUS
  <2>1. TypeInv BY TypeInit DEF JoinInit
  <2>2. Canvas \subseteq Strokes
    BY <2>1 DEF TypeInv, TypeOK, Canvas, Snapshots, Rows, Strokes
  <2> QED BY <2>1, <2>2 DEF JoinInit, Types, JoinTypeOK
<1>2. Types => JoinTypeOK BY DEF Types
<1> QED BY <1>1, <1>2, TypesKept, PTL DEF JoinSpec

-----------------------------------------------------------------------------
(* The canvas of the joiner.                                               *)

LEMMA DrawnOnceKept == Types /\ DrawnOnce /\ [JoinNext]_allVars => DrawnOnce'
<1> SUFFICES ASSUME Types, DrawnOnce, [JoinNext]_allVars, NEW e \in Events, pc'[e] = "hset"
             PROVE  ~Held(e)' /\ e \notin jrow'
  BY DEF DrawnOnce
<1>0. e \in Procs /\ e \in Strokes
  BY DEF Procs, Strokes
<1>1. CASE Background /\ UNCHANGED joinVars
  BY <1>0, <1>1, BackgroundMoves DEF Moves, DrawnOnce, Types, joinVars
<1>2. ASSUME NEW d \in Events, Draw(d) PROVE ~Held(e)' /\ e \notin jrow'
  <2>1. /\ d # e /\ pc[e] = "hset" /\ pending' \subseteq pending \cup {d}
        /\ UNCHANGED <<work, row, snap, db, jrow>>
    BY <1>2 DEF Draw, HashStroke, Step, Goto, Applied, joiner, Types, TypeInv, TypeOK, Procs
  <2> QED BY <2>1 DEF DrawnOnce, Held
<1>3. CASE JoinerStep
  <2>1. UNCHANGED <<pc, work, row, pending, db>> /\ pc[e] = "hset"
    BY <1>3, JoinerShares DEF Types, handlers
  <2>2. snap'.strokes \subseteq snap.strokes \cup jrow
    BY <1>3, JoinerShares DEF Types, Stored
  <2>3. jrow' \subseteq jrow \cup db.strokes
    BY <1>3 DEF JoinerStep, Deliver, JoinRoom, HandleConnection, JoinReadsPending,
       JoinReadsCache, JoinFindsLatest, JoinFillsCache, SendState, Disconnect, joiner
  <2> QED BY <2>1, <2>2, <2>3 DEF DrawnOnce, Held
<1>4. CASE UNCHANGED allVars
  BY <1>4 DEF allVars, vars, joinVars, DrawnOnce, Held
<1> QED BY <1>1, <1>2, <1>3, <1>4, StepCases DEF JoinNext

LEMMA RowAndMutexKept ==
  Types /\ RowInv /\ FlushMutex /\ [JoinNext]_allVars => RowInv' /\ FlushMutex'
<1> SUFFICES ASSUME Types, RowInv, FlushMutex, [JoinNext]_allVars
             PROVE  RowInv' /\ FlushMutex'
  OBVIOUS
<1>1. CASE Background \/ \E e \in Events : Draw(e)
  <2>1. Next BY <1>1 DEF Next, Draw
  <2>2. FlushMutex' BY <2>1, MutexStep DEF Types
  <2>3. db' = db \/ \E p \in Procs : db' = Inserted(p)
    BY <1>1, BackgroundMoves DEF Types, Moves, Draw, HashStroke
  <2>4. RowInv'
    BY <2>3 DEF Types, TypeInv, TypeOK, RowInv, Inserted, Rows
  <2> QED BY <2>2, <2>4
<1>2. CASE JoinerStep
  BY <1>2, JoinerShares, MutexKept DEF Types, handlers, RowInv
<1>3. CASE UNCHANGED allVars
  BY <1>3, MutexKept DEF allVars, vars, RowInv
<1> QED BY <1>1, <1>2, <1>3, StepCases DEF JoinNext

LEMMA FlushIsCachedKept ==
  ASSUME Timely \/ ~CanExpire, Types, FlushMutex, FlushIsCached, [JoinNext]_allVars
  PROVE  FlushIsCached'
<1> SUFFICES ASSUME jpc' \in {"join", "read", "cache"}, NEW p \in Procs, Saving(p)'
             PROVE  snap'.there /\ (p = Worker /\ CanExpire => ~snap'.ttl)
  BY DEF FlushIsCached
<1>1. jpc \in {"join", "read", "cache"}
  BY DEF JoinNext, JoinStep, Draw, Deliver, JoinRoom, HandleConnection, JoinReadsPending,
     JoinReadsCache, JoinFindsLatest, JoinFillsCache, SendState, Disconnect, joinVars, joiner,
     allVars
<1>2. ASSUME Saving(p), UNCHANGED snap
      PROVE  snap'.there /\ (p = Worker /\ CanExpire => ~snap'.ttl)
  BY <1>1, <1>2 DEF FlushIsCached
<1>3. CASE Background
  <2>1. Moves BY <1>3, BackgroundMoves DEF Types
  <2>2. CASE snap' = Stored(work[p], p # Worker)
    BY <2>2 DEF Stored
  <2>3. CASE Saving(p)
    <3>1. snap.there /\ (p = Worker /\ CanExpire => ~snap.ttl)
      BY <1>1, <2>3 DEF FlushIsCached
    <3>2. ~ExpireSnapshot
      BY <2>3, <3>1 DEF ExpireSnapshot, Saving, Procs
    <3>3. ASSUME NEW q \in Procs, pc[q] \in {"fill", "encode"}, snap'.there
          PROVE  snap'.there /\ (p = Worker /\ CanExpire => ~snap'.ttl)
      <4>1. q # p BY <2>3, <3>3 DEF Saving
      <4>2. ~Timely
        BY <2>3, <3>3, <4>1 DEF FlushMutex, Saving, Critical
      <4> QED BY <3>3, <4>2
    <3> QED BY <1>2, <2>1, <2>3, <3>2, <3>3 DEF Moves
  <2> QED BY <2>1, <2>2, <2>3 DEF Moves, Merges
<1>4. CASE \E e \in Events : Draw(e)
  <2>1. Saving(p) /\ UNCHANGED snap
    BY <1>4 DEF Draw, HashStroke, Step, Goto, Saving, Types, TypeInv, TypeOK, Procs
  <2> QED BY <1>2, <2>1
<1>5. CASE JoinerStep
  <2>1. Saving(p) /\ UNCHANGED snap
    BY <1>1, <1>5, JoinerShares DEF Types, handlers, Saving
  <2> QED BY <1>2, <2>1
<1>6. CASE UNCHANGED allVars
  BY <1>2, <1>6 DEF allVars, vars, Saving
<1> QED BY <1>3, <1>4, <1>5, <1>6, StepCases DEF JoinNext

LEMMA NothingMissedKept ==
  ASSUME ClocksAgree, Types, RowInv, DrawnOnce, FlushIsCached, NothingMissed, [JoinNext]_allVars
  PROVE  NothingMissed'
<1> USE DEF NothingMissed
<1>0. Canvas \subseteq Strokes /\ kept \subseteq Canvas
  BY DEF Types, TypeInv, TypeOK, Canvas, Snapshots, Rows, Strokes
<1>1. CASE Background /\ UNCHANGED joinVars
  <2>1. Moves /\ UNCHANGED <<jpc, batch, jrow, screen, late>>
    BY <1>1, BackgroundMoves DEF Types, joinVars, joiner
  <2>2. kept' \subseteq Canvas' /\ (jpc # "join" => kept' \subseteq kept)
    BY <1>1 DEF JoinNext, Track, allVars, joinVars, vars, Canvas
  <2>3. jpc \in {"cache", "find"} => kept' \cap pending' \subseteq batch
    BY <2>1, <2>2 DEF Moves
  <2>4. ASSUME jpc = "find", NEW p \in Procs, Saving(p)'
        PROVE  kept' \subseteq batch \cup work'[p]
    <3>1. CASE Saving(p) BY <2>1, <2>2, <2>4, <3>1 DEF Moves, Merges
    <3>2. CASE snap' = Stored(work[p], p # Worker)
      <4>1. Canvas' = pending' \cup work[p] BY <3>2 DEF Canvas, Stored
      <4> QED BY <2>1, <2>2, <2>3, <2>4, <4>1 DEF Moves, Merges
    <3> QED BY <2>1, <2>4, <3>1, <3>2 DEF Moves, Merges
  <2>5. jpc = "find" => kept' \subseteq batch \cup db'.strokes
    BY <2>1, <2>2 DEF Moves, Inserted, Saving
  <2> QED BY <2>1, <2>2, <2>3, <2>4, <2>5
<1>2. ASSUME NEW e \in Events, Draw(e) PROVE NothingMissed'
  <2>1. /\ UNCHANGED <<jpc, batch, jrow, screen, work, snap, db>>
        /\ pending' \subseteq pending \cup {e}
        /\ \A p \in Procs : Saving(p)' => Saving(p)
        /\ late' \subseteq late \cup {e} /\ (jpc = "join" => late' = late)
    BY <1>2 DEF Draw, HashStroke, Step, Goto, Applied, joiner, Types, TypeInv, TypeOK, Procs,
       Saving, InRoom
  <2>2. e \notin Canvas
    BY <1>2 DEF Draw, HashStroke, DrawnOnce, Held, Canvas
  <2>3. kept' \subseteq Canvas' /\ (jpc # "join" => kept' \subseteq kept)
    BY <1>2 DEF JoinNext, Track, allVars, joinVars, vars, Canvas, Draw, HashStroke, joiner
  <2> QED BY <1>0, <2>1, <2>2, <2>3
<1>3. CASE JoinerStep /\ Track
  <2>0. /\ UNCHANGED <<pc, work, pending, db, late>>
        /\ \A p \in Procs : Saving(p)' => Saving(p)
    BY <1>3, JoinerShares
    DEF Types, handlers, Saving, JoinerStep, Deliver, JoinRoom, HandleConnection,
        JoinReadsPending, JoinReadsCache, JoinFindsLatest, JoinFillsCache
  <2>1. kept' \subseteq Canvas' /\ (jpc # "join" => kept' \subseteq kept)
    BY <1>3 DEF Track
  <2>2. ASSUME NEW e \in Events, Deliver(e) PROVE NothingMissed'
    <3>1. UNCHANGED <<snap, jpc, batch, jrow>> /\ screen \subseteq screen'
      BY <2>2 DEF Deliver, joiner, vars
    <3> QED BY <2>0, <2>1, <3>1
  <2>3. CASE JoinRoom
    <3>1. Canvas' = Canvas /\ late = {} BY <2>3 DEF JoinRoom, vars, Canvas
    <3> QED BY <2>0, <2>1, <2>3, <3>1 DEF JoinRoom
  <2>4. CASE JoinReadsPending
    BY <2>0, <2>1, <2>4 DEF JoinReadsPending, Disconnect
  <2>5. CASE JoinReadsCache
    <3>1. snap.there => kept \subseteq batch \cup snap.strokes
      BY <2>5 DEF JoinReadsCache, Canvas
    <3>2. ~snap.there => kept \subseteq batch \cup db.strokes /\ \A p \in Procs : ~Saving(p)
      BY <2>5 DEF JoinReadsCache, Canvas, FlushIsCached
    <3> QED BY <2>0, <2>1, <2>5, <3>1, <3>2 DEF JoinReadsCache, SendState, Disconnect
  <2>6. CASE JoinFindsLatest
    BY <2>0, <2>1, <2>6 DEF JoinFindsLatest, SendState, Disconnect, RowInv
  <2>7. CASE JoinFillsCache
    BY <2>0, <2>1, <2>7 DEF JoinFillsCache, SendState
  <2> QED BY <1>3, <2>2, <2>3, <2>4, <2>5, <2>6, <2>7 DEF JoinerStep, HandleConnection
<1>4. CASE UNCHANGED allVars
  BY <1>4 DEF allVars, vars, joinVars, joiner, Canvas, Saving
<1> QED BY <1>1, <1>2, <1>3, <1>4, StepCases DEF JoinNext

JoinInv ==
  Types /\ RowInv /\ FlushMutex /\ DrawnOnce /\ FlushIsCached /\ (ClocksAgree => NothingMissed)

LEMMA JoinInvInit == JoinInit => JoinInv
<1> SUFFICES ASSUME JoinInit PROVE JoinInv
  OBVIOUS
<1>1. Init BY DEF JoinInit
<1>2. TypeInv /\ RowInv /\ FlushMutex BY <1>1, PhaseInit DEF PhaseInv
<1>3. Canvas \subseteq Strokes
  BY <1>2 DEF TypeInv, TypeOK, Canvas, Snapshots, Rows, Strokes
<1>4. Types BY <1>2, <1>3 DEF JoinInit, Types, JoinTypeOK
<1>5. \A p \in Procs : ~Saving(p) BY <1>1 DEF Init, Saving
<1>6. FlushIsCached BY <1>5 DEF FlushIsCached
<1>7. DrawnOnce
  BY <1>1 DEF JoinInit, Init, DrawnOnce, Held, NoRow, NoSnap, Stored
<1>8. NothingMissed BY <1>5 DEF JoinInit, NothingMissed
<1> QED BY <1>2, <1>4, <1>6, <1>7, <1>8 DEF JoinInv

\* A user who joins is sent every stroke that was on the canvas when client.join
\* returned and has not left it, for any number of strokes, flushes, evictions, failures
\* and crashes: if flushes take less than LOCK_TTL, or if the cached snapshot is not
\* evicted, and clocks agree (the property's own condition).
THEOREM JoinerIsSentTheCanvas ==
  ASSUME Timely \/ ~CanExpire PROVE JoinSpec => []JoinerHasTheCanvas
<1>1. JoinInv /\ [JoinNext]_allVars => JoinInv'
  BY TypesKept, RowAndMutexKept, DrawnOnceKept, FlushIsCachedKept, NothingMissedKept DEF JoinInv
<1>2. JoinInv => JoinerHasTheCanvas
  BY DEF JoinInv, NothingMissed, JoinerHasTheCanvas
<1> QED BY <1>1, <1>2, JoinInvInit, PTL DEF JoinSpec
=============================================================================
