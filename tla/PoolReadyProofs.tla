---------------------------- MODULE PoolReadyProofs ----------------------------
(***************************************************************************)
(* What the pool controller promises of its instances and its provision    *)
(* job: scaling goes towards the replicas, one job runs at a time, Ready   *)
(* is earned, and a pool that nothing stirs is complete.                   *)
(***************************************************************************)
EXTENDS PoolReplicasProofs

(* What a reconcile begins with. *)
LEMMA StartDequeues ==
    ASSUME Start
    PROVE  Dequeue
  BY DEF Start, ReconcileMissing, RefuseProfile, NeedsFinalizer, HandleUpdate, HandleDeletion

LEMMA BeginCopy ==
    ASSUME TypeOK, NEW phase, NEW desired, NEW next, NEW requeue \in BOOLEAN,
           Begin(phase, desired, next, requeue)
    PROVE  /\ pc' = next /\ again' = requeue
           /\ obj'.replicas = CachedPool.replicas
           /\ obj'.status.phase = phase
           /\ obj'.status.desired = desired
           /\ obj'.status.job = CachedPool.status.job
           /\ current' = (Len(pools) = 1)
           /\ oldstatus' = CachedPool.status
  <1>1. CachedPool \in Pools /\ CachedPool.status \in Statuses
    BY VersionTypes, PoolParts
  <1> DEFINE status == [CachedPool.status EXCEPT !.phase = phase, !.desired = desired]
  <1>2. obj' = [CachedPool EXCEPT !.status = status]
    BY <1>1 DEF Begin, Pools
  <1>3. obj'.replicas = CachedPool.replicas /\ obj'.status = status
    BY <1>1, <1>2 DEF Pools
  <1>4. status.phase = phase /\ status.desired = desired /\ status.job = CachedPool.status.job
    BY <1>1 DEF Statuses
  <1>5. /\ obj'.status.phase = phase
        /\ obj'.status.desired = desired
        /\ obj'.status.job = CachedPool.status.job
    BY <1>3, <1>4
  <1> QED
    BY <1>3, <1>5 DEF Begin

(* Whatever the copy is for, it is the cached pool with another phase or version at most. *)
LEMMA StartBegins ==
    ASSUME TypeOK, Start, ~ReconcileMissing
    PROVE  /\ pc' \in {"status", "addFinalizer", "scale"} \union DeletionSteps
           /\ pc' \in {"addFinalizer", "scale"} => CachedPool.life = "live" /\ ~Refused
           /\ pc' \in DeletionSteps => CachedPool.life = "deleting"
           /\ pc' = "status" => CachedPool.life = "deleting" \/ Refused
           /\ pc' = "scale" => CountListed /\ obj'.status.desired = CachedPool.replicas
           /\ obj'.replicas = CachedPool.replicas
           /\ obj'.status.phase = "Ready" => CachedPool.status.phase = "Ready"
           /\ obj'.status.job = CachedPool.status.job
           /\ current' = (Len(pools) = 1)
           /\ oldstatus' = CachedPool.status
  <1>1. CASE RefuseProfile
    <2>1. (\E desired : Begin("Failed", desired, "status", FALSE)) /\ Refused
      BY <1>1 DEF RefuseProfile, BeginUpdate
    <2>2. /\ pc' = "status"
          /\ obj'.replicas = CachedPool.replicas
          /\ obj'.status.phase = "Failed"
          /\ obj'.status.job = CachedPool.status.job
          /\ current' = (Len(pools) = 1)
          /\ oldstatus' = CachedPool.status
      BY <2>1, BeginCopy
    <2> QED
      BY <2>1, <2>2 DEF DeletionSteps
  <1>2. CASE NeedsFinalizer
    <2>1. /\ Begin(InitialPhase, CachedPool.replicas, "addFinalizer", FALSE)
          /\ CachedPool.life = "live" /\ ~Refused
      BY <1>2 DEF NeedsFinalizer, BeginUpdate
    <2>2. /\ pc' = "addFinalizer"
          /\ obj'.replicas = CachedPool.replicas
          /\ obj'.status.phase = InitialPhase
          /\ obj'.status.job = CachedPool.status.job
          /\ current' = (Len(pools) = 1)
          /\ oldstatus' = CachedPool.status
      BY <2>1, BeginCopy
    <2> QED
      BY <2>1, <2>2 DEF DeletionSteps, InitialPhase
  <1>3. CASE HandleUpdate
    <2>1. /\ Begin(InitialPhase, CachedPool.replicas, "scale", FALSE) /\ CountListed
          /\ CachedPool.life = "live" /\ ~Refused
      BY <1>3 DEF HandleUpdate, BeginUpdate
    <2>2. /\ pc' = "scale"
          /\ obj'.replicas = CachedPool.replicas
          /\ obj'.status.desired = CachedPool.replicas
          /\ obj'.status.phase = InitialPhase
          /\ obj'.status.job = CachedPool.status.job
          /\ current' = (Len(pools) = 1)
          /\ oldstatus' = CachedPool.status
      BY <2>1, BeginCopy
    <2> QED
      BY <2>1, <2>2 DEF DeletionSteps, InitialPhase
  <1>4. CASE HandleDeletion
    <2>1. CachedPool.life = "deleting"
      BY <1>4 DEF HandleDeletion
    <2>2. PICK phase \in {"Deleting", "Failed"}, requeue \in BOOLEAN,
               next \in {"status"} \union DeletionSteps :
                  Begin(phase, CachedPool.status.desired, next, requeue)
      BY <1>4 DEF HandleDeletion, BeginDeletion, DeletionSteps
    <2> QED
      BY <2>1, <2>2, BeginCopy DEF DeletionSteps
  <1> QED
    BY <1>1, <1>2, <1>3, <1>4 DEF Start
--------------------------------------------------------------------------------
(* How many provision jobs run *)

(* The job a status says is running, and the running ones it says nothing of. *)
Recorded(status) == {j \in Jobs : status.job.state = "running" /\ status.job.id = j}

Unrecorded(status) == Running \ Recorded(status)

(* The steps of handleUpdate that may still start a job. *)
StartSteps == {"addFinalizer", "scale", "provision", "trigger"}

(* What may each have cost the record of one job. *)
Trouble == edits + failures

Fewer(S, n) == IsFiniteSet(S) /\ Cardinality(S) < n

(* A worker starts a job when its copy shows none that runs; then no more than Trouble do. *)
(* The one it starts is in its copy, and will be in the stored status unless the copy is   *)
(* outdated; the edit that outdates it is one more Trouble.                                *)
JobInv ==
    env.poolLag = 0 =>
        /\ Fewer(Running, Trouble + 2)
        /\ pc \in StartSteps \/ (pc # "idle" /\ current /\ Pool.life = "live") =>
              Fewer(Unrecorded(obj.status), Trouble + 1)
        /\ Pool.life = "live" /\ ~(pc = "flush" /\ current) =>
              Fewer(Unrecorded(Pool.status), Trouble + 1)
        /\ Pool.life = "live" /\ pc \in StartSteps /\ ~current =>
              Fewer(Unrecorded(Pool.status), Trouble)
        /\ pc = "trigger" => Job.state # "running"

LEMMA FewerSubset ==
    ASSUME NEW S, NEW T, T \subseteq S, NEW m \in Nat, NEW n \in Nat, m <= n, Fewer(S, m)
    PROVE  Fewer(T, n)
  <1>1. IsFiniteSet(T) /\ Cardinality(T) <= Cardinality(S)
    BY FS_Subset DEF Fewer
  <1>2. Cardinality(T) \in Nat /\ Cardinality(S) \in Nat /\ Cardinality(S) < m
    BY <1>1, FS_CardinalityType DEF Fewer
  <1> QED
    BY <1>1, <1>2 DEF Fewer

LEMMA FewerMore ==
    ASSUME NEW S, NEW T, NEW x, T \subseteq S \union {x}, NEW n \in Nat, Fewer(S, n)
    PROVE  Fewer(T, n + 1)
  <1>1. IsFiniteSet(S) /\ Cardinality(S) \in Nat /\ Cardinality(S) < n
    BY FS_CardinalityType DEF Fewer
  <1>2. /\ IsFiniteSet(S \union {x})
        /\ \/ Cardinality(S \union {x}) = Cardinality(S)
           \/ Cardinality(S \union {x}) = Cardinality(S) + 1
    BY <1>1, FS_AddElement
  <1>3. Cardinality(S \union {x}) < n + 1
    BY <1>1, <1>2
  <1>4. Fewer(S \union {x}, n + 1)
    BY <1>2, <1>3 DEF Fewer
  <1> QED
    BY <1>4, FewerSubset

LEMMA TroubleTypes ==
    ASSUME TypeOK
    PROVE  Trouble \in Nat
  <1>1. edits \in 0 .. env.edits /\ failures \in 0 .. env.failures
    BY DEF TypeOK
  <1> QED
    BY <1>1, EnvironmentParts DEF Trouble

LEMMA FaultTroubles ==
    ASSUME TypeOK, NEW kind, Fault(kind), edits' = edits
    PROVE  Trouble' = Trouble + 1
  <1>1. edits \in 0 .. env.edits /\ failures \in 0 .. env.failures /\ failures' = failures + 1
    BY DEF TypeOK, Fault
  <1> QED
    BY <1>1, EnvironmentParts DEF Trouble

(* When the pool is up to date, the cache shows the stored version. *)
LEMMA UpToDatePool ==
    ASSUME TypeOK, env.poolLag = 0
    PROVE  Len(pools) = 1 /\ CachedPool = Pool
  <1>1. Len(pools) \in 1 .. env.poolLag + 1
    BY DEF TypeOK
  <1>2. Len(pools) = 1
    BY <1>1
  <1> QED
    BY <1>2 DEF CachedPool, Pool

(* An error leaves all of the copy but the phase and the counted hosts as they were. *)
LEMMA FailsCopy ==
    ASSUME TypeOK, Fails
    PROVE  /\ pc' = "status" /\ again'
           /\ obj'.replicas = obj.replicas
           /\ obj'.status.job = obj.status.job
           /\ obj'.status.phase = "Ready" => obj.status.phase = "Ready"
           /\ oldstatus' = oldstatus
  <1>1. obj \in Pools /\ obj.status \in Statuses
    BY PoolParts DEF TypeOK
  <1>2. \/ obj' = obj
        \/ obj' = [obj EXCEPT !.status = [obj.status EXCEPT !.phase = "Failed"]]
        \/ obj' = [obj EXCEPT !.status = [[obj.status EXCEPT !.phase = "Failed"]
                                             EXCEPT !.hosts = StatusHosts]]
    BY <1>1 DEF Fails, Pools
  <1>3. /\ [obj.status EXCEPT !.phase = "Failed"].job = obj.status.job
        /\ [obj.status EXCEPT !.phase = "Failed"].phase = "Failed"
        /\ [[obj.status EXCEPT !.phase = "Failed"] EXCEPT !.hosts = StatusHosts].job
              = obj.status.job
        /\ [[obj.status EXCEPT !.phase = "Failed"] EXCEPT !.hosts = StatusHosts].phase
              = "Failed"
    BY <1>1 DEF Statuses
  <1>4. \A s : /\ [obj EXCEPT !.status = s].status = s
               /\ [obj EXCEPT !.status = s].replicas = obj.replicas
    BY <1>1 DEF Pools
  <1>5. /\ obj'.replicas = obj.replicas
        /\ obj'.status.job = obj.status.job
        /\ obj'.status.phase = "Ready" => obj.status.phase = "Ready"
    BY <1>2, <1>3, <1>4
  <1> QED
    BY <1>5 DEF Fails, Return

(* What else changes in a copy. *)
LEMMA PhaseCopy ==
    ASSUME NEW p \in Pools, NEW x, NEW q, q = [p EXCEPT !.status.phase = x]
    PROVE  /\ q.replicas = p.replicas
           /\ q.status.phase = x
           /\ q.status.hosts = p.status.hosts
           /\ q.status.job = p.status.job
  <1>1. p.status \in Statuses
    BY PoolParts
  <1>2. q = [p EXCEPT !.status = [p.status EXCEPT !.phase = x]]
    BY DEF Pools
  <1>3. q.replicas = p.replicas /\ q.status = [p.status EXCEPT !.phase = x]
    BY <1>2 DEF Pools
  <1>4. \A s \in Statuses : /\ [s EXCEPT !.phase = x].phase = x
                             /\ [s EXCEPT !.phase = x].hosts = s.hosts
                             /\ [s EXCEPT !.phase = x].job = s.job
    BY DEF Statuses
  <1> QED
    BY <1>1, <1>3, <1>4

LEMMA AddFinalizerCopy ==
    ASSUME TypeOK, AddFinalizer
    PROVE  /\ obj'.replicas = obj.replicas
           /\ obj'.status.phase = obj.status.phase
           /\ obj'.status.job = obj.status.job
  <1> DEFINE desired == IF Pool.status.desired = NoVersion THEN obj.status.desired
                        ELSE Pool.status.desired
             finalized == [obj EXCEPT !.finalizer = TRUE]
             status == [obj.status EXCEPT !.desired = desired]
  <1>1. obj \in Pools /\ obj.status \in Statuses
    BY PoolParts DEF TypeOK
  <1>2. finalized.replicas = obj.replicas /\ finalized.status = obj.status /\ finalized \in Pools
    BY <1>1, PoolParts DEF Pools
  <1>3. obj' = [finalized EXCEPT !.status = status]
    BY <1>1, <1>2 DEF AddFinalizer, Pools, Statuses
  <1>4. status.phase = obj.status.phase /\ status.job = obj.status.job
    BY <1>1 DEF Statuses
  <1> HIDE DEF desired, finalized, status
  <1>5. obj'.replicas = finalized.replicas /\ obj'.status = status
    BY <1>2, <1>3 DEF Pools
  <1> QED
    BY <1>2, <1>4, <1>5

LEMMA ScaledCopy ==
    ASSUME TypeOK, Scaled
    PROVE  /\ obj'.replicas = obj.replicas
           /\ obj'.status.desired = obj.status.desired
           /\ obj'.status.phase = obj.status.phase
           /\ obj'.status.hosts = StatusHosts
           /\ obj'.status.job = obj.status.job
  <1>1. obj \in Pools /\ obj.status \in Statuses
    BY PoolParts DEF TypeOK
  <1>2. obj' = [obj EXCEPT !.status = [obj.status EXCEPT !.hosts = StatusHosts]]
    BY <1>1 DEF Scaled, Pools
  <1>3. obj'.replicas = obj.replicas /\ obj'.status = [obj.status EXCEPT !.hosts = StatusHosts]
    BY <1>1, <1>2 DEF Pools
  <1> QED
    BY <1>1, <1>3 DEF Statuses

LEMMA CheckReadyCopy ==
    ASSUME TypeOK, CheckReady
    PROVE  /\ obj'.replicas = obj.replicas
           /\ obj'.status.phase = IF ListedReady THEN "Ready" ELSE "Progressing"
           /\ obj'.status.hosts = obj.status.hosts
           /\ obj'.status.job = obj.status.job
  <1>1. obj \in Pools
    BY DEF TypeOK
  <1>2. obj' = [obj EXCEPT !.status.phase = IF ListedReady THEN "Ready" ELSE "Progressing"]
    BY DEF CheckReady, Phase
  <1> QED
    BY <1>1, <1>2, PhaseCopy

LEMMA TriggerCopy ==
    ASSUME TypeOK, NEW j \in Jobs, Trigger(j)
    PROVE  /\ obj'.replicas = obj.replicas
           /\ obj'.status.phase = obj.status.phase
           /\ obj'.status.hosts = obj.status.hosts
           /\ obj'.status.job = [id |-> j, state |-> "running", version |-> obj.status.desired]
  <1> DEFINE job == [id |-> j, state |-> "running", version |-> obj.status.desired]
             status == [obj.status EXCEPT !.job = job]
  <1>1. obj \in Pools /\ obj.status \in Statuses
    BY PoolParts DEF TypeOK
  <1>2. obj' = [obj EXCEPT !.status = status]
    BY <1>1 DEF Trigger, Pools
  <1>3. obj'.replicas = obj.replicas /\ obj'.status = status
    BY <1>1, <1>2 DEF Pools
  <1>4. /\ status.phase = obj.status.phase
        /\ status.hosts = obj.status.hosts
        /\ status.job = job
    BY <1>1 DEF Statuses
  <1> QED
    BY <1>3, <1>4

LEMMA PollCopy ==
    ASSUME TypeOK, Poll
    PROVE  /\ obj'.replicas = obj.replicas
           /\ obj'.status.phase = "Ready" => obj.status.phase = "Ready"
           /\ obj'.status.hosts = obj.status.hosts
           /\ obj'.status.job.id = obj.status.job.id
           /\ obj'.status.job.version = obj.status.job.version
           /\ obj'.status.job.state = jobs[obj.status.job.id]
  <1> DEFINE state == jobs[Job.id]
             phase == IF state = "failed" THEN "Failed" ELSE obj.status.phase
             job == [obj.status.job EXCEPT !.state = state]
             status == [obj.status EXCEPT !.job = job]
  <1>1. obj \in Pools /\ obj.status \in Statuses /\ obj.status.job \in JobStatuses
    BY PoolParts, StatusParts DEF TypeOK
  <1>2. /\ job.id = obj.status.job.id
        /\ job.version = obj.status.job.version
        /\ job.state = jobs[obj.status.job.id]
    BY <1>1 DEF JobStatuses, Job
  <1>3. /\ status.phase = obj.status.phase
        /\ status.hosts = obj.status.hosts
        /\ status.job = job
        /\ [status EXCEPT !.phase = phase].phase = phase
        /\ [status EXCEPT !.phase = phase].hosts = obj.status.hosts
        /\ [status EXCEPT !.phase = phase].job = job
    BY <1>1 DEF Statuses
  <1>4. obj' = [obj EXCEPT !.status = [status EXCEPT !.phase = phase]]
    <2>1. obj' = [[obj EXCEPT !.status.job.state = state] EXCEPT !.status.phase = phase]
      BY <1>1 DEF Poll, Pools, Statuses
    <2>2. [obj EXCEPT !.status.job.state = state] = [obj EXCEPT !.status = status]
      BY <1>1 DEF Pools, Statuses
    <2>3. [obj EXCEPT !.status = status].status = status
      BY <1>1 DEF Pools
    <2> QED
      BY <1>1, <2>1, <2>2, <2>3 DEF Pools
  <1>5. obj'.replicas = obj.replicas /\ obj'.status = [status EXCEPT !.phase = phase]
    BY <1>1, <1>4 DEF Pools
  <1>6. phase = "Ready" => obj.status.phase = "Ready"
    OBVIOUS
  <1> HIDE DEF state, phase, job, status
  <1> QED
    BY <1>2, <1>3, <1>5, <1>6

(* What is unrecorded depends on the jobs and on the job of the status alone. *)
LEMMA UnrecordedSame ==
    ASSUME jobs' = jobs
    PROVE  /\ Running' = Running
           /\ obj'.status.job = obj.status.job =>
                 Unrecorded(obj.status)' = Unrecorded(obj.status) /\ Job' = Job
           /\ Pool'.status.job = Pool.status.job =>
                 Unrecorded(Pool.status)' = Unrecorded(Pool.status)
           /\ Pool'.status.job = obj.status.job =>
                 Unrecorded(Pool.status)' = Unrecorded(obj.status)
           /\ obj'.status.job = Pool.status.job =>
                 Unrecorded(obj.status)' = Unrecorded(Pool.status)
  BY DEF Running, Recorded, Unrecorded, Job

(* The worker goes on with the job it has, and the stored pool is not touched. *)
LEMMA JobFrame ==
    ASSUME TypeOK, JobInv, UNCHANGED <<pools, jobs, env, edits, failures>>,
           pc # "idle" /\ pc' # "idle",
           pc = "flush" /\ current /\ Pool.life = "live" => pc' = "flush",
           pc' \in StartSteps => pc \in StartSteps,
           pc' = "trigger" => pc = "trigger" \/ Job'.state # "running",
           current' = current,
           obj'.status.job = obj.status.job
    PROVE  JobInv'
  <1>1. Pool' = Pool /\ Trouble' = Trouble
    BY DEF Pool, Trouble
  <1>2. /\ Running' = Running /\ Job' = Job
        /\ Unrecorded(obj.status)' = Unrecorded(obj.status)
        /\ Unrecorded(Pool.status)' = Unrecorded(Pool.status)
    BY <1>1, UnrecordedSame
  <1> QED
    BY <1>1, <1>2 DEF JobInv

(* The worker, or another, writes the pool. *)
LEMMA JobWritten ==
    ASSUME TypeOK, JobInv, NEW p \in Pools, WritePool(p),
           UNCHANGED <<jobs, env, edits, failures>>,
           p.life = "live" =>
              /\ Pool.life = "live"
              /\ \/ p.status.job = Pool.status.job /\ pc # "flush"
                 \/ p.status.job = obj.status.job /\ pc # "idle" /\ current
              /\ pc' # "idle" => current' = current,
           pc' # "idle" => pc # "idle" /\ obj'.status.job = obj.status.job,
           pc' \in StartSteps => pc \in StartSteps,
           pc' = "trigger" => pc = "trigger"
    PROVE  JobInv'
  <1>1. Pool' = p /\ Running' = Running /\ Trouble' = Trouble
    BY WritePoolEffect, UnrecordedSame DEF Trouble
  <1>2. pc' # "idle" => Unrecorded(obj.status)' = Unrecorded(obj.status) /\ Job' = Job
    BY UnrecordedSame
  <1>3. p.life = "live" =>
           \/ pc # "flush" /\ Unrecorded(Pool.status)' = Unrecorded(Pool.status)
           \/ pc # "idle" /\ current /\ Unrecorded(Pool.status)' = Unrecorded(obj.status)
    BY <1>1, UnrecordedSame
  <1>4. ASSUME env.poolLag = 0, p.life = "live"
        PROVE  Fewer(Unrecorded(Pool.status)', Trouble + 1)
    BY <1>3, <1>4 DEF JobInv
  <1>5. ASSUME env.poolLag = 0, p.life = "live", pc' \in StartSteps, ~current'
        PROVE  Fewer(Unrecorded(Pool.status)', Trouble)
    <2>1. pc \in StartSteps /\ ~current
      BY <1>5 DEF StartSteps
    <2> QED
      BY <1>3, <1>5, <2>1 DEF JobInv
  <1>6. ASSUME env.poolLag = 0,
               pc' \in StartSteps \/ (pc' # "idle" /\ current' /\ p.life = "live")
        PROVE  Fewer(Unrecorded(obj.status)', Trouble + 1)
    BY <1>2, <1>6 DEF JobInv, StartSteps
  <1>7. env.poolLag = 0 /\ pc' = "trigger" => Job'.state # "running"
    BY <1>2 DEF JobInv
  <1>8. env.poolLag = 0 => Fewer(Running, Trouble + 2)
    BY DEF JobInv
  <1> QED
    BY <1>1, <1>4, <1>5, <1>6, <1>7, <1>8 DEF JobInv

LEMMA JobStart ==
    ASSUME TypeOK, JobInv, Start
    PROVE  JobInv'
  <1> SUFFICES ASSUME env'.poolLag = 0
               PROVE  JobInv'
    BY DEF JobInv
  <1>1. Dequeue /\ UNCHANGED <<env, pools, jobs, edits, failures>> /\ pc = "idle"
    BY StartDequeues DEF Dequeue, cluster
  <1>2. CachedPool = Pool /\ Len(pools) = 1
    BY <1>1, UpToDatePool
  <1>3. Pool' = Pool /\ Trouble' = Trouble
    BY <1>1 DEF Pool, Trouble
  <1>4. Running' = Running /\ Unrecorded(Pool.status)' = Unrecorded(Pool.status)
    BY <1>1, <1>3, UnrecordedSame
  <1>5. CASE ReconcileMissing
    <2>1. pc' = "idle"
      BY <1>1, <1>5 DEF ReconcileMissing, worker
    <2> QED
      BY <1>1, <1>3, <1>4, <2>1 DEF JobInv, StartSteps
  <1>6. CASE ~ReconcileMissing
    <2>1. /\ pc' \notin {"flush", "trigger"} /\ current'
          /\ pc' \in StartSteps => Pool.life = "live"
      BY <1>2, <1>6, StartBegins DEF StartSteps, DeletionSteps
    <2>2. Unrecorded(obj.status)' = Unrecorded(Pool.status)
      BY <1>1, <1>2, <1>6, StartBegins, UnrecordedSame
    <2> QED
      BY <1>1, <1>3, <1>4, <2>1, <2>2 DEF JobInv
  <1> QED
    BY <1>5, <1>6

LEMMA JobStatus ==
    ASSUME TypeOK, JobInv, StoreStatus, pc # "idle", pc' \in {"idle", "status"},
           UNCHANGED <<edits, failures>>, pc' # "idle" => obj' = obj /\ current' = current
    PROVE  JobInv'
  <1>1. /\ Pool \in Pools /\ obj \in Pools /\ UNCHANGED <<jobs, env>>
        /\ Accepted /\ current
    BY VersionTypes DEF StoreStatus, Accepted, cluster, TypeOK
  <1> DEFINE p == [Pool EXCEPT !.status = obj.status]
  <1>2. p \in Pools /\ p.life = Pool.life /\ p.status = obj.status
    BY <1>1, PoolParts DEF Pools
  <1>3. pc' \notin StartSteps /\ pc' # "trigger" /\ pc' # "flush"
    BY DEF StartSteps
  <1>4. CASE WritePool(p)
    <2> HIDE DEF p
    <2> QED
      BY <1>1, <1>2, <1>3, <1>4, JobWritten
  <1>5. CASE UNCHANGED pools /\ Pool.status = obj.status
    <2>1. Pool' = Pool /\ Trouble' = Trouble
      BY <1>5 DEF Pool, Trouble
    <2>2. /\ Running' = Running
          /\ Unrecorded(Pool.status)' = Unrecorded(obj.status)
          /\ pc' # "idle" => Unrecorded(obj.status)' = Unrecorded(obj.status)
      BY <1>1, <1>5, <2>1, UnrecordedSame
    <2> QED
      BY <1>1, <1>3, <2>1, <2>2 DEF JobInv
  <1> QED
    BY <1>4, <1>5 DEF StoreStatus

(* The worker rests, and the stored pool is not touched. *)
LEMMA JobRest ==
    ASSUME TypeOK, JobInv, UNCHANGED <<pools, jobs, env, edits, failures>>,
           pc' = "idle", pc # "flush"
    PROVE  JobInv'
  <1>1. Pool' = Pool /\ Trouble' = Trouble
    BY DEF Pool, Trouble
  <1>2. Running' = Running /\ Unrecorded(Pool.status)' = Unrecorded(Pool.status)
    BY <1>1, UnrecordedSame
  <1>3. pc' \notin StartSteps
    BY DEF StartSteps
  <1> QED
    BY <1>1, <1>2, <1>3 DEF JobInv

(* Neither the worker nor the pool is concerned, but a job may have ended. *)
LEMMA JobSame ==
    ASSUME TypeOK, JobInv, UNCHANGED <<pools, env, pc, obj, current>>,
           Trouble' \in {Trouble, Trouble + 1}, Running' \subseteq Running
    PROVE  JobInv'
  <1>1. Pool' = Pool /\ Job' = Job
    BY DEF Pool, Job
  <1>2. /\ Unrecorded(Pool.status)' \subseteq Unrecorded(Pool.status)
        /\ Unrecorded(obj.status)' \subseteq Unrecorded(obj.status)
    BY <1>1 DEF Recorded, Unrecorded
  <1>3. /\ Trouble \in Nat /\ Trouble + 1 \in Nat /\ Trouble + 2 \in Nat
        /\ Trouble' \in Nat /\ Trouble' + 1 \in Nat /\ Trouble' + 2 \in Nat
        /\ Trouble <= Trouble' /\ Trouble + 1 <= Trouble' + 1 /\ Trouble + 2 <= Trouble' + 2
    BY TroubleTypes
  <1>4. Fewer(Running, Trouble + 2) => Fewer(Running', Trouble' + 2)
    BY <1>3, FewerSubset
  <1>5. Fewer(Unrecorded(obj.status), Trouble + 1) =>
           Fewer(Unrecorded(obj.status)', Trouble' + 1)
    BY <1>2, <1>3, FewerSubset
  <1>6. /\ Fewer(Unrecorded(Pool.status), Trouble + 1) =>
              Fewer(Unrecorded(Pool.status)', Trouble' + 1)
        /\ Fewer(Unrecorded(Pool.status), Trouble) =>
              Fewer(Unrecorded(Pool.status)', Trouble')
    BY <1>2, <1>3, FewerSubset
  <1> QED
    BY <1>1, <1>4, <1>5, <1>6 DEF JobInv

(* A failure pays for whatever running job is forgotten with it. *)
LEMMA JobForgotten ==
    ASSUME TypeOK, JobInv, env' = env, Running' \subseteq Running, Trouble' = Trouble + 1,
           pc' \notin StartSteps
    PROVE  JobInv'
  <1>1. Trouble \in Nat
    BY TroubleTypes
  <1>2. ASSUME NEW S, S \subseteq Running', env.poolLag = 0
        PROVE  Fewer(S, Trouble' + 1) /\ Fewer(S, Trouble' + 2)
    <2>1. Fewer(Running, Trouble + 2)
      BY <1>2 DEF JobInv
    <2>2. /\ Trouble + 2 \in Nat /\ Trouble' + 1 \in Nat /\ Trouble' + 2 \in Nat
          /\ Trouble + 2 <= Trouble' + 1 /\ Trouble + 2 <= Trouble' + 2
      BY <1>1
    <2>3. S \subseteq Running
      BY <1>2
    <2> QED
      BY <2>1, <2>2, <2>3, FewerSubset
  <1>3. /\ Unrecorded(obj.status)' \subseteq Running'
        /\ Unrecorded(Pool.status)' \subseteq Running'
    BY DEF Unrecorded
  <1>4. env.poolLag = 0 =>
           /\ Fewer(Running', Trouble' + 2)
           /\ Fewer(Unrecorded(obj.status)', Trouble' + 1)
           /\ Fewer(Unrecorded(Pool.status)', Trouble' + 1)
    BY <1>2, <1>3
  <1>5. pc' # "trigger"
    BY DEF StartSteps
  <1> QED
    BY <1>4, <1>5 DEF JobInv

LEMMA JobPoll ==
    ASSUME TypeOK, JobInv, Poll
    PROVE  JobInv'
  <1> SUFFICES ASSUME env'.poolLag = 0
               PROVE  JobInv'
    BY DEF JobInv
  <1>1. /\ pc = "poll" /\ pc' \in {"status", "readiness"}
        /\ UNCHANGED <<pools, jobs, current, env, edits, failures>>
    BY DEF Poll, Return, Continue, Local, cluster
  <1>2. Pool' = Pool /\ Trouble' = Trouble
    BY <1>1 DEF Pool, Trouble
  <1>3. Running' = Running /\ Unrecorded(Pool.status)' = Unrecorded(Pool.status)
    BY <1>1, <1>2, UnrecordedSame
  <1>4. /\ obj'.status.job.id = obj.status.job.id
        /\ obj'.status.job.state = jobs[obj.status.job.id]
    BY PollCopy
  <1>5. Unrecorded(obj.status)' \subseteq Unrecorded(obj.status)
    BY <1>1, <1>3, <1>4 DEF Running, Recorded, Unrecorded
  <1>6. current /\ Pool.life = "live" => Fewer(Unrecorded(obj.status)', Trouble + 1)
    <2>1. Trouble + 1 \in Nat /\ Trouble + 1 <= Trouble + 1
      BY TroubleTypes
    <2> QED
      BY <1>1, <1>5, <2>1, FewerSubset DEF JobInv
  <1>7. pc' \notin StartSteps
    BY <1>1 DEF StartSteps
  <1> QED
    BY <1>1, <1>2, <1>3, <1>6, <1>7 DEF JobInv

(* A worker that starts a job has none in its copy: what it has does not hide one. *)
LEMMA JobTrigger ==
    ASSUME TypeOK, JobInv, NEW j \in Jobs, Trigger(j)
    PROVE  JobInv'
  <1> SUFFICES ASSUME env'.poolLag = 0
               PROVE  JobInv'
    BY DEF JobInv
  <1>1. /\ pc = "trigger" /\ pc' = "flush"
        /\ UNCHANGED <<pools, current, env, edits, failures>>
        /\ jobs' = [jobs EXCEPT ![j] = "running"]
    BY DEF Trigger, StartJob, Continue
  <1>2. Pool' = Pool /\ Trouble' = Trouble /\ Trouble \in Nat /\ pc \in StartSteps
    BY <1>1, TroubleTypes DEF Pool, Trouble, StartSteps
  <1>3. Fewer(Unrecorded(obj.status), Trouble + 1) /\ Job.state # "running"
    BY <1>1, <1>2 DEF JobInv
  <1>4. Unrecorded(obj.status) = Running
    BY <1>3 DEF Recorded, Unrecorded, Job
  <1>5. Running' = Running \union {j}
    BY <1>1 DEF Running, TypeOK
  <1>6. Fewer(Running', Trouble + 2)
    <2>1. Trouble + 1 \in Nat /\ (Trouble + 1) + 1 = Trouble + 2
      BY <1>2
    <2>2. Running' \subseteq Running \union {j} /\ Fewer(Running, Trouble + 1)
      BY <1>3, <1>4, <1>5
    <2>3. Fewer(Running', (Trouble + 1) + 1)
      BY <2>1, <2>2, FewerMore
    <2> QED
      BY <2>1, <2>3
  <1>7. Fewer(Unrecorded(obj.status)', Trouble + 1)
    <2>1. obj'.status.job = [id |-> j, state |-> "running", version |-> obj.status.desired]
      BY TriggerCopy
    <2>2. Unrecorded(obj.status)' \subseteq Running
      BY <1>5, <2>1 DEF Recorded, Unrecorded
    <2>3. Trouble + 1 \in Nat /\ Trouble + 1 <= Trouble + 1
      BY <1>2
    <2> QED
      BY <1>3, <1>4, <2>2, <2>3, FewerSubset
  <1>8. ASSUME Pool.life = "live", ~current
        PROVE  Fewer(Unrecorded(Pool.status)', Trouble + 1)
    <2>1. Fewer(Unrecorded(Pool.status), Trouble)
      BY <1>1, <1>2, <1>8 DEF JobInv
    <2>2. Unrecorded(Pool.status)' \subseteq Unrecorded(Pool.status) \union {j}
      BY <1>2, <1>5 DEF Recorded, Unrecorded
    <2> QED
      BY <1>2, <2>1, <2>2, FewerMore
  <1>9. pc' \notin StartSteps
    BY <1>1 DEF StartSteps
  <1> QED
    BY <1>1, <1>2, <1>6, <1>7, <1>8, <1>9 DEF JobInv

LEMMA JobLocal ==
    ASSUME TypeOK, JobInv,
           Rejected \/ Scaled \/ Provision \/ CheckReady \/ TeardownPending \/ TeardownDone
    PROVE  JobInv'
  <1>1. /\ UNCHANGED <<pools, jobs, env, edits, failures, current>>
        /\ pc # "idle" /\ pc' # "idle"
    BY DEF Rejected, Scaled, Provision, CheckReady, TeardownPending, TeardownDone,
           Local, cluster, Fails, Return, Continue
  <1>2. pc = "flush" => ~current \/ Pool.life = "gone"
    BY DEF Rejected, Scaled, Provision, CheckReady, TeardownPending, TeardownDone
  <1>3. /\ pc' \in StartSteps => pc \in StartSteps
        /\ pc' = "trigger" => pc = "trigger" \/ (Job.state # "running" /\ obj' = obj)
    BY DEF Rejected, Scaled, Provision, CheckReady, TeardownPending, TeardownDone,
           Local, Fails, Return, Continue, StartSteps
  <1>4. obj'.status.job = obj.status.job
    <2>1. CASE Rejected
      BY <2>1, FailsCopy DEF Rejected
    <2>2. CASE Scaled
      BY <2>2, ScaledCopy
    <2>3. CASE CheckReady
      BY <2>3, CheckReadyCopy
    <2>4. CASE obj' = obj
      BY <2>4
    <2> QED
      BY <2>1, <2>2, <2>3, <2>4 DEF Provision, TeardownPending, TeardownDone
  <1>5. pc' = "trigger" => pc = "trigger" \/ Job'.state # "running"
    BY <1>3 DEF Job
  <1> QED
    BY <1>1, <1>2, <1>3, <1>4, <1>5, JobFrame

LEMMA JobStep ==
    ASSUME TypeOK, JobInv, Step
    PROVE  JobInv'
  <1>1. CASE AddFinalizer
    <2>1. Pool \in Pools
      BY VersionTypes
    <2>2. /\ pc = "addFinalizer" /\ pc' = "scale"
          /\ UNCHANGED <<jobs, env, edits, failures, current>>
          /\ WritePool([Pool EXCEPT !.finalizer = TRUE])
      BY <1>1 DEF AddFinalizer, StoreFinalizer, Continue, cluster
    <2> DEFINE p == [Pool EXCEPT !.finalizer = TRUE]
    <2>3. /\ p \in Pools /\ p.life = Pool.life /\ p.status = Pool.status
          /\ obj'.status.job = obj.status.job
      BY <2>1, <1>1, PoolParts, AddFinalizerCopy DEF Pools
    <2>4. pc' \in StartSteps => pc \in StartSteps
      BY <2>2 DEF StartSteps
    <2> HIDE DEF p
    <2> QED
      BY <2>2, <2>3, <2>4, JobWritten DEF p
  <1>2. CASE DropFinalizer
    <2>1. Pool \in Pools /\ obj \in Pools
      BY VersionTypes DEF TypeOK
    <2> DEFINE p == Swept([Pool EXCEPT !.finalizer = FALSE])
    <2>2. /\ pc = "dropFinalizer" /\ pc' = "status"
          /\ UNCHANGED <<jobs, env, edits, failures, current>>
          /\ WritePool(p) /\ obj' = [obj EXCEPT !.finalizer = FALSE]
      BY <1>2 DEF DropFinalizer, RemoveFinalizer, Return, cluster
    <2>3. /\ p \in Pools /\ p.status = Pool.status /\ (p.life = "live" => Pool.life = "live")
          /\ obj'.status = obj.status
      BY <2>1, <2>2, PoolParts DEF Pools, Swept
    <2>4. pc' \notin StartSteps
      BY <2>2 DEF StartSteps
    <2> HIDE DEF p
    <2> QED
      BY <2>2, <2>3, <2>4, JobWritten
  <1>3. CASE Flush
    <2>1. /\ StoreStatus /\ pc = "flush" /\ pc' = "status"
          /\ UNCHANGED <<edits, failures, obj, current>>
      BY <1>3 DEF Flush, StoreStatus, Return, cluster
    <2> QED
      BY <2>1, JobStatus
  <1>4. CASE UpdateStatus
    <2>1. StoreStatus /\ pc = "status" /\ pc' = "idle" /\ UNCHANGED <<edits, failures>>
      BY <1>4 DEF UpdateStatus, Writes, StoreStatus, Finish, Rest, cluster
    <2> QED
      BY <2>1, JobStatus
  <1>5. CASE EndReconcile \/ StatusConflict
    <2>1. pc = "status" /\ pc' = "idle" /\ UNCHANGED <<pools, jobs, env, edits, failures>>
      BY <1>5 DEF EndReconcile, StatusConflict, Writes, Finish, Rest, cluster
    <2> QED
      BY <2>1, JobRest
  <1>6. ASSUME NEW t \in HostTypes, NEW u \in Instances,
               ScaleUp(t, u) \/ ScaleDown(t, u) \/ RemoveInstance(t, u)
        PROVE  JobInv'
    <2>1. /\ pc \in {"scale", "remove"} /\ (pc' = pc \/ pc' = "status")
          /\ UNCHANGED <<pools, jobs, env, edits, failures, obj, current>>
      BY <1>6 DEF ScaleUp, ScaleDown, RemoveInstance, Create, Delete, Remove, Turn, Return,
                  cluster
    <2>2. pc' \in StartSteps => pc \in StartSteps
      BY <2>1 DEF StartSteps
    <2> QED
      BY <2>1, <2>2, JobFrame
  <1> QED
    BY <1>1, <1>2, <1>3, <1>4, <1>5, <1>6, JobLocal, JobPoll, JobTrigger DEF Step

(* A lost reply may hide the start of a job, which the failure pays for. *)
LEMMA JobHidden ==
    ASSUME TypeOK, JobInv, NEW j \in Jobs, StartJob(j), Fails, Trouble' = Trouble + 1
    PROVE  JobInv'
  <1> SUFFICES ASSUME env'.poolLag = 0
               PROVE  JobInv'
    BY DEF JobInv
  <1>1. /\ pc = "trigger" /\ pc \in StartSteps /\ UNCHANGED <<pools, env>>
        /\ jobs' = [jobs EXCEPT ![j] = "running"]
    BY DEF StartJob, StartSteps
  <1>2. /\ pc' = "status" /\ pc' \notin StartSteps
        /\ obj'.status.job = obj.status.job
    BY FailsCopy DEF StartSteps
  <1>3. Pool' = Pool /\ Running' = Running \union {j}
    BY <1>1 DEF Pool, Running, TypeOK
  <1>4. /\ Unrecorded(obj.status)' \subseteq Unrecorded(obj.status) \union {j}
        /\ Unrecorded(Pool.status)' \subseteq Unrecorded(Pool.status) \union {j}
    BY <1>2, <1>3 DEF Recorded, Unrecorded
  <1>5. Trouble \in Nat /\ (Trouble + 1) + 1 = Trouble' + 1 /\ (Trouble + 2) + 1 = Trouble' + 2
    BY TroubleTypes
  <1>6. Fewer(Running', Trouble' + 2)
    <2>1. Fewer(Running, Trouble + 2) /\ Trouble + 2 \in Nat
      BY <1>1, <1>5 DEF JobInv
    <2> QED
      BY <1>3, <1>5, <2>1, FewerMore
  <1>7. Fewer(Unrecorded(obj.status)', Trouble' + 1)
    <2>1. Fewer(Unrecorded(obj.status), Trouble + 1) /\ Trouble + 1 \in Nat
      BY <1>1, <1>5 DEF JobInv
    <2> QED
      BY <1>4, <1>5, <2>1, FewerMore
  <1>8. Pool.life = "live" => Fewer(Unrecorded(Pool.status)', Trouble' + 1)
    <2>1. Pool.life = "live" => Fewer(Unrecorded(Pool.status), Trouble + 1)
      BY <1>1 DEF JobInv
    <2>2. Trouble + 1 \in Nat
      BY <1>5
    <2> QED
      BY <1>4, <1>5, <2>1, <2>2, FewerMore
  <1> QED
    BY <1>1, <1>2, <1>3, <1>6, <1>7, <1>8 DEF JobInv

LEMMA JobFaults ==
    ASSUME TypeOK, JobInv, Faults
    PROVE  JobInv'
  <1>1. edits' = edits /\ env' = env /\ pc' \in {"idle", "status"}
    BY DEF Faults, RequestFails, StatusFails, ReplyLost, Restart, Fails, Return, Finish, Rest,
           StoreFinalizer, Create, Delete, Remove, StartJob, StoreStatus, RemoveFinalizer, cluster
  <1>2. \E kind \in FaultKinds : Fault(kind)
    BY DEF Faults, RequestFails, StatusFails, ReplyLost, Restart, FaultKinds
  <1>3. Trouble' = Trouble + 1
    BY <1>1, <1>2, FaultTroubles
  <1>4. CASE jobs' = jobs
    <2>1. Running' \subseteq Running /\ pc' \notin StartSteps
      BY <1>1, <1>4 DEF Running, StartSteps
    <2> QED
      BY <1>1, <1>3, <2>1, JobForgotten
  <1>5. CASE jobs' # jobs
    <2>1. Fails /\ \E j \in Jobs : StartJob(j)
      BY <1>5
      DEF Faults, RequestFails, StatusFails, ReplyLost, Restart, StoreFinalizer, Create, Delete,
          Remove, StoreStatus, RemoveFinalizer, cluster
    <2> QED
      BY <1>3, <2>1, JobHidden
  <1> QED
    BY <1>4, <1>5

(* The edit that outdates the copy of a worker pays for the job the worker may start. *)
LEMMA JobEdit ==
    ASSUME TypeOK, JobInv, EditHostSets
    PROVE  JobInv'
  <1> SUFFICES ASSUME env'.poolLag = 0
               PROVE  JobInv'
    BY DEF JobInv
  <1>1. /\ UNCHANGED <<env, jobs, pc, obj, failures>> /\ edits' = edits + 1
        /\ ~current' /\ Pool.life = "live"
    BY DEF EditHostSets
  <1>2. PICK replicas \in env.specs : WritePool([Pool EXCEPT !.replicas = replicas])
    BY DEF EditHostSets
  <1> DEFINE p == [Pool EXCEPT !.replicas = replicas]
  <1>3. Pool \in Pools /\ p \in Pools /\ p.status = Pool.status /\ p.life = Pool.life
    BY <1>2, VersionTypes, PoolParts, EnvironmentParts DEF Pools
  <1>4. Pool' = p
    BY <1>2, <1>3, WritePoolEffect
  <1>5. /\ Running' = Running /\ Job' = Job
        /\ Unrecorded(obj.status)' = Unrecorded(obj.status)
        /\ Unrecorded(Pool.status)' = Unrecorded(Pool.status)
    BY <1>1, <1>3, <1>4, UnrecordedSame
  <1>6. edits \in Nat /\ failures \in Nat /\ Trouble \in Nat /\ Trouble' = Trouble + 1
    <2>1. edits \in 0 .. env.edits /\ failures \in 0 .. env.failures
      BY DEF TypeOK
    <2> QED
      BY <1>1, <2>1, EnvironmentParts DEF Trouble
  <1>7. /\ Trouble + 1 \in Nat /\ Trouble + 2 \in Nat
        /\ Trouble' \in Nat /\ Trouble' + 1 \in Nat /\ Trouble' + 2 \in Nat
        /\ Trouble + 1 <= Trouble' /\ Trouble + 1 <= Trouble' + 1
        /\ Trouble + 2 <= Trouble' + 1 /\ Trouble + 2 <= Trouble' + 2
    BY <1>6
  <1>8. Fewer(Running, Trouble + 2)
    BY <1>1 DEF JobInv
  <1>9. Fewer(Running', Trouble' + 2)
    BY <1>5, <1>7, <1>8, FewerSubset
  <1>10. pc \in StartSteps => Fewer(Unrecorded(obj.status)', Trouble' + 1)
    <2>1. pc \in StartSteps => Fewer(Unrecorded(obj.status), Trouble + 1)
      BY <1>1 DEF JobInv
    <2> QED
      BY <1>5, <1>7, <2>1, FewerSubset
  <1>11. Fewer(Unrecorded(Pool.status)', Trouble' + 1)
    <2>1. Unrecorded(Pool.status) \subseteq Running
      BY DEF Unrecorded
    <2> QED
      BY <1>5, <1>7, <1>8, <2>1, FewerSubset
  <1>12. pc \in StartSteps => Fewer(Unrecorded(Pool.status)', Trouble')
    <2>1. pc \in StartSteps => Fewer(Unrecorded(Pool.status), Trouble + 1)
      BY <1>1 DEF JobInv, StartSteps
    <2> QED
      BY <1>5, <1>7, <2>1, FewerSubset
  <1> HIDE DEF p
  <1> QED
    BY <1>1, <1>5, <1>9, <1>10, <1>11, <1>12 DEF JobInv

LEMMA JobAround ==
    ASSUME TypeOK, JobInv, Around \/ Deliver \/ FireTimer
    PROVE  JobInv'
  <1> SUFFICES ASSUME env'.poolLag = 0
               PROVE  JobInv'
    BY DEF JobInv
  <1>1. CASE EditHostSets
    BY <1>1, JobEdit
  <1>2. CASE DeletePool
    <2>1. Pool \in Pools
      BY VersionTypes
    <2> DEFINE p == Swept([Pool EXCEPT !.life = "deleting"])
    <2>2. WritePool(p) /\ UNCHANGED <<jobs, env, edits, failures, pc, obj>>
      BY <1>2 DEF DeletePool, cluster
    <2>3. p \in Pools /\ p.life # "live"
      BY <2>1, PoolParts DEF Pools, Swept
    <2> HIDE DEF p
    <2> QED
      BY <2>2, <2>3, JobWritten
  <1>3. CASE DeliverPool
    <2>1. env.poolLag = 0 /\ Len(pools) > 1
      BY <1>3 DEF DeliverPool, cluster
    <2>2. Len(pools) = 1
      BY <2>1, UpToDatePool
    <2>3. FALSE
      BY <2>1, <2>2
    <2> QED
      BY <2>3
  <1>4. ASSUME NEW u \in Instances,
               InstanceReady(u) \/ InstanceUnready(u) \/ InstanceGone(u)
                 \/ DeleteByOther(u) \/ CollectGarbage(u)
        PROVE  JobInv'
    <2>1. UNCHANGED <<pools, jobs, env, pc, obj, current, edits>>
      BY <1>4 DEF InstanceReady, InstanceUnready, InstanceGone, DeleteByOther, CollectGarbage,
                  cluster, worker
    <2>2. failures' = failures \/ \E kind \in FaultKinds : Fault(kind)
      BY <1>4 DEF InstanceReady, InstanceUnready, InstanceGone, DeleteByOther, CollectGarbage,
                  FaultKinds
    <2>3. Trouble' \in {Trouble, Trouble + 1}
      BY <2>1, <2>2, FaultTroubles DEF Trouble
    <2> QED
      BY <2>1, <2>3, JobSame DEF Running
  <1>5. ASSUME NEW j \in Jobs, JobSucceeds(j) \/ JobFails(j)
        PROVE  JobInv'
    <2>1. /\ UNCHANGED <<pools, env, pc, obj, current, edits>>
          /\ \E state \in {"ok", "failed"} : jobs' = [jobs EXCEPT ![j] = state]
      BY <1>5 DEF JobSucceeds, JobFails, EndJob, worker
    <2>2. Running' \subseteq Running
      BY <2>1 DEF Running, TypeOK
    <2>3. failures' = failures \/ Fault("job")
      BY <1>5 DEF JobSucceeds, JobFails
    <2>4. Trouble' \in {Trouble, Trouble + 1}
      BY <2>1, <2>3, FaultTroubles DEF Trouble
    <2> QED
      BY <2>1, <2>2, <2>4, JobSame
  <1>6. CASE DeliverList \/ FireTimer
    <2>1. UNCHANGED <<pools, jobs, env, pc, obj, current, edits, failures>>
      BY <1>6 DEF DeliverList, FireTimer, cluster, worker
    <2> QED
      BY <2>1, JobSame DEF Trouble, Running
  <1> QED
    BY <1>1, <1>2, <1>3, <1>4, <1>5, <1>6 DEF Around, Deliver

LEMMA JobInit == Init => JobInv
  <1> SUFFICES ASSUME Init
               PROVE  JobInv
    OBVIOUS
  <1>1. Running = {} /\ Unrecorded(Pool.status) = {} /\ pc = "idle" /\ Trouble = 0
    BY DEF Init, Running, Unrecorded, Trouble
  <1>2. Fewer({}, 1) /\ Fewer({}, 2)
    BY FS_EmptySet DEF Fewer
  <1> QED
    BY <1>1, <1>2 DEF JobInv, StartSteps

LEMMA JobNext == TypeOK /\ JobInv /\ [Next]_vars => JobInv'
  <1>1. ASSUME TypeOK, JobInv, UNCHANGED vars
        PROVE  JobInv'
    BY <1>1, JobSame DEF vars, worker, Trouble, Running
  <1> QED
    BY <1>1, JobStart, JobStep, JobFaults, JobAround DEF Next

(* With an up-to-date pool, and until it is edited or something fails, at most one      *)
(* provision job runs: reconcileProvisioning flushes it before anything else.  Each     *)
(* edit and each failure costs the record of one job at most.                           *)
THEOREM OneJobHolds == Spec => []OneJob
  <1>1. TypeOK /\ JobInv => OneJob
    <2> SUFFICES ASSUME TypeOK, Fewer(Running, Trouble + 2)
                 PROVE  Cardinality(Running) <= 1 + edits + failures
      BY DEF OneJob, JobInv
    <2>1. Cardinality(Running) \in Nat /\ Cardinality(Running) < Trouble + 2
      BY FS_CardinalityType DEF Fewer
    <2>2. edits \in 0 .. env.edits /\ failures \in 0 .. env.failures
      BY DEF TypeOK
    <2> QED
      BY <2>1, <2>2, EnvironmentParts DEF Trouble
  <1> QED
    BY <1>1, InitTypes, NextTypes, JobInit, JobNext, PTL DEF Spec
--------------------------------------------------------------------------------
(* The instances that live, when the list is up to date *)

LEMMA UpToDateList ==
    ASSUME TypeOK, env.listLag = 0
    PROVE  Len(lists) = 1 /\ lists[1] = List /\ CachedList = List
  <1>1. Len(lists) \in 1 .. env.listLag + 1
    BY DEF TypeOK
  <1>2. Len(lists) = 1
    BY <1>1
  <1> QED
    BY <1>2 DEF CachedList, List

LEMMA NoListEvent ==
    ASSUME TypeOK, env.listLag = 0
    PROVE  ~DeliverList
  <1>1. Len(lists) = 1
    BY UpToDateList
  <1>2. ~(Len(lists) > 1)
    BY <1>1
  <1> QED
    BY <1>2 DEF DeliverList

LEMMA LiveFinite ==
    ASSUME NEW list, NEW t
    PROVE  IsFiniteSet(Live(list, t)) /\ Cardinality(Live(list, t)) \in Nat
  <1>1. Live(list, t) \subseteq Instances
    BY DEF Live
  <1> QED
    BY <1>1, FiniteAssumption, FS_Subset, FS_CardinalityType

(* No instance comes, and none changes its type. *)
Lessens ==
    \A v \in Instances : List'[v].life = "live" =>
        List[v].life = "live" /\ List'[v].type = List[v].type

(* No instance goes, or starts to. *)
Keeps ==
    \A v \in Instances : List[v].life = "live" =>
        List'[v].life = "live" /\ List'[v].type = List[v].type

(* The stored pool and instances are or will be looked at again: an event, a timer or a *)
(* version the cache has not shown is on its way, or the removal of an instance is.     *)
Stirred == queued \/ timer \/ Len(pools) > 1 \/ \E u \in Instances : List[u].life = "deleting"

LEMMA LessenedLive ==
    ASSUME Lessens, NEW t
    PROVE  Live(List, t)' \subseteq Live(List, t)
  BY DEF Live, Lessens

LEMMA KeptLive ==
    ASSUME Keeps, NEW t
    PROVE  Live(List, t) \subseteq Live(List, t)'
  BY DEF Live, Keeps

LEMMA SameListLive ==
    ASSUME UNCHANGED lists
    PROVE  Lessens /\ Keeps /\ List' = List
  BY DEF Lessens, Keeps, List

(* What is stored of one instance is replaced, and the list is up to date. *)
LEMMA InstanceSet ==
    ASSUME TypeOK, env.listLag = 0, NEW u \in Instances, NEW i \in InstanceStates,
           SetInstance(u, i)
    PROVE  /\ List'[u] = i
           /\ \A v \in Instances \ {u} : List'[v] = List[v]
           /\ queued => queued'
           /\ List[u].life # "absent" /\ i.life = "absent" => queued'
  <1>1. List' = [List EXCEPT ![u] = i] /\ List \in [Instances -> InstanceStates]
    BY SetInstanceEffect, VersionTypes
  <1>2. List'[u] = i /\ \A v \in Instances \ {u} : List'[v] = List[v]
    BY <1>1
  <1>3. Len(lists) = 1 /\ lists[1] = List
    BY UpToDateList
  <1>4. Len(lists') \in 1 .. env.listLag + 1
    BY SetInstanceEffect
  <1>5. Len(lists') = 1 /\ Len(lists) > env.listLag
    BY <1>3, <1>4
  <1>6. lists'[1] = List'
    BY <1>5 DEF List
  <1>7. queued' = (queued \/ (Len(lists) > env.listLag /\ Removal(lists[1], lists'[1])))
    BY DEF SetInstance, WriteList
  <1>8. List[u].life # "absent" /\ i.life = "absent" => Removal(lists[1], lists'[1])
    BY <1>1, <1>3, <1>6 DEF Removal
  <1> QED
    BY <1>2, <1>5, <1>7, <1>8

(* An API delete, of the worker or of another. *)
LEMMA DeletedEffect ==
    ASSUME TypeOK, env.listLag = 0, NEW u \in Instances, NEW i \in Deleted(u),
           IF i = List[u] THEN UNCHANGED <<lists, queued>> ELSE SetInstance(u, i)
    PROVE  /\ Lessens
           /\ \A v \in Instances \ {u} : List'[v] = List[v]
           /\ List'[u].life # "live"
           /\ List[u].life # "live" => UNCHANGED <<lists, queued>>
           /\ List[u].life = "live" => queued' \/ List'[u].life = "deleting"
           /\ queued => queued'
  <1>1. i \in InstanceStates /\ List[u] \in InstanceStates
    BY DeletedTypes, VersionTypes
  <1>2. CASE List[u].life # "live"
    <2>1. i = List[u]
      BY <1>2 DEF Deleted
    <2>2. UNCHANGED <<lists, queued>>
      BY <2>1
    <2> QED
      BY <1>2, <2>2, SameListLive
  <1>3. CASE List[u].life = "live"
    <2>1. i.life \in {"deleting", "absent"}
      BY <1>1, <1>3 DEF Deleted, Absent, InstanceStates
    <2>2. SetInstance(u, i)
      BY <1>3, <2>1
    <2>3. /\ List'[u] = i
          /\ \A v \in Instances \ {u} : List'[v] = List[v]
          /\ queued => queued'
          /\ i.life = "absent" => queued'
      BY <1>1, <1>3, <2>2, InstanceSet
    <2>4. Lessens
      BY <2>1, <2>3 DEF Lessens
    <2> QED
      BY <1>3, <2>1, <2>3, <2>4
  <1> QED
    BY <1>2, <1>3

(* A write of the pool is an event, at once or later. *)
LEMMA WriteStirs ==
    ASSUME TypeOK, NEW p, WritePool(p)
    PROVE  Stirred'
  <1>1. CASE Len(pools) > env.poolLag
    BY <1>1 DEF WritePool, Stirred
  <1>2. CASE ~(Len(pools) > env.poolLag)
    <2>1. pools' = Append(pools, p)
      BY <1>2 DEF WritePool, Written
    <2>2. pools \in Seq(Pools) /\ Len(pools) \in Nat \ {0}
      BY VersionTypes DEF TypeOK
    <2>3. Len(pools') = Len(pools) + 1
      BY <2>1, <2>2
    <2>4. Len(pools') > 1
      BY <2>2, <2>3
    <2> QED
      BY <2>4 DEF Stirred
  <1> QED
    BY <1>1, <1>2

(* What instances do, and what others do to them: none comes; one that goes stirs the    *)
(* pool and has been deleted by somebody, or its pool is gone.                          *)
LEMMA InstanceSteps ==
    ASSUME TypeOK, env.listLag = 0, NEW u \in Instances,
           InstanceReady(u) \/ InstanceUnready(u) \/ InstanceGone(u)
             \/ DeleteByOther(u) \/ CollectGarbage(u)
    PROVE  /\ UNCHANGED <<env, config, edits, pools, timer, worker>>
           /\ Lessens
           /\ Keeps \/ (Stirred' /\ ("delete" \in env.faults \/ Pool.life = "gone"))
           /\ Stirred => Stirred'
           /\ AllReady => AllReady' \/ "unready" \in env.faults
  <1>1. UNCHANGED <<env, config, edits, pools, timer, worker>>
    BY DEF InstanceReady, InstanceUnready, InstanceGone, DeleteByOther, CollectGarbage, cluster
  <1>2. List \in [Instances -> InstanceStates] /\ List[u] \in InstanceStates
    BY VersionTypes
  <1>3. CASE InstanceReady(u) \/ InstanceUnready(u)
    <2>1. PICK r \in BOOLEAN : /\ SetInstance(u, [List[u] EXCEPT !.ready = r])
                               /\ r = TRUE \/ "unready" \in env.faults
      BY <1>3 DEF InstanceReady, InstanceUnready, Fault
    <2> DEFINE i == [List[u] EXCEPT !.ready = r]
    <2>2. /\ i \in InstanceStates /\ i.life = List[u].life /\ i.type = List[u].type
          /\ i.ready = r /\ List[u].life = "live"
      BY <1>2, <1>3, InstanceParts DEF InstanceStates, InstanceReady, InstanceUnready
    <2> HIDE DEF i
    <2>3. List'[u] = i /\ (\A v \in Instances \ {u} : List'[v] = List[v]) /\ (queued => queued')
      BY <2>1, <2>2, InstanceSet DEF i
    <2>4. Lessens /\ Keeps
      BY <2>2, <2>3 DEF Lessens, Keeps
    <2>5. Stirred => Stirred'
      BY <1>1, <2>2, <2>3 DEF Stirred
    <2>6. AllReady => AllReady' \/ "unready" \in env.faults
      BY <2>1, <2>2, <2>3 DEF AllReady
    <2> QED
      BY <1>1, <2>4, <2>5, <2>6
  <1>4. CASE InstanceGone(u)
    <2>1. Absent \in InstanceStates /\ Absent.life = "absent"
      BY ConstantTypes DEF Absent
    <2>2. SetInstance(u, Absent) /\ List[u].life = "deleting"
      BY <1>4 DEF InstanceGone
    <2>3. List'[u] = Absent /\ (\A v \in Instances \ {u} : List'[v] = List[v]) /\ queued'
      BY <2>1, <2>2, InstanceSet
    <2>4. Lessens /\ Keeps
      BY <2>1, <2>2, <2>3 DEF Lessens, Keeps
    <2>5. Stirred'
      BY <2>3 DEF Stirred
    <2>6. AllReady => AllReady'
      BY <2>1, <2>3 DEF AllReady
    <2> QED
      BY <1>1, <2>4, <2>5, <2>6
  <1>5. CASE DeleteByOther(u) \/ CollectGarbage(u)
    <2>1. PICK i \in Deleted(u) : SetInstance(u, i)
      BY <1>5 DEF DeleteByOther, CollectGarbage
    <2>2. List[u].life = "live"
      BY <1>5 DEF DeleteByOther, CollectGarbage
    <2>3. i # List[u]
      BY <1>2, <2>2 DEF Deleted, Absent, InstanceStates
    <2>4. /\ Lessens
          /\ \A v \in Instances \ {u} : List'[v] = List[v]
          /\ List'[u].life # "live"
          /\ queued' \/ List'[u].life = "deleting"
      BY <2>1, <2>2, <2>3, DeletedEffect
    <2>5. Stirred'
      BY <2>4 DEF Stirred
    <2>6. AllReady => AllReady'
      BY <2>4 DEF AllReady
    <2>7. "delete" \in env.faults \/ Pool.life = "gone"
      BY <1>5 DEF DeleteByOther, CollectGarbage, Fault
    <2> QED
      BY <1>1, <2>4, <2>5, <2>6, <2>7
  <1> QED
    BY <1>3, <1>4, <1>5

(* What the worker's requests do to them. *)
LEMMA CreateEffect ==
    ASSUME TypeOK, env.listLag = 0, NEW t \in HostTypes, NEW u \in Instances, Create(t, u)
    PROVE  /\ pc = "scale" /\ Count(t) < obj.replicas[t]
           /\ UNCHANGED <<env, config, edits, pools, timer>>
           /\ List[u].life = "absent"
           /\ \A s \in HostTypes : u \notin held[s]
           /\ List'[u] = [life |-> "live", type |-> t, ready |-> FALSE]
           /\ \A v \in Instances \ {u} : List'[v] = List[v]
           /\ Stirred => Stirred'
  <1> DEFINE i == [life |-> "live", type |-> t, ready |-> FALSE]
  <1>1. i \in InstanceStates /\ SetInstance(u, i)
    BY DEF Create, InstanceStates
  <1>2. Len(lists) = 1 /\ lists[1] = List
    BY UpToDateList
  <1>3. List[u].life = "absent" /\ \A s \in HostTypes : u \notin held[s]
    BY <1>2 DEF Create, Fresh
  <1> HIDE DEF i
  <1>4. /\ List'[u] = i /\ (\A v \in Instances \ {u} : List'[v] = List[v])
        /\ queued => queued'
    BY <1>1, InstanceSet
  <1>5. UNCHANGED <<env, config, edits, pools, timer>>
    BY DEF Create, cluster
  <1>6. Stirred => Stirred'
    BY <1>3, <1>4, <1>5 DEF Stirred
  <1> QED
    BY <1>3, <1>4, <1>5, <1>6 DEF Create, Turn, i

LEMMA DeleteEffect ==
    ASSUME TypeOK, env.listLag = 0, NEW t \in HostTypes, NEW u \in Instances,
           Delete(t, u) \/ Remove(t, u)
    PROVE  /\ UNCHANGED <<env, config, edits, pools, timer>>
           /\ u \in held[t]
           /\ Lessens
           /\ \A v \in Instances \ {u} : List'[v] = List[v]
           /\ List'[u].life # "live"
           /\ List[u].life # "live" => UNCHANGED lists
           /\ List[u].life = "live" => Stirred'
           /\ Stirred => Stirred'
  <1>1. PICK i \in Deleted(u) : IF i = List[u] THEN UNCHANGED <<lists, queued>> ELSE SetInstance(u, i)
    BY DEF Delete, Remove
  <1>2. UNCHANGED <<env, config, edits, pools, timer>> /\ u \in held[t]
    BY DEF Delete, Remove, cluster
  <1>3. /\ Lessens
        /\ \A v \in Instances \ {u} : List'[v] = List[v]
        /\ List'[u].life # "live"
        /\ List[u].life # "live" => UNCHANGED <<lists, queued>>
        /\ List[u].life = "live" => queued' \/ List'[u].life = "deleting"
        /\ queued => queued'
    BY <1>1, DeletedEffect
  <1>4. List[u].life # "live" => List' = List
    BY <1>3 DEF List
  <1>5. List[u].life = "live" => Stirred'
    BY <1>3 DEF Stirred
  <1>6. Stirred => Stirred'
    BY <1>2, <1>3, <1>4, <1>5 DEF Stirred
  <1> QED
    BY <1>2, <1>3, <1>5, <1>6
--------------------------------------------------------------------------------
(* Scaling goes towards the replicas. *)

(* Instances of a type that live and that the worker did not find listed. *)
New(t) == Live(List, t) \ held[t]

(* Nobody but the worker has deleted an instance since its list, or nothing at all has  *)
(* happened that it would be woken for.                                                 *)
Certain == "delete" \notin env.faults \/ ~Stirred

(* The worker counts every instance that lives, and only those if nobody else deletes. *)
ScaleInv ==
    env.listLag = 0 /\ pc = "scale" =>
        \A t \in HostTypes :
            /\ Cardinality(New(t)) <= made[t]
            /\ Certain => held[t] \subseteq Live(List, t) /\ Cardinality(New(t)) = made[t]

LEMMA ScaleParts ==
    ASSUME TypeOK, NEW t \in HostTypes
    PROVE  /\ IsFiniteSet(held[t]) /\ Cardinality(held[t]) \in Nat
           /\ IsFiniteSet(New(t)) /\ Cardinality(New(t)) \in Nat
           /\ made[t] \in Nat
           /\ obj.replicas[t] \in Nat
  <1>1. held[t] \subseteq Instances /\ New(t) \subseteq Instances
    BY DEF TypeOK, New, Live
  <1>2. made[t] \in Nat
    BY DEF TypeOK
  <1>3. obj.replicas \in Replicas
    BY PoolParts DEF TypeOK
  <1>4. obj.replicas[t] \in Nat
    BY <1>3, BoundsAssumption DEF Replicas
  <1> QED
    BY <1>1, <1>2, <1>4, FiniteAssumption, FS_Subset, FS_CardinalityType

(* What the worker counts, against what lives. *)
LEMMA CountBounds ==
    ASSUME TypeOK, ScaleInv, env.listLag = 0, pc = "scale", NEW t \in HostTypes
    PROVE  /\ Count(t) \in Nat
           /\ Cardinality(Live(List, t)) \in Nat
           /\ Cardinality(Live(List, t)) <= Count(t)
           /\ Certain => Cardinality(Live(List, t)) = Count(t)
  <1> DEFINE L == Live(List, t)
             H == held[t]
             N == L \ H
  <1>1. /\ IsFiniteSet(H) /\ Cardinality(H) \in Nat /\ Cardinality(N) \in Nat /\ made[t] \in Nat
        /\ IsFiniteSet(L) /\ Cardinality(L) \in Nat
    BY ScaleParts, LiveFinite DEF New
  <1>2. Cardinality(N) <= made[t] /\ (Certain => H \subseteq L /\ Cardinality(N) = made[t])
    BY DEF ScaleInv, New
  <1>3. Count(t) = Cardinality(H) + made[t]
    BY DEF Count
  <1> HIDE DEF L, H
  <1>4. Cardinality(N) = Cardinality(L) - Cardinality(L \intersect H)
    BY <1>1, FS_Difference
  <1>5. Cardinality(L \intersect H) <= Cardinality(H) /\ Cardinality(L \intersect H) \in Nat
    <2>1. L \intersect H \subseteq H
      OBVIOUS
    <2> QED
      BY <1>1, <2>1, FS_Subset, FS_CardinalityType
  <1>6. H \subseteq L => L \intersect H = H
    OBVIOUS
  <1> HIDE DEF N
  <1>7. Cardinality(L) <= Count(t)
    BY <1>1, <1>2, <1>3, <1>4, <1>5
  <1>8. Certain => Cardinality(L) = Count(t)
    <2> SUFFICES ASSUME Certain
                 PROVE  Cardinality(L) = Count(t)
      OBVIOUS
    <2>1. Cardinality(L \intersect H) = Cardinality(H) /\ Cardinality(N) = made[t]
      BY <1>2, <1>6
    <2> QED
      BY <1>1, <1>3, <1>4, <2>1
  <1>9. Count(t) \in Nat
    BY <1>1, <1>3
  <1> QED
    BY <1>1, <1>7, <1>8, <1>9 DEF L

(* The worker counts as before, and no instance comes. *)
LEMMA ScaleSame ==
    ASSUME TypeOK, TypeOK', ScaleInv, UNCHANGED <<env, held, made>>,
           env.listLag = 0 /\ pc' = "scale" =>
              /\ pc = "scale"
              /\ Lessens
              /\ Stirred => Stirred'
              /\ Keeps \/ ~Certain'
    PROVE  ScaleInv'
  <1> SUFFICES ASSUME env.listLag = 0, pc' = "scale", NEW t \in HostTypes
               PROVE  /\ Cardinality(New(t))' <= made[t]
                      /\ Certain' => /\ held[t] \subseteq Live(List, t)'
                                     /\ Cardinality(New(t))' = made[t]
    BY DEF ScaleInv
  <1>1. New(t)' \subseteq New(t) /\ (Certain' => New(t)' = New(t))
    BY LessenedLive, KeptLive DEF New
  <1>2. Certain' => Certain
    BY DEF Certain
  <1>3. /\ IsFiniteSet(New(t)) /\ Cardinality(New(t)) \in Nat /\ made[t] \in Nat
        /\ Cardinality(New(t)) <= made[t]
        /\ Certain => held[t] \subseteq Live(List, t) /\ Cardinality(New(t)) = made[t]
    BY ScaleParts DEF ScaleInv
  <1>4. Cardinality(New(t)') <= Cardinality(New(t)) /\ Cardinality(New(t)') \in Nat
    BY <1>1, <1>3, FS_Subset, FS_CardinalityType
  <1>5. Cardinality(New(t))' <= made[t]
    BY <1>3, <1>4
  <1>6. Certain' => held[t] \subseteq Live(List, t)' /\ Cardinality(New(t))' = made[t]
    BY <1>1, <1>2, <1>3, KeptLive
  <1> QED
    BY <1>5, <1>6

(* listAndGroupBareMetalInstances finds all of them. *)
LEMMA ScaleListed ==
    ASSUME TypeOK, CountListed, UNCHANGED <<lists, env>>
    PROVE  ScaleInv'
  <1> SUFFICES ASSUME env.listLag = 0, NEW t \in HostTypes
               PROVE  /\ Cardinality(New(t))' <= made'[t]
                      /\ held'[t] \subseteq Live(List, t)'
                      /\ Cardinality(New(t))' = made'[t]
    BY DEF ScaleInv
  <1>1. held'[t] = Live(List, t)
    BY UpToDateList DEF CountListed
  <1>2. List' = List
    BY DEF List
  <1>3. Live(List, t)' = Live(List, t)
    BY <1>2 DEF Live
  <1>4. New(t)' = {}
    BY <1>1, <1>3 DEF New
  <1>5. made'[t] = 0
    BY DEF CountListed, NoReplicas
  <1>6. Cardinality(New(t))' = 0
    BY <1>4, FS_EmptySet
  <1> QED
    BY <1>1, <1>3, <1>5, <1>6

LEMMA ScaleCreated ==
    ASSUME TypeOK, ScaleInv, NEW t \in HostTypes, NEW u \in Instances, ScaleUp(t, u)
    PROVE  ScaleInv'
  <1> SUFFICES ASSUME env.listLag = 0, NEW s \in HostTypes
               PROVE  /\ Cardinality(New(s))' <= made'[s]
                      /\ Certain' => /\ held'[s] \subseteq Live(List, s)'
                                     /\ Cardinality(New(s))' = made'[s]
    BY DEF ScaleInv, ScaleUp, Create, cluster
  <1>1. /\ pc = "scale" /\ env' = env /\ (Stirred => Stirred')
        /\ List[u].life = "absent" /\ u \notin held[s]
        /\ List'[u] = [life |-> "live", type |-> t, ready |-> FALSE]
        /\ \A v \in Instances \ {u} : List'[v] = List[v]
    BY CreateEffect DEF ScaleUp
  <1>2. held' = held /\ made' = [made EXCEPT ![t] = made[t] + 1]
    BY DEF ScaleUp
  <1>3. /\ IsFiniteSet(New(s)) /\ Cardinality(New(s)) \in Nat /\ made[s] \in Nat
        /\ Cardinality(New(s)) <= made[s]
        /\ Certain => held[s] \subseteq Live(List, s) /\ Cardinality(New(s)) = made[s]
    BY <1>1, ScaleParts DEF ScaleInv
  <1>4. (Certain' => Certain) /\ Live(List, s) \subseteq Live(List, s)'
    BY <1>1 DEF Certain, Live
  <1>5. CASE s = t
    <2>1. Live(List, s)' = Live(List, s) \union {u} /\ u \notin Live(List, s)
      BY <1>1, <1>5 DEF Live
    <2>2. New(s)' = New(s) \union {u} /\ u \notin New(s)
      BY <1>1, <1>2, <2>1 DEF New
    <2>3. Cardinality(New(s)') = Cardinality(New(s)) + 1
      BY <1>3, <2>2, FS_AddElement
    <2>4. made'[s] = made[s] + 1
      BY <1>2, <1>5 DEF TypeOK
    <2> QED
      BY <1>2, <1>3, <1>4, <2>3, <2>4
  <1>6. CASE s # t
    <2>1. Live(List, s)' = Live(List, s)
      BY <1>1, <1>6 DEF Live
    <2>2. New(s)' = New(s) /\ made'[s] = made[s]
      BY <1>2, <1>6, <2>1 DEF New, TypeOK
    <2> QED
      BY <1>2, <1>3, <1>4, <2>2
  <1> QED
    BY <1>5, <1>6

LEMMA ScaleDeleted ==
    ASSUME TypeOK, ScaleInv, NEW t \in HostTypes, NEW u \in Instances, ScaleDown(t, u)
    PROVE  ScaleInv'
  <1> SUFFICES ASSUME env.listLag = 0, NEW s \in HostTypes
               PROVE  /\ Cardinality(New(s))' <= made'[s]
                      /\ Certain' => /\ held'[s] \subseteq Live(List, s)'
                                     /\ Cardinality(New(s))' = made'[s]
    BY DEF ScaleInv, ScaleDown, Delete, cluster
  <1>1. /\ env' = env /\ (Stirred => Stirred') /\ u \in held[t]
        /\ \A v \in Instances \ {u} : List'[v] = List[v]
        /\ List'[u].life # "live"
        /\ List[u].life = "live" => Stirred'
    BY DeleteEffect DEF ScaleDown
  <1>2. /\ pc = "scale" /\ held' = [held EXCEPT ![t] = held[t] \ {u}] /\ made' = made
    BY DEF ScaleDown, Delete, Turn
  <1>3. /\ IsFiniteSet(New(s)) /\ Cardinality(New(s)) \in Nat /\ made[s] \in Nat
        /\ Cardinality(New(s)) <= made[s]
        /\ Certain => held[s] \subseteq Live(List, s) /\ Cardinality(New(s)) = made[s]
        /\ Certain => held[t] \subseteq Live(List, t)
    BY <1>2, ScaleParts DEF ScaleInv
  <1>4. held'[s] = held[s] \ (IF s = t THEN {u} ELSE {})
    BY <1>2 DEF TypeOK
  <1>5. Live(List, s)' = Live(List, s) \ {u}
    BY <1>1 DEF Live
  <1>6. New(s)' \subseteq New(s)
    BY <1>4, <1>5 DEF New
  <1>7. Cardinality(New(s)') <= Cardinality(New(s)) /\ Cardinality(New(s)') \in Nat
    BY <1>3, <1>6, FS_Subset, FS_CardinalityType
  <1>8. ASSUME Certain'
        PROVE  held'[s] \subseteq Live(List, s)' /\ New(s)' = New(s)
    <2>1. Certain
      BY <1>1, <1>8 DEF Certain
    <2>2. u \in Live(List, t)
      BY <1>1, <1>3, <2>1
    <2>3. s # t => u \notin Live(List, s)
      BY <2>2 DEF Live
    <2>4. u \notin held'[s] /\ u \notin New(s)
      BY <1>1, <1>3, <1>4, <2>1, <2>3 DEF New
    <2> QED
      BY <1>3, <1>4, <1>5, <2>1, <2>4 DEF New
  <1>9. Cardinality(New(s))' <= made'[s]
    BY <1>2, <1>3, <1>7
  <1>10. ASSUME Certain'
         PROVE  Cardinality(New(s))' = made'[s]
    <2>1. Certain
      BY <1>1, <1>10 DEF Certain
    <2> QED
      BY <1>2, <1>3, <1>8, <1>10, <2>1
  <1> QED
    BY <1>8, <1>9, <1>10

LEMMA ScaleStep ==
    ASSUME TypeOK, TypeOK', TeardownInv, ScaleInv, Next
    PROVE  ScaleInv'
  <1>1. CASE pc' # "scale"
    BY <1>1 DEF ScaleInv
  <1>2. CASE Start
    <2>1. CASE pc' = "scale"
      <3>1. ~ReconcileMissing
        BY <1>2, <2>1 DEF ReconcileMissing, Dequeue, worker
      <3>2. CountListed
        BY <1>2, <2>1, <3>1, StartBegins
      <3>3. UNCHANGED <<lists, env>>
        BY <1>2, StartDequeues DEF Dequeue, cluster
      <3> QED
        BY <3>2, <3>3, ScaleListed
    <2> QED
      BY <1>1, <2>1
  <1>3. CASE Step \/ Faults
    <2>1. CASE AddFinalizer
      <3>1. CountListed /\ UNCHANGED <<lists, env>>
        BY <2>1 DEF AddFinalizer, StoreFinalizer, cluster
      <3> QED
        BY <3>1, ScaleListed
    <2>2. ASSUME NEW t \in HostTypes, NEW u \in Instances,
                 ScaleUp(t, u) \/ ScaleDown(t, u) \/ RemoveInstance(t, u)
          PROVE  ScaleInv'
      <3>1. CASE RemoveInstance(t, u)
        BY <1>1, <3>1 DEF RemoveInstance, Remove, Return
      <3> QED
        BY <2>2, <3>1, ScaleCreated, ScaleDeleted
    <2>3. CASE ~AddFinalizer /\ ~\E t \in HostTypes, u \in Instances :
                  ScaleUp(t, u) \/ ScaleDown(t, u) \/ RemoveInstance(t, u)
      <3>1. pc' # "scale"
        BY <1>3, <2>3
        DEF Step, Faults, Rejected, RequestFails, ReplyLost, Fails, Scaled, Provision, Flush,
            Poll, CheckReady, Trigger, TeardownPending, TeardownDone, DropFinalizer, Return,
            Continue, EndReconcile, UpdateStatus, StatusConflict, StatusFails, Restart,
            Finish, Rest
      <3> QED
        BY <1>1, <3>1
    <2> QED
      BY <2>1, <2>2, <2>3
  <1>4. CASE Deliver \/ FireTimer \/ EditHostSets \/ DeletePool
    <2>1. UNCHANGED <<env, held, made, pc>>
      BY <1>4 DEF Deliver, DeliverPool, DeliverList, FireTimer, EditHostSets, DeletePool,
                  cluster, worker, counted
    <2>2. env.listLag = 0 => UNCHANGED lists
      <3>1. env.listLag = 0 => ~DeliverList
        BY NoListEvent
      <3> QED
        BY <1>4, <3>1 DEF Deliver, DeliverPool, FireTimer, EditHostSets, DeletePool
    <2>3. env.listLag = 0 => Stirred'
      <3>1. CASE DeliverPool \/ FireTimer
        BY <3>1 DEF DeliverPool, FireTimer, Stirred
      <3>2. CASE EditHostSets \/ DeletePool
        BY <3>2, WriteStirs DEF EditHostSets, DeletePool
      <3>3. env.listLag = 0 => ~DeliverList
        BY NoListEvent
      <3> QED
        BY <1>4, <3>1, <3>2, <3>3 DEF Deliver
    <2> QED
      BY <2>1, <2>2, <2>3, ScaleSame, SameListLive
  <1>5. ASSUME NEW u \in Instances,
               InstanceReady(u) \/ InstanceUnready(u) \/ InstanceGone(u)
                 \/ DeleteByOther(u) \/ CollectGarbage(u)
        PROVE  ScaleInv'
    <2>1. env' = env /\ worker' = worker
      BY <1>5
      DEF InstanceReady, InstanceUnready, InstanceGone, DeleteByOther, CollectGarbage, cluster
    <2>2. env.listLag = 0 /\ pc = "scale" =>
             Lessens /\ (Stirred => Stirred') /\ (Keeps \/ (Stirred' /\ "delete" \in env.faults))
      BY <1>5, InstanceSteps DEF TeardownInv
    <2> QED
      BY <2>1, <2>2, ScaleSame DEF worker, Certain
  <1>6. ASSUME NEW j \in Jobs, JobSucceeds(j) \/ JobFails(j)
        PROVE  ScaleInv'
    <2>1. UNCHANGED <<env, pools, lists, queued, timer, worker>>
      BY <1>6 DEF JobSucceeds, JobFails, EndJob
    <2>2. (Stirred => Stirred') /\ Lessens /\ Keeps
      BY <2>1, SameListLive DEF Stirred, List
    <2> QED
      BY <2>1, <2>2, ScaleSame DEF worker
  <1> QED
    BY <1>2, <1>3, <1>4, <1>5, <1>6 DEF Next, Around

LEMMA ScaleInit == Init => ScaleInv
  BY DEF Init, ScaleInv

LEMMA ScaleNext == TypeOK /\ TypeOK' /\ TeardownInv /\ ScaleInv /\ [Next]_vars => ScaleInv'
  <1>1. ASSUME TypeOK, TypeOK', ScaleInv, UNCHANGED vars
        PROVE  ScaleInv'
    <2>1. UNCHANGED <<env, pools, lists, queued, timer, held, made, pc>>
      BY <1>1 DEF vars, worker
    <2>2. (Stirred => Stirred') /\ Lessens /\ Keeps
      BY <2>1, SameListLive DEF Stirred, List
    <2> QED
      BY <1>1, <2>1, <2>2, ScaleSame
  <1> QED
    BY <1>1, ScaleStep

(* All that happens to the list when it is up to date. *)
LEMMA ListSteps ==
    ASSUME TypeOK, env.listLag = 0, Next
    PROVE  \/ \E t \in HostTypes, u \in Instances : Create(t, u)
           \/ \E t \in HostTypes, u \in Instances : Delete(t, u) \/ Remove(t, u)
           \/ \E u \in Instances : InstanceReady(u) \/ InstanceUnready(u) \/ InstanceGone(u)
                                     \/ DeleteByOther(u) \/ CollectGarbage(u)
           \/ List' = List
  <1>1. CASE Start
    BY <1>1, StartDequeues DEF Dequeue, List
  <1>2. CASE Step
    BY <1>2
    DEF Step, Rejected, AddFinalizer, StoreFinalizer, ScaleUp, ScaleDown, RemoveInstance, Scaled,
        Provision, Flush, StoreStatus, Poll, CheckReady, Trigger, StartJob, TeardownPending,
        TeardownDone, DropFinalizer, RemoveFinalizer, EndReconcile, UpdateStatus,
        StatusConflict, Local, List
  <1>3. CASE Faults
    <2>1. CASE RequestFails \/ StatusFails
      BY <2>1 DEF RequestFails, StatusFails, StoreStatus, List
    <2>2. CASE ReplyLost
      BY <2>2 DEF ReplyLost, StoreFinalizer, RemoveFinalizer, StoreStatus, StartJob, List
    <2>3. CASE Restart
      BY <2>3 DEF Restart, List
    <2> QED
      BY <1>3, <2>1, <2>2, <2>3 DEF Faults
  <1>4. CASE Deliver \/ FireTimer
    BY <1>4, NoListEvent DEF Deliver, DeliverPool, FireTimer, List
  <1>5. CASE Around
    <2>1. CASE EditHostSets \/ DeletePool
      BY <2>1 DEF EditHostSets, DeletePool, List
    <2>2. CASE \E j \in Jobs : JobSucceeds(j) \/ JobFails(j)
      BY <2>2 DEF JobSucceeds, JobFails, EndJob, List
    <2> QED
      BY <1>5, <2>1, <2>2 DEF Around
  <1> QED
    BY <1>1, <1>2, <1>3, <1>4, <1>5 DEF Next

LEMMA OnlyCreateComes ==
    ASSUME TypeOK, env.listLag = 0, Next, NEW u \in Instances, ~Exists(u), Exists(u)'
    PROVE  Create(List'[u].type, u) /\ List'[u].type \in HostTypes
  <1>1. ASSUME NEW t \in HostTypes, NEW v \in Instances, Create(t, v)
        PROVE  Create(List'[u].type, u) /\ List'[u].type \in HostTypes
    <2>1. /\ List'[v] = [life |-> "live", type |-> t, ready |-> FALSE]
          /\ \A x \in Instances \ {v} : List'[x] = List[x]
      BY <1>1, CreateEffect
    <2>2. u = v
      BY <2>1 DEF Exists
    <2> QED
      BY <1>1, <2>1, <2>2
  <1>2. ASSUME NEW t \in HostTypes, NEW v \in Instances, Delete(t, v) \/ Remove(t, v)
        PROVE  FALSE
    <2>1. /\ \A x \in Instances \ {v} : List'[x] = List[x]
          /\ List[v].life # "live" => UNCHANGED lists
      BY <1>2, DeleteEffect
    <2> QED
      BY <2>1 DEF Exists, List
  <1>3. ASSUME NEW v \in Instances,
               InstanceReady(v) \/ InstanceUnready(v) \/ InstanceGone(v)
                 \/ DeleteByOther(v) \/ CollectGarbage(v)
        PROVE  FALSE
    <2>1. Exists(v)
      BY <1>3 DEF InstanceReady, InstanceUnready, InstanceGone, DeleteByOther, CollectGarbage,
                  Exists
    <2>2. PICK i \in InstanceStates : SetInstance(v, i)
      BY <1>3, VersionTypes, InstanceParts, DeletedTypes, ConstantTypes
      DEF InstanceReady, InstanceUnready, InstanceGone, DeleteByOther, CollectGarbage
    <2>3. \A x \in Instances \ {v} : List'[x] = List[x]
      BY <2>2, InstanceSet
    <2> QED
      BY <2>1, <2>3 DEF Exists
  <1>4. CASE List' = List
    BY <1>4 DEF Exists
  <1> QED
    BY <1>1, <1>2, <1>3, <1>4, ListSteps

(* With an up-to-date list, scaling creates only what is missing and, if nobody else   *)
(* deletes instances, deletes only what is too much: reconcileBareMetalInstances never *)
(* goes past the replicas, whatever fails and however old the cached pool is.          *)
THEOREM ScalesTowardsReplicasHolds == Spec => ScalesTowardsReplicas
  <1> DEFINE A == env.listLag = 0 =>
                     CreatesMissing /\ ("delete" \notin env.faults => DeletesExcess)
  <1>1. TypeOK /\ ScaleInv /\ [Next]_vars => [A]_vars
    <2> SUFFICES ASSUME TypeOK, ScaleInv, Next, env.listLag = 0
                 PROVE  CreatesMissing /\ ("delete" \notin env.faults => DeletesExcess)
      OBVIOUS
    <2>1. CreatesMissing
      <3> SUFFICES ASSUME NEW t \in HostTypes, NEW u \in Instances,
                          ~Exists(u), Exists(u)', List'[u].type = t
                   PROVE  Cardinality(Live(List, t)) < obj.replicas[t]
        BY DEF CreatesMissing
      <3>1. pc = "scale" /\ Count(t) < obj.replicas[t]
        BY OnlyCreateComes DEF Create, Turn
      <3>2. obj.replicas[t] \in Nat
        BY ScaleParts
      <3>3. /\ Count(t) \in Nat /\ Cardinality(Live(List, t)) \in Nat
            /\ Cardinality(Live(List, t)) <= Count(t)
        BY <3>1, CountBounds
      <3> QED
        BY <3>1, <3>2, <3>3
    <2>2. ASSUME "delete" \notin env.faults
          PROVE  DeletesExcess
      <3> SUFFICES ASSUME NEW t \in HostTypes, NEW u \in Instances, pc = "scale",
                          ScaleDown(t, u), List[u].life = "live"
                   PROVE  Cardinality(Live(List, t)) > obj.replicas[t]
        BY DEF DeletesExcess
      <3>1. Count(t) > obj.replicas[t]
        BY DEF ScaleDown, Delete
      <3>2. Cardinality(Live(List, t)) = Count(t)
        BY <2>2, CountBounds DEF Certain
      <3> QED
        BY <3>1, <3>2
    <2> QED
      BY <2>1, <2>2
  <1>2. TypeOK /\ TeardownInv /\ ScaleInv /\ [Next]_vars => ScaleInv'
    BY NextTypes, ScaleNext
  <1> QED
    BY <1>1, <1>2, InitTypes, NextTypes, FinalizerInit, FinalizerNext, TeardownInit, TeardownNext,
       ScaleInit, PTL
    DEF Spec, ScalesTowardsReplicas
--------------------------------------------------------------------------------
(* Ready is earned. *)

ScaledSteps == {"provision", "trigger", "flush", "poll", "readiness"}

Full == AsDesired /\ AllReady

Undisturbed ==
    env.listLag = 0 /\ edits = 0 /\ env.faults \intersect {"unready", "delete"} = {}

(* Every version of the pool and every copy of it asks for the same replicas, and one that *)
(* says Ready says so of instances that are all there, and stay.                           *)
ReadyInv ==
    Undisturbed =>
        /\ \A n \in 1 .. Len(pools) : pools[n].replicas = Pool.replicas
        /\ pc # "idle" => obj.replicas = Pool.replicas
        /\ Pool.life = "live" =>
              /\ pc \in ScaledSteps => AsDesired
              /\ \A n \in 1 .. Len(pools) : pools[n].status.phase = "Ready" => Full
              /\ pc # "idle" /\ obj.status.phase = "Ready" => Full

(* Where the versions of the pool come from: only users change its replicas, and only the *)
(* worker its status.                                                                     *)
PoolStep ==
    /\ \A n \in 1 .. Len(pools') :
          pools'[n] = Pool' \/ \E m \in 1 .. Len(pools) : pools'[n] = pools[m]
    /\ Pool'.life = "live" => Pool.life = "live"
    /\ Pool'.replicas = Pool.replicas \/ EditHostSets
    /\ Pool'.status = Pool.status \/ (Pool'.status = obj.status /\ pc # "idle")

LEMMA WrittenSteps ==
    ASSUME TypeOK, NEW p \in Pools, WritePool(p),
           p.life = "live" => Pool.life = "live",
           p.replicas = Pool.replicas \/ EditHostSets,
           p.status = Pool.status \/ (p.status = obj.status /\ pc # "idle")
    PROVE  PoolStep
  <1>1. /\ Pool' = p
        /\ \A n \in 1 .. Len(pools') :
              pools'[n] = p \/ \E m \in 1 .. Len(pools) : pools'[n] = pools[m]
    BY WritePoolEffect
  <1> QED
    BY <1>1 DEF PoolStep

LEMMA PoolSteps ==
    ASSUME TypeOK, [Next]_vars
    PROVE  PoolStep
  <1>1. Pool \in Pools /\ obj \in Pools /\ obj.status \in Statuses
    BY VersionTypes, PoolParts DEF TypeOK
  <1>2. CASE UNCHANGED pools
    BY <1>2 DEF Pool, PoolStep
  <1>3. ASSUME StoreFinalizer
        PROVE  PoolStep
    <2> DEFINE p == [Pool EXCEPT !.finalizer = TRUE]
    <2>1. p \in Pools /\ WritePool(p)
      BY <1>1, <1>3, PoolParts DEF StoreFinalizer
    <2>2. p.life = Pool.life /\ p.replicas = Pool.replicas /\ p.status = Pool.status
      BY <1>1 DEF Pools
    <2> HIDE DEF p
    <2> QED
      BY <2>1, <2>2, WrittenSteps
  <1>4. ASSUME RemoveFinalizer
        PROVE  PoolStep
    <2> DEFINE p == Swept([Pool EXCEPT !.finalizer = FALSE])
    <2>1. p \in Pools /\ WritePool(p)
      BY <1>1, <1>4, PoolParts DEF RemoveFinalizer
    <2>2. /\ p.life = "live" => Pool.life = "live"
          /\ p.replicas = Pool.replicas /\ p.status = Pool.status
      BY <1>1 DEF Pools, Swept
    <2> HIDE DEF p
    <2> QED
      BY <2>1, <2>2, WrittenSteps
  <1>5. ASSUME StoreStatus, pc # "idle"
        PROVE  PoolStep
    <2> DEFINE p == [Pool EXCEPT !.status = obj.status]
    <2>1. p \in Pools /\ (WritePool(p) \/ UNCHANGED pools)
      BY <1>1, <1>5, PoolParts DEF StoreStatus
    <2>2. p.life = Pool.life /\ p.replicas = Pool.replicas /\ p.status = obj.status
      BY <1>1 DEF Pools
    <2> HIDE DEF p
    <2> QED
      BY <2>1, <2>2, <1>2, <1>5, WrittenSteps
  <1>6. CASE Restart
    <2>1. pools' = <<Pool>>
      BY <1>6 DEF Restart
    <2>2. Len(pools') = 1 /\ pools'[1] = Pool /\ Pool' = Pool
      BY <2>1 DEF Pool
    <2> QED
      BY <2>2 DEF PoolStep
  <1>7. CASE DeliverPool
    <2>1. pools \in Seq(Pools) /\ Len(pools) \in 2 .. env.poolLag + 1 /\ env.poolLag \in Nat
      BY <1>7, EnvironmentParts DEF DeliverPool, TypeOK
    <2>2. pools' = Tail(pools)
      BY <1>7 DEF DeliverPool
    <2>3. Pool' = Pool
      BY <2>1, <2>2, Forgotten DEF Pool
    <2>4. \A n \in 1 .. Len(pools') : \E m \in 1 .. Len(pools) : pools'[n] = pools[m]
      BY <2>1, <2>2, Forgotten
    <2> QED
      BY <2>3, <2>4 DEF PoolStep
  <1>8. CASE EditHostSets
    <2>1. PICK replicas \in env.specs : WritePool([Pool EXCEPT !.replicas = replicas])
      BY <1>8 DEF EditHostSets
    <2> DEFINE p == [Pool EXCEPT !.replicas = replicas]
    <2>2. p \in Pools /\ WritePool(p)
      BY <1>1, <2>1, PoolParts, EnvironmentParts
    <2>3. p.life = Pool.life /\ p.status = Pool.status
      BY <1>1 DEF Pools
    <2> HIDE DEF p
    <2> QED
      BY <1>8, <2>2, <2>3, WrittenSteps
  <1>9. CASE DeletePool
    <2> DEFINE p == Swept([Pool EXCEPT !.life = "deleting"])
    <2>1. p \in Pools /\ WritePool(p)
      BY <1>1, <1>9, PoolParts DEF DeletePool
    <2>2. p.life # "live" /\ p.replicas = Pool.replicas /\ p.status = Pool.status
      BY <1>1 DEF Pools, Swept
    <2> HIDE DEF p
    <2> QED
      BY <2>1, <2>2, WrittenSteps
  <1>10. CASE Start \/ FireTimer \/ DeliverList
    BY <1>2, <1>10, StartDequeues DEF Dequeue, FireTimer, DeliverList
  <1>11. CASE Step
    <2>1. AddFinalizer => StoreFinalizer
      BY DEF AddFinalizer
    <2>2. DropFinalizer => RemoveFinalizer
      BY DEF DropFinalizer
    <2>3. Flush \/ UpdateStatus => StoreStatus /\ pc # "idle"
      BY DEF Flush, UpdateStatus, Writes
    <2>4. ~(AddFinalizer \/ DropFinalizer \/ Flush \/ UpdateStatus) => UNCHANGED pools
      BY <1>11
      DEF Step, Rejected, ScaleUp, Create, ScaleDown, Delete, RemoveInstance, Remove, Scaled,
          Provision, Poll, CheckReady, Trigger, StartJob, TeardownPending, TeardownDone,
          EndReconcile, StatusConflict, Local
    <2> QED
      BY <1>2, <1>3, <1>4, <1>5, <2>1, <2>2, <2>3, <2>4
  <1>12. CASE RequestFails \/ StatusFails \/ ReplyLost
    <2>1. \/ UNCHANGED pools \/ StoreFinalizer \/ RemoveFinalizer
          \/ StoreStatus /\ pc # "idle"
      BY <1>12 DEF RequestFails, StatusFails, Writes, ReplyLost, Create, Delete, Remove, StartJob
    <2> QED
      BY <1>2, <1>3, <1>4, <1>5, <2>1
  <1>13. CASE \/ \E u \in Instances : InstanceReady(u) \/ InstanceUnready(u) \/ InstanceGone(u)
                                        \/ DeleteByOther(u) \/ CollectGarbage(u)
              \/ \E j \in Jobs : JobSucceeds(j) \/ JobFails(j)
    BY <1>2, <1>13
    DEF InstanceReady, InstanceUnready, InstanceGone, DeleteByOther, CollectGarbage,
        JobSucceeds, JobFails, EndJob
  <1>14. CASE UNCHANGED vars
    BY <1>2, <1>14 DEF vars
  <1> QED
    BY <1>6, <1>7, <1>8, <1>9, <1>10, <1>11, <1>12, <1>13, <1>14
    DEF Next, Faults, Deliver, Around

(* Where the worker's copy comes from: it keeps its replicas, says Ready only when it has  *)
(* looked at the instances, and goes on to the provision job only when all are scaled.     *)
CopyStep ==
    \/ pc' = "idle"
    \/ Start /\ ~ReconcileMissing
    \/ /\ pc # "idle"
       /\ obj'.replicas = obj.replicas
       /\ obj'.status.phase = "Ready" =>
             obj.status.phase = "Ready" \/ (CheckReady /\ ListedReady)
       /\ pc' \in ScaledSteps => pc \in ScaledSteps \/ Scaled

LEMMA SameCopy ==
    ASSUME UNCHANGED <<obj, pc>>
    PROVE  CopyStep
  BY DEF CopyStep

LEMMA StepCopies ==
    ASSUME TypeOK, Step
    PROVE  CopyStep
  <1>1. obj \in Pools
    BY DEF TypeOK
  <1>2. CASE Rejected
    <2>1. Fails /\ pc # "idle"
      BY <1>2 DEF Rejected
    <2> QED
      BY <2>1, FailsCopy DEF CopyStep, ScaledSteps
  <1>3. CASE AddFinalizer \/ DropFinalizer
    <2>1. DropFinalizer => obj' = [obj EXCEPT !.finalizer = FALSE]
      BY DEF DropFinalizer
    <2>2. obj'.replicas = obj.replicas /\ obj'.status.phase = obj.status.phase
      BY <1>1, <1>3, <2>1, AddFinalizerCopy DEF Pools
    <2>3. pc # "idle" /\ pc' \notin ScaledSteps
      BY <1>3 DEF AddFinalizer, DropFinalizer, StoreFinalizer, RemoveFinalizer, Continue, Return,
                  ScaledSteps
    <2> QED
      BY <2>2, <2>3 DEF CopyStep
  <1>4. CASE Scaled
    <2>1. pc # "idle"
      BY <1>4 DEF Scaled
    <2> QED
      BY <1>4, <2>1, ScaledCopy DEF CopyStep
  <1>5. CASE Poll
    <2>1. pc \in ScaledSteps /\ pc # "idle"
      BY <1>5 DEF Poll, ScaledSteps
    <2> QED
      BY <1>5, <2>1, PollCopy DEF CopyStep
  <1>6. ASSUME NEW j \in Jobs, Trigger(j)
        PROVE  CopyStep
    <2>1. pc \in ScaledSteps /\ pc # "idle"
      BY <1>6 DEF Trigger, StartJob, ScaledSteps
    <2> QED
      BY <1>6, <2>1, TriggerCopy DEF CopyStep
  <1>7. CASE CheckReady
    <2>1. pc \in ScaledSteps /\ pc # "idle"
      BY <1>7 DEF CheckReady, ScaledSteps
    <2> QED
      BY <1>7, <2>1, CheckReadyCopy DEF CopyStep
  <1>8. CASE Provision \/ Flush
    <2>1. pc \in ScaledSteps /\ pc # "idle" /\ obj' = obj
      BY <1>8 DEF Provision, Flush, ScaledSteps
    <2> QED
      BY <2>1 DEF CopyStep
  <1>9. CASE \/ TeardownPending \/ TeardownDone
             \/ \E t \in HostTypes, u \in Instances :
                   ScaleUp(t, u) \/ ScaleDown(t, u) \/ RemoveInstance(t, u)
    <2>1. pc # "idle" /\ obj' = obj
      BY <1>9
      DEF TeardownPending, TeardownDone, ScaleUp, Create, ScaleDown, Delete, RemoveInstance, Remove,
          Turn
    <2>2. pc' = pc \/ pc' \notin ScaledSteps
      BY <1>9
      DEF TeardownPending, TeardownDone, ScaleUp, ScaleDown, RemoveInstance, Return, Continue,
          ScaledSteps
    <2> QED
      BY <2>1, <2>2 DEF CopyStep
  <1>10. CASE EndReconcile \/ UpdateStatus \/ StatusConflict
    BY <1>10 DEF EndReconcile, UpdateStatus, StatusConflict, Finish, Rest, CopyStep
  <1> QED
    BY <1>2, <1>3, <1>4, <1>5, <1>6, <1>7, <1>8, <1>9, <1>10 DEF Step

LEMMA CopySteps ==
    ASSUME TypeOK, [Next]_vars
    PROVE  CopyStep
  <1>1. CASE Start
    <2>1. CASE ReconcileMissing
      BY <2>1, SameCopy DEF ReconcileMissing, worker
    <2> QED
      BY <1>1, <2>1 DEF CopyStep
  <1>2. CASE RequestFails \/ ReplyLost
    <2>1. Fails
      BY <1>2 DEF RequestFails, ReplyLost
    <2>2. pc # "idle"
      BY <1>2
      DEF RequestFails, ReplyLost, Calls, StoreFinalizer, Create, Delete, Remove, StartJob, Turn,
          RemoveFinalizer
    <2> QED
      BY <2>1, <2>2, FailsCopy DEF CopyStep, ScaledSteps
  <1>3. CASE StatusFails \/ Restart
    BY <1>3 DEF StatusFails, Restart, Finish, Rest, CopyStep
  <1>4. CASE Deliver \/ FireTimer \/ Around
    BY <1>4, SameCopy
    DEF Deliver, DeliverPool, DeliverList, FireTimer, Around, EditHostSets, DeletePool,
        InstanceReady, InstanceUnready, InstanceGone, DeleteByOther, CollectGarbage,
        JobSucceeds, JobFails, EndJob, worker
  <1>5. CASE UNCHANGED vars
    BY <1>5, SameCopy DEF vars, worker
  <1> QED
    BY <1>1, <1>2, <1>3, <1>4, <1>5, StepCopies DEF Next, Faults

(* What is as desired is left alone. *)
LEMMA DesiredStays ==
    ASSUME TypeOK, TeardownInv, ScaleInv, ReadyInv, Undisturbed, Pool.life = "live", AsDesired,
           [Next]_vars
    PROVE  /\ \A t \in HostTypes : Live(List, t)' = Live(List, t)
           /\ AllReady => AllReady'
  <1>1. /\ env.listLag = 0 /\ "delete" \notin env.faults /\ "unready" \notin env.faults
        /\ Certain
    BY DEF Undisturbed, Certain
  <1>2. ASSUME pc = "scale", NEW t \in HostTypes
        PROVE  Count(t) = obj.replicas[t] /\ Count(t) \in Nat
    <2>1. obj.replicas = Pool.replicas
      BY <1>2 DEF ReadyInv
    <2>2. Cardinality(Live(List, t)) = Pool.replicas[t]
      BY DEF AsDesired
    <2>3. Cardinality(Live(List, t)) = Count(t) /\ Count(t) \in Nat
      BY <1>1, <1>2, CountBounds
    <2> QED
      BY <2>1, <2>2, <2>3
  <1>3. ASSUME NEW t \in HostTypes, NEW u \in Instances, Create(t, u) \/ Delete(t, u)
        PROVE  FALSE
    <2>1. /\ pc = "scale"
          /\ Count(t) < obj.replicas[t] \/ Count(t) > obj.replicas[t]
      BY <1>3 DEF Create, Delete, Turn
    <2>2. Count(t) = obj.replicas[t] /\ Count(t) \in Nat
      BY <1>2, <2>1
    <2> QED
      BY <2>1, <2>2
  <1>4. ASSUME NEW t \in HostTypes, NEW u \in Instances, Remove(t, u)
        PROVE  FALSE
    <2>1. pc \in DeletionSteps
      BY <1>4 DEF Remove, DeletionSteps
    <2> QED
      BY <2>1, VersionTypes DEF TeardownInv, Pool
  <1>5. ASSUME NEW u \in Instances,
               InstanceReady(u) \/ InstanceUnready(u) \/ InstanceGone(u)
                 \/ DeleteByOther(u) \/ CollectGarbage(u)
        PROVE  Lessens /\ Keeps /\ (AllReady => AllReady')
    BY <1>1, <1>5, InstanceSteps
  <1>6. CASE List' = List
    BY <1>6 DEF Live, AllReady
  <1>7. CASE Lessens /\ Keeps /\ (AllReady => AllReady')
    BY <1>7, LessenedLive, KeptLive
  <1>8. CASE Next
    BY <1>1, <1>3, <1>4, <1>5, <1>6, <1>7, <1>8, ListSteps
  <1>9. CASE UNCHANGED vars
    BY <1>6, <1>9 DEF vars, List
  <1> QED
    BY <1>8, <1>9

LEMMA EnvironmentSteps ==
    ASSUME [Next]_vars
    PROVE  env' = env /\ (edits' = edits \/ EditHostSets)
  <1>1. CASE Start
    BY <1>1, StartDequeues DEF Dequeue, cluster
  <1>2. CASE Step
    BY <1>2
    DEF Step, Rejected, AddFinalizer, StoreFinalizer, ScaleUp, Create, ScaleDown, Delete,
        RemoveInstance, Remove, Scaled, Provision, Flush, StoreStatus, Poll, CheckReady, Trigger,
        StartJob, TeardownPending, TeardownDone, DropFinalizer, RemoveFinalizer, EndReconcile,
        UpdateStatus, StatusConflict, Local, cluster
  <1>3. CASE Faults
    BY <1>3
    DEF Faults, RequestFails, StatusFails, ReplyLost, Restart, StoreFinalizer, Create, Delete,
        Remove, StartJob, StoreStatus, RemoveFinalizer, cluster
  <1>4. CASE Deliver \/ FireTimer \/ Around
    BY <1>4
    DEF Deliver, DeliverPool, DeliverList, FireTimer, Around, EditHostSets, DeletePool,
        InstanceReady, InstanceUnready, InstanceGone, DeleteByOther, CollectGarbage,
        JobSucceeds, JobFails, EndJob, cluster
  <1>5. CASE UNCHANGED vars
    BY <1>5 DEF vars
  <1> QED
    BY <1>1, <1>2, <1>3, <1>4, <1>5 DEF Next

LEMMA ReadyNext ==
    TypeOK /\ FinalizerInv /\ TeardownInv /\ ScaleInv /\ ReadyInv /\ [Next]_vars => ReadyInv'
  <1> SUFFICES ASSUME TypeOK, FinalizerInv, TeardownInv, ScaleInv, ReadyInv, [Next]_vars,
                      Undisturbed'
               PROVE  ReadyInv'
    BY DEF ReadyInv
  <1>1. Undisturbed /\ ~EditHostSets
    <2>1. env' = env /\ (edits' = edits \/ EditHostSets)
      BY EnvironmentSteps
    <2>2. edits \in Nat
      BY EnvironmentParts DEF TypeOK
    <2>3. edits' = 0
      BY DEF Undisturbed
    <2>4. ~EditHostSets
      <3> SUFFICES ASSUME EditHostSets
                   PROVE  FALSE
        OBVIOUS
      <3>1. edits' = edits + 1
        BY DEF EditHostSets
      <3> QED
        BY <2>2, <2>3, <3>1
    <2> QED
      BY <2>1, <2>3, <2>4 DEF Undisturbed
  <1>2. /\ Pool'.replicas = Pool.replicas
        /\ Pool'.life = "live" => Pool.life = "live"
        /\ Pool'.status = Pool.status \/ (Pool'.status = obj.status /\ pc # "idle")
        /\ \A n \in 1 .. Len(pools') :
              pools'[n] = Pool' \/ \E m \in 1 .. Len(pools) : pools'[n] = pools[m]
    BY <1>1, PoolSteps DEF PoolStep
  <1>3. \A n \in 1 .. Len(pools') : pools'[n].replicas = Pool'.replicas
    BY <1>1, <1>2 DEF ReadyInv
  <1>4. pc' # "idle" => obj'.replicas = Pool'.replicas
    <2>1. CachedPool.replicas = Pool.replicas
      BY <1>1, VersionTypes DEF ReadyInv, CachedPool
    <2> QED
      BY <1>1, <1>2, <2>1, CopySteps, StartBegins DEF CopyStep, ReadyInv
  <1> SUFFICES ASSUME Pool'.life = "live"
               PROVE  /\ pc' \in ScaledSteps => AsDesired'
                      /\ \A n \in 1 .. Len(pools') : pools'[n].status.phase = "Ready" => Full'
                      /\ pc' # "idle" /\ obj'.status.phase = "Ready" => Full'
    BY <1>3, <1>4 DEF ReadyInv
  <1>5. Pool.life = "live"
    BY <1>2
  <1>6. AsDesired => AsDesired' /\ (AllReady => AllReady')
    BY <1>1, <1>2, <1>5, DesiredStays DEF AsDesired
  <1>7. Full => Full'
    BY <1>6 DEF Full
  <1>8. /\ pc \in ScaledSteps => AsDesired
        /\ \A n \in 1 .. Len(pools) : pools[n].status.phase = "Ready" => Full
        /\ pc # "idle" /\ obj.status.phase = "Ready" => Full
    BY <1>1, <1>5 DEF ReadyInv
  <1>9. Pool.status.phase = "Ready" => Full
    BY <1>8, VersionTypes DEF Pool
  <1>10. CachedPool.status.phase = "Ready" => Full
    BY <1>8, VersionTypes DEF CachedPool
  <1>11. Scaled => AsDesired
    <2> SUFFICES ASSUME Scaled, NEW t \in HostTypes
                 PROVE  Cardinality(Live(List, t)) = Pool.replicas[t]
      BY DEF AsDesired
    <2>1. pc = "scale" /\ Count(t) = obj.replicas[t]
      BY DEF Scaled
    <2>2. obj.replicas = Pool.replicas
      BY <1>1, <2>1 DEF ReadyInv
    <2>3. Cardinality(Live(List, t)) = Count(t)
      BY <1>1, <2>1, CountBounds DEF Undisturbed, Certain
    <2> QED
      BY <2>1, <2>2, <2>3
  <1>12. CheckReady /\ ListedReady => Full
    <2>1. CheckReady => pc \in ScaledSteps
      BY DEF CheckReady, ScaledSteps
    <2>2. ListedReady => AllReady
      BY <1>1, UpToDateList DEF ListedReady, AllReady, Undisturbed
    <2> QED
      BY <1>8, <2>1, <2>2 DEF Full
  <1>13. Start /\ ~ReconcileMissing => pc' \notin ScaledSteps
    BY StartBegins DEF ScaledSteps, DeletionSteps
  <1>14. pc' \in ScaledSteps => AsDesired'
    BY <1>6, <1>8, <1>11, <1>13, CopySteps DEF CopyStep, ScaledSteps
  <1>15. pc' # "idle" /\ obj'.status.phase = "Ready" => Full'
    BY <1>7, <1>8, <1>10, <1>12, CopySteps, StartBegins DEF CopyStep
  <1>16. \A n \in 1 .. Len(pools') : pools'[n].status.phase = "Ready" => Full'
    BY <1>2, <1>7, <1>8, <1>9
  <1> QED
    BY <1>14, <1>15, <1>16

LEMMA ReadyInit == Init => ReadyInv
  <1> SUFFICES ASSUME Init
               PROVE  ReadyInv
    OBVIOUS
  <1>1. PICK replicas \in env.specs :
           pools = <<[life |-> "live", replicas |-> replicas, finalizer |-> FALSE,
                      status |-> EmptyStatus]>>
    BY DEF Init
  <1>2. Len(pools) = 1 /\ Pool = pools[1] /\ pools[1].status.phase = ""
    BY <1>1 DEF Pool, EmptyStatus
  <1>3. pc = "idle" /\ pc \notin ScaledSteps
    BY DEF Init, ScaledSteps
  <1>4. \A n \in 1 .. Len(pools) :
           pools[n].replicas = Pool.replicas /\ pools[n].status.phase # "Ready"
    <2>1. \A n \in 1 .. 1 : n = 1
      OBVIOUS
    <2> QED
      BY <1>2, <2>1
  <1> QED
    BY <1>3, <1>4 DEF ReadyInv

(* Until its spec is edited, a pool says Ready only when all its instances are there and *)
(* ready, if the list is up to date and no instance is disturbed; whatever requests      *)
(* fail, however often the process restarts, and however old the cached pool is.         *)
THEOREM ReadyIsEarnedHolds == Spec => []ReadyIsEarned
  <1>1. TypeOK /\ ReadyInv => ReadyIsEarned
    BY VersionTypes DEF ReadyInv, ReadyIsEarned, Undisturbed, Full, Pool
  <1>2. TypeOK /\ TeardownInv /\ ScaleInv /\ [Next]_vars => ScaleInv'
    BY NextTypes, ScaleNext
  <1> QED
    BY <1>1, <1>2, InitTypes, NextTypes, FinalizerInit, FinalizerNext, TeardownInit, TeardownNext,
       ScaleInit, ReadyInit, ReadyNext, PTL
    DEF Spec
--------------------------------------------------------------------------------
(* Nothing stirs a pool that is complete, or a pool that nothing stirs is. *)

JobFits(status) ==
    config.profile = "template" => status.job.state = "ok" /\ status.job.version = Pool.replicas

Counted(status) == AsDesired /\ status.hosts = Pool.replicas

Done(status) ==
    /\ Counted(status)
    /\ status.phase = "Ready"
    /\ JobFits(status)
    /\ "unready" \notin env.faults => AllReady

Settling == env.listLag = 0 /\ ~Stirred /\ Pool.life = "live" /\ ~Refused

(* When nothing is on its way that would wake the worker once more, the pool is complete; *)
(* or a worker has the stored pool before it, will be back, will write what wakes it, or  *)
(* finds it complete.                                                                     *)
QuietInv ==
    Settling =>
        /\ pc = "idle" => Done(Pool.status)
        /\ pc # "idle" => obj.replicas = Pool.replicas /\ oldstatus = Pool.status
        /\ pc \in ScaledSteps => Counted(obj.status)
        /\ pc \in {"addFinalizer", "scale", "provision", "poll"} => Job = oldstatus.job
        /\ pc \in {"scale", "provision"} => obj.status.desired = Pool.replicas
        /\ pc = "poll" => Job.state = "running"
        /\ pc = "readiness" => JobFits(obj.status) \/ Job # oldstatus.job
        /\ pc = "status" => again \/ obj.status # oldstatus \/ Done(obj.status)

(* Only a worker that begins finds that nothing stirs the pool any more. *)
LEMMA WorkerStirs ==
    ASSUME TypeOK, env.listLag = 0, Step \/ Faults, ~Stirred'
    PROVE  ~Stirred /\ pools' = pools
  <1>1. ASSUME NEW t \in HostTypes, NEW u \in Instances,
               Create(t, u) \/ Delete(t, u) \/ Remove(t, u)
        PROVE  ~Stirred /\ pools' = pools
    BY <1>1, CreateEffect, DeleteEffect
  <1>2. CASE UNCHANGED <<pools, lists, queued>> /\ (timer => timer')
    BY <1>2 DEF Stirred, List
  <1>3. CASE StoreStatus /\ (timer => timer')
    BY <1>2, <1>3, WriteStirs DEF StoreStatus
  <1>4. ~StoreFinalizer /\ ~RemoveFinalizer
    BY WriteStirs DEF StoreFinalizer, RemoveFinalizer
  <1>5. ~Restart
    BY DEF Restart, Stirred
  <1>6. CASE Step
    <2>1. CASE Flush
      BY <1>3, <2>1 DEF Flush
    <2>2. CASE UpdateStatus
      <3>1. timer => timer'
        BY <2>2 DEF UpdateStatus, Finish
      <3> QED
        BY <1>3, <2>2, <3>1 DEF UpdateStatus
    <2>3. CASE EndReconcile \/ StatusConflict
      <3>1. timer => timer'
        BY <2>3 DEF EndReconcile, StatusConflict, Finish
      <3> QED
        BY <1>2, <2>3, <3>1 DEF EndReconcile, StatusConflict
    <2>4. CASE ~(Flush \/ UpdateStatus \/ EndReconcile \/ StatusConflict)
               /\ ~\E t \in HostTypes, u \in Instances :
                      ScaleUp(t, u) \/ ScaleDown(t, u) \/ RemoveInstance(t, u)
      BY <1>2, <1>4, <1>6, <2>4
      DEF Step, Rejected, AddFinalizer, Scaled, Provision, Poll, CheckReady, Trigger, StartJob,
          TeardownPending, TeardownDone, DropFinalizer, Local
    <2> QED
      BY <1>1, <2>1, <2>2, <2>3, <2>4 DEF ScaleUp, ScaleDown, RemoveInstance
  <1>7. CASE Faults
    <2>1. CASE RequestFails
      BY <1>2, <2>1 DEF RequestFails
    <2>2. CASE StatusFails
      BY <2>2 DEF StatusFails, Finish, Stirred
    <2>3. CASE ReplyLost
      BY <1>1, <1>2, <1>3, <1>4, <2>3 DEF ReplyLost, StartJob
    <2> QED
      BY <1>5, <1>7, <2>1, <2>2, <2>3 DEF Faults
  <1> QED
    BY <1>6, <1>7

(* A pool that a worker's step leaves unstirred was unstirred before it. *)
LEMMA SettlingStep ==
    ASSUME TypeOK, Step \/ Faults, Settling'
    PROVE  /\ Settling
           /\ UNCHANGED <<pools, config, env>>
           /\ Pool' = Pool
           /\ pc \notin DeletionSteps \/ ~TeardownInv
  <1>1. env' = env
    BY EnvironmentSteps DEF Next
  <1>2. ~Stirred /\ pools' = pools
    BY <1>1, WorkerStirs DEF Settling
  <1>3. config' = config
    <2>1. ~Restart
      BY DEF Restart, Settling, Stirred
    <2>2. CASE Step
      BY <2>2
      DEF Step, Rejected, AddFinalizer, StoreFinalizer, ScaleUp, Create, ScaleDown, Delete,
          RemoveInstance, Remove, Scaled, Provision, Flush, StoreStatus, Poll, CheckReady,
          Trigger, StartJob, TeardownPending, TeardownDone, DropFinalizer, RemoveFinalizer,
          EndReconcile, UpdateStatus, StatusConflict, Local, cluster
    <2>3. CASE Faults
      BY <2>1, <2>3
      DEF Faults, RequestFails, StatusFails, ReplyLost, StoreFinalizer, Create, Delete, Remove,
          StartJob, StoreStatus, RemoveFinalizer, cluster
    <2> QED
      BY <2>2, <2>3
  <1>4. Pool' = Pool
    BY <1>2 DEF Pool
  <1>5. Settling
    BY <1>1, <1>2, <1>3, <1>4 DEF Settling, Refused
  <1>6. pc \in DeletionSteps => ~TeardownInv
    BY <1>5, VersionTypes DEF Settling, TeardownInv, Pool
  <1> QED
    BY <1>1, <1>2, <1>3, <1>4, <1>5, <1>6

(* A worker that is told to come back does not leave the pool unstirred. *)
LEMMA QuietFails ==
    ASSUME TypeOK, QuietInv, Settling, UNCHANGED <<pools, env>>, pc # "idle", Fails
    PROVE  QuietInv'
  <1>1. Pool' = Pool /\ pc' = "status" /\ again'
    BY FailsCopy DEF Pool
  <1>2. obj'.replicas = Pool'.replicas /\ oldstatus' = Pool'.status
    BY <1>1, FailsCopy DEF QuietInv
  <1> QED
    BY <1>1, <1>2 DEF QuietInv, ScaledSteps

LEMMA QuietScaling ==
    ASSUME TypeOK, QuietInv, Settling, UNCHANGED <<pools, env>>,
           NEW t \in HostTypes, NEW u \in Instances, ScaleUp(t, u) \/ ScaleDown(t, u)
    PROVE  QuietInv'
  <1>1. pc = "scale" /\ UNCHANGED <<pc, obj, oldstatus>>
    BY DEF ScaleUp, Create, ScaleDown, Delete, Turn
  <1>2. Pool' = Pool /\ Job' = Job
    BY <1>1 DEF Pool, Job
  <1> QED
    BY <1>1, <1>2 DEF QuietInv, ScaledSteps

LEMMA QuietScaled ==
    ASSUME TypeOK, ScaleInv, QuietInv, Settling, Scaled
    PROVE  QuietInv'
  <1>1. pc = "scale" /\ \A t \in HostTypes : Count(t) = obj.replicas[t]
    BY DEF Scaled
  <1>2. UNCHANGED <<pools, lists, config, oldstatus>>
    BY DEF Scaled, cluster
  <1>3. Pool' = Pool /\ List' = List /\ obj.replicas = Pool.replicas /\ oldstatus = Pool.status
    BY <1>1, <1>2 DEF Pool, List, QuietInv
  <1>4. Pool.replicas \in Replicas
    BY VersionTypes, PoolParts
  <1>5. \A t \in HostTypes : Cardinality(Live(List, t)) = Pool.replicas[t]
    <2> SUFFICES ASSUME NEW t \in HostTypes
                 PROVE  Cardinality(Live(List, t)) = Pool.replicas[t]
      OBVIOUS
    <2>1. Cardinality(Live(List, t)) = Count(t)
      BY <1>1, CountBounds DEF Settling, Certain
    <2> QED
      BY <1>1, <1>3, <2>1
  <1>6. AsDesired'
    BY <1>3, <1>5 DEF AsDesired, Live
  <1>7. StatusHosts = Pool.replicas
    BY <1>1, <1>3, <1>4 DEF StatusHosts, Replicas
  <1>8. Counted(obj.status)'
    BY <1>3, <1>6, <1>7, ScaledCopy DEF Counted
  <1>9. Job' = oldstatus'.job
    BY <1>1, <1>2, ScaledCopy DEF Job, QuietInv
  <1>10. /\ pc' = "provision" \/ (pc' = "readiness" /\ config.profile # "template")
         /\ obj'.replicas = Pool'.replicas /\ oldstatus' = Pool'.status
         /\ obj'.status.desired = Pool'.replicas
    BY <1>1, <1>2, <1>3, ScaledCopy DEF Scaled, Continue, QuietInv
  <1>11. pc' = "readiness" => JobFits(obj.status)'
    BY <1>2, <1>10 DEF JobFits
  <1> QED
    BY <1>8, <1>9, <1>10, <1>11 DEF QuietInv

(* Whatever else the worker does to its copy leaves what is counted as it was. *)
LEMMA CountedStays ==
    ASSUME UNCHANGED <<pools, lists>>, Counted(obj.status),
           obj'.status.hosts = obj.status.hosts
    PROVE  Counted(obj.status)' /\ Pool' = Pool /\ List' = List
  <1>1. Pool' = Pool /\ List' = List
    BY DEF Pool, List
  <1>2. AsDesired'
    BY <1>1 DEF Counted, AsDesired, Live
  <1> QED
    BY <1>1, <1>2 DEF Counted

LEMMA QuietProvision ==
    ASSUME TypeOK, QuietInv, Settling, Provision
    PROVE  QuietInv'
  <1>1. pc = "provision" /\ UNCHANGED <<pools, lists, obj, oldstatus, config>>
    BY DEF Provision, Local, cluster
  <1>2. Counted(obj.status)' /\ Pool' = Pool
    BY <1>1, CountedStays DEF QuietInv, ScaledSteps
  <1>3. /\ obj'.replicas = Pool'.replicas /\ oldstatus' = Pool'.status
        /\ Job' = oldstatus'.job /\ Job' = Job /\ obj.status.desired = Pool.replicas
    BY <1>1, <1>2 DEF QuietInv, Job
  <1>4. \/ pc' = "readiness" /\ Job.state = "ok" /\ Job.version = obj.status.desired
        \/ pc' = "poll" /\ Job.state = "running"
        \/ pc' = "status" /\ again'
        \/ pc' = "trigger"
    BY DEF Provision, Continue, Return, UpToDate
  <1>5. pc' = "readiness" => JobFits(obj.status)'
    BY <1>1, <1>2, <1>3, <1>4 DEF JobFits, Job
  <1> QED
    BY <1>2, <1>3, <1>4, <1>5 DEF QuietInv

LEMMA QuietTrigger ==
    ASSUME TypeOK, QuietInv, Settling, NEW j \in Jobs, Trigger(j)
    PROVE  QuietInv'
  <1>1. /\ pc = "trigger" /\ pc' = "flush"
        /\ UNCHANGED <<pools, lists, oldstatus>>
    BY DEF Trigger, StartJob, Continue
  <1>2. obj'.status.hosts = obj.status.hosts /\ obj'.replicas = obj.replicas
    BY TriggerCopy
  <1>3. Counted(obj.status)' /\ Pool' = Pool
    BY <1>1, <1>2, CountedStays DEF QuietInv, ScaledSteps
  <1>4. obj'.replicas = Pool'.replicas /\ oldstatus' = Pool'.status
    BY <1>1, <1>2, <1>3 DEF QuietInv
  <1> QED
    BY <1>1, <1>3, <1>4 DEF QuietInv

LEMMA QuietFlush ==
    ASSUME QuietInv, Settling, UNCHANGED pools, Flush
    PROVE  QuietInv'
  <1>1. pc = "flush" /\ pc' = "status" /\ again' /\ UNCHANGED <<obj, oldstatus>>
    BY DEF Flush, Return
  <1>2. Pool' = Pool
    BY DEF Pool
  <1> QED
    BY <1>1, <1>2 DEF QuietInv, ScaledSteps

LEMMA QuietPoll ==
    ASSUME TypeOK, QuietInv, Settling, Poll
    PROVE  QuietInv'
  <1>1. pc = "poll" /\ UNCHANGED <<pools, lists, oldstatus>>
    BY DEF Poll, Local
  <1>2. obj'.status.hosts = obj.status.hosts /\ obj'.replicas = obj.replicas
    BY PollCopy
  <1>3. Counted(obj.status)' /\ Pool' = Pool
    BY <1>1, <1>2, CountedStays DEF QuietInv, ScaledSteps
  <1>4. obj'.replicas = Pool'.replicas /\ oldstatus' = Pool'.status
    BY <1>1, <1>2, <1>3 DEF QuietInv
  <1>5. \/ pc' = "status" /\ again'
        \/ pc' = "readiness" /\ jobs[Job.id] # "running"
    BY DEF Poll, Return, Continue
  <1>6. Job'.state = jobs[Job.id]
    BY PollCopy DEF Job
  <1>7. Job.state = "running" /\ Job = oldstatus.job
    BY <1>1 DEF QuietInv
  <1>8. pc' = "readiness" => Job' # oldstatus'.job
    BY <1>1, <1>5, <1>6, <1>7
  <1> QED
    BY <1>3, <1>4, <1>5, <1>8 DEF QuietInv

LEMMA QuietCheckReady ==
    ASSUME TypeOK, QuietInv, Settling, CheckReady
    PROVE  QuietInv'
  <1>1. pc = "readiness" /\ pc' = "status" /\ UNCHANGED <<pools, lists, config, env, oldstatus>>
    BY DEF CheckReady, Return, Local, cluster
  <1>2. /\ obj'.status.hosts = obj.status.hosts /\ obj'.replicas = obj.replicas
        /\ obj'.status.job = obj.status.job
        /\ ListedReady => obj'.status.phase = "Ready"
    BY CheckReadyCopy
  <1>3. Counted(obj.status)' /\ Pool' = Pool /\ List' = List
    BY <1>1, <1>2, CountedStays DEF QuietInv, ScaledSteps
  <1>4. obj'.replicas = Pool'.replicas /\ oldstatus' = Pool'.status
    BY <1>1, <1>2, <1>3 DEF QuietInv
  <1>5. again' = ~ListedReady
    BY DEF CheckReady, Return
  <1>6. ListedReady => AllReady'
    BY <1>3, UpToDateList DEF ListedReady, AllReady, Settling
  <1>7. JobFits(obj.status)' \/ obj'.status # oldstatus'
    <2>1. JobFits(obj.status) \/ Job # oldstatus.job
      BY <1>1 DEF QuietInv
    <2>2. JobFits(obj.status) => JobFits(obj.status)'
      BY <1>1, <1>2, <1>3 DEF JobFits
    <2>3. Job # oldstatus.job => obj'.status # oldstatus'
      BY <1>1, <1>2 DEF Job
    <2> QED
      BY <2>1, <2>2, <2>3
  <1>8. ListedReady => Done(obj.status)' \/ obj'.status # oldstatus'
    BY <1>2, <1>3, <1>6, <1>7 DEF Done
  <1>9. again' \/ obj'.status # oldstatus' \/ Done(obj.status)'
    BY <1>5, <1>8
  <1> QED
    BY <1>1, <1>4, <1>9 DEF QuietInv, ScaledSteps

LEMMA QuietEnd ==
    ASSUME TypeOK, QuietInv, Settling, Settling', UNCHANGED <<env, config>>, EndReconcile
    PROVE  QuietInv'
  <1>1. /\ pc = "status" /\ pc' = "idle" /\ UNCHANGED <<pools, lists>>
        /\ timer' = (timer \/ again)
    BY DEF EndReconcile, Finish, Rest
  <1>2. obj.status = oldstatus
    BY DEF EndReconcile, Settling
  <1>3. ~again
    BY <1>1 DEF Settling, Stirred
  <1>4. Done(obj.status) /\ oldstatus = Pool.status
    BY <1>1, <1>2, <1>3 DEF QuietInv
  <1>5. Pool' = Pool /\ List' = List
    BY <1>1 DEF Pool, List
  <1>6. Done(Pool.status)
    BY <1>2, <1>4
  <1>7. Done(Pool.status)'
    BY <1>5, <1>6 DEF Done, Counted, JobFits, AsDesired, AllReady, Live
  <1> QED
    BY <1>1, <1>7 DEF QuietInv, ScaledSteps

LEMMA QuietStep ==
    ASSUME TypeOK, TeardownInv, ScaleInv, QuietInv, Step \/ Faults
    PROVE  QuietInv'
  <1> SUFFICES ASSUME Settling'
               PROVE  QuietInv'
    BY DEF QuietInv
  <1>1. /\ Settling
        /\ UNCHANGED <<pools, config, env>>
        /\ Pool' = Pool
        /\ pc \notin DeletionSteps
    BY SettlingStep
  <1>2. ~Stirred'
    BY DEF Settling
  <1>3. ASSUME NEW p, WritePool(p)
        PROVE  FALSE
    BY <1>2, <1>3, WriteStirs
  <1>4. CASE Rejected \/ RequestFails \/ ReplyLost
    <2>1. Fails
      BY <1>4 DEF Rejected, RequestFails, ReplyLost
    <2>2. pc # "idle"
      BY <1>4
      DEF Rejected, RequestFails, ReplyLost, Calls, StoreFinalizer, Create, Delete, Remove, StartJob,
          Turn, RemoveFinalizer
    <2> QED
      BY <1>1, <2>1, <2>2, QuietFails
  <1>5. ~AddFinalizer /\ ~DropFinalizer
    BY <1>3 DEF AddFinalizer, StoreFinalizer, DropFinalizer, RemoveFinalizer
  <1>6. ~TeardownPending /\ ~TeardownDone
    BY <1>1 DEF TeardownPending, TeardownDone, DeletionSteps
  <1>7. ASSUME NEW t \in HostTypes, NEW u \in Instances, RemoveInstance(t, u)
        PROVE  FALSE
    BY <1>1, <1>7 DEF RemoveInstance, Remove, DeletionSteps
  <1>8. ~UpdateStatus
    <2> SUFFICES ASSUME UpdateStatus
                 PROVE  FALSE
      OBVIOUS
    <2>1. pc = "status" /\ obj.status # oldstatus /\ StoreStatus
      BY DEF UpdateStatus, Writes
    <2>2. oldstatus = Pool.status
      BY <1>1, <2>1 DEF QuietInv
    <2> QED
      BY <1>3, <2>1, <2>2 DEF StoreStatus
  <1>9. ~StatusConflict /\ ~StatusFails /\ ~Restart
    BY <1>2 DEF StatusConflict, StatusFails, Finish, Restart, Stirred
  <1>10. ASSUME NEW t \in HostTypes, NEW u \in Instances, ScaleUp(t, u) \/ ScaleDown(t, u)
         PROVE  QuietInv'
    BY <1>1, <1>10, QuietScaling
  <1>11. CASE Scaled \/ Provision
    BY <1>1, <1>11, QuietScaled, QuietProvision
  <1>12. CASE Flush \/ Poll \/ CheckReady
    BY <1>1, <1>12, QuietFlush, QuietPoll, QuietCheckReady
  <1>13. ASSUME NEW j \in Jobs, Trigger(j)
         PROVE  QuietInv'
    BY <1>1, <1>13, QuietTrigger
  <1>14. CASE EndReconcile
    BY <1>1, <1>14, QuietEnd
  <1> QED
    BY <1>4, <1>5, <1>6, <1>7, <1>8, <1>9, <1>10, <1>11, <1>12, <1>13, <1>14 DEF Step, Faults

(* A worker that begins unstirred has the stored pool before it. *)
LEMMA QuietStart ==
    ASSUME TypeOK, Start
    PROVE  QuietInv'
  <1> SUFFICES ASSUME Settling'
               PROVE  QuietInv'
    BY DEF QuietInv
  <1>1. UNCHANGED <<pools, config>> /\ Pool' = Pool
    BY StartDequeues DEF Dequeue, cluster, Pool
  <1>2. Len(pools) = 1
    <2>1. Len(pools) \in Nat \ {0}
      BY VersionTypes
    <2>2. ~(Len(pools) > 1)
      BY <1>1 DEF Settling, Stirred
    <2>3. \A n \in Nat \ {0} : n > 1 \/ n = 1
      OBVIOUS
    <2> QED
      BY <2>1, <2>2, <2>3
  <1>3. CachedPool = Pool /\ Pool.life = "live" /\ ~Refused
    BY <1>1, <1>2 DEF CachedPool, Pool, Settling, Refused
  <1>4. ~ReconcileMissing
    BY <1>3 DEF ReconcileMissing
  <1>5. pc' \in {"addFinalizer", "scale"}
    BY <1>3, <1>4, StartBegins
  <1>6. obj'.replicas = Pool'.replicas /\ oldstatus' = Pool'.status
    BY <1>1, <1>3, <1>4, StartBegins
  <1>7. Job' = oldstatus'.job /\ (pc' = "scale" => obj'.status.desired = Pool'.replicas)
    BY <1>1, <1>3, <1>4, StartBegins DEF Job
  <1> QED
    BY <1>5, <1>6, <1>7 DEF QuietInv, ScaledSteps

(* The pool, the process and the worker are as they were, and so are the instances. *)
LEMMA QuietSame ==
    ASSUME QuietInv, Settling, UNCHANGED <<env, config, pools, worker>>,
           AsDesired => AsDesired',
           AllReady => AllReady' \/ "unready" \in env.faults
    PROVE  QuietInv'
  <1>1. /\ Pool' = Pool /\ Job' = Job
        /\ UNCHANGED <<pc, obj, oldstatus, again>>
    BY DEF Pool, Job, worker
  <1>2. Counted(obj.status) => Counted(obj.status)'
    BY <1>1 DEF Counted
  <1>3. JobFits(obj.status) => JobFits(obj.status)'
    BY <1>1 DEF JobFits
  <1>4. Done(obj.status) => Done(obj.status)'
    BY <1>1, <1>2, <1>3 DEF Done
  <1>5. Done(Pool.status) => Done(Pool.status)'
    BY <1>1 DEF Done, Counted, JobFits
  <1> QED
    BY <1>1, <1>2, <1>3, <1>4, <1>5 DEF QuietInv

LEMMA QuietAround ==
    ASSUME TypeOK, QuietInv, Deliver \/ FireTimer \/ Around
    PROVE  QuietInv'
  <1> SUFFICES ASSUME Settling'
               PROVE  QuietInv'
    BY DEF QuietInv
  <1>1. env' = env /\ env.listLag = 0 /\ ~Stirred'
    BY EnvironmentSteps DEF Next, Settling
  <1>2. ~DeliverPool /\ ~FireTimer /\ ~DeliverList
    BY <1>1, NoListEvent DEF DeliverPool, FireTimer, Stirred
  <1>3. ~EditHostSets /\ ~DeletePool
    BY <1>1, WriteStirs DEF EditHostSets, DeletePool
  <1>4. ASSUME NEW u \in Instances,
               InstanceReady(u) \/ InstanceUnready(u) \/ InstanceGone(u)
                 \/ DeleteByOther(u) \/ CollectGarbage(u)
        PROVE  QuietInv'
    <2>1. /\ UNCHANGED <<env, config, pools, worker>>
          /\ Lessens /\ Keeps /\ ~Stirred
          /\ AllReady => AllReady' \/ "unready" \in env.faults
      BY <1>1, <1>4, InstanceSteps
    <2>2. Pool' = Pool
      BY <2>1 DEF Pool
    <2>3. Settling
      BY <1>1, <2>1, <2>2 DEF Settling, Refused
    <2>4. ASSUME NEW t \in HostTypes
          PROVE  Live(List, t)' = Live(List, t)
      <3>1. Live(List, t)' \subseteq Live(List, t)
        BY <2>1, LessenedLive
      <3>2. Live(List, t) \subseteq Live(List, t)'
        BY <2>1, KeptLive
      <3> QED
        BY <3>1, <3>2
    <2>5. AsDesired => AsDesired'
      BY <2>2, <2>4 DEF AsDesired
    <2> QED
      BY <2>1, <2>3, <2>5, QuietSame
  <1>5. ASSUME NEW j \in Jobs, JobSucceeds(j) \/ JobFails(j)
        PROVE  QuietInv'
    <2>1. UNCHANGED <<env, config, pools, lists, queued, timer, worker>>
      BY <1>5 DEF JobSucceeds, JobFails, EndJob
    <2>2. Pool' = Pool /\ List' = List
      BY <2>1 DEF Pool, List
    <2>3. Settling
      BY <2>1, <2>2 DEF Settling, Stirred, Refused
    <2>4. (AsDesired => AsDesired') /\ (AllReady => AllReady')
      BY <2>2 DEF AsDesired, AllReady, Live
    <2> QED
      BY <2>1, <2>3, <2>4, QuietSame
  <1> QED
    BY <1>2, <1>3, <1>4, <1>5 DEF Deliver, Around

LEMMA QuietInit == Init => QuietInv
  BY DEF Init, QuietInv, Settling, Stirred

LEMMA QuietNext ==
    TypeOK /\ TeardownInv /\ ScaleInv /\ QuietInv /\ [Next]_vars => QuietInv'
  <1> SUFFICES ASSUME TypeOK, TeardownInv, ScaleInv, QuietInv, [Next]_vars
               PROVE  QuietInv'
    OBVIOUS
  <1>1. CASE UNCHANGED vars
    <2>1. UNCHANGED <<env, config, pools, lists, queued, timer, worker>>
      BY <1>1 DEF vars
    <2>2. Pool' = Pool /\ List' = List
      BY <2>1 DEF Pool, List
    <2>3. Settling' => Settling
      BY <2>1, <2>2 DEF Settling, Stirred, Refused
    <2>4. (AsDesired => AsDesired') /\ (AllReady => AllReady')
      BY <2>2 DEF AsDesired, AllReady, Live
    <2>5. CASE Settling'
      BY <2>1, <2>3, <2>4, <2>5, QuietSame
    <2>6. CASE ~Settling'
      BY <2>6 DEF QuietInv
    <2> QED
      BY <2>5, <2>6
  <1> QED
    BY <1>1, QuietStart, QuietStep, QuietAround DEF Next

(* When all is quiet around a pool that is not refused, it has the instances of its spec, *)
(* its status says so, its provision job has succeeded for this spec, and its instances   *)
(* are ready, unless one has stopped being so; if the list is up to date.                 *)
THEOREM QuietIsCompleteHolds == Spec => []QuietIsComplete
  <1>1. QuietInv => QuietIsComplete
    <2> SUFFICES ASSUME QuietInv, env.listLag = 0, Quiet, Pool.life = "live", ~Refused
                 PROVE  Done(Pool.status)
      BY DEF QuietIsComplete, Done, Counted, JobFits
    <2>1. ~(Len(pools) > 1)
      BY DEF Quiet
    <2>2. ~Stirred
      BY <2>1 DEF Quiet, Stirred
    <2> QED
      BY <2>2 DEF QuietInv, Settling, Quiet
  <1>2. TypeOK /\ TeardownInv /\ ScaleInv /\ [Next]_vars => ScaleInv'
    BY NextTypes, ScaleNext
  <1> QED
    BY <1>1, <1>2, InitTypes, NextTypes, FinalizerInit, FinalizerNext, TeardownInit, TeardownNext,
       ScaleInit, QuietInit, QuietNext, PTL
    DEF Spec
===============================================================================
