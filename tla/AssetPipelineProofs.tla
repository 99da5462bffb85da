------------------------ MODULE AssetPipelineProofs ------------------------
(***************************************************************************)
(* Theorems about the queue of the worker, with its claims, leases and     *)
(* marks, and about the film that its handlers make: a film that is ready, *)
(* or whose transcode is done, is published whole as long as no lease runs *)
(* out under a run that still works.  For any number of workers, slots,    *)
(* jobs, files, attempts and faults.                                       *)
(***************************************************************************)
EXTENDS AssetPipeline, TLAPS

\* A slot that is not idle works on a job.
HasJob == \A s \in Slot : run[s].at # "idle" => run[s].job \in Job

LEMMA InitTypes == Init => TypeOK /\ HasJob
BY JobQueueAssumption DEF Init, TypeOK, HasJob, Row, Run, Count, Absent, Idle

\* What the steps of a slot write.
LEMMA MarkTypes ==
  ASSUME TypeOK, NEW s \in Slot, run[s].job \in Job,
         NEW st \in {"pending", "leased", "running", "succeeded", "dead"},
         NEW le \in {"none", "held", "expired"}, Mark(s, st, le)
  PROVE  row' \in [Job -> Row]
BY DEF Mark, TypeOK, Row

LEMMA LeasedTypes ==
  ASSUME TypeOK, NEW j \in Job, Leased(j)
  PROVE  row' \in [Job -> Row]
<1> DEFINE n == IF row[j].attempts > MaxAttempts THEN row[j].attempts ELSE row[j].attempts + 1
<1>1. row \in [Job -> Row] /\ row[j] \in Row /\ row[j].attempts \in Count
  BY DEF TypeOK, Row
<1>2. n \in Count
  BY <1>1, JobQueueAssumption DEF Count
<1>3. row' = [row EXCEPT ![j] = [status |-> "leased", lease |-> "held", attempts |-> n]]
  BY <1>1 DEF Leased
<1> HIDE DEF n
<1>4. [status |-> "leased", lease |-> "held", attempts |-> n] \in Row
  BY <1>2 DEF Row
<1>5. QED
  BY <1>1, <1>3, <1>4

LEMMA RunTypes ==
  ASSUME TypeOK, HasJob, NEW s \in Slot, run[s].at # "idle"
  PROVE  /\ \A at \in {"claiming", "claimed", "working", "done", "failing", "burying"} :
              Goes(s, at) => run' \in [Slot -> Run] /\ HasJob'
         /\ Ends(s) => run' \in [Slot -> Run] /\ HasJob'
<1>1. run \in [Slot -> Run] /\ run[s] \in Run /\ run[s].job \in Job
  BY DEF TypeOK, HasJob
<1>2. Idle \in Run /\ Idle.at = "idle"
  BY JobQueueAssumption DEF Idle, Run, Count
<1>3. ASSUME NEW at \in {"claiming", "claimed", "working", "done", "failing", "burying"}, Goes(s, at)
      PROVE  run' \in [Slot -> Run] /\ HasJob'
  BY <1>1, <1>3 DEF Goes, Run, HasJob
<1>4. ASSUME Ends(s) PROVE run' \in [Slot -> Run] /\ HasJob'
  BY <1>1, <1>2, <1>4 DEF Ends, HasJob
<1>5. QED
  BY <1>3, <1>4

LEMMA DiesTypes ==
  ASSUME TypeOK, HasJob, NEW s \in Slot, Dies(s)
  PROVE  run' \in [Slot -> Run] /\ HasJob'
<1>1. Idle \in Run /\ Idle.at = "idle"
  BY JobQueueAssumption DEF Idle, Run, Count
<1>2. QED
  BY <1>1 DEF Dies, TypeOK, HasJob

LEMMA TypeStep == ASSUME TypeOK, HasJob, [Next]_vars PROVE TypeOK' /\ HasJob'
<1> USE JobQueueAssumption
<1>0. ASSUME Fault \/ UNCHANGED faults PROVE faults' \in 0..MaxFaults
  BY <1>0 DEF Fault, TypeOK
<1>1. CASE UNCHANGED vars
  BY <1>1 DEF vars, TypeOK, HasJob
<1>2. ASSUME NEW j \in Job, Enqueue(j) PROVE TypeOK' /\ HasJob'
  BY <1>2 DEF Enqueue, TypeOK, HasJob, Row
<1>3. ASSUME NEW j \in Job, LeaseOver(j) PROVE TypeOK' /\ HasJob'
  BY <1>3 DEF LeaseOver, TypeOK, HasJob, Row
<1>4. ASSUME NEW s \in Slot, Select(s) PROVE TypeOK' /\ HasJob'
  <2>1. PICK j \in Job :
          run' = [run EXCEPT ![s] = [at |-> "claiming", job |-> j, attempts |-> row[j].attempts]]
    BY <1>4 DEF Select, Free
  <2>2. row[j].attempts \in Count
    BY DEF TypeOK, Row
  <2>3. [at |-> "claiming", job |-> j, attempts |-> row[j].attempts] \in Run
    BY <2>2 DEF Run
  <2>4. QED
    BY <1>4, <2>1, <2>3 DEF Select, TypeOK, HasJob
<1>5. ASSUME NEW s \in Slot, Commit(s) PROVE TypeOK' /\ HasJob'
  <2>1. run[s].at # "idle" /\ run[s].job \in Job
    BY <1>5 DEF Commit, HasJob
  <2>2. row' \in [Job -> Row]
    BY <1>5, <2>1, LeasedTypes DEF Commit, TypeOK
  <2>3. run' \in [Slot -> Run] /\ HasJob'
    BY <1>5, <2>1, RunTypes DEF Commit
  <2>4. QED
    BY <1>0, <1>5, <2>2, <2>3 DEF Commit, TypeOK
<1>6. ASSUME NEW s \in Slot, MarkRunning(s) PROVE TypeOK' /\ HasJob'
  <2>1. run[s].at # "idle" /\ run[s].job \in Job
    BY <1>6 DEF MarkRunning, At, HasJob
  <2>2. row' \in [Job -> Row]
    BY <1>6, <2>1, MarkTypes DEF MarkRunning, TypeOK
  <2>3. run' \in [Slot -> Run] /\ HasJob'
    BY <1>6, <2>1, RunTypes DEF MarkRunning
  <2>4. QED
    BY <1>0, <1>6, <2>2, <2>3 DEF MarkRunning, TypeOK
<1>7. ASSUME NEW s \in Slot, Handled(s) PROVE TypeOK' /\ HasJob'
  <2>1. run' \in [Slot -> Run] /\ HasJob'
    BY <1>7, RunTypes DEF Handled
  <2>2. QED
    BY <1>7, <2>1 DEF Handled, TypeOK
<1>8. ASSUME NEW s \in Slot, MarkSuccess(s) PROVE TypeOK' /\ HasJob'
  <2>1. run[s].at # "idle" /\ run[s].job \in Job
    BY <1>8 DEF MarkSuccess, At, HasJob
  <2>2. row' \in [Job -> Row]
    BY <1>8, <2>1, MarkTypes DEF MarkSuccess, TypeOK
  <2>3. run' \in [Slot -> Run] /\ HasJob'
    BY <1>8, <2>1, RunTypes DEF MarkSuccess
  <2>4. QED
    BY <1>0, <1>8, <2>2, <2>3 DEF MarkSuccess, TypeOK
<1>9. ASSUME NEW s \in Slot, MarkFail(s) PROVE TypeOK' /\ HasJob'
  <2>1. run[s].at # "idle" /\ run[s].job \in Job
    BY <1>9 DEF MarkFail, At, HasJob
  <2>2. PICK st \in {"dead", "pending"} : Mark(s, st, "none") \/ UNCHANGED row
    BY <1>9 DEF MarkFail
  <2>3. row' \in [Job -> Row]
    BY <2>1, <2>2, MarkTypes DEF TypeOK
  <2>4. run' \in [Slot -> Run] /\ HasJob'
    BY <1>9, <2>1, RunTypes, DiesTypes DEF MarkFail
  <2>5. QED
    BY <1>0, <1>9, <2>3, <2>4 DEF MarkFail, TypeOK
<1>10. ASSUME NEW s \in Slot, Bury(s) \/ Die(s) PROVE TypeOK' /\ HasJob'
  <2>1. run' \in [Slot -> Run] /\ HasJob'
    BY <1>10, RunTypes, DiesTypes DEF Bury, Die
  <2>2. QED
    BY <1>0, <1>10, <2>1 DEF Bury, Die, TypeOK
<1>11. QED
  BY <1>1, <1>2, <1>3, <1>4, <1>5, <1>6, <1>7, <1>8, <1>9, <1>10 DEF Next, Runs

LEMMA TypeAlways == Spec => [](TypeOK /\ HasJob)
<1>1. TypeOK /\ HasJob /\ [Next]_vars => TypeOK' /\ HasJob'
  BY TypeStep
<1>2. QED
  BY InitTypes, <1>1, PTL DEF Spec

\* The rows of table jobs and the runs of the workers keep their types, through every fault.
THEOREM QueueTypeCorrect == Spec => []TypeOK
BY TypeAlways, PTL

-----------------------------------------------------------------------------
(* Claims. *)

\* An open claim holds its row: no other claim has it, and it stays claimable.
OpenClaims ==
  /\ \A s \in Slot : run[s].at = "claiming" => Claimable(run[s].job)
  /\ \A s, t \in Slot :
       run[s].at = "claiming" /\ run[t].at = "claiming" /\ run[s].job = run[t].job => s = t

\* What a slot does to the row of its job, once that row is not locked, leaves open claims
\* alone.
LEMMA OpenElsewhere ==
  ASSUME TypeOK, OpenClaims, NEW s \in Slot,
         \A t \in Slot : run[t].at = "claiming" =>
            t = s \/ (run[t].job \in Job => row'[run[t].job] = row[run[t].job]),
         HasJob,
         \A t \in Slot : run'[t].at = "claiming" => t # s /\ run'[t] = run[t]
  PROVE  OpenClaims'
BY DEF OpenClaims, Claimable, HasJob

LEMMA OpenStep == ASSUME TypeOK, HasJob, OpenClaims, [Next]_vars PROVE OpenClaims'
<1>1. CASE UNCHANGED vars
  BY <1>1 DEF vars, OpenClaims, Claimable
<1>2. ASSUME NEW j \in Job, Enqueue(j) PROVE OpenClaims'
  BY <1>2 DEF Enqueue, OpenClaims, Claimable, TypeOK, HasJob, Row
<1>3. ASSUME NEW j \in Job, LeaseOver(j) PROVE OpenClaims'
  BY <1>3 DEF LeaseOver, OpenClaims, Claimable, TypeOK, HasJob, Row
<1>4. ASSUME NEW s \in Slot, Select(s) PROVE OpenClaims'
  <2>1. PICK j \in Free :
          run' = [run EXCEPT ![s] = [at |-> "claiming", job |-> j, attempts |-> row[j].attempts]]
    BY <1>4 DEF Select
  <2>2. j \in Job /\ Claimable(j) /\ ~Locked(j)
    BY <2>1 DEF Free
  <2>3. run'[s].job = j /\ \A t \in Slot : t # s => run'[t] = run[t]
    BY <2>1 DEF TypeOK
  <2>4. \A t \in Slot : run[t].at = "claiming" => run[t].job # j
    BY <2>2 DEF Locked
  <2>5. QED
    BY <1>4, <2>2, <2>3, <2>4 DEF Select, OpenClaims, Claimable
<1>5. ASSUME NEW s \in Slot, Commit(s) PROVE OpenClaims'
  <2>1. run[s].at = "claiming" /\ run[s].job \in Job
    BY <1>5 DEF Commit, HasJob
  <2>2. \A t \in Slot : run[t].at = "claiming" =>
          t = s \/ (run[t].job \in Job => row'[run[t].job] = row[run[t].job])
    BY <1>5, <2>1 DEF Commit, Leased, OpenClaims, TypeOK
  <2>3. \A t \in Slot : run'[t].at = "claiming" => t # s /\ run'[t] = run[t]
    BY <1>5, <2>1 DEF Commit, Goes, Ends, Idle, TypeOK, Run
  <2>4. QED
    BY <2>2, <2>3, OpenElsewhere
\* The marks: the row of the slot's job is not locked.
<1>6. ASSUME NEW s \in Slot, run[s].at # "claiming", ~Locked(run[s].job),
             \A k \in Job : k # run[s].job => row'[k] = row[k],
             \A t \in Slot : run'[t].at = "claiming" => t # s /\ run'[t] = run[t]
      PROVE  OpenClaims'
  BY <1>6, OpenElsewhere DEF Locked
<1>7. ASSUME NEW s \in Slot, MarkRunning(s) \/ MarkSuccess(s) PROVE OpenClaims'
  <2>1. run[s].at # "claiming" /\ ~Locked(run[s].job)
    BY <1>7 DEF MarkRunning, MarkSuccess, At
  <2>2. \A k \in Job : k # run[s].job => row'[k] = row[k]
    BY <1>7 DEF MarkRunning, MarkSuccess, Mark, TypeOK
  <2>3. \A t \in Slot : run'[t].at = "claiming" => t # s /\ run'[t] = run[t]
    BY <1>7 DEF MarkRunning, MarkSuccess, Goes, Ends, Idle, TypeOK, Run
  <2>4. QED
    BY <1>6, <2>1, <2>2, <2>3
<1>8. ASSUME NEW s \in Slot, Dies(s)
      PROVE  \A t \in Slot : run'[t].at = "claiming" => t # s /\ run'[t] = run[t]
  BY <1>8 DEF Dies, Idle
<1>9. ASSUME NEW s \in Slot, MarkFail(s) PROVE OpenClaims'
  <2>1. run[s].at # "claiming" /\ ~Locked(run[s].job)
    BY <1>9 DEF MarkFail, At
  <2>2. \A k \in Job : k # run[s].job => row'[k] = row[k]
    BY <1>9 DEF MarkFail, Mark, TypeOK
  <2>3. \A t \in Slot : run'[t].at = "claiming" => t # s /\ run'[t] = run[t]
    BY <1>8, <1>9 DEF MarkFail, Goes, Ends, Idle, TypeOK, Run
  <2>4. QED
    BY <1>6, <2>1, <2>2, <2>3
<1>10. ASSUME NEW s \in Slot, Handled(s) \/ Bury(s) \/ Die(s) PROVE OpenClaims'
  <2>1. row' = row
    BY <1>10 DEF Handled, Bury, Die
  <2>2. \A t \in Slot : run'[t].at = "claiming" => run'[t] = run[t]
    BY <1>8, <1>10 DEF Handled, Bury, Die, Goes, Ends, Idle, TypeOK, Run
  <2>3. QED
    BY <2>1, <2>2 DEF OpenClaims, Claimable
<1>11. QED
  BY <1>1, <1>2, <1>3, <1>4, <1>5, <1>7, <1>9, <1>10 DEF Next, Runs

\* Two workers cannot claim the same job, however their claims and marks overlap.
THEOREM ClaimsExclude == Spec => ClaimsAreFree
<1>1. Init => OpenClaims
  BY DEF Init, OpenClaims, Idle
<1>2. TypeOK /\ HasJob /\ OpenClaims /\ [Next]_vars => OpenClaims'
  BY OpenStep
<1>3. OpenClaims =>
        [\A s \in Slot : run[s].at = "claiming" /\ run'[s].at = "claimed"
           => Claimable(run[s].job)]_vars
  BY DEF OpenClaims
<1>4. QED
  BY TypeAlways, <1>1, <1>2, <1>3, PTL DEF Spec, ClaimsAreFree

-----------------------------------------------------------------------------
(* Giving up. *)

\* The row of a job that somebody runs has at least the attempts the run has read.
ReadBefore == \A s \in Slot : run[s].at # "idle" => run[s].attempts <= row[run[s].job].attempts

\* Rows are never set back.
LEMMA AttemptsGrow ==
  ASSUME TypeOK, HasJob, [Next]_vars
  PROVE  \A j \in Job : row[j].attempts <= row'[j].attempts
<1>0. \A j \in Job : row[j] \in Row /\ row[j].attempts \in Nat
  BY JobQueueAssumption DEF TypeOK, Row, Count
<1>1. CASE row' = row
  BY <1>0, <1>1
<1>2. ASSUME NEW j \in Job, Enqueue(j) \/ LeaseOver(j) PROVE \A k \in Job : row[k].attempts <= row'[k].attempts
  BY <1>0, <1>2 DEF Enqueue, LeaseOver, TypeOK, Row
<1>3. ASSUME NEW s \in Slot, NEW st, NEW le, run[s].job \in Job, Mark(s, st, le)
      PROVE  \A k \in Job : row[k].attempts <= row'[k].attempts
  BY <1>0, <1>3 DEF Mark, TypeOK, Row
<1>4. ASSUME NEW j \in Job, Leased(j) PROVE \A k \in Job : row[k].attempts <= row'[k].attempts
  <2>1. row'[j].attempts \in {row[j].attempts, row[j].attempts + 1}
    BY <1>4 DEF Leased, TypeOK
  <2>2. \A k \in Job : k # j => row'[k] = row[k]
    BY <1>4 DEF Leased, TypeOK
  <2>3. QED
    BY <1>0, <2>1, <2>2
<1>5. ASSUME NEW s \in Slot, Runs(s) \/ Die(s) PROVE \A k \in Job : row[k].attempts <= row'[k].attempts
  <2>1. CASE Select(s) \/ Handled(s) \/ Bury(s) \/ Die(s)
    BY <1>1, <2>1 DEF Select, Handled, Bury, Die
  <2>2. CASE Commit(s)
    BY <1>1, <1>4, <2>2 DEF Commit, HasJob
  <2>3. CASE MarkRunning(s) \/ MarkSuccess(s) \/ MarkFail(s)
    BY <1>1, <1>3, <2>3 DEF MarkRunning, MarkSuccess, MarkFail, At, HasJob
  <2>4. QED
    BY <1>5, <2>1, <2>2, <2>3 DEF Runs
<1>6. QED
  BY <1>1, <1>2, <1>5 DEF Next, vars

\* A run keeps what it has read.
LEMMA RunKeeps ==
  ASSUME TypeOK, HasJob, [Next]_vars, NEW s \in Slot, run'[s].at # "idle"
  PROVE  \/ run'[s].job = run[s].job /\ run'[s].attempts = run[s].attempts /\ run[s].at # "idle"
         \/ run'[s].job \in Job /\ row' = row /\ run'[s].attempts = row[run'[s].job].attempts
<1> DEFINE Kept == run'[s].job = run[s].job /\ run'[s].attempts = run[s].attempts /\ run[s].at # "idle"
           Read == run'[s].job \in Job /\ row' = row /\ run'[s].attempts = row[run'[s].job].attempts
<1>1. CASE run' = run
  BY <1>1
<1>2. ASSUME NEW t \in Slot, NEW at, run[t].at # "idle", Goes(t, at) PROVE Kept
  BY <1>2 DEF Goes, TypeOK, Run
<1>3. ASSUME NEW t \in Slot, Ends(t) \/ Dies(t) PROVE Kept
  BY <1>3 DEF Ends, Dies, Idle, TypeOK
<1>4. ASSUME NEW t \in Slot, Select(t) PROVE Kept \/ Read
  <2>1. PICK j \in Job :
          run' = [run EXCEPT ![t] = [at |-> "claiming", job |-> j, attempts |-> row[j].attempts]]
    BY <1>4 DEF Select, Free
  <2>2. row' = row
    BY <1>4 DEF Select
  <2>3. QED
    BY <2>1, <2>2 DEF TypeOK
<1>5. ASSUME NEW t \in Slot, Runs(t) \/ Die(t) PROVE Kept \/ Read
  <2>1. CASE Select(t)
    BY <1>4, <2>1
  <2>2. CASE Commit(t)
    BY <1>2, <1>3, <2>2 DEF Commit
  <2>3. CASE MarkRunning(t) \/ MarkSuccess(t) \/ MarkFail(t) \/ Handled(t)
    BY <1>2, <1>3, <2>3 DEF MarkRunning, MarkSuccess, MarkFail, Handled, At
  <2>4. CASE Bury(t) \/ Die(t)
    BY <1>3, <2>4 DEF Bury, Die
  <2>5. QED
    BY <1>5, <2>1, <2>2, <2>3, <2>4 DEF Runs
<1>6. QED
  BY <1>1, <1>5 DEF Next, Enqueue, LeaseOver, vars

LEMMA ReadStep == ASSUME TypeOK, HasJob, ReadBefore, [Next]_vars, TypeOK' PROVE ReadBefore'
<1> SUFFICES ASSUME NEW s \in Slot, run'[s].at # "idle"
             PROVE  run'[s].attempts <= row'[run'[s].job].attempts
  BY DEF ReadBefore
<1>1. \A j \in Job : row[j].attempts <= row'[j].attempts
  BY AttemptsGrow
<1>2. /\ \A j \in Job : row[j].attempts \in Nat /\ row'[j].attempts \in Nat
      /\ run[s].attempts \in Nat
  BY JobQueueAssumption DEF TypeOK, Row, Run, Count
<1>3. CASE run'[s].job = run[s].job /\ run'[s].attempts = run[s].attempts /\ run[s].at # "idle"
  <2>1. run[s].job \in Job /\ run[s].attempts <= row[run[s].job].attempts
    BY <1>3 DEF HasJob, ReadBefore
  <2>2. QED
    BY <1>1, <1>2, <1>3, <2>1
<1>4. CASE run'[s].job \in Job /\ row' = row /\ run'[s].attempts = row[run'[s].job].attempts
  BY <1>2, <1>4
<1>5. QED
  BY <1>3, <1>4, RunKeeps

\* Only markFail makes a job dead, and it has read that its attempts are spent.
LEMMA DeadStep ==
  ASSUME TypeOK, HasJob, ReadBefore, DeadIsSpent, [Next]_vars, TypeOK'
  PROVE  DeadIsSpent'
<1>1. \A j \in Job : row[j].attempts <= row'[j].attempts
  BY AttemptsGrow
<1>2. /\ \A j \in Job : row[j].attempts \in Nat /\ row'[j].attempts \in Nat
      /\ \A s \in Slot : run[s].attempts \in Nat
      /\ MaxAttempts \in Nat
  BY JobQueueAssumption DEF TypeOK, Row, Run, Count
<1>3. ASSUME \A j \in Job : row'[j].status = "dead" => row[j].status = "dead"
      PROVE  DeadIsSpent'
  BY <1>1, <1>2, <1>3 DEF DeadIsSpent
<1>4. CASE row' = row
  BY <1>3, <1>4
<1>5. ASSUME NEW j \in Job, Enqueue(j) \/ LeaseOver(j) \/ Leased(j) PROVE DeadIsSpent'
  BY <1>3, <1>5 DEF Enqueue, LeaseOver, Leased, TypeOK, Row
<1>6. ASSUME NEW s \in Slot, NEW st, NEW le, st # "dead", run[s].job \in Job, Mark(s, st, le)
      PROVE  DeadIsSpent'
  BY <1>3, <1>6 DEF Mark, TypeOK, Row
<1>7. ASSUME NEW s \in Slot, MarkFail(s) PROVE DeadIsSpent'
  <2>1. run[s].job \in Job /\ run[s].attempts <= row[run[s].job].attempts
    BY <1>7 DEF MarkFail, At, HasJob, ReadBefore
  <2>2. CASE Dead(s) /\ Mark(s, "dead", "none")
    <3>1. row[run[s].job].attempts >= MaxAttempts
      BY <1>2, <2>1, <2>2 DEF Dead
    <3>2. \A j \in Job : row'[j].status = "dead" => row[j].status = "dead" \/ j = run[s].job
      BY <2>1, <2>2 DEF Mark, TypeOK
    <3>3. QED
      BY <1>1, <1>2, <2>1, <3>1, <3>2 DEF DeadIsSpent
  <2>3. CASE ~Dead(s) /\ Mark(s, "pending", "none")
    BY <1>6, <2>1, <2>3
  <2>4. QED
    BY <1>4, <1>7, <2>2, <2>3 DEF MarkFail
<1>8. ASSUME NEW s \in Slot, Runs(s) \/ Die(s) PROVE DeadIsSpent'
  <2>1. CASE Select(s) \/ Handled(s) \/ Bury(s) \/ Die(s)
    BY <1>4, <2>1 DEF Select, Handled, Bury, Die
  <2>2. CASE Commit(s)
    BY <1>4, <1>5, <2>2 DEF Commit, HasJob
  <2>3. CASE MarkRunning(s) \/ MarkSuccess(s)
    BY <1>4, <1>6, <2>3 DEF MarkRunning, MarkSuccess, At, HasJob
  <2>4. QED
    BY <1>7, <1>8, <2>1, <2>2, <2>3 DEF Runs
<1>9. QED
  BY <1>4, <1>5, <1>8 DEF Next, vars

\* A job is given up only after it was claimed MaxAttempts times, although markFail decides it
\* on a row that was read before the claim and may be several claims old.
THEOREM GivenUpWhenSpent == Spec => []DeadIsSpent
<1>1. Init => ReadBefore /\ DeadIsSpent
  BY DEF Init, ReadBefore, DeadIsSpent, Idle, Absent
<1>2. TypeOK /\ HasJob /\ TypeOK' /\ ReadBefore /\ DeadIsSpent /\ [Next]_vars
        => ReadBefore' /\ DeadIsSpent'
  BY ReadStep, DeadStep
<1>3. QED
  BY TypeAlways, <1>1, <1>2, PTL DEF Spec

-----------------------------------------------------------------------------
(* While no lease runs out under a run, a job has one run. *)

\* The row of a run that has committed its claim is nobody else's to claim.
Owned(s) ==
  /\ row[run[s].job].status \notin {"absent", "pending"}
  /\ ~Claimable(run[s].job)
  /\ run[s].at \in {"working", "done"} => row[run[s].job].status = "running"

OneRun ==
  /\ \A s, t \in Slot : run[s].at # "idle" /\ run[t].at # "idle" /\ run[s].job = run[t].job => s = t
  /\ \A s \in Slot : run[s].at \notin {"idle", "claiming"} => Owned(s)

\* A run that goes on or ends, and touches no row but its own.
LEMMA OwnRow ==
  ASSUME TypeOK, HasJob, OneRun, NEW s \in Slot, run[s].at # "idle",
         \A j \in Job : j # run[s].job => row'[j] = row[j],
         \A t \in Slot : t # s => run'[t] = run[t] \/ run'[t].at = "idle",
         run'[s].at = "idle" \/ run'[s].job = run[s].job,
         run'[s].at \notin {"idle", "claiming"} => Owned(s)'
  PROVE  OneRun'
<1>1. ASSUME NEW t \in Slot, t # s, run'[t].at # "idle"
      PROVE  run'[t] = run[t] /\ run[t].job \in Job /\ run[t].job # run[s].job
  BY <1>1 DEF OneRun, HasJob
<1>2. ASSUME NEW t \in Slot, run'[t].at \notin {"idle", "claiming"} PROVE Owned(t)'
  <2>1. CASE t = s
    BY <1>2, <2>1
  <2>2. CASE t # s
    <3>1. run'[t] = run[t] /\ row'[run[t].job] = row[run[t].job]
      BY <1>1, <1>2, <2>2
    <3>2. Owned(t)
      BY <1>2, <3>1 DEF OneRun
    <3>3. QED
      BY <3>1, <3>2 DEF Owned, Claimable
  <2>3. QED
    BY <2>1, <2>2
<1>3. ASSUME NEW t \in Slot, NEW v \in Slot, run'[t].at # "idle", run'[v].at # "idle",
             run'[t].job = run'[v].job
      PROVE  t = v
  <2>1. \A x \in {t, v} : x # s => run'[x] = run[x] /\ run[x].job # run[s].job
    BY <1>1, <1>3
  <2>2. run'[s].at # "idle" => run'[s].job = run[s].job
    OBVIOUS
  <2>3. QED
    BY <1>3, <2>1, <2>2 DEF OneRun
<1>4. QED
  BY <1>2, <1>3 DEF OneRun

\* What the marks make of the row, and Leased of the row of a claim.
LEMMA MarkRow ==
  ASSUME TypeOK, HasJob, NEW s \in Slot, run[s].at # "idle", NEW st, NEW le, Mark(s, st, le)
  PROVE  /\ row'[run[s].job].status = st /\ row'[run[s].job].lease = le
         /\ \A j \in Job : j # run[s].job => row'[j] = row[j]
<1>1. run[s].job \in Job /\ row \in [Job -> Row]
  BY DEF TypeOK, HasJob
<1>2. row[run[s].job] \in Row
  BY <1>1
<1>3. QED
  BY <1>1, <1>2 DEF Mark, Row

LEMMA LeasedRow ==
  ASSUME TypeOK, NEW j \in Job, Leased(j)
  PROVE  /\ row'[j].status = "leased" /\ row'[j].lease = "held"
         /\ \A i \in Job : i # j => row'[i] = row[i]
BY DEF Leased, TypeOK

\* Where Goes, Ends and Dies leave the runs.
LEMMA RunRow ==
  ASSUME TypeOK, NEW s \in Slot
  PROVE  /\ \A at \in {"claiming", "claimed", "working", "done", "failing", "burying"} : Goes(s, at) =>
              /\ run'[s].at = at /\ run'[s].job = run[s].job
              /\ \A t \in Slot : t # s => run'[t] = run[t]
         /\ Ends(s) => run'[s].at = "idle" /\ \A t \in Slot : t # s => run'[t] = run[t]
         /\ Dies(s) => /\ run'[s].at = "idle"
                       /\ \A t \in Slot : run'[t] = run[t] \/ run'[t].at = "idle"
<1>1. run \in [Slot -> Run] /\ run[s] \in Run /\ Idle.at = "idle"
  BY DEF TypeOK, Idle
<1>2. ASSUME NEW at \in {"claiming", "claimed", "working", "done", "failing", "burying"}, Goes(s, at)
      PROVE  /\ run'[s].at = at /\ run'[s].job = run[s].job
             /\ \A t \in Slot : t # s => run'[t] = run[t]
  BY <1>1, <1>2 DEF Goes, Run
<1>3. ASSUME Ends(s)
      PROVE  run'[s].at = "idle" /\ \A t \in Slot : t # s => run'[t] = run[t]
  BY <1>1, <1>3 DEF Ends
<1>4. ASSUME Dies(s)
      PROVE  run'[s].at = "idle" /\ \A t \in Slot : run'[t] = run[t] \/ run'[t].at = "idle"
  BY <1>1, <1>4 DEF Dies
<1>5. QED
  BY <1>2, <1>3, <1>4

LEMMA OneRunSlot ==
  ASSUME TypeOK, HasJob, OneRun, NEW s \in Slot, Runs(s) \/ Die(s) PROVE OneRun'
<1> DEFINE j == run[s].job
<1>1. CASE Select(s)
  <2>1. PICK i \in Free :
          run' = [run EXCEPT ![s] = [at |-> "claiming", job |-> i, attempts |-> row[i].attempts]]
    BY <1>1 DEF Select
  <2>2. /\ run'[s].at = "claiming" /\ run'[s].job = i /\ row' = row
        /\ \A t \in Slot : t # s => run'[t] = run[t]
    BY <1>1, <2>1 DEF Select, TypeOK
  <2>3. ASSUME NEW t \in Slot, run[t].at # "idle" PROVE run[t].job # i
    <3>1. CASE run[t].at = "claiming"
      BY <2>1, <3>1 DEF Free, Locked
    <3>2. CASE run[t].at # "claiming"
      BY <2>1, <2>3, <3>2 DEF Free, OneRun, Owned
    <3>3. QED
      BY <3>1, <3>2
  <2>4. \A t \in Slot : run'[t].at \notin {"idle", "claiming"} => Owned(t)'
    BY <2>2 DEF OneRun, Owned, Claimable
  <2>5. QED
    BY <2>2, <2>3, <2>4 DEF OneRun
<1>2. CASE Commit(s)
  <2>1. run[s].at # "idle" /\ j \in Job
    BY <1>2 DEF Commit, HasJob
  <2>2. CASE Leased(j) /\ Goes(s, "claimed")
    <3>1. Owned(s)'
      BY <2>1, <2>2, LeasedRow, RunRow DEF Owned, Claimable
    <3>2. QED
      BY <2>1, <2>2, <3>1, LeasedRow, RunRow, OwnRow
  <2>3. CASE Ends(s) /\ (Leased(j) \/ UNCHANGED row)
    BY <2>1, <2>3, LeasedRow, RunRow, OwnRow
  <2>4. QED
    BY <1>2, <2>2, <2>3 DEF Commit
<1>3. CASE MarkRunning(s)
  <2>1. run[s].at = "claimed" /\ Owned(s)
    BY <1>3 DEF MarkRunning, At, OneRun
  <2>2. CASE Mark(s, "running", "held") /\ (Goes(s, "working") \/ Goes(s, "failing"))
    <3>1. Owned(s)'
      BY <2>1, <2>2, MarkRow, RunRow DEF Owned, Claimable
    <3>2. QED
      BY <2>1, <2>2, <3>1, MarkRow, RunRow, OwnRow
  <2>3. CASE UNCHANGED row /\ Goes(s, "failing")
    <3>1. Owned(s)'
      BY <2>1, <2>3, RunRow DEF Owned, Claimable
    <3>2. QED
      BY <2>1, <2>3, <3>1, RunRow, OwnRow
  <2>4. QED
    BY <1>3, <2>2, <2>3 DEF MarkRunning
<1>4. CASE Handled(s)
  <2>1. run[s].at = "working" /\ Owned(s) /\ row' = row /\ (Goes(s, "done") \/ Goes(s, "failing"))
    BY <1>4 DEF Handled, OneRun
  <2>2. Owned(s)'
    BY <2>1, RunRow DEF Owned, Claimable
  <2>3. QED
    BY <2>1, <2>2, RunRow, OwnRow
<1>5. CASE MarkSuccess(s)
  <2>1. run[s].at = "done" /\ Owned(s)
    BY <1>5 DEF MarkSuccess, At, OneRun
  <2>2. CASE Mark(s, "succeeded", "none") /\ (Ends(s) \/ Goes(s, "failing"))
    <3>1. run'[s].at \notin {"idle", "claiming"} => Owned(s)'
      BY <2>1, <2>2, MarkRow, RunRow DEF Owned, Claimable
    <3>2. QED
      BY <2>1, <2>2, <3>1, MarkRow, RunRow, OwnRow
  <2>3. CASE UNCHANGED row /\ Goes(s, "failing")
    <3>1. Owned(s)'
      BY <2>1, <2>3, RunRow DEF Owned, Claimable
    <3>2. QED
      BY <2>1, <2>3, <3>1, RunRow, OwnRow
  <2>4. QED
    BY <1>5, <2>2, <2>3 DEF MarkSuccess
<1>6. CASE MarkFail(s)
  <2>1. run[s].at = "failing" /\ Owned(s)
    BY <1>6 DEF MarkFail, At, OneRun
  <2>2. CASE Mark(s, "dead", "none") /\ Goes(s, "burying")
    <3>1. Owned(s)'
      BY <2>1, <2>2, MarkRow, RunRow DEF Owned, Claimable
    <3>2. QED
      BY <2>1, <2>2, <3>1, MarkRow, RunRow, OwnRow
  <2>3. CASE /\ (\E st \in {"dead", "pending"} : Mark(s, st, "none")) \/ UNCHANGED row
             /\ Ends(s) \/ Dies(s)
    <3>1. \A i \in Job : i # j => row'[i] = row[i]
      BY <2>1, <2>3, MarkRow
    <3>2. run'[s].at = "idle" /\ \A t \in Slot : t # s => run'[t] = run[t] \/ run'[t].at = "idle"
      BY <2>3, RunRow
    <3>3. QED
      BY <2>1, <3>1, <3>2, OwnRow
  <2>4. QED
    BY <1>6, <2>2, <2>3 DEF MarkFail
<1>7. CASE Bury(s)
  <2>1. run[s].at # "idle" /\ row' = row /\ (Ends(s) \/ Dies(s))
    BY <1>7 DEF Bury
  <2>2. run'[s].at = "idle" /\ \A t \in Slot : t # s => run'[t] = run[t] \/ run'[t].at = "idle"
    BY <2>1, RunRow
  <2>3. QED
    BY <2>1, <2>2, OwnRow
<1>8. CASE Die(s)
  <2>1. row' = row /\ \A t \in Slot : run'[t] = run[t] \/ run'[t].at = "idle"
    BY <1>8, RunRow DEF Die
  <2>2. QED
    BY <2>1 DEF OneRun, Owned, Claimable
<1>9. QED
  BY <1>1, <1>2, <1>3, <1>4, <1>5, <1>6, <1>7, <1>8 DEF Runs

\* A job that is new has no run, and no lease runs out under one.
LEMMA OneRunJob ==
  ASSUME TypeOK, HasJob, OneRun, NEW j \in Job,
         Enqueue(j) \/ (LeaseOver(j) /\ \A s \in Slot : run[s].job # j)
  PROVE  OneRun'
<1>1. run' = run /\ \A i \in Job : i # j => row'[i] = row[i]
  BY DEF Enqueue, LeaseOver, TypeOK
<1>2. ASSUME NEW s \in Slot, run[s].at \notin {"idle", "claiming"} PROVE Owned(s)'
  <2>1. run[s].job \in Job /\ Owned(s)
    BY <1>2 DEF OneRun, HasJob
  <2>2. run[s].job # j
    BY <2>1 DEF Owned, Enqueue
  <2>3. QED
    BY <1>1, <2>1, <2>2 DEF Owned, Claimable
<1>3. QED
  BY <1>1, <1>2 DEF OneRun

\* What a step of a slot does to the runs and rows that it does not own.
LEMMA Moves ==
  ASSUME TypeOK, HasJob, NEW s \in Slot, Runs(s) \/ Die(s)
  PROVE  /\ \A t \in Slot : run'[t].at \in {"working", "done"} => run'[t].job = run[t].job
         /\ \A t \in Slot : run'[t].at = "done" =>
              run[t].at = "done" \/ (t = s /\ run[t].at = "working" /\ Handled(s))
         /\ \A j \in Job : row'[j].status = "succeeded" =>
              row[j].status = "succeeded" \/ (MarkSuccess(s) /\ run[s].job = j)
         /\ \A j \in Job : row'[j].status = "absent" => row[j].status = "absent"
<1> DEFINE Kept(t) ==
             /\ run'[t].at \in {"working", "done"} => run'[t].job = run[t].job
             /\ run'[t].at = "done" =>
                  run[t].at = "done" \/ (t = s /\ run[t].at = "working" /\ Handled(s))
           Rest(j) ==
             /\ row'[j].status = "succeeded" =>
                  row[j].status = "succeeded" \/ (MarkSuccess(s) /\ run[s].job = j)
             /\ row'[j].status = "absent" => row[j].status = "absent"
<1> SUFFICES (\A t \in Slot : Kept(t)) /\ (\A j \in Job : Rest(j))
  OBVIOUS
<1>1. CASE Select(s)
  <2>1. PICK i \in Job :
          run' = [run EXCEPT ![s] = [at |-> "claiming", job |-> i, attempts |-> row[i].attempts]]
    BY <1>1 DEF Select, Free
  <2>2. /\ run'[s].at = "claiming" /\ row' = row
        /\ \A t \in Slot : t # s => run'[t] = run[t]
    BY <1>1, <2>1 DEF Select, TypeOK
  <2>3. QED
    BY <2>2
<1>2. CASE Commit(s)
  <2>1. run[s].job \in Job /\ run[s].at = "claiming"
    BY <1>2 DEF Commit, HasJob
  <2>2. \A t \in Slot : Kept(t)
    BY <1>2, RunRow DEF Commit
  <2>3. \A j \in Job : Rest(j)
    BY <1>2, <2>1, LeasedRow DEF Commit
  <2>4. QED
    BY <2>2, <2>3
<1>3. CASE MarkRunning(s)
  <2>1. run[s].at = "claimed"
    BY <1>3 DEF MarkRunning, At
  <2>2. \A t \in Slot : Kept(t)
    BY <1>3, <2>1, RunRow DEF MarkRunning
  <2>3. \A j \in Job : Rest(j)
    BY <1>3, <2>1, MarkRow DEF MarkRunning
  <2>4. QED
    BY <2>2, <2>3
<1>4. CASE Handled(s)
  <2>1. run[s].at = "working" /\ row' = row /\ (Goes(s, "done") \/ Goes(s, "failing"))
    BY <1>4 DEF Handled
  <2>2. QED
    BY <1>4, <2>1, RunRow
<1>5. CASE MarkSuccess(s)
  <2>1. run[s].at = "done"
    BY <1>5 DEF MarkSuccess, At
  <2>2. \A t \in Slot : Kept(t)
    BY <1>5, <2>1, RunRow DEF MarkSuccess
  <2>3. \A j \in Job : Rest(j)
    BY <1>5, <2>1, MarkRow DEF MarkSuccess
  <2>4. QED
    BY <2>2, <2>3
<1>6. CASE MarkFail(s)
  <2>1. run[s].at = "failing"
    BY <1>6 DEF MarkFail, At
  <2>2. /\ (\E st \in {"dead", "pending"} : Mark(s, st, "none")) \/ UNCHANGED row
        /\ Ends(s) \/ Dies(s) \/ Goes(s, "burying")
    BY <1>6 DEF MarkFail
  <2>3. \A t \in Slot : Kept(t)
    BY <2>1, <2>2, RunRow
  <2>4. \A j \in Job : Rest(j)
    BY <2>1, <2>2, MarkRow
  <2>5. QED
    BY <2>3, <2>4
<1>7. CASE Bury(s) \/ Die(s)
  <2>1. row' = row /\ (Ends(s) \/ Dies(s))
    BY <1>7 DEF Bury, Die
  <2>2. QED
    BY <2>1, RunRow
<1>8. QED
  BY <1>1, <1>2, <1>3, <1>4, <1>5, <1>6, <1>7 DEF Runs

-----------------------------------------------------------------------------
(* The queue under its handlers. *)

QueueInv == TypeOK /\ HasJob /\ OneRun

\* Steps of a slot, of the API and of a lease that nothing runs under.
LEMMA SlotStep == ASSUME QueueInv, NEW s \in Slot, Runs(s) \/ Die(s) PROVE QueueInv'
<1>1. OneRun'
  BY OneRunSlot, JobQueueAssumption DEF QueueInv
<1>2. Next
  BY DEF Next
<1>3. TypeOK' /\ HasJob'
  BY <1>2, TypeStep DEF QueueInv
<1>4. QED
  BY <1>1, <1>3 DEF QueueInv

LEMMA JobStep ==
  ASSUME QueueInv, NEW j \in Job,
         Enqueue(j) \/ (LeaseOver(j) /\ \A s \in Slot : run[s].job # j)
  PROVE  QueueInv'
<1>1. OneRun'
  BY OneRunJob, JobQueueAssumption DEF QueueInv
<1>2. Next
  BY DEF Next
<1>3. TypeOK' /\ HasJob'
  BY <1>2, TypeStep DEF QueueInv
<1>4. QED
  BY <1>1, <1>3 DEF QueueInv

\* Every step is a step of the queue, or leaves it alone.
LEMMA NextQueue ==
  ASSUME [PipelineNext]_pipelineVars
  PROVE  Next \/ UNCHANGED vars
<1>1. Job = Job /\ Slot = Slot
  BY DEF Job, Slot
<1>2. CASE UNCHANGED pipelineVars
  BY <1>2 DEF pipelineVars, vars
<1>3. ASSUME NEW k, Insert(k) PROVE Next
  BY <1>1, <1>3 DEF Insert, Next
<1>4. CASE PutProbe \/ PutTranscode \/ Delete \/ SweepPurges
  BY <1>3, <1>4 DEF PutProbe, PutTranscode, Delete, SweepPurges
<1>5. CASE PutCheck \/ PutStore \/ PutComplete \/ PutQueue \/ PutFails \/ DeleteMarks
             \/ SweepAbandons \/ SweepDeletes
  BY <1>5 DEF PutCheck, PutStore, PutComplete, PutQueue, PutFails, DeleteMarks,
              SweepAbandons, SweepDeletes, NoInsert
<1>6. ASSUME NEW s \in Slot, SlotRuns(s) PROVE Next \/ UNCHANGED vars
  <2>1. CASE Queue(s) \/ HandlerEnds(s) \/ BuryFilm(s)
    BY <1>1, <2>1 DEF Queue, HandlerEnds, BuryFilm, Next, Runs
  <2>2. CASE Handler(s)
    BY <2>2 DEF Handler, ProbeStart, ProbeMeasure, TranscodeRead, TranscodeBegin, Encode, Stage,
                Wipe, List, Copy, Clean, DropVariants, InsertVariants, Ready, PurgeRead,
                PurgeOriginal, PurgePrefix, PurgeMark, Step, NoInsert
  <2>3. QED
    BY <1>6, <2>1, <2>2 DEF SlotRuns
<1>7. ASSUME NEW j \in Job, LeaseRunsOut(j) PROVE Next
  BY <1>1, <1>7 DEF LeaseRunsOut, Next
<1>8. QED
  BY <1>2, <1>4, <1>5, <1>6, <1>7 DEF PipelineNext

\* With its handlers the worker still runs the queue of JobQueue: processJob's handlers end or
\* throw, and do nothing to the table (lines 215-261).
THEOREM HandlersRunTheQueue == PipelineSpec => RunsTheQueue
<1>1. PipelineInit => Init
  BY DEF PipelineInit
<1>2. [PipelineNext]_pipelineVars => [Next]_vars
  BY NextQueue DEF vars
<1>3. QED
  BY <1>1, <1>2, PTL DEF PipelineSpec, RunsTheQueue, Spec

-----------------------------------------------------------------------------
(* Types. *)

FilmTypes ==
  /\ kind \in [Job -> {"none", "probe", "transcode", "purge"}]
  /\ pc \in [Slot -> {"off", "start", "measure", "begin", "download", "stage", "wipe", "list",
                      "copy", "clean", "drop", "insert", "ready",
                      "delete", "prefix", "mark", "end"}]
  /\ todo \in [Slot -> SUBSET File]
  /\ asset \in Asset /\ store \in Store
  /\ put \in {"idle", "checked", "stored", "completed", "queued", "probed"}
  /\ del \in {"idle", "inserted"} /\ sweep \in {"idle", "selected", "deleted"}

LEMMA ApiTypes ==
  ASSUME FilmTypes,
         \/ PutCheck \/ PutStore \/ PutComplete \/ PutQueue \/ PutProbe \/ PutTranscode \/ PutFails
         \/ Delete \/ DeleteMarks \/ SweepAbandons \/ SweepDeletes \/ SweepPurges
  PROVE  FilmTypes'
<1>1. ASSUME NEW k \in {"probe", "transcode", "purge"}, Insert(k)
      PROVE  kind' \in [Job -> {"none", "probe", "transcode", "purge"}]
  BY <1>1 DEF Insert, FilmTypes
<1>2. CASE PutProbe \/ PutTranscode \/ Delete \/ SweepPurges
  BY <1>1, <1>2 DEF PutProbe, PutTranscode, Delete, SweepPurges, PutStep, FilmTypes
<1>3. CASE PutCheck \/ PutStore \/ PutComplete \/ PutQueue
  BY ZenonT(60), <1>3 DEF PutCheck, PutStore, PutComplete, PutQueue, PutStep, NoInsert, FilmTypes, Asset, Store
<1>4. CASE PutFails \/ DeleteMarks \/ SweepAbandons \/ SweepDeletes
  BY ZenonT(60), <1>4 DEF PutFails, DeleteMarks, SweepAbandons, SweepDeletes, NoInsert, FilmTypes, Asset, Store
<1>5. QED
  BY <1>2, <1>3, <1>4

LEMMA PcTypes ==
  ASSUME FilmTypes, NEW s \in Slot, NEW k, NEW here,
         NEW there \in {"start", "measure", "begin", "download", "stage", "wipe", "list",
                        "copy", "clean", "drop", "insert", "ready",
                        "delete", "prefix", "mark", "end"}, Step(s, k, here, there)
  PROVE  /\ kind' = kind /\ put' = put /\ del' = del /\ sweep' = sweep
         /\ pc' \in [Slot -> {"off", "start", "measure", "begin", "download", "stage", "wipe", "list",
                              "copy", "clean", "drop", "insert", "ready",
                              "delete", "prefix", "mark", "end"}]
BY DEF Step, NoInsert, api, FilmTypes

LEMMA HandlerTypes ==
  ASSUME FilmTypes, NEW s \in Slot, Handler(s) PROVE FilmTypes'
<1>0. s[1] \in Worker
  BY DEF Slot
<1>1. CASE ProbeStart(s) \/ ProbeMeasure(s) \/ TranscodeRead(s) \/ TranscodeBegin(s)
  BY <1>1, PcTypes DEF ProbeStart, ProbeMeasure, TranscodeRead, TranscodeBegin, FilmTypes, Asset
<1>2. CASE Encode(s)
  BY <1>2, PcTypes DEF Encode, FilmTypes
<1>3. CASE Stage(s)
  BY <1>0, <1>3, PcTypes DEF Stage, FilmTypes, Store
<1>4. CASE Wipe(s) \/ List(s)
  BY <1>0, <1>4, PcTypes DEF Wipe, List, FilmTypes, Store
<1>5. CASE Copy(s)
  BY <1>0, <1>5, PcTypes DEF Copy, FilmTypes, Store
<1>6. CASE Clean(s)
  BY <1>0, <1>6, PcTypes DEF Clean, FilmTypes, Store
<1>7. CASE DropVariants(s) \/ InsertVariants(s) \/ Ready(s)
  BY ZenonT(60), <1>7, PcTypes DEF DropVariants, InsertVariants, Ready, FilmTypes, Asset
<1>8. CASE PurgeRead(s) \/ PurgeOriginal(s)
  BY <1>8, PcTypes DEF PurgeRead, PurgeOriginal, FilmTypes, Store
<1>9. CASE PurgePrefix(s) \/ PurgeMark(s)
  <2>1. CASE PurgePrefix(s)
    <3>1. store' \in Store
      BY <2>1 DEF PurgePrefix, FilmTypes, Store
    <3>2. QED
      BY <2>1, <3>1, PcTypes DEF PurgePrefix, FilmTypes
  <2>2. CASE PurgeMark(s)
    BY <2>2, PcTypes DEF PurgeMark, FilmTypes, Asset
  <2>3. QED
    BY <1>9, <2>1, <2>2
<1>10. QED
  BY <1>1, <1>2, <1>3, <1>4, <1>5, <1>6, <1>7, <1>8, <1>9 DEF Handler

LEMMA ForgetsTypes ==
  ASSUME FilmTypes, Forgets, asset' \in Asset PROVE FilmTypes'
BY DEF Forgets, FilmTypes, api

LEMMA NextTypes == ASSUME FilmTypes, [PipelineNext]_pipelineVars PROVE FilmTypes'
<1>1. CASE UNCHANGED pipelineVars
  BY <1>1 DEF pipelineVars, FilmTypes
<1>2. ASSUME NEW s \in Slot, Queue(s) \/ HandlerEnds(s) \/ BuryFilm(s) PROVE FilmTypes'
  <2>1. Forgets /\ asset' \in Asset
    BY <1>2 DEF Queue, HandlerEnds, BuryFilm, FilmTypes, Asset
  <2>2. QED
    BY <2>1, ForgetsTypes
<1>3. ASSUME NEW j \in Job, LeaseRunsOut(j) PROVE FilmTypes'
  BY <1>3 DEF LeaseRunsOut, api, FilmTypes
<1>4. QED
  BY <1>1, <1>2, <1>3, ApiTypes, HandlerTypes DEF PipelineNext, SlotRuns

\* The queue, the rows, the objects and the places of the handlers keep their types.
THEOREM TypeCorrect == PipelineSpec => []PipelineTypeOK
<1>1. PipelineInit => TypeOK /\ HasJob /\ FilmTypes
  BY InitTypes
     DEF PipelineInit, FilmTypes, Asset, Store
<1>2. TypeOK /\ HasJob /\ FilmTypes /\ [PipelineNext]_pipelineVars => TypeOK' /\ HasJob' /\ FilmTypes'
  <2>1. SUFFICES ASSUME TypeOK, HasJob, FilmTypes, [PipelineNext]_pipelineVars
                 PROVE  TypeOK' /\ HasJob' /\ FilmTypes'
    OBVIOUS
  <2>2. [Next]_vars
    <3>1. Next \/ UNCHANGED vars
      BY <2>1, NextQueue
    <3>2. Next <=> Next
      BY DEF Next, Job, Slot
    <3>3. QED
      BY <3>1, <3>2 DEF vars
  <2>3. QED
    BY <2>1, <2>2, TypeStep, NextTypes
<1>3. TypeOK /\ FilmTypes => PipelineTypeOK
  BY DEF FilmTypes, PipelineTypeOK
<1>4. QED
  BY <1>1, <1>2, <1>3, PTL DEF PipelineSpec

-----------------------------------------------------------------------------
(* The film. *)

IsTranscode(s) == kind[run[s].job] = "transcode"
Transcodes(s)  == run[s].at = "working" /\ IsTranscode(s)

\* There is one transcode of the film, and its purge stays inserted.
Kinds ==
  /\ \A j \in Job : row[j].status = "absent" => kind[j] = "none"
  /\ \A i, j \in Job : kind[i] = "transcode" /\ kind[j] = "transcode" => i = j
  /\ Inserted("transcode") => asset.completed /\ put = "idle"
  /\ put \in {"completed", "queued", "probed"} => asset.completed

\* What a transcode has done by the time it is somewhere.
Stages(s) ==
  /\ pc[s] \in {"download", "stage", "wipe", "list", "copy", "clean", "drop", "insert", "ready"}
       => asset.status # "ready"
  /\ pc[s] = "stage" => store.staged[s[1]] \cup todo[s] = File
  /\ pc[s] \in {"wipe", "list", "copy"} => store.staged[s[1]] = File
  /\ pc[s] = "copy" => store.published \cup todo[s] = File
  /\ pc[s] \in {"clean", "drop", "insert", "ready", "end"} => store.published = File
  /\ pc[s] \in {"ready", "end"} => asset.variants
  /\ pc[s] = "end" => asset.master

\* Until it is deleted or abandoned, a film that is ready, or whose transcode has ended or was
\* marked done, is whole.
Film ==
  ~Unwanted =>
    /\ asset.status = "ready" => Whole
    /\ \A j \in Job : kind[j] = "transcode" /\ row[j].status = "succeeded" => Whole /\ asset.master
    /\ \A s \in Slot : Transcodes(s) => Stages(s)
    /\ \A s \in Slot : run[s].at = "done" /\ IsTranscode(s) => Whole /\ asset.master

Inv == QueueInv /\ FilmTypes /\ Kinds /\ Film

\* A run that works has a job, whose row is running.
LEMMA RunsJob ==
  ASSUME Inv, NEW s \in Slot, run[s].at \in {"working", "done"}
  PROVE  run[s].job \in Job /\ row[run[s].job].status = "running"
<1>1. s \in Slot /\ run[s].at # "idle" /\ run[s].at \notin {"idle", "claiming"}
  OBVIOUS
<1>2. run[s].job \in Job
  BY <1>1 DEF Inv, QueueInv, HasJob
<1>3. QED
  BY <1>1, <1>2 DEF Inv, QueueInv, OneRun, Owned

\* While a transcode works, no other run has it, and it is not marked done.
LEMMA OneTranscode ==
  ASSUME Inv, NEW s \in Slot, Transcodes(s)
  PROVE  /\ \A t \in Slot : run[t].at \in {"working", "done"} /\ IsTranscode(t) => t = s
         /\ \A j \in Job : kind[j] = "transcode" => row[j].status = "running"
<1>1. run[s].job \in Job /\ row[run[s].job].status = "running" /\ run[s].at # "idle"
  BY RunsJob DEF Transcodes
<1>2. \A j \in Job : kind[j] = "transcode" => j = run[s].job
  BY <1>1 DEF Inv, Kinds, Transcodes, IsTranscode
<1>3. ASSUME NEW t \in Slot, run[t].at \in {"working", "done"}, IsTranscode(t) PROVE t = s
  <2>1. run[t].job = run[s].job /\ run[t].at # "idle"
    BY <1>2, <1>3, RunsJob DEF IsTranscode
  <2>2. QED
    BY <1>1, <2>1 DEF Inv, QueueInv, OneRun
<1>4. QED
  BY <1>1, <1>2, <1>3

\* A purge works only for a film that is unwanted.
LEMMA PurgeUnwanted ==
  ASSUME Inv, NEW s \in Slot, Works(s, "purge", pc[s]) PROVE Unwanted
BY RunsJob DEF Works, Unwanted, Inserted

\* Steps that leave the queue and the published film alone, and do not call it ready.
LEMMA FilmSame ==
  ASSUME Inv, UNCHANGED <<row, run, kind>>,
         \A s \in Slot : Transcodes(s) => pc'[s] = pc[s] /\ todo'[s] = todo[s],
         store'.published = store.published, store'.staged = store.staged,
         asset'.variants = asset.variants, asset'.master = asset.master,
         asset'.status = asset.status \/ asset'.status # "ready",
         asset.abandoned => asset'.abandoned
  PROVE  Film'
<1>1. ~Unwanted' => ~Unwanted
  BY DEF Unwanted, Inserted
<1>2. SUFFICES ASSUME ~Unwanted, ~Unwanted'
               PROVE  /\ asset'.status = "ready" => Whole'
                      /\ \A j \in Job : kind[j] = "transcode" /\ row[j].status = "succeeded"
                           => Whole' /\ asset'.master
                      /\ \A s \in Slot : Transcodes(s) => Stages(s)'
                      /\ \A s \in Slot : run[s].at = "done" /\ IsTranscode(s) => Whole' /\ asset'.master
  BY <1>1 DEF Film, Transcodes, IsTranscode
<1>3. Whole' <=> Whole
  BY DEF Whole
<1>4. \A s \in Slot : Transcodes(s) /\ Stages(s) => Stages(s)'
  BY DEF Stages
<1>5. QED
  BY <1>2, <1>3, <1>4 DEF Inv, Film

\* What is unwanted stays so.
LEMMA UnwantedFilm == ASSUME Unwanted' PROVE Film'
BY DEF Film

\* A job is inserted: it has no run yet.
LEMMA InsertFilm ==
  ASSUME Inv, NEW k \in {"probe", "transcode"}, Insert(k),
         UNCHANGED <<pc, todo, asset, store>>,
         k = "transcode" => put = "probed" /\ put' = "idle",
         k = "probe" => put = "queued" /\ put' = "probed"
  PROVE  Kinds' /\ Film' /\ QueueInv'
<1>1. PICK j \in Job : Enqueue(j) /\ kind' = [kind EXCEPT ![j] = k]
  BY DEF Insert
<1>2. /\ row[j].status = "absent" /\ row' = [row EXCEPT ![j].status = "pending"] /\ run' = run
      /\ row \in [Job -> Row] /\ kind[j] = "none" /\ kind \in [Job -> {"none", "probe", "transcode", "purge"}]
      /\ kind'[j] = k /\ \A i \in Job : i # j => kind'[i] = kind[i] /\ row'[i] = row[i]
  <2>1. /\ row[j].status = "absent" /\ row' = [row EXCEPT ![j].status = "pending"] /\ run' = run
    BY <1>1 DEF Enqueue
  <2>2. row \in [Job -> Row]
    BY DEF Inv, QueueInv, TypeOK, Job
  <2>3. kind[j] = "none" /\ kind \in [Job -> {"none", "probe", "transcode", "purge"}]
    BY <2>1 DEF Inv, Kinds, FilmTypes
  <2>4. QED
    BY <1>1, <2>1, <2>2, <2>3
<1>3. row'[j].status = "pending"
  BY <1>2 DEF Row
<1>4. QueueInv'
  BY <1>1, JobStep DEF Inv
<1>5. ~Inserted("transcode") /\ asset.completed
  BY DEF Inv, Kinds
<1>6. Kinds'
  <2>1. \A i \in Job : row'[i].status = "absent" => kind'[i] = "none"
    BY <1>2, <1>3 DEF Inv, Kinds
  <2>2. \A i, l \in Job : kind'[i] = "transcode" /\ kind'[l] = "transcode" => i = l
    BY <1>2, <1>5 DEF Inserted
  <2>3. Inserted("transcode")' => asset'.completed /\ put' = "idle"
    BY <1>2, <1>5 DEF Inserted
  <2>4. QED
    BY <1>5, <2>1, <2>2, <2>3 DEF Kinds
<1>7. Film'
  <2>1. \A s \in Slot : run[s].at \in {"working", "done"} => run[s].job # j /\ run[s].job \in Job
    BY <1>2, RunsJob
  <2>2. Unwanted' = Unwanted
    BY <1>2 DEF Unwanted, Inserted
  <2>3. \A s \in Slot : /\ Transcodes(s)' = Transcodes(s)
                        /\ (run[s].at = "done" /\ IsTranscode(s))' = (run[s].at = "done" /\ IsTranscode(s))
                        /\ Stages(s)' = Stages(s)
    BY <1>2, <2>1 DEF Transcodes, IsTranscode, Stages
  <2>4. Whole' = Whole
    BY DEF Whole
  <2>5. \A i \in Job : kind'[i] = "transcode" /\ row'[i].status = "succeeded"
          => kind[i] = "transcode" /\ row[i].status = "succeeded"
    BY <1>2, <1>3
  <2>6. QED
    BY <2>2, <2>3, <2>4, <2>5 DEF Inv, Film
<1>8. QED
  BY <1>4, <1>6, <1>7

\* The purge is inserted.
LEMMA InsertPurge ==
  ASSUME Inv, Insert("purge"), UNCHANGED <<put, asset>>
  PROVE  Kinds' /\ Film' /\ QueueInv'
<1>1. PICK j \in Job : Enqueue(j) /\ kind' = [kind EXCEPT ![j] = "purge"]
  BY DEF Insert
<1>2. /\ row[j].status = "absent" /\ row' = [row EXCEPT ![j].status = "pending"]
      /\ row \in [Job -> Row] /\ kind[j] = "none"
      /\ kind'[j] = "purge" /\ \A i \in Job : i # j => kind'[i] = kind[i] /\ row'[i] = row[i]
  <2>1. row[j].status = "absent" /\ row' = [row EXCEPT ![j].status = "pending"]
    BY <1>1 DEF Enqueue
  <2>2. row \in [Job -> Row]
    BY DEF Inv, QueueInv, TypeOK, Job
  <2>3. kind[j] = "none" /\ kind \in [Job -> {"none", "probe", "transcode", "purge"}]
    BY <2>1 DEF Inv, Kinds, FilmTypes
  <2>4. QED
    BY <1>1, <2>1, <2>2, <2>3
<1>3. row'[j].status = "pending"
  BY <1>2 DEF Row
<1>4. QueueInv'
  BY <1>1, JobStep DEF Inv
<1>5. Kinds'
  <2>1. Inserted("transcode")' => Inserted("transcode")
    BY <1>2 DEF Inserted
  <2>2. \A i \in Job : row'[i].status = "absent" => kind'[i] = "none"
    BY <1>2, <1>3 DEF Inv, Kinds
  <2>3. \A i, l \in Job : kind'[i] = "transcode" /\ kind'[l] = "transcode" => i = l
    BY <1>2 DEF Inv, Kinds
  <2>4. QED
    BY <2>1, <2>2, <2>3 DEF Inv, Kinds
<1>6. Film'
  <2>1. Unwanted'
    BY <1>2 DEF Unwanted, Inserted
  <2>2. QED
    BY <2>1, UnwantedFilm
<1>7. QED
  BY <1>4, <1>5, <1>6

\* Steps that insert nothing.
LEMMA KindsSame ==
  ASSUME Inv, UNCHANGED kind, \A j \in Job : row'[j].status = "absent" => row[j].status = "absent",
         asset.completed => asset'.completed,
         put' = put \/ (put' = "idle") \/ (put = "idle" /\ ~asset.completed /\ put' = "checked")
           \/ (put # "idle" /\ (put' \in {"completed", "queued", "probed"} => asset'.completed))
  PROVE  Kinds'
<1>1. Inserted("transcode") => asset'.completed /\ put' = "idle"
  BY DEF Inv, Kinds
<1>2. put' \in {"completed", "queued", "probed"} => asset'.completed
  BY DEF Inv, Kinds
<1>3. QED
  BY <1>1, <1>2 DEF Inv, Kinds, Inserted

LEMMA QueueSame == ASSUME QueueInv, UNCHANGED vars PROVE QueueInv'
BY DEF QueueInv, vars, TypeOK, HasJob, OneRun, Owned, Claimable

LEMMA ApiFilm ==
  ASSUME Inv,
         \/ PutCheck \/ PutStore \/ PutComplete \/ PutQueue \/ PutProbe \/ PutTranscode \/ PutFails
         \/ Delete \/ DeleteMarks \/ SweepAbandons \/ SweepDeletes \/ SweepPurges
  PROVE  Kinds' /\ Film' /\ QueueInv'
<1>0. asset \in Asset /\ store \in Store
  BY DEF Inv, FilmTypes
<1>1. CASE PutProbe
  BY <1>1, InsertFilm DEF PutProbe, PutStep
<1>2. CASE PutTranscode
  BY <1>2, InsertFilm DEF PutTranscode, PutStep
<1>3. CASE Delete \/ SweepPurges
  BY <1>3, InsertPurge DEF Delete, SweepPurges
<1>4. CASE PutCheck \/ PutStore \/ PutComplete \/ PutQueue
  <2>1. /\ UNCHANGED <<vars, kind, pc, todo>>
        /\ store'.published = store.published /\ store'.staged = store.staged
        /\ asset'.variants = asset.variants /\ asset'.master = asset.master
        /\ asset'.status = asset.status \/ asset'.status # "ready"
        /\ asset'.abandoned = asset.abandoned /\ (asset.completed => asset'.completed)
    BY <1>0, <1>4 DEF PutCheck, PutStore, PutComplete, PutQueue, PutStep, NoInsert, Asset, Store
  <2>2. Film'
    BY <2>1, FilmSame DEF vars
  <2>3. \/ put = "idle" /\ ~asset.completed /\ put' = "checked"
        \/ put # "idle" /\ (put' \in {"completed", "queued", "probed"} => asset'.completed)
    <3>1. put \in {"completed", "queued", "probed"} => asset.completed
      BY DEF Inv, Kinds
    <3>2. QED
      BY <1>0, <1>4, <3>1 DEF PutCheck, PutStore, PutComplete, PutQueue, PutStep, Asset
  <2>4. Kinds'
    BY <2>1, <2>3, KindsSame DEF vars
  <2>5. QED
    BY <2>1, <2>2, <2>4, QueueSame DEF Inv
<1>5. CASE PutFails \/ DeleteMarks \/ SweepAbandons \/ SweepDeletes
  <2>1. /\ UNCHANGED <<vars, kind, pc, todo>>
        /\ store'.published = store.published /\ store'.staged = store.staged
        /\ asset'.variants = asset.variants /\ asset'.master = asset.master
        /\ asset'.status = asset.status \/ asset'.status # "ready"
        /\ asset.abandoned => asset'.abandoned
        /\ asset'.completed = asset.completed
        /\ put' = put \/ put' = "idle"
    BY <1>0, <1>5 DEF PutFails, DeleteMarks, SweepAbandons, SweepDeletes, NoInsert, Asset, Store
  <2>2. Film'
    BY <2>1, FilmSame DEF vars
  <2>3. Kinds'
    BY <2>1, KindsSame DEF vars
  <2>4. QED
    BY <2>1, <2>2, <2>3, QueueSame DEF Inv
<1>6. QED
  BY <1>1, <1>2, <1>3, <1>4, <1>5

-----------------------------------------------------------------------------
(* The handlers. *)

\* What every step of a handler leaves alone.
LEMMA StepSame ==
  ASSUME Inv, NEW s \in Slot, NEW k, NEW here, NEW there, Step(s, k, here, there)
  PROVE  /\ run[s].at = "working" /\ kind[run[s].job] = k /\ pc[s] = here /\ pc'[s] = there
         /\ \A t \in Slot : t # s => pc'[t] = pc[t]
         /\ UNCHANGED <<row, run, faults, kind, put>> /\ QueueInv'
<1>1. UNCHANGED vars
  BY DEF Step, NoInsert
<1>2. pc' = [pc EXCEPT ![s] = there] /\ pc[s] = here
  BY DEF Step, Works
<1>3. QED
  BY <1>1, <1>2, QueueSame DEF Step, Works, NoInsert, vars, api, Inv, FilmTypes

\* A step of a transcode keeps the film if it leaves that transcode where it says it is.
LEMMA TranscodeFilm ==
  ASSUME Inv, NEW s \in Slot, Transcodes(s), UNCHANGED <<row, run, kind>>,
         asset.abandoned = asset'.abandoned,
         ~Unwanted => Stages(s)',
         ~Unwanted /\ asset'.status = "ready" => Whole'
  PROVE  Film'
<1>1. Unwanted' = Unwanted
  BY DEF Unwanted, Inserted
<1>2. /\ \A t \in Slot : run[t].at \in {"working", "done"} /\ IsTranscode(t) => t = s
      /\ \A j \in Job : kind[j] = "transcode" => row[j].status = "running"
      /\ run[s].at = "working"
  BY OneTranscode DEF Transcodes
<1>3. \A t \in Slot : Transcodes(t)' => t = s
  BY <1>2 DEF Transcodes, IsTranscode
<1>4. \A t \in Slot : ~(run'[t].at = "done" /\ IsTranscode(t)')
  BY <1>2 DEF IsTranscode
<1>5. \A j \in Job : ~(kind'[j] = "transcode" /\ row'[j].status = "succeeded")
  BY <1>2
<1>6. QED
  BY <1>1, <1>3, <1>4, <1>5 DEF Film

LEMMA HandlerFilm ==
  ASSUME Inv, NEW s \in Slot, Handler(s)
  PROVE  Kinds' /\ Film' /\ QueueInv'
<1>0. /\ asset \in Asset /\ store \in Store /\ todo \in [Slot -> SUBSET File]
      /\ s[1] \in Worker /\ store.staged[s[1]] \subseteq File /\ store.published \subseteq File
  <2>1. s[1] \in Worker
    BY DEF Slot
  <2>2. QED
    BY <2>1 DEF Inv, FilmTypes, Store
<1>1. /\ QueueInv' /\ UNCHANGED <<row, run, kind, put>> /\ run[s].at = "working"
      /\ asset'.completed = asset.completed /\ asset'.abandoned = asset.abandoned
  <2>1. PICK k \in {"probe", "transcode", "purge"} : \E here, there : Step(s, k, here, there)
    BY DEF Handler, ProbeStart, ProbeMeasure, TranscodeRead, TranscodeBegin, Encode, Stage,
           Wipe, List, Copy, Clean, DropVariants, InsertVariants, Ready, PurgeRead,
           PurgeOriginal, PurgePrefix, PurgeMark
  <2>2. asset'.completed = asset.completed /\ asset'.abandoned = asset.abandoned
    BY <1>0 DEF Handler, ProbeStart, ProbeMeasure, TranscodeRead, TranscodeBegin, Encode, Stage,
           Wipe, List, Copy, Clean, DropVariants, InsertVariants, Ready, PurgeRead,
           PurgeOriginal, PurgePrefix, PurgeMark, Asset
  <2>3. QED
    BY <2>1, <2>2, StepSame
<1>2. Kinds'
  BY <1>1, KindsSame
<1>3. ASSUME NEW k, NEW here, NEW there, Step(s, k, here, there), k = "transcode"
      PROVE  Transcodes(s) /\ pc[s] = here /\ pc'[s] = there /\ (~Unwanted => Stages(s))
  <2>1. Transcodes(s) /\ pc[s] = here /\ pc'[s] = there
    BY <1>3, StepSame DEF Transcodes, IsTranscode
  <2>2. QED
    BY <2>1 DEF Inv, Film
<1>4. CASE ProbeStart(s) \/ ProbeMeasure(s)
  <2>1. PICK here, there : Step(s, "probe", here, there)
    BY <1>4 DEF ProbeStart, ProbeMeasure
  <2>2. ~Transcodes(s) /\ \A t \in Slot : t # s => pc'[t] = pc[t]
    BY <2>1, StepSame DEF Transcodes, IsTranscode
  <2>3. /\ todo' = todo /\ store' = store
        /\ asset'.variants = asset.variants /\ asset'.master = asset.master
        /\ asset'.status = asset.status \/ asset'.status # "ready"
    BY <1>0, <1>4 DEF ProbeStart, ProbeMeasure, Asset
  <2>4. QED
    BY <1>1, <1>2, <2>2, <2>3, FilmSame
<1>5. CASE PurgeRead(s) \/ PurgeOriginal(s) \/ PurgePrefix(s) \/ PurgeMark(s)
  <2>1. PICK here, there : Step(s, "purge", here, there)
    BY <1>5 DEF PurgeRead, PurgeOriginal, PurgePrefix, PurgeMark
  <2>2. Unwanted
    BY <2>1, PurgeUnwanted DEF Step, Works
  <2>3. Unwanted'
    BY <1>1, <2>2 DEF Unwanted, Inserted
  <2>4. QED
    BY <1>1, <1>2, <2>3, UnwantedFilm
<1>6. CASE TranscodeRead(s)
  <2>1. Transcodes(s) /\ pc'[s] = "begin" /\ UNCHANGED <<todo, asset, store>>
    BY <1>3, <1>6 DEF TranscodeRead
  <2>2. Stages(s)'
    BY <2>1 DEF Stages
  <2>3. ~Unwanted /\ asset'.status = "ready" => Whole'
    BY <2>1 DEF Inv, Film, Whole
  <2>4. QED
    BY <1>1, <1>2, <2>1, <2>2, <2>3, TranscodeFilm
<1>7. CASE TranscodeBegin(s)
  <2>1. Transcodes(s) /\ pc'[s] = "download" /\ asset'.status = "transcoding"
    BY <1>0, <1>3, <1>7 DEF TranscodeBegin, Asset
  <2>2. Stages(s)'
    BY <2>1 DEF Stages
  <2>3. QED
    BY <1>1, <1>2, <2>1, <2>2, TranscodeFilm
<1>8. CASE Encode(s)
  <2>1. /\ Transcodes(s) /\ pc[s] = "download" /\ pc'[s] = "stage" /\ (~Unwanted => Stages(s))
        /\ todo'[s] = File /\ UNCHANGED <<asset, store>>
    BY <1>0, <1>3, <1>8 DEF Encode
  <2>2. ~Unwanted => Stages(s)' /\ asset'.status # "ready"
    BY <1>0, <2>1 DEF Stages
  <2>3. QED
    BY <1>1, <1>2, <2>1, <2>2, TranscodeFilm
<1>9. CASE Stage(s)
  <2>1. PICK f \in todo[s] :
          /\ Step(s, "transcode", "stage", IF todo[s] = {f} THEN "wipe" ELSE "stage")
          /\ store' = [store EXCEPT !.staged[s[1]] = @ \cup {f}]
          /\ todo' = [todo EXCEPT ![s] = @ \ {f}]
          /\ UNCHANGED asset
    BY <1>9 DEF Stage
  <2>2. /\ Transcodes(s) /\ pc[s] = "stage" /\ (~Unwanted => Stages(s))
        /\ pc'[s] = IF todo[s] = {f} THEN "wipe" ELSE "stage"
    BY <1>3, <2>1
  <2>3. /\ store'.staged[s[1]] = store.staged[s[1]] \cup {f} /\ todo'[s] = todo[s] \ {f}
        /\ f \in File
    BY <1>0, <2>1 DEF Store
  <2>4. ~Unwanted => Stages(s)' /\ asset'.status # "ready"
    <3>1. HAVE ~Unwanted
    <3>2. store.staged[s[1]] \cup todo[s] = File /\ asset.status # "ready"
      BY <2>2, <3>1 DEF Stages
    <3>3. store'.staged[s[1]] \cup todo'[s] = File
      BY <1>0, <2>3, <3>2
    <3>4. todo[s] = {f} => store'.staged[s[1]] = File
      BY <1>0, <2>3, <3>2
    <3>5. QED
      BY <2>1, <2>2, <3>2, <3>3, <3>4 DEF Stages
  <2>5. QED
    BY <1>1, <1>2, <2>1, <2>2, <2>4, TranscodeFilm
<1>10. CASE Wipe(s)
  <2>1. /\ Transcodes(s) /\ pc[s] = "wipe" /\ pc'[s] = "list" /\ (~Unwanted => Stages(s))
        /\ store'.staged = store.staged /\ UNCHANGED <<todo, asset>>
    BY <1>0, <1>3, <1>10 DEF Wipe, Store
  <2>2. ~Unwanted => Stages(s)' /\ asset'.status # "ready"
    BY <2>1 DEF Stages
  <2>3. QED
    BY <1>1, <1>2, <2>1, <2>2, TranscodeFilm
<1>11. CASE List(s)
  <2>1. /\ Transcodes(s) /\ pc[s] = "list" /\ (~Unwanted => Stages(s))
        /\ pc'[s] = (IF store.staged[s[1]] = {} THEN "clean" ELSE "copy")
        /\ todo'[s] = store.staged[s[1]] /\ UNCHANGED <<asset, store>>
    BY <1>0, <1>3, <1>11 DEF List
  <2>2. ~Unwanted => Stages(s)' /\ asset'.status # "ready"
    <3>1. HAVE ~Unwanted
    <3>2. store.staged[s[1]] = File /\ asset.status # "ready"
      BY <2>1, <3>1 DEF Stages
    <3>3. File = {} => store.published = File
      BY <1>0
    <3>4. store.published \cup todo'[s] = File
      BY <1>0, <2>1, <3>2
    <3>5. QED
      BY <2>1, <3>2, <3>3, <3>4 DEF Stages
  <2>3. QED
    BY <1>1, <1>2, <2>1, <2>2, TranscodeFilm
<1>12. CASE Copy(s)
  <2>1. PICK f \in todo[s] \cap store.staged[s[1]] :
          /\ Step(s, "transcode", "copy", IF todo[s] = {f} THEN "clean" ELSE "copy")
          /\ store' = [store EXCEPT !.published = @ \cup {f}]
          /\ todo' = [todo EXCEPT ![s] = @ \ {f}]
          /\ UNCHANGED asset
    BY <1>12 DEF Copy
  <2>2. /\ Transcodes(s) /\ pc[s] = "copy" /\ (~Unwanted => Stages(s))
        /\ pc'[s] = IF todo[s] = {f} THEN "clean" ELSE "copy"
    BY <1>3, <2>1
  <2>3. /\ store'.staged = store.staged /\ store'.published = store.published \cup {f}
        /\ todo'[s] = todo[s] \ {f} /\ f \in File
    BY <1>0, <2>1 DEF Store
  <2>4. ~Unwanted => Stages(s)' /\ asset'.status # "ready"
    <3>1. HAVE ~Unwanted
    <3>2. /\ store.published \cup todo[s] = File /\ asset.status # "ready"
          /\ store.staged[s[1]] = File
      BY <2>2, <3>1 DEF Stages
    <3>3. store'.published \cup todo'[s] = File
      BY <1>0, <2>3, <3>2
    <3>4. todo[s] = {f} => store'.published = File
      BY <1>0, <2>3, <3>2
    <3>5. QED
      BY <2>1, <2>2, <2>3, <3>2, <3>3, <3>4 DEF Stages
  <2>5. QED
    BY <1>1, <1>2, <2>1, <2>2, <2>4, TranscodeFilm
<1>13. CASE Clean(s)
  <2>1. /\ Transcodes(s) /\ pc[s] = "clean" /\ pc'[s] = "drop" /\ (~Unwanted => Stages(s))
        /\ store'.published = store.published /\ UNCHANGED <<todo, asset>>
    BY <1>0, <1>3, <1>13 DEF Clean, Store
  <2>2. ~Unwanted => Stages(s)' /\ asset'.status # "ready"
    BY <2>1 DEF Stages
  <2>3. QED
    BY <1>1, <1>2, <2>1, <2>2, TranscodeFilm
<1>14. CASE DropVariants(s) \/ InsertVariants(s)
  <2>1. /\ Transcodes(s) /\ (~Unwanted => Stages(s)) /\ UNCHANGED <<todo, store>>
        /\ \/ pc[s] = "drop" /\ pc'[s] = "insert"
           \/ pc[s] = "insert" /\ pc'[s] = "ready" /\ asset'.variants
        /\ asset'.status = asset.status
    BY <1>0, <1>3, <1>14 DEF DropVariants, InsertVariants, Asset
  <2>2. ~Unwanted => Stages(s)' /\ asset'.status # "ready"
    BY <2>1 DEF Stages
  <2>3. QED
    BY <1>1, <1>2, <2>1, <2>2, TranscodeFilm
<1>15. CASE Ready(s)
  <2>1. /\ Transcodes(s) /\ pc[s] = "ready" /\ pc'[s] = "end" /\ (~Unwanted => Stages(s))
        /\ asset'.master /\ asset'.variants = asset.variants /\ UNCHANGED <<todo, store>>
    BY <1>0, <1>3, <1>15 DEF Ready, Asset
  <2>2. ~Unwanted => Stages(s)' /\ Whole'
    BY <2>1 DEF Stages, Whole
  <2>3. QED
    BY <1>1, <1>2, <2>1, <2>2, TranscodeFilm
<1>16. QED
  BY <1>4, <1>5, <1>6, <1>7, <1>8, <1>9, <1>10, <1>11, <1>12, <1>13, <1>14, <1>15 DEF Handler

-----------------------------------------------------------------------------
(* The queue around them. *)

\* A run begins its handler at the start, and ends it where the handler ends.
LEMMA SlotFilm ==
  ASSUME Inv, NEW s \in Slot, Runs(s) \/ Die(s), Forgets,
         asset' = [asset EXCEPT !.status = asset'.status],
         asset'.status = asset.status \/ asset'.status = "failed",
         Handled(s) /\ run'[s].at = "done" => pc[s] = "end"
  PROVE  Kinds' /\ Film' /\ QueueInv'
<1>1. QueueInv'
  BY SlotStep DEF Inv
<1>2. /\ \A t \in Slot : run'[t].at \in {"working", "done"} => run'[t].job = run[t].job
      /\ \A t \in Slot : run'[t].at = "done" =>
           run[t].at = "done" \/ (t = s /\ run[t].at = "working" /\ Handled(s))
      /\ \A j \in Job : row'[j].status = "succeeded" =>
           row[j].status = "succeeded" \/ (MarkSuccess(s) /\ run[s].job = j)
      /\ \A j \in Job : row'[j].status = "absent" => row[j].status = "absent"
  <2>1. TypeOK /\ HasJob /\ s \in Slot /\ (Runs(s) \/ Die(s))
    BY DEF Inv, QueueInv
  <2>2. QED
    BY <2>1, Moves
<1>3. /\ UNCHANGED <<kind, store, put, del, sweep>>
      /\ \A t \in Slot : pc'[t] = IF run'[t].at # "working" THEN "off"
                                  ELSE IF run[t].at = "working" THEN pc[t] ELSE "start"
      /\ \A t \in Slot : run'[t].at = "working" => todo'[t] = todo[t]
  BY DEF Forgets, api
<1>4. /\ asset'.variants = asset.variants /\ asset'.master = asset.master
      /\ asset'.completed = asset.completed /\ asset'.abandoned = asset.abandoned
      /\ asset'.status = "ready" => asset.status = "ready"
  <2>1. asset \in Asset
    BY DEF Inv, FilmTypes
  <2>2. QED
    BY <2>1 DEF Asset
<1>5. Kinds'
  BY <1>2, <1>3, <1>4, KindsSame
<1>6. Film'
  <2>1. Unwanted' = Unwanted /\ Whole' = Whole
    BY <1>3, <1>4 DEF Unwanted, Inserted, Whole
  <2>2. SUFFICES ASSUME ~Unwanted
                 PROVE  /\ asset'.status = "ready" => Whole
                        /\ \A j \in Job : kind[j] = "transcode" /\ row'[j].status = "succeeded"
                             => Whole /\ asset'.master
                        /\ \A t \in Slot : Transcodes(t)' => Stages(t)'
                        /\ \A t \in Slot : run'[t].at = "done" /\ IsTranscode(t)' => Whole /\ asset'.master
    BY <1>3, <2>1 DEF Film
  <2>3. asset'.status = "ready" => Whole
    BY <1>4, <2>2 DEF Inv, Film
  <2>4. ASSUME NEW j \in Job, kind[j] = "transcode", row'[j].status = "succeeded"
        PROVE  Whole /\ asset'.master
    <3>1. CASE row[j].status = "succeeded"
      BY <1>4, <2>2, <2>4, <3>1 DEF Inv, Film
    <3>2. CASE MarkSuccess(s) /\ run[s].job = j
      <4>1. run[s].at = "done" /\ IsTranscode(s)
        BY <2>4, <3>2 DEF MarkSuccess, At, IsTranscode
      <4>2. QED
        BY <1>4, <2>2, <4>1 DEF Inv, Film
    <3>3. QED
      BY <1>2, <2>4, <3>1, <3>2
  <2>5. ASSUME NEW t \in Slot, Transcodes(t)' PROVE Stages(t)'
    <3>1. run'[t].at = "working" /\ kind[run[t].job] = "transcode"
      BY <1>2, <1>3, <2>5 DEF Transcodes, IsTranscode
    <3>2. CASE run[t].at = "working"
      <4>1. Stages(t) /\ pc'[t] = pc[t] /\ todo'[t] = todo[t]
        BY <1>3, <2>2, <3>1, <3>2 DEF Inv, Film, Transcodes, IsTranscode
      <4>2. QED
        BY <1>3, <1>4, <4>1 DEF Stages
    <3>3. CASE run[t].at # "working"
      <4>1. pc'[t] = "start"
        BY <1>3, <3>1, <3>3
      <4>2. QED
        BY <4>1 DEF Stages
    <3>4. QED
      BY <3>2, <3>3
  <2>6. ASSUME NEW t \in Slot, run'[t].at = "done", IsTranscode(t)' PROVE Whole /\ asset'.master
    <3>1. kind[run[t].job] = "transcode"
      BY <1>2, <1>3, <2>6 DEF IsTranscode
    <3>2. CASE run[t].at = "done"
      BY <1>4, <2>2, <3>1, <3>2 DEF Inv, Film, IsTranscode
    <3>3. CASE t = s /\ run[t].at = "working" /\ Handled(s)
      <4>1. Transcodes(s) /\ pc[s] = "end"
        BY <2>6, <3>1, <3>3 DEF Transcodes, IsTranscode
      <4>2. Stages(s)
        BY <2>2, <4>1 DEF Inv, Film
      <4>3. QED
        BY <1>4, <4>1, <4>2 DEF Stages, Whole
    <3>4. QED
      BY <1>2, <2>6, <3>2, <3>3
  <2>7. QED
    BY <2>3, <2>4, <2>5, <2>6
<1>7. QED
  BY <1>1, <1>5, <1>6

LEMMA QueueFilm ==
  ASSUME Inv, NEW s \in Slot, Queue(s) \/ HandlerEnds(s) \/ BuryFilm(s)
  PROVE  Kinds' /\ Film' /\ QueueInv'
<1>0. asset \in Asset
  BY DEF Inv, FilmTypes
<1>1. Forgets
  BY DEF Queue, HandlerEnds, BuryFilm
<1>2. /\ asset' = [asset EXCEPT !.status = asset'.status]
      /\ asset'.status = asset.status \/ asset'.status = "failed"
  BY <1>0 DEF Queue, HandlerEnds, BuryFilm, Asset
<1>3. CASE Queue(s)
  <2>1. Runs(s) \/ Die(s)
    BY <1>3 DEF Queue, Runs
  <2>2. Handled(s) /\ run'[s].at = "done" => pc[s] = "end"
    <3>1. Handled(s) => run[s].at = "working" /\ faults' = faults
      BY DEF Handled
    <3>2. Die(s) => faults' = faults + 1 /\ faults \in Nat
      BY DEF Die, Fault, Inv, QueueInv, TypeOK
    <3>3. Queue(s) /\ ~Die(s) => run[s].at # "working"
      BY DEF Queue, Select, Idle, Commit, MarkRunning, MarkSuccess, MarkFail, At
    <3>4. QED
      BY <1>3, <3>1, <3>2, <3>3
  <2>3. QED
    BY <1>1, <1>2, <2>1, <2>2, SlotFilm
<1>4. CASE HandlerEnds(s)
  BY <1>1, <1>2, <1>4, SlotFilm DEF HandlerEnds, Runs
<1>5. CASE BuryFilm(s)
  <2>1. Bury(s) /\ ~Handled(s)
    BY <1>5 DEF BuryFilm, Bury, Handled
  <2>2. QED
    BY <1>1, <1>2, <2>1, SlotFilm DEF Runs
<1>6. QED
  BY <1>3, <1>4, <1>5

\* A step in which no lease runs out under a run: the model's, when Overlap is FALSE; the code's,
\* as long as no job takes longer than LEASE_SEC from its markRunning (lines 203-210).
LeasesLast == \A j \in Job : LeaseRunsOut(j) => \A s \in Slot : run[s].job # j

LEMMA LeaseFilm ==
  ASSUME LeasesLast, Inv, NEW j \in Job, LeaseRunsOut(j)
  PROVE  Kinds' /\ Film' /\ QueueInv'
<1>1. /\ LeaseOver(j) /\ \A s \in Slot : run[s].job # j
      /\ UNCHANGED <<kind, pc, todo, asset, store, put, del, sweep>>
  BY DEF LeasesLast, LeaseRunsOut, api
<1>2. QueueInv'
  BY <1>1, JobStep DEF Inv
<1>3. /\ run' = run
      /\ \A i \in Job : row'[i].status = row[i].status
  <2>1. row \in [Job -> Row]
    BY DEF Inv, QueueInv, TypeOK, Job
  <2>2. run' = run /\ row' = [row EXCEPT ![j].lease = "expired"]
    BY <1>1 DEF LeaseOver
  <2>3. QED
    BY <2>1, <2>2 DEF Row
<1>4. Kinds'
  BY <1>1, <1>3, KindsSame
<1>5. Film'
  BY <1>1, <1>3 DEF Inv, Film, Unwanted, Inserted, Whole, Transcodes, IsTranscode, Stages
<1>6. QED
  BY <1>2, <1>4, <1>5

-----------------------------------------------------------------------------
(* The theorems. *)

LEMMA InvInit == ASSUME PipelineInit PROVE Inv
<1>1. TypeOK /\ HasJob
  BY InitTypes DEF PipelineInit
<1>2. /\ \A s \in Slot : run[s].at = "idle"
      /\ \A j \in Job : row[j].status = "absent" /\ kind[j] = "none"
  BY DEF PipelineInit, Init, Idle, Absent
<1>3. QueueInv
  BY <1>1, <1>2 DEF QueueInv, OneRun
<1>4. FilmTypes
  BY DEF PipelineInit, FilmTypes, Asset, Store
<1>5. Kinds
  BY <1>2 DEF PipelineInit, Kinds, Inserted
<1>6. Film
  BY <1>2 DEF PipelineInit, Film, Transcodes
<1>7. QED
  BY <1>3, <1>4, <1>5, <1>6 DEF Inv

LEMMA InvStep ==
  ASSUME Inv, [PipelineNext]_pipelineVars, [LeasesLast]_pipelineVars PROVE Inv'
<1>1. FilmTypes'
  BY NextTypes DEF Inv
<1>2. CASE UNCHANGED pipelineVars
  <2>1. UNCHANGED <<row, run, faults, kind, pc, todo, asset, store, put>>
    BY <1>2 DEF pipelineVars
  <2>2. Film'
    BY <2>1, FilmSame
  <2>3. QED
    BY <1>1, <2>1, <2>2, QueueSame, KindsSame DEF Inv, vars
<1>3. ASSUME NEW s \in Slot, SlotRuns(s) PROVE Inv'
  BY <1>1, <1>3, HandlerFilm, QueueFilm DEF SlotRuns, Inv
<1>4. ASSUME NEW j \in Job, LeaseRunsOut(j), LeasesLast PROVE Inv'
  BY <1>1, <1>4, LeaseFilm DEF Inv
<1>5. QED
  BY <1>1, <1>2, <1>3, <1>4, ApiFilm DEF PipelineNext, Inv

LEMMA InvAlways == PipelineSpec /\ [][LeasesLast]_pipelineVars => []Inv
<1>1. PipelineInit => Inv
  BY InvInit
<1>2. Inv /\ [PipelineNext]_pipelineVars /\ [LeasesLast]_pipelineVars => Inv'
  BY InvStep
<1>3. QED
  BY <1>1, <1>2, PTL DEF PipelineSpec

\* Overlap = FALSE is such a behaviour.
LEMMA NoOverlapLasts == ASSUME ~Overlap PROVE LeasesLast
BY DEF LeasesLast, LeaseRunsOut

\* While leases last, a film that is ready has all its files published and its variants listed,
\* however often its transcode threw, died half-way or was claimed again (processJob,
\* handleTranscode).
THEOREM ReadyFilms == PipelineSpec /\ [][LeasesLast]_pipelineVars => []ReadyIsWhole
<1>1. Inv => ReadyIsWhole
  BY DEF Inv, Film, ReadyIsWhole
<1>2. QED
  BY <1>1, InvAlways, PTL

\* While leases last, a transcode that is marked done has published the film.
THEOREM DoneFilms == PipelineSpec /\ [][LeasesLast]_pipelineVars => []DoneIsPublished
<1>1. Inv => DoneIsPublished
  BY DEF Inv, Film, DoneIsPublished
<1>2. QED
  BY <1>1, InvAlways, PTL
=============================================================================
