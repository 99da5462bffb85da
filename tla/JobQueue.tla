------------------------------ MODULE JobQueue ------------------------------
(***************************************************************************)
(* Table jobs and the workers that run it                                  *)
(* (src/services/worker/src/index.ts).  A worker process claims the oldest *)
(* claimable job under a lease, runs it, and marks it.  The lease is never *)
(* renewed and no mark asks who holds it, so a run that outlives its lease *)
(* goes on beside the run that took the job over.                          *)
(*                                                                         *)
(* Every query takes effect in the step that sends it and is answered by   *)
(* the next one; a fault is a query that fails, done or not, or the death  *)
(* of a worker process.  What the handlers do to the asset and its files   *)
(* is left out: here a handler takes its time, and succeeds or throws.     *)
(***************************************************************************)
EXTENDS Naturals

CONSTANTS
  Worker,       \* the worker processes
  Concurrency,  \* WORKER_CONCURRENCY: the jobs a process runs at once
  MaxJob,       \* bound: rows of table jobs, numbered in the order of created_at
  MaxAttempts,  \* column max_attempts
  MaxFaults     \* bound: queries that fail and processes that die

Job  == 1..MaxJob
Slot == Worker \X (1..Concurrency)

\* Attempts are compared with MaxAttempts only: all counts above it are one.
Count == 0..(MaxAttempts + 1)

Row == [status : {"absent", "pending", "leased", "running", "succeeded", "dead"},
        attempts : Count, lease : {"none", "held", "expired"}]
Run == [at : {"idle", "claiming", "claimed", "working", "done", "failing", "burying"},
        job : Job \cup {0}, attempts : Count]

ASSUME JobQueueAssumption ==
  /\ Concurrency \in Nat /\ MaxJob \in Nat /\ MaxAttempts \in Nat /\ MaxFaults \in Nat

VARIABLES
  row,     \* table jobs; lease says whether lease_expires_at is NULL, to come, or past
  run,     \* what each slot of each process is doing, with the row as it was selected
  faults   \* how many faults there were

vars == <<row, run, faults>>

Absent == [status |-> "absent", attempts |-> 0, lease |-> "none"]
Idle   == [at |-> "idle", job |-> 0, attempts |-> 0]

TypeOK ==
  /\ row \in [Job -> Row]
  /\ run \in [Slot -> Run]
  /\ faults \in 0..MaxFaults

-----------------------------------------------------------------------------
(* The queue. *)

\* The API inserts a job.  A second insert under the same dedupe_key changes nothing.
Enqueue(j) ==
  /\ row[j].status = "absent"
  /\ \A k \in 1..(j - 1) : row[k].status # "absent"
  /\ row' = [row EXCEPT ![j].status = "pending"]
  /\ UNCHANGED <<run, faults>>

\* LEASE_SEC after the last claim or markRunning.
LeaseOver(j) ==
  /\ row[j].lease = "held"
  /\ row' = [row EXCEPT ![j].lease = "expired"]
  /\ UNCHANGED <<run, faults>>

\* Mutant: what is leased is never claimed again.
ClaimablePending(j) == row[j].status = "pending"

Claimable(j) ==
  \/ row[j].status = "pending"
  \/ row[j].status \in {"leased", "running"} /\ row[j].lease = "expired"

\* Mutant: a plain SELECT.
LockedNever(j) == FALSE

\* FOR UPDATE: an open claim keeps the row from every other statement.
Locked(j) == \E s \in Slot : run[s].at = "claiming" /\ run[s].job = j

Free == {j \in Job : Claimable(j) /\ ~Locked(j)}

\* The answer of a query is an error.
Fault == faults < MaxFaults /\ faults' = faults + 1

Goes(s, at) == run' = [run EXCEPT ![s].at = at]
Ends(s)     == run' = [run EXCEPT ![s] = Idle]

\* The process of slot s dies, and comes back with nothing to do.
Dies(s) == run' = [t \in Slot |-> IF t[1] = s[1] THEN Idle ELSE run[t]]

-----------------------------------------------------------------------------
(* claimJob: SELECT ... FOR UPDATE SKIP LOCKED, UPDATE and COMMIT. *)

\* The claim loop of a process is one loop: it claims for one slot at a time.
Select(s) ==
  /\ run[s] = Idle
  /\ \A t \in Slot : t[1] = s[1] => run[t].at # "claiming"
  /\ \E j \in Free :
       /\ \A k \in Free : j <= k
       /\ run' = [run EXCEPT ![s] = [at |-> "claiming", job |-> j, attempts |-> row[j].attempts]]
  /\ UNCHANGED <<row, faults>>

\* The row is leased and its attempts go up; the run keeps the row as it was selected.
Leased(j) ==
  row' = [row EXCEPT ![j] =
           [status |-> "leased", lease |-> "held",
            attempts |-> IF @.attempts > MaxAttempts THEN @.attempts ELSE @.attempts + 1]]

Commit(s) ==
  /\ run[s].at = "claiming"
  /\ \/ Leased(run[s].job) /\ Goes(s, "claimed") /\ UNCHANGED faults
     \/ /\ Fault /\ Ends(s)               \* rolled back, or committed and never answered
        /\ Leased(run[s].job) \/ UNCHANGED row

-----------------------------------------------------------------------------
(* processJob: mark the job running, run its handler, and mark how it ended. *)

\* UPDATE jobs ... WHERE id, whatever the row says by now.
Mark(s, status, lease) ==
  row' = [row EXCEPT ![run[s].job].status = status, ![run[s].job].lease = lease]

\* A step of the run of a slot that is at `at`, once its job's row is not locked.
At(s, at) == run[s].at = at /\ ~Locked(run[s].job)

MarkRunning(s) ==
  /\ At(s, "claimed")
  /\ \/ Mark(s, "running", "held") /\ Goes(s, "working") /\ UNCHANGED faults
     \/ Fault /\ Goes(s, "failing") /\ (Mark(s, "running", "held") \/ UNCHANGED row)

\* The handler comes to its end, or throws.
Handled(s) ==
  /\ run[s].at = "working"
  /\ Goes(s, "done") \/ Goes(s, "failing")
  /\ UNCHANGED <<row, faults>>

\* A markSuccess that throws is caught with the handler's errors.
MarkSuccess(s) ==
  /\ At(s, "done")
  /\ \/ Mark(s, "succeeded", "none") /\ Ends(s) /\ UNCHANGED faults
     \/ Fault /\ Goes(s, "failing") /\ (Mark(s, "succeeded", "none") \/ UNCHANGED row)

\* Mutant: the comparison the other way round.
DeadEarly(s) == run[s].attempts < MaxAttempts

\* The attempts are those of the row as it was selected, before the claim counted itself.
Dead(s) == run[s].attempts >= MaxAttempts

\* Mutant: the failed job gets the status that the table knows and no claim looks for.
MarkFailed(s) ==
  /\ At(s, "failing")
  /\ Mark(s, IF Dead(s) THEN "dead" ELSE "failed", "none")
  /\ IF Dead(s) THEN Goes(s, "burying") ELSE Ends(s)
  /\ UNCHANGED faults

MarkFail(s) ==
  LET failed == Mark(s, IF Dead(s) THEN "dead" ELSE "pending", "none") IN
  /\ At(s, "failing")
  /\ \/ /\ failed /\ UNCHANGED faults
        /\ IF Dead(s) THEN Goes(s, "burying") ELSE Ends(s)
     \/ Fault /\ Dies(s) /\ (failed \/ UNCHANGED row)     \* nothing catches it

\* The asset of a dead job is marked failed.
Bury(s) ==
  /\ run[s].at = "burying"
  /\ \/ Ends(s) /\ UNCHANGED faults
     \/ Fault /\ Dies(s)
  /\ UNCHANGED row

Die(s) ==
  /\ Fault /\ Dies(s)
  /\ UNCHANGED row

-----------------------------------------------------------------------------
Init ==
  /\ row = [j \in Job |-> Absent]
  /\ run = [s \in Slot |-> Idle]
  /\ faults = 0

Runs(s) ==
  \/ Select(s) \/ Commit(s)
  \/ MarkRunning(s) \/ Handled(s) \/ MarkSuccess(s) \/ MarkFail(s) \/ Bury(s)

Next ==
  \/ \E j \in Job : Enqueue(j) \/ LeaseOver(j)
  \/ \E s \in Slot : Runs(s) \/ Die(s)

Spec == Init /\ [][Next]_vars

\* A worker that has something to do does it, a handler ends, and leases run out.
FairSpec ==
  /\ Spec
  /\ \A s \in Slot : WF_vars(Runs(s))
  /\ \A j \in Job : WF_vars(LeaseOver(j))

-----------------------------------------------------------------------------
(* Properties *)

\* Two workers cannot claim the same job: a claim commits on a row that is still pending, or
\* whose lease has run out, also when two claims and a late mark of an older run overlap
\* (lines 203-210).
ClaimsAreFree ==
  [][\A s \in Slot : run[s].at = "claiming" /\ run'[s].at = "claimed" => Claimable(run[s].job)]_vars

\* A job is given up only after it was claimed MaxAttempts times, whichever of its runs fails
\* last, and however old the row is that it has read (line 248).
DeadIsSpent == \A j \in Job : row[j].status = "dead" => row[j].attempts >= MaxAttempts


\* With finitely many faults every job is done or given up at last, once the jobs before it
\* stay so: none is lost to a lease, a dead worker or a run that comes too late.  (Without
\* the proviso two workers may keep an older job to themselves for ever: each outlives its
\* lease, and marks the job done between the other's claim and its markRunning.)
Finished(j) == row[j].status \in {"succeeded", "dead"}

EveryJobEnds ==
  \A j \in Job :
    <>[](\A k \in 1..(j - 1) : Finished(k))
      => ((row[j].status # "absent" /\ ~Finished(j)) ~> Finished(j))

=============================================================================
