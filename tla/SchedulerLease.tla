--------------------------- MODULE SchedulerLease ---------------------------
(***************************************************************************)
(* The recurring job of a tenant and the lease that gates it.  Instances   *)
(* of the backend run PostgresTokenRefreshScheduledSweep::run_once: read   *)
(* the clock, insert the job if it is missing, try to acquire it, sweep,   *)
(* read the clock again and give the job back, if the lease still stands.  *)
(* An instance may be slow between any two of these, and may die.  What    *)
(* the sweep does is left to TokenRefresh.                                 *)
(***************************************************************************)
EXTENDS Naturals

CONSTANTS
    Runners,          \* backend instances; the instance is part of the lease id
    LeaseMs, NextRunDelayMs, BacklogDelayMs, RetryDelayMs,  \* the sweep's config
    MaxTime,          \* bound on the clock
    MaxAttempts,      \* bound on the attempts after which the job is not rescheduled
    MaxFaults         \* bound on deaths and repository errors

ASSUME LeaseConfig ==  \* PostgresTenantMaintenanceConfig::validate
    /\ {LeaseMs, NextRunDelayMs, BacklogDelayMs, RetryDelayMs} \subseteq Nat \ {0}
    /\ {MaxTime, MaxAttempts, MaxFaults} \subseteq Nat
ASSUME NoRunnerIsNobody == "nobody" \notin Runners

VARIABLES
    job,      \* the tenant's row of scheduler_jobs
    now,      \* the clock
    at,       \* the call an instance is about to make
    started,  \* started_at_ms of its run
    lease,    \* the SchedulerJobLease it was given
    nextRun,  \* next_run_at_ms it is about to write
    faults    \* faults so far

leaseVars == <<job, now, at, started, lease, nextRun, faults>>

-----------------------------------------------------------------------------
Nobody == "nobody"  \* lease_id IS NULL
Null == 0           \* a time that is NULL; the clock starts at 1

Job == [status : {"none", "pending", "running"}, next_run_at : Nat,
        lease_id : Runners \cup {Nobody}, lease_until : Nat, attempt_count : Nat]
Lease == [attempt_count : Nat, lease_until : Nat]
NoLease == [attempt_count |-> 0, lease_until |-> Null]
Delays == {NextRunDelayMs, BacklogDelayMs, RetryDelayMs}
Steps == {"idle", "insert", "acquire", "sweep", "finish"}

LeaseInit ==
    /\ job = [status |-> "none", next_run_at |-> Null, lease_id |-> Nobody,
              lease_until |-> Null, attempt_count |-> 0]
    /\ now = 1
    /\ at = [r \in Runners |-> "idle"]
    /\ started = [r \in Runners |-> Null]
    /\ lease = [r \in Runners |-> NoLease]
    /\ nextRun = [r \in Runners |-> Null]
    /\ faults = 0

Tick ==
    /\ now < MaxTime
    /\ now' = now + 1
    /\ UNCHANGED <<job, at, started, lease, nextRun, faults>>

(* UPSERT_SCHEDULER_JOB reschedules a job, unless it is running.           *)
UpsertJob(due) ==
    /\ job.attempt_count < MaxAttempts
    /\ job.status # "running"
    /\ job' = [job EXCEPT !.status = "pending", !.next_run_at = due]
    /\ UNCHANGED <<now, at, started, lease, nextRun, faults>>

(* A run is over and its local variables with it.                          *)
Return(r) ==
    /\ at' = [at EXCEPT ![r] = "idle"]
    /\ started' = [started EXCEPT ![r] = Null]
    /\ lease' = [lease EXCEPT ![r] = NoLease]
    /\ nextRun' = [nextRun EXCEPT ![r] = Null]

RunOnce(r) ==
    /\ at[r] = "idle"
    /\ at' = [at EXCEPT ![r] = "insert"]
    /\ started' = [started EXCEPT ![r] = now]
    /\ UNCHANGED <<job, now, lease, nextRun, faults>>

InsertJobIfMissing(r) ==
    /\ at[r] = "insert"
    /\ job' = IF job.status = "none"
              THEN [job EXCEPT !.status = "pending", !.next_run_at = started[r]]
              ELSE job
    /\ at' = [at EXCEPT ![r] = "acquire"]
    /\ UNCHANGED <<now, started, lease, nextRun, faults>>

(* Mutant: a running job can be taken over whatever its lease.             *)
ClaimableAnyTime(t) ==
    \/ job.status = "pending" /\ job.next_run_at <= t
    \/ job.status = "running"

(* CLAIM_SCHEDULER_JOB takes a job that is due or whose lease has run out, *)
(* by the clock the run read when it started.                              *)
Claimable(t) ==
    \/ job.status = "pending" /\ job.next_run_at <= t
    \/ job.status = "running" /\ job.lease_until <= t

ClaimedJob(r) ==
    [job EXCEPT !.status = "running", !.lease_id = r, !.lease_until = started[r] + LeaseMs,
                !.attempt_count = @ + 1]

(* The row is locked while another instance claims it or gives it back.    *)
RowLocked(r) == \E o \in Runners \ {r} : at[o] \in {"acquire", "finish"}

(* try_acquire: Acquired, or Busy and NotDue, which end the run.           *)
TryAcquire(r) ==
    /\ at[r] = "acquire"
    /\ \/ /\ Claimable(started[r])
          /\ job' = ClaimedJob(r)
          /\ lease' = [lease EXCEPT ![r] = [attempt_count |-> job'.attempt_count,
                                            lease_until |-> job'.lease_until]]
          /\ at' = [at EXCEPT ![r] = "sweep"]
          /\ UNCHANGED <<started, nextRun>>
       \/ /\ ~ Claimable(started[r]) \/ RowLocked(r)
          /\ Return(r)
          /\ UNCHANGED job
    /\ UNCHANGED <<now, faults>>

(* The sweep has returned; the clock is read for the next run.             *)
FinishSweep(r, delay) ==
    /\ at[r] = "sweep"
    /\ at' = [at EXCEPT ![r] = "finish"]
    /\ nextRun' = [nextRun EXCEPT ![r] = now + delay]
    /\ UNCHANGED <<job, now, started, lease, faults>>

(* COMPLETE_ and FAIL_SCHEDULER_JOB_FOR_LEASE have the same guard.         *)
LeaseStands(r) ==
    /\ job.status = "running"
    /\ job.lease_id = r
    /\ job.attempt_count = lease[r].attempt_count
    /\ job.lease_until = lease[r].lease_until

ReleasedJob(r) ==
    [job EXCEPT !.status = "pending", !.lease_id = Nobody, !.lease_until = Null,
                !.next_run_at = nextRun[r]]

(* A miss is reported as LeaseLost and changes nothing.                    *)
Finalize(r) ==
    /\ at[r] = "finish"
    /\ job' = IF LeaseStands(r) THEN ReleasedJob(r) ELSE job
    /\ Return(r)
    /\ UNCHANGED <<now, faults>>

(* The instance dies, or a call of run_once itself returns an error: the   *)
(* run is over, and what it committed stays.                               *)
Abandon(r) ==
    /\ at[r] # "idle"
    /\ faults < MaxFaults
    /\ faults' = faults + 1
    /\ Return(r)
    /\ UNCHANGED <<job, now>>

LeaseNext ==
    \/ Tick
    \/ UpsertJob(now)
    \/ \E r \in Runners :
          \/ RunOnce(r) \/ InsertJobIfMissing(r) \/ TryAcquire(r)
          \/ \E delay \in Delays : FinishSweep(r, delay)
          \/ Finalize(r) \/ Abandon(r)

LeaseSpec == LeaseInit /\ [][LeaseNext]_leaseVars

-----------------------------------------------------------------------------
LeaseTypeOK ==
    /\ job \in Job
    /\ now \in Nat
    /\ at \in [Runners -> Steps]
    /\ started \in [Runners -> Nat]
    /\ lease \in [Runners -> Lease]
    /\ nextRun \in [Runners -> Nat]
    /\ faults \in Nat

Holds(r) == at[r] \in {"sweep", "finish"}
HoldsUnexpired(r) == Holds(r) /\ now < lease[r].lease_until

(* Two instances never work under leases that are both unexpired, however  *)
(* slowly each of them runs: the sweep that claims with an old reading of  *)
(* the clock does not take over a lease that stands.                       *)
UnexpiredLeaseIsExclusive ==
    \A r, o \in Runners : HoldsUnexpired(r) /\ HoldsUnexpired(o) => r = o

(* No two sweeps in flight have the same attempt number, which is what     *)
(* keeps their windows of audit sequences apart after a take-over.         *)
AttemptIsExclusive ==
    \A r, o \in Runners :
        Holds(r) /\ Holds(o) /\ lease[r].attempt_count = lease[o].attempt_count => r = o

(* The job comes due again within one of the configured delays, whoever    *)
(* died holding it and in whatever order late runs finish: it is never     *)
(* stuck running and never scheduled further away.                         *)
JobComesDue ==
    \E c \in {LeaseMs} \cup Delays :
        /\ job.status = "running" => job.lease_until <= now + c
        /\ job.status = "pending" => job.next_run_at <= now + c

(* What an instance may rely on, whatever the others do: leases and        *)
(* attempts are exclusive, and the job never gets stuck.                   *)
LeaseSafety == LeaseTypeOK /\ UnexpiredLeaseIsExclusive /\ AttemptIsExclusive /\ JobComesDue

(* A run that lost its lease never ends the run that took it over: the job *)
(* leaves "running" only by the instance and attempt that hold it.         *)
ReleasedByHolder ==
    [][job.status = "running" /\ job'.status # "running" =>
         \E r \in Runners : /\ at[r] = "finish" /\ job.lease_id = r
                            /\ lease[r].attempt_count = job.attempt_count]_leaseVars
=============================================================================
