------------------------- MODULE TokenRefreshProofs -------------------------
(***************************************************************************)
(* Theorems about SchedulerLease and TokenRefresh, for any number of       *)
(* instances, live reads and grants, and any limit of a sweep.             *)
(*                                                                         *)
(* TokenRefresh implements SchedulerLease, so the lease that gates a sweep *)
(* is exclusive also while grants are refreshed under it.  The lease is    *)
(* what a sweep has against another sweep; against a live read, a login or *)
(* a logout there is only the fingerprint of the stored token.  RefreshInd *)
(* says what that is worth: a token that is not stored yet is in nobody's  *)
(* snapshot (NewTokensAreFresh), so a grant nobody contended for has one   *)
(* refresh at most whose snapshot still matches (OneLive), and what that   *)
(* one obtained is what must be stored (DeliveredIsPending).  No event of  *)
(* a refresh meets a slot that is taken (SlotsAreSpent), as a sweep stays  *)
(* in the window of its attempt (SweepRuns).                               *)
(***************************************************************************)
EXTENDS TokenRefresh, FiniteSetTheorems, TLAPS

(* The lease by itself: theorems about SchedulerLease for any number of    *)
(* instances, any delays and any length of run.  Exclusion of unexpired    *)
(* leases is not inductive: a claim compares the row, not the other        *)
(* instances.  LeaseInv adds what ties the two: an instance whose lease    *)
(* has not run out is the one the row names (HeldIsRecorded), no reading   *)
(* of the clock is from the future (ReadsArePast), and no instance holds   *)
(* an attempt the row has not counted (AttemptsAreCounted).                *)

ReadsArePast == \A r \in Runners : started[r] <= now
AttemptsAreCounted == \A r \in Runners : Holds(r) => lease[r].attempt_count <= job.attempt_count
HeldIsRecorded == \A r \in Runners : HoldsUnexpired(r) => LeaseStands(r)
RunningEnds == job.status = "running" => job.lease_until <= now + LeaseMs
PendingIsNear == job.status = "pending" => \E c \in Delays \cup {LeaseMs} : job.next_run_at <= now + c
NextRunIsNear == \A r \in Runners : at[r] = "finish" => \E c \in Delays : nextRun[r] <= now + c

LeaseInv ==
    /\ LeaseTypeOK
    /\ ReadsArePast
    /\ AttemptsAreCounted
    /\ AttemptIsExclusive
    /\ HeldIsRecorded
    /\ RunningEnds
    /\ PendingIsNear
    /\ NextRunIsNear

(* The configured delays are natural numbers.                              *)
LEMMA DelaysAreNat == LeaseMs \in Nat /\ Delays \subseteq Nat
BY LeaseConfig DEF Delays

(* The state before the first run of any instance is good.                 *)
LEMMA LeaseInitInv == LeaseInit => LeaseInv
BY NoRunnerIsNobody
DEF LeaseInit, LeaseInv, NoLease, LeaseTypeOK, Job, Lease, Steps, Nobody, Null, ReadsArePast,
    AttemptsAreCounted, AttemptIsExclusive, HeldIsRecorded, RunningEnds, PendingIsNear,
    NextRunIsNear, Holds, HoldsUnexpired

(* A run that returns keeps the types, leaves the other instances alone    *)
(* and holds nothing any more.                                             *)
LEMMA ReturnFacts ==
  ASSUME NEW r \in Runners, LeaseTypeOK, Return(r)
  PROVE  /\ at' \in [Runners -> Steps] /\ started' \in [Runners -> Nat]
         /\ lease' \in [Runners -> Lease] /\ nextRun' \in [Runners -> Nat]
         /\ at'[r] = "idle" /\ started'[r] = 0
         /\ \A o \in Runners \ {r} : /\ at'[o] = at[o] /\ started'[o] = started[o]
                                      /\ lease'[o] = lease[o] /\ nextRun'[o] = nextRun[o]
BY DEF Return, LeaseTypeOK, Steps, Lease, NoLease, Null

(* Only the clock moves: leases may run out, none comes back.              *)
LEMMA TickInv == LeaseInv /\ Tick => LeaseInv'
<1> SUFFICES ASSUME LeaseInv, Tick PROVE LeaseInv'
  OBVIOUS
<1> USE DelaysAreNat DEF LeaseInv, Tick
<1>1. LeaseTypeOK'
  BY DEF LeaseTypeOK
<1>2. ReadsArePast'
  BY DEF ReadsArePast, LeaseTypeOK
<1>3. AttemptsAreCounted' /\ AttemptIsExclusive'
  BY DEF AttemptsAreCounted, AttemptIsExclusive, Holds
<1>4. HeldIsRecorded'
  BY DEF HeldIsRecorded, HoldsUnexpired, Holds, LeaseStands, LeaseTypeOK, Lease
<1>5. RunningEnds'
  BY DEF RunningEnds, LeaseTypeOK, Job
<1>6. PendingIsNear' /\ NextRunIsNear'
  <2>1. \A c \in Delays \cup {LeaseMs}, t \in Nat : t <= now + c => t <= now' + c
    BY DEF LeaseTypeOK
  <2>2. job.next_run_at \in Nat /\ \A r \in Runners : nextRun[r] \in Nat
    BY DEF LeaseTypeOK, Job
  <2> QED
    BY <2>1, <2>2 DEF PendingIsNear, NextRunIsNear
<1> QED
  BY <1>1, <1>2, <1>3, <1>4, <1>5, <1>6

(* A job that runs is not rescheduled, so no lease in force is disturbed.  *)
LEMMA UpsertJobInv == LeaseInv /\ UpsertJob(now) => LeaseInv'
<1> SUFFICES ASSUME LeaseInv, UpsertJob(now) PROVE LeaseInv'
  OBVIOUS
<1> USE DelaysAreNat DEF LeaseInv, UpsertJob
<1>1. LeaseTypeOK' /\ ReadsArePast' /\ NextRunIsNear' /\ RunningEnds'
  BY DEF LeaseTypeOK, Job, ReadsArePast, NextRunIsNear, RunningEnds
<1>2. AttemptsAreCounted' /\ AttemptIsExclusive'
  BY DEF AttemptsAreCounted, AttemptIsExclusive, Holds, LeaseTypeOK, Job
<1>3. HeldIsRecorded'
  BY DEF HeldIsRecorded, HoldsUnexpired, Holds, LeaseStands
<1>4. PendingIsNear'
  <2>1. job'.next_run_at = now /\ now' = now
    BY DEF LeaseTypeOK, Job
  <2>2. now <= now + LeaseMs
    BY DEF LeaseTypeOK
  <2> QED
    BY <2>1, <2>2 DEF PendingIsNear
<1> QED
  BY <1>1, <1>2, <1>3, <1>4

(* A run that starts, waits or dies holds nothing it did not hold before.  *)
LEMMA RunOnceInv == ASSUME NEW r \in Runners PROVE LeaseInv /\ RunOnce(r) => LeaseInv'
<1> SUFFICES ASSUME LeaseInv, RunOnce(r) PROVE LeaseInv'
  OBVIOUS
<1> USE DEF LeaseInv, RunOnce
<1>1. LeaseTypeOK' /\ ReadsArePast' /\ RunningEnds' /\ PendingIsNear' /\ NextRunIsNear'
  BY DEF LeaseTypeOK, Steps, ReadsArePast, RunningEnds, PendingIsNear, NextRunIsNear
<1>2. \A o \in Runners : Holds(o)' => Holds(o) /\ o # r
  BY DEF Holds, LeaseTypeOK
<1>3. AttemptsAreCounted' /\ AttemptIsExclusive'
  BY <1>2 DEF AttemptsAreCounted, AttemptIsExclusive
<1>4. HeldIsRecorded'
  BY <1>2 DEF HeldIsRecorded, HoldsUnexpired, LeaseStands
<1> QED
  BY <1>1, <1>3, <1>4

(* A missing job is inserted as due at a reading of the clock, so already. *)
LEMMA InsertInv == ASSUME NEW r \in Runners PROVE LeaseInv /\ InsertJobIfMissing(r) => LeaseInv'
<1> SUFFICES ASSUME LeaseInv, InsertJobIfMissing(r) PROVE LeaseInv'
  OBVIOUS
<1> USE DelaysAreNat DEF LeaseInv, InsertJobIfMissing
<1>1. LeaseTypeOK' /\ ReadsArePast' /\ RunningEnds' /\ NextRunIsNear'
  BY DEF LeaseTypeOK, Steps, Job, ReadsArePast, RunningEnds, NextRunIsNear
<1>2. \A o \in Runners : Holds(o)' => Holds(o) /\ o # r
  BY DEF Holds, LeaseTypeOK
<1>3. job'.attempt_count = job.attempt_count
  BY DEF LeaseTypeOK, Job
<1>4. AttemptsAreCounted' /\ AttemptIsExclusive'
  BY <1>2, <1>3 DEF AttemptsAreCounted, AttemptIsExclusive
<1>5. HeldIsRecorded'
  BY <1>2 DEF HeldIsRecorded, HoldsUnexpired, LeaseStands
<1>6. PendingIsNear'
  <2>1. CASE job.status = "none"
    <3>1. job'.next_run_at = started[r] /\ now' = now
      BY <2>1 DEF LeaseTypeOK, Job
    <3>2. started[r] <= now + LeaseMs
      BY DEF LeaseTypeOK, ReadsArePast
    <3> QED
      BY <3>1, <3>2 DEF PendingIsNear
  <2>2. CASE job.status # "none"
    BY <2>2 DEF PendingIsNear
  <2> QED
    BY <2>1, <2>2
<1> QED
  BY <1>1, <1>4, <1>5, <1>6

(* Whoever claims has read a clock no later than now, so the lease it      *)
(* takes over has run out for every instance that might still hold it.     *)
LEMMA AcquireInv == ASSUME NEW r \in Runners PROVE LeaseInv /\ TryAcquire(r) => LeaseInv'
<1> SUFFICES ASSUME LeaseInv, TryAcquire(r) PROVE LeaseInv'
  OBVIOUS
<1> USE DelaysAreNat DEF LeaseInv
<1>0. at \in [Runners -> Steps] /\ at[r] = "acquire"
  BY DEF TryAcquire, LeaseTypeOK
<1>1. CASE /\ Claimable(started[r])
           /\ job' = ClaimedJob(r)
           /\ lease' = [lease EXCEPT ![r] = [attempt_count |-> job'.attempt_count,
                                             lease_until |-> job'.lease_until]]
           /\ at' = [at EXCEPT ![r] = "sweep"]
           /\ UNCHANGED <<started, nextRun>>
  <2>0. UNCHANGED <<now, started, nextRun, faults>>
    BY <1>1 DEF TryAcquire
  <2>1. /\ job' \in Job /\ job'.status = "running" /\ job'.lease_id = r
        /\ job'.attempt_count = job.attempt_count + 1
        /\ job'.lease_until = started[r] + LeaseMs
    <3>1. job \in Job /\ started[r] + LeaseMs \in Nat /\ job.attempt_count + 1 \in Nat
      BY DEF LeaseTypeOK, Job
    <3>2. job' = [job EXCEPT !.status = "running", !.lease_id = r,
                             !.lease_until = started[r] + LeaseMs, !.attempt_count = @ + 1]
      BY <1>1 DEF ClaimedJob
    <3> HIDE DEF LeaseInv
    <3> QED
      BY <3>1, <3>2 DEF Job
  <2>2. LeaseTypeOK'
    BY <1>0, <1>1, <2>0, <2>1 DEF LeaseTypeOK, Lease, Job, Steps
  <2>3. ReadsArePast' /\ NextRunIsNear'
    BY <1>0, <1>1, <2>0 DEF ReadsArePast, NextRunIsNear
  <2>4. RunningEnds' /\ PendingIsNear'
    BY <2>0, <2>1 DEF RunningEnds, PendingIsNear, ReadsArePast, LeaseTypeOK
  <2>5. /\ \A o \in Runners \ {r} : (Holds(o)' <=> Holds(o)) /\ lease'[o] = lease[o]
        /\ lease'[r].attempt_count = job.attempt_count + 1
        /\ lease'[r].lease_until = job'.lease_until
    BY <1>0, <1>1, <2>1 DEF Holds, LeaseTypeOK
  <2>6. AttemptsAreCounted' /\ AttemptIsExclusive'
    BY <2>1, <2>5 DEF AttemptsAreCounted, AttemptIsExclusive, LeaseTypeOK, Lease, Job
  <2>7. \A o \in Runners \ {r} : ~ HoldsUnexpired(o)
    BY <1>1 DEF Claimable, HeldIsRecorded, HoldsUnexpired, LeaseStands, ReadsArePast, LeaseTypeOK, Lease, Job
  <2>8. HeldIsRecorded'
    BY <2>0, <2>1, <2>5, <2>7 DEF HeldIsRecorded, HoldsUnexpired, LeaseStands
  <2> QED
    BY <2>2, <2>3, <2>4, <2>6, <2>8
<1>2. CASE Return(r) /\ UNCHANGED job
  <2>0. Return(r) /\ UNCHANGED <<job, now, faults>>
    BY <1>2 DEF TryAcquire
  <2>1. LeaseTypeOK'
    BY <2>0, ReturnFacts DEF LeaseTypeOK
  <2>2. ReadsArePast' /\ RunningEnds' /\ PendingIsNear' /\ NextRunIsNear'
    BY <2>0, ReturnFacts DEF LeaseTypeOK, ReadsArePast, RunningEnds, PendingIsNear, NextRunIsNear
  <2>3. \A o \in Runners : Holds(o)' => Holds(o) /\ o # r /\ lease'[o] = lease[o]
    BY <2>0, ReturnFacts DEF Holds
  <2> QED
    BY <2>0, <2>1, <2>2, <2>3
    DEF AttemptsAreCounted, AttemptIsExclusive, HeldIsRecorded, HoldsUnexpired, LeaseStands
<1> QED
  BY <1>1, <1>2 DEF TryAcquire

(* The sweep is over; the instance keeps its lease until it gives it back. *)
LEMMA FinishSweepInv ==
  ASSUME NEW r \in Runners, NEW delay \in Delays PROVE LeaseInv /\ FinishSweep(r, delay) => LeaseInv'
<1> SUFFICES ASSUME LeaseInv, FinishSweep(r, delay) PROVE LeaseInv'
  OBVIOUS
<1> USE DelaysAreNat DEF LeaseInv, FinishSweep
<1>1. LeaseTypeOK' /\ ReadsArePast' /\ RunningEnds' /\ PendingIsNear'
  BY DEF LeaseTypeOK, Steps, ReadsArePast, RunningEnds, PendingIsNear
<1>2. NextRunIsNear'
  <2>1. nextRun'[r] = now + delay /\ \A o \in Runners \ {r} : nextRun'[o] = nextRun[o] /\ at'[o] = at[o]
    BY DEF LeaseTypeOK
  <2>2. now + delay <= now' + delay /\ now' = now
    BY DEF LeaseTypeOK
  <2> QED
    BY <2>1, <2>2 DEF NextRunIsNear
<1>3. \A o \in Runners : Holds(o)' <=> Holds(o)
  BY DEF Holds, LeaseTypeOK
<1> QED
  BY <1>1, <1>2, <1>3
  DEF AttemptsAreCounted, AttemptIsExclusive, HeldIsRecorded, HoldsUnexpired, LeaseStands

(* The row is released by the instance it names, so no other instance has  *)
(* a lease in force at that moment.                                        *)
LEMMA FinalizeInv == ASSUME NEW r \in Runners PROVE LeaseInv /\ Finalize(r) => LeaseInv'
<1> SUFFICES ASSUME LeaseInv, Finalize(r) PROVE LeaseInv'
  OBVIOUS
<1> USE DelaysAreNat DEF LeaseInv, Finalize
<1>1. LeaseTypeOK'
  <2>1. job' \in Job
    BY DEF LeaseTypeOK, Job, ReleasedJob, Null, Nobody
  <2> QED
    BY <2>1, ReturnFacts DEF LeaseTypeOK
<1>2. ReadsArePast' /\ NextRunIsNear'
  BY ReturnFacts DEF LeaseTypeOK, ReadsArePast, NextRunIsNear
<1>3. \A o \in Runners : Holds(o)' => Holds(o) /\ o # r /\ lease'[o] = lease[o]
  BY ReturnFacts DEF Holds
<1>4. job'.attempt_count = job.attempt_count
  BY DEF LeaseTypeOK, Job, ReleasedJob
<1>5. AttemptsAreCounted' /\ AttemptIsExclusive'
  BY <1>3, <1>4 DEF AttemptsAreCounted, AttemptIsExclusive
<1>6. HeldIsRecorded'
  BY <1>3 DEF HeldIsRecorded, HoldsUnexpired, LeaseStands
<1>7. RunningEnds' /\ PendingIsNear'
  <2>1. CASE LeaseStands(r)
    <3>1. job'.status = "pending" /\ job'.next_run_at = nextRun[r] /\ now' = now
      BY <2>1 DEF ReleasedJob, LeaseTypeOK, Job
    <3>2. PICK c \in Delays : nextRun[r] <= now + c
      BY DEF NextRunIsNear
    <3> QED
      BY <3>1, <3>2 DEF RunningEnds, PendingIsNear
  <2>2. CASE ~ LeaseStands(r)
    BY <2>2 DEF RunningEnds, PendingIsNear
  <2> QED
    BY <2>1, <2>2
<1> QED
  BY <1>1, <1>2, <1>5, <1>6, <1>7

(* A dead instance holds nothing; the row keeps its lease until it expires. *)
LEMMA AbandonInv == ASSUME NEW r \in Runners PROVE LeaseInv /\ Abandon(r) => LeaseInv'
<1> SUFFICES ASSUME LeaseInv, Abandon(r) PROVE LeaseInv'
  OBVIOUS
<1> USE DEF LeaseInv
<1>0. Return(r) /\ UNCHANGED <<job, now>> /\ faults' \in Nat
  BY DEF Abandon, LeaseTypeOK
<1>1. LeaseTypeOK'
  BY <1>0, ReturnFacts DEF LeaseTypeOK
<1>2. ReadsArePast' /\ RunningEnds' /\ PendingIsNear' /\ NextRunIsNear'
  BY <1>0, ReturnFacts DEF LeaseTypeOK, ReadsArePast, RunningEnds, PendingIsNear, NextRunIsNear
<1>3. \A o \in Runners : Holds(o)' => Holds(o) /\ o # r /\ lease'[o] = lease[o]
  BY <1>0, ReturnFacts DEF Holds
<1> QED
  BY <1>0, <1>1, <1>2, <1>3
  DEF AttemptsAreCounted, AttemptIsExclusive, HeldIsRecorded, HoldsUnexpired, LeaseStands

(* Every step of every instance, and of the clock, keeps LeaseInv.         *)
LEMMA LeaseStepInv == LeaseInv /\ [LeaseNext]_leaseVars => LeaseInv'
<1> SUFFICES ASSUME LeaseInv, [LeaseNext]_leaseVars PROVE LeaseInv'
  OBVIOUS
<1>1. CASE UNCHANGED leaseVars
  BY <1>1 DEF leaseVars, LeaseInv, LeaseTypeOK, ReadsArePast, AttemptsAreCounted, AttemptIsExclusive,
      HeldIsRecorded, RunningEnds, PendingIsNear, NextRunIsNear, Holds, HoldsUnexpired, LeaseStands
<1>2. CASE LeaseNext
  BY <1>2, TickInv, UpsertJobInv, RunOnceInv, InsertInv, AcquireInv, FinishSweepInv, FinalizeInv,
      AbandonInv DEF LeaseNext
<1> QED
  BY <1>1, <1>2

(* LeaseInv holds in every reachable state of SchedulerLease.              *)
THEOREM LeaseInvariant == LeaseSpec => []LeaseInv
BY LeaseInitInv, LeaseStepInv, PTL DEF LeaseSpec

(* Two instances never work under unexpired leases of one job, for any     *)
(* number of instances and any delays (CLAIM_SCHEDULER_JOB).               *)
THEOREM LeaseIsExclusive == LeaseSpec => []UnexpiredLeaseIsExclusive
<1>1. LeaseInv => UnexpiredLeaseIsExclusive
  BY DEF LeaseInv, HeldIsRecorded, UnexpiredLeaseIsExclusive, LeaseStands
<1> QED
  BY <1>1, LeaseInvariant, PTL

(* No two sweeps in flight share an attempt number, hence a window of      *)
(* audit sequences (scheduled_sweep_audit_sequence_start).                 *)
THEOREM AttemptsDiffer == LeaseSpec => []AttemptIsExclusive
<1>1. LeaseInv => AttemptIsExclusive
  BY DEF LeaseInv
<1> QED
  BY <1>1, LeaseInvariant, PTL

(* The job is never stuck: it can be claimed again within one of the       *)
(* configured delays, whoever died holding it.                             *)
THEOREM JobIsNeverStuck == LeaseSpec => []JobComesDue
<1>1. ASSUME LeaseInv PROVE JobComesDue
  <2>1. CASE job.status = "running"
    BY <1>1, <2>1 DEF LeaseInv, RunningEnds, JobComesDue
  <2>2. CASE job.status # "running"
    BY <1>1, <2>2 DEF LeaseInv, PendingIsNear, JobComesDue
  <2> QED
    BY <2>1, <2>2
<1> QED
  BY <1>1, LeaseInvariant, PTL

(* All an instance may rely on, together.                                  *)
THEOREM LeaseIsSafe == LeaseSpec => []LeaseSafety
<1>1. LeaseInv => LeaseTypeOK
  BY DEF LeaseInv
<1>2. LeaseTypeOK /\ UnexpiredLeaseIsExclusive /\ AttemptIsExclusive /\ JobComesDue => LeaseSafety
  BY DEF LeaseSafety
<1> QED
  BY <1>1, <1>2, LeaseInvariant, LeaseIsExclusive, AttemptsDiffer, JobIsNeverStuck, PTL

(* Only the instance and attempt the row names end a run: the late answer  *)
(* of one that lost its lease changes nothing (LeaseLost).                 *)
THEOREM OnlyHolderReleases == LeaseSpec => ReleasedByHolder
<1> DEFINE Step == job.status = "running" /\ job'.status # "running" =>
                      \E r \in Runners : /\ at[r] = "finish" /\ job.lease_id = r
                                         /\ lease[r].attempt_count = job.attempt_count
<1>1. ASSUME LeaseInv, [LeaseNext]_leaseVars PROVE [Step]_leaseVars
  <2>1. \A r \in Runners : InsertJobIfMissing(r) \/ TryAcquire(r) => Step
    BY <1>1 DEF InsertJobIfMissing, TryAcquire, ClaimedJob, LeaseInv, LeaseTypeOK, Job
  <2>2. \A r \in Runners : Finalize(r) => Step
    BY DEF Finalize, LeaseStands
  <2>3. \A r \in Runners : RunOnce(r) \/ Abandon(r) \/ (\E delay \in Delays : FinishSweep(r, delay)) => Step
    BY DEF RunOnce, Abandon, FinishSweep
  <2>4. Tick \/ UpsertJob(now) => Step
    BY DEF Tick, UpsertJob
  <2> QED
    BY <1>1, <2>1, <2>2, <2>3, <2>4 DEF LeaseNext
<1>2. LeaseSpec => [][LeaseInv /\ LeaseNext]_leaseVars
  BY LeaseInvariant, PTL DEF LeaseSpec
<1>3. [LeaseInv /\ LeaseNext]_leaseVars => [Step]_leaseVars
  BY <1>1
<1>4. LeaseSpec => [][Step]_leaseVars
  BY <1>2, <1>3, PTL
<1> QED
  BY <1>4 DEF ReleasedByHolder

-----------------------------------------------------------------------------
(* The refreshes under the lease *)

(* A refresh under way, one that Feishu answered with a new token, and one *)
(* whose snapshot still has the token that is stored.                      *)
Refreshing(a) == call[a] # NoCall
Succeeded(a) == call[a].step = "record" /\ call[a].outcome = "success"
Live(a, g) == Refreshing(a) /\ call[a].of.id = g /\ call[a].of.token = grant[g].token

(* Slots of the audit log that one attempt of the job may use.             *)
Window == IF Limit > MinWindow THEN Limit ELSE MinWindow

(* A token that is neither stored nor in anybody's snapshot of the grant.  *)
Fresh(g, t) ==
    /\ t # grant[g].token
    /\ \A a \in Actors : Refreshing(a) /\ call[a].of.id = g => call[a].of.token # t
    /\ \A r \in Runners : \A i \in DOMAIN sweep[r].todo :
          sweep[r].todo[i].id = g => sweep[r].todo[i].token # t

(* Every token anywhere was issued.                                        *)
TokensAreIssued ==
    /\ \A g \in Grants : grant[g].token <= issued[g] /\ login[g] <= issued[g]
    /\ \A a \in Actors : Refreshing(a) => call[a].of.token <= issued[call[a].of.id]
    /\ \A a \in Actors : Succeeded(a) => call[a].token \in 1 .. issued[call[a].of.id]
    /\ \A r \in Runners : \A i \in DOMAIN sweep[r].todo :
          sweep[r].todo[i].token <= issued[sweep[r].todo[i].id]

(* What a login or a refresh brings is fresh, and nobody else brings it.   *)
NewTokensAreFresh ==
    /\ \A g \in Grants : login[g] # 0 => Fresh(g, login[g])
    /\ \A a \in Actors : Succeeded(a) => /\ Fresh(call[a].of.id, call[a].token)
                                         /\ call[a].token # login[call[a].of.id]
    /\ \A a, b \in Actors :
          Succeeded(a) /\ Succeeded(b) /\ call[a].of.id = call[b].of.id /\ call[a].token = call[b].token => a = b

(* What a sweep holds: the job's attempt, and the rest of the grants it    *)
(* listed, of which it refreshes the first.                                *)
SweepRuns ==
    \A r \in Runners :
        /\ at[r] # "sweep" \/ ~ sweep[r].listed => sweep[r] = NoSweep
        /\ at[r] = "sweep" => lease[r].attempt_count \in 1 .. job.attempt_count
        /\ Refreshing(r) <=> sweep[r].todo # <<>>
        /\ Refreshing(r) => call[r].of = sweep[r].todo[1]
        /\ sweep[r].index + Len(sweep[r].todo) <= Limit \/ sweep[r].todo = <<>>
        /\ \A i, j \in DOMAIN sweep[r].todo : sweep[r].todo[i].id = sweep[r].todo[j].id => i = j

(* Slots taken by sweeps lie in the window of an attempt, behind its       *)
(* index; slots taken by a live read are of an earlier reading of its      *)
(* clock.                                                                  *)
SweepSlot(s) ==
    \E n \in 1 .. job.attempt_count, i \in 0 .. Window - 1 :
        /\ s = <<SweepTrace, AuditSequence(n, i)>>
        /\ \A r \in Runners : at[r] = "sweep" /\ lease[r].attempt_count = n => i < sweep[r].index

ReadSlot(s) ==
    \E l \in Readers, g \in Grants : \E t \in 0 .. readAt[l] :
        s = <<l, g, t>> /\ (Refreshing(l) => t # readAt[l])

SlotsAreSpent == \A s \in audited : SweepSlot(s) \/ ReadSlot(s)

(* A token that Feishu refused is of no use to anybody any more.           *)
RefusedIsUnusable ==
    /\ \A a \in Actors : call[a].step = "record" /\ call[a].outcome = "reauth" =>
          call[a].of.token \notin usable[call[a].of.id]
    /\ \A g \in Grants : grant[g].state \in {"none", "reauth_required"} => grant[g].token \notin usable[g]

(* At most one refresh of a grant can still be stored; what it obtained is *)
(* the token Feishu delivered last, and if there is none, that one is      *)
(* stored.                                                                 *)
OneLive(g) == \A a, b \in Actors : Live(a, g) /\ Live(b, g) => a = b

DeliveredIsPending(g) ==
    grant[g].state # "revoked" =>
        /\ \A a \in Actors : Live(a, g) /\ Succeeded(a) =>
              call[a].token = delivered[g] /\ grant[g].state \in Refreshable
        /\ (\A a \in Actors : ~ (Live(a, g) /\ Succeeded(a))) => grant[g].token = delivered[g]

RacesAreWon == \A g \in Grants \ contended : OneLive(g) /\ DeliveredIsPending(g)

(* A grant that is paused while a sweep has it on its list was paused      *)
(* after the sweep listed it.                                              *)
PausedWhileListed ==
    \A r \in Runners : \A i \in DOMAIN sweep[r].todo :
        LET s == sweep[r].todo[i] IN
        Paused(s.id) /\ grant[s.id].token = s.token => <<r, s.id>> \in overtaken

(* The inductive invariant.                                                *)
RefreshInd ==
    /\ LeaseInv
    /\ TypeOK
    /\ TokensAreIssued
    /\ NewTokensAreFresh
    /\ SweepRuns
    /\ SlotsAreSpent
    /\ RefusedIsUnusable
    /\ RacesAreWon
    /\ PausedWhileListed

(* Every step of the refresh is a step of the lease, or none of it.        *)
LEMMA RefreshStepKeepsLease == [Next]_vars => [LeaseNext]_leaseVars
<1> SUFFICES ASSUME [Next]_vars PROVE [LeaseNext]_leaseVars
  OBVIOUS
<1>1. CASE UNCHANGED vars
  BY <1>1 DEF vars
<1>2. CASE LeaseStep
  BY <1>2 DEF LeaseStep, LeaseNext
<1>3. ASSUME NEW r \in Runners, ListCandidates(r) \/ SweepReturns(r) \/ InstanceDies(r)
      PROVE  [LeaseNext]_leaseVars
  <2>1. CASE ListCandidates(r)
    BY <2>1 DEF ListCandidates
  <2>2. CASE SweepReturns(r)
    <3>1. DelayAfter(r) \in Delays
      BY DEF DelayAfter, Delays
    <3> QED
      BY <2>2, <3>1 DEF SweepReturns, LeaseNext
  <2>3. CASE InstanceDies(r)
    BY <2>3 DEF InstanceDies, LeaseNext
  <2> QED
    BY <1>3, <2>1, <2>2, <2>3
<1>4. ASSUME NEW a \in Actors, LoadMaterial(a) \/ PostRefresh(a) \/ RecordRefresh(a) \/ RecordFails(a)
      PROVE  UNCHANGED leaseVars
  BY <1>4 DEF LoadMaterial, PostRefresh, RecordRefresh, RecordFails
<1>5. ASSUME NEW l \in Readers, NEW g \in Grants, RefreshBeforeLiveRead(l, g)
      PROVE  UNCHANGED leaseVars
  BY <1>5 DEF RefreshBeforeLiveRead
<1>6. ASSUME NEW g \in Grants,
             Deauthorize(g) \/ Age(g) \/ ExchangeCode(g) \/ PersistLoginGrant(g) \/ RevokeGrant(g)
      PROVE  UNCHANGED leaseVars
  BY <1>6 DEF Deauthorize, Age, ExchangeCode, PersistLoginGrant, RevokeGrant
<1>7. ASSUME NEW v \in Recoveries, ExecuteResume(v) \/ \E g \in Grants : ConfirmResume(v, g)
      PROVE  UNCHANGED leaseVars
  BY <1>7 DEF ExecuteResume, ConfirmResume
<1> QED
  BY <1>1, <1>2, <1>3, <1>4, <1>5, <1>6, <1>7 DEF Next

(* Whatever is refreshed under it, the lease follows its protocol.         *)
THEOREM RefreshKeepsLease == Spec => KeepsLease
<1>1. Init => LeaseInit
  BY DEF Init
<1>2. Spec => LeaseSpec
  BY <1>1, RefreshStepKeepsLease, PTL DEF Spec, LeaseSpec
<1> QED
  BY <1>2 DEF KeepsLease

(* What is proved of the lease holds of the sweeps of a tenant: their      *)
(* leases and attempts are exclusive and the job comes due again.          *)
THEOREM SweepIsSafe == Spec => []LeaseSafety
<1>1. Spec => LeaseSpec
  BY RefreshKeepsLease DEF KeepsLease
<1> QED
  BY <1>1, LeaseIsSafe, PTL

-----------------------------------------------------------------------------
(* What a refresh in flight looks like, by the type of call.               *)
LEMMA CallFacts ==
    ASSUME call \in [Actors -> Call], NEW a \in Actors
    PROVE  /\ call[a] = NoCall \/ call[a] \in [step : {"load", "post"}, of : Snapshot]
                               \/ call[a] \in [step : {"record"}, of : Snapshot, outcome : Outcomes, token : Nat]
           /\ Refreshing(a) => /\ call[a].of \in Snapshot /\ call[a].of.id \in Grants /\ call[a].of.token \in Nat
                               /\ call[a].step \in {"load", "post", "record"}
           /\ ~ Refreshing(a) => call[a].step = "none"
           /\ call[a].step = "record" => Refreshing(a) /\ call[a].outcome \in Outcomes /\ call[a].token \in Nat
<1>1. call[a] \in Call
  OBVIOUS
<1>2. \/ call[a] = NoCall
      \/ call[a] \in [step : {"load", "post"}, of : Snapshot]
      \/ call[a] \in [step : {"record"}, of : Snapshot, outcome : Outcomes, token : Nat]
  BY <1>1 DEF Call
<1>3. CASE call[a] = NoCall
  BY <1>3 DEF NoCall, Refreshing
<1>4. CASE call[a] \in [step : {"load", "post"}, of : Snapshot]
  BY <1>4 DEF Snapshot, Refreshing, NoCall
<1>5. CASE call[a] \in [step : {"record"}, of : Snapshot, outcome : Outcomes, token : Nat]
  BY <1>5 DEF Snapshot, Refreshing, NoCall
<1> QED BY <1>2, <1>3, <1>4, <1>5

(* The lease is kept by every step of the refresh.                         *)
LEMMA LeaseKept == LeaseInv /\ [Next]_vars => LeaseInv'
BY RefreshStepKeepsLease, LeaseStepInv

(* Windows of audit sequences do not meet: a slot tells the attempt and    *)
(* the candidate it was written for.                                       *)
LEMMA SlotIsUnique ==
    ASSUME NEW m \in Nat \ {0}, NEW n \in Nat \ {0}, NEW i \in 0 .. Window - 1, NEW j \in 0 .. Window - 1,
           AuditSequence(m, i) = AuditSequence(n, j)
    PROVE  m = n /\ i = j
<1>1. Window \in Nat \ {0}
  BY RefreshConfig DEF Window
<1> DEFINE w == Window
           x == m - 1
           y == n - 1
<1>2. 1 + x * w + i = 1 + y * w + j
  BY DEF AuditSequence, Window
<1>3. x \in Nat /\ y \in Nat /\ i \in Nat /\ j \in Nat /\ w \in Nat \ {0} /\ i < w /\ j < w
  BY <1>1
<1> HIDE DEF w, x, y
<1>4. x * w \in Nat /\ y * w \in Nat
  BY <1>3
<1>5. x * w + i = y * w + j
  <2> DEFINE xw == x * w
             yw == y * w
  <2>1. xw \in Nat /\ yw \in Nat /\ 1 + xw + i = 1 + yw + j
    BY <1>2, <1>4
  <2> HIDE DEF xw, yw
  <2>2. xw + i = yw + j
    BY <1>3, <2>1
  <2> QED BY <2>2 DEF xw, yw
<1>6. ASSUME NEW k \in Nat, NEW l \in Nat, k < l PROVE k * w + w <= l * w /\ k * w \in Nat /\ l * w \in Nat
  <2> DEFINE d == l - k - 1
  <2>1. d \in Nat /\ l = k + 1 + d
    BY <1>6
  <2> HIDE DEF d
  <2>2. d * w \in Nat /\ k * w \in Nat /\ l * w = k * w + w + d * w
    BY <1>3, <2>1
  <2> QED BY <1>3, <2>2
<1>7. ~ (x < y)
  BY <1>3, <1>4, <1>5, <1>6
<1>8. ~ (y < x)
  BY <1>3, <1>4, <1>5, <1>6
<1>9. x = y
  BY <1>3, <1>7, <1>8
<1>10. i = j
  BY <1>3, <1>4, <1>5, <1>9
<1> QED BY <1>9, <1>10 DEF x, y

(* A sweep in a refresh is within the window of its attempt.               *)
LEMMA IndexInWindow ==
    ASSUME RefreshInd, NEW r \in Runners, Refreshing(r)
    PROVE  /\ at[r] = "sweep" /\ lease[r].attempt_count \in 1 .. job.attempt_count
           /\ sweep[r].index \in 0 .. Window - 1
           /\ sweep[r].todo \in Seq(Snapshot) /\ Len(sweep[r].todo) \in Nat \ {0}
           /\ sweep[r].index + Len(sweep[r].todo) <= Limit /\ call[r].of = sweep[r].todo[1]
<1>1. sweep[r].todo \in Seq(Snapshot) /\ sweep[r].index \in Nat /\ sweep[r].todo # <<>>
  BY DEF RefreshInd, TypeOK, Sweep, SweepRuns
<1>2. Len(sweep[r].todo) \in Nat /\ Len(sweep[r].todo) > 0
  BY <1>1
<1>3. sweep[r].index + Len(sweep[r].todo) <= Limit /\ call[r].of = sweep[r].todo[1]
  BY <1>1 DEF RefreshInd, SweepRuns
<1>4. sweep[r].index \in 0 .. Window - 1
  BY <1>1, <1>2, <1>3, RefreshConfig DEF Window
<1>5. at[r] = "sweep" /\ lease[r].attempt_count \in 1 .. job.attempt_count
  BY DEF RefreshInd, SweepRuns, NoSweep
<1> QED BY <1>1, <1>2, <1>3, <1>4, <1>5

(* A refresh about to be recorded finds its slot free: a sweep because its *)
(* window is its own and the index counts up in it, a live read because    *)
(* its session reads the clock anew each time.                             *)
LEMMA SlotIsFree ==
    ASSUME RefreshInd, NEW a \in Actors, Refreshing(a)
    PROVE  AuditSlot(a) \notin audited
<1> SUFFICES ASSUME AuditSlot(a) \in audited PROVE FALSE
  OBVIOUS
<1>1. SweepSlot(AuditSlot(a)) \/ ReadSlot(AuditSlot(a))
  BY DEF RefreshInd, SlotsAreSpent
<1>2. CASE a \in Runners
  <2>1. AuditSlot(a) = <<SweepTrace, AuditSequence(lease[a].attempt_count, sweep[a].index)>>
    BY <1>2 DEF AuditSlot
  <2>2. at[a] = "sweep" /\ lease[a].attempt_count \in 1 .. job.attempt_count
    BY <1>2, IndexInWindow
  <2>3. sweep[a].index \in 0 .. Window - 1
    BY <1>2, IndexInWindow
  <2>4. job.attempt_count \in Nat
    BY DEF RefreshInd, TypeOK, LeaseTypeOK, Job
  <2>5. CASE SweepSlot(AuditSlot(a))
    <3>1. PICK n \in 1 .. job.attempt_count, i \in 0 .. Window - 1 :
             /\ AuditSlot(a) = <<SweepTrace, AuditSequence(n, i)>>
             /\ \A r \in Runners : at[r] = "sweep" /\ lease[r].attempt_count = n => i < sweep[r].index
      BY <2>5 DEF SweepSlot
    <3>2. AuditSequence(n, i) = AuditSequence(lease[a].attempt_count, sweep[a].index)
      BY <2>1, <3>1
    <3>3. n = lease[a].attempt_count /\ i = sweep[a].index
      BY <2>2, <2>3, <2>4, <3>2, SlotIsUnique
    <3> QED BY <1>2, <2>2, <2>3, <3>1, <3>3
  <2>6. CASE ReadSlot(AuditSlot(a))
    BY <2>1, <2>6 DEF ReadSlot
  <2> QED BY <1>1, <2>5, <2>6
<1>3. CASE a \notin Runners
  <2>1. AuditSlot(a) = <<a, call[a].of.id, readAt[a]>>
    BY <1>3 DEF AuditSlot
  <2>2. CASE SweepSlot(AuditSlot(a))
    BY <2>1, <2>2 DEF SweepSlot
  <2>3. CASE ReadSlot(AuditSlot(a))
    BY <2>1, <2>3 DEF ReadSlot
  <2> QED BY <1>1, <2>2, <2>3
<1> QED BY <1>2, <1>3

-----------------------------------------------------------------------------
(* A snapshot somebody has, or would take now.                             *)
Taken(s) ==
    \/ s.token = grant[s.id].token
    \/ \E a \in Actors : Refreshing(a) /\ call[a].of = s
    \/ \E r \in Runners : \E i \in DOMAIN sweep[r].todo : sweep[r].todo[i] = s

(* What a step may do to snapshots and tokens: a snapshot is taken of the  *)
(* stored token or passed on, a token is issued with the next rank, and    *)
(* what is stored was waiting for it.                                      *)
SnapshotStep ==
    /\ \A a \in Actors : call'[a] # NoCall => Taken(call'[a].of)
    /\ \A r \in Runners : \A i \in DOMAIN sweep'[r].todo : Taken(sweep'[r].todo[i])

IssueStep == \A g \in Grants : issued'[g] \in {issued[g], issued[g] + 1}

StoreStep ==
    \A g \in Grants :
        \/ grant'[g].token = grant[g].token
        \/ login[g] # 0 /\ grant'[g].token = login[g] /\ login'[g] = 0
        \/ \E a \in Actors : /\ Succeeded(a) /\ call[a].of.id = g
                             /\ grant'[g].token = call[a].token /\ call'[a].step # "record"

LoginStep ==
    \A g \in Grants :
        \/ login'[g] \in {0, login[g]}
        \/ call' = call /\ login'[g] = issued[g] + 1 /\ issued'[g] = issued[g] + 1

AnswerStep ==
    \A a \in Actors : call'[a].step = "record" /\ call'[a].outcome = "success" =>
        \/ call'[a] = call[a]
        \/ /\ login' = login
           /\ call'[a].token = issued[call'[a].of.id] + 1
           /\ issued'[call'[a].of.id] = issued[call'[a].of.id] + 1
           /\ \A b \in Actors \ {a} : call'[b] = call[b]

(* t is fresh after the step.                                              *)
FreshNext(g, t) ==
    /\ t # grant'[g].token
    /\ \A a \in Actors : call'[a] # NoCall /\ call'[a].of.id = g => call'[a].of.token # t
    /\ \A r \in Runners : \A i \in DOMAIN sweep'[r].todo :
          sweep'[r].todo[i].id = g => sweep'[r].todo[i].token # t

(* Such a step keeps every token that is not stored out of every snapshot. *)
LEMMA TokenStep ==
    ASSUME TypeOK, TypeOK', TokensAreIssued, NewTokensAreFresh,
           SnapshotStep, IssueStep, StoreStep, LoginStep, AnswerStep
    PROVE  TokensAreIssued' /\ NewTokensAreFresh'
<1>0. /\ call \in [Actors -> Call] /\ call' \in [Actors -> Call]
      /\ sweep \in [Runners -> Sweep] /\ sweep' \in [Runners -> Sweep]
      /\ issued \in [Grants -> Nat] /\ issued' \in [Grants -> Nat]
      /\ login \in [Grants -> Nat] /\ login' \in [Grants -> Nat]
      /\ grant \in [Grants -> Grant] /\ grant' \in [Grants -> Grant]
  BY DEF TypeOK
<1>1. \A a \in Actors : /\ call'[a] # NoCall => call'[a].of.id \in Grants /\ call'[a].of.token \in Nat
                        /\ call'[a].step = "record" => call'[a] # NoCall /\ call'[a].token \in Nat
  <2> TAKE a \in Actors
  <2>1. call'[a] \in Call
    BY <1>0
  <2> HIDE DEF NoCall
  <2>2. CASE call'[a] = NoCall
    BY <2>2 DEF NoCall
  <2>3. CASE call'[a] \in [step : {"load", "post"}, of : Snapshot]
    BY <2>3 DEF Snapshot
  <2>4. CASE call'[a] \in [step : {"record"}, of : Snapshot, outcome : Outcomes, token : Nat]
    BY <2>4 DEF Snapshot, NoCall
  <2> QED BY <2>1, <2>2, <2>3, <2>4 DEF Call
<1>2. \A g \in Grants : /\ grant[g].token \in Nat /\ grant'[g].token \in Nat /\ issued[g] \in Nat
                        /\ issued'[g] \in Nat /\ issued[g] <= issued'[g]
  BY <1>0 DEF Grant, IssueStep
<1>3. \A r \in Runners : \A i \in DOMAIN sweep'[r].todo :
         sweep'[r].todo[i].id \in Grants /\ sweep'[r].todo[i].token \in Nat
  <2> TAKE r \in Runners
  <2>1. sweep'[r].todo \in Seq(Snapshot)
    BY <1>0 DEF Sweep
  <2> TAKE i \in DOMAIN sweep'[r].todo
  <2>2. sweep'[r].todo[i] \in Snapshot
    BY <2>1
  <2> QED BY <2>2 DEF Snapshot
<1>4. ASSUME NEW s, s.id \in Grants, s.token \in Nat, Taken(s)
      PROVE  s.token <= issued[s.id]
  BY <1>2, <1>4 DEF Taken, TokensAreIssued
<1>5. \A g \in Grants : grant'[g].token <= issued[g]
  BY <1>2 DEF StoreStep, TokensAreIssued
<1>6. ASSUME NEW g \in Grants, NEW t, Fresh(g, t), t # grant'[g].token
      PROVE  FreshNext(g, t)
  <2>1. \A s : Taken(s) /\ s.id = g => s.token # t
    BY <1>6 DEF Taken, Fresh
  <2> QED BY <1>6, <2>1 DEF FreshNext, SnapshotStep
<1>7. ASSUME NEW g \in Grants PROVE FreshNext(g, issued[g] + 1)
  <2>1. \A a \in Actors : call'[a] # NoCall /\ call'[a].of.id = g => call'[a].of.token # issued[g] + 1
    BY <1>1, <1>2, <1>4 DEF SnapshotStep
  <2>2. \A r \in Runners : \A i \in DOMAIN sweep'[r].todo :
           sweep'[r].todo[i].id = g => sweep'[r].todo[i].token # issued[g] + 1
    BY <1>2, <1>3, <1>4 DEF SnapshotStep
  <2>3. issued[g] + 1 # grant'[g].token
    BY <1>2, <1>5
  <2> QED BY <2>1, <2>2, <2>3 DEF FreshNext
<1>8. ASSUME NEW a \in Actors, Succeeded(a)'
      PROVE  /\ FreshNext(call'[a].of.id, call'[a].token)
             /\ call'[a].token # login'[call'[a].of.id]
             /\ call'[a].token \in 1 .. issued'[call'[a].of.id]
  <2> DEFINE g == call'[a].of.id
  <2>0. g \in Grants /\ call'[a].token \in Nat /\ call'[a].step = "record" /\ call'[a].outcome = "success"
    BY <1>1, <1>8 DEF Succeeded
  <2>1. CASE call'[a] = call[a]
    <3>1. Succeeded(a) /\ call[a].of.id = g /\ Fresh(g, call[a].token) /\ call[a].token # login[g]
          /\ call[a].token \in 1 .. issued[g]
      BY <2>0, <2>1 DEF Succeeded, NewTokensAreFresh, TokensAreIssued
    <3>2. call[a].token # grant'[g].token
      BY <2>0, <2>1, <3>1 DEF StoreStep, NewTokensAreFresh, Fresh
    <3>3. call[a].token # login'[g]
      BY <1>2, <2>0, <3>1 DEF LoginStep
    <3>4. FreshNext(g, call[a].token)
      BY <1>6, <2>0, <3>1, <3>2
    <3> QED BY <1>2, <2>0, <2>1, <3>1, <3>3, <3>4
  <2>2. CASE /\ login' = login
             /\ call'[a].token = issued[g] + 1
             /\ issued'[g] = issued[g] + 1
    <3>1. login[g] <= issued[g] /\ login[g] \in Nat
      BY <1>0, <2>0 DEF TokensAreIssued
    <3> QED BY <1>2, <1>7, <2>0, <2>2, <3>1
  <2> QED BY <2>0, <2>1, <2>2 DEF AnswerStep
<1>9. ASSUME NEW g \in Grants
      PROVE  login'[g] <= issued'[g] /\ (login'[g] # 0 => FreshNext(g, login'[g]))
  <2>1. CASE login'[g] = 0
    BY <1>2, <2>1
  <2>2. CASE login'[g] = login[g] /\ login[g] # 0 /\ login'[g] # 0
    <3>1. Fresh(g, login[g]) /\ login[g] <= issued[g] /\ login[g] \in Nat
      BY <1>0, <2>2 DEF NewTokensAreFresh, TokensAreIssued
    <3>2. login[g] # grant'[g].token
      BY <2>2, <3>1 DEF StoreStep, NewTokensAreFresh, Fresh
    <3> QED BY <1>2, <1>6, <2>2, <3>1, <3>2
  <2>3. CASE login'[g] = issued[g] + 1 /\ issued'[g] = issued[g] + 1
    BY <1>2, <1>7, <2>3
  <2>4. \/ login'[g] = 0 \/ login'[g] = login[g]
        \/ login'[g] = issued[g] + 1 /\ issued'[g] = issued[g] + 1
    BY DEF LoginStep
  <2> QED BY <2>1, <2>2, <2>3, <2>4
<1>10. TokensAreIssued'
  <2>1. \A g \in Grants : grant'[g].token <= issued'[g] /\ login'[g] <= issued'[g]
    BY <1>2, <1>5, <1>9
  <2>2. \A a \in Actors : call'[a] # NoCall => call'[a].of.token <= issued'[call'[a].of.id]
    BY <1>1, <1>2, <1>4 DEF SnapshotStep
  <2>3. \A r \in Runners : \A i \in DOMAIN sweep'[r].todo :
           sweep'[r].todo[i].token <= issued'[sweep'[r].todo[i].id]
    BY <1>2, <1>3, <1>4 DEF SnapshotStep
  <2> QED BY <1>8, <2>1, <2>2, <2>3 DEF TokensAreIssued, Refreshing
<1>11. NewTokensAreFresh'
  <2>1. \A g \in Grants : login'[g] # 0 => Fresh(g, login[g])'
    BY <1>9 DEF FreshNext, Fresh, Refreshing
  <2>2. \A a \in Actors : Succeeded(a)' => Fresh(call[a].of.id, call[a].token)' /\ (call[a].token # login[call[a].of.id])'
    BY <1>8 DEF FreshNext, Fresh, Refreshing
  <2>3. ASSUME NEW a \in Actors, NEW b \in Actors, Succeeded(a)', Succeeded(b)',
               call'[a].of.id = call'[b].of.id, call'[a].token = call'[b].token
        PROVE  a = b
    <3>1. CASE call'[a] = call[a] /\ call'[b] = call[b]
      BY <2>3, <3>1 DEF NewTokensAreFresh, Succeeded
    <3>2. ASSUME NEW x \in Actors, NEW y \in Actors, Succeeded(x)', Succeeded(y)', x # y,
                 call'[x].of.id = call'[y].of.id, call'[x].token = call'[y].token, call'[x] # call[x]
          PROVE  FALSE
      <4>1. /\ call'[x].token = issued[call'[x].of.id] + 1
            /\ call'[y] = call[y]
        BY <3>2 DEF AnswerStep, Succeeded
      <4>2. call[y].token <= issued[call[y].of.id] /\ call[y].of.id \in Grants /\ call[y].token \in Nat
        BY <1>1, <1>2, <3>2, <4>1 DEF TokensAreIssued, Succeeded
      <4>3. call[y].of.id = call'[x].of.id /\ call[y].token = call'[x].token
        BY <3>2, <4>1
      <4>4. issued[call[y].of.id] \in Nat
        BY <1>2, <4>2
      <4> QED BY <4>1, <4>2, <4>3, <4>4
    <3> QED BY <2>3, <3>1, <3>2
  <2> QED BY <2>1, <2>2, <2>3 DEF NewTokensAreFresh
<1> QED BY <1>10, <1>11

-----------------------------------------------------------------------------
(* A refresh that keeps its snapshot, or ends, changes nothing in the race *)
(* for a grant whose row keeps its token: nobody's answer is lost by it.   *)
LEMMA RaceKept ==
    ASSUME NEW g \in Grants, OneLive(g), DeliveredIsPending(g),
           grant'[g].token = grant[g].token, delivered'[g] = delivered[g],
           grant'[g].state # "revoked" => grant[g].state # "revoked",
           grant[g].state \in Refreshable => grant'[g].state \in Refreshable \cup {"revoked"},
           \A a \in Actors : Live(a, g)' => Live(a, g) \/ \A b \in Actors \ {a} : ~ Live(b, g)',
           \A a \in Actors : Live(a, g)' /\ Succeeded(a)' =>
               Live(a, g) /\ Succeeded(a) /\ call'[a].token = call[a].token,
           \A a \in Actors : Live(a, g) /\ Succeeded(a) => Live(a, g)' /\ Succeeded(a)'
    PROVE  OneLive(g)' /\ DeliveredIsPending(g)'
<1>1. OneLive(g)'
  BY DEF OneLive
<1>2. ASSUME grant'[g].state # "revoked"
      PROVE  /\ \A a \in Actors : Live(a, g)' /\ Succeeded(a)' =>
                   call'[a].token = delivered'[g] /\ grant'[g].state \in Refreshable
             /\ (\A a \in Actors : ~ (Live(a, g)' /\ Succeeded(a)')) => grant'[g].token = delivered'[g]
  BY <1>2 DEF DeliveredIsPending
<1> QED BY <1>1, <1>2 DEF DeliveredIsPending

(* The races of all grants go on when nobody's refresh moves.              *)
LEMMA RacesKept ==
    ASSUME RacesAreWon, UNCHANGED <<call, delivered, contended>>,
           \A g \in Grants : /\ grant'[g].token = grant[g].token
                             /\ grant'[g].state # "revoked" => grant[g].state # "revoked"
                             /\ grant[g].state \in Refreshable => grant'[g].state \in Refreshable \cup {"revoked"}
    PROVE  RacesAreWon'
<1> SUFFICES ASSUME NEW g \in Grants \ contended PROVE OneLive(g)' /\ DeliveredIsPending(g)'
  BY DEF RacesAreWon
<1>1. \A a \in Actors : (Live(a, g)' <=> Live(a, g)) /\ (Succeeded(a)' <=> Succeeded(a)) /\ call'[a] = call[a]
  BY DEF Live, Succeeded, Refreshing
<1> QED BY <1>1, RaceKept DEF RacesAreWon

(* Sweeps, their windows and the slots of live reads stay as they are.     *)
LEMMA SweepsKept ==
    ASSUME SweepRuns, SlotsAreSpent, UNCHANGED <<leaseVars, sweep, call, readAt, audited>>
    PROVE  SweepRuns' /\ SlotsAreSpent'
<1>1. SweepRuns'
  BY DEF SweepRuns, leaseVars, Refreshing
<1>2. ASSUME NEW s \in audited PROVE SweepSlot(s)' \/ ReadSlot(s)'
  <2>1. CASE SweepSlot(s)
    BY <2>1 DEF SweepSlot, leaseVars
  <2>2. CASE ReadSlot(s)
    BY <2>2 DEF ReadSlot, Refreshing
  <2> QED BY <1>2, <2>1, <2>2 DEF SlotsAreSpent
<1> QED BY <1>1, <1>2 DEF SlotsAreSpent

(* No sweep comes to list a paused grant when none is paused.              *)
LEMMA PausesKept ==
    ASSUME PausedWhileListed, UNCHANGED <<sweep, overtaken>>,
           \A r \in Runners : \A i \in DOMAIN sweep[r].todo : sweep[r].todo[i].id \in Grants,
           \A g \in Grants : Paused(g)' => Paused(g) /\ grant'[g].token = grant[g].token
    PROVE  PausedWhileListed'
BY DEF PausedWhileListed

(* The ids in the list of a sweep are grants.                              *)
LEMMA ListedAreGrants ==
    ASSUME TypeOK, NEW r \in Runners, NEW i \in DOMAIN sweep[r].todo
    PROVE  sweep[r].todo[i] \in Snapshot /\ sweep[r].todo[i].id \in Grants /\ sweep[r].todo[i].token \in Nat
<1>1. sweep[r].todo \in Seq(Snapshot)
  BY DEF TypeOK, Sweep
<1>2. sweep[r].todo[i] \in Snapshot
  BY <1>1
<1> QED BY <1>2 DEF Snapshot

(* A step that leaves calls and sweeps alone takes no snapshot and answers *)
(* no refresh.                                                             *)
LEMMA NobodyMoves ==
    ASSUME UNCHANGED <<call, sweep>> PROVE SnapshotStep /\ AnswerStep
BY DEF SnapshotStep, AnswerStep, Taken, Refreshing

(* The user withdraws the authorization: tokens only stop being usable.    *)
LEMMA DeauthorizeInd ==
    ASSUME RefreshInd, LeaseInv', NEW g \in Grants, Deauthorize(g) PROVE RefreshInd'
<1>1. /\ UNCHANGED <<leaseVars, grant, login, issued, sweep, call, readAt, audited, recovery, errors,
                     delivered, contended, overtaken>>
      /\ usable' = [usable EXCEPT ![g] = {}]
  BY DEF Deauthorize
<1>2. TypeOK'
  <2>1. usable' \in [Grants -> SUBSET Nat] /\ \A h \in Grants : usable'[h] \subseteq usable[h]
    BY <1>1 DEF RefreshInd, TypeOK
  <2>2. \A h \in Grants : usable'[h] \subseteq 1 .. issued'[h]
    BY <1>1, <2>1 DEF RefreshInd, TypeOK
  <2>3. LeaseTypeOK'
    BY DEF LeaseInv
  <2> QED BY <1>1, <2>1, <2>2, <2>3 DEF RefreshInd, TypeOK
<1>3. TokensAreIssued' /\ NewTokensAreFresh'
  BY <1>1, <1>2, NobodyMoves, TokenStep DEF RefreshInd, IssueStep, StoreStep, LoginStep
<1>4. SweepRuns' /\ SlotsAreSpent'
  BY <1>1, SweepsKept DEF RefreshInd
<1>5. RefusedIsUnusable'
  <2>1. \A h \in Grants : usable'[h] \subseteq usable[h]
    BY <1>1 DEF RefreshInd, TypeOK
  <2>2. \A a \in Actors : call[a].step = "record" => call[a].of.id \in Grants
    BY CallFacts DEF RefreshInd, TypeOK
  <2> QED BY <1>1, <2>1, <2>2 DEF RefreshInd, RefusedIsUnusable
<1>6. RacesAreWon'
  BY <1>1, RacesKept DEF RefreshInd
<1>7. PausedWhileListed'
  BY <1>1, PausesKept, ListedAreGrants DEF RefreshInd, Paused
<1> QED BY <1>2, <1>3, <1>4, <1>5, <1>6, <1>7 DEF RefreshInd

(* A step on the row of a grant that keeps its token and pauses nothing.   *)
LEMMA RowStep ==
    ASSUME RefreshInd, LeaseInv',
           UNCHANGED <<leaseVars, login, issued, usable, sweep, call, readAt, audited, errors,
                       delivered, contended, overtaken>>,
           grant' \in [Grants -> Grant],
           recovery' \in [Recoveries -> [status : {"none", "confirmed", "succeeded", "failed"},
                                         id : Grants \cup {Null}, expected : Nat]],
           \A g \in Grants :
               /\ grant'[g].token = grant[g].token
               /\ grant'[g].state = grant[g].state \/ grant'[g].state = "revoked"
               /\ Paused(g)' => Paused(g)
    PROVE  RefreshInd'
<1>1. TypeOK'
  <2>1. LeaseTypeOK'
    BY DEF LeaseInv
  <2> QED BY <2>1 DEF RefreshInd, TypeOK
<1>2. TokensAreIssued' /\ NewTokensAreFresh'
  BY <1>1, NobodyMoves, TokenStep DEF RefreshInd, IssueStep, StoreStep, LoginStep
<1>3. SweepRuns' /\ SlotsAreSpent'
  BY SweepsKept DEF RefreshInd
<1>4. RefusedIsUnusable'
  BY DEF RefreshInd, RefusedIsUnusable
<1>5. RacesAreWon'
  BY RacesKept DEF RefreshInd
<1>6. PausedWhileListed'
  BY PausesKept, ListedAreGrants DEF RefreshInd
<1> QED BY <1>1, <1>2, <1>3, <1>4, <1>5, <1>6 DEF RefreshInd

(* Time passes for a grant; a logout revokes it.                           *)
LEMMA AgeInd == ASSUME RefreshInd, LeaseInv', NEW g \in Grants, Age(g) \/ RevokeGrant(g) PROVE RefreshInd'
<1>0. grant \in [Grants -> Grant] /\ now \in Nat /\ grant[g] \in Grant
  BY DEF RefreshInd, TypeOK, LeaseTypeOK
<1>1. UNCHANGED <<leaseVars, login, issued, usable, sweep, call, readAt, audited, recovery, errors,
                  delivered, contended, overtaken>>
  BY DEF Age, RevokeGrant
<1>2. \/ grant' = [grant EXCEPT ![g] = [grant[g] EXCEPT !.near = TRUE]]
      \/ grant' = [grant EXCEPT ![g] = [grant[g] EXCEPT !.state = "revoked", !.updated_at = now]]
  BY <1>0 DEF Age, RevokeGrant, Grant
<1>3. /\ [grant[g] EXCEPT !.near = TRUE] \in Grant
      /\ [grant[g] EXCEPT !.state = "revoked", !.updated_at = now] \in Grant
  BY <1>0 DEF Grant
<1>4. grant' \in [Grants -> Grant]
  BY <1>0, <1>2, <1>3
<1>5. ASSUME NEW h \in Grants
      PROVE  /\ grant'[h].token = grant[h].token
             /\ grant'[h].state = grant[h].state \/ grant'[h].state = "revoked"
             /\ Paused(h)' => Paused(h)
  <2>1. \/ grant'[h] = grant[h]
        \/ grant'[h] = [grant[h] EXCEPT !.near = TRUE]
        \/ grant'[h] = [grant[h] EXCEPT !.state = "revoked", !.updated_at = now]
    BY <1>0, <1>2
  <2>2. grant[h] \in Grant
    BY <1>0
  <2>3. /\ grant'[h].token = grant[h].token /\ grant'[h].error = grant[h].error
        /\ grant'[h].state = grant[h].state \/ grant'[h].state = "revoked"
    BY <2>1, <2>2 DEF Grant
  <2> QED BY <2>3 DEF Paused, Refreshable
<1> QED BY <1>1, <1>4, <1>5, RowStep DEF RefreshInd, TypeOK

(* The recovery of a paused grant resumes the version it was confirmed for.*)
LEMMA ResumeInd ==
    ASSUME RefreshInd, LeaseInv', NEW v \in Recoveries, ExecuteResume(v) \/ \E g \in Grants : ConfirmResume(v, g)
    PROVE  RefreshInd'
<1> DEFINE Rec == [status : {"none", "confirmed", "succeeded", "failed"}, id : Grants \cup {Null}, expected : Nat]
<1>0. /\ grant \in [Grants -> Grant] /\ now \in Nat /\ recovery \in [Recoveries -> Rec]
      /\ recovery[v] \in Rec
  BY DEF RefreshInd, TypeOK, LeaseTypeOK
<1>1. UNCHANGED <<leaseVars, login, issued, usable, sweep, call, readAt, audited, errors,
                  delivered, contended, overtaken>>
  BY DEF ExecuteResume, ConfirmResume
<1>2. recovery' \in [Recoveries -> Rec]
  <2>1. CASE ExecuteResume(v)
    <3>1. PICK s \in {"succeeded", "failed"} : recovery' = [recovery EXCEPT ![v] = [recovery[v] EXCEPT !.status = s]]
      BY <1>0, <2>1 DEF ExecuteResume
    <3>2. [recovery[v] EXCEPT !.status = s] \in Rec
      BY <1>0
    <3> HIDE DEF Rec
    <3> QED BY <1>0, <3>1, <3>2
  <2>2. ASSUME NEW g \in Grants, ConfirmResume(v, g) PROVE recovery' \in [Recoveries -> Rec]
    <3>1. recovery' = [recovery EXCEPT ![v] = [status |-> "confirmed", id |-> g, expected |-> grant[g].updated_at]]
      BY <2>2 DEF ConfirmResume
    <3>2. [status |-> "confirmed", id |-> g, expected |-> grant[g].updated_at] \in Rec
      BY <1>0 DEF Grant
    <3> HIDE DEF Rec
    <3> QED BY <1>0, <3>1, <3>2
  <2> QED BY <2>1, <2>2
<1>3. \/ UNCHANGED grant
      \/ \E g \in Grants : /\ grant' = [grant EXCEPT ![g] = [grant[g] EXCEPT !.error = "none", !.updated_at = now]]
                           /\ Paused(g)
  <2>1. CASE ExecuteResume(v)
    <3> DEFINE g == recovery[v].id
    <3>1. UNCHANGED grant \/ (Paused(g) /\ grant' = [grant EXCEPT ![g].error = "none", ![g].updated_at = now])
      BY <2>1 DEF ExecuteResume
    <3>2. CASE g \in Grants
      BY <1>0, <3>1, <3>2 DEF Grant
    <3>3. CASE g \notin Grants
      BY <1>0, <3>1, <3>3, ZenonT(60)
    <3> QED BY <3>2, <3>3
  <2>2. CASE \E g \in Grants : ConfirmResume(v, g)
    BY <2>2 DEF ConfirmResume
  <2> QED BY <2>1, <2>2
<1>4. \A g \in Grants : [grant[g] EXCEPT !.error = "none", !.updated_at = now] \in Grant
  BY <1>0, ZenonT(60) DEF Grant, Errors
<1>5. grant' \in [Grants -> Grant]
  BY <1>0, <1>3, <1>4
<1>6. ASSUME NEW h \in Grants
      PROVE  /\ grant'[h].token = grant[h].token
             /\ grant'[h].state = grant[h].state \/ grant'[h].state = "revoked"
             /\ Paused(h)' => Paused(h)
  <2>1. grant'[h] = grant[h] \/ grant'[h] = [grant[h] EXCEPT !.error = "none", !.updated_at = now]
    BY <1>0, <1>3
  <2>2. grant[h] \in Grant
    BY <1>0
  <2>3. /\ grant'[h].token = grant[h].token /\ grant'[h].error \in {"none", grant[h].error}
        /\ grant'[h].state = grant[h].state
    BY <2>1, <2>2 DEF Grant
  <2> QED BY <2>3 DEF Paused
<1> QED BY <1>1, <1>2, <1>5, <1>6, RowStep

(* A login obtains the token of the next rank, which nobody has seen.      *)
LEMMA ExchangeInd == ASSUME RefreshInd, LeaseInv', NEW g \in Grants, ExchangeCode(g) PROVE RefreshInd'
<1> DEFINE next == issued[g] + 1
<1>0. /\ issued \in [Grants -> Nat] /\ login \in [Grants -> Nat] /\ usable \in [Grants -> SUBSET Nat]
      /\ next \in Nat /\ issued[g] \in Nat /\ \A h \in Grants : usable[h] \subseteq 1 .. issued[h]
  BY DEF RefreshInd, TypeOK
<1>1. /\ UNCHANGED <<leaseVars, grant, sweep, call, readAt, audited, recovery, errors,
                     delivered, contended, overtaken>>
      /\ login' = [login EXCEPT ![g] = next]
  BY DEF ExchangeCode
<1>2. PICK gone : issued' = [issued EXCEPT ![g] = next] /\ usable' = [usable EXCEPT ![g] = (usable[g] \ gone) \cup {next}]
  BY <1>0 DEF ExchangeCode, Issue
<1>3. TypeOK'
  <2>1. issued' \in [Grants -> Nat] /\ login' \in [Grants -> Nat]
    BY <1>0, <1>1, <1>2
  <2>2. (usable[g] \ gone) \cup {next} \in SUBSET Nat
    BY <1>0
  <2>3. usable' \in [Grants -> SUBSET Nat]
    BY <1>0, <1>2, <2>2
  <2>4. \A h \in Grants : usable'[h] \subseteq 1 .. issued'[h]
    BY <1>0, <1>2
  <2>5. LeaseTypeOK'
    BY DEF LeaseInv
  <2> QED BY <1>1, <2>1, <2>3, <2>4, <2>5 DEF RefreshInd, TypeOK
<1>4. TokensAreIssued' /\ NewTokensAreFresh'
  <2>1. IssueStep
    BY <1>0, <1>2 DEF IssueStep
  <2>2. StoreStep
    BY <1>1 DEF StoreStep
  <2>3. LoginStep
    BY <1>0, <1>1, <1>2 DEF LoginStep
  <2> QED BY <1>1, <1>3, <2>1, <2>2, <2>3, NobodyMoves, TokenStep DEF RefreshInd
<1>5. SweepRuns' /\ SlotsAreSpent'
  BY <1>1, SweepsKept DEF RefreshInd
<1>6. RefusedIsUnusable'
  <2>1. \A h \in Grants, t \in Nat : t <= issued[h] /\ t \notin usable[h] => t \notin usable'[h]
    BY <1>0, <1>2
  <2>2. \A a \in Actors : call[a].step = "record" =>
           /\ call[a].of.id \in Grants /\ call[a].of.token \in Nat
           /\ call[a].of.token <= issued[call[a].of.id]
    BY CallFacts DEF RefreshInd, TypeOK, TokensAreIssued
  <2>3. \A h \in Grants : grant[h].token \in Nat /\ grant[h].token <= issued[h]
    BY DEF RefreshInd, TypeOK, Grant, TokensAreIssued
  <2> QED BY <1>1, <2>1, <2>2, <2>3 DEF RefreshInd, RefusedIsUnusable
<1>7. RacesAreWon'
  BY <1>1, RacesKept DEF RefreshInd
<1>8. PausedWhileListed'
  BY <1>1, PausesKept, ListedAreGrants DEF RefreshInd, Paused
<1> QED BY <1>3, <1>4, <1>5, <1>6, <1>7, <1>8 DEF RefreshInd

(* What a login stores no refresh under way has a snapshot of: the races   *)
(* that were on for the grant are off.                                     *)
LEMMA PersistInd == ASSUME RefreshInd, LeaseInv', NEW g \in Grants, PersistLoginGrant(g) PROVE RefreshInd'
<1> DEFINE row == [state |-> "valid", token |-> login[g], near |-> FALSE, error |-> "none", updated_at |-> now]
<1>0. /\ grant \in [Grants -> Grant] /\ login \in [Grants -> Nat] /\ delivered \in [Grants -> Nat]
      /\ now \in Nat /\ contended \subseteq Grants
  BY DEF RefreshInd, TypeOK, LeaseTypeOK
<1>1. /\ UNCHANGED <<leaseVars, issued, usable, sweep, call, readAt, audited, recovery, errors, overtaken>>
      /\ login[g] # 0
      /\ grant' = [grant EXCEPT ![g] = row]
      /\ login' = [login EXCEPT ![g] = 0]
      /\ delivered' = [delivered EXCEPT ![g] = login[g]]
      /\ contended' = contended \ {g}
  BY DEF PersistLoginGrant
<1>2. row \in Grant /\ row.token = login[g] /\ row.state = "valid" /\ row.error = "none"
  BY <1>0 DEF Grant, Refreshable, Errors
<1> HIDE DEF row
<1>3. /\ grant'[g] = row /\ \A h \in Grants \ {g} : grant'[h] = grant[h]
      /\ login'[g] = 0 /\ \A h \in Grants \ {g} : login'[h] = login[h]
      /\ delivered'[g] = login[g] /\ \A h \in Grants \ {g} : delivered'[h] = delivered[h]
  BY <1>0, <1>1
<1>4. TypeOK'
  <2>1. grant' \in [Grants -> Grant] /\ login' \in [Grants -> Nat] /\ delivered' \in [Grants -> Nat]
    BY <1>0, <1>1, <1>2
  <2>2. LeaseTypeOK'
    BY DEF LeaseInv
  <2> QED BY <1>0, <1>1, <2>1, <2>2 DEF RefreshInd, TypeOK
<1>5. TokensAreIssued' /\ NewTokensAreFresh'
  <2>1. IssueStep /\ StoreStep /\ LoginStep
    BY <1>1, <1>2, <1>3 DEF IssueStep, StoreStep, LoginStep
  <2> QED BY <1>1, <1>4, <2>1, NobodyMoves, TokenStep DEF RefreshInd
<1>6. SweepRuns' /\ SlotsAreSpent'
  BY <1>1, SweepsKept DEF RefreshInd
<1>7. RefusedIsUnusable'
  BY <1>1, <1>2, <1>3 DEF RefreshInd, RefusedIsUnusable
<1>8. RacesAreWon'
  <2> SUFFICES ASSUME NEW h \in Grants \ contended' PROVE OneLive(h)' /\ DeliveredIsPending(h)'
    BY DEF RacesAreWon
  <2>1. CASE h = g
    <3>1. Fresh(g, login[g])
      BY <1>1 DEF RefreshInd, NewTokensAreFresh
    <3>2. \A a \in Actors : ~ Live(a, g)'
      BY <1>1, <1>2, <1>3, <3>1 DEF Fresh, Live, Refreshing
    <3> QED BY <1>2, <1>3, <2>1, <3>2 DEF OneLive, DeliveredIsPending
  <2>2. CASE h # g
    <3>1. h \notin contended /\ OneLive(h) /\ DeliveredIsPending(h)
      BY <1>1, <2>2 DEF RefreshInd, RacesAreWon
    <3>2. \A a \in Actors : (Live(a, h)' <=> Live(a, h)) /\ (Succeeded(a)' <=> Succeeded(a)) /\ call'[a] = call[a]
      BY <1>1, <1>3, <2>2 DEF Live, Succeeded, Refreshing
    <3> QED BY <1>3, <2>2, <3>1, <3>2, RaceKept
  <2> QED BY <2>1, <2>2
<1>9. PausedWhileListed'
  <2>1. \A h \in Grants : Paused(h)' => Paused(h) /\ grant'[h].token = grant[h].token
    BY <1>2, <1>3 DEF Paused
  <2> QED BY <1>1, <2>1, PausesKept, ListedAreGrants DEF RefreshInd
<1> QED BY <1>4, <1>5, <1>6, <1>7, <1>8, <1>9 DEF RefreshInd

-----------------------------------------------------------------------------
(* A refresh that goes on keeps its snapshot and its place in the sweep.   *)
LEMMA CallGoesOn ==
    ASSUME RefreshInd, NEW a \in Actors, Refreshing(a), NEW c \in Call, c # NoCall, c.of = call[a].of,
           call' = [call EXCEPT ![a] = c], UNCHANGED <<leaseVars, sweep, readAt, audited>>
    PROVE  /\ call' \in [Actors -> Call] /\ call'[a] = c
           /\ \A b \in Actors \ {a} : call'[b] = call[b]
           /\ \A b \in Actors : (Refreshing(b)' <=> Refreshing(b)) /\ (Refreshing(b) => call'[b].of = call[b].of)
           /\ SnapshotStep /\ SweepRuns' /\ SlotsAreSpent'
<1>1. call \in [Actors -> Call]
  BY DEF RefreshInd, TypeOK
<1>2. /\ call' \in [Actors -> Call] /\ call'[a] = c
      /\ \A b \in Actors \ {a} : call'[b] = call[b]
  BY <1>1
<1>3. \A b \in Actors : /\ call'[b] # NoCall <=> call[b] # NoCall
                        /\ call[b] # NoCall => call'[b].of = call[b].of
  BY <1>2 DEF Refreshing
<1>4. SnapshotStep
  BY <1>3 DEF SnapshotStep, Taken, Refreshing
<1>5. SweepRuns'
  <2>1. \A r \in Runners : r \in Actors
    BY DEF Actors
  <2> QED BY <1>3, <2>1 DEF RefreshInd, SweepRuns, leaseVars, Refreshing
<1>6. ASSUME NEW s \in audited PROVE SweepSlot(s)' \/ ReadSlot(s)'
  <2>1. CASE SweepSlot(s)
    BY <2>1 DEF SweepSlot, leaseVars
  <2>2. CASE ReadSlot(s)
    <3>1. \A l \in Readers : l \in Actors
      BY DEF Actors
    <3> QED BY <1>3, <2>2, <3>1 DEF ReadSlot, Refreshing
  <2> QED BY <1>6, <2>1, <2>2 DEF RefreshInd, SlotsAreSpent
<1> QED BY <1>2, <1>3, <1>4, <1>5, <1>6 DEF SlotsAreSpent, Refreshing

(* The adapter loads the material, and posts it or gives up.               *)
LEMMA LoadInd == ASSUME RefreshInd, LeaseInv', NEW a \in Actors, LoadMaterial(a) PROVE RefreshInd'
<1> DEFINE of == call[a].of
           post == [step |-> "post", of |-> of]
           moved == [step |-> "record", of |-> of, outcome |-> "transient", token |-> 0]
<1>0. call \in [Actors -> Call] /\ Refreshing(a) /\ of \in Snapshot /\ call[a].step = "load"
  <2>1. call \in [Actors -> Call] /\ call[a].step = "load"
    BY DEF RefreshInd, TypeOK, LoadMaterial
  <2> QED BY <2>1, CallFacts
<1>1. UNCHANGED <<leaseVars, grant, login, issued, usable, sweep, readAt, audited, recovery, errors,
                  delivered, contended, overtaken>>
  BY DEF LoadMaterial
<1>2. PICK c \in {post, moved} : call' = [call EXCEPT ![a] = c]
  BY DEF LoadMaterial
<1>3. c \in Call /\ c # NoCall /\ c.of = of /\ ~ (c.step = "record" /\ c.outcome \in {"success", "reauth"})
  <2>1. CASE c = post
    <3>1. post \in [step : {"load", "post"}, of : Snapshot]
      BY <1>0
    <3> QED BY <2>1, <3>1 DEF Call, NoCall
  <2>2. CASE c = moved
    <3>1. moved \in [step : {"record"}, of : Snapshot, outcome : Outcomes, token : Nat]
      BY <1>0 DEF Outcomes
    <3> QED BY <2>2, <3>1 DEF Call, NoCall
  <2> QED BY <2>1, <2>2
<1> HIDE DEF of, post, moved
<1>4. /\ call' \in [Actors -> Call] /\ call'[a] = c
      /\ \A b \in Actors \ {a} : call'[b] = call[b]
      /\ \A b \in Actors : (Refreshing(b)' <=> Refreshing(b)) /\ (Refreshing(b) => call'[b].of = call[b].of)
      /\ SnapshotStep /\ SweepRuns' /\ SlotsAreSpent'
  <2>1. c.of = call[a].of
    BY <1>3 DEF of
  <2> QED BY <1>0, <1>1, <1>2, <1>3, <2>1, CallGoesOn
<1>5. TypeOK'
  <2>1. LeaseTypeOK'
    BY DEF LeaseInv
  <2> QED BY <1>1, <1>4, <2>1 DEF RefreshInd, TypeOK
<1>6. TokensAreIssued' /\ NewTokensAreFresh'
  <2>1. IssueStep /\ StoreStep /\ LoginStep
    BY <1>1 DEF IssueStep, StoreStep, LoginStep
  <2>2. AnswerStep
    BY <1>3, <1>4 DEF AnswerStep
  <2> QED BY <1>4, <1>5, <2>1, <2>2, TokenStep DEF RefreshInd
<1>7. RefusedIsUnusable'
  BY <1>1, <1>3, <1>4 DEF RefreshInd, RefusedIsUnusable
<1>8. RacesAreWon'
  <2> SUFFICES ASSUME NEW g \in Grants \ contended PROVE OneLive(g)' /\ DeliveredIsPending(g)'
    BY <1>1 DEF RacesAreWon
  <2>1. \A b \in Actors : Live(b, g)' <=> Live(b, g)
    BY <1>1, <1>4 DEF Live
  <2>2. \A b \in Actors : (Succeeded(b)' <=> Succeeded(b)) /\ (Succeeded(b) => call'[b] = call[b])
    BY <1>0, <1>3, <1>4 DEF Succeeded
  <2> QED BY <1>1, <2>1, <2>2, RaceKept DEF RefreshInd, RacesAreWon
<1>9. PausedWhileListed'
  BY <1>1, PausesKept, ListedAreGrants DEF RefreshInd, Paused
<1> QED BY <1>4, <1>5, <1>6, <1>7, <1>8, <1>9 DEF RefreshInd

(* Feishu answers.  A refusal, a rotation that is lost and one that is     *)
(* answered: the last is delivered, if its refresh is the live one.        *)
LEMMA PostInd == ASSUME RefreshInd, LeaseInv', NEW a \in Actors, PostRefresh(a) PROVE RefreshInd'
<1> DEFINE of == call[a].of
           g == of.id
           t == of.token
           next == issued[g] + 1
<1>0. /\ call \in [Actors -> Call] /\ Refreshing(a) /\ of \in Snapshot /\ call[a].step = "post"
      /\ g \in Grants /\ t \in Nat
  <2>1. call \in [Actors -> Call] /\ call[a].step = "post"
    BY DEF RefreshInd, TypeOK, PostRefresh
  <2> QED BY <2>1, CallFacts
<1>1. /\ issued \in [Grants -> Nat] /\ usable \in [Grants -> SUBSET Nat] /\ delivered \in [Grants -> Nat]
      /\ issued[g] \in Nat /\ next \in Nat /\ \A h \in Grants : usable[h] \subseteq 1 .. issued[h]
  BY <1>0 DEF RefreshInd, TypeOK
<1>2. UNCHANGED <<leaseVars, grant, login, sweep, readAt, audited, recovery, errors, contended, overtaken>>
  BY DEF PostRefresh
<1>3. PICK o \in Outcomes, k \in Nat :
         /\ call' = [call EXCEPT ![a] = [step |-> "record", of |-> of, outcome |-> o, token |-> k]]
         /\ o = "success" => k = next /\ t \in usable[g] /\ Issue(g, {t})
         /\ o = "success" => delivered' = IF grant[g].token = t THEN [delivered EXCEPT ![g] = next] ELSE delivered
         /\ o # "success" => UNCHANGED delivered
         /\ o = "reauth" => t \notin usable[g] /\ UNCHANGED usable
         /\ Issue(g, {t}) \/ UNCHANGED <<issued, usable>>
  <2>1. CASE /\ t \in usable[g] /\ Issue(g, {t})
             /\ Answer(a, "success", issued[g] + 1)
             /\ delivered' = IF grant[g].token = t THEN [delivered EXCEPT ![g] = issued[g] + 1] ELSE delivered
    <3>1. call' = [call EXCEPT ![a] = [step |-> "record", of |-> of, outcome |-> "success", token |-> next]]
      BY <1>0, <2>1 DEF Answer
    <3> HIDE DEF of, g, t
    <3> QED BY <1>1, <2>1, <3>1 DEF Outcomes
  <2>2. CASE /\ t \in usable[g] /\ Issue(g, {t}) /\ \E lost \in {"transient", "config"} : Answer(a, lost, 0)
             /\ UNCHANGED delivered
    <3>1. PICK lost \in {"transient", "config"} :
             call' = [call EXCEPT ![a] = [step |-> "record", of |-> of, outcome |-> lost, token |-> 0]]
      BY <1>0, <2>2 DEF Answer
    <3> HIDE DEF of, g, t, next
    <3> QED BY <2>2, <3>1 DEF Outcomes
  <2>3. CASE /\ \E refusal \in {"transient", "config"} \cup (IF t \in usable[g] THEN {} ELSE {"reauth"}) :
                   Answer(a, refusal, 0)
             /\ UNCHANGED <<issued, usable, delivered>>
    <3>1. PICK refusal \in {"transient", "config"} \cup (IF t \in usable[g] THEN {} ELSE {"reauth"}) :
             call' = [call EXCEPT ![a] = [step |-> "record", of |-> of, outcome |-> refusal, token |-> 0]]
      BY <1>0, <2>3 DEF Answer
    <3> HIDE DEF of, g, t, next
    <3> QED BY <2>3, <3>1 DEF Outcomes
  <2> QED BY <2>1, <2>2, <2>3 DEF PostRefresh
<1> DEFINE c == [step |-> "record", of |-> of, outcome |-> o, token |-> k]
<1>4. c \in Call /\ c # NoCall /\ c.of = of /\ c.step = "record" /\ c.outcome = o /\ c.token = k
  <2>1. c \in [step : {"record"}, of : Snapshot, outcome : Outcomes, token : Nat]
    BY <1>0
  <2> QED BY <2>1 DEF Call, NoCall
<1> HIDE DEF c
<1>5. /\ call' \in [Actors -> Call] /\ call'[a] = c
      /\ \A b \in Actors \ {a} : call'[b] = call[b]
      /\ \A b \in Actors : (Refreshing(b)' <=> Refreshing(b)) /\ (Refreshing(b) => call'[b].of = call[b].of)
      /\ SnapshotStep /\ SweepRuns' /\ SlotsAreSpent'
  <2>1. c.of = call[a].of /\ call' = [call EXCEPT ![a] = c]
    BY <1>3, <1>4 DEF c
  <2> QED BY <1>0, <1>2, <1>4, <2>1, CallGoesOn
<1> HIDE DEF of, g, t, next
<1>6. /\ issued' \in [Grants -> Nat] /\ usable' \in [Grants -> SUBSET Nat]
      /\ \A h \in Grants : usable'[h] \subseteq 1 .. issued'[h]
      /\ \A h \in Grants : issued'[h] \in {issued[h], issued[h] + 1}
      /\ \A h \in Grants, u \in Nat : u <= issued[h] /\ u \notin usable[h] => u \notin usable'[h]
      /\ o = "success" => issued'[g] = next
  <2>1. CASE Issue(g, {t})
    <3>1. PICK gone : issued' = [issued EXCEPT ![g] = next] /\ usable' = [usable EXCEPT ![g] = (usable[g] \ gone) \cup {next}]
      BY <1>0, <1>1, <2>1 DEF Issue, next
    <3>2. (usable[g] \ gone) \cup {next} \in SUBSET Nat
      BY <1>0, <1>1
    <3>3. issued' \in [Grants -> Nat] /\ usable' \in [Grants -> SUBSET Nat] /\ issued'[g] = next
      BY <1>0, <1>1, <3>1, <3>2
    <3> QED BY <1>0, <1>1, <3>1, <3>3 DEF next
  <2>2. CASE UNCHANGED <<issued, usable>> /\ o # "success"
    BY <1>1, <2>2
  <2> QED BY <1>3, <2>1, <2>2
<1>7. delivered' \in [Grants -> Nat] /\ \A h \in Grants : h # g \/ grant[g].token # t \/ o # "success" => delivered'[h] = delivered[h]
  BY <1>0, <1>1, <1>3
<1>8. TypeOK'
  <2>1. LeaseTypeOK'
    BY DEF LeaseInv
  <2> QED BY <1>2, <1>5, <1>6, <1>7, <2>1 DEF RefreshInd, TypeOK
<1>9. TokensAreIssued' /\ NewTokensAreFresh'
  <2>1. IssueStep /\ StoreStep /\ LoginStep
    BY <1>2, <1>6 DEF IssueStep, StoreStep, LoginStep
  <2>2. c.of.id = g
    BY <1>4 DEF g
  <2>3. AnswerStep
    BY <1>2, <1>3, <1>4, <1>5, <1>6, <2>2 DEF AnswerStep, next
  <2> QED BY <1>5, <1>8, <2>1, <2>3, TokenStep DEF RefreshInd
<1>10. RefusedIsUnusable'
  <2>1. \A b \in Actors : call[b].step = "record" =>
           /\ call[b].of.id \in Grants /\ call[b].of.token \in Nat
           /\ call[b].of.token <= issued[call[b].of.id]
    BY CallFacts DEF RefreshInd, TypeOK, TokensAreIssued
  <2>2. \A h \in Grants : grant[h].token \in Nat /\ grant[h].token <= issued[h]
    BY DEF RefreshInd, TypeOK, Grant, TokensAreIssued
  <2>3. c.outcome = "reauth" => c.of.token \notin usable'[c.of.id]
    BY <1>3, <1>4 DEF g, t
  <2>4. ASSUME NEW b \in Actors, call'[b].step = "record", call'[b].outcome = "reauth"
        PROVE  call'[b].of.token \notin usable'[call'[b].of.id]
    <3>1. CASE b = a
      BY <1>5, <2>3, <2>4, <3>1
    <3>2. CASE b # a
      BY <1>5, <1>6, <2>1, <2>4, <3>2 DEF RefreshInd, RefusedIsUnusable
    <3> QED BY <3>1, <3>2
  <2>5. \A h \in Grants : grant'[h].state \in {"none", "reauth_required"} => grant'[h].token \notin usable'[h]
    BY <1>2, <1>6, <2>2 DEF RefreshInd, RefusedIsUnusable
  <2> QED BY <2>4, <2>5 DEF RefusedIsUnusable
<1>11. RacesAreWon'
  <2> SUFFICES ASSUME NEW h \in Grants \ contended PROVE OneLive(h)' /\ DeliveredIsPending(h)'
    BY <1>2 DEF RacesAreWon
  <2>0. OneLive(h) /\ DeliveredIsPending(h)
    BY DEF RefreshInd, RacesAreWon
  <2>1. \A b \in Actors : Live(b, h)' <=> Live(b, h)
    BY <1>2, <1>5 DEF Live
  <2>2. \A b \in Actors \ {a} : (Succeeded(b)' <=> Succeeded(b)) /\ call'[b] = call[b]
    BY <1>5 DEF Succeeded
  <2>3. ~ Succeeded(a) /\ (Succeeded(a)' <=> o = "success")
    BY <1>0, <1>4, <1>5 DEF Succeeded
  <2>4. CASE ~ Live(a, h) \/ o # "success"
    <3>1. delivered'[h] = delivered[h]
      BY <1>0, <1>7, <2>4 DEF Live, g, t, of
    <3>2. grant'[h] = grant[h]
      BY <1>2
    <3>3. \A b \in Actors : (Live(b, h)' /\ Succeeded(b)') <=> (Live(b, h) /\ Succeeded(b))
      BY <2>1, <2>2, <2>3, <2>4
    <3>4. \A b \in Actors : Live(b, h)' /\ Succeeded(b)' => call'[b].token = call[b].token
      BY <2>2, <2>3, <3>3
    <3> QED BY <2>0, <2>1, <3>1, <3>2, <3>3, <3>4, RaceKept
  <2>5. CASE Live(a, h) /\ o = "success"
    <3>1. h = g /\ grant[g].token = t
      BY <2>5 DEF Live, g, t, of
    <3>2. delivered'[h] = call'[a].token
      BY <1>0, <1>1, <1>3, <1>4, <1>5, <2>5, <3>1
    <3>3. \A b \in Actors : Live(b, h)' => b = a
      BY <2>0, <2>1, <2>5 DEF OneLive
    <3>4. grant'[h].state \in Refreshable \cup {"revoked"}
      <4>1. grant[h].token \in usable[h] /\ grant[h].state \in Refreshable \cup {"none", "reauth_required", "revoked"}
        BY <1>3, <2>5, <3>1 DEF RefreshInd, TypeOK, Grant
      <4> QED BY <1>2, <4>1 DEF RefreshInd, RefusedIsUnusable
    <3>5. Live(a, h)' /\ Succeeded(a)'
      BY <2>1, <2>3, <2>5
    <3> QED BY <3>2, <3>3, <3>4, <3>5 DEF OneLive, DeliveredIsPending
  <2> QED BY <2>4, <2>5
<1>12. PausedWhileListed'
  BY <1>2, PausesKept, ListedAreGrants DEF RefreshInd, Paused
<1> QED BY <1>5, <1>8, <1>9, <1>10, <1>11, <1>12 DEF RefreshInd

-----------------------------------------------------------------------------
(* What is left of the list of a sweep when a refresh of it ends.          *)
NextCall(a, ok) == IF ok /\ Len(sweep[a].todo) > 1 THEN Begin(sweep[a].todo[2]) ELSE NoCall
RestOf(a, ok) == [todo |-> IF ok THEN Tail(sweep[a].todo) ELSE <<>>, index |-> sweep[a].index + 1,
                  more |-> sweep[a].more, listed |-> sweep[a].listed, failed |-> ~ ok]

(* The end of a refresh of a sweep: the next candidate is begun, or the    *)
(* list is dropped.                                                        *)
LEMMA SweepMovesOn ==
    ASSUME RefreshInd, NEW a \in Runners, Refreshing(a), NEW ok \in BOOLEAN, EndCall(a, ok)
    PROVE  /\ sweep' = [sweep EXCEPT ![a] = RestOf(a, ok)] /\ RestOf(a, ok) \in Sweep
           /\ call' = [call EXCEPT ![a] = NextCall(a, ok)] /\ NextCall(a, ok) \in Call
           /\ NextCall(a, ok) # NoCall <=> RestOf(a, ok).todo # <<>>
           /\ NextCall(a, ok) # NoCall => /\ ok /\ 2 \in DOMAIN sweep[a].todo
                                          /\ NextCall(a, ok).step = "load"
                                          /\ NextCall(a, ok).of = sweep[a].todo[2]
                                          /\ RestOf(a, ok).todo[1] = sweep[a].todo[2]
           /\ \A i \in DOMAIN RestOf(a, ok).todo :
                 i \in Nat \ {0} /\ i + 1 \in DOMAIN sweep[a].todo /\ RestOf(a, ok).todo[i] = sweep[a].todo[i + 1]
           /\ RestOf(a, ok).index + Len(RestOf(a, ok).todo) <= Limit \/ RestOf(a, ok).todo = <<>>
<1>0. /\ sweep \in [Runners -> Sweep] /\ sweep[a] \in Sweep /\ sweep[a].index \in Nat
      /\ sweep[a].todo \in Seq(Snapshot) /\ Len(sweep[a].todo) \in Nat \ {0}
      /\ sweep[a].index + Len(sweep[a].todo) <= Limit
  BY IndexInWindow DEF RefreshInd, TypeOK, Sweep
<1>1. a \notin Readers
  BY RefreshConfig
<1> DEFINE todo == sweep[a].todo
           rest == IF ok THEN Tail(todo) ELSE <<>>
<1>2. /\ rest \in Seq(Snapshot)
      /\ \A i \in DOMAIN rest : i \in Nat \ {0} /\ i + 1 \in DOMAIN todo /\ rest[i] = todo[i + 1]
      /\ rest # <<>> <=> ok /\ Len(todo) > 1
      /\ ok => Len(rest) = Len(todo) - 1
  <2>1. CASE ok
    <3>1. Tail(todo) \in Seq(Snapshot) /\ Len(Tail(todo)) = Len(todo) - 1
          /\ \A i \in 1 .. Len(todo) - 1 : Tail(todo)[i] = todo[i + 1]
      BY <1>0
    <3>2. DOMAIN Tail(todo) = 1 .. Len(todo) - 1 /\ DOMAIN todo = 1 .. Len(todo)
      BY <1>0, <3>1
    <3>3. Tail(todo) # <<>> <=> Len(todo) > 1
      <4>1. \A q \in Seq(Snapshot) : q = <<>> <=> Len(q) = 0
        OBVIOUS
      <4>2. Len(Tail(todo)) = 0 <=> ~ Len(todo) > 1
        <5> DEFINE m == Len(todo)
                   k == Len(Tail(todo))
        <5>1. m \in Nat \ {0} /\ k = m - 1
          BY <1>0, <3>1
        <5> HIDE DEF m, k
        <5>2. k = 0 <=> ~ m > 1
          BY <5>1
        <5> QED BY <5>2 DEF m, k
      <4> QED BY <3>1, <4>1, <4>2
    <3> QED BY <1>0, <2>1, <3>1, <3>2, <3>3
  <2>2. CASE ~ ok
    BY <2>2
  <2> QED BY <2>1, <2>2
<1>3. sweep' = [sweep EXCEPT ![a] = RestOf(a, ok)]
  BY <1>0, <1>1 DEF EndCall, RestOf, Sweep
<1>4. RestOf(a, ok) \in Sweep /\ RestOf(a, ok).todo = rest /\ RestOf(a, ok).index = sweep[a].index + 1
  <2>1. sweep[a].index + 1 \in Nat
    BY <1>0
  <2>3. sweep[a].more \in BOOLEAN /\ sweep[a].listed \in BOOLEAN
    BY <1>0 DEF Sweep
  <2>4. (~ ok) \in BOOLEAN
    OBVIOUS
  <2> HIDE DEF rest
  <2>2. RestOf(a, ok) = [todo |-> rest, index |-> sweep[a].index + 1, more |-> sweep[a].more,
                         listed |-> sweep[a].listed, failed |-> ~ ok]
    BY DEF RestOf, rest
  <2> QED BY <1>2, <2>1, <2>2, <2>3, <2>4 DEF Sweep
<1>5. call' = [call EXCEPT ![a] = NextCall(a, ok)]
  BY <1>1 DEF EndCall, NextCall
<1>6. CASE ok /\ Len(todo) > 1
  <2>1. 2 \in DOMAIN todo /\ 1 \in DOMAIN rest /\ todo[2] \in Snapshot
    BY <1>0, <1>2, <1>6
  <2>2. NextCall(a, ok) = [step |-> "load", of |-> todo[2]]
    BY <1>6 DEF NextCall, Begin
  <2>3. [step |-> "load", of |-> todo[2]] \in [step : {"load", "post"}, of : Snapshot]
    BY <2>1
  <2>4. NextCall(a, ok) \in Call /\ NextCall(a, ok) # NoCall
    BY <2>2, <2>3 DEF Call, NoCall
  <2>5. rest[1] = todo[2]
    BY <1>2, <2>1
  <2>6. sweep[a].index + 1 + Len(rest) <= Limit
    BY <1>0, <1>2, <1>6, RefreshConfig
  <2>7. rest # <<>> /\ NextCall(a, ok).step = "load" /\ NextCall(a, ok).of = todo[2]
    <3>1. rest # <<>>
      BY <1>2, <1>6
    <3> HIDE DEF rest, todo
    <3> QED BY <2>2, <3>1
  <2>8. /\ NextCall(a, ok) # NoCall <=> RestOf(a, ok).todo # <<>>
        /\ RestOf(a, ok).todo[1] = todo[2] /\ RestOf(a, ok).index + Len(RestOf(a, ok).todo) <= Limit
    <3> HIDE DEF rest, todo
    <3> QED BY <1>4, <2>4, <2>5, <2>6, <2>7
  <2> HIDE DEF rest
  <2> QED BY <1>2, <1>3, <1>4, <1>5, <1>6, <2>1, <2>4, <2>7, <2>8
<1>7. CASE ~ (ok /\ Len(todo) > 1)
  <2>1. NextCall(a, ok) = NoCall /\ NoCall \in Call
    BY <1>7 DEF NextCall, Call
  <2> HIDE DEF rest
  <2> QED BY <1>2, <1>3, <1>4, <1>5, <1>7, <2>1
<1> QED BY <1>6, <1>7

(* A refresh ends, whoever it was of, its event written or not: sweeps     *)
(* stay in their windows, and the slot is counted.                         *)
LEMMA CallEnds ==
    ASSUME RefreshInd, NEW a \in Actors, call[a].step = "record", NEW ok \in BOOLEAN, EndCall(a, ok),
           UNCHANGED <<leaseVars, readAt>>, audited' \subseteq audited \cup {AuditSlot(a)}
    PROVE  /\ call' \in [Actors -> Call] /\ sweep' \in [Runners -> Sweep]
           /\ \A b \in Actors \ {a} : call'[b] = call[b]
           /\ \A r \in Runners \ {a} : sweep'[r] = sweep[r]
           /\ call'[a].step # "record"
           /\ call'[a] # NoCall => /\ a \in Runners /\ ok /\ 2 \in DOMAIN sweep[a].todo
                                   /\ call'[a].of = sweep[a].todo[2]
           /\ a \in Runners => \A i \in DOMAIN sweep'[a].todo :
                 i \in Nat \ {0} /\ i + 1 \in DOMAIN sweep[a].todo /\ sweep'[a].todo[i] = sweep[a].todo[i + 1]
           /\ SnapshotStep /\ SweepRuns' /\ SlotsAreSpent'
<1>0. /\ call \in [Actors -> Call] /\ sweep \in [Runners -> Sweep] /\ Refreshing(a) /\ call[a].of.id \in Grants
      /\ readAt \in [Readers -> Nat] /\ \A r \in Runners : r \in Actors
  <2>1. call \in [Actors -> Call] /\ sweep \in [Runners -> Sweep] /\ readAt \in [Readers -> Nat]
    BY DEF RefreshInd, TypeOK
  <2>2. \A r \in Runners : r \in Actors
    BY DEF Actors
  <2> QED BY <2>1, <2>2, CallFacts
<1>1. ASSUME NEW s \in audited
      PROVE  SweepSlot(s) \/ ReadSlot(s)
  BY DEF RefreshInd, SlotsAreSpent
<1>2. CASE a \in Readers
  <2>0. a \notin Runners
    BY <1>2, RefreshConfig
  <2>1. call' = [call EXCEPT ![a] = NoCall] /\ sweep' = sweep
    BY <1>2 DEF EndCall
  <2>2. /\ call' \in [Actors -> Call] /\ call'[a] = NoCall /\ NoCall.step = "none"
        /\ \A b \in Actors \ {a} : call'[b] = call[b]
    <3>1. NoCall \in Call /\ NoCall.step = "none"
      BY DEF Call, NoCall
    <3> HIDE DEF NoCall
    <3> QED BY <1>0, <2>1, <3>1
  <2>3. SnapshotStep
    BY <2>1, <2>2 DEF SnapshotStep, Taken, Refreshing
  <2>4. SweepRuns'
    <3>1. \A r \in Runners : call'[r] = call[r]
      BY <1>0, <2>0, <2>2
    <3> QED BY <2>1, <3>1 DEF RefreshInd, SweepRuns, leaseVars, Refreshing
  <2>5. ASSUME NEW s \in audited' PROVE SweepSlot(s)' \/ ReadSlot(s)'
    <3>1. CASE SweepSlot(s)
      BY <2>1, <3>1 DEF SweepSlot, leaseVars
    <3>2. CASE ReadSlot(s)
      <4>1. \A l \in Readers : l \in Actors
        BY DEF Actors
      <4>2. \A l \in Readers : call'[l] # NoCall => call[l] # NoCall
        BY <2>2, <4>1
      <4> QED BY <3>2, <4>2 DEF ReadSlot, Refreshing
    <3>3. CASE s = AuditSlot(a)
      <4>1. s = <<a, call[a].of.id, readAt[a]>>
        BY <2>0, <3>3 DEF AuditSlot
      <4>2. readAt[a] \in 0 .. readAt[a]
        BY <1>0, <1>2
      <4>3. readAt' = readAt /\ ~ Refreshing(a)'
        BY <2>2 DEF Refreshing
      <4> QED BY <1>0, <1>2, <4>1, <4>2, <4>3 DEF ReadSlot
    <3> QED BY <1>1, <2>5, <3>1, <3>2, <3>3
  <2> QED BY <1>0, <2>0, <2>1, <2>2, <2>3, <2>4, <2>5 DEF SlotsAreSpent
<1>3. CASE a \in Runners
  <2> DEFINE rest == RestOf(a, ok)
             next == NextCall(a, ok)
  <2>1. /\ sweep' = [sweep EXCEPT ![a] = rest] /\ rest \in Sweep
        /\ call' = [call EXCEPT ![a] = next] /\ next \in Call
        /\ next # NoCall <=> rest.todo # <<>>
        /\ next # NoCall => /\ ok /\ 2 \in DOMAIN sweep[a].todo
                            /\ next.step = "load" /\ next.of = sweep[a].todo[2] /\ rest.todo[1] = sweep[a].todo[2]
        /\ \A i \in DOMAIN rest.todo :
              i \in Nat \ {0} /\ i + 1 \in DOMAIN sweep[a].todo /\ rest.todo[i] = sweep[a].todo[i + 1]
        /\ rest.index + Len(rest.todo) <= Limit \/ rest.todo = <<>>
    BY <1>0, <1>3, SweepMovesOn
  <2>2. /\ at[a] = "sweep" /\ lease[a].attempt_count \in 1 .. job.attempt_count
        /\ sweep[a].index \in 0 .. Window - 1
    BY <1>0, <1>3, IndexInWindow
  <2>3. rest.index = sweep[a].index + 1 /\ rest.listed = sweep[a].listed
    BY DEF RestOf
  <2> HIDE DEF rest, next
  <2>4. /\ call' \in [Actors -> Call] /\ sweep' \in [Runners -> Sweep]
        /\ call'[a] = next /\ sweep'[a] = rest
        /\ \A b \in Actors \ {a} : call'[b] = call[b]
        /\ \A r \in Runners \ {a} : sweep'[r] = sweep[r]
    BY <1>0, <1>3, <2>1
  <2>5. next.step # "record"
    BY <2>1 DEF NoCall
  <2>6. SnapshotStep
    <3>1. ASSUME NEW i \in DOMAIN sweep[a].todo PROVE Taken(sweep[a].todo[i])
      BY <1>3 DEF Taken
    <3>2. \A b \in Actors : call'[b] # NoCall => Taken(call'[b].of)
      <4>1. ASSUME NEW b \in Actors \ {a}, call'[b] # NoCall PROVE Taken(call'[b].of)
        BY <2>4, <4>1 DEF Taken, Refreshing
      <4>2. call'[a] # NoCall => Taken(call'[a].of)
        BY <2>1, <2>4, <3>1
      <4> QED BY <4>1, <4>2
    <3>3. ASSUME NEW r \in Runners, NEW i \in DOMAIN sweep'[r].todo PROVE Taken(sweep'[r].todo[i])
      <4>1. CASE r = a
        BY <2>1, <2>4, <3>1, <4>1
      <4>2. CASE r # a
        BY <2>4, <4>2 DEF Taken
      <4> QED BY <4>1, <4>2
    <3> QED BY <3>2, <3>3 DEF SnapshotStep
  <2>7. SweepRuns'
    <3> DEFINE Runs(r) ==
            /\ at[r] # "sweep" \/ ~ sweep[r].listed => sweep[r] = NoSweep
            /\ at[r] = "sweep" => lease[r].attempt_count \in 1 .. job.attempt_count
            /\ Refreshing(r) <=> sweep[r].todo # <<>>
            /\ Refreshing(r) => call[r].of = sweep[r].todo[1]
            /\ sweep[r].index + Len(sweep[r].todo) <= Limit \/ sweep[r].todo = <<>>
            /\ \A i, j \in DOMAIN sweep[r].todo : sweep[r].todo[i].id = sweep[r].todo[j].id => i = j
    <3>0. \A r \in Runners : Runs(r)
      BY DEF RefreshInd, SweepRuns
    <3>1. ASSUME NEW r \in Runners \ {a} PROVE Runs(r)'
      <4>1. call'[r] = call[r] /\ sweep'[r] = sweep[r]
        BY <1>0, <2>4
      <4> QED BY <3>0, <4>1 DEF leaseVars, Refreshing
    <3>2. Runs(a)'
      <4>1. sweep[a].listed
        BY <1>0, <1>3, <3>0 DEF NoSweep
      <4>2. \A i, j \in DOMAIN rest.todo : rest.todo[i].id = rest.todo[j].id => i = j
        <5> TAKE i \in DOMAIN rest.todo, j \in DOMAIN rest.todo
        <5>1. i + 1 = j + 1 => i = j
          BY <2>1
        <5>2. /\ i + 1 \in DOMAIN sweep[a].todo /\ rest.todo[i] = sweep[a].todo[i + 1]
              /\ j + 1 \in DOMAIN sweep[a].todo /\ rest.todo[j] = sweep[a].todo[j + 1]
          BY <2>1
        <5>3. \A m, n \in DOMAIN sweep[a].todo : sweep[a].todo[m].id = sweep[a].todo[n].id => m = n
          BY <1>3, <3>0
        <5>4. sweep[a].todo[i + 1].id = sweep[a].todo[j + 1].id => i + 1 = j + 1
          BY <5>2, <5>3
        <5> QED BY <5>1, <5>2, <5>4
      <4>3. at'[a] = "sweep" /\ lease'[a].attempt_count \in 1 .. job'.attempt_count
        BY <2>2 DEF leaseVars
      <4>4. next # NoCall => next.of = rest.todo[1]
        BY <2>1
      <4>5. sweep'[a].listed
        BY <2>3, <2>4, <4>1
      <4>6. (Refreshing(a) <=> sweep[a].todo # <<>>)'
        BY <2>1, <2>4 DEF Refreshing
      <4>7. (Refreshing(a) => call[a].of = sweep[a].todo[1])'
        BY <2>4, <4>4 DEF Refreshing
      <4>8. sweep'[a].index + Len(sweep'[a].todo) <= Limit \/ sweep'[a].todo = <<>>
        BY <2>1, <2>4
      <4>9. \A i, j \in DOMAIN sweep'[a].todo : sweep'[a].todo[i].id = sweep'[a].todo[j].id => i = j
        BY <2>4, <4>2
      <4> QED BY <4>3, <4>5, <4>6, <4>7, <4>8, <4>9
    <3> QED BY <3>1, <3>2 DEF SweepRuns
  <2>8. ASSUME NEW s \in audited' PROVE SweepSlot(s)' \/ ReadSlot(s)'
    <3>1. CASE SweepSlot(s)
      <4>1. PICK n \in 1 .. job.attempt_count, i \in 0 .. Window - 1 :
               /\ s = <<SweepTrace, AuditSequence(n, i)>>
               /\ \A r \in Runners : at[r] = "sweep" /\ lease[r].attempt_count = n => i < sweep[r].index
        BY <3>1 DEF SweepSlot
      <4>2. \A r \in Runners : at[r] = "sweep" /\ lease[r].attempt_count = n => i < sweep'[r].index
        BY <2>2, <2>3, <2>4, <4>1
      <4> QED BY <4>1, <4>2 DEF SweepSlot, leaseVars
    <3>2. CASE ReadSlot(s)
      <4>1. \A l \in Readers : l \in Actors \ {a}
        BY <1>3, RefreshConfig DEF Actors
      <4> QED BY <2>4, <3>2, <4>1 DEF ReadSlot, Refreshing
    <3>3. CASE s = AuditSlot(a)
      <4>1. s = <<SweepTrace, AuditSequence(lease[a].attempt_count, sweep[a].index)>>
        BY <1>3, <3>3 DEF AuditSlot
      <4>2. ASSUME NEW r \in Runners, at[r] = "sweep", lease[r].attempt_count = lease[a].attempt_count
            PROVE  sweep[a].index < sweep'[r].index
        <5>1. r = a
          BY <1>3, <2>2, <4>2 DEF RefreshInd, LeaseInv, AttemptIsExclusive, Holds
        <5> QED BY <2>2, <2>3, <2>4, <5>1
      <4>3. at' = at /\ lease' = lease /\ job' = job
        BY DEF leaseVars
      <4> DEFINE n == lease[a].attempt_count
                 i == sweep[a].index
      <4>5. n \in 1 .. job'.attempt_count /\ i \in 0 .. Window - 1 /\ s = <<SweepTrace, AuditSequence(n, i)>>
        BY <2>2, <4>1, <4>3
      <4>6. \A r \in Runners : at'[r] = "sweep" /\ lease'[r].attempt_count = n => i < sweep'[r].index
        BY <4>2, <4>3
      <4> HIDE DEF n, i
      <4> QED BY <4>5, <4>6 DEF SweepSlot, Window, AuditSequence
    <3> QED BY <1>1, <2>8, <3>1, <3>2, <3>3
  <2> QED BY <1>3, <2>1, <2>4, <2>5, <2>6, <2>7, <2>8 DEF SlotsAreSpent
<1> QED BY <1>2, <1>3 DEF Actors

(* What recording the outcome of a refresh may do to its grant.            *)
Unmarked(a, g) == grant'[g] = grant[g]
Stored(a, g) ==
    /\ Live(a, g) /\ grant[g].state \in Refreshable /\ Succeeded(a)
    /\ grant'[g].state = "valid" /\ grant'[g].token = call[a].token /\ grant'[g].error = "none"
Marked(a, g) ==
    /\ Live(a, g) /\ grant[g].state \in Refreshable /\ ~ Succeeded(a)
    /\ grant'[g].token = grant[g].token
    /\ \/ grant'[g].state = "needs_refresh"
       \/ grant'[g].state = "reauth_required" /\ call[a].outcome = "reauth"

(* The command changes the row only if the row still is the snapshot's.    *)
LEMMA Recorded ==
    ASSUME RefreshInd, NEW a \in Actors, call[a].step = "record", Commit(a) \/ Rollback
    PROVE  /\ grant' \in [Grants -> Grant]
           /\ \A h \in Grants \ {call[a].of.id} : grant'[h] = grant[h]
           /\ \/ Unmarked(a, call[a].of.id)
              \/ Commit(a) /\ (Stored(a, call[a].of.id) \/ Marked(a, call[a].of.id))
<1> DEFINE c == call[a]
           g == call[a].of.id
<1>0. /\ grant \in [Grants -> Grant] /\ g \in Grants /\ Refreshing(a) /\ c.token \in Nat
      /\ c.outcome \in Outcomes /\ grant[g] \in Grant /\ CallTime(a) \in Nat
  <2>1. /\ grant \in [Grants -> Grant] /\ call \in [Actors -> Call]
        /\ started \in [Runners -> Nat] /\ readAt \in [Readers -> Nat]
    BY DEF RefreshInd, TypeOK, LeaseTypeOK
  <2>2. CallTime(a) \in Nat
    BY <2>1 DEF CallTime, Actors
  <2> QED BY <2>1, <2>2, CallFacts
<1>1. CASE UNCHANGED grant
  BY <1>0, <1>1 DEF Unmarked
<1>2. CASE Commit(a) /\ CommandMatches(c.of)
  <2>1. grant' = [grant EXCEPT ![g] = Applied(grant[g], c, CallTime(a))]
    BY <1>0, <1>2 DEF Commit
  <2>2. Live(a, g) /\ grant[g].state \in Refreshable
    BY <1>0, <1>2 DEF CommandMatches, Live
  <2> DEFINE row == Applied(grant[g], c, CallTime(a))
  <2>3. CASE c.outcome = "success"
    <3>1. row = [grant[g] EXCEPT !.state = "valid", !.token = c.token, !.near = FALSE, !.error = "none",
                                 !.updated_at = CallTime(a)]
      BY <2>3 DEF Applied, Rotated
    <3>2. row \in Grant /\ row.state = "valid" /\ row.token = c.token /\ row.error = "none"
      BY <1>0, <3>1 DEF Grant, Refreshable, Errors
    <3> HIDE DEF row
    <3>3. grant' \in [Grants -> Grant] /\ grant'[g] = row /\ \A h \in Grants \ {g} : grant'[h] = grant[h]
      BY <1>0, <2>1, <3>2 DEF row
    <3> QED BY <1>2, <2>2, <2>3, <3>2, <3>3 DEF Stored, Succeeded
  <2>4. CASE c.outcome = "reauth"
    <3>1. row = [grant[g] EXCEPT !.state = "reauth_required", !.error = "transient", !.updated_at = CallTime(a)]
      BY <2>4 DEF Applied, MarkedReauth, ErrorOf
    <3>2. row \in Grant /\ row.state = "reauth_required" /\ row.token = grant[g].token
      BY <1>0, <3>1 DEF Grant, Refreshable, Errors
    <3> HIDE DEF row
    <3>3. grant' \in [Grants -> Grant] /\ grant'[g] = row /\ \A h \in Grants \ {g} : grant'[h] = grant[h]
      BY <1>0, <2>1, <3>2 DEF row
    <3> QED BY <1>2, <2>2, <2>4, <3>2, <3>3 DEF Marked, Succeeded
  <2>5. CASE c.outcome \notin {"success", "reauth"}
    <3>1. PICK e \in Errors : row = [grant[g] EXCEPT !.state = "needs_refresh", !.error = e, !.updated_at = CallTime(a)]
      BY <2>5 DEF Applied, MarkedRefreshFailed, ErrorOf, Errors
    <3>2. row \in Grant /\ row.state = "needs_refresh" /\ row.token = grant[g].token
      BY <1>0, <3>1 DEF Grant, Refreshable
    <3> HIDE DEF row
    <3>3. grant' \in [Grants -> Grant] /\ grant'[g] = row /\ \A h \in Grants \ {g} : grant'[h] = grant[h]
      BY <1>0, <2>1, <3>2 DEF row
    <3> QED BY <1>2, <2>2, <2>5, <3>2, <3>3 DEF Marked, Succeeded
  <2> QED BY <2>3, <2>4, <2>5
<1> QED BY <1>1, <1>2 DEF Commit, Rollback

(* The outcome of a refresh is recorded, with or without its answer.  What *)
(* was delivered to the live one is stored; everybody else misses.         *)
LEMMA RecordInd ==
    ASSUME RefreshInd, LeaseInv', NEW a \in Actors, RecordRefresh(a) \/ RecordFails(a) PROVE RefreshInd'
<1> DEFINE g == call[a].of.id
<1>0. call[a].step = "record" /\ Refreshing(a) /\ g \in Grants /\ call \in [Actors -> Call]
  <2>1. call[a].step = "record" /\ call \in [Actors -> Call]
    BY DEF RefreshInd, TypeOK, RecordRefresh, RecordFails
  <2> QED BY <2>1, CallFacts
<1>1. UNCHANGED <<leaseVars, login, issued, usable, readAt, recovery, delivered>>
  BY DEF RecordRefresh, RecordFails
<1>2. /\ Commit(a) \/ Rollback
      /\ \E ok \in BOOLEAN : EndCall(a, ok)
      /\ \/ Commit(a) /\ contended' = contended \cup BegunBy(a)
         \/ EndCall(a, FALSE) /\ contended' = contended \cup {g}
      /\ errors' \in Nat
  <2>1. AuditSlot(a) \notin audited
    BY <1>0, SlotIsFree
  <2>2. errors \in Nat
    BY DEF RefreshInd, TypeOK
  <2>3. CASE RecordRefresh(a)
    BY <2>1, <2>2, <2>3 DEF RecordRefresh
  <2>4. CASE RecordFails(a)
    <3>1. errors + 1 \in Nat
      BY <2>2
    <3>2. errors' \in Nat /\ EndCall(a, FALSE) /\ contended' = contended \cup {g} /\ (Commit(a) \/ Rollback)
      BY <2>4, <3>1 DEF RecordFails
    <3> QED BY <3>2
  <2> QED BY <2>3, <2>4
<1>3. /\ audited' \subseteq audited \cup {AuditSlot(a)}
      /\ overtaken \subseteq overtaken' /\ overtaken' \subseteq Runners \X Grants
  BY <1>0, <1>2 DEF Commit, Rollback, RefreshInd, TypeOK
<1>4. /\ call' \in [Actors -> Call] /\ sweep' \in [Runners -> Sweep]
      /\ \A b \in Actors \ {a} : call'[b] = call[b]
      /\ \A r \in Runners \ {a} : sweep'[r] = sweep[r]
      /\ call'[a].step # "record"
      /\ call'[a] # NoCall => /\ a \in Runners /\ 2 \in DOMAIN sweep[a].todo /\ call'[a].of = sweep[a].todo[2]
      /\ a \in Runners => \A i \in DOMAIN sweep'[a].todo :
            i \in Nat \ {0} /\ i + 1 \in DOMAIN sweep[a].todo /\ sweep'[a].todo[i] = sweep[a].todo[i + 1]
      /\ SnapshotStep /\ SweepRuns' /\ SlotsAreSpent'
  <2>1. PICK ok \in BOOLEAN : EndCall(a, ok)
    BY <1>2
  <2> QED BY <1>0, <1>1, <1>3, <2>1, CallEnds
<1>5. EndCall(a, FALSE) => call'[a] = NoCall
  BY <1>0 DEF EndCall
<1>6. /\ grant' \in [Grants -> Grant] /\ \A h \in Grants \ {g} : grant'[h] = grant[h]
      /\ Unmarked(a, g) \/ (Commit(a) /\ (Stored(a, g) \/ Marked(a, g)))
  BY <1>0, <1>2, Recorded
<1>7. call'[a] # NoCall => call'[a].of.id # g
  <2>1. CASE a \in Runners /\ call'[a] # NoCall
    <3>1. call[a].of = sweep[a].todo[1] /\ 1 \in DOMAIN sweep[a].todo
      <4>1. sweep[a].todo \in Seq(Snapshot) /\ Len(sweep[a].todo) \in Nat \ {0} /\ call[a].of = sweep[a].todo[1]
        BY <1>0, <2>1, IndexInWindow
      <4> QED BY <4>1
    <3>2. \A i, j \in DOMAIN sweep[a].todo : sweep[a].todo[i].id = sweep[a].todo[j].id => i = j
      BY <2>1 DEF RefreshInd, SweepRuns
    <3> QED BY <1>4, <2>1, <3>1, <3>2
  <2> QED BY <1>4, <2>1
<1> HIDE DEF g
<1>8. TypeOK'
  <2>1. contended' \subseteq Grants
    <3>1. BegunBy(a) \subseteq Grants
      <4>1. CASE a \in Runners /\ Len(sweep[a].todo) > 1
        <5>1. sweep[a].todo \in Seq(Snapshot) /\ Len(sweep[a].todo) \in Nat
          BY <1>0, <4>1, IndexInWindow
        <5>2. 2 \in DOMAIN sweep[a].todo
          BY <4>1, <5>1
        <5>3. sweep[a].todo[2].id \in Grants
          BY <4>1, <5>2, ListedAreGrants DEF RefreshInd
        <5> QED BY <5>3 DEF BegunBy, Overlap
      <4>2. CASE ~ (a \in Runners /\ Len(sweep[a].todo) > 1)
        BY <4>2 DEF BegunBy
      <4> QED BY <4>1, <4>2
    <3> QED BY <1>0, <1>2, <3>1 DEF RefreshInd, TypeOK
  <2>2. LeaseTypeOK'
    BY DEF LeaseInv
  <2> QED BY <1>1, <1>2, <1>3, <1>4, <1>6, <2>1, <2>2 DEF RefreshInd, TypeOK
<1>9. TokensAreIssued' /\ NewTokensAreFresh'
  <2>1. IssueStep /\ LoginStep
    BY <1>1 DEF IssueStep, LoginStep
  <2>2. StoreStep
    <3>1. \A h \in Grants \ {g} : grant'[h].token = grant[h].token
      BY <1>6
    <3>2. grant'[g].token = grant[g].token \/ (Succeeded(a) /\ grant'[g].token = call[a].token)
      BY <1>6 DEF Unmarked, Stored, Marked
    <3> QED BY <1>4, <3>1, <3>2 DEF StoreStep, g
  <2>3. AnswerStep
    BY <1>4 DEF AnswerStep
  <2> QED BY <1>4, <1>8, <2>1, <2>2, <2>3, TokenStep DEF RefreshInd
<1>10. RefusedIsUnusable'
  <2>1. \A b \in Actors : call'[b].step = "record" /\ call'[b].outcome = "reauth" =>
           call'[b].of.token \notin usable'[call'[b].of.id]
    BY <1>1, <1>4 DEF RefreshInd, RefusedIsUnusable
  <2>2. ASSUME NEW h \in Grants, grant'[h].state \in {"none", "reauth_required"}
        PROVE  grant'[h].token \notin usable'[h]
    <3>1. CASE grant'[h] = grant[h]
      BY <1>1, <2>2, <3>1 DEF RefreshInd, RefusedIsUnusable
    <3>2. CASE grant'[h] # grant[h]
      <4>1. h = g /\ Marked(a, g) /\ call[a].outcome = "reauth"
        BY <1>6, <2>2, <3>2 DEF Unmarked, Stored, Marked
      <4> QED BY <1>0, <1>1, <4>1 DEF RefreshInd, RefusedIsUnusable, Marked, Live, g
    <3> QED BY <3>1, <3>2
  <2> QED BY <2>1, <2>2 DEF RefusedIsUnusable
<1>11. RacesAreWon'
  <2> SUFFICES ASSUME NEW h \in Grants \ contended' PROVE OneLive(h)' /\ DeliveredIsPending(h)'
    BY DEF RacesAreWon
  <2>0. h \notin contended /\ OneLive(h) /\ DeliveredIsPending(h)
    BY <1>2 DEF RefreshInd, RacesAreWon
  <2>1. \A b \in Actors \ {a} : /\ Refreshing(b)' <=> Refreshing(b)
                                /\ Succeeded(b)' <=> Succeeded(b)
                                /\ call'[b] = call[b]
    BY <1>4 DEF Refreshing, Succeeded
  <2>2. ~ Succeeded(a)'
    BY <1>4 DEF Succeeded
  <2>3. CASE h # g
    <3>1. grant'[h] = grant[h] /\ ~ Live(a, h) /\ delivered'[h] = delivered[h]
      BY <1>1, <1>6, <2>3 DEF Live, g
    <3>2. \A b \in Actors \ {a} : Live(b, h)' <=> Live(b, h)
      BY <2>1, <3>1 DEF Live
    <3>3. Live(a, h)' => \A b \in Actors \ {a} : ~ Live(b, h)'
      <4> SUFFICES ASSUME Live(a, h)' PROVE \A b \in Actors \ {a} : ~ Live(b, h)'
        OBVIOUS
      <4>1. a \in Runners /\ 2 \in DOMAIN sweep[a].todo /\ sweep[a].todo[2].id = h /\ call'[a] # NoCall
        BY <1>4 DEF Live, Refreshing
      <4>2. Len(sweep[a].todo) > 1
        <5>1. sweep[a].todo \in Seq(Snapshot)
          BY <4>1 DEF RefreshInd, TypeOK, Sweep
        <5> QED BY <4>1, <5>1
      <4>3. contended' = contended \cup BegunBy(a)
        BY <1>2, <1>5, <4>1
      <4>4. BegunBy(a) = Overlap(a, h)
        BY <4>1, <4>2 DEF BegunBy
      <4>5. InFlight(h) \ {a} = {}
        BY <4>3, <4>4 DEF Overlap
      <4> QED BY <2>1, <4>5 DEF InFlight, Live, Refreshing
    <3> QED BY <2>0, <2>1, <2>2, <3>1, <3>2, <3>3, RaceKept
  <2>4. CASE h = g
    <3>0. ~ Live(a, h)' /\ delivered'[h] = delivered[h]
      BY <1>1, <1>7, <2>4 DEF Live, Refreshing
    <3>1. CASE Unmarked(a, g)
      <4>1. \A b \in Actors \ {a} : Live(b, h)' <=> Live(b, h)
        BY <2>1, <2>4, <3>1 DEF Live, Unmarked
      <4>2. CASE Live(a, h) /\ Succeeded(a) /\ grant[h].state # "revoked"
        <5>1. grant[g].state \in Refreshable /\ Fresh(g, call[a].token) /\ CommandMatches(call[a].of)
          BY <1>0, <2>0, <2>4, <4>2 DEF DeliveredIsPending, RefreshInd, NewTokensAreFresh, CommandMatches, Live, g
        <5>2. Commit(a)
          BY <1>2, <2>4
        <5>3. grant'[g] = Rotated(grant[g], call[a], CallTime(a))
          BY <1>0, <4>2, <5>1, <5>2 DEF Commit, Applied, Succeeded, RefreshInd, TypeOK, g
        <5>4. grant'[g].token = call[a].token
          <6>1. grant[g] \in Grant
            BY <1>0 DEF RefreshInd, TypeOK
          <6> QED BY <5>3, <6>1 DEF Rotated, Grant
        <5> QED BY <3>1, <5>1, <5>4 DEF Fresh, Unmarked
      <4>3. CASE ~ (Live(a, h) /\ Succeeded(a))
        BY <2>0, <2>1, <2>2, <2>4, <3>0, <3>1, <4>1, <4>3, RaceKept DEF Unmarked
      <4>4. CASE grant[h].state = "revoked"
        BY <2>0, <2>1, <2>4, <3>0, <3>1, <4>1, <4>4 DEF Unmarked, OneLive, DeliveredIsPending
      <4> QED BY <4>2, <4>3, <4>4
    <3>2. CASE Stored(a, g)
      <4>1. Fresh(h, call[a].token) /\ call[a].token = delivered[h]
        BY <2>0, <2>4, <3>2 DEF RefreshInd, NewTokensAreFresh, Stored, Live, DeliveredIsPending, Refreshable
      <4>2. \A b \in Actors : ~ Live(b, h)'
        BY <2>1, <2>4, <3>0, <3>2, <4>1 DEF Fresh, Live, Stored
      <4> QED BY <2>4, <3>0, <3>2, <4>1, <4>2 DEF OneLive, DeliveredIsPending, Stored
    <3>3. CASE Marked(a, g)
      <4>1. \A b \in Actors : ~ Live(b, h)'
        <5>1. \A b \in Actors \ {a} : Live(b, h)' <=> Live(b, h)
          BY <2>1, <2>4, <3>3 DEF Live, Marked
        <5> QED BY <2>0, <2>4, <3>0, <3>3, <5>1 DEF OneLive, Marked
      <4>2. grant[h].token = delivered[h]
        BY <2>0, <2>4, <3>3 DEF OneLive, DeliveredIsPending, Marked, Refreshable
      <4> QED BY <2>4, <3>0, <3>3, <4>1, <4>2 DEF OneLive, DeliveredIsPending, Marked
    <3> QED BY <1>6, <3>1, <3>2, <3>3
  <2> QED BY <2>3, <2>4
<1>12. PausedWhileListed'
  <2> SUFFICES ASSUME NEW r \in Runners, NEW i \in DOMAIN sweep'[r].todo,
                      Paused(sweep[r].todo[i].id)', grant'[sweep'[r].todo[i].id].token = sweep'[r].todo[i].token
               PROVE  <<r, sweep'[r].todo[i].id>> \in overtaken'
    BY DEF PausedWhileListed
  <2>1. PICK j \in DOMAIN sweep[r].todo : sweep'[r].todo[i] = sweep[r].todo[j] /\ (r = a => j # 1)
    <3>1. CASE r = a
      <4>1. i \in Nat \ {0} /\ i + 1 \in DOMAIN sweep[r].todo /\ sweep'[r].todo[i] = sweep[r].todo[i + 1]
        BY <1>4, <3>1
      <4>2. i + 1 # 1
        BY <4>1
      <4> QED BY <4>1, <4>2
    <3>2. CASE r # a
      BY <1>4, <3>2
    <3> QED BY <3>1, <3>2
  <2> DEFINE s == sweep[r].todo[j]
  <2>2. s.id \in Grants
    BY ListedAreGrants DEF RefreshInd
  <2>3. grant'[s.id].state \in Refreshable /\ grant'[s.id].error = "paused" /\ grant'[s.id].token = s.token
    BY <2>1 DEF Paused
  <2>4. CASE grant'[s.id] = grant[s.id]
    BY <1>3, <2>1, <2>3, <2>4 DEF RefreshInd, PausedWhileListed, Paused
  <2>5. CASE grant'[s.id] # grant[s.id]
    <3>1. s.id = g /\ Commit(a)
      BY <1>6, <2>2, <2>5 DEF Unmarked
    <3>2. r # a
      <4> SUFFICES ASSUME r = a PROVE FALSE
        OBVIOUS
      <4>1. call[a].of = sweep[a].todo[1] /\ 1 \in DOMAIN sweep[a].todo
        <5>1. sweep[a].todo \in Seq(Snapshot) /\ Len(sweep[a].todo) \in Nat \ {0} /\ call[a].of = sweep[a].todo[1]
          BY <1>0, IndexInWindow
        <5> QED BY <5>1
      <4> QED BY <2>1, <3>1, <4>1 DEF RefreshInd, SweepRuns, g
    <3>3. g \in Listed(r)
      BY <3>1 DEF Listed
    <3>4. <<r, g>> \in overtaken'
      BY <1>0, <3>1, <3>2, <3>3 DEF Commit, g
    <3> QED BY <2>1, <3>1, <3>4
  <2> QED BY <2>4, <2>5
<1> QED BY <1>4, <1>8, <1>9, <1>10, <1>11, <1>12 DEF RefreshInd

-----------------------------------------------------------------------------
(* The list of a sweep: at most Limit candidates, each once, as stored.    *)
LEMMA CandidateList ==
    ASSUME TypeOK, NEW s \in CandidateOrders
    PROVE  LET todo == [i \in 1 .. Least(Limit, Len(s)) |-> [id |-> s[i], token |-> grant[s[i]].token]] IN
           /\ todo \in Seq(Snapshot) /\ Len(todo) \in Nat /\ Len(todo) <= Limit
           /\ \A i \in DOMAIN todo : /\ todo[i].id \in Grants /\ ~ Paused(todo[i].id)
                                     /\ todo[i].token = grant[todo[i].id].token
           /\ \A i, j \in DOMAIN todo : todo[i].id = todo[j].id => i = j
<1> DEFINE n == Cardinality(Candidates)
           m == Least(Limit, Len(s))
           todo == [i \in 1 .. m |-> [id |-> s[i], token |-> grant[s[i]].token]]
<1>1. n \in Nat
  <2>1. Candidates \subseteq Grants
    BY DEF Candidates
  <2>2. IsFiniteSet(Candidates)
    BY <2>1, RefreshConfig, FS_Subset
  <2> QED BY <2>2, FS_CardinalityType
<1>2. s \in [1 .. n -> Candidates] /\ \A i, j \in 1 .. n : i < j => s[i] # s[j]
  BY DEF CandidateOrders
<1> HIDE DEF n
<1>3. Len(s) = n
  <2>1. s \in Seq(Candidates)
    BY <1>1, <1>2
  <2> QED BY <1>1, <1>2, <2>1
<1>4. m \in Nat /\ m <= Limit /\ m <= n
  BY <1>1, <1>3, RefreshConfig DEF Least
<1> HIDE DEF m
<1>5. \A i \in 1 .. m : i \in 1 .. n
  BY <1>1, <1>4
<1>6. ASSUME NEW i \in 1 .. m
      PROVE  /\ [id |-> s[i], token |-> grant[s[i]].token] \in Snapshot
             /\ s[i] \in Grants /\ ~ Paused(s[i])
  <2>1. s[i] \in Candidates
    BY <1>2, <1>5
  <2>2. s[i] \in Grants /\ ~ Paused(s[i])
    BY <2>1 DEF Candidates, Paused
  <2>3. grant[s[i]].token \in Nat
    BY <2>2 DEF TypeOK, Grant
  <2> QED BY <2>2, <2>3 DEF Snapshot
<1>7. todo \in [1 .. m -> Snapshot] /\ \A i \in 1 .. m : todo[i] = [id |-> s[i], token |-> grant[s[i]].token]
  BY <1>6
<1>8. todo \in Seq(Snapshot) /\ Len(todo) = m /\ DOMAIN todo = 1 .. m
  <2> HIDE DEF todo
  <2>1. todo \in Seq(Snapshot)
    BY <1>4, <1>7
  <2> QED BY <1>4, <1>7, <2>1
<1>9. \A i \in 1 .. m : /\ todo[i].id \in Grants /\ ~ Paused(todo[i].id)
                        /\ todo[i].token = grant[todo[i].id].token
  BY <1>6, <1>7
<1>10. ASSUME NEW i \in 1 .. m, NEW j \in 1 .. m, todo[i].id = todo[j].id PROVE i = j
  <2>1. s[i] = s[j]
    BY <1>7, <1>10
  <2>2. ~ i < j /\ ~ j < i
    BY <1>2, <1>5, <2>1
  <2>3. i \in Nat /\ j \in Nat
    BY <1>4
  <2> QED BY <2>2, <2>3
<1> HIDE DEF todo
<1>11. /\ todo \in Seq(Snapshot) /\ Len(todo) \in Nat /\ Len(todo) <= Limit
       /\ \A i \in DOMAIN todo : /\ todo[i].id \in Grants /\ ~ Paused(todo[i].id)
                                 /\ todo[i].token = grant[todo[i].id].token
       /\ \A i, j \in DOMAIN todo : todo[i].id = todo[j].id => i = j
  BY <1>4, <1>8, <1>9, <1>10
<1> QED BY <1>11 DEF todo, m

(* A sweep lists its candidates and begins with the first.                 *)
LEMMA ListInd == ASSUME RefreshInd, LeaseInv', NEW r \in Runners, ListCandidates(r) PROVE RefreshInd'
<1>0. /\ call \in [Actors -> Call] /\ sweep \in [Runners -> Sweep] /\ contended \subseteq Grants
      /\ overtaken \subseteq Runners \X Grants /\ r \in Actors
  BY DEF RefreshInd, TypeOK, Actors
<1>1. /\ UNCHANGED <<leaseVars, grant, login, issued, usable, readAt, audited, recovery, errors, delivered>>
      /\ overtaken' = overtaken \ ({r} \X Grants) /\ at[r] = "sweep" /\ ~ sweep[r].listed
  BY DEF ListCandidates
<1>2. sweep[r] = NoSweep /\ call[r] = NoCall /\ sweep[r].todo = <<>> /\ sweep[r].index = 0
  BY <1>1 DEF RefreshInd, SweepRuns, NoSweep, Refreshing
<1>3. PICK todo \in Seq(Snapshot), more \in BOOLEAN :
         /\ Len(todo) \in Nat /\ Len(todo) <= Limit
         /\ \A i \in DOMAIN todo : /\ todo[i].id \in Grants /\ ~ Paused(todo[i].id)
                                   /\ todo[i].token = grant[todo[i].id].token
         /\ \A i, j \in DOMAIN todo : todo[i].id = todo[j].id => i = j
         /\ sweep' = [sweep EXCEPT ![r] = [NoSweep EXCEPT !.todo = todo, !.listed = TRUE, !.more = more]]
         /\ call' = [call EXCEPT ![r] = IF todo = <<>> THEN NoCall ELSE Begin(todo[1])]
         /\ contended' = IF todo = <<>> THEN contended ELSE contended \cup Overlap(r, todo[1].id)
  <2>1. PICK s \in CandidateOrders :
          LET todo == [i \in 1 .. Least(Limit, Len(s)) |-> [id |-> s[i], token |-> grant[s[i]].token]] IN
          /\ sweep' = [sweep EXCEPT ![r] = [NoSweep EXCEPT !.todo = todo, !.listed = TRUE,
                                                           !.more = Len(s) > Limit]]
          /\ call' = [call EXCEPT ![r] = IF todo = <<>> THEN NoCall ELSE Begin(todo[1])]
          /\ contended' = IF todo = <<>> THEN contended ELSE contended \cup Overlap(r, todo[1].id)
    BY DEF ListCandidates
  <2> DEFINE list == [i \in 1 .. Least(Limit, Len(s)) |-> [id |-> s[i], token |-> grant[s[i]].token]]
             rest == Len(s) > Limit
  <2>2. rest \in BOOLEAN
    OBVIOUS
  <2>3. /\ list \in Seq(Snapshot) /\ Len(list) \in Nat /\ Len(list) <= Limit
        /\ \A i \in DOMAIN list : /\ list[i].id \in Grants /\ ~ Paused(list[i].id)
                                  /\ list[i].token = grant[list[i].id].token
        /\ \A i, j \in DOMAIN list : list[i].id = list[j].id => i = j
    BY CandidateList DEF RefreshInd
  <2>4. /\ sweep' = [sweep EXCEPT ![r] = [NoSweep EXCEPT !.todo = list, !.listed = TRUE, !.more = rest]]
        /\ call' = [call EXCEPT ![r] = IF list = <<>> THEN NoCall ELSE Begin(list[1])]
        /\ contended' = IF list = <<>> THEN contended ELSE contended \cup Overlap(r, list[1].id)
    BY <2>1
  <2> HIDE DEF list, rest
  <2> QED BY <2>2, <2>3, <2>4
<1> DEFINE sw == [NoSweep EXCEPT !.todo = todo, !.listed = TRUE, !.more = more]
           c == IF todo = <<>> THEN NoCall ELSE Begin(todo[1])
<1>4. sw \in Sweep /\ sw.todo = todo /\ sw.index = 0 /\ sw.listed
  <2>1. NoSweep \in Sweep /\ NoSweep.index = 0
    BY DEF NoSweep, Sweep
  <2> HIDE DEF NoSweep
  <2> QED BY <2>1 DEF Sweep
<1>5. sweep' = [sweep EXCEPT ![r] = sw]
  BY <1>3
<1>6. /\ c \in Call /\ (c = NoCall <=> todo = <<>>)
      /\ c # NoCall => c.step = "load" /\ c.of = todo[1] /\ 1 \in DOMAIN todo
  <2>1. CASE todo = <<>>
    BY <2>1 DEF Call
  <2>2. CASE todo # <<>>
    <3>1. 1 \in DOMAIN todo /\ todo[1] \in Snapshot
      BY <1>3, <2>2
    <3>2. [step |-> "load", of |-> todo[1]] \in [step : {"load", "post"}, of : Snapshot]
      BY <3>1
    <3>3. c = [step |-> "load", of |-> todo[1]]
      BY <2>2 DEF Begin
    <3> QED BY <2>2, <3>1, <3>2, <3>3 DEF Call, NoCall
  <2> QED BY <2>1, <2>2
<1>7. call' = [call EXCEPT ![r] = c]
  BY <1>3
<1> HIDE DEF sw, c
<1>8. /\ sweep' \in [Runners -> Sweep] /\ sweep'[r] = sw /\ \A o \in Runners \ {r} : sweep'[o] = sweep[o]
      /\ call' \in [Actors -> Call] /\ call'[r] = c /\ \A b \in Actors \ {r} : call'[b] = call[b]
  BY <1>0, <1>4, <1>5, <1>6, <1>7
<1>9. TypeOK'
  <2>1. contended' \subseteq Grants /\ overtaken' \subseteq Runners \X Grants
    BY <1>0, <1>1, <1>3, <1>6 DEF Overlap
  <2>2. LeaseTypeOK'
    BY DEF LeaseInv
  <2> QED BY <1>1, <1>8, <2>1, <2>2 DEF RefreshInd, TypeOK
<1>10. TokensAreIssued' /\ NewTokensAreFresh'
  <2>1. IssueStep /\ LoginStep /\ StoreStep
    BY <1>1 DEF IssueStep, LoginStep, StoreStep
  <2>2. AnswerStep
    BY <1>6, <1>8 DEF AnswerStep, NoCall
  <2>3. SnapshotStep
    <3>1. \A i \in DOMAIN todo : Taken(todo[i])
      BY <1>3 DEF Taken
    <3>2. \A b \in Actors : call'[b] # NoCall => Taken(call'[b].of)
      <4>1. ASSUME NEW b \in Actors \ {r}, call'[b] # NoCall PROVE Taken(call'[b].of)
        BY <1>8, <4>1 DEF Taken, Refreshing
      <4>2. call'[r] # NoCall => Taken(call'[r].of)
        BY <1>6, <1>8, <3>1
      <4> QED BY <4>1, <4>2
    <3>3. ASSUME NEW o \in Runners, NEW i \in DOMAIN sweep'[o].todo PROVE Taken(sweep'[o].todo[i])
      <4>1. CASE o = r
        BY <1>4, <1>8, <3>1, <4>1
      <4>2. CASE o # r
        BY <1>8, <4>2 DEF Taken
      <4> QED BY <4>1, <4>2
    <3> QED BY <3>2, <3>3 DEF SnapshotStep
  <2> QED BY <1>9, <2>1, <2>2, <2>3, TokenStep DEF RefreshInd
<1>11. SweepRuns'
  <2> DEFINE Runs(o) ==
          /\ at[o] # "sweep" \/ ~ sweep[o].listed => sweep[o] = NoSweep
          /\ at[o] = "sweep" => lease[o].attempt_count \in 1 .. job.attempt_count
          /\ Refreshing(o) <=> sweep[o].todo # <<>>
          /\ Refreshing(o) => call[o].of = sweep[o].todo[1]
          /\ sweep[o].index + Len(sweep[o].todo) <= Limit \/ sweep[o].todo = <<>>
          /\ \A i, j \in DOMAIN sweep[o].todo : sweep[o].todo[i].id = sweep[o].todo[j].id => i = j
  <2>0. \A o \in Runners : Runs(o)
    BY DEF RefreshInd, SweepRuns
  <2>1. ASSUME NEW o \in Runners \ {r} PROVE Runs(o)'
    <3>1. call'[o] = call[o] /\ sweep'[o] = sweep[o]
      BY <1>8 DEF Actors
    <3> QED BY <1>1, <2>0, <3>1 DEF leaseVars, Refreshing
  <2>2. Runs(r)'
    <3>1. at'[r] = "sweep" /\ lease'[r].attempt_count \in 1 .. job'.attempt_count
      BY <1>1, <2>0 DEF leaseVars
    <3>2. sweep'[r].listed
      BY <1>4, <1>8
    <3>3. sweep'[r].index + Len(sweep'[r].todo) <= Limit
      <4>1. 0 + Len(todo) <= Limit
        BY <1>3, RefreshConfig
      <4> QED BY <1>4, <1>8, <4>1
    <3>4. (Refreshing(r) <=> sweep[r].todo # <<>>)' /\ (Refreshing(r) => call[r].of = sweep[r].todo[1])'
      BY <1>4, <1>6, <1>8 DEF Refreshing
    <3>5. \A i, j \in DOMAIN sweep'[r].todo : sweep'[r].todo[i].id = sweep'[r].todo[j].id => i = j
      BY <1>3, <1>4, <1>8
    <3> QED BY <3>1, <3>2, <3>3, <3>4, <3>5
  <2> QED BY <2>1, <2>2 DEF SweepRuns
<1>12. SlotsAreSpent'
  <2> SUFFICES ASSUME NEW s \in audited PROVE SweepSlot(s)' \/ ReadSlot(s)'
    BY <1>1 DEF SlotsAreSpent
  <2>1. \A o \in Runners : sweep'[o].index = sweep[o].index
    BY <1>2, <1>4, <1>8
  <2>2. CASE SweepSlot(s)
    BY <1>1, <2>1, <2>2 DEF SweepSlot, leaseVars
  <2>3. CASE ReadSlot(s)
    <3>1. \A l \in Readers : l \in Actors \ {r}
      BY RefreshConfig DEF Actors
    <3> QED BY <1>1, <1>8, <2>3, <3>1 DEF ReadSlot, Refreshing
  <2> QED BY <2>2, <2>3 DEF RefreshInd, SlotsAreSpent
<1>13. RefusedIsUnusable'
  BY <1>1, <1>6, <1>8 DEF RefreshInd, RefusedIsUnusable, NoCall
<1>14. RacesAreWon'
  <2> SUFFICES ASSUME NEW h \in Grants \ contended' PROVE OneLive(h)' /\ DeliveredIsPending(h)'
    BY DEF RacesAreWon
  <2>0. h \notin contended /\ OneLive(h) /\ DeliveredIsPending(h)
    BY <1>3 DEF RefreshInd, RacesAreWon
  <2>1. \A b \in Actors \ {r} : /\ Live(b, h)' <=> Live(b, h)
                                /\ Succeeded(b)' <=> Succeeded(b)
                                /\ call'[b] = call[b]
    BY <1>1, <1>8 DEF Live, Refreshing, Succeeded
  <2>2. ~ Succeeded(r)' /\ ~ Live(r, h)
    BY <1>2, <1>6, <1>8 DEF Succeeded, Live, Refreshing, NoCall
  <2>3. Live(r, h)' => \A b \in Actors \ {r} : ~ Live(b, h)'
    <3> SUFFICES ASSUME Live(r, h)' PROVE \A b \in Actors \ {r} : ~ Live(b, h)'
      OBVIOUS
    <3>1. todo # <<>> /\ todo[1].id = h
      BY <1>6, <1>8 DEF Live, Refreshing
    <3>2. InFlight(h) \ {r} = {}
      BY <1>3, <3>1 DEF Overlap
    <3> QED BY <2>1, <3>2 DEF InFlight, Live, Refreshing
  <2>4. grant'[h] = grant[h] /\ delivered'[h] = delivered[h]
    BY <1>1
  <2> QED BY <2>0, <2>1, <2>2, <2>3, <2>4, RaceKept
<1>15. PausedWhileListed'
  <2> SUFFICES ASSUME NEW o \in Runners, NEW i \in DOMAIN sweep'[o].todo,
                      Paused(sweep[o].todo[i].id)', grant'[sweep'[o].todo[i].id].token = sweep'[o].todo[i].token
               PROVE  <<o, sweep'[o].todo[i].id>> \in overtaken'
    BY DEF PausedWhileListed
  <2>1. CASE o = r
    BY <1>1, <1>3, <1>4, <1>8, <2>1 DEF Paused
  <2>2. CASE o # r
    BY <1>1, <1>8, <2>2 DEF Paused, RefreshInd, PausedWhileListed
  <2> QED BY <2>1, <2>2
<1> QED BY <1>9, <1>10, <1>11, <1>12, <1>13, <1>14, <1>15 DEF RefreshInd

(* A live read begins a refresh of the stored token, with a new reading of *)
(* the clock.                                                              *)
LEMMA LiveReadInd ==
    ASSUME RefreshInd, LeaseInv', NEW l \in Readers, NEW g \in Grants, RefreshBeforeLiveRead(l, g)
    PROVE  RefreshInd'
<1> DEFINE of == [id |-> g, token |-> grant[g].token]
           c == [step |-> "load", of |-> of]
<1>0. /\ call \in [Actors -> Call] /\ contended \subseteq Grants /\ l \in Actors /\ now \in Nat
      /\ readAt \in [Readers -> Nat] /\ grant[g].token \in Nat /\ l \notin Runners
  BY RefreshConfig DEF RefreshInd, TypeOK, LeaseTypeOK, Actors, Grant
<1>1. /\ UNCHANGED <<leaseVars, grant, login, issued, usable, sweep, audited, recovery, errors,
                     delivered, overtaken>>
      /\ call[l] = NoCall /\ readAt[l] < now
      /\ call' = [call EXCEPT ![l] = c] /\ readAt' = [readAt EXCEPT ![l] = now]
      /\ contended' = contended \cup Overlap(l, g)
  BY DEF RefreshBeforeLiveRead, Begin
<1>2. c \in Call /\ c # NoCall /\ c.step = "load" /\ c.of = of /\ of.id = g /\ of.token = grant[g].token
  <2>1. c \in [step : {"load", "post"}, of : Snapshot]
    BY <1>0 DEF Snapshot
  <2> QED BY <2>1 DEF Call, NoCall
<1> HIDE DEF c, of
<1>3. /\ call' \in [Actors -> Call] /\ call'[l] = c /\ \A b \in Actors \ {l} : call'[b] = call[b]
      /\ readAt' \in [Readers -> Nat] /\ readAt'[l] = now /\ \A k \in Readers \ {l} : readAt'[k] = readAt[k]
  BY <1>0, <1>1, <1>2
<1>4. TypeOK'
  <2>1. contended' \subseteq Grants
    BY <1>0, <1>1 DEF Overlap
  <2>2. LeaseTypeOK'
    BY DEF LeaseInv
  <2> QED BY <1>1, <1>3, <2>1, <2>2 DEF RefreshInd, TypeOK
<1>5. TokensAreIssued' /\ NewTokensAreFresh'
  <2>1. IssueStep /\ LoginStep /\ StoreStep
    BY <1>1 DEF IssueStep, LoginStep, StoreStep
  <2>2. AnswerStep
    BY <1>2, <1>3 DEF AnswerStep
  <2>3. SnapshotStep
    <3>1. Taken(c.of)
      BY <1>2 DEF Taken
    <3>2. ASSUME NEW b \in Actors \ {l}, call'[b] # NoCall PROVE Taken(call'[b].of)
      BY <1>3, <3>2 DEF Taken, Refreshing
    <3> QED BY <1>1, <1>3, <3>1, <3>2 DEF SnapshotStep, Taken
  <2> QED BY <1>4, <2>1, <2>2, <2>3, TokenStep DEF RefreshInd
<1>6. SweepRuns'
  <2>1. \A r \in Runners : call'[r] = call[r]
    BY <1>0, <1>3 DEF Actors
  <2> QED BY <1>1, <2>1 DEF RefreshInd, SweepRuns, leaseVars, Refreshing
<1>7. SlotsAreSpent'
  <2> SUFFICES ASSUME NEW s \in audited PROVE SweepSlot(s)' \/ ReadSlot(s)'
    BY <1>1 DEF SlotsAreSpent
  <2>1. CASE SweepSlot(s)
    BY <1>1, <2>1 DEF SweepSlot, leaseVars
  <2>2. CASE ReadSlot(s)
    <3>1. PICK k \in Readers, h \in Grants : \E t \in 0 .. readAt[k] : s = <<k, h, t>> /\ (Refreshing(k) => t # readAt[k])
      BY <2>2 DEF ReadSlot
    <3>2. PICK t \in 0 .. readAt[k] : s = <<k, h, t>> /\ (Refreshing(k) => t # readAt[k])
      BY <3>1
    <3>3. t \in 0 .. readAt'[k] /\ (Refreshing(k)' => t # readAt'[k])
      <4>1. CASE k = l
        BY <1>0, <1>1, <1>3, <4>1
      <4>2. CASE k # l
        BY <1>3, <3>2, <4>2 DEF Refreshing, Actors
      <4> QED BY <4>1, <4>2
    <3> QED BY <3>2, <3>3 DEF ReadSlot
  <2> QED BY <2>1, <2>2 DEF RefreshInd, SlotsAreSpent
<1>8. RefusedIsUnusable'
  BY <1>1, <1>2, <1>3 DEF RefreshInd, RefusedIsUnusable
<1>9. RacesAreWon'
  <2> SUFFICES ASSUME NEW h \in Grants \ contended' PROVE OneLive(h)' /\ DeliveredIsPending(h)'
    BY DEF RacesAreWon
  <2>0. h \notin contended /\ OneLive(h) /\ DeliveredIsPending(h)
    BY <1>1 DEF RefreshInd, RacesAreWon
  <2>1. \A b \in Actors \ {l} : /\ Live(b, h)' <=> Live(b, h)
                                /\ Succeeded(b)' <=> Succeeded(b)
                                /\ call'[b] = call[b]
    BY <1>1, <1>3 DEF Live, Refreshing, Succeeded
  <2>2. ~ Succeeded(l)' /\ ~ Live(l, h)
    BY <1>1, <1>2, <1>3 DEF Succeeded, Live, Refreshing
  <2>3. Live(l, h)' => \A b \in Actors \ {l} : ~ Live(b, h)'
    <3> SUFFICES ASSUME Live(l, h)' PROVE \A b \in Actors \ {l} : ~ Live(b, h)'
      OBVIOUS
    <3>1. h = g
      BY <1>2, <1>3 DEF Live
    <3>2. InFlight(h) \ {l} = {}
      BY <1>1, <3>1 DEF Overlap
    <3> QED BY <2>1, <3>2 DEF InFlight, Live, Refreshing
  <2>4. grant'[h] = grant[h] /\ delivered'[h] = delivered[h]
    BY <1>1
  <2> QED BY <2>0, <2>1, <2>2, <2>3, <2>4, RaceKept
<1>10. PausedWhileListed'
  BY <1>1, PausesKept, ListedAreGrants DEF RefreshInd, Paused
<1> QED BY <1>4, <1>5, <1>6, <1>7, <1>8, <1>9, <1>10 DEF RefreshInd

(* A run of a sweep is over, in the middle of a refresh or not.            *)
LEMMA SweepEndInd ==
    ASSUME RefreshInd, LeaseInv', NEW r \in Runners, SweepReturns(r) \/ InstanceDies(r) PROVE RefreshInd'
<1>0. /\ call \in [Actors -> Call] /\ sweep \in [Runners -> Sweep] /\ contended \subseteq Grants /\ r \in Actors
      /\ at \in [Runners -> Steps] /\ lease \in [Runners -> Lease]
      /\ NoCall \in Call /\ NoCall.step = "none"
      /\ NoSweep \in Sweep /\ NoSweep.todo = <<>> /\ ~ NoSweep.listed
  <2>1. NoSweep \in Sweep /\ NoSweep.todo = <<>> /\ ~ NoSweep.listed
    BY DEF NoSweep, Sweep
  <2>2. NoCall \in Call /\ NoCall.step = "none"
    BY DEF NoCall, Call
  <2> QED BY <2>1, <2>2 DEF RefreshInd, TypeOK, LeaseTypeOK, Actors
<1>1. /\ UNCHANGED <<grant, login, issued, usable, readAt, audited, recovery, errors, delivered, overtaken>>
      /\ sweep' = [sweep EXCEPT ![r] = NoSweep] /\ job' = job
  BY DEF SweepReturns, InstanceDies, FinishSweep, Abandon
<1>2. \/ call' = [call EXCEPT ![r] = NoCall] /\ contended' = contended \cup (IF call[r] = NoCall THEN {} ELSE {call[r].of.id})
      \/ call' = call /\ call[r] = NoCall /\ contended' = contended
  <2>1. CASE SweepReturns(r)
    BY <2>1 DEF SweepReturns, RefreshInd, SweepRuns, Refreshing
  <2>2. CASE InstanceDies(r)
    BY <2>2 DEF InstanceDies
  <2> QED BY <2>1, <2>2
<1>3. at'[r] # "sweep" /\ \A o \in Runners \ {r} : at'[o] = at[o] /\ lease'[o] = lease[o]
  BY <1>0 DEF SweepReturns, InstanceDies, FinishSweep, Abandon, Return
<1> HIDE DEF NoCall, NoSweep
<1>4. /\ sweep' \in [Runners -> Sweep] /\ sweep'[r] = NoSweep /\ \A o \in Runners \ {r} : sweep'[o] = sweep[o]
      /\ call' \in [Actors -> Call] /\ call'[r] = NoCall /\ \A b \in Actors \ {r} : call'[b] = call[b]
  BY <1>0, <1>1, <1>2
<1>5. TypeOK'
  <2>1. call[r] # NoCall => call[r].of.id \in Grants
    BY <1>0, CallFacts DEF Refreshing
  <2>2. contended' \subseteq Grants
    BY <1>0, <1>2, <2>1
  <2>3. LeaseTypeOK'
    BY DEF LeaseInv
  <2> QED BY <1>1, <1>4, <2>2, <2>3 DEF RefreshInd, TypeOK
<1>6. TokensAreIssued' /\ NewTokensAreFresh'
  <2>1. IssueStep /\ LoginStep /\ StoreStep
    BY <1>1 DEF IssueStep, LoginStep, StoreStep
  <2>2. AnswerStep
    BY <1>0, <1>4 DEF AnswerStep
  <2>3. SnapshotStep
    <3>1. \A b \in Actors : call'[b] # NoCall => Taken(call'[b].of)
      BY <1>4 DEF Taken, Refreshing
    <3>2. ASSUME NEW o \in Runners, NEW i \in DOMAIN sweep'[o].todo PROVE Taken(sweep'[o].todo[i])
      <4>1. o # r
        BY <1>0, <1>4, <3>2
      <4> QED BY <1>4, <4>1 DEF Taken
    <3> QED BY <3>1, <3>2 DEF SnapshotStep
  <2> QED BY <1>5, <2>1, <2>2, <2>3, TokenStep DEF RefreshInd
<1>7. SweepRuns'
  <2>1. \A o \in Runners \ {r} : call'[o] = call[o] /\ sweep'[o] = sweep[o] /\ at'[o] = at[o] /\ lease'[o] = lease[o]
    BY <1>3, <1>4 DEF Actors
  <2>2. \A i \in DOMAIN NoSweep.todo : FALSE
    BY <1>0
  <2> QED BY <1>0, <1>1, <1>3, <1>4, <2>1, <2>2 DEF RefreshInd, SweepRuns, Refreshing
<1>8. SlotsAreSpent'
  <2> SUFFICES ASSUME NEW s \in audited PROVE SweepSlot(s)' \/ ReadSlot(s)'
    BY <1>1 DEF SlotsAreSpent
  <2>1. CASE SweepSlot(s)
    <3>1. PICK n \in 1 .. job.attempt_count, i \in 0 .. Window - 1 :
             /\ s = <<SweepTrace, AuditSequence(n, i)>>
             /\ \A o \in Runners : at[o] = "sweep" /\ lease[o].attempt_count = n => i < sweep[o].index
      BY <2>1 DEF SweepSlot
    <3>2. \A o \in Runners : at'[o] = "sweep" /\ lease'[o].attempt_count = n => i < sweep'[o].index
      BY <1>3, <1>4, <3>1
    <3> QED BY <1>1, <3>1, <3>2 DEF SweepSlot
  <2>2. CASE ReadSlot(s)
    <3>1. \A l \in Readers : l \in Actors \ {r}
      BY RefreshConfig DEF Actors
    <3> QED BY <1>1, <1>4, <2>2, <3>1 DEF ReadSlot, Refreshing
  <2> QED BY <2>1, <2>2 DEF RefreshInd, SlotsAreSpent
<1>9. RefusedIsUnusable'
  BY <1>0, <1>1, <1>4 DEF RefreshInd, RefusedIsUnusable
<1>10. RacesAreWon'
  <2> SUFFICES ASSUME NEW h \in Grants \ contended' PROVE OneLive(h)' /\ DeliveredIsPending(h)'
    BY DEF RacesAreWon
  <2>0. h \notin contended /\ OneLive(h) /\ DeliveredIsPending(h)
    BY <1>2 DEF RefreshInd, RacesAreWon
  <2>1. \A b \in Actors \ {r} : /\ Live(b, h)' <=> Live(b, h)
                                /\ Succeeded(b)' <=> Succeeded(b)
                                /\ call'[b] = call[b]
    BY <1>1, <1>4 DEF Live, Refreshing, Succeeded
  <2>2. ~ Succeeded(r)' /\ ~ Live(r, h)' /\ ~ Live(r, h)
    BY <1>0, <1>2, <1>4 DEF Succeeded, Live, Refreshing
  <2>3. grant'[h] = grant[h] /\ delivered'[h] = delivered[h]
    BY <1>1
  <2> QED BY <2>0, <2>1, <2>2, <2>3, RaceKept
<1>11. PausedWhileListed'
  <2> SUFFICES ASSUME NEW o \in Runners, NEW i \in DOMAIN sweep'[o].todo,
                      Paused(sweep[o].todo[i].id)', grant'[sweep'[o].todo[i].id].token = sweep'[o].todo[i].token
               PROVE  <<o, sweep'[o].todo[i].id>> \in overtaken'
    BY DEF PausedWhileListed
  <2>1. o # r
    BY <1>0, <1>4
  <2> QED BY <1>1, <1>4, <2>1 DEF Paused, RefreshInd, PausedWhileListed
<1> QED BY <1>5, <1>6, <1>7, <1>8, <1>9, <1>10, <1>11 DEF RefreshInd

(* The lease moves: a sweep in progress keeps its attempt, and one that    *)
(* begins has an attempt nobody has written under.                         *)
LEMMA LeaseStepInd == ASSUME RefreshInd, LeaseInv', LeaseStep PROVE RefreshInd'
<1>0. /\ at \in [Runners -> Steps] /\ lease \in [Runners -> Lease] /\ job \in Job /\ job.attempt_count \in Nat
      /\ job.attempt_count + 1 \in Nat
  <2>1. /\ at \in [Runners -> Steps] /\ lease \in [Runners -> Lease] /\ job \in Job /\ job.attempt_count \in Nat
    BY DEF RefreshInd, TypeOK, LeaseTypeOK, Job
  <2> QED BY <2>1
<1>1. UNCHANGED <<grant, login, issued, usable, sweep, call, readAt, audited, recovery, errors,
                  delivered, contended, overtaken>>
  BY DEF LeaseStep, grantVars
<1>2. /\ job'.attempt_count \in {job.attempt_count, job.attempt_count + 1}
      /\ \A r \in Runners :
            \/ at'[r] = at[r] /\ lease'[r] = lease[r]
            \/ at[r] # "sweep" /\ at'[r] # "sweep"
            \/ /\ at[r] = "acquire" /\ at'[r] = "sweep"
               /\ lease'[r].attempt_count = job.attempt_count + 1 /\ job'.attempt_count = job.attempt_count + 1
  <2>1. CASE Tick
    BY <2>1 DEF Tick
  <2>2. ASSUME NEW r \in Runners, RunOnce(r)
        PROVE  job' = job /\ lease' = lease /\ at' = [at EXCEPT ![r] = "insert"] /\ at[r] = "idle"
    BY <2>2 DEF RunOnce
  <2>3. ASSUME NEW r \in Runners, InsertJobIfMissing(r)
        PROVE  /\ job'.attempt_count = job.attempt_count /\ lease' = lease
               /\ at' = [at EXCEPT ![r] = "acquire"] /\ at[r] = "insert"
    BY <1>0, <2>3 DEF InsertJobIfMissing, Job
  <2>4. ASSUME NEW r \in Runners, Finalize(r)
        PROVE  /\ job'.attempt_count = job.attempt_count /\ lease' = [lease EXCEPT ![r] = NoLease]
               /\ at' = [at EXCEPT ![r] = "idle"] /\ at[r] = "finish"
    BY <1>0, <2>4 DEF Finalize, ReleasedJob, Return, Job
  <2>5. ASSUME NEW r \in Runners, TryAcquire(r)
        PROVE  /\ at[r] = "acquire"
               /\ \/ /\ job'.attempt_count = job.attempt_count + 1 /\ at' = [at EXCEPT ![r] = "sweep"]
                     /\ lease' = [lease EXCEPT ![r] = [attempt_count |-> job'.attempt_count,
                                                       lease_until |-> job'.lease_until]]
                  \/ /\ job'.attempt_count = job.attempt_count /\ at' = [at EXCEPT ![r] = "idle"]
                     /\ lease' = [lease EXCEPT ![r] = NoLease]
    BY <1>0, <2>5 DEF TryAcquire, ClaimedJob, Return, Job
  <2>6. ASSUME NEW r \in Runners, RunOnce(r) \/ InsertJobIfMissing(r) \/ TryAcquire(r) \/ Finalize(r)
        PROVE  /\ job'.attempt_count \in {job.attempt_count, job.attempt_count + 1}
               /\ \A o \in Runners \ {r} : at'[o] = at[o] /\ lease'[o] = lease[o]
               /\ \/ at[r] # "sweep" /\ at'[r] # "sweep"
                  \/ /\ at[r] = "acquire" /\ at'[r] = "sweep"
                     /\ lease'[r].attempt_count = job.attempt_count + 1 /\ job'.attempt_count = job.attempt_count + 1
    BY <1>0, <2>2, <2>3, <2>4, <2>5, <2>6
  <2> QED BY <2>1, <2>6 DEF LeaseStep
<1>3. TypeOK'
  <2>1. LeaseTypeOK'
    BY DEF LeaseInv
  <2> QED BY <1>1, <2>1 DEF RefreshInd, TypeOK
<1>4. TokensAreIssued' /\ NewTokensAreFresh'
  BY <1>1, <1>3, NobodyMoves, TokenStep DEF RefreshInd, IssueStep, StoreStep, LoginStep
<1>5. SweepRuns'
  <2>1. \A r \in Runners : at'[r] # "sweep" \/ ~ sweep[r].listed => sweep[r] = NoSweep
    BY <1>2 DEF RefreshInd, SweepRuns
  <2>2. \A r \in Runners : at'[r] = "sweep" => lease'[r].attempt_count \in 1 .. job'.attempt_count
    BY <1>0, <1>2 DEF RefreshInd, SweepRuns
  <2> QED BY <1>1, <2>1, <2>2 DEF RefreshInd, SweepRuns, Refreshing
<1>6. SlotsAreSpent'
  <2> SUFFICES ASSUME NEW s \in audited PROVE SweepSlot(s)' \/ ReadSlot(s)'
    BY <1>1 DEF SlotsAreSpent
  <2>1. CASE SweepSlot(s)
    <3>1. PICK n \in 1 .. job.attempt_count, i \in 0 .. Window - 1 :
             /\ s = <<SweepTrace, AuditSequence(n, i)>>
             /\ \A o \in Runners : at[o] = "sweep" /\ lease[o].attempt_count = n => i < sweep[o].index
      BY <2>1 DEF SweepSlot
    <3>2. n \in 1 .. job'.attempt_count /\ n # job.attempt_count + 1
      BY <1>0, <1>2
    <3>3. \A o \in Runners : at'[o] = "sweep" /\ lease'[o].attempt_count = n => i < sweep'[o].index
      BY <1>1, <1>2, <3>1, <3>2
    <3> QED BY <3>1, <3>2, <3>3 DEF SweepSlot
  <2>2. CASE ReadSlot(s)
    BY <1>1, <2>2 DEF ReadSlot, Refreshing
  <2> QED BY <2>1, <2>2 DEF RefreshInd, SlotsAreSpent
<1>7. RefusedIsUnusable'
  BY <1>1 DEF RefreshInd, RefusedIsUnusable
<1>8. RacesAreWon'
  BY <1>1, RacesKept DEF RefreshInd
<1>9. PausedWhileListed'
  BY <1>1, PausesKept, ListedAreGrants DEF RefreshInd, Paused
<1> QED BY <1>3, <1>4, <1>5, <1>6, <1>7, <1>8, <1>9 DEF RefreshInd

-----------------------------------------------------------------------------
(* Before the first login nothing is stored, taken or written.             *)
LEMMA RefreshInit == Init => RefreshInd
<1> SUFFICES ASSUME Init PROVE RefreshInd
  OBVIOUS
<1>1. LeaseInv
  BY LeaseInitInv DEF Init
<1>2. /\ NoCall \in Call /\ NoCall.step = "none" /\ NoSweep \in Sweep /\ NoSweep.todo = <<>> /\ NoSweep.index = 0
  BY DEF NoCall, Call, NoSweep, Sweep
<1>3. TypeOK
  <2>1. LeaseTypeOK
    BY <1>1 DEF LeaseInv
  <2>2. grant \in [Grants -> Grant]
    BY DEF Init, Grant, Refreshable, Errors, Null
  <2>3. login \in [Grants -> Nat] /\ issued \in [Grants -> Nat] /\ delivered \in [Grants -> Nat]
        /\ usable \in [Grants -> SUBSET Nat] /\ \A g \in Grants : usable[g] \subseteq 1 .. issued[g]
    BY DEF Init
  <2>4. readAt \in [Readers -> Nat] /\ errors \in Nat /\ contended \subseteq Grants
        /\ overtaken \subseteq Runners \X Grants
    BY DEF Init, Null
  <2>5. recovery \in [Recoveries -> [status : {"none", "confirmed", "succeeded", "failed"},
                                     id : Grants \cup {Null}, expected : Nat]]
    BY DEF Init, Null
  <2>6. call \in [Actors -> Call] /\ sweep \in [Runners -> Sweep]
    <3> HIDE DEF NoCall, NoSweep
    <3> QED BY <1>2 DEF Init
  <2> QED BY <2>1, <2>2, <2>3, <2>4, <2>5, <2>6 DEF TypeOK
<1>4. /\ \A a \in Actors : call[a] = NoCall /\ ~ Refreshing(a) /\ ~ Succeeded(a) /\ call[a].step # "record"
      /\ \A r \in Runners : sweep[r] = NoSweep /\ at[r] # "sweep" /\ \A i \in DOMAIN sweep[r].todo : FALSE
  <2> HIDE DEF NoCall, NoSweep
  <2> QED BY <1>2 DEF Init, LeaseInit, Refreshing, Succeeded
<1>5. \A g \in Grants : /\ login[g] = 0 /\ grant[g].token = 0 /\ issued[g] = 0 /\ delivered[g] = 0
                        /\ usable[g] = {}
  BY DEF Init
<1>6. TokensAreIssued /\ NewTokensAreFresh
  BY <1>4, <1>5 DEF TokensAreIssued, NewTokensAreFresh
<1>7. SweepRuns
  <2>1. \A r \in Runners : r \in Actors
    BY DEF Actors
  <2> HIDE DEF NoCall, NoSweep
  <2> QED BY <1>2, <1>4, <2>1 DEF SweepRuns, Refreshing
<1>8. SlotsAreSpent
  BY DEF Init, SlotsAreSpent
<1>9. RefusedIsUnusable /\ RacesAreWon
  BY <1>4, <1>5 DEF RefusedIsUnusable, RacesAreWon, OneLive, DeliveredIsPending, Live
<1>10. PausedWhileListed
  BY <1>4 DEF PausedWhileListed
<1> QED BY <1>1, <1>3, <1>6, <1>7, <1>8, <1>9, <1>10 DEF RefreshInd

(* Every step keeps the invariant, whoever takes it.                       *)
LEMMA RefreshStep == RefreshInd /\ [Next]_vars => RefreshInd'
<1> SUFFICES ASSUME RefreshInd, [Next]_vars PROVE RefreshInd'
  OBVIOUS
<1>0. LeaseInv'
  BY LeaseKept DEF RefreshInd
<1>1. CASE UNCHANGED vars
  <2>1. /\ UNCHANGED <<leaseVars, login, issued, usable, sweep, call, readAt, audited, errors,
                       delivered, contended, overtaken>>
        /\ UNCHANGED <<grant, recovery>>
    BY <1>1 DEF vars, grantVars
  <2>2. \A g \in Grants : Paused(g)' => Paused(g)
    BY <2>1 DEF Paused
  <2> QED BY <1>0, <2>1, <2>2, RowStep DEF RefreshInd, TypeOK
<1>2. CASE LeaseStep
  BY <1>0, <1>2, LeaseStepInd
<1>3. ASSUME NEW r \in Runners, ListCandidates(r) \/ SweepReturns(r) \/ InstanceDies(r) PROVE RefreshInd'
  BY <1>0, <1>3, ListInd, SweepEndInd
<1>4. ASSUME NEW a \in Actors, LoadMaterial(a) \/ PostRefresh(a) \/ RecordRefresh(a) \/ RecordFails(a) PROVE RefreshInd'
  BY <1>0, <1>4, LoadInd, PostInd, RecordInd
<1>5. ASSUME NEW l \in Readers, NEW g \in Grants, RefreshBeforeLiveRead(l, g) PROVE RefreshInd'
  BY <1>0, <1>5, LiveReadInd
<1>6. ASSUME NEW g \in Grants,
             Deauthorize(g) \/ Age(g) \/ ExchangeCode(g) \/ PersistLoginGrant(g) \/ RevokeGrant(g)
      PROVE  RefreshInd'
  BY <1>0, <1>6, DeauthorizeInd, AgeInd, ExchangeInd, PersistInd
<1>7. ASSUME NEW v \in Recoveries, ExecuteResume(v) \/ \E g \in Grants : ConfirmResume(v, g) PROVE RefreshInd'
  BY <1>0, <1>7, ResumeInd
<1> QED BY <1>1, <1>2, <1>3, <1>4, <1>5, <1>6, <1>7 DEF Next

(* The invariant of the races between refreshes, logins and logouts.       *)
THEOREM RefreshInvariant == Spec => []RefreshInd
BY RefreshInit, RefreshStep, PTL DEF Spec

(* A token that Feishu handed out for the stored one ends up stored, when  *)
(* no other refresh of the grant overlapped and none was cut short,        *)
(* whatever logins, logouts and sweeps of other grants go on meanwhile.    *)
THEOREM RotationsAreSaved == Spec => []RefreshInv
<1>1. RefreshInd => RefreshInv
  <2> SUFFICES ASSUME RefreshInd PROVE TypeOK /\ UncontendedRotationIsSaved
    BY DEF RefreshInv
  <2>1. ASSUME NEW g \in Grants \ contended, Settled(g), grant[g].state # "revoked"
        PROVE  grant[g].token = delivered[g]
    BY <2>1 DEF RefreshInd, RacesAreWon, DeliveredIsPending, Settled, Succeeded, Live
  <2> QED BY <2>1 DEF RefreshInd, UncontendedRotationIsSaved
<1> QED BY <1>1, RefreshInvariant, PTL

(* No event of a sweep meets a slot that is taken, whatever was taken over *)
(* from whom: no outcome of a refresh is rolled back by its audit event.   *)
THEOREM SlotsAreFree == Spec => []SweepSlotIsFree
<1>1. RefreshInd => SweepSlotIsFree
  <2> SUFFICES ASSUME RefreshInd, NEW r \in Runners, call[r].step = "record" PROVE AuditSlot(r) \notin audited
    BY DEF SweepSlotIsFree
  <2>1. r \in Actors /\ call \in [Actors -> Call]
    BY DEF RefreshInd, TypeOK, Actors
  <2> QED BY <2>1, CallFacts, SlotIsFree
<1> QED BY <1>1, RefreshInvariant, PTL

(* Who may change the row of a grant, and how: a login, the recovery of a  *)
(* paused one, or the record of a refresh whose snapshot it still is.      *)
LEMMA RowChanges ==
    ASSUME RefreshInd, [Next]_vars, NEW g \in Grants
    PROVE  \/ grant'[g].state \in {grant[g].state, "revoked"} /\ grant'[g].token = grant[g].token
              /\ grant'[g].error = grant[g].error
           \/ login[g] # 0 /\ grant'[g].token = login[g]
           \/ /\ grant'[g].state = grant[g].state /\ grant'[g].token = grant[g].token
              /\ \E v \in Recoveries : /\ recovery[v].id = g /\ recovery[v].status = "confirmed"
                                       /\ recovery'[v].status = "succeeded"
           \/ \E a \in Actors : /\ call[a].step = "record" /\ call[a].of.id = g
                                /\ call[a].of.token = grant[g].token /\ grant[g].state \in Refreshable
<1>0. /\ grant \in [Grants -> Grant] /\ grant[g] \in Grant /\ login \in [Grants -> Nat]
      /\ recovery \in [Recoveries -> [status : {"none", "confirmed", "succeeded", "failed"},
                                      id : Grants \cup {Null}, expected : Nat]]
  BY DEF RefreshInd, TypeOK
<1>1. CASE grant'[g] = grant[g]
  BY <1>1
<1>2. ASSUME NEW h \in Grants, Age(h) \/ RevokeGrant(h)
      PROVE  grant'[g].state \in {grant[g].state, "revoked"} /\ grant'[g].token = grant[g].token
             /\ grant'[g].error = grant[g].error
  <2>1. CASE Age(h)
    BY <1>0, <2>1 DEF Age, Grant
  <2>2. CASE RevokeGrant(h)
    <3>1. grant' = [grant EXCEPT ![h].state = "revoked", ![h].updated_at = now]
      BY <2>2 DEF RevokeGrant
    <3>2. CASE h = g
      BY <1>0, <3>1, <3>2 DEF Grant
    <3>3. CASE h # g
      BY <1>0, <3>1, <3>3
    <3> QED BY <3>2, <3>3
  <2> QED BY <1>2, <2>1, <2>2
<1>3. ASSUME NEW h \in Grants, PersistLoginGrant(h)
      PROVE  grant'[g] = grant[g] \/ (login[g] # 0 /\ grant'[g].token = login[g])
  BY <1>0, <1>3 DEF PersistLoginGrant
<1>4. ASSUME NEW v \in Recoveries, ExecuteResume(v)
      PROVE  \/ grant'[g] = grant[g]
             \/ /\ grant'[g].state = grant[g].state /\ grant'[g].token = grant[g].token
                /\ recovery[v].id = g /\ recovery[v].status = "confirmed" /\ recovery'[v].status = "succeeded"
  <2>1. CASE Paused(recovery[v].id) /\ grant[recovery[v].id].updated_at = recovery[v].expected
    <3>1. /\ recovery[v].status = "confirmed"
          /\ recovery' = [recovery EXCEPT ![v].status = "succeeded"]
          /\ grant' = [grant EXCEPT ![recovery[v].id].error = "none", ![recovery[v].id].updated_at = now]
      BY <1>4, <2>1 DEF ExecuteResume
    <3>2. recovery'[v].status = "succeeded"
      BY <1>0, <3>1
    <3>3. CASE recovery[v].id # g
      BY <1>0, <3>1, <3>3
    <3>4. CASE recovery[v].id = g
      <4>1. grant'[g].state = grant[g].state /\ grant'[g].token = grant[g].token
        BY <1>0, <3>1, <3>4 DEF Grant
      <4> QED BY <3>1, <3>2, <3>4, <4>1
    <3> QED BY <3>3, <3>4
  <2>2. CASE ~ (Paused(recovery[v].id) /\ grant[recovery[v].id].updated_at = recovery[v].expected)
    BY <1>4, <2>2 DEF ExecuteResume
  <2> QED BY <2>1, <2>2
<1>5. ASSUME NEW a \in Actors, RecordRefresh(a) \/ RecordFails(a)
      PROVE  \/ grant'[g] = grant[g]
             \/ /\ call[a].step = "record" /\ call[a].of.id = g
                /\ call[a].of.token = grant[g].token /\ grant[g].state \in Refreshable
  BY <1>0, <1>5 DEF RecordRefresh, RecordFails, Commit, Rollback, CommandMatches
<1>6. CASE UNCHANGED grant
  BY <1>1, <1>6
<1>7. \/ UNCHANGED grant
      \/ \E h \in Grants : Age(h) \/ RevokeGrant(h) \/ PersistLoginGrant(h)
      \/ \E v \in Recoveries : ExecuteResume(v)
      \/ \E a \in Actors : RecordRefresh(a) \/ RecordFails(a)
  BY DEF Next, vars, grantVars, LeaseStep, ListCandidates, SweepReturns, InstanceDies, LoadMaterial, PostRefresh,
         RefreshBeforeLiveRead, Deauthorize, ExchangeCode, ConfirmResume
<1> QED BY <1>1, <1>2, <1>3, <1>4, <1>5, <1>6, <1>7

(* A grant that was revoked, or that needs the user, comes back only by a  *)
(* login, whatever refreshes of it were under way.                         *)
THEOREM OnlyLoginRevives == Spec => RevivedOnlyByLogin
<1> DEFINE Revived ==
        \A g \in Grants :
          grant[g].state \in {"revoked", "reauth_required"} /\ grant'[g].state \in Refreshable =>
             login[g] # 0 /\ grant'[g].token = login[g]
<1>1. RefreshInd /\ [Next]_vars => Revived
  <2> SUFFICES ASSUME RefreshInd, [Next]_vars, NEW g \in Grants,
                      grant[g].state \in {"revoked", "reauth_required"}, grant'[g].state \in Refreshable
               PROVE  login[g] # 0 /\ grant'[g].token = login[g]
    OBVIOUS
  <2>1. grant[g].state \notin Refreshable /\ grant'[g].state \notin {grant[g].state, "revoked"}
    BY DEF Refreshable
  <2> QED BY <2>1, RowChanges
<1>2. RefreshInd /\ [Next]_vars => [Revived]_vars
  BY <1>1
<1>3. Spec => [][Revived]_vars
  BY <1>2, RefreshInvariant, PTL DEF Spec
<1> QED BY <1>3 DEF RevivedOnlyByLogin

(* A stored token is replaced by its own successor or by a login, never by *)
(* the answer to a refresh of an older one.                                *)
THEOREM SuccessorsReplace == Spec => ReplacedByItsSuccessor
<1> DEFINE Replaced ==
        \A g \in Grants :
          grant'[g].token # grant[g].token =>
             \/ grant'[g].token = login[g]
             \/ \E a \in Actors : /\ call[a].step = "record" /\ call[a].of.id = g
                                  /\ call[a].of.token = grant[g].token
<1>1. RefreshInd /\ [Next]_vars => Replaced
  BY RowChanges
<1>2. RefreshInd /\ [Next]_vars => [Replaced]_vars
  BY <1>1
<1>3. Spec => [][Replaced]_vars
  BY <1>2, RefreshInvariant, PTL DEF Spec
<1> QED BY <1>3 DEF ReplacedByItsSuccessor

(* A pause is lifted by a login, a confirmed recovery or a live read, and  *)
(* by no sweep but one that had listed the grant before it was paused.     *)
THEOREM PausesOutlastSweeps == Spec => PauseOutlastsSweeps
<1> DEFINE Outlasts ==
        \A g \in Grants :
          Paused(g) /\ grant'[g].state \in Refreshable /\ grant'[g].error # "paused" =>
             \/ login[g] # 0 /\ grant'[g].token = login[g]
             \/ \E v \in Recoveries : /\ recovery[v].id = g
                                      /\ recovery[v].status = "confirmed"
                                      /\ recovery'[v].status = "succeeded"
             \/ \E l \in Readers : call[l].step = "record" /\ call[l].of.id = g
             \/ \E r \in Runners : <<r, g>> \in overtaken /\ call[r].step = "record" /\ call[r].of.id = g
<1>1. RefreshInd /\ [Next]_vars => Outlasts
  <2> SUFFICES ASSUME RefreshInd, [Next]_vars, NEW g \in Grants,
                      Paused(g), grant'[g].error # "paused"
               PROVE  \/ login[g] # 0 /\ grant'[g].token = login[g]
                      \/ \E v \in Recoveries : /\ recovery[v].id = g
                                               /\ recovery[v].status = "confirmed"
                                               /\ recovery'[v].status = "succeeded"
                      \/ \E l \in Readers : call[l].step = "record" /\ call[l].of.id = g
                      \/ \E r \in Runners : <<r, g>> \in overtaken /\ call[r].step = "record" /\ call[r].of.id = g
    OBVIOUS
  <2>1. ASSUME NEW r \in Runners, call[r].step = "record", call[r].of.id = g, call[r].of.token = grant[g].token
        PROVE  <<r, g>> \in overtaken
    <3>1. r \in Actors /\ call \in [Actors -> Call]
      BY DEF RefreshInd, TypeOK, Actors
    <3>2. Refreshing(r)
      BY <2>1, <3>1, CallFacts
    <3>3. sweep[r].todo \in Seq(Snapshot) /\ Len(sweep[r].todo) \in Nat \ {0} /\ call[r].of = sweep[r].todo[1]
      BY <3>2, IndexInWindow
    <3>4. 1 \in DOMAIN sweep[r].todo
      BY <3>3
    <3> QED BY <2>1, <3>3, <3>4 DEF RefreshInd, PausedWhileListed
  <2>2. grant[g].error = "paused"
    BY DEF Paused
  <2> QED BY <2>1, <2>2, RowChanges DEF Actors
<1>2. RefreshInd /\ [Next]_vars => [Outlasts]_vars
  BY <1>1
<1>3. Spec => [][Outlasts]_vars
  BY <1>2, RefreshInvariant, PTL DEF Spec
<1> QED BY <1>3 DEF PauseOutlastsSweeps
=============================================================================
