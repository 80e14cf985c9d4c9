---------------------- MODULE TenantMaintenanceProofs -----------------------
(***************************************************************************)
(* Proofs about the tenant maintenance daemon, for every set of tenant     *)
(* rows, of reports and of environments.                                   *)
(*                                                                         *)
(* MaintenanceInd adds to the properties where the task can be: nothing    *)
(* has run before the boot, a round under way has tenants left to tick,    *)
(* a drain follows a sweep that returned; and it counts for every drain    *)
(* recorded the ticks of earlier rounds that failed and the tenants that   *)
(* this round has reported.                                                *)
(***************************************************************************)
EXTENDS TenantMaintenance, FiniteSetTheorems, SequenceTheorems, TLAPS

(* Where the task can be.                                                  *)
TaskOK ==
    /\ server = "boot" => task = "none" /\ reports = <<>>
    /\ server = "boot" => rounds.successful = 0 /\ rounds.failed = 0
    /\ task \in {"none", "waiting"} => reports = <<>>
    /\ Ticking => todo # <<>>
    /\ task = "draining" => sweep # NoSweep
    /\ rounds.last.error = "no_round" => rounds.last = NoRound

(* Every tick that is counted or reported was swept and drained.           *)
TicksOK ==
    /\ Runs(status.outbox_drain) = Runs(status.scheduled_sweep)
    /\ status.failed_tenant_ticks + Len(reports) <= Runs(status.outbox_drain)

MaintenanceInd == MaintenanceInv /\ TaskOK /\ TicksOK

-----------------------------------------------------------------------------
(* The classifier names every error, and the safe errors of a round by a   *)
(* code of their own.                                                      *)
LEMMA Classified ==
    /\ \A error : ClassifyFailureCode(error) \in Codes
    /\ \A error \in RoundErrors \cup {"no_round"} :
         error # "no_round" => ClassifyFailureCode(error) # "unknown_failure"
BY DEF ClassifyFailureCode, Codes, RoundErrors, DiscoveryInvalid, BuildErrors

Healths == {"succeeded", "degraded", "failed"}

(* A stage's record counts one run more.                                   *)
LEMMA StageRecordKeeps ==
    ASSUME NEW Reports, NEW stage \in StageType(Reports), NEW status1 \in Healths,
           NEW code \in StageCodes, NEW report \in Reports
    PROVE  /\ StageRecord(stage, <<status1, code>>, report) \in StageType(Reports)
           /\ Runs(StageRecord(stage, <<status1, code>>, report)) = Runs(stage) + 1
<1> DEFINE n == stage[status1]
<1>1. n \in Nat
  BY DEF StageType, Healths
<1>2. n + 1 \in Nat /\ n + 1 = 1 + n
  BY <1>1
<1>3. StageRecord(stage, <<status1, code>>, report) =
        [stage EXCEPT ![status1] = n + 1, !.last_status = status1,
                      !.last_failure_code = code, !.last_report = report]
  BY DEF StageRecord, Healths
<1>4. status1 \in Statuses
  BY DEF Healths, Statuses
<1>5. stage.succeeded \in Nat /\ stage.degraded \in Nat /\ stage.failed \in Nat
  BY DEF StageType
<1> DEFINE next == StageRecord(stage, <<status1, code>>, report)
<1>6. CASE status1 = "succeeded"
  <2>1. n = stage.succeeded
    BY <1>6
  <2> HIDE DEF n
  <2>2. /\ next \in StageType(Reports)
        /\ next.succeeded = n + 1 /\ next.degraded = stage.degraded /\ next.failed = stage.failed
    BY <1>2, <1>3, <1>4, <1>6 DEF StageType
  <2> HIDE DEF next
  <2>3. Runs(next) = Runs(stage) + 1
    BY <1>5, <2>1, <2>2 DEF Runs
  <2> QED  BY <2>2, <2>3 DEF next
<1>7. CASE status1 = "degraded"
  <2>1. n = stage.degraded
    BY <1>7
  <2> HIDE DEF n
  <2>2. /\ next \in StageType(Reports)
        /\ next.succeeded = stage.succeeded /\ next.degraded = n + 1 /\ next.failed = stage.failed
    BY <1>2, <1>3, <1>4, <1>7 DEF StageType
  <2> HIDE DEF next
  <2>3. Runs(next) = Runs(stage) + 1
    BY <1>5, <2>1, <2>2 DEF Runs
  <2> QED  BY <2>2, <2>3 DEF next
<1>8. CASE status1 = "failed"
  <2>1. n = stage.failed
    BY <1>8
  <2> HIDE DEF n
  <2>2. /\ next \in StageType(Reports)
        /\ next.succeeded = stage.succeeded /\ next.degraded = stage.degraded /\ next.failed = n + 1
    BY <1>2, <1>3, <1>4, <1>8 DEF StageType
  <2> HIDE DEF next
  <2>3. Runs(next) = Runs(stage) + 1
    BY <1>5, <2>1, <2>2 DEF Runs
  <2> QED  BY <2>2, <2>3 DEF next
<1> QED  BY <1>6, <1>7, <1>8 DEF Healths

SweepStages == StageType({NoSweep} \cup SweepReports)
DrainStages == StageType({{}} \cup DrainReports)

(* Every result of a sweep and of a drain is recorded as a run.            *)
LEMMA SweepRecorded ==
    ASSUME NEW stage \in SweepStages, NEW result \in SweepReports \cup {SweepError}
    PROVE  /\ RecordScheduledSweep(stage, result) \in SweepStages
           /\ Runs(RecordScheduledSweep(stage, result)) = Runs(stage) + 1
<1>1. CASE result = SweepError
  <2>1. ClassifyFailureCode("stage_failed") \in StageCodes
    BY Classified DEF StageCodes
  <2>2. RecordScheduledSweep(stage, result) =
          StageRecord(stage, <<"failed", ClassifyFailureCode("stage_failed")>>, NoSweep)
    BY <1>1 DEF RecordScheduledSweep
  <2> QED  BY <2>1, <2>2, StageRecordKeeps DEF SweepStages, Healths
<1>2. CASE result # SweepError
  <2>1. result \in SweepReports /\ result.outcome \in SweepOutcomes
    BY <1>2, MaintenanceConfig
  <2>2. ClassifyFailureCode("token_refresh_sweep_failed") \in StageCodes
    BY Classified DEF StageCodes
  <2>3. PICK s \in Healths, code \in StageCodes : ScheduledSweepHealth(result) = <<s, code>>
    BY <2>1, <2>2 DEF ScheduledSweepHealth, Healths, StageCodes, Codes, SweepOutcomes
  <2>4. RecordScheduledSweep(stage, result) = StageRecord(stage, <<s, code>>, result)
    BY <1>2, <2>3 DEF RecordScheduledSweep
  <2> QED  BY <2>1, <2>4, StageRecordKeeps DEF SweepStages
<1> QED  BY <1>1, <1>2

(* And every result of a drain.                                            *)
LEMMA DrainRecorded ==
    ASSUME NEW stage \in DrainStages, NEW result \in DrainReports \cup {DrainError}
    PROVE  /\ RecordOutboxDrain(stage, result) \in DrainStages
           /\ Runs(RecordOutboxDrain(stage, result)) = Runs(stage) + 1
<1>1. CASE result = DrainError
  <2>1. ClassifyFailureCode("stage_failed") \in StageCodes
    BY Classified DEF StageCodes
  <2>2. RecordOutboxDrain(stage, result) =
          StageRecord(stage, <<"failed", ClassifyFailureCode("stage_failed")>>, {})
    BY <1>1 DEF RecordOutboxDrain
  <2> QED  BY <2>1, <2>2, StageRecordKeeps DEF DrainStages, Healths
<1>2. CASE result # DrainError
  <2>1. result \in DrainReports
    BY <1>2
  <2>2. PICK s \in Healths, code \in StageCodes : OutboxDrainHealth(result) = <<s, code>>
    BY DEF OutboxDrainHealth, Healths, StageCodes, Codes
  <2>3. RecordOutboxDrain(stage, result) = StageRecord(stage, <<s, code>>, result)
    BY <1>2, <2>2 DEF RecordOutboxDrain
  <2> QED  BY <2>1, <2>3, StageRecordKeeps DEF DrainStages
<1> QED  BY <1>1, <1>2

-----------------------------------------------------------------------------
(* The status.                                                             *)
Named(s) == s.last_round_status = "failed" => s.last_failure_code # "unknown_failure"
SameStages(s, t) == t.scheduled_sweep = s.scheduled_sweep /\ t.outbox_drain = s.outbox_drain
SameRounds(s, t) ==
    /\ t.successful_rounds = s.successful_rounds /\ t.failed_rounds = s.failed_rounds
    /\ t.failed_tenant_ticks = s.failed_tenant_ticks
SameLast(s, t) ==
    t.last_round_status = s.last_round_status /\ t.last_failure_code = s.last_failure_code

(* A tick counts once for each of its stages, and for no round.            *)
LEMMA ReportRecorded ==
    ASSUME NEW s \in StatusType, NEW sweepResult \in SweepReports \cup {SweepError},
           NEW drainResult \in DrainReports \cup {DrainError}, NEW t,
           t = RecordTenantReport(s, sweepResult, drainResult)
    PROVE  /\ t \in StatusType /\ SameRounds(s, t) /\ SameLast(s, t)
           /\ Runs(t.scheduled_sweep) = Runs(s.scheduled_sweep) + 1
           /\ Runs(t.outbox_drain) = Runs(s.outbox_drain) + 1
<1> DEFINE a == RecordScheduledSweep(s.scheduled_sweep, sweepResult)
           b == RecordOutboxDrain(s.outbox_drain, drainResult)
<1>1. s.scheduled_sweep \in SweepStages /\ s.outbox_drain \in DrainStages
  BY DEF StatusType, SweepStages, DrainStages
<1>2. a \in SweepStages /\ Runs(a) = Runs(s.scheduled_sweep) + 1
  BY <1>1, SweepRecorded
<1>3. b \in DrainStages /\ Runs(b) = Runs(s.outbox_drain) + 1
  BY <1>1, DrainRecorded
<1>4. t = [s EXCEPT !.scheduled_sweep = a, !.outbox_drain = b]
  BY DEF RecordTenantReport
<1> HIDE DEF a, b
<1>5. t \in StatusType
  BY <1>2, <1>3, <1>4 DEF StatusType, SweepStages, DrainStages
<1>6. SameRounds(s, t) /\ SameLast(s, t) /\ t.scheduled_sweep = a /\ t.outbox_drain = b
  BY <1>4 DEF StatusType, SameRounds, SameLast
<1> QED  BY <1>2, <1>3, <1>5, <1>6

(* A round fails for at most the tenants it reports.                       *)
LEMMA FailuresCounted ==
    ASSUME NEW round \in RoundType
    PROVE  /\ Cardinality(Failures(round)) \in Nat
           /\ Cardinality(Failures(round)) <= Len(round.reports)
           /\ Len(round.reports) \in Nat
<1>1. round.reports \in Seq(ReportType)
  BY DEF RoundType
<1>2. Len(round.reports) \in Nat /\ DOMAIN round.reports = 1 .. Len(round.reports)
  BY <1>1
<1>3. IsFiniteSet(1 .. Len(round.reports)) /\ Cardinality(1 .. Len(round.reports)) = Len(round.reports)
  BY <1>2, FS_Interval
<1>4. Failures(round) \subseteq 1 .. Len(round.reports)
  BY <1>2 DEF Failures
<1> QED  BY <1>2, <1>3, <1>4, FS_Subset, FS_CardinalityType

(* Showing a round leaves the counters and the stages alone.               *)
LEMMA RoundApplied ==
    ASSUME NEW s \in StatusType, NEW round \in RoundType, round.error # "no_round",
           NEW t, t = ApplyRound(s, round)
    PROVE  t \in StatusType /\ SameRounds(s, t) /\ SameStages(s, t) /\ Named(t)
<1>1. CASE round.error = None
  <2> DEFINE n == Len(round.reports)  m == Cardinality(Failures(round))
             code == IF Failures(round) = {} THEN None
                     ELSE ClassifyFailureCode(round.reports[Min(Failures(round))].error)
             how == IF Failures(round) = {} THEN "succeeded" ELSE "degraded"
  <2>1. n \in Nat /\ m \in Nat
    BY FailuresCounted
  <2>2. code \in Codes
    BY Classified DEF Codes
  <2>3. how \in Statuses /\ how # "failed"
    BY DEF Statuses
  <2>4. t = [s EXCEPT !.last_round_tenant_count = n, !.last_round_failed_tenant_count = m,
                      !.last_round_status = how, !.last_failure_code = code]
    BY <1>1 DEF ApplyRound, SetRegistryRoundStatus
  <2> HIDE DEF n, m, code, how
  <2>5. t \in StatusType
    BY <2>1, <2>2, <2>3, <2>4 DEF StatusType
  <2>6. SameRounds(s, t) /\ SameStages(s, t) /\ t.last_round_status = how
    BY <2>4 DEF StatusType, SameRounds, SameStages
  <2> QED  BY <2>3, <2>5, <2>6 DEF Named
<1>2. CASE round.error # None
  <2> DEFINE code == ClassifyFailureCode(round.error)
  <2>1. round.error \in RoundErrors
    BY <1>2 DEF RoundType
  <2>2. code \in Codes /\ code # "unknown_failure"
    BY <2>1, Classified DEF RoundErrors, DiscoveryInvalid, BuildErrors
  <2>3. t = [s EXCEPT !.last_round_tenant_count = 0, !.last_round_failed_tenant_count = 0,
                      !.last_round_status = "failed", !.last_failure_code = code]
    BY <1>2 DEF ApplyRound, ApplyFailedRound
  <2> HIDE DEF code
  <2>4. t \in StatusType
    <3>1. PICK how \in Statuses, n \in Nat : how = "failed" /\ n = 0
      BY DEF Statuses
    <3>2. t = [s EXCEPT !.last_round_tenant_count = n, !.last_round_failed_tenant_count = n,
                        !.last_round_status = how, !.last_failure_code = code]
      BY <2>3, <3>1
    <3> QED  BY <2>2, <3>2 DEF StatusType
  <2>5. SameRounds(s, t) /\ SameStages(s, t) /\ t.last_failure_code = code
    BY <2>3 DEF StatusType, SameRounds, SameStages
  <2> QED  BY <2>2, <2>4, <2>5 DEF Named
<1> QED  BY <1>1, <1>2

(* Recording a round counts it, and its failures.                          *)
LEMMA RoundRecorded ==
    ASSUME NEW s \in StatusType, NEW round \in RoundType, round.error # "no_round",
           NEW t, t = RecordRound(s, round)
    PROVE  /\ t \in StatusType /\ SameStages(s, t) /\ Named(t)
           /\ t.successful_rounds = s.successful_rounds + (IF round.error = None THEN 1 ELSE 0)
           /\ t.failed_rounds = s.failed_rounds + (IF round.error = None THEN 0 ELSE 1)
           /\ t.failed_tenant_ticks <= s.failed_tenant_ticks + Len(round.reports)
<1>1. s.successful_rounds \in Nat /\ s.failed_rounds \in Nat /\ s.failed_tenant_ticks \in Nat
  BY DEF StatusType
<1>2. CASE round.error = None
  <2> DEFINE good == s.successful_rounds + 1
             ticks == s.failed_tenant_ticks + Cardinality(Failures(round))
             u == [s EXCEPT !.state = "running", !.successful_rounds = good,
                            !.failed_tenant_ticks = ticks]
  <2>1. good \in Nat /\ ticks \in Nat /\ ticks <= s.failed_tenant_ticks + Len(round.reports)
    BY <1>1, FailuresCounted
  <2>2. t = ApplyRound(u, round)
    BY <1>2 DEF RecordRound
  <2>3. good = s.successful_rounds + 1
    OBVIOUS
  <2> HIDE DEF good, ticks
  <2>4. /\ u \in StatusType /\ SameStages(s, u) /\ u.successful_rounds = good
        /\ u.failed_rounds = s.failed_rounds /\ u.failed_tenant_ticks = ticks
    BY <2>1 DEF StatusType, SameStages
  <2> HIDE DEF u
  <2>5. t \in StatusType /\ SameRounds(u, t) /\ SameStages(u, t) /\ Named(t)
    BY <2>2, <2>4, RoundApplied
  <2> QED  BY <1>1, <1>2, <2>1, <2>3, <2>4, <2>5 DEF SameRounds, SameStages
<1>3. CASE round.error # None
  <2> DEFINE bad == s.failed_rounds + 1
             u == [s EXCEPT !.state = "running", !.failed_rounds = bad]
  <2>1. bad \in Nat /\ s.failed_tenant_ticks <= s.failed_tenant_ticks + Len(round.reports)
    BY <1>1, FailuresCounted
  <2>2. t = ApplyRound(u, round)
    BY <1>3 DEF RecordRound
  <2>3. bad = s.failed_rounds + 1
    OBVIOUS
  <2> HIDE DEF bad
  <2>4. /\ u \in StatusType /\ SameStages(s, u) /\ u.successful_rounds = s.successful_rounds
        /\ u.failed_rounds = bad /\ u.failed_tenant_ticks = s.failed_tenant_ticks
    BY <2>1 DEF StatusType, SameStages
  <2> HIDE DEF u
  <2>5. t \in StatusType /\ SameRounds(u, t) /\ SameStages(u, t) /\ Named(t)
    BY <2>2, <2>4, RoundApplied
  <2> QED  BY <1>1, <1>3, <2>1, <2>3, <2>4, <2>5 DEF SameRounds, SameStages
<1> QED  BY <1>2, <1>3

(* The loop's report at its end overwrites the round counters.             *)
LEMMA StoppedMarked ==
    ASSUME NEW s \in StatusType, Named(s),
           NEW report \in [successful : Nat, failed : Nat, last : RoundType],
           report.last.error = "no_round" => report.last = NoRound,
           NEW t, t = MarkStopped(s, report)
    PROVE  /\ t \in StatusType /\ SameStages(s, t) /\ Named(t)
           /\ t.successful_rounds = report.successful /\ t.failed_rounds = report.failed
           /\ t.failed_tenant_ticks = s.failed_tenant_ticks
<1> DEFINE u == [s EXCEPT !.state = "stopped", !.successful_rounds = report.successful,
                          !.failed_rounds = report.failed]
<1>1. /\ u \in StatusType /\ SameStages(s, u) /\ SameLast(s, u)
      /\ u.successful_rounds = report.successful
      /\ u.failed_rounds = report.failed /\ u.failed_tenant_ticks = s.failed_tenant_ticks
  BY DEF StatusType, SameStages, SameLast
<1>2. t = IF report.last = NoRound THEN u ELSE ApplyRound(u, report.last)
  BY DEF MarkStopped
<1> HIDE DEF u
<1>3. CASE report.last = NoRound
  BY <1>1, <1>2, <1>3 DEF Named, SameLast
<1>4. CASE report.last # NoRound
  <2>1. t \in StatusType /\ SameRounds(u, t) /\ SameStages(u, t) /\ Named(t)
    BY <1>1, <1>2, <1>4, RoundApplied
  <2> QED  BY <1>1, <2>1 DEF SameRounds, SameStages
<1> QED  BY <1>3, <1>4

(* Marking the daemon as failed leaves rounds and stages alone.            *)
LEMMA FailedMarked ==
    ASSUME NEW s \in StatusType, NEW code \in DaemonCodes, NEW t, t = MarkDaemonFailed(s, code)
    PROVE  t \in StatusType /\ SameStages(s, t) /\ SameRounds(s, t) /\ SameLast(s, t)
<1> DEFINE n == s.daemon_failures + 1
<1>1. n \in Nat
  BY DEF StatusType
<1>2. t = [s EXCEPT !.state = "failed", !.daemon_failures = n, !.last_daemon_failure_code = code]
  BY DEF MarkDaemonFailed
<1> HIDE DEF n
<1> QED  BY <1>1, <1>2 DEF StatusType, SameStages, SameRounds, SameLast

(* A status that is new counts nothing.                                    *)
LEMMA StatusStarts ==
    ASSUME NEW enabled \in BOOLEAN, NEW t, t \in {NewStatus(enabled), MarkRunning(NewStatus(enabled))}
    PROVE  /\ t \in StatusType /\ Named(t)
           /\ t.successful_rounds = 0 /\ t.failed_rounds = 0 /\ t.failed_tenant_ticks = 0
           /\ Runs(t.scheduled_sweep) = 0 /\ Runs(t.outbox_drain) = 0
<1>1. EmptyStage(NoSweep) \in SweepStages /\ Runs(EmptyStage(NoSweep)) = 0
  BY DEF EmptyStage, SweepStages, StageType, Statuses, StageCodes, Codes, Runs
<1>2. EmptyStage({}) \in DrainStages /\ Runs(EmptyStage({})) = 0
  BY DEF EmptyStage, DrainStages, StageType, Statuses, StageCodes, Codes, Runs
<1>3. /\ NewStatus(enabled) \in StatusType
      /\ NewStatus(enabled).scheduled_sweep = EmptyStage(NoSweep)
      /\ NewStatus(enabled).outbox_drain = EmptyStage({})
      /\ NewStatus(enabled).last_round_status = None
      /\ NewStatus(enabled).successful_rounds = 0 /\ NewStatus(enabled).failed_rounds = 0
      /\ NewStatus(enabled).failed_tenant_ticks = 0
  BY <1>1, <1>2 DEF NewStatus, StatusType, SweepStages, DrainStages, Statuses, Codes, DaemonCodes
<1>4. CASE t = NewStatus(enabled)
  BY <1>1, <1>2, <1>3, <1>4 DEF Named, None
<1>5. CASE t = MarkRunning(NewStatus(enabled))
  <2>1. PICK s : s = NewStatus(enabled)
    OBVIOUS
  <2>2. t \in StatusType
    BY <1>3, <1>5, <2>1 DEF MarkRunning, StatusType, Codes, DaemonCodes
  <2>3. /\ t.scheduled_sweep = s.scheduled_sweep /\ t.outbox_drain = s.outbox_drain
        /\ t.last_round_status = s.last_round_status
        /\ t.successful_rounds = s.successful_rounds /\ t.failed_rounds = s.failed_rounds
        /\ t.failed_tenant_ticks = s.failed_tenant_ticks
    BY <1>3, <1>5, <2>1 DEF MarkRunning, StatusType
  <2> QED  BY <1>1, <1>2, <1>3, <2>1, <2>2, <2>3 DEF Named, None
<1> QED  BY <1>4, <1>5

-----------------------------------------------------------------------------
(* Steps that touch neither the status nor the loop's counters.            *)
LEMMA StatusStays ==
    ASSUME MaintenanceInd, UNCHANGED <<rounds, status>>
    PROVE  RoundCountersAgree' /\ FailedRoundIsNamed'
BY DEF MaintenanceInd, MaintenanceInv, RoundCountersAgree, FailedRoundIsNamed

(* Steps of the server and the end of the task leave the round alone.      *)
LEMMA LoopStays ==
    ASSUME MaintenanceInd, UNCHANGED <<active, loopVars, status>>,
           env' \in Envs \cup {NoEnv}, server' \in {"boot", "serving", "shutdown", "returned"},
           task' \in {"none", "waiting", "building", "sweeping", "draining", "stopped", "panicked",
                      "aborted"},
           cancel' \in BOOLEAN, server' = "returned" => ~ Alive',
           server' # "boot", task' = task \/ task' \in {"stopped", "panicked", "aborted"}
    PROVE  MaintenanceInd'
<1>1. TypeOK' /\ RoundCountersAgree' /\ FailedRoundIsNamed' /\ NoTickAfterReturn'
  BY StatusStays DEF MaintenanceInd, MaintenanceInv, TypeOK, NoTickAfterReturn, loopVars
<1>2. TaskOK'
  BY DEF MaintenanceInd, TaskOK, Ticking, loopVars
<1>3. TicksOK'
  BY DEF MaintenanceInd, TicksOK, loopVars
<1> QED  BY <1>1, <1>2, <1>3 DEF MaintenanceInd, MaintenanceInv

(* A round ends: what is recorded, and the loop's own counters.            *)
LEMMA EndRoundPreserves ==
    ASSUME MaintenanceInd, Alive, NEW s \in StatusType,
           SameRounds(status, s), Runs(s.outbox_drain) = Runs(s.scheduled_sweep),
           NEW round \in RoundType, round.error # "no_round",
           status.failed_tenant_ticks + Len(round.reports) <= Runs(s.outbox_drain),
           EndRound(s, round), UNCHANGED <<env, server, active, cancel>>
    PROVE  MaintenanceInd'
<1>1. /\ status' = RecordRound(s, round) /\ task' = "waiting"
      /\ rounds' = [successful |-> rounds.successful + (IF round.error = None THEN 1 ELSE 0),
                    failed |-> rounds.failed + (IF round.error = None THEN 0 ELSE 1),
                    last |-> round]
      /\ todo' = <<>> /\ reports' = <<>> /\ sweep' = NoSweep
  BY DEF EndRound
<1>2. /\ status' \in StatusType /\ SameStages(s, status') /\ Named(status')
      /\ status'.successful_rounds = s.successful_rounds + (IF round.error = None THEN 1 ELSE 0)
      /\ status'.failed_rounds = s.failed_rounds + (IF round.error = None THEN 0 ELSE 1)
      /\ status'.failed_tenant_ticks <= s.failed_tenant_ticks + Len(round.reports)
  BY <1>1, RoundRecorded
<1>3. rounds.successful \in Nat /\ rounds.failed \in Nat
  BY DEF MaintenanceInd, MaintenanceInv, TypeOK
<1>4. /\ rounds.successful + (IF round.error = None THEN 1 ELSE 0) \in Nat
      /\ rounds.failed + (IF round.error = None THEN 0 ELSE 1) \in Nat
  BY <1>3
<1>5. rounds' \in [successful : Nat, failed : Nat, last : RoundType]
  BY <1>1, <1>4
<1>6. TypeOK'
  BY <1>1, <1>2, <1>5 DEF MaintenanceInd, MaintenanceInv, TypeOK
<1>7. RoundCountersAgree'
  BY <1>1, <1>2 DEF MaintenanceInd, MaintenanceInv, RoundCountersAgree, SameRounds
<1>8. FailedRoundIsNamed' /\ NoTickAfterReturn'
  BY <1>2 DEF MaintenanceInd, MaintenanceInv, FailedRoundIsNamed, Named, NoTickAfterReturn
<1>9. TaskOK'
  <2>1. server # "boot"
    BY DEF MaintenanceInd, TaskOK, Alive
  <2> QED  BY <1>1, <2>1 DEF TaskOK, Ticking
<1>10. TicksOK'
  <2>1. Len(reports') = 0
    BY <1>1
  <2>2. /\ Runs(status'.outbox_drain) = Runs(s.outbox_drain)
        /\ Runs(status'.scheduled_sweep) = Runs(s.scheduled_sweep)
    BY <1>2 DEF SameStages
  <2>3. Runs(s.outbox_drain) \in Nat
    BY SMTT(30) DEF StatusType, StageType, Runs
  <2>4. /\ status'.failed_tenant_ticks \in Nat /\ status.failed_tenant_ticks \in Nat
        /\ s.failed_tenant_ticks = status.failed_tenant_ticks /\ Len(round.reports) \in Nat
    BY <1>2, FailuresCounted DEF StatusType, SameRounds, MaintenanceInd, MaintenanceInv, TypeOK
  <2>5. status'.failed_tenant_ticks + 0 <= Runs(s.outbox_drain)
    BY <1>2, <2>3, <2>4
  <2> QED  BY <2>1, <2>2, <2>5 DEF TicksOK
<1> QED  BY <1>6, <1>7, <1>8, <1>9, <1>10 DEF MaintenanceInd, MaintenanceInv

(* A round that ends without a report.                                     *)
LEMMA EmptyRoundPreserves ==
    ASSUME MaintenanceInd, Alive, NEW error \in {None} \cup RoundErrors,
           EndRound(status, [error |-> error, reports |-> <<>>]),
           UNCHANGED <<env, server, active, cancel>>
    PROVE  MaintenanceInd'
<1> DEFINE round == [error |-> error, reports |-> <<>>]
<1>1. <<>> \in Seq(ReportType) /\ Len(<<>>) = 0
  OBVIOUS
<1>2. round \in RoundType /\ round.error # "no_round" /\ Len(round.reports) = 0
  BY <1>1 DEF RoundType, RoundErrors, None, DiscoveryInvalid, BuildErrors
<1>3. status \in StatusType /\ SameRounds(status, status) /\ reports \in Seq(ReportType)
  BY DEF MaintenanceInd, MaintenanceInv, TypeOK, SameRounds
<1>4. status.failed_tenant_ticks \in Nat /\ Len(reports) \in Nat /\ Runs(status.outbox_drain) \in Nat
  BY <1>3, SMTT(30) DEF StatusType, StageType, Runs
<1>5. Runs(status.outbox_drain) = Runs(status.scheduled_sweep)
  BY DEF MaintenanceInd, TicksOK
<1>6. status.failed_tenant_ticks + Len(round.reports) <= Runs(status.outbox_drain)
  BY <1>2, <1>4 DEF MaintenanceInd, TicksOK
<1> HIDE DEF round
<1>7. EndRound(status, round)
  BY DEF round
<1> QED  BY <1>2, <1>3, <1>5, <1>6, <1>7, EndRoundPreserves

-----------------------------------------------------------------------------
(* The environment is read, and the daemon spawned if it is enabled.       *)
LEMMA BootPreserves ==
    ASSUME MaintenanceInd, Boot
    PROVE  MaintenanceInd'
<1>1. /\ server = "boot" /\ task = "none" /\ reports = <<>>
      /\ rounds.successful = 0 /\ rounds.failed = 0
      /\ env' = NoEnv /\ UNCHANGED <<active, cancel, todo, reports, sweep, rounds>>
  BY DEF Boot, loopVars, MaintenanceInd, TaskOK
<1>2. CASE UNCHANGED <<status, task>>
  <2>1. server' \in {"serving", "returned"}
    BY <1>2, <1>1 DEF Boot, MarkRunning
  <2>2. cancel' \in BOOLEAN /\ ~ Alive'
    BY <1>1, <1>2 DEF MaintenanceInd, MaintenanceInv, TypeOK, Alive
  <2> QED  BY <1>1, <1>2, <2>1, <2>2, LoopStays DEF loopVars
<1>3. CASE server' = "serving" /\ task' = "waiting" /\ status' = MarkRunning(NewStatus(TRUE))
  <2>1. /\ status' \in StatusType /\ Named(status')
        /\ status'.successful_rounds = 0 /\ status'.failed_rounds = 0
        /\ status'.failed_tenant_ticks = 0
        /\ Runs(status'.scheduled_sweep) = 0 /\ Runs(status'.outbox_drain) = 0
    BY <1>3, StatusStarts
  <2>2. TypeOK'
    BY <1>1, <1>3, <2>1 DEF MaintenanceInd, MaintenanceInv, TypeOK
  <2>3. RoundCountersAgree' /\ FailedRoundIsNamed' /\ NoTickAfterReturn'
    BY <1>1, <1>3, <2>1 DEF RoundCountersAgree, FailedRoundIsNamed, Named, NoTickAfterReturn
  <2>4. TaskOK'
    BY <1>1, <1>3 DEF MaintenanceInd, TaskOK, Ticking
  <2>5. TicksOK'
    <3>1. Len(reports') = 0
      BY <1>1
    <3> QED  BY <2>1, <3>1 DEF TicksOK
  <2> QED  BY <2>2, <2>3, <2>4, <2>5 DEF MaintenanceInd, MaintenanceInv
<1> QED  BY <1>2, <1>3 DEF Boot

(* A tenant becomes active or ceases to be.                                *)
LEMMA UpsertTenantPreserves ==
    ASSUME MaintenanceInd, NEW row \in Rows, UpsertTenant(row)
    PROVE  MaintenanceInd'
<1>1. UNCHANGED <<env, server, task, cancel, todo, reports, sweep, rounds, status>>
  BY DEF UpsertTenant, loopVars
<1>2. active' \subseteq Rows
  BY DEF UpsertTenant, MaintenanceInd, MaintenanceInv, TypeOK
<1>3. TypeOK'
  BY <1>1, <1>2 DEF MaintenanceInd, MaintenanceInv, TypeOK
<1>4. RoundCountersAgree' /\ FailedRoundIsNamed' /\ NoTickAfterReturn'
  BY <1>1, StatusStays DEF MaintenanceInd, MaintenanceInv, NoTickAfterReturn, Alive
<1>5. TaskOK' /\ TicksOK'
  BY <1>1 DEF MaintenanceInd, TaskOK, Ticking, TicksOK
<1> QED  BY <1>3, <1>4, <1>5 DEF MaintenanceInd, MaintenanceInv

(* The loop ends and reports.                                              *)
LEMMA StopPreserves ==
    ASSUME MaintenanceInd, Stop
    PROVE  MaintenanceInd'
<1>1. /\ task = "waiting" /\ task' = "stopped" /\ status' = MarkStopped(status, rounds)
      /\ UNCHANGED <<env, server, active, cancel, todo, reports, sweep, rounds>>
  BY DEF Stop, loopVars
<1>2. /\ status \in StatusType /\ Named(status)
      /\ rounds \in [successful : Nat, failed : Nat, last : RoundType]
      /\ rounds.last.error = "no_round" => rounds.last = NoRound
  BY DEF MaintenanceInd, MaintenanceInv, TypeOK, FailedRoundIsNamed, Named, TaskOK
<1>3. /\ status' \in StatusType /\ SameStages(status, status') /\ Named(status')
      /\ status'.successful_rounds = rounds.successful /\ status'.failed_rounds = rounds.failed
      /\ status'.failed_tenant_ticks = status.failed_tenant_ticks
  BY <1>1, <1>2, StoppedMarked
<1>4. TypeOK'
  BY <1>1, <1>3 DEF MaintenanceInd, MaintenanceInv, TypeOK
<1>5. RoundCountersAgree' /\ FailedRoundIsNamed' /\ NoTickAfterReturn'
  BY <1>1, <1>3 DEF RoundCountersAgree, FailedRoundIsNamed, Named, NoTickAfterReturn, Alive
<1>6. TaskOK'
  BY <1>1 DEF MaintenanceInd, TaskOK, Ticking
<1>7. TicksOK'
  BY <1>1, <1>3 DEF MaintenanceInd, TicksOK, SameStages
<1> QED  BY <1>4, <1>5, <1>6, <1>7 DEF MaintenanceInd, MaintenanceInv

(* A round begins with the tenants that were listed, in their order.       *)
LEMMA ListedAreTenants ==
    ASSUME MaintenanceInd, NEW listed \in Listings
    PROVE  [i \in DOMAIN listed |-> Canonical[listed[i]]] \in Seq(Nat)
<1> DEFINE n == Cardinality(active)
<1>1. active \subseteq Rows
  BY DEF MaintenanceInd, MaintenanceInv, TypeOK
<1>2. n \in Nat
  BY <1>1, MaintenanceConfig, FS_Subset, FS_CardinalityType
<1>3. listed \in [1 .. n -> active]
  BY DEF Listings
<1> HIDE DEF n
<1>4. [i \in DOMAIN listed |-> Canonical[listed[i]]] \in [1 .. n -> Nat]
  BY <1>1, <1>3, MaintenanceConfig
<1> QED  BY <1>2, <1>4

(* Discovery fails, finds ids that are wrong, nobody, or tenants.          *)
LEMMA DiscoverPreserves ==
    ASSUME MaintenanceInd, Discover
    PROVE  MaintenanceInd'
<1>1. task = "waiting" /\ Alive /\ UNCHANGED <<env, server, active, cancel>>
  BY DEF Discover, Alive
<1>2. CASE FailRound("tenant_discovery_failed")
  BY <1>1, <1>2, EmptyRoundPreserves DEF FailRound, RoundErrors
<1>3. ASSUME NEW listed \in Listings, NEW ids \in Seq(Nat),
             \/ ValidateTenantIds(ids) # None /\ FailRound(ValidateTenantIds(ids))
             \/ ids = <<>> /\ EndRound(status, [error |-> None, reports |-> <<>>])
             \/ /\ ValidateTenantIds(ids) = None /\ ids # <<>>
                /\ task' = "building"
                /\ todo' = ids
                /\ UNCHANGED <<reports, sweep, rounds, status>>
      PROVE  MaintenanceInd'
  <2>1. CASE ValidateTenantIds(ids) # None /\ FailRound(ValidateTenantIds(ids))
    <3>1. ValidateTenantIds(ids) \in RoundErrors
      BY <2>1 DEF ValidateTenantIds, RoundErrors, DiscoveryInvalid
    <3> QED  BY <1>1, <2>1, <3>1, EmptyRoundPreserves DEF FailRound
  <2>2. CASE EndRound(status, [error |-> None, reports |-> <<>>])
    BY <1>1, <2>2, EmptyRoundPreserves
  <2>3. CASE /\ ids # <<>> /\ task' = "building" /\ todo' = ids
             /\ UNCHANGED <<reports, sweep, rounds, status>>
    <3>1. TypeOK'
      BY <1>1, <2>3 DEF MaintenanceInd, MaintenanceInv, TypeOK
    <3>2. RoundCountersAgree' /\ FailedRoundIsNamed' /\ NoTickAfterReturn'
      BY <1>1, <2>3, StatusStays DEF MaintenanceInd, MaintenanceInv, NoTickAfterReturn
    <3>3. TaskOK'
      BY <1>1, <2>3 DEF MaintenanceInd, TaskOK, Ticking
    <3>4. TicksOK'
      BY <2>3 DEF MaintenanceInd, TicksOK
    <3> QED  BY <3>1, <3>2, <3>3, <3>4 DEF MaintenanceInd, MaintenanceInv
  <2> QED  BY <1>3, <2>1, <2>2, <2>3
<1> QED  BY <1>2, <1>3, ListedAreTenants DEF Discover

(* The ticks are built, or one cannot be.                                  *)
LEMMA BuildTicksPreserves ==
    ASSUME MaintenanceInd, BuildTicks
    PROVE  MaintenanceInd'
<1>1. task = "building" /\ Alive /\ UNCHANGED <<env, server, active, cancel>>
  BY DEF BuildTicks, Alive
<1>2. ASSUME NEW error \in BuildErrors, FailRound(error)
      PROVE  MaintenanceInd'
  BY <1>1, <1>2, EmptyRoundPreserves DEF FailRound, RoundErrors
<1>3. CASE task' = "sweeping" /\ UNCHANGED <<loopVars, status>>
  <2>1. TypeOK'
    BY <1>1, <1>3 DEF MaintenanceInd, MaintenanceInv, TypeOK, loopVars
  <2>2. RoundCountersAgree' /\ FailedRoundIsNamed' /\ NoTickAfterReturn'
    BY <1>1, <1>3, StatusStays DEF MaintenanceInd, MaintenanceInv, NoTickAfterReturn, loopVars
  <2>3. TaskOK' /\ TicksOK'
    BY <1>1, <1>3 DEF MaintenanceInd, TaskOK, Ticking, TicksOK, loopVars
  <2> QED  BY <2>1, <2>2, <2>3 DEF MaintenanceInd, MaintenanceInv
<1> QED  BY <1>2, <1>3 DEF BuildTicks

(* The sweep of a tick returns.                                            *)
LEMMA SweepPreserves ==
    ASSUME MaintenanceInd, Sweep
    PROVE  MaintenanceInd'
<1>1. /\ task = "sweeping" /\ Alive /\ task' = "draining"
      /\ sweep' \in SweepReports \cup {SweepError}
      /\ UNCHANGED <<env, server, active, cancel, todo, reports, rounds, status>>
  BY DEF Sweep, Alive
<1>2. sweep' # NoSweep
  BY <1>1, MaintenanceConfig DEF NoSweep, SweepError, None, SweepOutcomes
<1>3. TypeOK'
  BY <1>1 DEF MaintenanceInd, MaintenanceInv, TypeOK
<1>4. RoundCountersAgree' /\ FailedRoundIsNamed' /\ NoTickAfterReturn'
  BY <1>1, StatusStays DEF MaintenanceInd, MaintenanceInv, NoTickAfterReturn
<1>5. TaskOK' /\ TicksOK'
  BY <1>1, <1>2 DEF MaintenanceInd, TaskOK, Ticking, TicksOK
<1> QED  BY <1>3, <1>4, <1>5 DEF MaintenanceInd, MaintenanceInv

(* The counters are natural numbers.                                       *)
LEMMA Counters ==
    ASSUME MaintenanceInd
    PROVE  status.failed_tenant_ticks \in Nat /\ Len(reports) \in Nat /\ Runs(status.outbox_drain) \in Nat
<1>1. status \in StatusType /\ reports \in Seq(ReportType)
  BY DEF MaintenanceInd, MaintenanceInv, TypeOK
<1>2. Len(reports) \in Nat
  BY <1>1
<1>3. status.failed_tenant_ticks \in Nat /\ status.outbox_drain \in DrainStages
  BY <1>1 DEF StatusType, DrainStages
<1>4. Runs(status.outbox_drain) \in Nat
  BY <1>3 DEF DrainStages, StageType, Runs
<1> QED  BY <1>2, <1>3, <1>4

(* A tick ends: its tenant is reported, and the round goes on or ends.     *)
LEMMA TickReported ==
    ASSUME MaintenanceInd, Drain
    PROVE  \E s \in StatusType, done \in Seq(ReportType), report \in ReportType :
             /\ done = Append(reports, report) /\ report.tenant = Head(todo)
             /\ Len(done) = Len(reports) + 1
             /\ SameRounds(status, s) /\ SameLast(status, s)
             /\ Runs(s.outbox_drain) = Runs(s.scheduled_sweep)
             /\ Runs(s.outbox_drain) = Runs(status.outbox_drain) + 1
             /\ \/ Len(todo) = 1 /\ EndRound(s, [error |-> None, reports |-> done])
                \/ /\ Len(todo) # 1 /\ status' = s /\ todo' = Tail(todo) /\ reports' = done
                   /\ sweep' = NoSweep /\ task' = "sweeping" /\ UNCHANGED rounds
<1>1. PICK result \in DrainReports \cup {DrainError} : FinishTick(result)
  BY DEF Drain
<1>2. /\ task = "draining" /\ sweep \in SweepReports \cup {SweepError}
      /\ todo \in Seq(Nat) /\ todo # <<>> /\ reports \in Seq(ReportType) /\ status \in StatusType
  BY DEF Drain, MaintenanceInd, MaintenanceInv, TypeOK, TaskOK, Ticking
<1>3. Head(todo) \in Nat
  BY <1>2
<1> DEFINE error == ReportStageSafeError(sweep, result)
           report == [tenant |-> Head(todo), error |-> error]
           s == RecordTenantReport(status, sweep, result)
           done == Append(reports, report)
<1>4. error \in {None, "runtime_stage_failed"}
  BY DEF ReportStageSafeError
<1>5. report \in ReportType /\ report.tenant = Head(todo)
  BY <1>3, <1>4 DEF ReportType
<1>6. /\ s \in StatusType /\ SameRounds(status, s) /\ SameLast(status, s)
      /\ Runs(s.scheduled_sweep) = Runs(status.scheduled_sweep) + 1
      /\ Runs(s.outbox_drain) = Runs(status.outbox_drain) + 1
  BY <1>2, ReportRecorded
<1>7. Runs(s.outbox_drain) = Runs(s.scheduled_sweep)
  BY <1>6 DEF MaintenanceInd, TicksOK
<1>8. \/ Len(todo) = 1 /\ EndRound(s, [error |-> None, reports |-> done])
      \/ /\ Len(todo) # 1 /\ status' = s /\ todo' = Tail(todo) /\ reports' = done
         /\ sweep' = NoSweep /\ task' = "sweeping" /\ UNCHANGED rounds
  BY <1>1 DEF FinishTick, NextTenant
<1> HIDE DEF report, s
<1>9. done \in Seq(ReportType) /\ Len(done) = Len(reports) + 1
  BY <1>2, <1>5
<1> QED  BY <1>5, <1>6, <1>7, <1>8, <1>9

(* The drain returns, and the tick ends.                                   *)
LEMMA DrainPreserves ==
    ASSUME MaintenanceInd, Drain
    PROVE  MaintenanceInd'
<1>1. PICK s \in StatusType, done \in Seq(ReportType), report \in ReportType :
             /\ Len(done) = Len(reports) + 1
             /\ SameRounds(status, s) /\ SameLast(status, s)
             /\ Runs(s.outbox_drain) = Runs(s.scheduled_sweep)
             /\ Runs(s.outbox_drain) = Runs(status.outbox_drain) + 1
             /\ \/ Len(todo) = 1 /\ EndRound(s, [error |-> None, reports |-> done])
                \/ /\ Len(todo) # 1 /\ status' = s /\ todo' = Tail(todo) /\ reports' = done
                   /\ sweep' = NoSweep /\ task' = "sweeping" /\ UNCHANGED rounds
  BY TickReported
<1>2. task = "draining" /\ Alive /\ UNCHANGED <<env, server, active, cancel>>
  BY DEF Drain, Alive
<1>3. status \in StatusType /\ reports \in Seq(ReportType) /\ todo \in Seq(Nat) /\ todo # <<>>
  BY <1>2 DEF MaintenanceInd, MaintenanceInv, TypeOK, TaskOK, Ticking
<1>4. status.failed_tenant_ticks \in Nat /\ Len(reports) \in Nat /\ Runs(status.outbox_drain) \in Nat
  BY Counters
<1>5. status.failed_tenant_ticks + Len(done) <= Runs(s.outbox_drain)
  BY <1>1, <1>4 DEF MaintenanceInd, TicksOK
<1>6. CASE EndRound(s, [error |-> None, reports |-> done])
  <2> DEFINE round == [error |-> None, reports |-> done]
  <2>1. round \in RoundType /\ round.error # "no_round" /\ round.reports = done
    BY DEF RoundType, None
  <2>2. EndRound(s, round)
    BY <1>6
  <2> HIDE DEF round
  <2> QED  BY <1>1, <1>2, <1>5, <2>1, <2>2, EndRoundPreserves
<1>7. CASE /\ Len(todo) # 1 /\ status' = s /\ todo' = Tail(todo) /\ reports' = done
           /\ sweep' = NoSweep /\ task' = "sweeping" /\ UNCHANGED rounds
  <2>1. todo' \in Seq(Nat) /\ todo' # <<>>
    <3>1. Len(todo) \in Nat /\ Len(todo) # 0 /\ Len(todo) # 1
      BY <1>3, <1>7, EmptySeq
    <3>2. Tail(todo) \in Seq(Nat) /\ Len(Tail(todo)) = Len(todo) - 1
      BY <1>3, HeadTailProperties
    <3>3. Len(Tail(todo)) # 0
      BY <3>1, <3>2
    <3> QED  BY <1>7, <3>2, <3>3, EmptySeq
  <2>2. TypeOK'
    BY <1>2, <1>7, <2>1 DEF MaintenanceInd, MaintenanceInv, TypeOK
  <2>3. RoundCountersAgree' /\ FailedRoundIsNamed' /\ NoTickAfterReturn'
    BY <1>1, <1>2, <1>7 DEF MaintenanceInd, MaintenanceInv, RoundCountersAgree, FailedRoundIsNamed,
                            NoTickAfterReturn, SameRounds, SameLast
  <2>4. TaskOK'
    BY <1>2, <1>7, <2>1 DEF MaintenanceInd, TaskOK, Ticking
  <2>5. TicksOK'
    BY <1>1, <1>5, <1>7 DEF TicksOK, SameRounds
  <2> QED  BY <2>2, <2>3, <2>4, <2>5 DEF MaintenanceInd, MaintenanceInv
<1> QED  BY <1>1, <1>6, <1>7

(* The task panics, the listener fails, the server shuts down.             *)
LEMMA ServerPreserves ==
    ASSUME MaintenanceInd, Panic \/ AcceptFails \/ Shutdown
    PROVE  MaintenanceInd'
<1>1. /\ server \in {"boot", "serving", "shutdown", "returned"} /\ env \in Envs \cup {NoEnv}
      /\ cancel \in BOOLEAN /\ (server = "returned" => ~ Alive)
      /\ task \in {"none", "waiting", "building", "sweeping", "draining", "stopped", "panicked",
                   "aborted"}
      /\ (server = "boot" => ~ Alive)
  BY DEF MaintenanceInd, MaintenanceInv, TypeOK, NoTickAfterReturn, TaskOK, Alive
<1>2. CASE Panic
  <2>1. ~ Alive' /\ server # "boot"
    BY <1>1, <1>2 DEF Panic, Alive
  <2> QED  BY <1>1, <1>2, <2>1, LoopStays DEF Panic
<1>3. CASE AcceptFails
  <2>1. server' = "returned" => ~ Alive'
    BY <1>3 DEF AcceptFails, Alive
  <2> QED  BY <1>1, <1>3, <2>1, LoopStays DEF AcceptFails
<1>4. CASE Shutdown
  <2>1. ~ Alive'
    BY <1>4 DEF Shutdown, Alive
  <2> QED  BY <1>1, <1>4, <2>1, LoopStays DEF Shutdown
<1> QED  BY <1>2, <1>3, <1>4

(* The server notices that the daemon ended.                               *)
LEMMA DaemonFinishedPreserves ==
    ASSUME MaintenanceInd, DaemonFinished
    PROVE  MaintenanceInd'
<1> DEFINE code == IF task = "stopped" THEN "daemon_stopped_unexpectedly" ELSE "daemon_task_failed"
<1>1. /\ task \in {"stopped", "panicked"} /\ server' = "returned"
      /\ status' = MarkDaemonFailed(status, code)
      /\ UNCHANGED <<env, active, task, cancel, todo, reports, sweep, rounds>>
  BY DEF DaemonFinished, loopVars
<1>2. code \in DaemonCodes
  BY DEF DaemonCodes
<1> HIDE DEF code
<1>3. status \in StatusType
  BY DEF MaintenanceInd, MaintenanceInv, TypeOK
<1>4. /\ status' \in StatusType /\ SameStages(status, status') /\ SameRounds(status, status')
      /\ SameLast(status, status')
  BY <1>1, <1>2, <1>3, FailedMarked
<1>5. TypeOK'
  BY <1>1, <1>4 DEF MaintenanceInd, MaintenanceInv, TypeOK
<1>6. RoundCountersAgree' /\ FailedRoundIsNamed' /\ NoTickAfterReturn'
  BY <1>1, <1>4 DEF MaintenanceInd, MaintenanceInv, RoundCountersAgree, FailedRoundIsNamed,
                    NoTickAfterReturn, SameRounds, SameLast, Alive
<1>7. TaskOK'
  BY <1>1 DEF MaintenanceInd, TaskOK, Ticking
<1>8. TicksOK'
  BY <1>1, <1>4 DEF MaintenanceInd, TicksOK, SameStages, SameRounds
<1> QED  BY <1>5, <1>6, <1>7, <1>8 DEF MaintenanceInd, MaintenanceInv

(* The invariant holds before the boot.                                    *)
LEMMA InitMaintenance == Init => MaintenanceInd
<1> SUFFICES ASSUME Init PROVE MaintenanceInd
  OBVIOUS
<1>1. /\ status \in StatusType /\ Named(status)
      /\ status.successful_rounds = 0 /\ status.failed_rounds = 0 /\ status.failed_tenant_ticks = 0
      /\ Runs(status.scheduled_sweep) = 0 /\ Runs(status.outbox_drain) = 0
  BY StatusStarts DEF Init
<1>2. <<>> \in Seq(ReportType) /\ <<>> \in Seq(Nat) /\ Len(<<>>) = 0
  OBVIOUS
<1>3. NoRound \in RoundType
  BY <1>2 DEF NoRound, RoundType
<1>4. /\ rounds \in [successful : Nat, failed : Nat, last : RoundType]
      /\ rounds.successful = 0 /\ rounds.failed = 0 /\ rounds.last = NoRound
  BY <1>3 DEF Init
<1>5. TypeOK
  BY <1>1, <1>2, <1>4 DEF Init, TypeOK
<1>6. RoundCountersAgree /\ FailedRoundIsNamed /\ NoTickAfterReturn
  BY <1>1, <1>4 DEF Init, RoundCountersAgree, FailedRoundIsNamed, Named, NoTickAfterReturn
<1>7. TaskOK
  BY <1>4 DEF Init, TaskOK, Ticking
<1>8. TicksOK
  <2>1. Len(reports) = 0
    BY <1>2 DEF Init
  <2> QED  BY <1>1, <2>1 DEF TicksOK
<1> QED  BY <1>5, <1>6, <1>7, <1>8 DEF MaintenanceInd, MaintenanceInv

(* Every step keeps the invariant.                                         *)
LEMMA NextMaintenance == MaintenanceInd /\ [Next]_vars => MaintenanceInd'
<1> SUFFICES ASSUME MaintenanceInd, [Next]_vars PROVE MaintenanceInd'
  OBVIOUS
<1>1. CASE Boot \/ (\E row \in Rows : UpsertTenant(row))
  BY <1>1, BootPreserves, UpsertTenantPreserves
<1>2. CASE DaemonStep
  BY <1>2, StopPreserves, DiscoverPreserves, BuildTicksPreserves, SweepPreserves, DrainPreserves
     DEF DaemonStep
<1>3. CASE Panic \/ AcceptFails \/ DaemonFinished \/ Shutdown
  BY <1>3, ServerPreserves, DaemonFinishedPreserves
<1>4. CASE UNCHANGED vars
  <2>1. UNCHANGED <<env, server, active, task, cancel, todo, reports, sweep, rounds, status>>
    BY <1>4 DEF vars, loopVars
  <2>2. TypeOK'
    BY <2>1 DEF MaintenanceInd, MaintenanceInv, TypeOK
  <2>3. RoundCountersAgree' /\ FailedRoundIsNamed' /\ NoTickAfterReturn'
    BY <2>1, StatusStays DEF MaintenanceInd, MaintenanceInv, NoTickAfterReturn, Alive
  <2>4. TaskOK' /\ TicksOK'
    BY <2>1 DEF MaintenanceInd, TaskOK, Ticking, TicksOK
  <2> QED  BY <2>2, <2>3, <2>4 DEF MaintenanceInd, MaintenanceInv
<1> QED  BY <1>1, <1>2, <1>3, <1>4 DEF Next

-----------------------------------------------------------------------------
(* The invariant holds in every reachable state.                           *)
THEOREM MaintenanceInvariant == Spec => []MaintenanceInd
BY InitMaintenance, NextMaintenance, PTL DEF Spec

(* The status the health routes show agrees with the loop's own counters   *)
(* and names the cause of a round that failed, whatever panics and         *)
(* shutdowns interrupt; and no tick outlives run_with_runtime.             *)
THEOREM HealthIsTrue == Spec => []MaintenanceInv
<1>1. MaintenanceInd => MaintenanceInv
  BY DEF MaintenanceInd
<1> QED  BY <1>1, MaintenanceInvariant, PTL

(* The outbox of every tenant whose tick failed was drained in that tick,  *)
(* for any number of tenants and rounds (run_tick).                        *)
THEOREM FailedTicksAreDrained == Spec => []FailedTickWasDrained
<1>1. MaintenanceInd => FailedTickWasDrained
  <2> SUFFICES ASSUME MaintenanceInd PROVE FailedTickWasDrained
    OBVIOUS
  <2>1. /\ status.failed_tenant_ticks \in Nat /\ Len(reports) \in Nat
        /\ Runs(status.outbox_drain) \in Nat
    BY Counters
  <2> QED  BY <2>1 DEF MaintenanceInd, TicksOK, FailedTickWasDrained
<1> QED  BY <1>1, MaintenanceInvariant, PTL

-----------------------------------------------------------------------------
(* Reporting the next tenant moves it from the ones to come to the ones    *)
(* reported, and changes nothing of their order.                           *)
LEMMA TenantsOfReports ==
    ASSUME NEW list \in Seq(ReportType)
    PROVE  /\ Tenants(list) \in Seq(Nat) /\ Len(Tenants(list)) = Len(list)
           /\ \A i \in 1 .. Len(list) : Tenants(list)[i] = list[i].tenant
<1>1. Len(list) \in Nat /\ DOMAIN list = 1 .. Len(list)
  BY LenProperties
<1>2. ASSUME NEW i \in 1 .. Len(list) PROVE list[i].tenant \in Nat
  <2>1. list[i] \in ReportType
    BY LenProperties
  <2> QED  BY <2>1 DEF ReportType
<1>3. Tenants(list) \in [1 .. Len(list) -> Nat]
  BY <1>1, <1>2 DEF Tenants
<1> QED  BY <1>1, <1>3 DEF Tenants

(* Appending the report of the next tenant.                                *)
LEMMA TenantReported ==
    ASSUME NEW list \in Seq(ReportType), NEW report \in ReportType, NEW rest \in Seq(Nat),
           rest # <<>>, report.tenant = Head(rest), NEW done, done = Append(list, report)
    PROVE  /\ Tenants(done) \o Tail(rest) = Tenants(list) \o rest
           /\ Len(rest) = 1 => Tenants(done) = Tenants(list) \o rest
<1> DEFINE a == Tenants(done)  b == Tenants(list)  n == Len(list)  m == Len(rest)
<1>1. n \in Nat /\ m \in Nat /\ m # 0
  BY EmptySeq
<1>2. done \in Seq(ReportType) /\ Len(done) = n + 1 /\ done[n + 1] = report
      /\ \A i \in 1 .. n : done[i] = list[i]
  BY AppendProperties
<1>3. a \in Seq(Nat) /\ Len(a) = n + 1 /\ \A i \in 1 .. n + 1 : a[i] = done[i].tenant
  BY <1>2, TenantsOfReports
<1>4. b \in Seq(Nat) /\ Len(b) = n /\ \A i \in 1 .. n : b[i] = list[i].tenant
  BY TenantsOfReports
<1>5. Tail(rest) \in Seq(Nat) /\ Len(Tail(rest)) = m - 1
      /\ \A i \in 1 .. m - 1 : Tail(rest)[i] = rest[i + 1]
  BY HeadTailProperties
<1>6. Head(rest) = rest[1]
  BY <1>1
<1>7. m = Len(rest)
  OBVIOUS
<1> DEFINE left == a \o Tail(rest)  right == b \o rest
<1> HIDE DEF a, b, n, m
<1>8. left \in Seq(Nat) /\ Len(left) = n + 1 + (m - 1)
      /\ \A i \in 1 .. n + 1 + (m - 1) : left[i] = IF i <= n + 1 THEN a[i] ELSE Tail(rest)[i - (n + 1)]
  <2>1. left \in Seq(Nat) /\ Len(left) = Len(a) + Len(Tail(rest))
        /\ \A i \in 1 .. Len(a) + Len(Tail(rest)) :
             left[i] = IF i <= Len(a) THEN a[i] ELSE Tail(rest)[i - Len(a)]
    BY <1>3, <1>5, ConcatProperties
  <2> HIDE DEF left
  <2> QED  BY <1>3, <1>5, <2>1
<1>9. right \in Seq(Nat) /\ Len(right) = n + m
      /\ \A i \in 1 .. n + m : right[i] = IF i <= n THEN b[i] ELSE rest[i - n]
  <2>1. right \in Seq(Nat) /\ Len(right) = Len(b) + Len(rest)
        /\ \A i \in 1 .. Len(b) + Len(rest) :
             right[i] = IF i <= Len(b) THEN b[i] ELSE rest[i - Len(b)]
    BY <1>4, ConcatProperties
  <2> HIDE DEF right
  <2> QED  BY <1>4, <1>7, <2>1
<1> HIDE DEF left, right
<1>10. ASSUME NEW i \in 1 .. n + m PROVE left[i] = right[i]
  <2>1. CASE i <= n
    <3>1. i \in 1 .. n /\ i \in 1 .. n + 1 /\ i <= n + 1 /\ i \in 1 .. n + 1 + (m - 1)
      BY <1>1, <2>1
    <3> QED  BY <1>2, <1>3, <1>4, <1>8, <1>9, <2>1, <3>1, ZenonT(60)
  <2>2. CASE i = n + 1
    <3>1. i \in 1 .. n + 1 /\ i <= n + 1 /\ i \in 1 .. n + 1 + (m - 1) /\ ~ (i <= n) /\ i - n = 1
      BY <1>1, <2>2
    <3>2. left[i] = report.tenant
      BY <1>2, <1>3, <1>8, <2>2, <3>1
    <3>3. right[i] = rest[1]
      BY <1>9, <3>1
    <3> QED  BY <1>6, <3>2, <3>3
  <2>3. CASE i > n + 1
    <3>1. /\ i \in 1 .. n + 1 + (m - 1) /\ ~ (i <= n + 1) /\ ~ (i <= n)
          /\ i - (n + 1) \in 1 .. m - 1 /\ (i - (n + 1)) + 1 = i - n
      BY <1>1, <2>3
    <3> QED  BY <1>5, <1>8, <1>9, <3>1
  <2> QED  BY <1>1, <2>1, <2>2, <2>3
<1>11. left = right
  <2>1. Len(left) = Len(right) /\ \A i \in 1 .. Len(left) : left[i] = right[i]
    <3>1. n + 1 + (m - 1) = n + m
      BY <1>1
    <3> QED  BY <1>8, <1>9, <1>10, <3>1
  <2> QED  BY <1>8, <1>9, <2>1, SeqEqual
<1>12. ASSUME m = 1 PROVE a = left
  <2>1. Len(Tail(rest)) = 0
    BY <1>5, <1>12
  <2>2. Tail(rest) = <<>>
    BY <1>5, <2>1, EmptySeq
  <2> QED  BY <1>3, <2>2, ConcatEmptySeq DEF left
<1> QED  BY <1>11, <1>12 DEF left, right, a, b, m

(* A step that leaves the round alone.                                     *)
LEMMA RoundStays ==
    ASSUME UNCHANGED <<todo, reports, rounds>>, rounds.successful \in Nat
    PROVE  RoundTenants' = RoundTenants /\ ~ (rounds'.successful > rounds.successful)
BY DEF RoundTenants, Tenants

(* A round that fails as a whole does not count as a successful one.       *)
LEMMA FailedRoundEnds ==
    ASSUME NEW error \in RoundErrors, FailRound(error), rounds.successful \in Nat
    PROVE  task' = "waiting" /\ ~ (rounds'.successful > rounds.successful)
<1>1. error # None
  BY DEF RoundErrors, None, DiscoveryInvalid, BuildErrors
<1>2. task' = "waiting" /\ rounds'.successful = rounds.successful + 0
  BY <1>1 DEF FailRound, EndRound
<1> QED  BY <1>2

(* No tenant's failure keeps another from its tick: the tenants reported   *)
(* by a round that succeeds are those that were discovered, in their       *)
(* order, and nothing is lost on the way (run_round).                      *)
THEOREM EveryTenantIsTicked == Spec => RoundReachesEveryTenant
<1>1. MaintenanceInd /\ [Next]_vars =>
        [/\ Ticking /\ Ticking' => RoundTenants' = RoundTenants
         /\ Ticking /\ rounds'.successful > rounds.successful =>
              Tenants(rounds'.last.reports) = RoundTenants]_vars
  <2> SUFFICES ASSUME MaintenanceInd, [Next]_vars, Ticking
               PROVE  /\ Ticking' => RoundTenants' = RoundTenants
                      /\ rounds'.successful > rounds.successful =>
                           Tenants(rounds'.last.reports) = RoundTenants
    OBVIOUS
  <2>1. rounds.successful \in Nat
    BY DEF MaintenanceInd, MaintenanceInv, TypeOK
  <2>2. CASE UNCHANGED <<todo, reports, rounds>>
    BY <2>1, <2>2, RoundStays
  <2>3. CASE BuildTicks
    <3>1. CASE \E error \in BuildErrors : FailRound(error)
      <4>1. \E error \in RoundErrors : FailRound(error)
        BY <3>1 DEF RoundErrors
      <4>2. task' = "waiting" /\ ~ (rounds'.successful > rounds.successful)
        BY <2>1, <4>1, FailedRoundEnds
      <4>3. ~ Ticking'
        BY <4>2 DEF Ticking
      <4> QED  BY <4>2, <4>3
    <3>2. CASE UNCHANGED <<loopVars, status>>
      BY <2>2, <3>2 DEF loopVars
    <3> QED  BY <2>3, <3>1, <3>2 DEF BuildTicks
  <2>4. CASE Drain
    <3>1. PICK s \in StatusType, done \in Seq(ReportType), report \in ReportType :
             /\ done = Append(reports, report) /\ report.tenant = Head(todo)
             /\ \/ Len(todo) = 1 /\ EndRound(s, [error |-> None, reports |-> done])
                \/ /\ Len(todo) # 1 /\ status' = s /\ todo' = Tail(todo) /\ reports' = done
                   /\ sweep' = NoSweep /\ task' = "sweeping" /\ UNCHANGED rounds
      BY <2>4, TickReported
    <3>2. reports \in Seq(ReportType) /\ todo \in Seq(Nat) /\ todo # <<>>
      BY DEF MaintenanceInd, MaintenanceInv, TypeOK, TaskOK
    <3>3. /\ Tenants(done) \o Tail(todo) = RoundTenants
          /\ Len(todo) = 1 => Tenants(done) = RoundTenants
      BY <3>1, <3>2, TenantReported DEF RoundTenants
    <3>4. CASE Len(todo) = 1 /\ EndRound(s, [error |-> None, reports |-> done])
      <4>1. task' = "waiting" /\ rounds'.last = [error |-> None, reports |-> done]
        BY <3>4 DEF EndRound
      <4>2. ~ Ticking' /\ rounds'.last.reports = done
        BY <4>1 DEF Ticking
      <4> QED  BY <3>3, <3>4, <4>2
    <3>5. CASE todo' = Tail(todo) /\ reports' = done /\ UNCHANGED rounds
      <4>1. RoundTenants' = RoundTenants
        BY <3>3, <3>5 DEF RoundTenants, Tenants
      <4>2. ~ (rounds'.successful > rounds.successful)
        BY <2>1, <3>5
      <4> QED  BY <4>1, <4>2
    <3> QED  BY <3>1, <3>4, <3>5
  <2>5. CASE Stop \/ Discover \/ Sweep
    BY <2>2, <2>5 DEF Stop, Discover, Sweep, Ticking, loopVars
  <2>6. CASE Boot \/ (\E row \in Rows : UpsertTenant(row)) \/ Panic \/ AcceptFails
             \/ DaemonFinished \/ Shutdown
    BY <2>2, <2>6 DEF Boot, UpsertTenant, Panic, AcceptFails, DaemonFinished, Shutdown, loopVars
  <2>7. CASE UNCHANGED vars
    BY <2>2, <2>7 DEF vars, loopVars
  <2> QED  BY <2>3, <2>4, <2>5, <2>6, <2>7 DEF Next, DaemonStep
<1> QED  BY <1>1, MaintenanceInvariant, PTL DEF Spec, RoundReachesEveryTenant

=============================================================================
