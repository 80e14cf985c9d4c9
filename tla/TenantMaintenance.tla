-------------------------- MODULE TenantMaintenance --------------------------
(***************************************************************************)
(* The tenant maintenance daemon: how the facade's environment turns it    *)
(* on, the loop that discovers the active tenants and ticks each of them   *)
(* (scheduled sweep, then outbox drain), the status the health routes      *)
(* read, and the server that waits on the daemon and shuts it down.  What  *)
(* a sweep and a drain do is left to TokenRefresh and AuditOutbox: here    *)
(* they return one of their reports, or an error.                          *)
(***************************************************************************)
EXTENDS Naturals, Sequences, FiniteSetsExt

CONSTANTS
    Rows,           \* tenant rows, in the order discovery lists them
    Canonical,      \* what trimming makes of a row's id; 0 is the empty id
    SweepReports,   \* reports of a scheduled sweep: [outcome, has_more]
    DrainReports,   \* reports of a drain: the counters that are not zero
    Envs,           \* environments the facade is started in
    MaxRounds,      \* bound on the rounds of a run
    MaxFaults       \* bound on panics of the task

SweepOutcomes == {"succeeded", "noop", "skipped_not_due", "skipped_busy", "failed_safe", "lease_lost"}

ASSUME MaintenanceConfig ==
    /\ Rows \subseteq Nat /\ IsFiniteSet(Rows) /\ Canonical \in [Rows -> Nat]
    /\ SweepReports \subseteq [outcome : SweepOutcomes, has_more : BOOLEAN]
    /\ MaxRounds \in Nat /\ MaxFaults \in Nat

VARIABLES
    env,      \* the environment, until it is read
    server,   \* what run_with_runtime is doing
    exit,     \* the error it returned
    active,   \* rows whose tenant is active
    task,     \* where the daemon's task is
    cancel,   \* the cancellation token
    todo,     \* tenants of the round still to build or tick
    reports,  \* tenant reports of the round
    sweep,    \* the sweep stage of the tick in progress
    rounds,   \* the loop's own counters and last round
    status,   \* TenantMaintenanceDaemonStatusInner
    faults

loopVars == <<todo, reports, sweep, rounds>>
vars == <<env, server, exit, active, task, cancel, loopVars, status, faults>>

None == "none"
NoEnv == [enabled |-> "read"]
NoSweep == [outcome |-> None, has_more |-> FALSE]
SweepError == [outcome |-> "error", has_more |-> FALSE]
DrainError == {"error"}
NoRound == [error |-> "no_round", reports |-> <<>>]

-----------------------------------------------------------------------------
(* Settings.  A value is "unset" when it is missing or blank; a number is  *)
(* <<>> when unset and <<n>> when it parses.                               *)
EnabledFlag(value) == CASE value = "unset" -> "no" [] value \in {"yes", "no"} -> value
                        [] OTHER -> "invalid"
BoundedU64(value, min, max) == value = <<>> \/ value[1] \in min .. max

AuditOutboxSink(e) ==
    CASE e.sink = "unset" -> "audit_outbox_sink_required"
      [] e.sink = "webhook" /\ e.url = "unset" -> "audit_outbox_sink_required"
      [] e.sink = "webhook" /\ e.url = "https" -> "ok"
      [] OTHER -> "config_invalid"

RuntimeSettings(e) ==
    CASE EnabledFlag(e.enabled) = "no" -> "disabled"
      [] EnabledFlag(e.enabled) = "invalid" -> "config_invalid"
      [] EnabledFlag(e.ephemeral) # "no" -> "config_invalid"
      [] ~ e.database -> "database_required"
      [] ~ e.feishu -> "feishu_auth_required"
      [] AuditOutboxSink(e) # "ok" -> AuditOutboxSink(e)
      [] e.instance = "unset" -> "instance_id_required"
      [] ~ BoundedU64(e.interval, 5000, 3600000)
           \/ ~ BoundedU64(e.lookahead, 1000, 86400000) -> "config_invalid"
      [] e.instance = "bad" -> "config_invalid"
      [] OTHER -> "enabled"

-----------------------------------------------------------------------------
(* Failure codes: what a safe error is shown as.                           *)
DiscoveryInvalid == {"discovery_invalid_empty_tenant_id", "discovery_invalid_duplicate_tenant_id"}
BuildErrors == {"daemon_refresh_adapter_build_failed", "daemon_webhook_sink_build_failed",
                "daemon_worker_config_invalid"}

ClassifyFailureCode(error) ==
    CASE error \in DiscoveryInvalid \cup BuildErrors -> error
      [] error = "tenant_discovery_failed" -> "discovery_failed"
      [] error \in {"runtime_stage_failed", "stage_failed"} -> error
      [] OTHER -> "unknown_failure"

(* Health of a stage's report, and the code shown with it.  A sweep that   *)
(* failed safe carries the code token_refresh_sweep_failed.                *)
ScheduledSweepHealth(report) ==
    CASE report.outcome \in {"succeeded", "noop", "skipped_not_due"} -> <<"succeeded", None>>
      [] report.outcome = "skipped_busy" -> <<"degraded", "scheduled_sweep_busy">>
      [] report.outcome = "failed_safe" ->
            <<"failed", ClassifyFailureCode("token_refresh_sweep_failed")>>
      [] report.outcome = "lease_lost" -> <<"failed", "scheduled_sweep_lease_lost">>

OutboxDrainHealth(report) ==
    CASE "exhausted" \in report -> <<"failed", "outbox_exhausted">>
      [] "failed" \in report -> <<"failed", "outbox_failed">>
      [] "stale" \in report -> <<"degraded", "outbox_stale">>
      [] "retryable" \in report -> <<"degraded", "outbox_retryable">>
      [] OTHER -> <<"succeeded", None>>

(* A stage's aggregate over all tenants, and what its last run reported.   *)
EmptyStage(report) == [succeeded |-> 0, degraded |-> 0, failed |-> 0, last_status |-> None,
                       last_failure_code |-> None, last_report |-> report]

StageRecord(stage, health, report) ==
    [stage EXCEPT ![health[1]] = @ + 1, !.last_status = health[1],
                  !.last_failure_code = health[2], !.last_report = report]

RecordScheduledSweep(stage, result) ==
    IF result = SweepError
    THEN StageRecord(stage, <<"failed", ClassifyFailureCode("stage_failed")>>, NoSweep)
    ELSE StageRecord(stage, ScheduledSweepHealth(result), result)

RecordOutboxDrain(stage, result) ==
    IF result = DrainError
    THEN StageRecord(stage, <<"failed", ClassifyFailureCode("stage_failed")>>, {})
    ELSE StageRecord(stage, OutboxDrainHealth(result), result)

RecordTenantReport(s, sweepResult, drainResult) ==
    [s EXCEPT !.scheduled_sweep = RecordScheduledSweep(s.scheduled_sweep, sweepResult),
              !.outbox_drain = RecordOutboxDrain(s.outbox_drain, drainResult)]

-----------------------------------------------------------------------------
(* The daemon's status.                                                    *)
NewStatus(enabled) ==
    [enabled |-> enabled, state |-> IF enabled THEN "configured" ELSE "disabled",
     successful_rounds |-> 0, failed_rounds |-> 0, failed_tenant_ticks |-> 0,
     daemon_failures |-> 0, last_round_status |-> None, last_round_tenant_count |-> 0,
     last_round_failed_tenant_count |-> 0, last_failure_code |-> None,
     last_daemon_failure_code |-> None,
     scheduled_sweep |-> EmptyStage(NoSweep), outbox_drain |-> EmptyStage({})]

MarkRunning(s) == [s EXCEPT !.state = "running", !.last_failure_code = None,
                            !.last_daemon_failure_code = None]

(* A round is its reports, or the safe error that ended it; a tenant's     *)
(* report is its last tick: None or the safe error.                        *)
Failures(round) == {i \in DOMAIN round.reports : round.reports[i].error # None}

SetRegistryRoundStatus(s, round) ==
    LET failed == Failures(round) IN
    [s EXCEPT !.last_round_tenant_count = Len(round.reports),
              !.last_round_failed_tenant_count = Cardinality(failed),
              !.last_round_status = IF failed = {} THEN "succeeded" ELSE "degraded",
              !.last_failure_code = IF failed = {} THEN None
                                    ELSE ClassifyFailureCode(round.reports[Min(failed)].error)]

ApplyFailedRound(s, error) ==
    [s EXCEPT !.last_round_tenant_count = 0, !.last_round_failed_tenant_count = 0,
              !.last_round_status = "failed", !.last_failure_code = ClassifyFailureCode(error)]

ApplyRound(s, round) == IF round.error = None THEN SetRegistryRoundStatus(s, round)
                        ELSE ApplyFailedRound(s, round.error)

RecordRound(s, round) ==
    ApplyRound(IF round.error = None
               THEN [s EXCEPT !.state = "running", !.successful_rounds = @ + 1,
                              !.failed_tenant_ticks = @ + Cardinality(Failures(round))]
               ELSE [s EXCEPT !.state = "running", !.failed_rounds = @ + 1], round)

MarkStopped(s, report) ==
    LET stopped == [s EXCEPT !.state = "stopped", !.successful_rounds = report.successful,
                             !.failed_rounds = report.failed]
    IN IF report.last = NoRound THEN stopped ELSE ApplyRound(stopped, report.last)

MarkDaemonFailed(s, code) ==
    [s EXCEPT !.state = "failed", !.daemon_failures = @ + 1, !.last_daemon_failure_code = code]

(* /readyz.                                                                *)
Readiness(s) ==
    CASE ~ s.enabled -> "tenant_maintenance_disabled"
      [] s.state = "configured" -> "tenant_maintenance_daemon_not_started"
      [] s.state = "stopped" -> "tenant_maintenance_daemon_stopped"
      [] s.state = "failed" -> "tenant_maintenance_daemon_failed"
      [] s.last_round_status = "failed" -> "tenant_maintenance_round_failed"
      [] s.scheduled_sweep.last_status = "failed" -> "tenant_maintenance_scheduled_sweep_failed"
      [] s.outbox_drain.last_status = "failed" -> "tenant_maintenance_outbox_drain_failed"
      [] OTHER -> "tenant_maintenance_ready"
Ready(s) == Readiness(s) \in {"tenant_maintenance_disabled", "tenant_maintenance_ready"}

-----------------------------------------------------------------------------
Init ==
    /\ env \in Envs
    /\ server = "boot" /\ exit = None
    /\ active = {}
    /\ task = "none" /\ cancel = FALSE
    /\ todo = <<>> /\ reports = <<>> /\ sweep = NoSweep
    /\ rounds = [successful |-> 0, failed |-> 0, last |-> NoRound]
    /\ status = NewStatus(FALSE)
    /\ faults = 0

(* OarHttpFacadeRuntime::from_env_map, run_with_runtime and the spawn.  A  *)
(* setting that is wrong ends the process before it serves.                *)
Boot ==
    /\ server = "boot"
    /\ env' = NoEnv
    /\ \/ /\ RuntimeSettings(env) \notin {"enabled", "disabled"}
          /\ server' = "returned" /\ exit' = "runtime_config"
          /\ UNCHANGED <<status, task>>
       \/ /\ RuntimeSettings(env) = "disabled"
          /\ server' = "serving"
          /\ UNCHANGED <<exit, status, task>>
       \/ /\ RuntimeSettings(env) = "enabled"
          /\ server' = "serving"
          /\ status' = MarkRunning(NewStatus(TRUE))
          /\ task' = "waiting"
          /\ UNCHANGED exit
    /\ UNCHANGED <<active, cancel, loopVars, faults>>

(* A tenant is upserted as active, or as suspended or deleted.  Only the   *)
(* discovery that starts a round reads it.                                 *)
UpsertTenant(row) ==
    /\ server = "serving" /\ task = "waiting"
    /\ active' \in {active \cup {row}, active \ {row}}
    /\ UNCHANGED <<env, server, exit, task, cancel, loopVars, status, faults>>

-----------------------------------------------------------------------------
(* One round of DiscoveringTenantMaintenanceRuntime.                       *)
Listings == {listed \in [1 .. Cardinality(active) -> active] :
               \A i, j \in DOMAIN listed : i < j => listed[i] < listed[j]}

(* run_until_cancelled_with_observer: observe the round, then count it.    *)
EndRound(s, round) ==
    /\ status' = RecordRound(s, round)
    /\ rounds' = [successful |-> rounds.successful + (IF round.error = None THEN 1 ELSE 0),
                  failed |-> rounds.failed + (IF round.error = None THEN 0 ELSE 1),
                  last |-> round]
    /\ task' = "waiting"
    /\ todo' = <<>> /\ reports' = <<>> /\ sweep' = NoSweep

FailRound(error) == EndRound(status, [error |-> error, reports |-> <<>>])

(* The loop is cancelled between rounds; it reports and ends.              *)
Stop ==
    /\ task = "waiting" /\ cancel
    /\ task' = "stopped"
    /\ status' = MarkStopped(status, rounds)
    /\ UNCHANGED <<env, server, exit, active, cancel, loopVars, faults>>

(* validate_tenant_ids_allow_empty: trimmed ids are not empty and differ.  *)
ValidateTenantIds(ids) ==
    CASE \E i \in DOMAIN ids :
            /\ ids[i] = 0
            /\ \A j, k \in 1 .. i - 1 : ids[j] = ids[k] => j = k -> "discovery_invalid_empty_tenant_id"
      [] Cardinality({ids[i] : i \in DOMAIN ids}) # Len(ids) ->
            "discovery_invalid_duplicate_tenant_id"
      [] OTHER -> None

(* Discovery, at the interval's tick: also when the cancellation is ready  *)
(* at the same time.                                                       *)
Discover ==
    /\ task = "waiting"
    /\ rounds.successful + rounds.failed < MaxRounds
    /\ \/ FailRound("tenant_discovery_failed")
       \/ \E listed \in Listings :
            LET ids == [i \in DOMAIN listed |-> Canonical[listed[i]]] IN
            \/ ValidateTenantIds(ids) # None /\ FailRound(ValidateTenantIds(ids))
            \/ ids = <<>> /\ EndRound(status, [error |-> None, reports |-> <<>>])
            \/ /\ ValidateTenantIds(ids) = None /\ ids # <<>>
               /\ task' = "building"
               /\ todo' = ids
               /\ UNCHANGED <<reports, sweep, rounds, status>>
    /\ UNCHANGED <<env, server, exit, active, cancel, faults>>

(* Every tick is built before the first is run; one that cannot be built   *)
(* fails the round.                                                        *)
BuildTicks ==
    /\ task = "building"
    /\ \/ \E error \in BuildErrors : FailRound(error)
       \/ task' = "sweeping" /\ UNCHANGED <<loopVars, status>>
    /\ UNCHANGED <<env, server, exit, active, cancel, faults>>

Sweep ==
    /\ task = "sweeping"
    /\ sweep' \in SweepReports \cup {SweepError}
    /\ task' = "draining"
    /\ UNCHANGED <<env, server, exit, active, cancel, todo, reports, rounds, status, faults>>

(* The stage the tick's error names.                                       *)
ReportStageSafeError(sweepResult, drainResult) ==
    IF sweepResult = SweepError \/ drainResult = DrainError THEN "runtime_stage_failed" ELSE None

(* run_round: the tenant's report, then the next tenant's tick or the end. *)
NextTenant(recorded, error, last) ==
    LET done == Append(reports, [tenant |-> Head(todo), error |-> error]) IN
    \/ last /\ EndRound(recorded, [error |-> None, reports |-> done])
    \/ /\ ~ last
       /\ status' = recorded
       /\ todo' = Tail(todo) /\ reports' = done /\ sweep' = NoSweep
       /\ task' = "sweeping"
       /\ UNCHANGED rounds

(* Mutant: a sweep that fails ends the tick.                               *)
DrainUnlessSweepFailed(result) ==
    NextTenant(IF sweep = SweepError THEN status ELSE RecordTenantReport(status, sweep, result),
               ReportStageSafeError(sweep, result), Len(todo) = 1)

(* Mutant: the first tenant that fails ends the round.                     *)
StopAtFirstFailure(result) ==
    LET error == ReportStageSafeError(sweep, result)
    IN NextTenant(RecordTenantReport(status, sweep, result), error, Len(todo) = 1 \/ error # None)

(* The drain runs whatever the sweep returned; the report is recorded and  *)
(* only then turned into the tick's result.                                *)
FinishTick(result) ==
    NextTenant(RecordTenantReport(status, sweep, result),
               ReportStageSafeError(sweep, result), Len(todo) = 1)

Drain ==
    /\ task = "draining"
    /\ \E result \in DrainReports \cup {DrainError} : FinishTick(result)
    /\ UNCHANGED <<env, server, exit, active, cancel, faults>>

-----------------------------------------------------------------------------
Alive == task \in {"waiting", "building", "sweeping", "draining"}

Panic ==
    /\ Alive /\ faults < MaxFaults
    /\ task' = "panicked"
    /\ faults' = faults + 1
    /\ UNCHANGED <<env, server, exit, active, cancel, loopVars, status>>

(* accept_loop: the listener fails, and the daemon is asked to stop.       *)
AcceptFails ==
    /\ server = "serving"
    /\ exit' = "accept"
    /\ IF task = "none" THEN server' = "returned" /\ UNCHANGED cancel
                        ELSE server' = "shutdown" /\ cancel' = TRUE
    /\ UNCHANGED <<env, active, task, loopVars, status, faults>>

(* Mutant: only a task that returned counts as finished.                   *)
DaemonFinishedCleanly ==
    /\ server = "serving"
    /\ task = "stopped"
    /\ status' = MarkDaemonFailed(status, "daemon_stopped_unexpectedly")
    /\ server' = "returned" /\ exit' = "tenant_maintenance_stopped"
    /\ UNCHANGED <<env, active, task, cancel, loopVars, faults>>

(* accept_loop: the task ended by itself.                                  *)
DaemonFinished ==
    /\ server = "serving"
    /\ task \in {"stopped", "panicked"}
    /\ status' = MarkDaemonFailed(status, IF task = "stopped" THEN "daemon_stopped_unexpectedly"
                                          ELSE "daemon_task_failed")
    /\ server' = "returned" /\ exit' = "tenant_maintenance_stopped"
    /\ UNCHANGED <<env, active, task, cancel, loopVars, faults>>

(* Mutant: the five seconds run out and the task is left alone.            *)
ShutdownWithoutAbort ==
    /\ server = "shutdown"
    /\ server' = "returned"
    /\ UNCHANGED <<env, exit, active, task, cancel, loopVars, status, faults>>

(* The handle's shutdown: the task ends, or five seconds pass and it is    *)
(* aborted at its next await.                                              *)
Shutdown ==
    /\ server = "shutdown"
    /\ task' = IF Alive THEN "aborted" ELSE task
    /\ server' = "returned"
    /\ UNCHANGED <<env, exit, active, cancel, loopVars, status, faults>>

DaemonStep == Stop \/ Discover \/ BuildTicks \/ Sweep \/ Drain

Next ==
    \/ Boot
    \/ \E row \in Rows : UpsertTenant(row)
    \/ DaemonStep \/ Panic
    \/ AcceptFails \/ DaemonFinished \/ Shutdown

(* The runtime keeps polling the task and the accept loop; a discovery, a  *)
(* sweep and a drain return, their calls being bounded by timeouts.        *)
Fairness == WF_vars(DaemonStep) /\ WF_vars(DaemonFinished) /\ WF_vars(Shutdown) /\ WF_vars(Boot)

Spec == Init /\ [][Next]_vars /\ Fairness

-----------------------------------------------------------------------------
Runs(stage) == stage.succeeded + stage.degraded + stage.failed

Statuses == {None, "succeeded", "degraded", "failed"}
Codes == {None, "discovery_failed", "runtime_stage_failed", "stage_failed", "unknown_failure"}
             \cup DiscoveryInvalid \cup BuildErrors
StageCodes == Codes \cup {"scheduled_sweep_busy", "scheduled_sweep_lease_lost", "outbox_exhausted",
                          "outbox_failed", "outbox_stale", "outbox_retryable"}
DaemonCodes == {None, "daemon_stopped_unexpectedly", "daemon_task_failed"}
StageType(Reports) ==
    [succeeded : Nat, degraded : Nat, failed : Nat, last_status : Statuses,
     last_failure_code : StageCodes, last_report : Reports]
StatusType ==
    [enabled : BOOLEAN, state : {"disabled", "configured", "running", "stopped", "failed"},
     successful_rounds : Nat, failed_rounds : Nat, failed_tenant_ticks : Nat,
     daemon_failures : Nat, last_round_status : Statuses, last_round_tenant_count : Nat,
     last_round_failed_tenant_count : Nat, last_failure_code : Codes,
     last_daemon_failure_code : DaemonCodes,
     scheduled_sweep : StageType({NoSweep} \cup SweepReports),
     outbox_drain : StageType({{}} \cup DrainReports)]

RoundErrors == {"tenant_discovery_failed"} \cup DiscoveryInvalid \cup BuildErrors
ReportType == [tenant : Nat, error : {None, "runtime_stage_failed"}]
RoundType == [error : {None, "no_round"} \cup RoundErrors, reports : Seq(ReportType)]

TypeOK ==
    /\ env \in Envs \cup {NoEnv}
    /\ server \in {"boot", "serving", "shutdown", "returned"}
    /\ active \subseteq Rows
    /\ task \in {"none", "waiting", "building", "sweeping", "draining", "stopped", "panicked",
                 "aborted"}
    /\ cancel \in BOOLEAN
    /\ todo \in Seq(Nat) /\ reports \in Seq(ReportType)
    /\ sweep \in {NoSweep, SweepError} \cup SweepReports
    /\ rounds \in [successful : Nat, failed : Nat, last : RoundType]
    /\ status \in StatusType

(* The two places that count rounds, the status the health routes show and *)
(* the loop's own report that overwrites it at the end, never disagree.    *)
RoundCountersAgree ==
    /\ status.successful_rounds = rounds.successful
    /\ status.failed_rounds = rounds.failed

(* A hard error of the sweep never skips the outbox drain of that tenant   *)
(* (docs/identity-auth-sync.md): every tick that failed was also drained,  *)
(* and both stages are recorded for it.                                    *)
FailedTickWasDrained ==
    /\ Runs(status.outbox_drain) = Runs(status.scheduled_sweep)
    /\ Runs(status.outbox_drain) >= status.failed_tenant_ticks
    /\ reports # <<>> => Runs(status.outbox_drain) >= Len(reports)

(* A round that fails as a whole is shown with the code of its cause, never *)
(* as an unknown failure: every safe error of discovery, of validation and *)
(* of a tick's construction is one the classifier knows.                   *)
FailedRoundIsNamed ==
    status.last_round_status = "failed" => status.last_failure_code # "unknown_failure"

(* Nothing of the daemon outlives the server: once run_with_runtime has    *)
(* returned, however slow the round it interrupted, no tick runs.          *)
NoTickAfterReturn == server = "returned" => ~ Alive

(* Types, and the status that health shows against what really happened.   *)
MaintenanceInv == TypeOK /\ RoundCountersAgree /\ FailedRoundIsNamed /\ NoTickAfterReturn

(* A tenant's failing tick never keeps another tenant of the round from    *)
(* being ticked: while a round runs, the tenants reported and the tenants  *)
(* to come are the ones that were discovered, in their order, and a round  *)
(* that succeeds has a report for each of them.                            *)
Tenants(list) == [i \in DOMAIN list |-> list[i].tenant]
RoundTenants == Tenants(reports) \o todo
Ticking == task \in {"building", "sweeping", "draining"}
RoundReachesEveryTenant ==
    [][/\ Ticking /\ Ticking' => RoundTenants' = RoundTenants
       /\ Ticking /\ rounds'.successful > rounds.successful =>
            Tenants(rounds'.last.reports) = RoundTenants]_vars

(* A daemon that ended by itself takes the server down, which reports it   *)
(* as failed; a server that is shutting down returns.                      *)
EndIsNoticed ==
    /\ (task = "panicked" /\ server = "serving") ~> (server = "returned")
    /\ (server = "shutdown") ~> (server = "returned")

=============================================================================
