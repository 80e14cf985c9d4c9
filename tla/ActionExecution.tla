--------------------------- MODULE ActionExecution ---------------------------
(***************************************************************************)
(* PostgresActionExecutor and PostgresConfirmedActionWorker.  Any number   *)
(* of workers execute confirmed actions against the shared tables: record  *)
(* the confirmation, ask the adapter for a dry run, acquire the execution  *)
(* right by moving the ledger row to 'executing', call the adapter once,   *)
(* and record what it answered.  Each recorder call is one transaction;    *)
(* between two of them other workers run, the process may die and a        *)
(* repository call may fail before its commit or after it.                 *)
(***************************************************************************)
EXTENDS OarStore

CONSTANTS
    Workers,    \* executor instances: threads or processes
    Poisoned,   \* keys whose payload the adapter's dry run always refuses
    Limit,      \* PostgresConfirmedActionDrainConfig.limit
    MaxFaults   \* bound on crashes, repository errors and transient refusals

ASSUME PoisonedAssumption == Poisoned \subseteq Keys
ASSUME LimitAssumption == Limit \in Nat
ASSUME MaxFaultsAssumption == MaxFaults \in Nat

VARIABLES
    pc,       \* the call a worker is about to make
    cur,      \* the action it is executing
    batch,    \* listed by drain_once and not started yet
    answer,   \* what adapter.execute answered
    calls,    \* adapter.execute calls per key
    written,  \* writes Feishu has applied per key
    faults    \* faults so far

workerVars == <<pc, cur, batch, answer, calls, written, faults>>
executionVars == <<storeVars, workerVars>>

-----------------------------------------------------------------------------
Steps == {"idle", "confirm", "dry_run", "mark_executing", "execute", "record"}
RecorderSteps == {"confirm", "mark_executing", "record"}
Answers == {None, "ok", "err"}

WorkersInit ==
    /\ pc = [w \in Workers |-> "idle"]
    /\ cur = [w \in Workers |-> NoKey]
    /\ batch = [w \in Workers |-> {}]
    /\ answer = [w \in Workers |-> None]
    /\ calls = [k \in Keys |-> 0]
    /\ written = [k \in Keys |-> 0]
    /\ faults = 0

ExecutionInit == StoreInit /\ WorkersInit

(* Control of one worker: go on with the next call, return from            *)
(* execute_confirmed_request, or return after a fault.                     *)
Goto(w, step) ==
    /\ pc' = [pc EXCEPT ![w] = step]
    /\ UNCHANGED <<cur, batch, answer, faults>>

Return(w) ==
    /\ pc' = [pc EXCEPT ![w] = "idle"]
    /\ cur' = [cur EXCEPT ![w] = NoKey]
    /\ answer' = [answer EXCEPT ![w] = None]
    /\ UNCHANGED <<batch, faults>>

Fault == faults < MaxFaults /\ faults' = faults + 1

ReturnFault(w) ==
    /\ Fault
    /\ pc' = [pc EXCEPT ![w] = "idle"]
    /\ cur' = [cur EXCEPT ![w] = NoKey]
    /\ answer' = [answer EXCEPT ![w] = None]
    /\ UNCHANGED batch

(* After a commit the worker reads the report, or loses it.                *)
Reported(w, step) == Goto(w, step) \/ ReturnFault(w)
ReportedLast(w) == Return(w) \/ ReturnFault(w)

-----------------------------------------------------------------------------
(* What the decision recorder commits when a user confirms: the decision,  *)
(* the ledger row, the user's item and the decision's event.  How the      *)
(* recorder gets there is ReviewDecision's.                                *)
ConfirmedByReview(u, k) ==
    /\ decisions[k[1]].kind = None
    /\ decisions' = [decisions EXCEPT ![k[1]] = [actor |-> u, kind |-> k[2], payload |-> None]]
    /\ SubmitConfirmedAction(k)
    /\ items' = [items EXCEPT ![u][k[1]] =
          [status |-> "confirmed", ledger_status |-> "confirmed", op |-> k,
           cursor |-> cursorSeq + 1, source |-> 0]]
    /\ cursorSeq' = cursorSeq + 1
    /\ AppendAndEnqueue(DecisionTrace(k[1], k[2]), 1, "decision")
    /\ UNCHANGED workerVars

(* drain_once lists the oldest confirmed rows whose decision confirmed     *)
(* them, and then executes them one after the other, oldest first.         *)
ReadyForExecution ==
    { k \in Keys : ledger[k] = "confirmed" /\ decisions[k[1]].kind = k[2] }

ListConfirmedActions ==
    { k \in ReadyForExecution :
        Cardinality({ j \in ReadyForExecution : created[j] < created[k] }) < Limit }

DrainOnce(w) ==
    /\ pc[w] = "idle" /\ batch[w] = {}
    /\ ListConfirmedActions # {}
    /\ batch' = [batch EXCEPT ![w] = ListConfirmedActions]
    /\ UNCHANGED <<pc, cur, answer, calls, written, faults, storeVars>>

NextPending(w, k) ==
    /\ pc[w] = "idle"
    /\ k \in batch[w]
    /\ \A j \in batch[w] : created[k] <= created[j]
    /\ pc' = [pc EXCEPT ![w] = "confirm"]
    /\ cur' = [cur EXCEPT ![w] = k]
    /\ batch' = [batch EXCEPT ![w] = @ \ {k}]
    /\ UNCHANGED <<answer, calls, written, faults, storeVars>>

(* A caller that holds a ConfirmedAction hands it to the executor itself.  *)
ExecuteConfirmedRequest(w, k) ==
    /\ pc[w] = "idle" /\ batch[w] = {}
    /\ pc' = [pc EXCEPT ![w] = "confirm"]
    /\ cur' = [cur EXCEPT ![w] = k]
    /\ UNCHANGED <<batch, answer, calls, written, faults, storeVars>>

(* Mutant: the denial takes the sequence of the dry run.                   *)
PolicyDeniedAsDryRun(w, k) ==
    /\ pc[w] = "idle" /\ batch[w] = {}
    /\ CanAppend(k, 2)
    /\ audit' = audit \cup {Event(k, 2, "execution_denied")}
    /\ UNCHANGED <<ledger, created, decisions, items, cursorSeq, outbox, workerVars>>

(* execute_confirmed_request_with_policy, denied: one audit event at the   *)
(* first sequence of the action's trace, no ledger row and no envelope.    *)
(* When that sequence is taken the insert fails and nothing changes.       *)
PolicyDenied(w, k) ==
    /\ pc[w] = "idle" /\ batch[w] = {}
    /\ CanAppend(k, 1)
    /\ audit' = audit \cup {Event(k, 1, "execution_denied")}
    /\ UNCHANGED <<ledger, created, decisions, items, cursorSeq, outbox, workerVars>>

-----------------------------------------------------------------------------
(* record_confirmation.  Only the call that creates the row writes the     *)
(* event; a row that is executing or final sends the worker home.          *)
ConfirmCreates(w) ==
    /\ pc[w] = "confirm"
    /\ ledger[cur[w]] = None
    /\ SubmitConfirmedAction(cur[w])
    /\ AppendAndEnqueue(cur[w], 1, "confirmed_action")
    /\ Reported(w, "dry_run")
    /\ UNCHANGED <<decisions, items, cursorSeq, calls, written>>

ConfirmRefused(w) ==
    /\ pc[w] = "confirm"
    /\ ledger[cur[w]] = None
    /\ ~ CanAppend(cur[w], 1)
    /\ Return(w)
    /\ UNCHANGED <<calls, written, storeVars>>

(* Mutant: a submit that found a row is always answered as a duplicate.    *)
ConfirmFindsReturns(w) ==
    /\ pc[w] = "confirm"
    /\ ledger[cur[w]] = "confirmed"
    /\ Return(w)
    /\ UNCHANGED <<calls, written, storeVars>>

ConfirmFinds(w) ==
    /\ pc[w] = "confirm"
    /\ ledger[cur[w]] = "confirmed"
    /\ Goto(w, "dry_run")
    /\ UNCHANGED <<calls, written, storeVars>>

(* Mutant: a failed operation is confirmed again and retried.              *)
ConfirmDuplicateRetries(w) ==
    /\ pc[w] = "confirm"
    /\ ledger[cur[w]] = "failed"
    /\ ledger' = [ledger EXCEPT ![cur[w]] = "confirmed"]
    /\ Goto(w, "dry_run")
    /\ UNCHANGED <<created, decisions, items, cursorSeq, audit, outbox, calls, written>>

ConfirmDuplicate(w) ==
    /\ pc[w] = "confirm"
    /\ ledger[cur[w]] \in {"executing"} \cup TerminalStatus
    /\ Return(w)
    /\ UNCHANGED <<calls, written, storeVars>>

(* adapter.dry_run: a refusal leaves the row confirmed.                    *)
DryRunPasses(w) ==
    /\ pc[w] = "dry_run"
    /\ cur[w] \notin Poisoned
    /\ Goto(w, "mark_executing")
    /\ UNCHANGED <<calls, written, storeVars>>

(* Mutant: a refused dry run is returned with `?` and ends the drain.      *)
DryRunRefusedEndsDrain(w) ==
    /\ pc[w] = "dry_run"
    /\ cur[w] \in Poisoned
    /\ pc' = [pc EXCEPT ![w] = "idle"]
    /\ cur' = [cur EXCEPT ![w] = NoKey]
    /\ batch' = [batch EXCEPT ![w] = {}]
    /\ UNCHANGED <<answer, calls, written, faults, storeVars>>

DryRunRefused(w) ==
    /\ pc[w] = "dry_run"
    /\ IF cur[w] \in Poisoned THEN Return(w) ELSE ReturnFault(w)
    /\ UNCHANGED <<calls, written, storeVars>>

(* record_status_transition: ledger, inbox projection, event and envelope  *)
(* in one transaction, or nothing.                                         *)
RecordStatusTransition(k, to, seq, type) ==
    /\ MarkMatches(k, to)
    /\ MarkOperation(k, to)
    /\ ProjectLedger(k, to)
    /\ AppendAndEnqueue(k, seq, type)
    /\ UNCHANGED <<created, decisions>>

TransitionMisses(k, to, seq) == ~ MarkMatches(k, to) \/ ~ CanAppend(k, seq)

(* Mutant: the worker that acquired the right settles without the call.    *)
MarkExecutingSkipsCall(w) ==
    /\ pc[w] = "mark_executing"
    /\ RecordStatusTransition(cur[w], "executing", 2, "dry_run")
    /\ Reported(w, "record")
    /\ UNCHANGED <<calls, written>>

(* record_dry_run acquires the execution right: confirmed -> executing.    *)
MarkExecuting(w) ==
    /\ pc[w] = "mark_executing"
    /\ RecordStatusTransition(cur[w], "executing", 2, "dry_run")
    /\ Reported(w, "execute")
    /\ UNCHANGED <<calls, written>>

(* Mutant: the duplicate flag of record_dry_run is ignored.                *)
MarkExecutingMissedIgnored(w) ==
    /\ pc[w] = "mark_executing"
    /\ TransitionMisses(cur[w], "executing", 2)
    /\ Goto(w, "execute")
    /\ UNCHANGED <<calls, written, storeVars>>

(* Another worker was faster: a duplicate, or an invalid transition.       *)
MarkExecutingMissed(w) ==
    /\ pc[w] = "mark_executing"
    /\ TransitionMisses(cur[w], "executing", 2)
    /\ Return(w)
    /\ UNCHANGED <<calls, written, storeVars>>

(* adapter.execute.  An error does not say whether Feishu applied it.      *)
Execute(w) ==
    /\ pc[w] = "execute"
    /\ calls' = [calls EXCEPT ![cur[w]] = @ + 1]
    /\ \/ /\ answer' = [answer EXCEPT ![w] = "ok"]
          /\ written' = [written EXCEPT ![cur[w]] = @ + 1]
       \/ /\ answer' = [answer EXCEPT ![w] = "err"]
          /\ written' = [written EXCEPT ![cur[w]] = @ + 1]
       \/ /\ answer' = [answer EXCEPT ![w] = "err"]
          /\ UNCHANGED written
    /\ pc' = [pc EXCEPT ![w] = "record"]
    /\ UNCHANGED <<cur, batch, faults, storeVars>>

(* Mutant: the two events are swapped.                                     *)
ResultEventSwapped(w) ==
    IF answer[w] = "ok" THEN "execution_failed" ELSE "execution_succeeded"

(* record_success and record_failure.                                      *)
ResultStatus(w) == IF answer[w] = "ok" THEN "succeeded" ELSE "failed"
ResultEvent(w) == IF answer[w] = "ok" THEN "execution_succeeded" ELSE "execution_failed"

(* Mutant: an error of the adapter is returned before it is recorded.      *)
RecordResultDropsError(w) ==
    /\ pc[w] = "record"
    /\ IF TransitionMisses(cur[w], ResultStatus(w), 3) \/ answer[w] = "err"
       THEN Return(w) /\ UNCHANGED storeVars
       ELSE /\ RecordStatusTransition(cur[w], ResultStatus(w), 3, ResultEvent(w))
            /\ ReportedLast(w)
    /\ UNCHANGED <<calls, written>>

RecordResult(w) ==
    /\ pc[w] = "record"
    /\ IF TransitionMisses(cur[w], ResultStatus(w), 3)
       THEN Return(w) /\ UNCHANGED storeVars
       ELSE /\ RecordStatusTransition(cur[w], ResultStatus(w), 3, ResultEvent(w))
            /\ ReportedLast(w)
    /\ UNCHANGED <<calls, written>>

-----------------------------------------------------------------------------
(* A repository call that fails before its commit returns an error; a      *)
(* process that dies forgets the rest of its batch as well.                *)
RepositoryError(w) ==
    /\ pc[w] \in RecorderSteps
    /\ ReturnFault(w)
    /\ UNCHANGED <<calls, written, storeVars>>

Crash(w) ==
    /\ pc[w] # "idle" \/ batch[w] # {}
    /\ Fault
    /\ pc' = [pc EXCEPT ![w] = "idle"]
    /\ cur' = [cur EXCEPT ![w] = NoKey]
    /\ answer' = [answer EXCEPT ![w] = None]
    /\ batch' = [batch EXCEPT ![w] = {}]
    /\ UNCHANGED <<calls, written, storeVars>>

(* The steps of a call that is under way, and of the batch being drained.  *)
CallStep(w) ==
    \/ ConfirmCreates(w) \/ ConfirmRefused(w) \/ ConfirmFinds(w) \/ ConfirmDuplicate(w)
    \/ DryRunPasses(w) \/ DryRunRefused(w)
    \/ MarkExecuting(w) \/ MarkExecutingMissed(w)
    \/ Execute(w)
    \/ RecordResult(w)

DrainStep(w) ==
    \/ DrainOnce(w)
    \/ \E k \in Keys : NextPending(w, k)

RequestStep(w) ==
    \E k \in Keys : ExecuteConfirmedRequest(w, k) \/ PolicyDenied(w, k)

FaultStep(w) == RepositoryError(w) \/ Crash(w)

ExecutionNext ==
    \/ \E w \in Workers : CallStep(w) \/ DrainStep(w) \/ RequestStep(w) \/ FaultStep(w)
    \/ \E u \in Users, k \in Keys : ConfirmedByReview(u, k)

ExecutionSpec == ExecutionInit /\ [][ExecutionNext]_executionVars

(* The executor implements the promise of the ledger, step by step.        *)
Promise == INSTANCE ExecutionPromise WITH status <- ledger, performed <- calls

-----------------------------------------------------------------------------
(* The values every variable ranges over.                                  *)
ExecutionTypeOK ==
    /\ ledger \in [Keys -> LedgerStatus]
    /\ created \in [Keys -> Nat]
    /\ audit \subseteq Events
    /\ outbox \subseteq audit
    /\ pc \in [Workers -> Steps]
    /\ cur \in [Workers -> Keys \cup {NoKey}]
    /\ \A w \in Workers : pc[w] # "idle" => cur[w] \in Keys
    /\ batch \in [Workers -> SUBSET Keys]
    /\ answer \in [Workers -> Answers]
    /\ calls \in [Keys -> Nat]
    /\ written \in [Keys -> Nat]
    /\ faults \in 0 .. MaxFaults

(* The adapter executes a confirmed action at most once, however many      *)
(* workers race for it and wherever they fail: the promise the execution   *)
(* right in execute_confirmed_request is there to keep.                    *)
ExecutedAtMostOnce == \A k \in Keys : calls[k] <= 1 /\ written[k] <= 1

(* Nothing reaches Feishu before a dry run of the same action has been     *)
(* committed to the audit log and the ledger row has left 'confirmed'.     *)
ExecutedOnlyAfterDryRun ==
    \A k \in Keys : calls[k] > 0 =>
        /\ HasEvent(k, 2, "dry_run")
        /\ ledger[k] \in {"executing"} \cup TerminalStatus

(* The ledger and the audit log tell the same story of every operation:    *)
(* the recorder writes both in one transaction.                            *)
AuditMatchesLedger ==
    \A k \in Keys :
        /\ ledger[k] \in {"executing"} \cup TerminalStatus <=> HasEvent(k, 2, "dry_run")
        /\ ledger[k] = "succeeded" <=> HasEvent(k, 3, "execution_succeeded")
        /\ ledger[k] = "failed" <=> HasEvent(k, 3, "execution_failed")
        /\ HasEvent(k, 1, "confirmed_action") => ledger[k] # None

(* 'succeeded' is never recorded for a write Feishu did not apply.         *)
SucceededWasWritten ==
    \A k \in Keys : ledger[k] = "succeeded" => written[k] = 1

(* A row is 'executing' only while one worker owns it, unless a fault took *)
(* that worker away: no interleaving of healthy workers strands a row.     *)
Owners(k) == { w \in Workers : pc[w] \in {"execute", "record"} /\ cur[w] = k }

StrandedOnlyByFault ==
    \A k \in Keys : ledger[k] = "executing" /\ Owners(k) = {} => faults > 0

(* What a step may never do: take back a final status, or change or drop   *)
(* an audit event or an envelope.                                          *)
HistoryIsFinal ==
    [][ /\ \A k \in Keys : ledger[k] \in TerminalStatus => ledger'[k] = ledger[k]
        /\ audit \subseteq audit'
        /\ outbox \subseteq outbox' ]_executionVars

(* Every step of every worker is a step the ledger's promise allows: no    *)
(* second grant, no second execution, no result for what was not executed. *)
KeepsPromise == Promise!Spec

-----------------------------------------------------------------------------
(* Why the executor keeps its promise: the parts of an inductive invariant *)
(* that relate what each worker is about to do to the shared tables.       *)

(* A worker that may call the adapter, or has called it, holds the right.  *)
OwnerHoldsRight ==
    \A w \in Workers : pc[w] \in {"execute", "record"} => ledger[cur[w]] = "executing"

(* Nobody else holds it.                                                   *)
RightIsExclusive ==
    \A v, w \in Workers :
        /\ pc[v] \in {"execute", "record"}
        /\ pc[w] \in {"execute", "record"}
        /\ cur[v] = cur[w]
        => v = w

(* The call is made between acquiring the right and recording the result.  *)
CallIsAccounted ==
    /\ \A w \in Workers : pc[w] = "execute" => calls[cur[w]] = 0
    /\ \A w \in Workers : pc[w] = "record" =>
          /\ calls[cur[w]] = 1
          /\ answer[w] \in {"ok", "err"}
          /\ answer[w] = "ok" => written[cur[w]] = 1
    /\ \A k \in Keys : ledger[k] \in {None, "confirmed"} => calls[k] = 0
    /\ \A k \in Keys : ledger[k] \in TerminalStatus => calls[k] = 1
    /\ \A k \in Keys : calls[k] <= 1 /\ written[k] <= calls[k]

(* The sequence numbers a worker will need are still free when it does.    *)
SlotsFollowLedger ==
    \A e \in audit : e.trace \in Keys =>
        /\ e.seq = 2 => ledger[e.trace] \in {"executing"} \cup TerminalStatus
        /\ e.seq = 3 => ledger[e.trace] \in TerminalStatus

(* The conjunction of these holds initially and every step preserves it.   *)
ExecutionInv ==
    /\ ExecutionTypeOK
    /\ OwnerHoldsRight
    /\ RightIsExclusive
    /\ CallIsAccounted
    /\ SlotsFollowLedger
    /\ AuditMatchesLedger
    /\ SucceededWasWritten
    /\ StrandedOnlyByFault
=============================================================================
