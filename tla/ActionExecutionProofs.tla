------------------------ MODULE ActionExecutionProofs ------------------------
(***************************************************************************)
(* ExecutionInv is inductive, for every set of workers and actions and     *)
(* every bound on faults; with it the executor keeps the ledger's promise. *)
(***************************************************************************)
EXTENDS ActionExecution, FiniteSetTheorems, TLAPS

(* The number of ledger rows is a natural number.                          *)
LEMMA RowsCountable == Cardinality(Rows) \in Nat
<1>1. IsFiniteSet(ConfirmKinds)
  <2>1. IsFiniteSet({"confirm"} \cup {"edit_then_confirm"})
    BY FS_Singleton, FS_Union
  <2> QED BY <2>1 DEF ConfirmKinds
<1>2. IsFiniteSet(Keys)
  BY <1>1, ProposedActionsFinite, FS_Product DEF Keys
<1>3. IsFiniteSet(Rows)
  BY <1>2, FS_Subset DEF Rows
<1> QED BY <1>3, FS_CardinalityType

(* Every event the executor appends is a row of audit_events.              *)
LEMMA EventIsTyped ==
    ASSUME NEW k \in Keys, NEW seq \in 1 .. 3, NEW type \in EventTypes
    PROVE  Event(k, seq, type) \in Events
BY DEF Event, Events, Traces

(* Events of different traces, sequences or types are different rows.      *)
LEMMA EventsDiffer ==
    ASSUME NEW t1, NEW s1, NEW y1, NEW t2, NEW s2, NEW y2,
           Event(t1, s1, y1) = Event(t2, s2, y2)
    PROVE  t1 = t2 /\ s1 = s2 /\ y1 = y2
BY DEF Event

(* An event is in the log after an append iff it was there or is the one   *)
(* appended.                                                               *)
LEMMA AppendAdds ==
    ASSUME NEW t1, NEW s1, NEW y1, AppendAndEnqueue(t1, s1, y1), NEW t, NEW s, NEW y
    PROVE  HasEvent(t, s, y)' <=> (HasEvent(t, s, y) \/ (t = t1 /\ s = s1 /\ y = y1))
<1>1. Event(t, s, y) = Event(t1, s1, y1) <=> (t = t1 /\ s = s1 /\ y = y1)
  BY EventsDiffer
<1> QED BY <1>1 DEF AppendAndEnqueue, HasEvent, Event

(* The invariant holds of the empty tables and idle workers.               *)
THEOREM InitEstablishes == ExecutionInit => ExecutionInv
<1> SUFFICES ASSUME ExecutionInit PROVE ExecutionInv
  OBVIOUS
<1> USE DEF ExecutionInit, StoreInit, WorkersInit, None
<1>1. ExecutionTypeOK
  BY MaxFaultsAssumption DEF ExecutionTypeOK, LedgerStatus, Steps, Answers, Events
<1>2. OwnerHoldsRight /\ RightIsExclusive
  BY DEF OwnerHoldsRight, RightIsExclusive
<1>3. CallIsAccounted /\ SlotsFollowLedger
  BY DEF CallIsAccounted, SlotsFollowLedger, TerminalStatus
<1>4. AuditMatchesLedger
  BY DEF AuditMatchesLedger, TerminalStatus, HasEvent
<1>5. SucceededWasWritten /\ StrandedOnlyByFault
  BY DEF SucceededWasWritten, StrandedOnlyByFault
<1> QED BY <1>1, <1>2, <1>3, <1>4, <1>5 DEF ExecutionInv

-----------------------------------------------------------------------------
(* A step that leaves the tables and the platform alone, and after which   *)
(* its worker holds no right, preserves the invariant, provided a worker   *)
(* gives its right up only through a fault.                                *)
LEMMA QuietStep ==
    ASSUME ExecutionInv, ExecutionTypeOK', NEW w \in Workers,
           UNCHANGED <<ledger, audit, calls, written>>,
           \A v \in Workers \ {w} :
               pc'[v] = pc[v] /\ cur'[v] = cur[v] /\ answer'[v] = answer[v],
           pc'[w] \notin {"execute", "record"},
           faults' >= faults,
           pc[w] \in {"execute", "record"} => faults' > 0
    PROVE  ExecutionInv'
<1> USE DEF ExecutionInv
<1>1. OwnerHoldsRight' /\ RightIsExclusive'
  BY DEF OwnerHoldsRight, RightIsExclusive
<1>2. CallIsAccounted'
  BY DEF CallIsAccounted
<1>3. SlotsFollowLedger' /\ AuditMatchesLedger' /\ SucceededWasWritten'
  BY DEF SlotsFollowLedger, AuditMatchesLedger, SucceededWasWritten, HasEvent
<1>4. StrandedOnlyByFault'
  <2> SUFFICES ASSUME NEW k \in Keys, ledger'[k] = "executing", Owners(k)' = {}
               PROVE  faults' > 0
    BY DEF StrandedOnlyByFault
  <2>1. CASE Owners(k) = {}
    BY <2>1 DEF StrandedOnlyByFault, ExecutionTypeOK
  <2>2. CASE Owners(k) # {}
    <3>1. PICK v \in Workers : pc[v] \in {"execute", "record"} /\ cur[v] = k
      BY <2>2 DEF Owners
    <3>2. CASE v = w
      BY <3>1, <3>2
    <3>3. CASE v # w
      BY <3>1, <3>3 DEF Owners
    <3> QED BY <3>2, <3>3
  <2> QED BY <2>1, <2>2
<1> QED BY <1>1, <1>2, <1>3, <1>4

-----------------------------------------------------------------------------
(* A step that starts or ends a call, or goes on to one that needs no      *)
(* right, without touching a table.                                        *)
LEMMA DrainPreserves ==
    ASSUME ExecutionInv, NEW w \in Workers, DrainStep(w)
    PROVE  ExecutionInv'
<1> USE DEF ExecutionInv, ExecutionTypeOK, Steps, Answers, storeVars
<1>1. CASE DrainOnce(w)
  <2>1. ExecutionTypeOK'
    BY <1>1 DEF DrainOnce, ListConfirmedActions, ReadyForExecution
  <2> QED BY <1>1, <2>1, QuietStep, MaxFaultsAssumption DEF DrainOnce
<1>2. ASSUME NEW k \in Keys, NextPending(w, k) PROVE ExecutionInv'
  <2>1. ExecutionTypeOK'
    BY <1>2 DEF NextPending
  <2> QED BY <1>2, <2>1, QuietStep, MaxFaultsAssumption DEF NextPending
<1> QED BY <1>1, <1>2 DEF DrainStep

(* The calls that find, miss or are refused write nothing.                 *)
LEMMA QuietCallPreserves ==
    ASSUME ExecutionInv, NEW w \in Workers,
           \/ ConfirmRefused(w) \/ ConfirmFinds(w) \/ ConfirmDuplicate(w)
           \/ DryRunPasses(w) \/ DryRunRefused(w) \/ MarkExecutingMissed(w)
    PROVE  ExecutionInv'
<1> USE DEF ExecutionInv, ExecutionTypeOK, Steps, Answers, storeVars
<1>1. CASE ConfirmRefused(w) \/ ConfirmDuplicate(w) \/ MarkExecutingMissed(w)
  <2>1. Return(w) /\ UNCHANGED <<calls, written, storeVars>> /\ pc[w] \notin {"execute", "record"}
    BY <1>1 DEF ConfirmRefused, ConfirmDuplicate, MarkExecutingMissed
  <2>2. ExecutionTypeOK'
    BY <2>1 DEF Return
  <2> QED BY <2>1, <2>2, QuietStep, MaxFaultsAssumption DEF Return
<1>2. CASE ConfirmFinds(w) \/ DryRunPasses(w)
  <2>1. /\ Goto(w, "dry_run") \/ Goto(w, "mark_executing")
        /\ UNCHANGED <<calls, written, storeVars>> /\ pc[w] \in {"confirm", "dry_run"}
    BY <1>2 DEF ConfirmFinds, DryRunPasses
  <2>2. ExecutionTypeOK'
    BY <2>1 DEF Goto
  <2> QED BY <2>1, <2>2, QuietStep, MaxFaultsAssumption DEF Goto
<1>3. CASE DryRunRefused(w)
  <2>1. /\ Return(w) \/ ReturnFault(w)
        /\ UNCHANGED <<calls, written, storeVars>> /\ pc[w] = "dry_run"
    BY <1>3 DEF DryRunRefused
  <2>2. ExecutionTypeOK'
    BY <2>1, MaxFaultsAssumption DEF Return, ReturnFault, Fault
  <2> QED BY <2>1, <2>2, QuietStep, MaxFaultsAssumption DEF Return, ReturnFault, Fault
<1> QED BY <1>1, <1>2, <1>3

(* A crash or a failed repository call may give up a right; it counts.     *)
LEMMA FaultPreserves ==
    ASSUME ExecutionInv, NEW w \in Workers, FaultStep(w)
    PROVE  ExecutionInv'
<1> USE DEF ExecutionInv
<1>1. /\ Fault
      /\ pc' = [pc EXCEPT ![w] = "idle"]
      /\ cur' = [cur EXCEPT ![w] = NoKey]
      /\ answer' = [answer EXCEPT ![w] = None]
      /\ batch' = batch \/ batch' = [batch EXCEPT ![w] = {}]
      /\ UNCHANGED <<calls, written, storeVars>>
  BY DEF FaultStep, RepositoryError, Crash, ReturnFault
<1>2. faults' \in 0 .. MaxFaults /\ faults' > 0 /\ faults' >= faults
  BY <1>1, MaxFaultsAssumption DEF Fault, ExecutionTypeOK
<1>3. ExecutionTypeOK'
  BY <1>1, <1>2 DEF ExecutionTypeOK, Steps, Answers, storeVars
<1> QED BY <1>1, <1>2, <1>3, QuietStep DEF storeVars, ExecutionTypeOK

(* A denial writes at sequence 1 of its trace only: no event the ledger is *)
(* compared with.                                                          *)
LEMMA RequestPreserves ==
    ASSUME ExecutionInv, NEW w \in Workers, RequestStep(w)
    PROVE  ExecutionInv'
<1>1. ASSUME NEW k \in Keys, ExecuteConfirmedRequest(w, k) PROVE ExecutionInv'
  <2> USE DEF ExecutionInv, ExecutionTypeOK, Steps, storeVars
  <2>1. ExecutionTypeOK'
    BY <1>1 DEF ExecuteConfirmedRequest
  <2> QED BY <1>1, <2>1, QuietStep, MaxFaultsAssumption DEF ExecuteConfirmedRequest
<1>2. ASSUME NEW k \in Keys, PolicyDenied(w, k) PROVE ExecutionInv'
  <2> USE <1>2 DEF PolicyDenied, workerVars, ExecutionInv
  <2>1. ExecutionTypeOK'
    <3>1. Event(k, 1, "execution_denied") \in Events
      BY EventIsTyped DEF EventTypes
    <3> QED BY <3>1 DEF ExecutionTypeOK
  <2>2. OwnerHoldsRight' /\ RightIsExclusive' /\ CallIsAccounted'
    BY DEF OwnerHoldsRight, RightIsExclusive, CallIsAccounted
  <2>3. SlotsFollowLedger'
    BY DEF SlotsFollowLedger, Event
  <2>4. AuditMatchesLedger'
    <3>1. \A t, s, y : s # 1 \/ y # "execution_denied" =>
              (HasEvent(t, s, y)' <=> HasEvent(t, s, y))
      BY EventsDiffer DEF HasEvent, Event
    <3> QED BY <3>1 DEF AuditMatchesLedger
  <2>5. SucceededWasWritten' /\ StrandedOnlyByFault'
    BY DEF SucceededWasWritten, StrandedOnlyByFault, Owners
  <2> QED BY <2>1, <2>2, <2>3, <2>4, <2>5
<1> QED BY <1>1, <1>2 DEF RequestStep

(* A committed call ends in the next call or in a lost report.             *)
LEMMA ReportIsTyped ==
    ASSUME ExecutionTypeOK, NEW w \in Workers, NEW step \in Steps,
           Reported(w, step) \/ ReportedLast(w), cur[w] \in Keys
    PROVE  /\ pc' \in [Workers -> Steps]
           /\ cur' \in [Workers -> Keys \cup {NoKey}]
           /\ \A v \in Workers : pc'[v] # "idle" => cur'[v] \in Keys
           /\ batch' \in [Workers -> SUBSET Keys]
           /\ answer' \in [Workers -> Answers]
           /\ faults' \in 0 .. MaxFaults
           /\ faults' >= faults
           /\ \A v \in Workers \ {w} :
                  pc'[v] = pc[v] /\ cur'[v] = cur[v] /\ answer'[v] = answer[v]
           /\ \/ pc'[w] = step /\ cur'[w] = cur[w] /\ faults' = faults
              \/ pc'[w] = "idle" /\ ReportedLast(w)
              \/ pc'[w] = "idle" /\ faults' > 0
<1> USE DEF ExecutionTypeOK, Steps, Answers
<1>1. CASE Goto(w, step)
  BY <1>1, MaxFaultsAssumption DEF Goto
<1>2. CASE Return(w)
  BY <1>2, MaxFaultsAssumption DEF Return, ReportedLast
<1>3. CASE ReturnFault(w)
  <2>1. faults' \in 0 .. MaxFaults /\ faults' > 0 /\ faults' >= faults
    BY <1>3, MaxFaultsAssumption DEF ReturnFault, Fault
  <2> QED BY <1>3, <2>1 DEF ReturnFault
<1> QED BY <1>1, <1>2, <1>3 DEF Reported, ReportedLast

(* The confirmation creates a row nobody can own yet.                      *)
LEMMA ConfirmCreatesPreserves ==
    ASSUME ExecutionInv, NEW w \in Workers, ConfirmCreates(w)
    PROVE  ExecutionInv'
<1> DEFINE k == cur[w]
<1> USE DEF ExecutionInv
<1>1. /\ k \in Keys
      /\ pc[w] = "confirm"
      /\ ledger[k] = None
      /\ AppendAndEnqueue(k, 1, "confirmed_action")
      /\ Reported(w, "dry_run")
      /\ UNCHANGED <<decisions, items, cursorSeq, calls, written>>
      /\ ledger' = [ledger EXCEPT ![k] = "confirmed"]
      /\ created' = [created EXCEPT ![k] = Cardinality(Rows) + 1]
  BY DEF ConfirmCreates, SubmitConfirmedAction, ExecutionTypeOK
<1> HIDE DEF k
<1>2. /\ pc' \in [Workers -> Steps]
      /\ cur' \in [Workers -> Keys \cup {NoKey}]
      /\ \A v \in Workers : pc'[v] # "idle" => cur'[v] \in Keys
      /\ batch' \in [Workers -> SUBSET Keys]
      /\ answer' \in [Workers -> Answers]
      /\ faults' \in 0 .. MaxFaults
      /\ faults' >= faults
      /\ \A v \in Workers \ {w} :
             pc'[v] = pc[v] /\ cur'[v] = cur[v] /\ answer'[v] = answer[v]
      /\ pc'[w] \in {"dry_run", "idle"}
  BY <1>1, ReportIsTyped DEF Steps, k
<1>3. ExecutionTypeOK'
  <2>1. Event(k, 1, "confirmed_action") \in Events
    BY <1>1, EventIsTyped DEF EventTypes
  <2>2. ledger' \in [Keys -> LedgerStatus]
    BY <1>1 DEF ExecutionTypeOK, LedgerStatus
  <2>3. created' \in [Keys -> Nat]
    BY <1>1, RowsCountable DEF ExecutionTypeOK
  <2>4. audit' \subseteq Events /\ outbox' \subseteq audit'
    BY <1>1, <2>1 DEF ExecutionTypeOK, AppendAndEnqueue
  <2> QED BY <1>1, <1>2, <2>2, <2>3, <2>4 DEF ExecutionTypeOK
<1>4. \A j \in Keys : j # k => ledger'[j] = ledger[j]
  BY <1>1 DEF ExecutionTypeOK
<1>5. ledger'[k] = "confirmed"
  BY <1>1 DEF ExecutionTypeOK
<1>6. \A v \in Workers : pc'[v] \in {"execute", "record"} =>
          /\ v # w /\ pc[v] = pc'[v] /\ cur'[v] = cur[v] /\ answer'[v] = answer[v]
          /\ cur[v] \in Keys /\ ledger[cur[v]] = "executing" /\ cur[v] # k
  BY <1>1, <1>2 DEF OwnerHoldsRight, ExecutionTypeOK, None
<1>7. OwnerHoldsRight'
  BY <1>4, <1>6 DEF OwnerHoldsRight
<1>8. RightIsExclusive'
  BY <1>6 DEF RightIsExclusive
<1>9. CallIsAccounted'
  BY <1>1, <1>4, <1>5, <1>6 DEF CallIsAccounted, TerminalStatus, None
<1>10. SlotsFollowLedger'
  <2> SUFFICES ASSUME NEW e \in audit', e.trace \in Keys
               PROVE  /\ e.seq = 2 => ledger'[e.trace] \in {"executing"} \cup TerminalStatus
                      /\ e.seq = 3 => ledger'[e.trace] \in TerminalStatus
    BY DEF SlotsFollowLedger
  <2>1. CASE e \in audit
    BY <1>1, <1>4, <2>1 DEF SlotsFollowLedger, TerminalStatus, None
  <2>2. CASE e = Event(k, 1, "confirmed_action")
    BY <2>2 DEF Event
  <2> QED BY <1>1, <2>1, <2>2 DEF AppendAndEnqueue
<1>11. AuditMatchesLedger'
  <2> SUFFICES ASSUME NEW j \in Keys
               PROVE  /\ ledger'[j] \in {"executing"} \cup TerminalStatus <=> HasEvent(j, 2, "dry_run")'
                      /\ ledger'[j] = "succeeded" <=> HasEvent(j, 3, "execution_succeeded")'
                      /\ ledger'[j] = "failed" <=> HasEvent(j, 3, "execution_failed")'
                      /\ HasEvent(j, 1, "confirmed_action")' => ledger'[j] # None
    BY DEF AuditMatchesLedger
  <2>1. /\ HasEvent(j, 2, "dry_run")' <=> HasEvent(j, 2, "dry_run")
        /\ HasEvent(j, 3, "execution_succeeded")' <=> HasEvent(j, 3, "execution_succeeded")
        /\ HasEvent(j, 3, "execution_failed")' <=> HasEvent(j, 3, "execution_failed")
        /\ HasEvent(j, 1, "confirmed_action")' <=> HasEvent(j, 1, "confirmed_action") \/ j = k
    BY <1>1, AppendAdds
  <2> QED BY <1>1, <1>4, <1>5, <2>1 DEF AuditMatchesLedger, TerminalStatus, None
<1>12. SucceededWasWritten'
  BY <1>1, <1>4, <1>5 DEF SucceededWasWritten
<1>13. StrandedOnlyByFault'
  <2> SUFFICES ASSUME NEW j \in Keys, ledger'[j] = "executing", Owners(j)' = {}
               PROVE  faults' > 0
    BY DEF StrandedOnlyByFault
  <2>1. ledger[j] = "executing"
    BY <1>4, <1>5
  <2>2. Owners(j) = {}
    BY <1>1, <1>2 DEF Owners
  <2> QED BY <1>2, <2>1, <2>2 DEF StrandedOnlyByFault, ExecutionTypeOK
<1> QED BY <1>3, <1>7, <1>8, <1>9, <1>10, <1>11, <1>12, <1>13

(* The grant finds a confirmed row, so no other worker owns it.            *)
LEMMA MarkExecutingPreserves ==
    ASSUME ExecutionInv, NEW w \in Workers, MarkExecuting(w)
    PROVE  ExecutionInv'
<1> DEFINE k == cur[w]
<1> USE DEF ExecutionInv
<1>1. /\ k \in Keys
      /\ pc[w] = "mark_executing"
      /\ ledger[k] = "confirmed"
      /\ ledger' = [ledger EXCEPT ![k] = "executing"]
      /\ AppendAndEnqueue(k, 2, "dry_run")
      /\ Reported(w, "execute")
      /\ UNCHANGED <<created, calls, written>>
  BY DEF MarkExecuting, RecordStatusTransition, MarkMatches, MarkFrom, MarkOperation,
         ExecutionTypeOK
<1> HIDE DEF k
<1>2. /\ pc' \in [Workers -> Steps]
      /\ cur' \in [Workers -> Keys \cup {NoKey}]
      /\ \A v \in Workers : pc'[v] # "idle" => cur'[v] \in Keys
      /\ batch' \in [Workers -> SUBSET Keys]
      /\ answer' \in [Workers -> Answers]
      /\ faults' \in 0 .. MaxFaults
      /\ faults' >= faults
      /\ \A v \in Workers \ {w} :
             pc'[v] = pc[v] /\ cur'[v] = cur[v] /\ answer'[v] = answer[v]
      /\ \/ pc'[w] = "execute" /\ cur'[w] = k
         \/ pc'[w] = "idle"
    BY <1>1, ReportIsTyped DEF Steps, k
<1>3. pc'[w] = "idle" => faults' > 0
    <2>1. CASE Goto(w, "execute")
      BY <2>1 DEF Goto, ExecutionTypeOK
    <2>2. CASE ReturnFault(w)
      BY <2>2, MaxFaultsAssumption DEF ReturnFault, Fault, ExecutionTypeOK
    <2> QED BY <1>1, <2>1, <2>2 DEF Reported
<1>4. ExecutionTypeOK'
  <2>1. Event(k, 2, "dry_run") \in Events
    BY <1>1, EventIsTyped DEF EventTypes
  <2>2. ledger' \in [Keys -> LedgerStatus]
    BY <1>1 DEF ExecutionTypeOK, LedgerStatus
  <2>3. audit' \subseteq Events /\ outbox' \subseteq audit'
    BY <1>1, <2>1 DEF ExecutionTypeOK, AppendAndEnqueue
  <2> QED BY <1>1, <1>2, <2>2, <2>3 DEF ExecutionTypeOK
<1>5. /\ \A j \in Keys : j # k => ledger'[j] = ledger[j]
      /\ ledger'[k] = "executing"
  BY <1>1 DEF ExecutionTypeOK
<1>6. \A v \in Workers : v # w /\ pc'[v] \in {"execute", "record"} =>
          /\ pc[v] = pc'[v] /\ cur'[v] = cur[v] /\ answer'[v] = answer[v]
          /\ cur[v] \in Keys /\ ledger[cur[v]] = "executing" /\ cur[v] # k
  BY <1>1, <1>2 DEF OwnerHoldsRight, ExecutionTypeOK
<1>7. OwnerHoldsRight'
  BY <1>2, <1>5, <1>6 DEF OwnerHoldsRight
<1>8. RightIsExclusive'
  BY <1>2, <1>6 DEF RightIsExclusive
<1>9. CallIsAccounted'
  <2>1. calls[k] = 0
    BY <1>1 DEF CallIsAccounted
  <2> QED BY <1>1, <1>2, <1>5, <1>6, <2>1 DEF CallIsAccounted, TerminalStatus, None
<1>10. SlotsFollowLedger'
  <2> SUFFICES ASSUME NEW e \in audit', e.trace \in Keys
               PROVE  /\ e.seq = 2 => ledger'[e.trace] \in {"executing"} \cup TerminalStatus
                      /\ e.seq = 3 => ledger'[e.trace] \in TerminalStatus
    BY DEF SlotsFollowLedger
  <2>1. CASE e \in audit
    BY <1>1, <1>5, <2>1 DEF SlotsFollowLedger, TerminalStatus
  <2>2. CASE e = Event(k, 2, "dry_run")
    BY <1>5, <2>2 DEF Event
  <2> QED BY <1>1, <2>1, <2>2 DEF AppendAndEnqueue
<1>11. AuditMatchesLedger'
  <2> SUFFICES ASSUME NEW j \in Keys
               PROVE  /\ ledger'[j] \in {"executing"} \cup TerminalStatus <=> HasEvent(j, 2, "dry_run")'
                      /\ ledger'[j] = "succeeded" <=> HasEvent(j, 3, "execution_succeeded")'
                      /\ ledger'[j] = "failed" <=> HasEvent(j, 3, "execution_failed")'
                      /\ HasEvent(j, 1, "confirmed_action")' => ledger'[j] # None
    BY DEF AuditMatchesLedger
  <2>1. /\ HasEvent(j, 2, "dry_run")' <=> HasEvent(j, 2, "dry_run") \/ j = k
        /\ HasEvent(j, 3, "execution_succeeded")' <=> HasEvent(j, 3, "execution_succeeded")
        /\ HasEvent(j, 3, "execution_failed")' <=> HasEvent(j, 3, "execution_failed")
        /\ HasEvent(j, 1, "confirmed_action")' <=> HasEvent(j, 1, "confirmed_action")
    BY <1>1, AppendAdds
  <2> QED BY <1>1, <1>5, <2>1 DEF AuditMatchesLedger, TerminalStatus, None
<1>12. SucceededWasWritten'
  BY <1>1, <1>5 DEF SucceededWasWritten
<1>13. StrandedOnlyByFault'
  <2> SUFFICES ASSUME NEW j \in Keys, ledger'[j] = "executing", Owners(j)' = {}
               PROVE  faults' > 0
    BY DEF StrandedOnlyByFault
  <2>1. CASE j = k
    BY <1>2, <1>3, <2>1 DEF Owners
  <2>2. CASE j # k
    <3>1. ledger[j] = "executing"
      BY <1>5, <2>2
    <3>2. Owners(j) = {}
      BY <1>1, <1>2 DEF Owners
    <3> QED BY <1>2, <3>1, <3>2 DEF StrandedOnlyByFault, ExecutionTypeOK
  <2> QED BY <2>1, <2>2
<1> QED BY <1>4, <1>7, <1>8, <1>9, <1>10, <1>11, <1>12, <1>13

(* Only the one owner of a row makes the call, and it has made none yet.   *)
LEMMA ExecutePreserves ==
    ASSUME ExecutionInv, NEW w \in Workers, Execute(w)
    PROVE  ExecutionInv'
<1> DEFINE k == cur[w]
<1> USE DEF ExecutionInv
<1>1. /\ k \in Keys
      /\ pc[w] = "execute"
      /\ calls' = [calls EXCEPT ![k] = @ + 1]
      /\ \/ written' = [written EXCEPT ![k] = @ + 1] /\ answer' = [answer EXCEPT ![w] = "ok"]
         \/ written' = [written EXCEPT ![k] = @ + 1] /\ answer' = [answer EXCEPT ![w] = "err"]
         \/ written' = written /\ answer' = [answer EXCEPT ![w] = "err"]
      /\ pc' = [pc EXCEPT ![w] = "record"]
      /\ UNCHANGED <<cur, batch, faults, ledger, created, audit, outbox>>
  BY DEF Execute, ExecutionTypeOK, storeVars
<1> HIDE DEF k
<1>2. calls[k] = 0 /\ written[k] = 0 /\ ledger[k] = "executing"
  BY <1>1 DEF CallIsAccounted, OwnerHoldsRight, ExecutionTypeOK, k
<1>3. /\ calls'[k] = 1
      /\ \/ written'[k] = 1
         \/ written'[k] = 0 /\ answer'[w] = "err"
      /\ answer'[w] \in {"ok", "err"}
      /\ \A j \in Keys : j # k => calls'[j] = calls[j] /\ written'[j] = written[j]
      /\ \A v \in Workers : v # w => pc'[v] = pc[v] /\ answer'[v] = answer[v]
      /\ pc'[w] = "record"
  BY <1>1, <1>2 DEF ExecutionTypeOK
<1>4. ExecutionTypeOK'
  <2>1. calls' \in [Keys -> Nat] /\ written' \in [Keys -> Nat]
    BY <1>1 DEF ExecutionTypeOK
  <2>2. answer' \in [Workers -> Answers] /\ pc' \in [Workers -> Steps]
    BY <1>1 DEF ExecutionTypeOK, Answers, Steps
  <2> QED BY <1>1, <2>1, <2>2 DEF ExecutionTypeOK, k
<1>5. OwnerHoldsRight' /\ RightIsExclusive'
  BY <1>1, <1>3 DEF OwnerHoldsRight, RightIsExclusive
<1>6. \A v \in Workers : v # w /\ pc[v] \in {"execute", "record"} => cur[v] # k /\ cur[v] \in Keys
  BY <1>1 DEF RightIsExclusive, ExecutionTypeOK, k
<1>7. CallIsAccounted'
  <2>1. \A v \in Workers : pc'[v] = "execute" => calls'[cur'[v]] = 0
    BY <1>1, <1>3, <1>6 DEF CallIsAccounted
  <2>2. \A v \in Workers : pc'[v] = "record" =>
          /\ calls'[cur'[v]] = 1
          /\ answer'[v] \in {"ok", "err"}
          /\ answer'[v] = "ok" => written'[cur'[v]] = 1
    BY <1>1, <1>3, <1>6 DEF CallIsAccounted, k
  <2>3. /\ \A j \in Keys : ledger'[j] \in {None, "confirmed"} => calls'[j] = 0
        /\ \A j \in Keys : ledger'[j] \in TerminalStatus => calls'[j] = 1
        /\ \A j \in Keys : calls'[j] <= 1 /\ written'[j] <= calls'[j]
    BY <1>1, <1>2, <1>3 DEF CallIsAccounted, TerminalStatus, None
  <2> QED BY <2>1, <2>2, <2>3 DEF CallIsAccounted
<1>8. SlotsFollowLedger' /\ AuditMatchesLedger'
  BY <1>1 DEF SlotsFollowLedger, AuditMatchesLedger, HasEvent
<1>9. SucceededWasWritten'
  BY <1>1, <1>2, <1>3 DEF SucceededWasWritten
<1>10. StrandedOnlyByFault'
  BY <1>1, <1>3 DEF StrandedOnlyByFault, Owners
<1> QED BY <1>4, <1>5, <1>7, <1>8, <1>9, <1>10

(* The owner's row is still executing and sequence 3 of its trace is free: *)
(* nothing but a fault keeps the result from being recorded.               *)
LEMMA ResultFits ==
    ASSUME ExecutionInv, NEW w \in Workers, pc[w] = "record"
    PROVE  ~ TransitionMisses(cur[w], ResultStatus(w), 3)
<1>1. cur[w] \in Keys /\ ledger[cur[w]] = "executing"
  BY DEF ExecutionInv, ExecutionTypeOK, OwnerHoldsRight
<1>2. MarkMatches(cur[w], ResultStatus(w))
  BY <1>1 DEF MarkMatches, MarkFrom, ResultStatus
<1>3. CanAppend(cur[w], 3)
  BY <1>1 DEF ExecutionInv, CanAppend, SlotsFollowLedger, TerminalStatus
<1> QED BY <1>2, <1>3 DEF TransitionMisses

(* The owner's last step moves its row to the status of its event.         *)
LEMMA RecordResultPreserves ==
    ASSUME ExecutionInv, NEW w \in Workers, RecordResult(w)
    PROVE  ExecutionInv'
<1> DEFINE k == cur[w]
           to == ResultStatus(w)
           type == ResultEvent(w)
<1> USE DEF ExecutionInv
<1>1. /\ k \in Keys
      /\ pc[w] = "record"
      /\ ledger[k] = "executing"
      /\ ledger' = [ledger EXCEPT ![k] = to]
      /\ AppendAndEnqueue(k, 3, type)
      /\ ReportedLast(w)
      /\ UNCHANGED <<created, calls, written>>
  <2>1. pc[w] = "record" /\ k \in Keys /\ ledger[k] = "executing"
    BY DEF RecordResult, OwnerHoldsRight, ExecutionTypeOK
  <2>2. RecordStatusTransition(k, to, 3, type) /\ ReportedLast(w) /\ UNCHANGED <<calls, written>>
    BY <2>1, ResultFits DEF RecordResult
  <2> QED BY <2>1, <2>2 DEF RecordStatusTransition, MarkOperation
<1>2. \/ to = "succeeded" /\ type = "execution_succeeded" /\ written[k] = 1
      \/ to = "failed" /\ type = "execution_failed"
  BY <1>1 DEF ResultStatus, ResultEvent, CallIsAccounted
<1>3. calls[k] = 1
  BY <1>1 DEF CallIsAccounted
<1> HIDE DEF k, to, type
<1>4. /\ pc' \in [Workers -> Steps]
      /\ cur' \in [Workers -> Keys \cup {NoKey}]
      /\ \A v \in Workers : pc'[v] # "idle" => cur'[v] \in Keys
      /\ batch' \in [Workers -> SUBSET Keys]
      /\ answer' \in [Workers -> Answers]
      /\ faults' \in 0 .. MaxFaults
      /\ faults' >= faults
      /\ \A v \in Workers \ {w} :
             pc'[v] = pc[v] /\ cur'[v] = cur[v] /\ answer'[v] = answer[v]
      /\ pc'[w] = "idle"
  BY <1>1, ReportIsTyped DEF Steps, k
<1>5. ExecutionTypeOK'
  <2>1. Event(k, 3, type) \in Events
    BY <1>1, <1>2, EventIsTyped DEF EventTypes
  <2>2. ledger' \in [Keys -> LedgerStatus]
    BY <1>1, <1>2 DEF ExecutionTypeOK, LedgerStatus
  <2>3. audit' \subseteq Events /\ outbox' \subseteq audit'
    BY <1>1, <2>1 DEF ExecutionTypeOK, AppendAndEnqueue
  <2> QED BY <1>1, <1>4, <2>2, <2>3 DEF ExecutionTypeOK
<1>6. /\ \A j \in Keys : j # k => ledger'[j] = ledger[j]
      /\ ledger'[k] = to
  BY <1>1 DEF ExecutionTypeOK
<1>7. \A v \in Workers : pc'[v] \in {"execute", "record"} =>
          /\ v # w /\ pc[v] = pc'[v] /\ cur'[v] = cur[v] /\ answer'[v] = answer[v]
          /\ cur[v] \in Keys /\ ledger[cur[v]] = "executing" /\ cur[v] # k
  BY <1>1, <1>4 DEF OwnerHoldsRight, RightIsExclusive, ExecutionTypeOK, k
<1>8. OwnerHoldsRight' /\ RightIsExclusive'
  BY <1>6, <1>7 DEF OwnerHoldsRight, RightIsExclusive
<1>9. CallIsAccounted'
  BY <1>1, <1>2, <1>3, <1>6, <1>7 DEF CallIsAccounted, TerminalStatus, None
<1>10. SlotsFollowLedger'
  <2> SUFFICES ASSUME NEW e \in audit', e.trace \in Keys
               PROVE  /\ e.seq = 2 => ledger'[e.trace] \in {"executing"} \cup TerminalStatus
                      /\ e.seq = 3 => ledger'[e.trace] \in TerminalStatus
    BY DEF SlotsFollowLedger
  <2>1. CASE e \in audit
    BY <1>1, <1>2, <1>6, <2>1 DEF SlotsFollowLedger, TerminalStatus
  <2>2. CASE e = Event(k, 3, type)
    BY <1>2, <1>6, <2>2 DEF Event, TerminalStatus
  <2> QED BY <1>1, <2>1, <2>2 DEF AppendAndEnqueue
<1>11. AuditMatchesLedger'
  <2> SUFFICES ASSUME NEW j \in Keys
               PROVE  /\ ledger'[j] \in {"executing"} \cup TerminalStatus <=> HasEvent(j, 2, "dry_run")'
                      /\ ledger'[j] = "succeeded" <=> HasEvent(j, 3, "execution_succeeded")'
                      /\ ledger'[j] = "failed" <=> HasEvent(j, 3, "execution_failed")'
                      /\ HasEvent(j, 1, "confirmed_action")' => ledger'[j] # None
    BY DEF AuditMatchesLedger
  <2>1. /\ HasEvent(j, 2, "dry_run")' <=> HasEvent(j, 2, "dry_run")
        /\ HasEvent(j, 3, "execution_succeeded")' <=>
              HasEvent(j, 3, "execution_succeeded") \/ (j = k /\ type = "execution_succeeded")
        /\ HasEvent(j, 3, "execution_failed")' <=>
              HasEvent(j, 3, "execution_failed") \/ (j = k /\ type = "execution_failed")
        /\ HasEvent(j, 1, "confirmed_action")' <=> HasEvent(j, 1, "confirmed_action")
    BY <1>1, AppendAdds
  <2> QED BY <1>1, <1>2, <1>6, <2>1 DEF AuditMatchesLedger, TerminalStatus, None
<1>12. SucceededWasWritten'
  BY <1>1, <1>2, <1>6 DEF SucceededWasWritten
<1>13. StrandedOnlyByFault'
  <2> SUFFICES ASSUME NEW j \in Keys, ledger'[j] = "executing", Owners(j)' = {}
               PROVE  faults' > 0
    BY DEF StrandedOnlyByFault
  <2>1. j # k /\ ledger[j] = "executing"
    BY <1>2, <1>6
  <2>2. Owners(j) = {}
    BY <1>4, <2>1 DEF Owners, k
  <2> QED BY <1>4, <2>1, <2>2 DEF StrandedOnlyByFault, ExecutionTypeOK
<1> QED BY <1>5, <1>8, <1>9, <1>10, <1>11, <1>12, <1>13

-----------------------------------------------------------------------------
(* A decision takes a key from no row to a confirmed one, or finds a row   *)
(* and leaves it, or submits nothing; its event is in no trace of an       *)
(* execution.                                                              *)
LEMMA DecisionPreserves ==
    ASSUME ExecutionInv, NEW p \in ProposedActions, NEW kind \in DecisionKinds,
           \/ <<p, kind>> \in Keys /\ SubmitConfirmedAction(<<p, kind>>)
           \/ UNCHANGED <<ledger, created>>,
           AppendAndEnqueue(DecisionTrace(p, kind), 1, "decision"),
           UNCHANGED workerVars
    PROVE  ExecutionInv'
<1> USE DEF ExecutionInv
<1> DEFINE trace == DecisionTrace(p, kind)
           k == <<p, kind>>
<1>1. /\ (k \in Keys /\ SubmitConfirmedAction(k)) \/ UNCHANGED <<ledger, created>>
      /\ AppendAndEnqueue(trace, 1, "decision")
      /\ UNCHANGED workerVars
  OBVIOUS
<1> HIDE DEF k
<1>2. \A j \in Keys : ledger'[j] = ledger[j] \/ (ledger[j] = None /\ ledger'[j] = "confirmed")
  BY <1>1 DEF SubmitConfirmedAction, ExecutionTypeOK
<1>3. ExecutionTypeOK'
  <2>1. trace \in Traces
    BY DEF Traces
  <2> HIDE DEF trace
  <2>2. Event(trace, 1, "decision") \in Events
    BY <2>1 DEF Event, Events, EventTypes
  <2>3. ledger' \in [Keys -> LedgerStatus]
    BY <1>1 DEF SubmitConfirmedAction, ExecutionTypeOK, LedgerStatus
  <2>4. created' \in [Keys -> Nat]
    BY <1>1, RowsCountable DEF SubmitConfirmedAction, ExecutionTypeOK
  <2>5. audit' \subseteq Events /\ outbox' \subseteq audit'
    BY <1>1, <2>2 DEF ExecutionTypeOK, AppendAndEnqueue
  <2> QED BY <1>1, <2>3, <2>4, <2>5 DEF ExecutionTypeOK, workerVars
<1> HIDE DEF trace
<1>4. OwnerHoldsRight' /\ RightIsExclusive'
  BY <1>1, <1>2 DEF OwnerHoldsRight, RightIsExclusive, workerVars, ExecutionTypeOK, None
<1>5. CallIsAccounted'
  BY <1>1, <1>2 DEF CallIsAccounted, workerVars, TerminalStatus, None
<1>6. SlotsFollowLedger'
  <2> SUFFICES ASSUME NEW e \in audit', e.trace \in Keys
               PROVE  /\ e.seq = 2 => ledger'[e.trace] \in {"executing"} \cup TerminalStatus
                      /\ e.seq = 3 => ledger'[e.trace] \in TerminalStatus
    BY DEF SlotsFollowLedger
  <2>1. CASE e \in audit
    BY <1>2, <2>1 DEF SlotsFollowLedger, TerminalStatus, None
  <2>2. CASE e = Event(trace, 1, "decision")
    BY <2>2 DEF Event
  <2> QED BY <1>1, <2>1, <2>2 DEF AppendAndEnqueue
<1>7. AuditMatchesLedger'
  <2> SUFFICES ASSUME NEW j \in Keys
               PROVE  /\ ledger'[j] \in {"executing"} \cup TerminalStatus <=> HasEvent(j, 2, "dry_run")'
                      /\ ledger'[j] = "succeeded" <=> HasEvent(j, 3, "execution_succeeded")'
                      /\ ledger'[j] = "failed" <=> HasEvent(j, 3, "execution_failed")'
                      /\ HasEvent(j, 1, "confirmed_action")' => ledger'[j] # None
    BY DEF AuditMatchesLedger
  <2>1. /\ HasEvent(j, 2, "dry_run")' <=> HasEvent(j, 2, "dry_run")
        /\ HasEvent(j, 3, "execution_succeeded")' <=> HasEvent(j, 3, "execution_succeeded")
        /\ HasEvent(j, 3, "execution_failed")' <=> HasEvent(j, 3, "execution_failed")
        /\ HasEvent(j, 1, "confirmed_action")' <=> HasEvent(j, 1, "confirmed_action")
    BY <1>1, AppendAdds
  <2> QED BY <1>2, <2>1 DEF AuditMatchesLedger, TerminalStatus, None
<1>8. SucceededWasWritten' /\ StrandedOnlyByFault'
  BY <1>1, <1>2 DEF SucceededWasWritten, StrandedOnlyByFault, Owners, workerVars
<1> QED BY <1>3, <1>4, <1>5, <1>6, <1>7, <1>8

(* So does a decision as the executor's own environment takes it.          *)
LEMMA ReviewPreserves ==
    ASSUME ExecutionInv, NEW u \in Users, NEW k \in Keys, ConfirmedByReview(u, k)
    PROVE  ExecutionInv'
<1>1. k[1] \in ProposedActions /\ k[2] \in DecisionKinds /\ k = <<k[1], k[2]>>
  BY DEF Keys, DecisionKinds
<1> QED BY <1>1, DecisionPreserves DEF ConfirmedByReview

(* Every step preserves the invariant, a stuttering step included.         *)
LEMMA NextPreserves == ExecutionInv /\ [ExecutionNext]_executionVars => ExecutionInv'
<1> SUFFICES ASSUME ExecutionInv, [ExecutionNext]_executionVars PROVE ExecutionInv'
  OBVIOUS
<1>1. CASE UNCHANGED executionVars
  BY <1>1 DEF executionVars, storeVars, workerVars, ExecutionInv, ExecutionTypeOK,
              OwnerHoldsRight, RightIsExclusive, CallIsAccounted, SlotsFollowLedger,
              AuditMatchesLedger, HasEvent, SucceededWasWritten, StrandedOnlyByFault, Owners
<1>2. ASSUME NEW w \in Workers, CallStep(w) PROVE ExecutionInv'
  BY <1>2, QuietCallPreserves, ConfirmCreatesPreserves, MarkExecutingPreserves,
     ExecutePreserves, RecordResultPreserves DEF CallStep
<1> QED BY <1>1, <1>2, DrainPreserves, RequestPreserves, FaultPreserves,
           ReviewPreserves DEF ExecutionNext

(* The invariant holds in every reachable state of the executor, whatever  *)
(* the number of workers, actions and faults.                              *)
THEOREM ExecutionInvariant == ExecutionSpec => []ExecutionInv
BY InitEstablishes, NextPreserves, PTL DEF ExecutionSpec

(* Every variable keeps its type, the worker's current action included.    *)
THEOREM TypeCorrect == ExecutionSpec => []ExecutionTypeOK
<1>1. ExecutionInv => ExecutionTypeOK
  BY DEF ExecutionInv
<1> QED BY <1>1, ExecutionInvariant, PTL

(* adapter.execute runs at most once per confirmed action, for any number  *)
(* of executors that race in execute_confirmed_request and fail anywhere.  *)
THEOREM AtMostOnce == ExecutionSpec => []ExecutedAtMostOnce
<1>1. ExecutionInv => ExecutedAtMostOnce
  BY DEF ExecutionInv, ExecutionTypeOK, CallIsAccounted, ExecutedAtMostOnce
<1> QED BY <1>1, ExecutionInvariant, PTL

(* execute is called only after record_dry_run has committed the ledger    *)
(* transition and its audit event.                                         *)
THEOREM OnlyAfterDryRun == ExecutionSpec => []ExecutedOnlyAfterDryRun
<1>1. ExecutionInv => ExecutedOnlyAfterDryRun
  <2> SUFFICES ASSUME ExecutionInv, NEW k \in Keys, calls[k] > 0
               PROVE  /\ HasEvent(k, 2, "dry_run")
                      /\ ledger[k] \in {"executing"} \cup TerminalStatus
    BY DEF ExecutedOnlyAfterDryRun
  <2>1. ledger[k] \in {"executing"} \cup TerminalStatus
    BY DEF ExecutionInv, ExecutionTypeOK, CallIsAccounted, LedgerStatus, TerminalStatus
  <2> QED BY <2>1 DEF ExecutionInv, AuditMatchesLedger
<1> QED BY <1>1, ExecutionInvariant, PTL

(* The recorder keeps operation_ledger and audit_events in step.           *)
THEOREM LedgerIsAudited == ExecutionSpec => []AuditMatchesLedger
<1>1. ExecutionInv => AuditMatchesLedger
  BY DEF ExecutionInv
<1> QED BY <1>1, ExecutionInvariant, PTL

(* 'succeeded' in operation_ledger means Feishu applied the write.         *)
THEOREM SuccessIsReal == ExecutionSpec => []SucceededWasWritten
<1>1. ExecutionInv => SucceededWasWritten
  BY DEF ExecutionInv
<1> QED BY <1>1, ExecutionInvariant, PTL

(* Without a fault in drain_once or execute_confirmed_request no operation *)
(* stays 'executing' with nobody to finish it.                             *)
THEOREM OnlyFaultsStrand == ExecutionSpec => []StrandedOnlyByFault
<1>1. ExecutionInv => StrandedOnlyByFault
  BY DEF ExecutionInv
<1> QED BY <1>1, ExecutionInvariant, PTL

-----------------------------------------------------------------------------
(* What a step does to the ledger, the log and the call counts.            *)
LEMMA StepShape ==
    ASSUME ExecutionInv, [ExecutionNext]_executionVars
    PROVE  /\ audit \subseteq audit' /\ outbox \subseteq outbox'
           /\ \/ UNCHANGED <<ledger, calls>>
              \/ \E k \in Keys :
                    \/ /\ ledger[k] = None
                       /\ ledger' = [ledger EXCEPT ![k] = "confirmed"]
                       /\ UNCHANGED calls
                    \/ /\ ledger[k] = "confirmed"
                       /\ ledger' = [ledger EXCEPT ![k] = "executing"]
                       /\ UNCHANGED calls
                    \/ /\ ledger[k] = "executing" /\ calls[k] = 0
                       /\ calls' = [calls EXCEPT ![k] = 1]
                       /\ UNCHANGED ledger
                    \/ /\ ledger[k] = "executing" /\ calls[k] = 1
                       /\ \E to \in TerminalStatus : ledger' = [ledger EXCEPT ![k] = to]
                       /\ UNCHANGED calls
<1>1. CASE UNCHANGED executionVars
  BY <1>1 DEF executionVars, storeVars, workerVars
<1>2. ASSUME NEW w \in Workers, DrainStep(w) \/ FaultStep(w)
      PROVE  UNCHANGED <<ledger, calls, audit, outbox>>
  BY <1>2 DEF DrainStep, DrainOnce, NextPending, FaultStep, RepositoryError, Crash, storeVars
<1>3. ASSUME NEW w \in Workers, RequestStep(w)
      PROVE  UNCHANGED <<ledger, calls, outbox>> /\ audit \subseteq audit'
  BY <1>3 DEF RequestStep, ExecuteConfirmedRequest, PolicyDenied, storeVars, workerVars
<1>4. ASSUME NEW w \in Workers,
             \/ ConfirmRefused(w) \/ ConfirmFinds(w) \/ ConfirmDuplicate(w)
             \/ DryRunPasses(w) \/ DryRunRefused(w) \/ MarkExecutingMissed(w)
      PROVE  UNCHANGED <<ledger, calls, audit, outbox>>
  BY <1>4 DEF ConfirmRefused, ConfirmFinds, ConfirmDuplicate, DryRunPasses, DryRunRefused,
              MarkExecutingMissed, storeVars
<1>5. ASSUME NEW w \in Workers, ConfirmCreates(w)
      PROVE  /\ cur[w] \in Keys
             /\ ledger[cur[w]] = None
             /\ ledger' = [ledger EXCEPT ![cur[w]] = "confirmed"]
             /\ UNCHANGED calls /\ audit \subseteq audit' /\ outbox \subseteq outbox'
  BY <1>5 DEF ConfirmCreates, SubmitConfirmedAction, AppendAndEnqueue, ExecutionInv,
              ExecutionTypeOK
<1>6. ASSUME NEW w \in Workers, MarkExecuting(w)
      PROVE  /\ cur[w] \in Keys
             /\ ledger[cur[w]] = "confirmed"
             /\ ledger' = [ledger EXCEPT ![cur[w]] = "executing"]
             /\ UNCHANGED calls /\ audit \subseteq audit' /\ outbox \subseteq outbox'
  BY <1>6 DEF MarkExecuting, RecordStatusTransition, MarkMatches, MarkFrom, MarkOperation,
              AppendAndEnqueue, ExecutionInv, ExecutionTypeOK
<1>7. ASSUME NEW w \in Workers, Execute(w)
      PROVE  /\ cur[w] \in Keys
             /\ ledger[cur[w]] = "executing" /\ calls[cur[w]] = 0
             /\ calls' = [calls EXCEPT ![cur[w]] = 1]
             /\ UNCHANGED <<ledger, audit, outbox>>
  <2>1. /\ pc[w] = "execute" /\ cur[w] \in Keys
        /\ calls' = [calls EXCEPT ![cur[w]] = @ + 1]
        /\ UNCHANGED <<ledger, audit, outbox>>
    BY <1>7 DEF Execute, ExecutionInv, ExecutionTypeOK, storeVars
  <2>2. ledger[cur[w]] = "executing" /\ calls[cur[w]] = 0
    BY <2>1 DEF CallIsAccounted, OwnerHoldsRight, ExecutionInv
  <2> QED BY <2>1, <2>2
<1>8. ASSUME NEW w \in Workers, RecordResult(w)
      PROVE  /\ cur[w] \in Keys
             /\ ledger[cur[w]] = "executing" /\ calls[cur[w]] = 1
             /\ ResultStatus(w) \in TerminalStatus
             /\ ledger' = [ledger EXCEPT ![cur[w]] = ResultStatus(w)]
             /\ UNCHANGED calls /\ audit \subseteq audit' /\ outbox \subseteq outbox'
  <2>1. pc[w] = "record" /\ UNCHANGED calls
    BY <1>8 DEF RecordResult
  <2>2. RecordStatusTransition(cur[w], ResultStatus(w), 3, ResultEvent(w))
    BY <1>8, <2>1, ResultFits DEF RecordResult
  <2>3. ResultStatus(w) \in TerminalStatus
    BY DEF ResultStatus, TerminalStatus
  <2> QED BY <2>1, <2>2, <2>3 DEF RecordStatusTransition, MarkOperation, AppendAndEnqueue,
             ExecutionInv, ExecutionTypeOK, OwnerHoldsRight, CallIsAccounted
<1>9. ASSUME NEW w \in Workers, CallStep(w)
      PROVE  \/ ConfirmRefused(w) \/ ConfirmFinds(w) \/ ConfirmDuplicate(w)
             \/ DryRunPasses(w) \/ DryRunRefused(w) \/ MarkExecutingMissed(w)
             \/ ConfirmCreates(w) \/ MarkExecuting(w) \/ Execute(w) \/ RecordResult(w)
  BY <1>9 DEF CallStep
<1>10. CASE \E w \in Workers : DrainStep(w) \/ FaultStep(w) \/ RequestStep(w)
  BY <1>2, <1>3, <1>10
<1>11. CASE \E w \in Workers : CallStep(w)
  <2>1. PICK w \in Workers : CallStep(w)
    BY <1>11
  <2>2. CASE ConfirmCreates(w)
    BY <1>5, <2>2
  <2>3. CASE MarkExecuting(w)
    BY <1>6, <2>3
  <2>4. CASE Execute(w)
    BY <1>7, <2>4
  <2>5. CASE RecordResult(w)
    BY <1>8, <2>5
  <2> QED BY <1>4, <1>9, <2>1, <2>2, <2>3, <2>4, <2>5
<1>12. ASSUME NEW u \in Users, NEW k \in Keys, ConfirmedByReview(u, k)
       PROVE  /\ \/ UNCHANGED ledger
                 \/ ledger[k] = None /\ ledger' = [ledger EXCEPT ![k] = "confirmed"]
              /\ UNCHANGED calls /\ audit \subseteq audit' /\ outbox \subseteq outbox'
  BY <1>12 DEF ConfirmedByReview, SubmitConfirmedAction, AppendAndEnqueue, workerVars
<1>13. CASE \E u \in Users, k \in Keys : ConfirmedByReview(u, k)
  BY <1>12, <1>13
<1> QED BY <1>1, <1>10, <1>11, <1>13 DEF ExecutionNext

(* No step of any worker takes back a final ledger status or an audit row. *)
THEOREM FinalHistory == ExecutionSpec => HistoryIsFinal
<1>1. ExecutionInv /\ [ExecutionNext]_executionVars =>
        [ /\ \A k \in Keys : ledger[k] \in TerminalStatus => ledger'[k] = ledger[k]
          /\ audit \subseteq audit'
          /\ outbox \subseteq outbox' ]_executionVars
  <2> SUFFICES ASSUME ExecutionInv, [ExecutionNext]_executionVars
               PROVE  /\ \A k \in Keys : ledger[k] \in TerminalStatus => ledger'[k] = ledger[k]
                      /\ audit \subseteq audit'
                      /\ outbox \subseteq outbox'
    OBVIOUS
  <2>1. ledger \in [Keys -> LedgerStatus]
    BY DEF ExecutionInv, ExecutionTypeOK
  <2> QED BY <2>1, StepShape DEF TerminalStatus, None
<1> QED BY <1>1, ExecutionInvariant, PTL DEF ExecutionSpec, HistoryIsFinal

(* The executor implements ExecutionPromise: each of its steps is Confirm, *)
(* Grant, Perform or Settle of one operation, or changes neither the       *)
(* ledger nor the platform.                                                *)
THEOREM Refinement == ExecutionSpec => KeepsPromise
<1>1. ExecutionInit => Promise!Init
  BY DEF ExecutionInit, StoreInit, WorkersInit, Promise!Init, None
<1>2. ExecutionInv /\ [ExecutionNext]_executionVars => [Promise!Next]_(Promise!promiseVars)
  <2> SUFFICES ASSUME ExecutionInv, [ExecutionNext]_executionVars
               PROVE  [Promise!Next]_(Promise!promiseVars)
    OBVIOUS
  <2>1. CASE UNCHANGED <<ledger, calls>>
    BY <2>1 DEF Promise!promiseVars
  <2>2. CASE ~ UNCHANGED <<ledger, calls>>
    <3>1. PICK k \in Keys :
            \/ /\ ledger[k] = None
               /\ ledger' = [ledger EXCEPT ![k] = "confirmed"]
               /\ UNCHANGED calls
            \/ /\ ledger[k] = "confirmed"
               /\ ledger' = [ledger EXCEPT ![k] = "executing"]
               /\ UNCHANGED calls
            \/ /\ ledger[k] = "executing" /\ calls[k] = 0
               /\ calls' = [calls EXCEPT ![k] = 1]
               /\ UNCHANGED ledger
            \/ /\ ledger[k] = "executing" /\ calls[k] = 1
               /\ \E to \in TerminalStatus : ledger' = [ledger EXCEPT ![k] = to]
               /\ UNCHANGED calls
      BY <2>2, StepShape
    <3>2. Promise!Confirm(k) \/ Promise!Grant(k) \/ Promise!Perform(k) \/ Promise!Settle(k)
      BY <3>1 DEF Promise!Confirm, Promise!Grant, Promise!Perform, Promise!Settle,
                  Promise!Move, None, TerminalStatus
    <3> QED BY <3>2 DEF Promise!Next
  <2> QED BY <2>1, <2>2
<1> QED BY <1>1, <1>2, ExecutionInvariant, PTL DEF ExecutionSpec, KeepsPromise, Promise!Spec
=============================================================================
