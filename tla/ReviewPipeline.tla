--------------------------- MODULE ReviewPipeline ---------------------------
(***************************************************************************)
(* From a review decision to the write in Feishu: the decision recorder    *)
(* and the drain of confirmed actions on the same tables.  Actions reach   *)
(* the executor through drain_once here, whenever somebody calls it: in    *)
(* the repository only the tests do, no loop schedules it.  Direct         *)
(* requests and denials are ActionExecution's own.                         *)
(***************************************************************************)
EXTENDS ActionExecution, ReviewDecision

vars == <<storeVars, workerVars, decisionVars>>

Init == StoreInit /\ WorkersInit /\ DecisionInit

WorkerStep(w) == (CallStep(w) \/ DrainStep(w)) /\ UNCHANGED decisionVars

Next ==
    \/ \E w \in Workers : WorkerStep(w)
    \/ \E w \in Workers : FaultStep(w) /\ UNCHANGED decisionVars
    \/ DecisionNext /\ UNCHANGED workerVars

Spec == Init /\ [][Next]_vars

(* A drain that was called is polled to its end: it goes on with the call  *)
(* it is in and then with the next row it listed.  Nothing obliges anybody *)
(* to call drain_once (again), a user to decide or an ingest to arrive.    *)
GoOn(w) == (CallStep(w) \/ \E k \in Keys : NextPending(w, k)) /\ UNCHANGED decisionVars

Fairness == \A w \in Workers : WF_vars(GoOn(w))

FairSpec == Spec /\ Fairness

-----------------------------------------------------------------------------
(* Feishu is written only for an action whose own actor confirmed it, with *)
(* the decision that stands: no rejected action and no superseded kind of  *)
(* confirmation is ever executed.                                          *)
WrittenWasConfirmedByActor ==
    \A k \in Keys : calls[k] > 0 =>
        decisions[k[1]].kind = k[2] /\ decisions[k[1]].actor = ActorOf[k[1]]

(* As long as an item is linked to its operation it shows the operation's  *)
(* status, in both columns.                                                *)
LinkedItemFollowsLedger ==
    \A u \in Users, p \in ProposedActions :
        items[u][p].op # NoKey =>
            /\ items[u][p].ledger_status = ledger[items[u][p].op]
            /\ items[u][p].status = items[u][p].ledger_status

(* What a drain listed gets its result, whatever happens to the rows       *)
(* before it: a dry run that is refused, a row that another worker took    *)
(* first or that is final by then neither ends nor blocks the drain.  The  *)
(* drain must not die and no call of the repository fail meanwhile, and    *)
(* the adapter accepts the row's own dry run.                              *)
ListedIsFinished ==
    \A w \in Workers, k \in Keys \ Poisoned :
        k \in batch[w] ~> ledger[k] \in TerminalStatus

=============================================================================
