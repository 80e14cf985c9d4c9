------------------------------ MODULE OarStore ------------------------------
(***************************************************************************)
(* The Postgres tables that the review decision recorder and the action    *)
(* executor share, and the statements both run inside their transactions.  *)
(* A transaction is one step: its tables change together or not at all.    *)
(*                                                                         *)
(* A proposed action stands for one (tenant, id, version).  Deciding it    *)
(* yields at most one confirmed action per kind of confirmation, and the   *)
(* idempotency key of that confirmed action is <<proposed action, kind>>.  *)
(***************************************************************************)
EXTENDS Naturals, FiniteSets

CONSTANTS
    ProposedActions,  \* proposed actions under review
    Users             \* workspace users that own a review inbox

ASSUME ProposedActionsFinite == IsFiniteSet(ProposedActions)

VARIABLES
    ledger,     \* operation_ledger.status by idempotency key
    created,    \* operation_ledger.created_at, as the rank of the insert
    decisions,  \* proposed_action_decisions by proposed action
    items,      \* review_inbox_items by user and proposed action
    cursorSeq,  \* last value of review_inbox_sync_cursor_seq
    audit,      \* audit_events
    outbox      \* audit_outbox: the events it holds an envelope for

storeVars == <<ledger, created, decisions, items, cursorSeq, audit, outbox>>

-----------------------------------------------------------------------------
ConfirmKinds == {"confirm", "edit_then_confirm"}
Keys == ProposedActions \X ConfirmKinds

None == "none"  \* SQL NULL, or no row at all
NoKey == <<>>   \* operation_id IS NULL

LedgerStatus == {None, "confirmed", "executing", "succeeded", "failed"}
TerminalStatus == {"succeeded", "failed"}  \* no code path writes 'cancelled'

ItemStatus == {None, "open", "confirmed", "rejected", "executing",
               "succeeded", "failed", "withdrawn"}
TerminalItemStatus == {"rejected", "succeeded", "failed", "withdrawn"}

(* A row of review_inbox_items.  status = None: the row does not exist.    *)
Item == [status : ItemStatus, ledger_status : LedgerStatus,
         op : Keys \cup {NoKey}, cursor : Nat, source : Nat]
NoItem == [status |-> None, ledger_status |-> None, op |-> NoKey,
           cursor |-> 0, source |-> 0]

(* A row of proposed_action_decisions.  kind = None: undecided.            *)
DecisionKinds == ConfirmKinds \cup {"reject"}
NoDecision == [actor |-> None, kind |-> None, payload |-> None]

(* A row of audit_events.  An execution trace is named by the idempotency  *)
(* key of its action; a decision has a trace of its own.                   *)
EventTypes == {"confirmed_action", "dry_run", "execution_succeeded",
               "execution_failed", "execution_denied", "decision"}
DecisionTrace(p, kind) == <<"review-decision", p, kind>>
Traces == Keys \cup { DecisionTrace(p, d) : p \in ProposedActions, d \in DecisionKinds }
Event(trace, seq, type) == [trace |-> trace, seq |-> seq, type |-> type]
Events == [trace : Traces, seq : 1 .. 3, type : EventTypes]

StoreInit ==
    /\ ledger = [k \in Keys |-> None]
    /\ created = [k \in Keys |-> 0]
    /\ decisions = [p \in ProposedActions |-> NoDecision]
    /\ items = [u \in Users |-> [p \in ProposedActions |-> NoItem]]
    /\ cursorSeq = 0
    /\ audit = {}
    /\ outbox = {}

-----------------------------------------------------------------------------
(* SUBMIT_CONFIRMED_ACTION_AND_LEDGER: the first submit of a key inserts a *)
(* confirmed row, every later one finds the row and changes nothing.       *)
Rows == { k \in Keys : ledger[k] # None }

SubmitConfirmedAction(k) ==
    IF ledger[k] = None
    THEN /\ ledger' = [ledger EXCEPT ![k] = "confirmed"]
         /\ created' = [created EXCEPT ![k] = Cardinality(Rows) + 1]
    ELSE UNCHANGED <<ledger, created>>

(* MARK_EXECUTING, MARK_SUCCEEDED and MARK_FAILED share one shape: the     *)
(* update matches only a row in the state the target is reached from.      *)
MarkFrom(to) == IF to = "executing" THEN "confirmed" ELSE "executing"
MarkMatches(k, to) == ledger[k] = MarkFrom(to)
MarkOperation(k, to) == ledger' = [ledger EXCEPT ![k] = to]

(* UPDATE_REVIEW_INBOX_LEDGER_PROJECTION: the item linked to the operation *)
(* follows the ledger unless either of its two states is already final.    *)
ProjectionMatches(k, u, p) ==
    /\ items[u][p].op = k
    /\ items[u][p].status \notin TerminalItemStatus \cup {None}
    /\ items[u][p].ledger_status \notin TerminalStatus

(* Mutant: the sequence alone, which an ingested cursor may be ahead of.   *)
NextCursorSequenceOnly(seq, cursor) == seq

NextCursor(seq, cursor) == IF seq > cursor THEN seq ELSE cursor + 1

(* Mutant: only the ledger column of the linked item follows.              *)
ProjectLedgerColumnOnly(k, to) ==
    /\ items' = [u \in Users |-> [p \in ProposedActions |->
          IF ProjectionMatches(k, u, p)
          THEN [items[u][p] EXCEPT !.ledger_status = to,
                                   !.cursor = NextCursor(cursorSeq + 1, items[u][p].cursor)]
          ELSE items[u][p]]]
    /\ cursorSeq' = cursorSeq + 1

ProjectLedger(k, to) ==
    /\ items' = [u \in Users |-> [p \in ProposedActions |->
          IF ProjectionMatches(k, u, p)
          THEN [items[u][p] EXCEPT
                  !.status = to,
                  !.ledger_status = to,
                  !.cursor = NextCursor(cursorSeq + 1, items[u][p].cursor)]
          ELSE items[u][p]]]
    /\ cursorSeq' = IF \E u \in Users, p \in ProposedActions : ProjectionMatches(k, u, p)
                    THEN cursorSeq + 1
                    ELSE cursorSeq

(* INSERT INTO audit_events is refused by the unique (trace, sequence).    *)
CanAppend(trace, seq) == \A e \in audit : ~ (e.trace = trace /\ e.seq = seq)

(* Mutant: the envelope is not part of the transaction.                    *)
AppendWithoutEnvelope(trace, seq, type) ==
    /\ CanAppend(trace, seq)
    /\ audit' = audit \cup {Event(trace, seq, type)}
    /\ UNCHANGED outbox

(* append_audit_event_in_tx followed by enqueue_outbox_in_tx.              *)
AppendAndEnqueue(trace, seq, type) ==
    /\ CanAppend(trace, seq)
    /\ audit' = audit \cup {Event(trace, seq, type)}
    /\ outbox' = outbox \cup {Event(trace, seq, type)}

HasEvent(trace, seq, type) == Event(trace, seq, type) \in audit
=============================================================================
