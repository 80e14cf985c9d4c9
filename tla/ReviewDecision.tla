--------------------------- MODULE ReviewDecision ---------------------------
(***************************************************************************)
(* Deciding review inbox items.  A device posts a decision with the sync   *)
(* cursor it last saw; record_decision_for_context first reads the item    *)
(* and the action outside any transaction, and later the recorder inserts  *)
(* the decision, submits the confirmed action, moves the item and writes   *)
(* the audit event in one transaction.  Between the two, other devices of  *)
(* the same user, other users with the same action in their inbox and the  *)
(* ingest of newer items run.                                              *)
(***************************************************************************)
EXTENDS OarStore

CONSTANTS
    Devices,      \* a device has at most one request under way
    UserOf,       \* the signed-in user of a device
    ActorOf,      \* proposed_actions.actor_user_id
    Confirmable,  \* actions of the one kind that may be confirmed
    Payloads,     \* edited payloads
    MaxSource     \* bound on the source cursors that ingest delivers

ASSUME UserOfAssumption == UserOf \in [Devices -> Users]
ASSUME ActorOfAssumption == ActorOf \in [ProposedActions -> Users]
ASSUME ConfirmableAssumption == Confirmable \subseteq ProposedActions
ASSUME MaxSourceAssumption == MaxSource \in Nat

VARIABLES
    requests,  \* the decision request of a device, with what it has read
    acks       \* decisions answered with success, by device

decisionVars == <<requests, acks>>

-----------------------------------------------------------------------------
Decision == [actor : Users \cup {None}, kind : DecisionKinds \cup {None},
             payload : Payloads \cup {None}]
NoRequest == [action |-> None, decision |-> NoDecision, cursor |-> 0]
Busy(d) == requests[d] # NoRequest

DecisionInit ==
    /\ requests = [d \in Devices |-> NoRequest]
    /\ acks = {}

(* UPSERT_REVIEW_INBOX_ITEM of a newly derived, open item.  It overwrites  *)
(* every item that is older at the source and not in a final state.        *)
UpsertMatches(u, p, source) ==
    /\ items[u][p].source < source
    /\ items[u][p].status \notin TerminalItemStatus

UpsertReviewInboxItem(u, p, source) ==
    /\ UpsertMatches(u, p, source)
    /\ cursorSeq' = cursorSeq + 1
    /\ items' = [items EXCEPT ![u][p] =
          [status |-> "open", ledger_status |-> None, op |-> NoKey, source |-> source,
           cursor |-> LET own == NextCursor(cursorSeq + 1, @.cursor)
                      IN  IF source > own THEN source ELSE own]]
    /\ UNCHANGED <<ledger, created, decisions, audit, outbox, decisionVars>>

(* The payload a request of each kind carries.                             *)
PayloadsFor(kind) == IF kind = "edit_then_confirm" THEN Payloads ELSE {None}

(* load_review_decision_context and the checks on what it read.  A request *)
(* that fails one of them is answered with an error and changes nothing.   *)
LoadDecisionContext(d, p, kind, payload) ==
    LET u == UserOf[d] IN
    /\ ~ Busy(d)
    /\ payload \in PayloadsFor(kind)
    /\ items[u][p].status = "open"
    /\ decisions[p].kind = None
    /\ kind \in ConfirmKinds => p \in Confirmable
    /\ requests' = [requests EXCEPT ![d] =
          [action |-> p,
           decision |-> [actor |-> u, kind |-> kind, payload |-> payload],
           cursor |-> items[u][p].cursor]]
    /\ UNCHANGED <<acks, storeVars>>

-----------------------------------------------------------------------------
(* Mutant: whoever has the action in the inbox may confirm it.             *)
ActorUnbound(r) == TRUE

(* validate_review_decision_request: the confirmed action acts for the     *)
(* proposed action's actor, so nobody else may confirm it.                 *)
ActorBound(r) == r.decision.kind \in ConfirmKinds => ActorOf[r.action] = r.decision.actor

(* UPDATE_REVIEW_INBOX_DECISION_STATE compares the cursor and the status.  *)
ItemUnchanged(r) ==
    LET item == items[r.decision.actor][r.action] IN
    item.cursor = r.cursor /\ item.status = "open"

(* Mutant: the update is not scoped to the item of the deciding user.      *)
UpdateDecisionStateOfAll(r) ==
    LET confirmed == r.decision.kind \in ConfirmKinds IN
    /\ cursorSeq' = cursorSeq + 1
    /\ items' = [u \in Users |-> [items[u] EXCEPT ![r.action] =
          [@ EXCEPT !.status = IF confirmed THEN "confirmed" ELSE "rejected",
                    !.cursor = NextCursor(cursorSeq + 1, @)]]]

DecidedItem(r) ==
    LET confirmed == r.decision.kind \in ConfirmKinds IN
    [items[r.decision.actor][r.action] EXCEPT
        !.status = IF confirmed THEN "confirmed" ELSE "rejected",
        !.ledger_status = IF confirmed THEN "confirmed" ELSE @,
        !.op = IF confirmed THEN <<r.action, r.decision.kind>> ELSE @,
        !.cursor = NextCursor(cursorSeq + 1, @)]

UpdateDecisionState(r) ==
    /\ cursorSeq' = cursorSeq + 1
    /\ items' = [items EXCEPT ![r.decision.actor][r.action] = DecidedItem(r)]

Answer(d, ok) ==
    /\ requests' = [requests EXCEPT ![d] = NoRequest]
    /\ acks' = IF ok
               THEN acks \cup {[action |-> requests[d].action, decision |-> requests[d].decision]}
               ELSE acks

(* record_decision: the first decision of an action commits.               *)
RecordDecision(d) ==
    LET r == requests[d] IN
    /\ Busy(d)
    /\ ActorBound(r)
    /\ decisions[r.action].kind = None
    /\ ItemUnchanged(r)
    /\ decisions' = [decisions EXCEPT ![r.action] = r.decision]
    /\ IF r.decision.kind \in ConfirmKinds
       THEN SubmitConfirmedAction(<<r.action, r.decision.kind>>)
       ELSE UNCHANGED <<ledger, created>>
    /\ UpdateDecisionState(r)
    /\ AppendAndEnqueue(DecisionTrace(r.action, r.decision.kind), 1, "decision")
    /\ Answer(d, TRUE)

(* Mutant: any recorded decision counts as the same one.                   *)
RecordDuplicateOfAny(d) ==
    LET r == requests[d] IN
    /\ Busy(d)
    /\ ActorBound(r)
    /\ decisions[r.action].kind # None
    /\ Answer(d, TRUE)
    /\ UNCHANGED storeVars

(* The same decision is already there: a success that changes nothing.     *)
RecordDuplicate(d) ==
    LET r == requests[d] IN
    /\ Busy(d)
    /\ ActorBound(r)
    /\ decisions[r.action] = r.decision
    /\ Answer(d, TRUE)
    /\ UNCHANGED storeVars

(* Another decision is there, the actor may not confirm, or the item moved *)
(* on: the transaction rolls back and the answer is a conflict.            *)
RecordConflict(d) ==
    LET r == requests[d] IN
    /\ Busy(d)
    /\ \/ ~ ActorBound(r)
       \/ decisions[r.action].kind # None /\ decisions[r.action] # r.decision
       \/ decisions[r.action].kind = None /\ ~ ItemUnchanged(r)
    /\ Answer(d, FALSE)
    /\ UNCHANGED storeVars

(* The request dies with its server before the commit.                     *)
RequestLost(d) ==
    /\ Busy(d)
    /\ requests' = [requests EXCEPT ![d] = NoRequest]
    /\ UNCHANGED <<acks, storeVars>>

DecideStep(d) == RecordDecision(d) \/ RecordDuplicate(d) \/ RecordConflict(d)

DecisionNext ==
    \/ \E u \in Users, p \in ProposedActions, source \in 1 .. MaxSource :
          UpsertReviewInboxItem(u, p, source)
    \/ \E d \in Devices : DecideStep(d) \/ RequestLost(d)
    \/ \E d \in Devices, p \in ProposedActions, kind \in DecisionKinds :
          \E payload \in PayloadsFor(kind) : LoadDecisionContext(d, p, kind, payload)

reviewVars == <<storeVars, decisionVars>>
ReviewInit == StoreInit /\ DecisionInit
ReviewSpec == ReviewInit /\ [][DecisionNext]_reviewVars

-----------------------------------------------------------------------------
(* The values every variable ranges over.                                  *)
ReviewTypeOK ==
    /\ ledger \in [Keys -> LedgerStatus]
    /\ created \in [Keys -> Nat]
    /\ decisions \in [ProposedActions -> Decision]
    /\ items \in [Users -> [ProposedActions -> Item]]
    /\ cursorSeq \in Nat
    /\ audit \subseteq Events
    /\ outbox \subseteq audit
    /\ requests \in [Devices -> [action : ProposedActions \cup {None},
                                 decision : Decision, cursor : Nat]]
    /\ acks \subseteq [action : ProposedActions, decision : Decision]

(* A device that was told its decision succeeded sees that decision stand, *)
(* also when two devices raced and the loser was answered as a duplicate.  *)
AckedDecisionIsRecorded == \A a \in acks : decisions[a.action] = a.decision

(* Nothing enters the ledger but what the action's own actor confirmed,    *)
(* and with the kind of confirmation that stands: a confirm and an         *)
(* edit-then-confirm of one action never both get an operation.            *)
LedgerRowIsConfirmedByActor ==
    \A k \in Keys : ledger[k] # None =>
        decisions[k[1]].kind = k[2] /\ decisions[k[1]].actor = ActorOf[k[1]]

(* An item leaves 'open' only for the decision of its own user; the items  *)
(* other users hold for the same action are not touched.                   *)
ItemDecidedByItsUser ==
    \A u \in Users, p \in ProposedActions :
        /\ items[u][p].status = "rejected" =>
              decisions[p].kind = "reject" /\ decisions[p].actor = u
        /\ items[u][p].op # NoKey =>
              items[u][p].op = <<p, decisions[p].kind>> /\ decisions[p].actor = u

(* Every recorded decision has its event and envelope, and no decision     *)
(* that was rolled back leaves one behind.                                 *)
DecisionMatchesAudit ==
    \A p \in ProposedActions, kind \in DecisionKinds :
        /\ decisions[p].kind = kind <=> HasEvent(DecisionTrace(p, kind), 1, "decision")
        /\ HasEvent(DecisionTrace(p, kind), 1, "decision") =>
              Event(DecisionTrace(p, kind), 1, "decision") \in outbox

(* Types, and who decided what: ledger rows and items agree with the one   *)
(* decision that stands.                                                   *)
ReviewInv == ReviewTypeOK /\ LedgerRowIsConfirmedByActor /\ ItemDecidedByItsUser

(* Clients pull items whose cursor passed the last one they saw: a step    *)
(* that changes an item, a projection of the ledger included, always       *)
(* raises its cursor, and no decision that was taken is ever replaced.     *)
ChangesAreVisible ==
    [][ /\ \A u \in Users, p \in ProposedActions :
              items'[u][p] # items[u][p] => items'[u][p].cursor > items[u][p].cursor
        /\ \A p \in ProposedActions :
              decisions[p].kind # None => decisions'[p] = decisions[p] ]_reviewVars
=============================================================================
