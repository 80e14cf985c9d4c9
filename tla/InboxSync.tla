------------------------------ MODULE InboxSync ------------------------------
(***************************************************************************)
(* The review inbox as a device sees it.  A snapshot is put together from  *)
(* two reads outside any transaction, first the page of items and then the *)
(* actions of the page; ReviewInboxViewModel shows the last snapshot it    *)
(* applied and submits a decision with the sync cursor of the item shown.  *)
(* Loads and decisions of one device overlap, the answers arrive in any    *)
(* order or not at all, and meanwhile ingest and the other devices of the  *)
(* user change the items.  Evidence and ledger events only add text to a   *)
(* snapshot and are left out.                                              *)
(***************************************************************************)
EXTENDS ReviewDecision

CONSTANTS
    SnapshotLimit,  \* DEFAULT_SNAPSHOT_LIMIT: items on the page
    SortKey,        \* sort_key of an item, by action and source cursor
    Approvable,     \* actions the client shows as a progress update
    MaxSourceOf,    \* bound on the source cursors ingest delivers for an action
    MaxLoads        \* bound on the loads each device starts

ASSUME SnapshotLimitAssumption == SnapshotLimit \in Nat \ {0}
ASSUME SortKeyAssumption == SortKey \in [ProposedActions -> [0 .. MaxSource -> Nat]]
ASSUME MaxSourceOfAssumption == MaxSourceOf \in [ProposedActions -> 0 .. MaxSource]
ASSUME MaxLoadsAssumption == MaxLoads \in [Devices -> Nat]

VARIABLES
    shown,    \* the snapshot a device displays
    latest,   \* latestLoadRequestID of a device
    loading,  \* loadState = .loading
    command,  \* the decision a device is submitting
    reads     \* snapshots the server is reading, or whose answer is on its way

clientVars == <<shown, latest, loading, command>>
syncVars == <<reviewVars, clientVars, reads>>

-----------------------------------------------------------------------------
Gates == {None, "pending", "approved", "rejected"}
NoItems == [p \in ProposedActions |-> NoItem]
NoGates == [p \in ProposedActions |-> None]
NoCommand == [action |-> None, kind |-> None, item |-> NoItem, phase |-> None]
OfDecision == 0  \* the read that answers a decision; loads count from 1

SyncInit ==
    /\ ReviewInit
    /\ shown = [d \in Devices |-> [items |-> NoItems, gates |-> NoGates, by |-> None]]
    /\ latest = [d \in Devices |-> 0]
    /\ loading = [d \in Devices |-> FALSE]
    /\ command = [d \in Devices |-> NoCommand]
    /\ reads = {}

-----------------------------------------------------------------------------
(* LIST_REVIEW_INBOX_ITEMS after cursor 0: the first items by sort key,    *)
(* finished ones included.                                                 *)
KeyOf(u, p) == SortKey[p][items[u][p].source]
Page(u) ==
    LET present == { p \in ProposedActions : items[u][p].status # None } IN
    { p \in present :
        Cardinality({ q \in present : KeyOf(u, q) > KeyOf(u, p) }) < SnapshotLimit }

(* The gate the client derives from the decision joined to the action.     *)
displayGateState(p) ==
    CASE decisions[p].kind \in ConfirmKinds -> "approved"
      [] decisions[p].kind = "reject"       -> "rejected"
      [] OTHER                              -> "pending"

ListItems(u) == [p \in ProposedActions |-> IF p \in Page(u) THEN items[u][p] ELSE NoItem]

(* LIST_REVIEW_INBOX_ACTIONS_FOR_SNAPSHOT selects the page anew.           *)
ListActions(u) ==
    [p \in ProposedActions |-> IF p \in Page(u) THEN displayGateState(p) ELSE None]

SnapshotRead(d, id) == [dev |-> d, id |-> id, stage |-> "items",
                        items |-> NoItems, gates |-> NoGates]

(* load_review_inbox_snapshot_from_pool, first query; an empty page ends   *)
(* the read.                                                               *)
ReadItems(r) ==
    /\ r.stage = "items"
    /\ reads' = (reads \ {r}) \cup {[r EXCEPT
          !.items = ListItems(UserOf[r.dev]),
          !.stage = IF Page(UserOf[r.dev]) = {} THEN "done" ELSE "actions"]}
    /\ UNCHANGED <<reviewVars, clientVars>>

ReadActions(r) ==
    /\ r.stage = "actions"
    /\ reads' = (reads \ {r}) \cup {[r EXCEPT
          !.gates = ListActions(UserOf[r.dev]), !.stage = "done"]}
    /\ UNCHANGED <<reviewVars, clientVars>>

-----------------------------------------------------------------------------
(* load: a forced load starts although another is under way.               *)
Load(d, force) ==
    /\ force \/ ~ loading[d]
    /\ latest[d] < MaxLoads[d]
    /\ latest' = [latest EXCEPT ![d] = @ + 1]
    /\ loading' = [loading EXCEPT ![d] = TRUE]
    /\ reads' = reads \cup {SnapshotRead(d, latest[d] + 1)}
    /\ UNCHANGED <<reviewVars, shown, command>>

applySnapshot(r) ==
    shown' = [shown EXCEPT ![r.dev] =
        [items |-> r.items, gates |-> r.gates,
         by |-> IF r.id = OfDecision THEN "decision" ELSE "load"]]

(* Mutant: whichever load answers last is shown.                           *)
IsCurrentLoadAlways(r) == TRUE

IsCurrentLoad(r) == r.id = latest[r.dev]

LoadAnswered(r) ==
    /\ r.id # OfDecision
    /\ r.stage = "done"
    /\ reads' = reads \ {r}
    /\ IF IsCurrentLoad(r)
       THEN applySnapshot(r) /\ loading' = [loading EXCEPT ![r.dev] = FALSE]
       ELSE UNCHANGED <<shown, loading>>
    /\ UNCHANGED <<reviewVars, latest, command>>

LoadFailed(r) ==
    /\ r.id # OfDecision
    /\ reads' = reads \ {r}
    /\ loading' = [loading EXCEPT ![r.dev] = @ /\ ~ IsCurrentLoad(r)]
    /\ UNCHANGED <<reviewVars, shown, latest, command>>

-----------------------------------------------------------------------------
(* approveSelectedAction and rejectSelectedAction, on any item the user    *)
(* may select: the buttons want a pending gate and no submission under way.*)
Submit(d, p, kind) ==
    /\ command[d] = NoCommand
    /\ shown[d].items[p] # NoItem
    /\ shown[d].gates[p] = "pending"
    /\ kind = "confirm" => p \in Approvable
    /\ command' = [command EXCEPT ![d] =
          [action |-> p, kind |-> kind, item |-> shown[d].items[p], phase |-> "sent"]]
    /\ UNCHANGED <<reviewVars, shown, latest, loading, reads>>

SubmissionEnds(d) == command' = [command EXCEPT ![d] = NoCommand]
SubmissionIs(d, phase) == command' = [command EXCEPT ![d].phase = phase]

(* Mutant: the item is looked up without the cursor of the request.        *)
CursorIgnored(c, u) == TRUE

(* LOAD_REVIEW_DECISION_ITEM and the queries after it match the version    *)
(* and the cursor that the request carries.                                *)
CursorExpected(c, u) == items[u][c.action].cursor = c.item.cursor

DecisionArrives(d) ==
    /\ command[d].phase = "sent"
    /\ CursorExpected(command[d], UserOf[d])
    /\ LoadDecisionContext(d, command[d].action, command[d].kind, None)
    /\ SubmissionIs(d, "loaded")
    /\ UNCHANGED <<shown, latest, loading, reads>>

(* 409 and 422: the client reports the error and keeps what it shows.      *)
DecisionRefused(d) ==
    LET c == command[d] IN
    /\ c.phase = "sent"
    /\ \/ ~ CursorExpected(c, UserOf[d])
       \/ items[UserOf[d]][c.action].status # "open"
       \/ decisions[c.action].kind # None
       \/ c.kind \in ConfirmKinds /\ c.action \notin Confirmable
    /\ SubmissionEnds(d)
    /\ UNCHANGED <<reviewVars, shown, latest, loading, reads>>

(* The request does not reach the server.                                  *)
DecisionLost(d) ==
    /\ command[d].phase = "sent"
    /\ SubmissionEnds(d)
    /\ UNCHANGED <<reviewVars, shown, latest, loading, reads>>

(* A recorded decision is answered with a snapshot read after the commit.  *)
DecisionRecorded(d) ==
    /\ command[d].phase = "loaded"
    /\ RecordDecision(d) \/ RecordDuplicate(d)
    /\ SubmissionIs(d, "recorded")
    /\ reads' = reads \cup {SnapshotRead(d, OfDecision)}
    /\ UNCHANGED <<shown, latest, loading>>

DecisionNotRecorded(d) ==
    /\ command[d].phase = "loaded"
    /\ RecordConflict(d) \/ RequestLost(d)
    /\ SubmissionEnds(d)
    /\ UNCHANGED <<shown, latest, loading, reads>>

DecisionAnswered(r) ==
    /\ r.id = OfDecision
    /\ r.stage = "done"
    /\ reads' = reads \ {r}
    /\ applySnapshot(r)
    /\ SubmissionEnds(r.dev)
    /\ UNCHANGED <<reviewVars, latest, loading>>

(* The decision stands, but its snapshot cannot be read or does not arrive.*)
AnswerLost(r) ==
    /\ r.id = OfDecision
    /\ reads' = reads \ {r}
    /\ SubmissionEnds(r.dev)
    /\ UNCHANGED <<reviewVars, shown, latest, loading>>

-----------------------------------------------------------------------------
Ingest ==
    /\ \E u \in Users, p \in ProposedActions : \E source \in 1 .. MaxSourceOf[p] :
          UpsertReviewInboxItem(u, p, source)
    /\ UNCHANGED <<clientVars, reads>>

SyncNext ==
    \/ Ingest
    \/ \E d \in Devices : \/ \E force \in BOOLEAN : Load(d, force)
                          \/ \E p \in ProposedActions, kind \in {"confirm", "reject"} :
                                Submit(d, p, kind)
                          \/ DecisionArrives(d) \/ DecisionRefused(d) \/ DecisionLost(d)
                          \/ DecisionRecorded(d) \/ DecisionNotRecorded(d)
    \/ \E r \in reads : \/ ReadItems(r) \/ ReadActions(r)
                        \/ LoadAnswered(r) \/ LoadFailed(r)
                        \/ DecisionAnswered(r) \/ AnswerLost(r)

SyncSpec == SyncInit /\ [][SyncNext]_syncVars

-----------------------------------------------------------------------------
(* A decision enters the store only as the click of a user whose device    *)
(* was showing the item exactly as the transaction finds it: same risk,    *)
(* same status, same cursor.  Everything in between is asynchronous: the   *)
(* two reads of the snapshot, its answer, the click, the route's own read  *)
(* of the item, and the transaction.                                       *)
DecidedAsShown ==
    [][\A p \in ProposedActions : decisions'[p] # decisions[p] =>
          \E d \in Devices : /\ command[d].action = p
                             /\ command[d].kind = decisions'[p].kind
                             /\ UserOf[d] = decisions'[p].actor
                             /\ command[d].item = items[UserOf[d]][p] ]_syncVars

(* Loads of one device overlap and are answered in any order, yet a load   *)
(* never takes an item that an earlier load put on the screen back to an   *)
(* older version.                                                          *)
LoadsNeverGoBack ==
    [][\A d \in Devices, p \in ProposedActions :
          /\ shown[d].by = "load" /\ shown'[d].by = "load"
          /\ NoItem \notin {shown[d].items[p], shown'[d].items[p]}
          => shown'[d].items[p].cursor >= shown[d].items[p].cursor ]_syncVars
=============================================================================
