---------------------------- MODULE ReviewProofs ----------------------------
(***************************************************************************)
(* Theorems about ReviewPipeline and InboxSync, for any number of users,   *)
(* devices, actions, workers and faults.                                   *)
(*                                                                         *)
(* The decision recorder and the executor write the same tables.  What the *)
(* recorder keeps (ReviewInd) is stated over the tables and the requests   *)
(* alone, so that it serves both specifications: ReviewPipeline adds the   *)
(* executor's own invariant and that a worker only holds keys with a row   *)
(* (WorkersHoldRows); InboxSync adds that every copy of an item that is on *)
(* its way to a device or back is a version the item had (IsVersion).      *)
(***************************************************************************)
EXTENDS ReviewPipeline, InboxSync, ActionExecutionProofs

(* A request under way is a decision of the device's own user.             *)
RequestsAreDecisions ==
    \A d \in Devices : Busy(d) =>
        /\ requests[d].action \in ProposedActions
        /\ requests[d].decision.kind \in DecisionKinds
        /\ requests[d].decision.actor = UserOf[d]

AcksAreDecisions == \A a \in acks : a.decision.kind \in DecisionKinds

(* What the recorder keeps, with or without workers.                       *)
ReviewInd ==
    /\ ReviewTypeOK
    /\ LedgerRowIsConfirmedByActor
    /\ ItemDecidedByItsUser
    /\ AckedDecisionIsRecorded
    /\ DecisionMatchesAudit
    /\ LinkedItemFollowsLedger
    /\ RequestsAreDecisions
    /\ AcksAreDecisions

(* Workers are handed only keys that the recorder submitted.               *)
WorkersHoldRows ==
    \A w \in Workers : /\ pc[w] # "idle" => ledger[cur[w]] # None
                       /\ \A k \in batch[w] : ledger[k] # None

PipelineInd == ExecutionInv /\ ReviewInd /\ WorkersHoldRows

-----------------------------------------------------------------------------
(* A copy of an item is a version it had: the same one if the cursors are  *)
(* the same, an older one otherwise.                                       *)
IsVersion(item, row) ==
    item # NoItem => /\ item.cursor <= row.cursor
                     /\ item.cursor = row.cursor => item = row

Read == [dev : Devices, id : Nat, stage : {"items", "actions", "done"},
         items : [ProposedActions -> Item], gates : [ProposedActions -> Gates]]

SyncTypeOK ==
    /\ shown \in [Devices -> [items : [ProposedActions -> Item], gates : [ProposedActions -> Gates],
                              by : {None, "load", "decision"}]]
    /\ latest \in [Devices -> Nat]
    /\ command \in [Devices -> [action : ProposedActions \cup {None}, kind : {None, "confirm", "reject"},
                                item : Item, phase : {None, "sent", "loaded", "recorded"}]]
    /\ reads \subseteq Read

(* What is shown, submitted or being read.                                 *)
CopiesAreVersions ==
    /\ \A d \in Devices, p \in ProposedActions : IsVersion(shown[d].items[p], items[UserOf[d]][p])
    /\ \A r \in reads, p \in ProposedActions : IsVersion(r.items[p], items[UserOf[r.dev]][p])
    /\ \A d \in Devices : command[d].phase # None =>
          /\ command[d].action \in ProposedActions
          /\ command[d].kind \in {"confirm", "reject"}
          /\ command[d].item # NoItem
          /\ IsVersion(command[d].item, items[UserOf[d]][command[d].action])

(* The request the server works on is the one the device submitted, and a  *)
(* device waits for the snapshot that answers its decision.                *)
RequestIsCommand ==
    \A d \in Devices :
        /\ Busy(d) => command[d].phase = "loaded"
        /\ command[d].phase = "loaded" =>
              /\ requests[d].action = command[d].action
              /\ requests[d].decision.kind = command[d].kind
              /\ requests[d].decision.actor = UserOf[d]
              /\ requests[d].cursor = command[d].item.cursor
        /\ \A r \in reads : r.dev = d /\ r.id = OfDecision => command[d].phase = "recorded"

(* A snapshot is read once, and the latest load of a device is read after  *)
(* the load it shows.                                                      *)
LoadsAreOrdered ==
    /\ \A r \in reads : r.id <= latest[r.dev]
    /\ \A r, s \in reads : r.dev = s.dev /\ r.id = s.id => r = s
    /\ \A r \in reads : r.id # OfDecision /\ r.id = latest[r.dev] /\ shown[r.dev].by = "load" =>
          \A p \in ProposedActions :
              NoItem \notin {shown[r.dev].items[p], r.items[p]} =>
                  r.items[p].cursor >= shown[r.dev].items[p].cursor

SyncInd ==
    /\ ReviewInd
    /\ SyncTypeOK
    /\ CopiesAreVersions
    /\ RequestIsCommand
    /\ LoadsAreOrdered

-----------------------------------------------------------------------------
(* A cursor that NextCursor gives out is ahead of the one it replaces.     *)
LEMMA CursorGrows ==
    ASSUME NEW seq \in Nat, NEW cursor \in Nat
    PROVE  NextCursor(seq, cursor) \in Nat /\ NextCursor(seq, cursor) > cursor
BY DEF NextCursor

(* The keys of an action, and an operation id that is none of them.        *)
LEMMA KeyShape ==
    /\ \A k \in Keys : k = <<k[1], k[2]>> /\ k[1] \in ProposedActions /\ k[2] \in ConfirmKinds
    /\ \A p \in ProposedActions, kind \in ConfirmKinds :
          <<p, kind>> \in Keys /\ <<p, kind>>[1] = p /\ <<p, kind>>[2] = kind
    /\ \A p \in ProposedActions : <<p, None>> \notin Keys /\ <<p, "reject">> \notin Keys
    /\ NoKey \notin Keys
BY DEF Keys, ConfirmKinds, None, NoKey

(* Decisions of different actions, or of different kinds, have different   *)
(* traces.                                                                 *)
LEMMA DecisionTracesDiffer ==
    ASSUME NEW p, NEW q, NEW j, NEW kind, DecisionTrace(p, j) = DecisionTrace(q, kind)
    PROVE  p = q /\ j = kind
BY DEF DecisionTrace

(* Nothing in the tables is about an action that is not decided.           *)
LEMMA UndecidedIsUntouched ==
    ASSUME ReviewInd, NEW p \in ProposedActions, decisions[p].kind = None
    PROVE  /\ \A k \in Keys : k[1] = p => ledger[k] = None
           /\ \A u \in Users : items[u][p].op = NoKey /\ items[u][p].status # "rejected"
           /\ \A kind \in DecisionKinds : ~ HasEvent(DecisionTrace(p, kind), 1, "decision")
           /\ \A a \in acks : a.action # p
<1> USE DEF ReviewInd
<1>1. \A k \in Keys : k[1] = p => ledger[k] = None
  BY KeyShape DEF LedgerRowIsConfirmedByActor, ConfirmKinds, None
<1>2. ASSUME NEW u \in Users PROVE items[u][p].op = NoKey /\ items[u][p].status # "rejected"
  <2>1. items[u][p] \in Item
    BY DEF ReviewTypeOK
  <2>2. items[u][p].op \in Keys \cup {NoKey}
    BY <2>1 DEF Item
  <2>3. items[u][p].op # NoKey => items[u][p].op = <<p, None>>
    BY DEF ItemDecidedByItsUser
  <2>4. items[u][p].op = NoKey
    BY <2>2, <2>3, KeyShape, ZenonT(60)
  <2>5. items[u][p].status # "rejected"
    BY DEF ItemDecidedByItsUser, None
  <2> QED BY <2>4, <2>5
<1>3. \A kind \in DecisionKinds : ~ HasEvent(DecisionTrace(p, kind), 1, "decision")
  BY DEF DecisionMatchesAudit, DecisionKinds, ConfirmKinds, None
<1>4. \A a \in acks : a.action # p
  BY DEF AckedDecisionIsRecorded, AcksAreDecisions, DecisionKinds, ConfirmKinds, None
<1> QED BY <1>1, <1>2, <1>3, <1>4

(* The empty tables are good.                                              *)
LEMMA ReviewInitInd == ReviewInit => ReviewInd
<1> SUFFICES ASSUME ReviewInit PROVE ReviewInd
  OBVIOUS
<1> USE DEF ReviewInit, StoreInit, DecisionInit
<1>1. NoItem \in Item /\ NoDecision \in Decision /\ NoRequest.decision \in Decision
  BY DEF NoItem, Item, ItemStatus, LedgerStatus, NoDecision, Decision, NoRequest, None
<1>2. ReviewTypeOK
  BY <1>1 DEF ReviewTypeOK, LedgerStatus, NoRequest, None
<1>3. LedgerRowIsConfirmedByActor /\ ItemDecidedByItsUser /\ LinkedItemFollowsLedger
  BY DEF LedgerRowIsConfirmedByActor, ItemDecidedByItsUser, LinkedItemFollowsLedger, NoItem, None
<1>4. AckedDecisionIsRecorded /\ RequestsAreDecisions /\ AcksAreDecisions
  BY DEF AckedDecisionIsRecorded, RequestsAreDecisions, AcksAreDecisions, Busy
<1>5. DecisionMatchesAudit
  BY DEF DecisionMatchesAudit, HasEvent, NoDecision, DecisionKinds, ConfirmKinds, None
<1> QED BY <1>2, <1>3, <1>4, <1>5 DEF ReviewInd

(* Steps that leave the tables alone.                                      *)
LEMMA TablesStand ==
    ASSUME ReviewInd, UNCHANGED storeVars,
           requests' \in [Devices -> [action : ProposedActions \cup {None}, decision : Decision, cursor : Nat]],
           RequestsAreDecisions',
           \A a \in acks' \ acks : /\ a \in [action : ProposedActions, decision : Decision]
                                   /\ a.decision.kind \in DecisionKinds
                                   /\ decisions[a.action] = a.decision
    PROVE  ReviewInd'
<1> USE DEF ReviewInd, storeVars
<1>1. ReviewTypeOK'
  BY DEF ReviewTypeOK
<1>2. LedgerRowIsConfirmedByActor' /\ ItemDecidedByItsUser' /\ LinkedItemFollowsLedger' /\ DecisionMatchesAudit'
  BY DEF LedgerRowIsConfirmedByActor, ItemDecidedByItsUser, LinkedItemFollowsLedger,
         DecisionMatchesAudit, HasEvent
<1>3. AckedDecisionIsRecorded' /\ AcksAreDecisions'
  BY DEF AckedDecisionIsRecorded, AcksAreDecisions
<1> QED BY <1>1, <1>2, <1>3

(* A request that ends leaves the others as they were.                     *)
LEMMA RequestEnds ==
    ASSUME ReviewInd, NEW d \in Devices, requests' = [requests EXCEPT ![d] = NoRequest]
    PROVE  /\ requests' \in [Devices -> [action : ProposedActions \cup {None}, decision : Decision, cursor : Nat]]
           /\ RequestsAreDecisions'
<1>1. NoRequest \in [action : ProposedActions \cup {None}, decision : Decision, cursor : Nat]
  BY DEF NoRequest, NoDecision, Decision, None
<1> QED BY <1>1 DEF ReviewInd, ReviewTypeOK, RequestsAreDecisions, Busy

(* LoadDecisionContext only reads.                                         *)
LEMMA LoadContextInd ==
    ASSUME ReviewInd, NEW d \in Devices, NEW p \in ProposedActions, NEW kind \in DecisionKinds,
           NEW payload \in PayloadsFor(kind), LoadDecisionContext(d, p, kind, payload)
    PROVE  ReviewInd'
<1> DEFINE u == UserOf[d]
           r == [action |-> p, decision |-> [actor |-> u, kind |-> kind, payload |-> payload],
                 cursor |-> items[u][p].cursor]
<1>1. requests' = [requests EXCEPT ![d] = r] /\ UNCHANGED <<acks, storeVars>>
  BY DEF LoadDecisionContext
<1>2. u \in Users /\ payload \in Payloads \cup {None}
  BY UserOfAssumption DEF PayloadsFor
<1>3. items[u][p].cursor \in Nat
  BY <1>2 DEF ReviewInd, ReviewTypeOK, Item
<1>4. r \in [action : ProposedActions \cup {None}, decision : Decision, cursor : Nat]
  BY <1>2, <1>3 DEF Decision
<1>5. requests' \in [Devices -> [action : ProposedActions \cup {None}, decision : Decision, cursor : Nat]]
  BY <1>1, <1>4 DEF ReviewInd, ReviewTypeOK
<1>6. RequestsAreDecisions'
  BY <1>1 DEF ReviewInd, ReviewTypeOK, RequestsAreDecisions, Busy
<1> QED BY <1>1, <1>5, <1>6, TablesStand

(* RecordDuplicate, RecordConflict and a lost request write nothing.       *)
LEMMA UnrecordedInd ==
    ASSUME ReviewInd, NEW d \in Devices, RecordDuplicate(d) \/ RecordConflict(d) \/ RequestLost(d)
    PROVE  ReviewInd'
<1>1. /\ Busy(d)
      /\ requests' = [requests EXCEPT ![d] = NoRequest]
      /\ UNCHANGED storeVars
      /\ \A a \in acks' \ acks : /\ a = [action |-> requests[d].action, decision |-> requests[d].decision]
                                 /\ decisions[requests[d].action] = requests[d].decision
  BY DEF RecordDuplicate, RecordConflict, RequestLost, Answer
<1>2. /\ requests[d].action \in ProposedActions /\ requests[d].decision.kind \in DecisionKinds
      /\ requests[d].decision \in Decision
  BY <1>1 DEF ReviewInd, ReviewTypeOK, RequestsAreDecisions
<1>3. \A a \in acks' \ acks : /\ a \in [action : ProposedActions, decision : Decision]
                              /\ a.decision.kind \in DecisionKinds
                              /\ decisions[a.action] = a.decision
  BY <1>1, <1>2
<1> QED BY <1>1, <1>3, RequestEnds, TablesStand

(* An ingested item replaces one that is linked to nothing final, and the  *)
(* new one is linked to nothing.                                           *)
LEMMA UpsertInd ==
    ASSUME ReviewInd, NEW u \in Users, NEW p \in ProposedActions, NEW source \in Nat,
           UpsertReviewInboxItem(u, p, source)
    PROVE  ReviewInd' /\ items'[u][p].cursor > items[u][p].cursor
<1> DEFINE own == NextCursor(cursorSeq + 1, items[u][p].cursor)
           at == IF source > own THEN source ELSE own
           new == [status |-> "open", ledger_status |-> None, op |-> NoKey, source |-> source, cursor |-> at]
<1>1. /\ cursorSeq' = cursorSeq + 1
      /\ items' = [items EXCEPT ![u][p] = new]
      /\ UNCHANGED <<ledger, created, decisions, audit, outbox, decisionVars>>
  BY DEF UpsertReviewInboxItem
<1>2. cursorSeq \in Nat /\ items \in [Users -> [ProposedActions -> Item]] /\ items[u][p].cursor \in Nat
  BY DEF ReviewInd, ReviewTypeOK, Item
<1>3. own \in Nat /\ own > items[u][p].cursor
  <2>1. cursorSeq + 1 \in Nat
    BY <1>2
  <2> QED BY <1>2, <2>1, CursorGrows
<1> HIDE DEF own
<1>4. at \in Nat /\ at > items[u][p].cursor
  BY <1>2, <1>3
<1> HIDE DEF at
<1>5. new \in Item
  BY <1>4 DEF Item, ItemStatus, LedgerStatus, None
<1>6. /\ items' \in [Users -> [ProposedActions -> Item]]
      /\ items'[u][p] = new
      /\ \A v \in Users, q \in ProposedActions : <<v, q>> # <<u, p>> => items'[v][q] = items[v][q]
  BY <1>1, <1>2, <1>5
<1>7. ReviewTypeOK'
  BY <1>1, <1>2, <1>6 DEF ReviewInd, ReviewTypeOK, decisionVars
<1>8. LedgerRowIsConfirmedByActor' /\ AckedDecisionIsRecorded' /\ AcksAreDecisions' /\ RequestsAreDecisions'
  BY <1>1 DEF ReviewInd, LedgerRowIsConfirmedByActor, AckedDecisionIsRecorded, AcksAreDecisions,
              RequestsAreDecisions, Busy, decisionVars
<1>9. DecisionMatchesAudit'
  BY <1>1 DEF ReviewInd, DecisionMatchesAudit, HasEvent
<1>10. ASSUME NEW v \in Users, NEW q \in ProposedActions
       PROVE  \/ items'[v][q] = items[v][q]
              \/ items'[v][q].op = NoKey /\ items'[v][q].status = "open"
  BY <1>6
<1>11. ItemDecidedByItsUser' /\ LinkedItemFollowsLedger'
  BY <1>1, <1>10 DEF ReviewInd, ItemDecidedByItsUser, LinkedItemFollowsLedger
<1>12. items'[u][p].cursor > items[u][p].cursor
  BY <1>4, <1>6
<1> QED BY <1>7, <1>8, <1>9, <1>11, <1>12 DEF ReviewInd

-----------------------------------------------------------------------------
(* What record_decision changes: one decision, at most one ledger row, one *)
(* item.                                                                   *)
RecordEffect(decision, p, kind, u) ==
    /\ p \in ProposedActions /\ kind \in DecisionKinds /\ u \in Users
    /\ decision \in Decision /\ decision.kind = kind /\ decision.actor = u
    /\ kind \in ConfirmKinds => ActorOf[p] = u
    /\ decisions[p].kind = None
    /\ decisions' = [decisions EXCEPT ![p] = decision]
    /\ \A k \in Keys : ledger'[k] = IF k = <<p, kind>> THEN "confirmed" ELSE ledger[k]
    /\ \A v \in Users, q \in ProposedActions : v # u \/ q # p => items'[v][q] = items[v][q]
    /\ items' \in [Users -> [ProposedActions -> Item]] /\ cursorSeq' \in Nat
    /\ items'[u][p].cursor > items[u][p].cursor
    /\ kind \in ConfirmKinds => /\ items'[u][p].status = "confirmed"
                                /\ items'[u][p].ledger_status = "confirmed"
                                /\ items'[u][p].op = <<p, kind>>
    /\ kind \notin ConfirmKinds => items'[u][p].status = "rejected" /\ items'[u][p].op = NoKey

(* The transaction of record_decision has that effect.                     *)
LEMMA RecordShape ==
    ASSUME ReviewInd, NEW d \in Devices, RecordDecision(d)
    PROVE  RecordEffect(requests[d].decision, requests[d].action, requests[d].decision.kind, UserOf[d])
<1> SUFFICES ASSUME NEW p, p = requests[d].action, NEW kind, kind = requests[d].decision.kind,
                    NEW u, u = UserOf[d]
             PROVE  RecordEffect(requests[d].decision, p, kind, u)
  OBVIOUS
<1> DEFINE k == <<p, kind>>
           old == items[u][p]
           confirmed == kind \in ConfirmKinds
           new == [old EXCEPT !.status = IF confirmed THEN "confirmed" ELSE "rejected",
                              !.ledger_status = IF confirmed THEN "confirmed" ELSE @,
                              !.op = IF confirmed THEN k ELSE @,
                              !.cursor = NextCursor(cursorSeq + 1, @)]
<1>1. /\ p \in ProposedActions
      /\ requests[d].decision \in Decision /\ kind \in DecisionKinds
      /\ requests[d].decision.actor = u /\ u \in Users
  BY UserOfAssumption DEF RecordDecision, ReviewInd, ReviewTypeOK, RequestsAreDecisions
<1>2. /\ decisions[p].kind = None
      /\ decisions' = [decisions EXCEPT ![p] = requests[d].decision]
      /\ IF confirmed THEN SubmitConfirmedAction(k) ELSE UNCHANGED <<ledger, created>>
      /\ confirmed => ActorOf[p] = u
      /\ cursorSeq' = cursorSeq + 1
  BY <1>1 DEF RecordDecision, UpdateDecisionState, ActorBound
<1>3. /\ old \in Item /\ old.cursor \in Nat /\ cursorSeq + 1 \in Nat /\ old.op = NoKey
      /\ items \in [Users -> [ProposedActions -> Item]] /\ ledger \in [Keys -> LedgerStatus]
  BY <1>1, <1>2, UndecidedIsUntouched DEF ReviewInd, ReviewTypeOK, Item
<1>4. confirmed => k \in Keys /\ ledger[k] = None
  BY <1>1, <1>2, KeyShape, UndecidedIsUntouched
<1>5. ~ confirmed => k \notin Keys
  BY <1>1, KeyShape DEF DecisionKinds
<1>6. \A j \in Keys : ledger'[j] = IF j = k THEN "confirmed" ELSE ledger[j]
  BY <1>2, <1>3, <1>4, <1>5 DEF SubmitConfirmedAction
<1>7. NextCursor(cursorSeq + 1, old.cursor) \in Nat /\ NextCursor(cursorSeq + 1, old.cursor) > old.cursor
  <2> HIDE DEF old
  <2> QED BY <1>3, CursorGrows
<1>8. new.cursor = NextCursor(cursorSeq + 1, old.cursor)
  BY <1>3 DEF Item
<1>9. items' = [items EXCEPT ![u][p] = new]
  <2>1. items' = [items EXCEPT ![u][p] = DecidedItem(requests[d])]
    BY <1>1 DEF RecordDecision, UpdateDecisionState
  <2>2. DecidedItem(requests[d]) = new
    BY <1>1 DEF DecidedItem
  <2> QED BY <2>1, <2>2
<1>10. /\ new \in Item
       /\ confirmed => new.status = "confirmed" /\ new.ledger_status = "confirmed" /\ new.op = k
       /\ ~ confirmed => new.status = "rejected" /\ new.op = NoKey
  <2> HIDE DEF confirmed, k
  <2> QED BY <1>3, <1>4, <1>7, ZenonT(60) DEF Item, ItemStatus, LedgerStatus
<1> HIDE DEF new
<1>11. /\ items'[u][p] = new
       /\ items' \in [Users -> [ProposedActions -> Item]]
       /\ \A v \in Users, q \in ProposedActions : v # u \/ q # p => items'[v][q] = items[v][q]
  BY <1>1, <1>3, <1>9, <1>10
<1>12. items'[u][p].cursor > items[u][p].cursor
  BY <1>7, <1>8, <1>11
<1>13. cursorSeq' \in Nat
  BY <1>2, <1>3
<1> QED BY <1>1, <1>2, <1>6, <1>10, <1>11, <1>12, <1>13 DEF RecordEffect

(* record_decision: the tables agree on the decision it adds.              *)
LEMMA RecordInd == ASSUME ReviewInd, NEW d \in Devices, RecordDecision(d) PROVE ReviewInd'
<1> DEFINE p == requests[d].action
           kind == requests[d].decision.kind
           u == UserOf[d]
           k == <<p, kind>>
           trace == DecisionTrace(p, kind)
<1>1. /\ p \in ProposedActions /\ kind \in DecisionKinds /\ u \in Users
      /\ requests[d].decision \in Decision /\ requests[d].decision.actor = u
      /\ kind \in ConfirmKinds => ActorOf[p] = u
      /\ decisions[p].kind = None
      /\ decisions' = [decisions EXCEPT ![p] = requests[d].decision]
      /\ \A j \in Keys : ledger'[j] = IF j = k THEN "confirmed" ELSE ledger[j]
      /\ \A v \in Users, q \in ProposedActions : v # u \/ q # p => items'[v][q] = items[v][q]
      /\ items' \in [Users -> [ProposedActions -> Item]] /\ cursorSeq' \in Nat
      /\ kind \in ConfirmKinds => /\ items'[u][p].status = "confirmed"
                                  /\ items'[u][p].ledger_status = "confirmed"
                                  /\ items'[u][p].op = k
      /\ kind \notin ConfirmKinds => items'[u][p].status = "rejected" /\ items'[u][p].op = NoKey
  <2>1. RecordEffect(requests[d].decision, p, kind, u)
    BY RecordShape
  <2> HIDE DEF p, kind, u
  <2> QED BY <2>1 DEF RecordEffect
<1>2. /\ AppendAndEnqueue(trace, 1, "decision")
      /\ requests' = [requests EXCEPT ![d] = NoRequest]
      /\ acks' = acks \cup {[action |-> p, decision |-> requests[d].decision]}
      /\ kind \in ConfirmKinds => SubmitConfirmedAction(k)
      /\ kind \notin ConfirmKinds => UNCHANGED <<ledger, created>>
  BY DEF RecordDecision, Answer
<1>3. /\ \A j \in Keys : j[1] = p => ledger[j] = None
      /\ \A v \in Users : items[v][p].op = NoKey /\ items[v][p].status # "rejected"
      /\ \A j \in DecisionKinds : ~ HasEvent(DecisionTrace(p, j), 1, "decision")
      /\ \A a \in acks : a.action # p
  BY <1>1, UndecidedIsUntouched
<1>4. /\ decisions \in [ProposedActions -> Decision]
      /\ decisions'[p] = requests[d].decision
      /\ \A q \in ProposedActions : q # p => decisions'[q] = decisions[q]
  BY <1>1 DEF ReviewInd, ReviewTypeOK
<1>5. /\ kind \in ConfirmKinds => k \in Keys /\ k[1] = p /\ k[2] = kind
      /\ kind \notin ConfirmKinds => k \notin Keys /\ kind = "reject"
  BY <1>1, KeyShape DEF DecisionKinds
<1> HIDE DEF k
<1>6. ReviewTypeOK'
  <2>1. Event(trace, 1, "decision") \in Events
    BY <1>1 DEF Event, Events, EventTypes, Traces
  <2>2. ledger' \in [Keys -> LedgerStatus] /\ created' \in [Keys -> Nat]
    <3>1. Cardinality(Rows) + 1 \in Nat /\ "confirmed" \in LedgerStatus
      BY RowsCountable DEF LedgerStatus
    <3>2. ledger \in [Keys -> LedgerStatus] /\ created \in [Keys -> Nat]
      BY DEF ReviewInd, ReviewTypeOK
    <3> QED BY <1>2, <3>1, <3>2 DEF SubmitConfirmedAction
  <2>3. audit' \subseteq Events /\ outbox' \subseteq audit'
    BY <1>2, <2>1 DEF AppendAndEnqueue, ReviewInd, ReviewTypeOK
  <2>4. acks' \subseteq [action : ProposedActions, decision : Decision]
    BY <1>1, <1>2 DEF ReviewInd, ReviewTypeOK
  <2>5. decisions' \in [ProposedActions -> Decision]
    BY <1>1, <1>4
  <2> QED BY <1>1, <1>2, <2>2, <2>3, <2>4, <2>5, RequestEnds DEF ReviewTypeOK
<1> HIDE DEF trace
<1>7. LedgerRowIsConfirmedByActor'
  <2> SUFFICES ASSUME NEW j \in Keys, ledger'[j] # None
               PROVE  decisions'[j[1]].kind = j[2] /\ decisions'[j[1]].actor = ActorOf[j[1]]
    BY DEF LedgerRowIsConfirmedByActor
  <2>1. CASE j = k
    BY <1>1, <1>4, <1>5, <2>1
  <2>2. CASE j # k
    <3>1. ledger[j] # None /\ j[1] # p
      BY <1>1, <1>3, <2>2
    <3> QED BY <1>4, <3>1, KeyShape DEF ReviewInd, LedgerRowIsConfirmedByActor
  <2> QED BY <2>1, <2>2
<1>8. ASSUME NEW v \in Users, NEW q \in ProposedActions, ~ (v = u /\ q = p)
      PROVE  /\ items'[v][q] = items[v][q]
             /\ q = p => items'[v][q].op = NoKey /\ items'[v][q].status # "rejected"
             /\ q # p => decisions'[q] = decisions[q]
  BY <1>1, <1>3, <1>4, <1>8
<1>9. ItemDecidedByItsUser'
  <2> SUFFICES ASSUME NEW v \in Users, NEW q \in ProposedActions
               PROVE  /\ items'[v][q].status = "rejected" =>
                            decisions'[q].kind = "reject" /\ decisions'[q].actor = v
                      /\ items'[v][q].op # NoKey =>
                            items'[v][q].op = <<q, decisions'[q].kind>> /\ decisions'[q].actor = v
    BY DEF ItemDecidedByItsUser
  <2>1. CASE v = u /\ q = p
    BY <1>1, <1>4, <1>5, <2>1 DEF k
  <2>2. CASE ~ (v = u /\ q = p)
    BY <1>8, <2>2 DEF ReviewInd, ItemDecidedByItsUser
  <2> QED BY <2>1, <2>2
<1>10. LinkedItemFollowsLedger'
  <2> SUFFICES ASSUME NEW v \in Users, NEW q \in ProposedActions, items'[v][q].op # NoKey
               PROVE  /\ items'[v][q].ledger_status = ledger'[items'[v][q].op]
                      /\ items'[v][q].status = items'[v][q].ledger_status
    BY DEF LinkedItemFollowsLedger
  <2>1. CASE v = u /\ q = p
    BY <1>1, <1>5, <2>1
  <2>2. CASE ~ (v = u /\ q = p)
    <3>1. items'[v][q] = items[v][q] /\ q # p
      BY <1>8, <2>2
    <3>2. items[v][q].op = <<q, decisions[q].kind>> /\ items[v][q].op \in Keys
      BY <3>1 DEF ReviewInd, ItemDecidedByItsUser, ReviewTypeOK, Item
    <3>3. items[v][q].op # k
      BY <3>1, <3>2 DEF k
    <3>4. ledger'[items[v][q].op] = ledger[items[v][q].op]
      BY <1>1, <3>2, <3>3
    <3> QED BY <3>1, <3>4 DEF ReviewInd, LinkedItemFollowsLedger
  <2> QED BY <2>1, <2>2
<1>11. AckedDecisionIsRecorded' /\ AcksAreDecisions'
  <2> SUFFICES ASSUME NEW a \in acks'
               PROVE  decisions'[a.action] = a.decision /\ a.decision.kind \in DecisionKinds
    BY DEF AckedDecisionIsRecorded, AcksAreDecisions
  <2>1. CASE a \in acks
    BY <1>3, <1>4, <2>1 DEF ReviewInd, ReviewTypeOK, AckedDecisionIsRecorded, AcksAreDecisions
  <2>2. CASE a \notin acks
    BY <1>1, <1>2, <1>4, <2>2
  <2> QED BY <2>1, <2>2
<1>12. DecisionMatchesAudit'
  <2> SUFFICES ASSUME NEW q \in ProposedActions, NEW j \in DecisionKinds
               PROVE  /\ decisions'[q].kind = j <=> HasEvent(DecisionTrace(q, j), 1, "decision")'
                      /\ HasEvent(DecisionTrace(q, j), 1, "decision")' =>
                            Event(DecisionTrace(q, j), 1, "decision") \in outbox'
    BY DEF DecisionMatchesAudit, Event, DecisionTrace
  <2>1. HasEvent(DecisionTrace(q, j), 1, "decision")' <=>
            HasEvent(DecisionTrace(q, j), 1, "decision") \/ DecisionTrace(q, j) = trace
    BY <1>2, AppendAdds
  <2>2. DecisionTrace(q, j) = trace <=> q = p /\ j = kind
    BY DecisionTracesDiffer DEF trace
  <2>3. Event(trace, 1, "decision") \in outbox' /\ outbox \subseteq outbox'
    BY <1>2 DEF AppendAndEnqueue
  <2>4. CASE q = p
    BY <1>3, <1>4, <2>1, <2>2, <2>3, <2>4
  <2>5. CASE q # p
    BY <1>4, <2>1, <2>2, <2>3, <2>5 DEF ReviewInd, DecisionMatchesAudit
  <2> QED BY <2>4, <2>5
<1>13. RequestsAreDecisions'
  BY <1>2, RequestEnds
<1> QED BY <1>6, <1>7, <1>9, <1>10, <1>11, <1>12, <1>13 DEF ReviewInd

(* Every step of the recorder, the devices and the ingest.                 *)
LEMMA DecisionNextInd == ASSUME ReviewInd, DecisionNext PROVE ReviewInd'
<1>1. 1 .. MaxSource \subseteq Nat
  BY MaxSourceAssumption
<1>2. ASSUME NEW d \in Devices, DecideStep(d) \/ RequestLost(d) PROVE ReviewInd'
  BY <1>2, RecordInd, UnrecordedInd DEF DecideStep
<1> QED BY <1>1, <1>2, UpsertInd, LoadContextInd DEF DecisionNext

-----------------------------------------------------------------------------
(* UPDATE_REVIEW_INBOX_LEDGER_PROJECTION changes two columns and raises    *)
(* the cursor of the items it matches.                                     *)
LEMMA ProjectionShape ==
    ASSUME ReviewTypeOK, NEW k \in Keys, NEW to \in {"executing", "succeeded", "failed"},
           ProjectLedger(k, to)
    PROVE  /\ items' \in [Users -> [ProposedActions -> Item]] /\ cursorSeq' \in Nat
           /\ \A u \in Users, p \in ProposedActions :
                 /\ ~ ProjectionMatches(k, u, p) => items'[u][p] = items[u][p]
                 /\ ProjectionMatches(k, u, p) =>
                       /\ items'[u][p].status = to /\ items'[u][p].ledger_status = to
                       /\ items'[u][p].op = items[u][p].op
                       /\ items'[u][p].cursor > items[u][p].cursor
<1> DEFINE Projected(u, p) == [items[u][p] EXCEPT !.status = to, !.ledger_status = to,
                                   !.cursor = NextCursor(cursorSeq + 1, items[u][p].cursor)]
<1>1. /\ items' = [u \in Users |-> [p \in ProposedActions |->
                      IF ProjectionMatches(k, u, p) THEN Projected(u, p) ELSE items[u][p]]]
      /\ cursorSeq' \in {cursorSeq, cursorSeq + 1}
  BY DEF ProjectLedger
<1>2. cursorSeq \in Nat /\ \A u \in Users, p \in ProposedActions : items[u][p] \in Item
  BY DEF ReviewTypeOK
<1>3. ASSUME NEW u \in Users, NEW p \in ProposedActions
      PROVE  /\ Projected(u, p) \in Item
             /\ Projected(u, p).status = to /\ Projected(u, p).ledger_status = to
             /\ Projected(u, p).op = items[u][p].op
             /\ Projected(u, p).cursor > items[u][p].cursor
  <2>1. items[u][p].cursor \in Nat /\ cursorSeq + 1 \in Nat
    BY <1>2 DEF Item
  <2>2. PICK c \in Nat : c = NextCursor(cursorSeq + 1, items[u][p].cursor) /\ c > items[u][p].cursor
    BY <2>1, CursorGrows
  <2>3. Projected(u, p) = [items[u][p] EXCEPT !.status = to, !.ledger_status = to, !.cursor = c]
    BY <2>2
  <2> HIDE DEF Projected
  <2> QED BY <1>2, <2>2, <2>3, ZenonT(60) DEF Item, ItemStatus, LedgerStatus
<1> HIDE DEF Projected
<1>4. items' \in [Users -> [ProposedActions -> Item]]
  BY <1>1, <1>2, <1>3
<1>5. cursorSeq' \in Nat
  BY <1>1, <1>2
<1> QED BY <1>1, <1>3, <1>4, <1>5

(* A ledger transition takes the items linked to it along.                 *)
LEMMA TransitionInd ==
    ASSUME ReviewInd, NEW k \in Keys, NEW to \in {"executing", "succeeded", "failed"},
           NEW seq \in 1 .. 3, NEW type \in EventTypes, type # "decision",
           RecordStatusTransition(k, to, seq, type), UNCHANGED decisionVars
    PROVE  ReviewInd'
<1>1. /\ ledger[k] \in {"confirmed", "executing"}
      /\ ledger' = [ledger EXCEPT ![k] = to]
      /\ ProjectLedger(k, to)
      /\ AppendAndEnqueue(k, seq, type)
      /\ UNCHANGED <<created, decisions, requests, acks>>
  BY DEF RecordStatusTransition, MarkMatches, MarkFrom, MarkOperation, decisionVars
<1>2. ReviewTypeOK
  BY DEF ReviewInd
<1>3. /\ items' \in [Users -> [ProposedActions -> Item]] /\ cursorSeq' \in Nat
      /\ \A u \in Users, p \in ProposedActions :
            /\ ~ ProjectionMatches(k, u, p) => items'[u][p] = items[u][p]
            /\ ProjectionMatches(k, u, p) =>
                  /\ items'[u][p].status = to /\ items'[u][p].ledger_status = to
                  /\ items'[u][p].op = items[u][p].op
  BY <1>1, <1>2, ProjectionShape
<1>4. /\ ledger'[k] = to /\ \A j \in Keys : j # k => ledger'[j] = ledger[j]
      /\ ledger' \in [Keys -> LedgerStatus]
  BY <1>1, <1>2 DEF ReviewTypeOK, LedgerStatus
<1>5. ReviewTypeOK'
  <2>1. audit' \subseteq Events /\ outbox' \subseteq audit'
    BY <1>1, <1>2, EventIsTyped DEF AppendAndEnqueue, ReviewTypeOK
  <2> QED BY <1>1, <1>2, <1>3, <1>4, <2>1 DEF ReviewTypeOK
<1>6. LedgerRowIsConfirmedByActor'
  BY <1>1, <1>4 DEF ReviewInd, LedgerRowIsConfirmedByActor, None
<1>7. ASSUME NEW u \in Users, NEW p \in ProposedActions
      PROVE  /\ items'[u][p].op = items[u][p].op
             /\ items'[u][p].status = "rejected" => items[u][p].status = "rejected"
  BY <1>3
<1>8. ItemDecidedByItsUser'
  BY <1>1, <1>7 DEF ReviewInd, ItemDecidedByItsUser
<1>9. LinkedItemFollowsLedger'
  <2> SUFFICES ASSUME NEW u \in Users, NEW p \in ProposedActions, items'[u][p].op # NoKey
               PROVE  /\ items'[u][p].ledger_status = ledger'[items'[u][p].op]
                      /\ items'[u][p].status = items'[u][p].ledger_status
    BY DEF LinkedItemFollowsLedger
  <2>1. /\ items[u][p].op # NoKey
        /\ items[u][p].ledger_status = ledger[items[u][p].op]
        /\ items[u][p].status = items[u][p].ledger_status
        /\ items[u][p].op \in Keys
    BY <1>2, <1>7 DEF ReviewInd, LinkedItemFollowsLedger, ReviewTypeOK, Item
  <2>2. CASE items[u][p].op = k
    <3>1. ProjectionMatches(k, u, p)
      BY <1>1, <2>1, <2>2 DEF ProjectionMatches, TerminalItemStatus, TerminalStatus, None
    <3> QED BY <1>3, <1>4, <2>2, <3>1
  <2>3. CASE items[u][p].op # k
    <3>1. items'[u][p] = items[u][p]
      BY <1>3, <2>3 DEF ProjectionMatches
    <3> QED BY <1>4, <2>1, <2>3, <3>1
  <2> QED BY <2>2, <2>3
<1>10. DecisionMatchesAudit'
  <2>1. \A t : HasEvent(t, 1, "decision")' <=> HasEvent(t, 1, "decision")
    BY <1>1, AppendAdds
  <2>2. outbox \subseteq outbox'
    BY <1>1 DEF AppendAndEnqueue
  <2> QED BY <1>1, <2>1, <2>2 DEF ReviewInd, DecisionMatchesAudit
<1>11. AckedDecisionIsRecorded' /\ AcksAreDecisions' /\ RequestsAreDecisions'
  BY <1>1 DEF ReviewInd, AckedDecisionIsRecorded, AcksAreDecisions, RequestsAreDecisions, Busy
<1> QED BY <1>5, <1>6, <1>8, <1>9, <1>10, <1>11 DEF ReviewInd

-----------------------------------------------------------------------------
(* A row that exists keeps existing, so workers keep holding rows.         *)
LEMMA HoldRows ==
    ASSUME WorkersHoldRows, ExecutionTypeOK, ExecutionTypeOK',
           \A k \in Keys : ledger[k] # None => ledger'[k] # None,
           \A v \in Workers : pc'[v] # "idle" =>
               \/ pc[v] # "idle" /\ cur'[v] = cur[v]
               \/ ledger[cur'[v]] # None,
           \A v \in Workers : \A k \in batch'[v] : k \in batch[v] \/ ledger[k] # None
    PROVE  WorkersHoldRows'
<1>1. ASSUME NEW v \in Workers, pc'[v] # "idle" PROVE ledger'[cur'[v]] # None
  <2>1. cur'[v] \in Keys
    BY <1>1 DEF ExecutionTypeOK
  <2>2. ledger[cur'[v]] # None
    BY <1>1 DEF WorkersHoldRows
  <2> QED BY <2>1, <2>2
<1>2. ASSUME NEW v \in Workers, NEW k \in batch'[v] PROVE ledger'[k] # None
  <2>1. k \in Keys
    BY DEF ExecutionTypeOK
  <2>2. ledger[k] # None
    BY DEF WorkersHoldRows
  <2> QED BY <2>1, <2>2
<1> QED BY <1>1, <1>2 DEF WorkersHoldRows

(* The calls of a worker: one that only decides how to go on, one that     *)
(* moves a ledger row.  In the pipeline no call of record_confirmation     *)
(* creates the row.                                                        *)
LEMMA PipelineCallInd ==
    ASSUME PipelineInd, NEW w \in Workers, CallStep(w), UNCHANGED decisionVars
    PROVE  PipelineInd'
<1> USE DEF PipelineInd
<1>1. ~ ConfirmCreates(w)
  BY DEF ConfirmCreates, WorkersHoldRows
<1>2. ExecutionInv'
  BY QuietCallPreserves, MarkExecutingPreserves, ExecutePreserves, RecordResultPreserves, <1>1 DEF CallStep
<1>3. ExecutionTypeOK /\ ExecutionTypeOK'
  BY <1>2 DEF ExecutionInv
<1>4. \/ UNCHANGED <<pc, cur, batch>>
      \/ /\ UNCHANGED batch
         /\ pc' = [pc EXCEPT ![w] = "idle"] /\ cur' = [cur EXCEPT ![w] = NoKey]
      \/ /\ UNCHANGED <<batch, cur>> /\ pc[w] # "idle"
         /\ \E step \in Steps : pc' = [pc EXCEPT ![w] = step]
  BY <1>1 DEF CallStep, ConfirmRefused, ConfirmFinds, ConfirmDuplicate, DryRunPasses, DryRunRefused,
         MarkExecuting, MarkExecutingMissed, Execute, RecordResult, Reported, ReportedLast, Goto, Return,
         ReturnFault, Steps
<1>5. ASSUME \A k \in Keys : ledger[k] # None => ledger'[k] # None PROVE WorkersHoldRows'
  BY <1>3, <1>4, <1>5, HoldRows DEF ExecutionTypeOK
<1>6. CASE UNCHANGED storeVars
  <2>1. ReviewInd'
    BY <1>6, TablesStand DEF ReviewInd, ReviewTypeOK, RequestsAreDecisions, Busy, decisionVars
  <2> QED BY <1>2, <1>5, <1>6, <2>1 DEF storeVars
<1>7. ASSUME NEW to \in {"executing", "succeeded", "failed"}, NEW seq \in 1 .. 3,
             NEW type \in EventTypes, type # "decision", cur[w] \in Keys,
             RecordStatusTransition(cur[w], to, seq, type)
      PROVE  PipelineInd'
  <2>1. ReviewInd'
    BY <1>7, TransitionInd
  <2>2. \A k \in Keys : ledger[k] # None => ledger'[k] # None
    BY <1>3, <1>7 DEF RecordStatusTransition, MarkOperation, ExecutionTypeOK, None
  <2> QED BY <1>2, <1>5, <2>1, <2>2
<1>8. CASE MarkExecuting(w)
  <2>1. cur[w] \in Keys /\ RecordStatusTransition(cur[w], "executing", 2, "dry_run")
    BY <1>3, <1>8 DEF MarkExecuting, ExecutionTypeOK
  <2> QED BY <1>7, <2>1 DEF EventTypes
<1>9. CASE RecordResult(w)
  <2>1. cur[w] \in Keys /\ RecordStatusTransition(cur[w], ResultStatus(w), 3, ResultEvent(w))
    BY <1>3, <1>9, ResultFits DEF RecordResult, ExecutionTypeOK
  <2>2. ResultStatus(w) \in {"executing", "succeeded", "failed"} /\ ResultEvent(w) \in EventTypes \ {"decision"}
    BY DEF ResultStatus, ResultEvent, EventTypes
  <2> QED BY <1>7, <2>1, <2>2
<1> QED BY <1>1, <1>6, <1>8, <1>9 DEF CallStep, ConfirmRefused, ConfirmFinds, ConfirmDuplicate,
           DryRunPasses, DryRunRefused, MarkExecutingMissed, Execute

(* drain_once lists only rows; a fault lets go of them.                    *)
LEMMA PipelineDrainInd ==
    ASSUME PipelineInd, NEW w \in Workers, DrainStep(w) \/ FaultStep(w), UNCHANGED decisionVars
    PROVE  PipelineInd'
<1> USE DEF PipelineInd
<1>1. ExecutionInv'
  BY DrainPreserves, FaultPreserves
<1>2. ExecutionTypeOK /\ ExecutionTypeOK' /\ UNCHANGED storeVars
  BY <1>1 DEF ExecutionInv, DrainStep, DrainOnce, NextPending, FaultStep, RepositoryError, Crash
<1>3. ReviewInd'
  BY <1>2, TablesStand DEF ReviewInd, ReviewTypeOK, RequestsAreDecisions, Busy, decisionVars
<1>4. WorkersHoldRows'
  <2>1. CASE DrainOnce(w)
    BY <1>2, <2>1, HoldRows DEF DrainOnce, ListConfirmedActions, ReadyForExecution, ExecutionTypeOK, None, storeVars
  <2>2. ASSUME NEW k \in Keys, NextPending(w, k) PROVE WorkersHoldRows'
    <3>1. ledger[k] # None
      BY <2>2 DEF NextPending, WorkersHoldRows
    <3> QED BY <1>2, <2>2, <3>1, HoldRows DEF NextPending, ExecutionTypeOK, storeVars
  <2>3. CASE FaultStep(w)
    <3>1. /\ pc' = [pc EXCEPT ![w] = "idle"] /\ cur' = [cur EXCEPT ![w] = NoKey]
          /\ batch' = batch \/ batch' = [batch EXCEPT ![w] = {}]
      BY <2>3 DEF FaultStep, RepositoryError, ReturnFault, Crash
    <3> QED BY <1>2, <3>1, HoldRows DEF ExecutionTypeOK, storeVars
  <2> QED BY <2>1, <2>2, <2>3 DEF DrainStep
<1> QED BY <1>1, <1>3, <1>4

(* A step of the recorder, as the workers see it: a new row, or nothing.   *)
LEMMA PipelineDecisionInd ==
    ASSUME PipelineInd, DecisionNext, UNCHANGED workerVars
    PROVE  PipelineInd'
<1> USE DEF PipelineInd
<1>1. ReviewInd'
  BY DecisionNextInd
<1>2. ASSUME UNCHANGED <<ledger, created, audit, outbox>> PROVE PipelineInd'
  <2>1. ExecutionInv'
    BY <1>2 DEF workerVars, ExecutionInv, ExecutionTypeOK, OwnerHoldsRight, RightIsExclusive, CallIsAccounted,
                SlotsFollowLedger, AuditMatchesLedger, HasEvent, SucceededWasWritten, StrandedOnlyByFault, Owners
  <2>2. WorkersHoldRows'
    BY <1>2 DEF WorkersHoldRows, workerVars
  <2> QED BY <1>1, <2>1, <2>2
<1>3. ASSUME NEW d \in Devices, RecordDecision(d) PROVE PipelineInd'
  <2> DEFINE p == requests[d].action
             kind == requests[d].decision.kind
  <2>1. /\ p \in ProposedActions /\ kind \in DecisionKinds
        /\ \A k \in Keys : ledger'[k] = IF k = <<p, kind>> THEN "confirmed" ELSE ledger[k]
    BY <1>3, RecordShape DEF RecordEffect
  <2>2. /\ IF kind \in ConfirmKinds THEN SubmitConfirmedAction(<<p, kind>>) ELSE UNCHANGED <<ledger, created>>
        /\ AppendAndEnqueue(DecisionTrace(p, kind), 1, "decision")
    BY <1>3 DEF RecordDecision
  <2> HIDE DEF p, kind
  <2>3. ExecutionInv'
    BY <2>1, <2>2, KeyShape, DecisionPreserves
  <2>4. WorkersHoldRows'
    <3>1. \A k \in Keys : ledger[k] # None => ledger'[k] # None
      BY <2>1 DEF None
    <3>2. ExecutionTypeOK /\ ExecutionTypeOK'
      BY <2>3 DEF ExecutionInv
    <3> QED BY <3>1, <3>2, HoldRows DEF workerVars
  <2> QED BY <1>1, <2>3, <2>4
<1>4. \/ UNCHANGED <<ledger, created, audit, outbox>>
      \/ \E d \in Devices : RecordDecision(d)
  BY DEF DecisionNext, DecideStep, UpsertReviewInboxItem, LoadDecisionContext, RecordDuplicate,
         RecordConflict, RequestLost, storeVars
<1> QED BY <1>2, <1>3, <1>4

(* The invariant of the pipeline holds in every reachable state.           *)
THEOREM PipelineInvariant == Spec => []PipelineInd
<1>1. Init => PipelineInd
  <2> SUFFICES ASSUME Init PROVE PipelineInd
    OBVIOUS
  <2>1. ExecutionInv /\ ReviewInd
    BY InitEstablishes, ReviewInitInd DEF Init, ExecutionInit, ReviewInit
  <2>2. WorkersHoldRows
    BY DEF Init, WorkersInit, WorkersHoldRows
  <2> QED BY <2>1, <2>2 DEF PipelineInd
<1>2. PipelineInd /\ [Next]_vars => PipelineInd'
  <2> SUFFICES ASSUME PipelineInd, [Next]_vars PROVE PipelineInd'
    OBVIOUS
  <2>1. CASE UNCHANGED vars
    <3>1. UNCHANGED <<ledger, created, decisions, items, cursorSeq, audit, outbox, requests, acks>>
      BY <2>1 DEF vars, storeVars, decisionVars
    <3>2. UNCHANGED workerVars
      BY <2>1 DEF vars
    <3>3. ReviewInd'
      BY <3>1, TablesStand DEF PipelineInd, ReviewInd, ReviewTypeOK, RequestsAreDecisions, Busy, storeVars
    <3>4. ExecutionInv'
      BY <3>1, <3>2 DEF PipelineInd, workerVars, ExecutionInv, ExecutionTypeOK, OwnerHoldsRight,
             RightIsExclusive, CallIsAccounted, SlotsFollowLedger, AuditMatchesLedger, HasEvent,
             SucceededWasWritten, StrandedOnlyByFault, Owners
    <3>5. WorkersHoldRows'
      BY <3>1, <3>2 DEF PipelineInd, WorkersHoldRows, workerVars
    <3> QED BY <3>3, <3>4, <3>5 DEF PipelineInd
  <2> QED BY <2>1, PipelineCallInd, PipelineDrainInd, PipelineDecisionInd DEF Next, WorkerStep
<1> QED BY <1>1, <1>2, PTL DEF Spec

(* Ledger rows and items agree with the one decision that stands, whoever  *)
(* races in record_decision and whatever the workers do meanwhile.         *)
THEOREM DecisionsStand == Spec => []ReviewInv
<1>1. PipelineInd => ReviewInv
  BY DEF PipelineInd, ReviewInd, ReviewInv
<1> QED BY <1>1, PipelineInvariant, PTL

(* A device that record_decision answered with success was told the truth. *)
THEOREM AcksAreTrue == Spec => []AckedDecisionIsRecorded
<1>1. PipelineInd => AckedDecisionIsRecorded
  BY DEF PipelineInd, ReviewInd
<1> QED BY <1>1, PipelineInvariant, PTL

(* record_decision leaves an event and an envelope for every decision that *)
(* stands, and for no other.                                               *)
THEOREM DecisionsAreAudited == Spec => []DecisionMatchesAudit
<1>1. PipelineInd => DecisionMatchesAudit
  BY DEF PipelineInd, ReviewInd
<1> QED BY <1>1, PipelineInvariant, PTL

(* The ledger projection and the ingest keep every linked item in step     *)
(* with its operation.                                                     *)
THEOREM ItemsFollowLedger == Spec => []LinkedItemFollowsLedger
<1>1. PipelineInd => LinkedItemFollowsLedger
  BY DEF PipelineInd, ReviewInd
<1> QED BY <1>1, PipelineInvariant, PTL

(* drain_once lets adapter.execute run only for what the action's own      *)
(* actor confirmed, with the kind of confirmation that stands.             *)
THEOREM OnlyConfirmedIsWritten == Spec => []WrittenWasConfirmedByActor
<1>1. PipelineInd => WrittenWasConfirmedByActor
  <2> SUFFICES ASSUME PipelineInd, NEW k \in Keys, calls[k] > 0
               PROVE  decisions[k[1]].kind = k[2] /\ decisions[k[1]].actor = ActorOf[k[1]]
    BY DEF WrittenWasConfirmedByActor
  <2>1. ledger[k] # None
    BY DEF PipelineInd, ExecutionInv, CallIsAccounted
  <2> QED BY <2>1 DEF PipelineInd, ReviewInd, LedgerRowIsConfirmedByActor
<1> QED BY <1>1, PipelineInvariant, PTL

(* The executor's promise of one call per action survives its composition  *)
(* with the recorder, which writes the same ledger.                        *)
THEOREM PipelineAtMostOnce == Spec => []ExecutedAtMostOnce
<1>1. PipelineInd => ExecutedAtMostOnce
  BY DEF PipelineInd, ExecutionInv, ExecutionTypeOK, CallIsAccounted, ExecutedAtMostOnce
<1> QED BY <1>1, PipelineInvariant, PTL

-----------------------------------------------------------------------------
(* What a step of the recorder, the devices or the ingest does to an item: *)
(* nothing, or it raises its cursor.  A decision is never replaced.        *)
LEMMA DecisionStepIsVisible ==
    ASSUME ReviewInd, DecisionNext
    PROVE  /\ \A u \in Users, p \in ProposedActions :
                 items'[u][p] # items[u][p] => items'[u][p].cursor > items[u][p].cursor
           /\ \A p \in ProposedActions : decisions[p].kind # None => decisions'[p] = decisions[p]
<1>1. ASSUME NEW u \in Users, NEW p \in ProposedActions, NEW source \in 1 .. MaxSource,
             UpsertReviewInboxItem(u, p, source)
      PROVE  /\ items'[u][p].cursor > items[u][p].cursor
             /\ \A v \in Users, q \in ProposedActions : v # u \/ q # p => items'[v][q] = items[v][q]
             /\ UNCHANGED decisions
  <2>1. source \in Nat
    BY MaxSourceAssumption
  <2>2. items'[u][p].cursor > items[u][p].cursor
    BY <1>1, <2>1, UpsertInd
  <2> QED BY <1>1, <2>2 DEF UpsertReviewInboxItem, ReviewInd, ReviewTypeOK
<1>2. ASSUME NEW d \in Devices, RecordDecision(d)
      PROVE  /\ \A u \in Users, p \in ProposedActions :
                   items'[u][p] # items[u][p] => items'[u][p].cursor > items[u][p].cursor
             /\ \A p \in ProposedActions : decisions[p].kind # None => decisions'[p] = decisions[p]
  <2>1. RecordEffect(requests[d].decision, requests[d].action, requests[d].decision.kind, UserOf[d])
    BY <1>2, RecordShape
  <2> QED BY <2>1 DEF RecordEffect, ReviewInd, ReviewTypeOK
<1>3. \/ UNCHANGED <<items, decisions>>
      \/ \E d \in Devices : RecordDecision(d)
      \/ \E u \in Users, p \in ProposedActions, source \in 1 .. MaxSource : UpsertReviewInboxItem(u, p, source)
  BY DEF DecisionNext, DecideStep, LoadDecisionContext, RecordDuplicate, RecordConflict, RequestLost, storeVars
<1> QED BY <1>1, <1>2, <1>3

(* A client that pulls by cursor misses no change of an item, neither of   *)
(* the recorder, nor of the ingest, nor of the projection of the ledger.   *)
THEOREM ChangesReachClients == Spec => ChangesAreVisible
<1>1. PipelineInd /\ [Next]_vars =>
        [ /\ \A u \in Users, p \in ProposedActions :
                items'[u][p] # items[u][p] => items'[u][p].cursor > items[u][p].cursor
          /\ \A p \in ProposedActions : decisions[p].kind # None => decisions'[p] = decisions[p] ]_reviewVars
  <2> SUFFICES ASSUME PipelineInd, [Next]_vars
               PROVE  /\ \A u \in Users, p \in ProposedActions :
                            items'[u][p] # items[u][p] => items'[u][p].cursor > items[u][p].cursor
                      /\ \A p \in ProposedActions : decisions[p].kind # None => decisions'[p] = decisions[p]
    OBVIOUS
  <2>1. CASE UNCHANGED <<items, decisions>>
    BY <2>1
  <2>2. ASSUME NEW w \in Workers, NEW to \in {"executing", "succeeded", "failed"}, NEW seq, NEW type,
               cur[w] \in Keys, RecordStatusTransition(cur[w], to, seq, type)
        PROVE  /\ UNCHANGED decisions
               /\ \A u \in Users, p \in ProposedActions :
                     items'[u][p] # items[u][p] => items'[u][p].cursor > items[u][p].cursor
    BY <2>2, ProjectionShape DEF RecordStatusTransition, PipelineInd, ReviewInd
  <2>3. ASSUME NEW w \in Workers, CallStep(w)
        PROVE  \/ UNCHANGED <<items, decisions>>
               \/ cur[w] \in Keys /\ RecordStatusTransition(cur[w], "executing", 2, "dry_run")
               \/ cur[w] \in Keys /\ RecordStatusTransition(cur[w], ResultStatus(w), 3, ResultEvent(w))
    BY <2>3 DEF CallStep, ConfirmCreates, ConfirmRefused, ConfirmFinds, ConfirmDuplicate, DryRunPasses,
                DryRunRefused, MarkExecuting, MarkExecutingMissed, Execute, RecordResult, storeVars,
                PipelineInd, ExecutionInv, ExecutionTypeOK
  <2>4. \A w \in Workers : ResultStatus(w) \in {"succeeded", "failed"}
    BY DEF ResultStatus
  <2>5. ASSUME NEW w \in Workers, DrainStep(w) \/ FaultStep(w) PROVE UNCHANGED <<items, decisions>>
    BY <2>5 DEF DrainStep, DrainOnce, NextPending, FaultStep, RepositoryError, Crash, storeVars
  <2>6. CASE UNCHANGED vars
    BY <2>1, <2>6 DEF vars, storeVars
  <2>7. CASE DecisionNext
    BY <2>7, DecisionStepIsVisible DEF PipelineInd
  <2>8. ASSUME NEW w \in Workers, CallStep(w)
        PROVE  /\ \A u \in Users, p \in ProposedActions :
                     items'[u][p] # items[u][p] => items'[u][p].cursor > items[u][p].cursor
               /\ \A p \in ProposedActions : decisions[p].kind # None => decisions'[p] = decisions[p]
    BY <2>1, <2>2, <2>3, <2>4, <2>8
  <2> QED BY <2>1, <2>5, <2>6, <2>7, <2>8 DEF Next, WorkerStep
<1> QED BY <1>1, PipelineInvariant, PTL DEF Spec, ChangesAreVisible

-----------------------------------------------------------------------------
(* Whatever else happens to an item, a copy of it stays a version it had.  *)
LEMMA CopiesStayVersions ==
    ASSUME NEW u \in Users, NEW p \in ProposedActions, NEW item \in Item, IsVersion(item, items[u][p]),
           items \in [Users -> [ProposedActions -> Item]], items' \in [Users -> [ProposedActions -> Item]],
           items'[u][p] # items[u][p] => items'[u][p].cursor > items[u][p].cursor
    PROVE  IsVersion(item, items'[u][p])
<1>1. item.cursor \in Nat /\ items[u][p].cursor \in Nat /\ items'[u][p].cursor \in Nat
  BY DEF Item
<1> QED BY <1>1 DEF IsVersion

(* The steps of the recorder that devices cause, and the ingest.           *)
LEMMA SyncReviewInd ==
    ASSUME ReviewInd,
           \/ Ingest
           \/ \E d \in Devices : DecisionRecorded(d) \/ DecisionNotRecorded(d)
           \/ \E d \in Devices : DecisionArrives(d) /\ command[d].action \in ProposedActions
                                                   /\ command[d].kind \in {"confirm", "reject"}
    PROVE  DecisionNext
<1>1. \A q \in ProposedActions : 1 .. MaxSourceOf[q] \subseteq 1 .. MaxSource
  BY MaxSourceAssumption, MaxSourceOfAssumption
<1>2. CASE Ingest
  BY <1>1, <1>2 DEF Ingest, DecisionNext
<1>3. CASE \E d \in Devices : DecisionRecorded(d) \/ DecisionNotRecorded(d)
  BY <1>3 DEF DecisionRecorded, DecisionNotRecorded, DecisionNext, DecideStep
<1>4. ASSUME NEW d \in Devices, DecisionArrives(d), command[d].action \in ProposedActions,
             command[d].kind \in {"confirm", "reject"}
      PROVE  DecisionNext
  <2>1. command[d].kind \in DecisionKinds /\ None \in PayloadsFor(command[d].kind)
    BY <1>4 DEF DecisionKinds, ConfirmKinds, PayloadsFor
  <2> QED BY <1>4, <2>1 DEF DecisionArrives, DecisionNext
<1> QED BY <1>2, <1>3, <1>4

(* A decision that the store takes in is the command of a device.          *)
LEMMA SyncStepOfReview ==
    ASSUME SyncInd, SyncNext
    PROVE  UNCHANGED reviewVars \/ DecisionNext
<1>1. ASSUME NEW d \in Devices, DecisionArrives(d)
      PROVE  command[d].action \in ProposedActions /\ command[d].kind \in {"confirm", "reject"}
  BY <1>1 DEF DecisionArrives, SyncInd, CopiesAreVersions, None
<1> QED BY <1>1, SyncReviewInd DEF SyncInd, SyncNext, Load, Submit, DecisionRefused, DecisionLost, ReadItems,
           ReadActions, LoadAnswered, LoadFailed, DecisionAnswered, AnswerLost

(* What a step leaves of the tables and of the copies that stay where they *)
(* are.                                                                    *)
LEMMA SyncTables ==
    ASSUME SyncInd, [SyncNext]_syncVars
    PROVE  /\ ReviewInd'
           /\ items \in [Users -> [ProposedActions -> Item]] /\ items' \in [Users -> [ProposedActions -> Item]]
           /\ \A u \in Users, p \in ProposedActions, item \in Item : IsVersion(item, items[u][p]) => IsVersion(item, items'[u][p])
<1>1. CASE UNCHANGED reviewVars
  <2>1. UNCHANGED <<ledger, created, decisions, items, cursorSeq, audit, outbox, requests, acks>>
    BY <1>1 DEF reviewVars, storeVars, decisionVars
  <2>2. ReviewInd'
    BY <2>1, TablesStand DEF SyncInd, ReviewInd, ReviewTypeOK, RequestsAreDecisions, Busy, storeVars
  <2> QED BY <2>1, <2>2 DEF SyncInd, ReviewInd, ReviewTypeOK, IsVersion
<1>2. CASE DecisionNext
  <2>1. ReviewInd'
    BY <1>2, DecisionNextInd DEF SyncInd
  <2>2. items \in [Users -> [ProposedActions -> Item]] /\ items' \in [Users -> [ProposedActions -> Item]]
    BY <2>1 DEF SyncInd, ReviewInd, ReviewTypeOK
  <2> QED BY <1>2, <2>1, <2>2, DecisionStepIsVisible, CopiesStayVersions DEF SyncInd
<1> QED BY <1>1, <1>2, SyncStepOfReview DEF syncVars

(* Copies come from the store, travel with a read to the screen and from   *)
(* there with a command back.                                              *)
LEMMA CopiesMove ==
    ASSUME SyncInd, [SyncNext]_syncVars, SyncTypeOK',
           \A d \in Devices, p \in ProposedActions :
               \/ shown'[d].items[p] = shown[d].items[p]
               \/ \E r \in reads : r.dev = d /\ shown'[d].items[p] = r.items[p],
           \A r \in reads', p \in ProposedActions :
               \/ r.items[p] = NoItem
               \/ \E s \in reads : s.dev = r.dev /\ r.items[p] = s.items[p]
               \/ UNCHANGED items /\ r.items[p] = items[UserOf[r.dev]][p],
           \A d \in Devices : command'[d].phase # None =>
               \/ /\ command[d].phase # None
                  /\ command'[d].action = command[d].action
                  /\ command'[d].kind = command[d].kind
                  /\ command'[d].item = command[d].item
               \/ /\ command'[d].action \in ProposedActions
                  /\ command'[d].kind \in {"confirm", "reject"}
                  /\ command'[d].item = shown[d].items[command'[d].action]
                  /\ command'[d].item # NoItem
    PROVE  CopiesAreVersions'
<1>1. \A d \in Devices : UserOf[d] \in Users
  BY UserOfAssumption
<1>2. \A u \in Users, p \in ProposedActions, item \in Item : IsVersion(item, items[u][p]) => IsVersion(item, items'[u][p])
  BY SyncTables
<1>3. /\ \A d \in Devices, p \in ProposedActions : shown[d].items[p] \in Item
      /\ \A r \in reads, p \in ProposedActions : r.dev \in Devices /\ r.items[p] \in Item
      /\ \A d \in Devices : command[d].item \in Item
  BY DEF SyncInd, SyncTypeOK, Read
<1>4. \A r \in reads' : r.dev \in Devices
  BY DEF SyncTypeOK, Read
<1>5. ASSUME NEW d \in Devices, NEW p \in ProposedActions
      PROVE  /\ IsVersion(shown[d].items[p], items'[UserOf[d]][p])
             /\ \A r \in reads : r.dev = d => IsVersion(r.items[p], items'[UserOf[d]][p])
  BY <1>1, <1>2, <1>3 DEF SyncInd, CopiesAreVersions
<1>6. ASSUME NEW d \in Devices, NEW p \in ProposedActions
      PROVE  IsVersion(shown'[d].items[p], items'[UserOf[d]][p])
  BY <1>5 DEF IsVersion
<1>7. ASSUME NEW r \in reads', NEW p \in ProposedActions
      PROVE  IsVersion(r.items[p], items'[UserOf[r.dev]][p])
  <2>1. CASE r.items[p] = NoItem
    BY <2>1 DEF IsVersion
  <2>2. CASE \E s \in reads : s.dev = r.dev /\ r.items[p] = s.items[p]
    BY <1>4, <1>5, <2>2
  <2>3. CASE UNCHANGED items /\ r.items[p] = items[UserOf[r.dev]][p]
    <3>1. items[UserOf[r.dev]][p].cursor \in Nat
      BY <1>1, <1>4 DEF SyncInd, ReviewInd, ReviewTypeOK, Item
    <3> QED BY <2>3, <3>1 DEF IsVersion
  <2> QED BY <2>1, <2>2, <2>3
<1>8. ASSUME NEW d \in Devices, command'[d].phase # None
      PROVE  /\ command'[d].action \in ProposedActions
             /\ command'[d].kind \in {"confirm", "reject"}
             /\ command'[d].item # NoItem
             /\ IsVersion(command'[d].item, items'[UserOf[d]][command'[d].action])
  <2>1. CASE /\ command[d].phase # None
             /\ command'[d].action = command[d].action
             /\ command'[d].kind = command[d].kind
             /\ command'[d].item = command[d].item
    <3>1. /\ command[d].action \in ProposedActions /\ command[d].kind \in {"confirm", "reject"}
          /\ command[d].item # NoItem /\ IsVersion(command[d].item, items[UserOf[d]][command[d].action])
      BY <2>1 DEF SyncInd, CopiesAreVersions
    <3>2. IsVersion(command[d].item, items'[UserOf[d]][command[d].action])
      BY <1>1, <1>2, <1>3, <3>1
    <3> QED BY <2>1, <3>1, <3>2 DEF IsVersion
  <2>2. CASE /\ command'[d].action \in ProposedActions
             /\ command'[d].kind \in {"confirm", "reject"}
             /\ command'[d].item = shown[d].items[command'[d].action]
             /\ command'[d].item # NoItem
    BY <1>5, <2>2 DEF IsVersion
  <2> QED BY <1>8, <2>1, <2>2
<1> QED BY <1>6, <1>7, <1>8 DEF CopiesAreVersions

(* A new read is empty.                                                    *)
LEMMA NewReadTyped ==
    ASSUME NEW d \in Devices, NEW id \in Nat
    PROVE  /\ SnapshotRead(d, id) \in Read
           /\ SnapshotRead(d, id).dev = d /\ SnapshotRead(d, id).id = id
           /\ \A p \in ProposedActions : SnapshotRead(d, id).items[p] = NoItem
<1>1. NoItems \in [ProposedActions -> Item] /\ \A p \in ProposedActions : NoItems[p] = NoItem
  BY DEF NoItems, NoItem, Item, ItemStatus, LedgerStatus, None
<1>2. NoGates \in [ProposedActions -> Gates]
  BY DEF NoGates, Gates
<1> QED BY <1>1, <1>2 DEF SnapshotRead, Read

(* A load starts with a number of its own.                                 *)
LEMMA LoadInd ==
    ASSUME SyncInd, NEW d \in Devices, NEW force \in BOOLEAN, Load(d, force), SyncNext
    PROVE  SyncInd'
<1> DEFINE new == SnapshotRead(d, latest[d] + 1)
<1>0. latest \in [Devices -> Nat] /\ latest[d] + 1 \in Nat /\ reads \subseteq Read
  BY DEF SyncInd, SyncTypeOK
<1>1. /\ latest' = [latest EXCEPT ![d] = latest[d] + 1] /\ reads' = reads \cup {new}
      /\ UNCHANGED <<shown, command, requests>>
  BY DEF Load, reviewVars, decisionVars
<1>2. /\ new \in Read /\ new.dev = d /\ new.id = latest[d] + 1
      /\ \A p \in ProposedActions : new.items[p] = NoItem
  BY <1>0, NewReadTyped
<1> HIDE DEF new
<1>3. SyncTypeOK'
  BY <1>0, <1>1, <1>2 DEF SyncInd, SyncTypeOK
<1>4. CopiesAreVersions'
  BY <1>1, <1>2, <1>3, CopiesMove
<1>5. \A r \in reads : r.dev \in Devices /\ r.id \in Nat /\ r.id <= latest[r.dev]
  BY DEF SyncInd, SyncTypeOK, Read, LoadsAreOrdered
<1>6. RequestIsCommand'
  <2>1. new.id # OfDecision
    BY <1>0, <1>2 DEF OfDecision
  <2> QED BY <1>1, <2>1 DEF SyncInd, RequestIsCommand, Busy
<1>7. LoadsAreOrdered'
  <2>1. \A r \in reads : /\ r.id <= latest'[r.dev]
                         /\ r.dev = d => r.id # new.id /\ r.id # latest'[d]
                         /\ r.dev # d => latest'[r.dev] = latest[r.dev]
    BY <1>0, <1>1, <1>2, <1>5
  <2>2. new.id <= latest'[new.dev]
    BY <1>0, <1>1, <1>2
  <2> QED BY <1>1, <1>2, <2>1, <2>2 DEF SyncInd, LoadsAreOrdered
<1> QED BY <1>3, <1>4, <1>6, <1>7, SyncTables DEF SyncInd

(* A device submits what it shows, ends a submission that was refused or   *)
(* lost, or has its request read by the server.                            *)
LEMMA CommandInd ==
    ASSUME SyncInd, NEW d \in Devices, SyncNext,
           \/ \E p \in ProposedActions, kind \in {"confirm", "reject"} : Submit(d, p, kind)
           \/ DecisionArrives(d) \/ DecisionRefused(d) \/ DecisionLost(d)
    PROVE  SyncInd'
<1>0. /\ command \in [Devices -> [action : ProposedActions \cup {None}, kind : {None, "confirm", "reject"},
                                  item : Item, phase : {None, "sent", "loaded", "recorded"}]]
      /\ \A e \in Devices, p \in ProposedActions : shown[e].items[p] \in Item
      /\ requests \in [Devices -> [action : ProposedActions \cup {None}, decision : Decision, cursor : Nat]]
      /\ NoItem \in Item
  BY DEF SyncInd, SyncTypeOK, ReviewInd, ReviewTypeOK, NoItem, Item, ItemStatus, LedgerStatus, None
<1>1. UNCHANGED <<shown, latest, reads>>
  BY DEF Submit, DecisionArrives, DecisionRefused, DecisionLost
<1>2. \A e \in Devices : Busy(e) => command[e].phase = "loaded"
  BY DEF SyncInd, RequestIsCommand
<1>3. LoadsAreOrdered'
  BY <1>1 DEF SyncInd, LoadsAreOrdered
<1>4. ASSUME NEW p \in ProposedActions, NEW kind \in {"confirm", "reject"}, Submit(d, p, kind)
      PROVE  SyncTypeOK' /\ CopiesAreVersions' /\ RequestIsCommand'
  <2> DEFINE new == [action |-> p, kind |-> kind, item |-> shown[d].items[p], phase |-> "sent"]
  <2>1. /\ command[d].phase = None /\ command' = [command EXCEPT ![d] = new]
        /\ shown[d].items[p] # NoItem /\ UNCHANGED requests
    BY <1>4 DEF Submit, NoCommand, reviewVars, decisionVars
  <2>2. SyncTypeOK'
    BY <1>0, <1>1, <2>1 DEF SyncInd, SyncTypeOK
  <2>3. CopiesAreVersions'
    BY <1>0, <1>1, <2>1, <2>2, CopiesMove
  <2>4. RequestIsCommand'
    BY <1>0, <1>1, <1>2, <2>1 DEF SyncInd, RequestIsCommand, Busy, None
  <2> QED BY <2>2, <2>3, <2>4
<1>5. CASE DecisionRefused(d) \/ DecisionLost(d)
  <2>1. command[d].phase = "sent" /\ command' = [command EXCEPT ![d] = NoCommand] /\ UNCHANGED requests
    BY <1>5 DEF DecisionRefused, DecisionLost, SubmissionEnds, reviewVars, decisionVars
  <2>2. SyncTypeOK'
    BY <1>0, <1>1, <2>1 DEF SyncInd, SyncTypeOK, NoCommand
  <2>3. CopiesAreVersions'
    BY <1>0, <1>1, <2>1, <2>2, CopiesMove DEF NoCommand
  <2>4. RequestIsCommand'
    BY <1>0, <1>1, <1>2, <2>1 DEF SyncInd, RequestIsCommand, Busy, None, NoCommand
  <2> QED BY <1>3, <2>2, <2>3, <2>4, SyncTables DEF SyncInd
<1>6. CASE DecisionArrives(d)
  <2> DEFINE p == command[d].action
             u == UserOf[d]
             new == [action |-> p, decision |-> [actor |-> u, kind |-> command[d].kind, payload |-> None],
                     cursor |-> items[u][p].cursor]
  <2>1. /\ command[d].phase = "sent" /\ command' = [command EXCEPT ![d].phase = "loaded"]
        /\ requests' = [requests EXCEPT ![d] = new]
        /\ items[u][p].cursor = command[d].item.cursor
    BY <1>6 DEF DecisionArrives, SubmissionIs, LoadDecisionContext, CursorExpected
  <2>2. SyncTypeOK'
    BY <1>0, <1>1, <2>1 DEF SyncInd, SyncTypeOK
  <2>3. CopiesAreVersions'
    BY <1>0, <1>1, <2>1, <2>2, CopiesMove DEF None
  <2>4. ASSUME NEW e \in Devices, e # d
        PROVE  command'[e] = command[e] /\ requests'[e] = requests[e]
    BY <1>0, <2>1, <2>4
  <2>5. /\ command'[d].phase = "loaded" /\ requests'[d] = new
        /\ command'[d].action = p /\ command'[d].kind = command[d].kind /\ command'[d].item = command[d].item
    BY <1>0, <2>1
  <2>6. RequestIsCommand'
    BY <1>1, <2>1, <2>4, <2>5 DEF SyncInd, RequestIsCommand, Busy
  <2> QED BY <1>3, <2>2, <2>3, <2>6, SyncTables DEF SyncInd
<1> QED BY <1>3, <1>4, <1>5, <1>6, SyncTables DEF SyncInd

(* A decision is recorded, and its answer is being read, or it is not.     *)
LEMMA OutcomeInd ==
    ASSUME SyncInd, NEW d \in Devices, SyncNext, DecisionRecorded(d) \/ DecisionNotRecorded(d)
    PROVE  SyncInd'
<1>0. /\ command \in [Devices -> [action : ProposedActions \cup {None}, kind : {None, "confirm", "reject"},
                                  item : Item, phase : {None, "sent", "loaded", "recorded"}]]
      /\ requests \in [Devices -> [action : ProposedActions \cup {None}, decision : Decision, cursor : Nat]]
      /\ reads \subseteq Read /\ NoItem \in Item /\ OfDecision \in Nat
  BY DEF SyncInd, SyncTypeOK, ReviewInd, ReviewTypeOK, NoItem, Item, ItemStatus, LedgerStatus, None, OfDecision
<1>1. /\ UNCHANGED <<shown, latest>>
      /\ command[d].phase = "loaded"
      /\ requests' = [requests EXCEPT ![d] = NoRequest]
  BY DEF DecisionRecorded, DecisionNotRecorded, RecordDecision, RecordDuplicate, RecordConflict, RequestLost, Answer
<1>2. \A r \in reads : r.dev = d => r.id # OfDecision
  BY <1>1 DEF SyncInd, RequestIsCommand
<1>3. CASE DecisionRecorded(d)
  <2> DEFINE new == SnapshotRead(d, OfDecision)
  <2>1. command' = [command EXCEPT ![d].phase = "recorded"] /\ reads' = reads \cup {new}
    BY <1>3 DEF DecisionRecorded, SubmissionIs
  <2>2. /\ new \in Read /\ new.dev = d /\ new.id = OfDecision
        /\ \A p \in ProposedActions : new.items[p] = NoItem
    BY <1>0, NewReadTyped
  <2> HIDE DEF new
  <2>3. SyncTypeOK'
    <3>1. reads' \subseteq Read
      BY <1>0, <2>1, <2>2
    <3>2. command' \in [Devices -> [action : ProposedActions \cup {None}, kind : {None, "confirm", "reject"},
                                    item : Item, phase : {None, "sent", "loaded", "recorded"}]]
      BY <1>0, <2>1
    <3> QED BY <1>1, <3>1, <3>2 DEF SyncInd, SyncTypeOK
  <2>4. CopiesAreVersions'
    <3>1. \A e \in Devices : command'[e].phase # None =>
             /\ command[e].phase # None
             /\ command'[e].action = command[e].action
             /\ command'[e].kind = command[e].kind
             /\ command'[e].item = command[e].item
      BY <1>0, <1>1, <2>1 DEF None
    <3> QED BY <1>1, <2>1, <2>2, <2>3, <3>1, CopiesMove
  <2>5. RequestIsCommand'
    BY <1>0, <1>1, <2>1, <2>2 DEF SyncInd, RequestIsCommand, Busy
  <2>6. OfDecision <= latest[d]
    BY DEF SyncInd, SyncTypeOK, OfDecision
  <2>7. LoadsAreOrdered'
    BY <1>1, <1>2, <2>1, <2>2, <2>6 DEF SyncInd, LoadsAreOrdered
  <2> QED BY <2>3, <2>4, <2>5, <2>7, SyncTables DEF SyncInd
<1>4. CASE DecisionNotRecorded(d)
  <2>1. command' = [command EXCEPT ![d] = NoCommand] /\ UNCHANGED reads
    BY <1>4 DEF DecisionNotRecorded, SubmissionEnds
  <2>2. SyncTypeOK'
    BY <1>0, <1>1, <2>1 DEF SyncInd, SyncTypeOK, NoCommand
  <2>3. CopiesAreVersions'
    BY <1>0, <1>1, <2>1, <2>2, CopiesMove DEF NoCommand
  <2>4. RequestIsCommand'
    BY <1>0, <1>1, <1>2, <2>1 DEF SyncInd, RequestIsCommand, Busy, None, NoCommand
  <2>5. LoadsAreOrdered'
    BY <1>1, <2>1 DEF SyncInd, LoadsAreOrdered
  <2> QED BY <2>2, <2>3, <2>4, <2>5, SyncTables DEF SyncInd
<1> QED BY <1>3, <1>4

(* The two queries of a snapshot.  What the first one finds is the current *)
(* version of every item, so it is not older than anything shown.          *)
LEMMA QueryInd ==
    ASSUME SyncInd, NEW r \in reads, SyncNext, ReadItems(r) \/ ReadActions(r)
    PROVE  SyncInd'
<1> DEFINE u == UserOf[r.dev]
<1>0. /\ r \in Read /\ r.dev \in Devices /\ u \in Users
      /\ r.stage \in {"items", "actions", "done"} /\ reads \subseteq Read
  BY UserOfAssumption DEF SyncInd, SyncTypeOK, Read
<1>1. UNCHANGED <<items, requests, shown, latest, command>>
  BY DEF ReadItems, ReadActions, reviewVars, storeVars, decisionVars, clientVars
<1>2. PICK new \in Read : /\ reads' = (reads \ {r}) \cup {new}
                          /\ new.dev = r.dev /\ new.id = r.id
                          /\ \A p \in ProposedActions : new.items[p] \in {r.items[p], NoItem, items[u][p]}
  <2>1. CASE ReadItems(r)
    <3> DEFINE new == [r EXCEPT !.items = ListItems(u), !.stage = IF Page(u) = {} THEN "done" ELSE "actions"]
    <3>1. /\ ListItems(u) \in [ProposedActions -> Item]
          /\ \A p \in ProposedActions : ListItems(u)[p] \in {NoItem, items[u][p]}
      BY <1>0 DEF ListItems, SyncInd, ReviewInd, ReviewTypeOK, NoItem, Item, ItemStatus, LedgerStatus, None
    <3>2. /\ new \in Read /\ new.dev = r.dev /\ new.id = r.id /\ new.items = ListItems(u)
      BY <1>0, <3>1 DEF Read
    <3>3. reads' = (reads \ {r}) \cup {new}
      BY <2>1 DEF ReadItems
    <3> HIDE DEF new
    <3> QED BY <3>1, <3>2, <3>3
  <2>2. CASE ReadActions(r)
    <3> DEFINE new == [r EXCEPT !.gates = ListActions(u), !.stage = "done"]
    <3>1. ListActions(u) \in [ProposedActions -> Gates]
      BY DEF ListActions, displayGateState, Gates
    <3>2. /\ new \in Read /\ new.dev = r.dev /\ new.id = r.id /\ new.items = r.items
      BY <1>0, <3>1 DEF Read
    <3>3. reads' = (reads \ {r}) \cup {new}
      BY <2>2 DEF ReadActions
    <3> HIDE DEF new
    <3> QED BY <3>2, <3>3
  <2> QED BY <2>1, <2>2
<1>3. SyncTypeOK'
  BY <1>1, <1>2 DEF SyncInd, SyncTypeOK
<1>4. CopiesAreVersions'
  BY <1>1, <1>2, <1>3, CopiesMove
<1>5. RequestIsCommand'
  BY <1>1, <1>2 DEF SyncInd, RequestIsCommand, Busy
<1>6. LoadsAreOrdered'
  <2>1. ASSUME NEW p \in ProposedActions, shown[r.dev].by = "load", r.id # OfDecision, r.id = latest[r.dev],
               NoItem \notin {shown[r.dev].items[p], new.items[p]}
        PROVE  new.items[p].cursor >= shown[r.dev].items[p].cursor
    <3>1. CASE new.items[p] = r.items[p]
      BY <2>1, <3>1 DEF SyncInd, LoadsAreOrdered
    <3>2. CASE new.items[p] = items[u][p]
      <4>1. items[u][p].cursor \in Nat /\ shown[r.dev].items[p].cursor \in Nat
        BY <1>0 DEF SyncInd, SyncTypeOK, ReviewInd, ReviewTypeOK, Item
      <4>2. shown[r.dev].items[p].cursor <= items[u][p].cursor
        BY <1>0, <2>1 DEF SyncInd, CopiesAreVersions, IsVersion
      <4> QED BY <3>2, <4>1, <4>2
    <3> QED BY <1>2, <2>1, <3>1, <3>2
  <2>2. \A s \in reads' : (s \in reads /\ s # r) \/ s = new
    BY <1>2
  <2>3. \A s \in reads' : s.id <= latest'[s.dev]
    BY <1>1, <1>2, <2>2 DEF SyncInd, LoadsAreOrdered
  <2>4. \A s, t \in reads' : s.dev = t.dev /\ s.id = t.id => s = t
    BY <1>2, <2>2 DEF SyncInd, LoadsAreOrdered
  <2> QED BY <1>1, <1>2, <2>1, <2>2, <2>3, <2>4 DEF SyncInd, LoadsAreOrdered
<1> QED BY <1>3, <1>4, <1>5, <1>6, SyncTables DEF SyncInd

(* Answers arrive, in any order, or do not.  A load that is answered late  *)
(* is dropped, and the one that is shown was the latest and read once.     *)
LEMMA AnswerInd ==
    ASSUME SyncInd, NEW r \in reads, SyncNext,
           LoadAnswered(r) \/ LoadFailed(r) \/ DecisionAnswered(r) \/ AnswerLost(r)
    PROVE  SyncInd'
<1> DEFINE d == r.dev
<1>0. /\ r \in Read /\ d \in Devices /\ reads \subseteq Read
      /\ shown \in [Devices -> [items : [ProposedActions -> Item], gates : [ProposedActions -> Gates],
                                by : {None, "load", "decision"}]]
      /\ command \in [Devices -> [action : ProposedActions \cup {None}, kind : {None, "confirm", "reject"},
                                  item : Item, phase : {None, "sent", "loaded", "recorded"}]]
      /\ NoItem \in Item
  BY DEF SyncInd, SyncTypeOK, Read, NoItem, Item, ItemStatus, LedgerStatus, None
<1>1. UNCHANGED <<requests, latest>> /\ reads' = reads \ {r}
  BY DEF LoadAnswered, LoadFailed, DecisionAnswered, AnswerLost, reviewVars, decisionVars
<1>2. \/ UNCHANGED shown
      \/ /\ r.id # OfDecision /\ r.id = latest[d]
         /\ shown' = [shown EXCEPT ![d] = [items |-> r.items, gates |-> r.gates, by |-> "load"]]
      \/ shown' = [shown EXCEPT ![d] = [items |-> r.items, gates |-> r.gates, by |-> "decision"]]
  BY DEF LoadAnswered, LoadFailed, DecisionAnswered, AnswerLost, applySnapshot, IsCurrentLoad
<1>3. \/ UNCHANGED command
      \/ r.id = OfDecision /\ command' = [command EXCEPT ![d] = NoCommand]
  BY DEF LoadAnswered, LoadFailed, DecisionAnswered, AnswerLost, SubmissionEnds
<1>4. r.items \in [ProposedActions -> Item] /\ r.gates \in [ProposedActions -> Gates]
  BY <1>0 DEF Read
<1> HIDE DEF d
<1>5. SyncTypeOK'
  <2>1. shown' \in [Devices -> [items : [ProposedActions -> Item], gates : [ProposedActions -> Gates],
                                by : {None, "load", "decision"}]]
    <3> DEFINE Screen == [items : [ProposedActions -> Item], gates : [ProposedActions -> Gates],
                          by : {None, "load", "decision"}]
               loaded == [items |-> r.items, gates |-> r.gates, by |-> "load"]
               answered == [items |-> r.items, gates |-> r.gates, by |-> "decision"]
    <3>1. loaded \in Screen /\ answered \in Screen
      BY <1>4
    <3>2. shown \in [Devices -> Screen]
      BY <1>0
    <3>3. shown' = shown \/ shown' = [shown EXCEPT ![d] = loaded] \/ shown' = [shown EXCEPT ![d] = answered]
      BY <1>2
    <3> HIDE DEF Screen, loaded, answered
    <3>4. shown' \in [Devices -> Screen]
      BY <3>1, <3>2, <3>3
    <3> QED BY <3>4 DEF Screen
  <2>2. command' \in [Devices -> [action : ProposedActions \cup {None}, kind : {None, "confirm", "reject"},
                                  item : Item, phase : {None, "sent", "loaded", "recorded"}]]
    <3> DEFINE Command == [action : ProposedActions \cup {None}, kind : {None, "confirm", "reject"},
                           item : Item, phase : {None, "sent", "loaded", "recorded"}]
    <3>1. NoCommand \in Command
      BY <1>0 DEF NoCommand
    <3>2. command \in [Devices -> Command]
      BY <1>0
    <3> HIDE DEF Command
    <3>3. command' \in [Devices -> Command]
      BY <1>3, <3>1, <3>2
    <3> QED BY <3>3 DEF Command
  <2> QED BY <1>0, <1>1, <2>1, <2>2 DEF SyncInd, SyncTypeOK
<1>6. CopiesAreVersions'
  <2>1. \A e \in Devices, p \in ProposedActions :
           \/ shown'[e].items[p] = shown[e].items[p]
           \/ \E s \in reads : s.dev = e /\ shown'[e].items[p] = s.items[p]
    <3>1. \A e \in Devices : shown'[e] = shown[e] \/ (e = r.dev /\ shown'[e].items = r.items)
      BY <1>0, <1>2 DEF d
    <3> QED BY <3>1
  <2>2. \A e \in Devices : command'[e].phase # None => command'[e] = command[e]
    BY <1>0, <1>3 DEF NoCommand
  <2> QED BY <1>1, <1>5, <2>1, <2>2, CopiesMove
<1>7. RequestIsCommand'
  <2>1. CASE UNCHANGED command
    BY <1>1, <2>1 DEF SyncInd, RequestIsCommand, Busy
  <2>2. CASE r.id = OfDecision /\ command' = [command EXCEPT ![d] = NoCommand]
    <3>1. command[d].phase = "recorded" /\ ~ Busy(d)
      BY <1>0, <2>2 DEF SyncInd, RequestIsCommand, d
    <3>2. \A s \in reads' : s.dev = d => s.id # OfDecision
      BY <1>1, <2>2 DEF SyncInd, LoadsAreOrdered, d
    <3>3. command'[d].phase = None /\ \A e \in Devices : e # d => command'[e] = command[e]
      BY <1>0, <2>2 DEF NoCommand
    <3> QED BY <1>0, <1>1, <3>1, <3>2, <3>3 DEF SyncInd, RequestIsCommand, Busy, None
  <2> QED BY <1>3, <2>1, <2>2
<1>8. LoadsAreOrdered'
  <2>1. \A s \in reads' : s.dev = d => s.id # r.id
    BY <1>1 DEF SyncInd, LoadsAreOrdered, d
  <2>2. \A s \in reads' : \/ shown'[s.dev] = shown[s.dev]
                          \/ s.dev = d /\ r.id = latest[d]
                          \/ shown'[s.dev].by = "decision"
    <3>1. \A s \in reads : s.dev \in Devices
      BY <1>0 DEF Read
    <3> QED BY <1>0, <1>1, <1>2, <3>1
  <2> QED BY <1>1, <2>1, <2>2 DEF SyncInd, LoadsAreOrdered
<1> QED BY <1>5, <1>6, <1>7, <1>8, SyncTables DEF SyncInd

(* The ingest touches the store only.                                      *)
LEMMA IngestInd == ASSUME SyncInd, [SyncNext]_syncVars, Ingest \/ UNCHANGED syncVars PROVE SyncInd'
<1>1. UNCHANGED <<requests, shown, latest, command, reads>>
  BY DEF Ingest, UpsertReviewInboxItem, decisionVars, clientVars, syncVars, reviewVars
<1>2. SyncTypeOK'
  BY <1>1 DEF SyncInd, SyncTypeOK
<1>3. CopiesAreVersions'
  BY <1>1, <1>2, CopiesMove
<1>4. RequestIsCommand' /\ LoadsAreOrdered'
  BY <1>1 DEF SyncInd, RequestIsCommand, Busy, LoadsAreOrdered
<1> QED BY <1>2, <1>3, <1>4, SyncTables DEF SyncInd

(* The invariant of the client view holds in every reachable state.        *)
THEOREM SyncInvariant == SyncSpec => []SyncInd
<1>1. SyncInit => SyncInd
  <2> SUFFICES ASSUME SyncInit PROVE SyncInd
    OBVIOUS
  <2>1. ReviewInd
    BY ReviewInitInd DEF SyncInit
  <2>2. NoItem \in Item /\ NoItems \in [ProposedActions -> Item] /\ NoGates \in [ProposedActions -> Gates]
    BY DEF NoItem, NoItems, NoGates, Gates, Item, ItemStatus, LedgerStatus, None
  <2>3. SyncTypeOK
    BY <2>2 DEF SyncInit, SyncTypeOK, NoCommand
  <2>4. CopiesAreVersions /\ LoadsAreOrdered
    BY DEF SyncInit, CopiesAreVersions, IsVersion, LoadsAreOrdered, NoItems, NoCommand
  <2>5. RequestIsCommand
    BY DEF SyncInit, ReviewInit, DecisionInit, RequestIsCommand, Busy, NoCommand, None
  <2> QED BY <2>1, <2>3, <2>4, <2>5 DEF SyncInd
<1>2. SyncInd /\ [SyncNext]_syncVars => SyncInd'
  <2> SUFFICES ASSUME SyncInd, [SyncNext]_syncVars PROVE SyncInd'
    OBVIOUS
  <2>1. CASE Ingest \/ UNCHANGED syncVars
    BY <2>1, IngestInd
  <2>2. CASE SyncNext
    BY <2>1, <2>2, LoadInd, CommandInd, OutcomeInd, QueryInd, AnswerInd DEF SyncNext
  <2> QED BY <2>1, <2>2
<1> QED BY <1>1, <1>2, PTL DEF SyncSpec

(* record_decision takes in only the click of a user whose device showed   *)
(* the item exactly as the transaction finds it.                           *)
THEOREM DecidedAsItWasShown == SyncSpec => DecidedAsShown
<1>1. SyncInd /\ [SyncNext]_syncVars =>
        [\A p \in ProposedActions : decisions'[p] # decisions[p] =>
            \E d \in Devices : /\ command[d].action = p
                               /\ command[d].kind = decisions'[p].kind
                               /\ UserOf[d] = decisions'[p].actor
                               /\ command[d].item = items[UserOf[d]][p] ]_syncVars
  <2> SUFFICES ASSUME SyncInd, SyncNext, NEW p \in ProposedActions, decisions'[p] # decisions[p]
               PROVE  \E d \in Devices : /\ command[d].action = p
                                         /\ command[d].kind = decisions'[p].kind
                                         /\ UserOf[d] = decisions'[p].actor
                                         /\ command[d].item = items[UserOf[d]][p]
    OBVIOUS
  <2>1. PICK d \in Devices : DecisionRecorded(d) /\ RecordDecision(d)
    BY DEF SyncNext, Ingest, UpsertReviewInboxItem, Load, Submit, DecisionArrives, LoadDecisionContext,
           DecisionRefused, DecisionLost, DecisionRecorded, RecordDuplicate, DecisionNotRecorded, RecordConflict,
           RequestLost, ReadItems, ReadActions, LoadAnswered, LoadFailed, DecisionAnswered, AnswerLost,
           reviewVars, storeVars
  <2>2. RecordEffect(requests[d].decision, requests[d].action, requests[d].decision.kind, UserOf[d])
    BY <2>1, RecordShape DEF SyncInd
  <2>3. requests[d].action = p /\ decisions'[p] = requests[d].decision
    BY <2>2 DEF RecordEffect, SyncInd, ReviewInd, ReviewTypeOK
  <2>4. /\ command[d].action = p /\ command[d].kind = requests[d].decision.kind
        /\ requests[d].decision.actor = UserOf[d]
        /\ requests[d].cursor = command[d].item.cursor
    BY <2>1, <2>3 DEF DecisionRecorded, SyncInd, RequestIsCommand
  <2>5. command[d].item # NoItem /\ IsVersion(command[d].item, items[UserOf[d]][p])
    BY <2>1, <2>4 DEF DecisionRecorded, SyncInd, CopiesAreVersions, None
  <2>6. items[UserOf[d]][p].cursor = command[d].item.cursor
    BY <2>1, <2>3, <2>4 DEF RecordDecision, ItemUnchanged
  <2>7. command[d].item = items[UserOf[d]][p]
    BY <2>5, <2>6 DEF IsVersion
  <2> QED BY <2>3, <2>4, <2>7
<1> QED BY <1>1, SyncInvariant, PTL DEF SyncSpec, DecidedAsShown

(* However the answers to overlapping loads arrive, load never takes an    *)
(* item on the screen back to an older version.                            *)
THEOREM ScreenOnlyMovesForward == SyncSpec => LoadsNeverGoBack
<1>1. SyncInd /\ [SyncNext]_syncVars =>
        [\A d \in Devices, p \in ProposedActions :
            /\ shown[d].by = "load" /\ shown'[d].by = "load"
            /\ NoItem \notin {shown[d].items[p], shown'[d].items[p]}
            => shown'[d].items[p].cursor >= shown[d].items[p].cursor ]_syncVars
  <2> SUFFICES ASSUME SyncInd, SyncNext, NEW d \in Devices, NEW p \in ProposedActions,
                      shown[d].by = "load", shown'[d].by = "load",
                      NoItem \notin {shown[d].items[p], shown'[d].items[p]}
               PROVE  shown'[d].items[p].cursor >= shown[d].items[p].cursor
    OBVIOUS
  <2>0. shown[d].items[p].cursor \in Nat
    BY DEF SyncInd, SyncTypeOK, Item
  <2>1. CASE shown'[d] = shown[d]
    BY <2>0, <2>1
  <2>2. ASSUME NEW r \in reads, LoadAnswered(r), shown'[d] # shown[d]
        PROVE  shown'[d].items[p].cursor >= shown[d].items[p].cursor
    <3>1. r.id # OfDecision /\ r.id = latest[d] /\ r.dev = d /\ shown'[d].items = r.items
      BY <2>2 DEF LoadAnswered, applySnapshot, IsCurrentLoad, SyncInd, SyncTypeOK
    <3> QED BY <3>1 DEF SyncInd, LoadsAreOrdered
  <2>3. ASSUME NEW r \in reads, DecisionAnswered(r) PROVE shown'[d] = shown[d]
    BY <2>3 DEF DecisionAnswered, applySnapshot, SyncInd, SyncTypeOK
  <2> QED BY <2>1, <2>2, <2>3
       DEF SyncNext, Ingest, clientVars, Load, Submit, DecisionArrives, DecisionRefused, DecisionLost,
           DecisionRecorded, DecisionNotRecorded, ReadItems, ReadActions, LoadFailed, AnswerLost
<1> QED BY <1>1, SyncInvariant, PTL DEF SyncSpec, LoadsNeverGoBack
=============================================================================
