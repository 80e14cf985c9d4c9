------------------------- MODULE AuditOutboxProofs -------------------------
(***************************************************************************)
(* Theorems about AuditOutbox, for any number of envelopes, workers and    *)
(* recoveries, any delays and any number of faults.                        *)
(*                                                                         *)
(* The exclusion of unexpired claims is not inductive: CLAIM_AUDIT_OUTBOX  *)
(* looks at the row and not at the other workers.  OutboxInd adds what     *)
(* ties the two.  A claim whose lease runs is the one its row records      *)
(* (ClaimStands), and it is safe from a later claim because no worker's    *)
(* reading of the clock is from the future (ReadsArePast).  Claims are     *)
(* told apart by their attempt, because none is ahead of its row           *)
(* (ClaimsAreCounted).  A settled row is nobody's current attempt          *)
(* (SettledIsUnclaimed), so a requeue that keeps the count revives no      *)
(* stale worker (RequeuedIsFresh).                                         *)
(***************************************************************************)
EXTENDS AuditOutbox, WellFoundedInduction, TLAPS

(* What the rows say that nobody has touched yet, and of those a recovery  *)
(* will write: no worker can hold them.                                    *)
NewRowsAreFresh ==
    /\ \A m \in Messages : box[m].status = "none" => box[m].attempt_count = 0
    /\ \A r \in Recoveries, m \in Messages :
          m \in EnvelopesOf[r] /\ recovery[r].status \in {"none", "confirmed"} => box[m].status = "none"

(* A worker's lease comes from a reading of the clock that is past.        *)
ReadsArePast ==
    \A w \in Workers : /\ lease[w] <= now + LeaseMs
                       /\ pc[w] # "idle" => lease[w] >= LeaseMs

(* A worker claims a row once, and no claim is ahead of its row.           *)
ClaimsAreCounted ==
    \A w \in Workers :
        /\ \A c \in claims[w] : /\ box[c.id].status # "none"
                                /\ c.attempt_count <= box[c.id].attempt_count
        /\ \A c, d \in claims[w] : c.id = d.id => c = d

(* As long as its lease runs, a claim is the one its row records.          *)
ClaimStands ==
    \A w \in Workers : lease[w] > now => \A c \in claims[w] : MarkMatches(w, c)

(* What a worker is about to mark is what the sink has seen.               *)
ReplyIsTrue ==
    \A w \in Workers : pc[w] = "mark" =>
        /\ reply[w] \in {"sent", "retryable", "failed"}
        /\ reply[w] = "sent" => sink[Current(w).id].received
        /\ reply[w] = "failed" => sink[Current(w).id].refused

(* Nobody works on the attempt with which a row was settled.               *)
NotClaimed(m, n) == \A w \in Workers : [id |-> m, attempt_count |-> n] \notin claims[w]
SettledIsUnclaimed ==
    \A m \in Messages : box[m].status \in {"sent", "failed"} => NotClaimed(m, box[m].attempt_count)

(* A confirmed recovery names a row that was reported, and a row that it   *)
(* requeued waits for an attempt of its own.                               *)
RequeuedIsFresh ==
    \A r \in Recoveries :
        /\ recovery[r].status # "none" =>
              /\ recovery[r].id \in Messages
              /\ box[recovery[r].id].status # "none"
              /\ recovery[r].expected <= box[recovery[r].id].attempt_count
        /\ recovery[r].status = "succeeded" /\ box[recovery[r].id].attempt_count = recovery[r].expected =>
              /\ box[recovery[r].id].status = "pending"
              /\ NotClaimed(recovery[r].id, recovery[r].expected)

OutboxInd ==
    /\ TypeOK
    /\ NewRowsAreFresh
    /\ ReadsArePast
    /\ ClaimsAreCounted
    /\ AttemptIsUnique
    /\ ClaimStands
    /\ ReplyIsTrue
    /\ SettledIsUnclaimed
    /\ RequeuedIsFresh
    /\ SentWasReceived
    /\ FailedHasReason
    /\ ReopenedOncePerFailure

(* The configuration, one fact per constant.                               *)
LEMMA Config ==
    /\ BatchLimit \in Nat \ {0} /\ LeaseMs \in Nat \ {0} /\ RetryDelayMs \in Nat \ {0}
    /\ MaxAttempts \in Nat \ {0} /\ MaxTime \in Nat \ {0} /\ MaxFaults \in Nat
BY ConfigAssumption

(* A row stays a row when its fields are given values of their kind.       *)
LEMMA RowUpdate ==
    ASSUME NEW row \in Row, NEW s \in {"none", "pending", "sent", "failed"}, NEW n \in Nat, NEW t \in Nat
    PROVE  /\ [row EXCEPT !.status = s] \in Row
           /\ [row EXCEPT !.next_attempt_at = t] \in Row
           /\ [row EXCEPT !.status = s, !.next_attempt_at = t] \in Row
           /\ [row EXCEPT !.attempt_count = n, !.next_attempt_at = t] \in Row
BY DEF Row

(* A worker with claims has a current one, the one with the smallest id.   *)
LEMMA CurrentExists ==
    ASSUME NEW w \in Workers, claims[w] \subseteq Claim, claims[w] # {}
    PROVE  Current(w) \in claims[w]
<1> DEFINE ids == { c.id : c \in claims[w] }
<1>1. ids \subseteq Nat /\ ids # {}
  BY MessagesAssumption DEF Claim
<1>2. PICK i \in ids : \A j \in ids : ~ (<<j, i>> \in OpToRel(<, Nat))
  BY <1>1, NatLessThanWellFounded, WFMin
<1>3. \A j \in ids : i <= j
  <2> SUFFICES ASSUME NEW j \in ids, ~ (i <= j) PROVE FALSE
    OBVIOUS
  <2>1. i \in Nat /\ j \in Nat /\ j < i
    BY <1>1
  <2>2. <<j, i>> \in OpToRel(<, Nat)
    BY <2>1 DEF OpToRel
  <2> QED BY <1>2, <2>2
<1>4. \E c \in claims[w] : \A d \in claims[w] : c.id <= d.id
  BY <1>3
<1> QED BY <1>4 DEF Current

(* Which claim is current depends on the worker's claims only.             *)
LEMMA CurrentStable ==
    ASSUME NEW w \in Workers, claims'[w] = claims[w]
    PROVE  Current(w)' = Current(w)
BY DEF Current

(* A worker that delivers or marks works on one of its claims.             *)
LEMMA CurrentIsClaim ==
    ASSUME TypeOK, NEW w \in Workers, pc[w] \in {"deliver", "mark"}
    PROVE  /\ Current(w) \in claims[w]
           /\ Current(w).id \in Messages /\ Current(w).attempt_count \in Nat
           /\ Current(w) = [id |-> Current(w).id, attempt_count |-> Current(w).attempt_count]
<1>1. claims[w] \subseteq Claim /\ claims[w] # {}
  BY DEF TypeOK
<1>2. Current(w) \in claims[w]
  BY <1>1, CurrentExists
<1> QED BY <1>1, <1>2 DEF Claim

(* The empty table is good.                                                *)
LEMMA OutboxInit == Init => OutboxInd
<1> SUFFICES ASSUME Init PROVE OutboxInd
  OBVIOUS
<1> USE Config DEF Init, Null
<1>1. TypeOK
  BY DEF TypeOK, Row, Claim, Replies
<1>2. NewRowsAreFresh /\ ReadsArePast /\ ClaimsAreCounted /\ AttemptIsUnique
  BY DEF NewRowsAreFresh, ReadsArePast, ClaimsAreCounted, AttemptIsUnique
<1>3. ClaimStands /\ ReplyIsTrue /\ SettledIsUnclaimed /\ RequeuedIsFresh
  BY DEF ClaimStands, ReplyIsTrue, SettledIsUnclaimed, RequeuedIsFresh
<1>4. SentWasReceived /\ FailedHasReason /\ ReopenedOncePerFailure
  BY DEF SentWasReceived, FailedHasReason, ReopenedOncePerFailure
<1> QED BY <1>1, <1>2, <1>3, <1>4 DEF OutboxInd

-----------------------------------------------------------------------------
(* The rows, the recoveries and the sink stand still: what is left is what *)
(* the workers know.                                                       *)
LEMMA RowsStand ==
    ASSUME OutboxInd, TypeOK', UNCHANGED <<box, recovery>>,
           \A m \in Messages : /\ sink[m].received => sink'[m].received
                               /\ sink[m].refused => sink'[m].refused,
           \A v \in Workers : claims'[v] \subseteq claims[v]
    PROVE  /\ NewRowsAreFresh' /\ ClaimsAreCounted' /\ AttemptIsUnique'
           /\ SettledIsUnclaimed' /\ RequeuedIsFresh' /\ SentWasReceived'
           /\ FailedHasReason' /\ ReopenedOncePerFailure'
<1> USE DEF OutboxInd
<1>1. NewRowsAreFresh' /\ AttemptIsUnique'
  BY DEF NewRowsAreFresh, AttemptIsUnique
<1>2. ClaimsAreCounted'
  BY DEF ClaimsAreCounted
<1>3. SettledIsUnclaimed' /\ RequeuedIsFresh'
  BY DEF SettledIsUnclaimed, RequeuedIsFresh, NotClaimed
<1>4. SentWasReceived' /\ FailedHasReason' /\ ReopenedOncePerFailure'
  BY DEF SentWasReceived, FailedHasReason, ReopenedOncePerFailure
<1> QED BY <1>1, <1>2, <1>3, <1>4

(* The clock moves: leases run out, none comes back.                       *)
LEMMA TickInv == ASSUME OutboxInd, Tick PROVE OutboxInd'
<1> USE Config DEF OutboxInd, Tick, workerVars
<1>1. TypeOK'
  BY DEF TypeOK
<1>2. ReadsArePast'
  BY DEF ReadsArePast, TypeOK
<1>3. ClaimStands'
  BY DEF ClaimStands, MarkMatches, TypeOK
<1>4. ReplyIsTrue'
  BY CurrentStable DEF ReplyIsTrue
<1> QED BY <1>1, <1>2, <1>3, <1>4, RowsStand

(* A drain starts with nothing claimed.                                    *)
LEMMA DrainOnceInv == ASSUME OutboxInd, NEW w \in Workers, DrainOnce(w) PROVE OutboxInd'
<1> USE Config DEF OutboxInd, DrainOnce
<1>1. TypeOK'
  BY DEF TypeOK
<1>2. ReadsArePast'
  BY DEF ReadsArePast, TypeOK
<1>3. ClaimStands'
  BY DEF ClaimStands, MarkMatches, TypeOK
<1>4. ReplyIsTrue'
  BY CurrentStable DEF ReplyIsTrue, TypeOK
<1> QED BY <1>1, <1>2, <1>3, <1>4, RowsStand

(* A delivery changes what the sink has seen and what the worker was told. *)
LEMMA DeliverInv == ASSUME OutboxInd, NEW w \in Workers, Deliver(w) PROVE OutboxInd'
<1> USE DEF OutboxInd
<1> DEFINE m == Current(w).id
<1>1. m \in Messages /\ Current(w) \in claims[w]
  BY CurrentIsClaim DEF Deliver
<1>2. /\ pc[w] = "deliver" /\ pc' = [pc EXCEPT ![w] = "mark"]
      /\ UNCHANGED <<box, now, lease, claims, recovery, faults>>
  BY DEF Deliver
<1>3. /\ sink' \in [Messages -> [received : BOOLEAN, refused : BOOLEAN]]
      /\ \A n \in Messages : /\ sink[n].received => sink'[n].received
                             /\ sink[n].refused => sink'[n].refused
      /\ reply'[w] = "sent" => sink'[m].received
      /\ reply'[w] = "failed" => sink'[m].refused
      /\ reply' \in [Workers -> Replies]
      /\ reply'[w] \in {"sent", "retryable", "failed"}
      /\ \A v \in Workers \ {w} : reply'[v] = reply[v]
  <2> HIDE DEF m
  <2> USE <1>1 DEF TypeOK, Replies
  <2>1. CASE reply' = [reply EXCEPT ![w] = "sent"] /\ sink' = [sink EXCEPT ![m].received = TRUE]
    BY <2>1, ZenonT(60)
  <2>2. CASE /\ reply' = [reply EXCEPT ![w] = "retryable"]
             /\ sink' = sink \/ sink' = [sink EXCEPT ![m].received = TRUE]
    BY <2>2, ZenonT(60)
  <2>3. CASE reply' = [reply EXCEPT ![w] = "failed"] /\ sink' = [sink EXCEPT ![m].refused = TRUE]
    BY <2>3, ZenonT(60)
  <2>4. [sink EXCEPT ![m].received = sink[m].received] = sink
    BY DEF TypeOK
  <2>5. ASSUME NEW got \in {sink[m].received, TRUE}, sink' = [sink EXCEPT ![m].received = got]
        PROVE  sink' = sink \/ sink' = [sink EXCEPT ![m].received = TRUE]
    <3>1. CASE got = sink[m].received
      BY <2>4, <2>5, <3>1
    <3>2. CASE got = TRUE
      BY <2>5, <3>2
    <3> QED BY <3>1, <3>2
  <2> QED BY <2>1, <2>2, <2>3, <2>5 DEF Deliver, m
<1> HIDE DEF m
<1>4. TypeOK'
  BY <1>1, <1>2, <1>3 DEF TypeOK
<1>5. ReadsArePast'
  BY <1>2 DEF ReadsArePast, TypeOK
<1>6. ClaimStands'
  BY <1>2 DEF ClaimStands, MarkMatches
<1>7. ReplyIsTrue'
  <2> SUFFICES ASSUME NEW v \in Workers, pc'[v] = "mark"
               PROVE  /\ reply'[v] \in {"sent", "retryable", "failed"}
                      /\ reply'[v] = "sent" => sink'[Current(v)'.id].received
                      /\ reply'[v] = "failed" => sink'[Current(v)'.id].refused
    BY DEF ReplyIsTrue
  <2>1. Current(v)' = Current(v)
    BY <1>2, CurrentStable
  <2>2. CASE v = w
    BY <1>3, <2>1, <2>2 DEF m
  <2>3. CASE v # w
    <3>1. pc[v] = "mark"
      BY <1>2, <2>3 DEF TypeOK
    <3>2. Current(v).id \in Messages
      BY <3>1, CurrentIsClaim
    <3> QED BY <1>3, <2>1, <2>3, <3>1, <3>2 DEF ReplyIsTrue
  <2> QED BY <2>2, <2>3
<1> QED BY <1>2, <1>3, <1>4, <1>5, <1>6, <1>7, RowsStand

(* A worker that dies without a commit leaves its rows as they are.        *)
LEMMA CrashInv == ASSUME OutboxInd, NEW w \in Workers, Crash(w) PROVE OutboxInd'
<1> USE Config DEF OutboxInd, Crash, Fault, Leave, Null
<1>1. TypeOK'
  BY DEF TypeOK, Replies
<1>2. ReadsArePast'
  BY DEF ReadsArePast, TypeOK
<1>3. ClaimStands'
  BY DEF ClaimStands, MarkMatches, TypeOK
<1>4. ReplyIsTrue'
  <2> SUFFICES ASSUME NEW v \in Workers, pc'[v] = "mark"
               PROVE  v # w /\ pc[v] = "mark" /\ reply'[v] = reply[v] /\ Current(v)' = Current(v)
    BY DEF ReplyIsTrue
  <2> QED BY CurrentStable DEF TypeOK
<1>5. \A v \in Workers : claims'[v] \subseteq claims[v]
  BY DEF TypeOK
<1> QED BY <1>1, <1>2, <1>3, <1>4, <1>5, RowsStand

-----------------------------------------------------------------------------
(* A row appears that nobody can have claimed.                             *)
LEMMA EnqueueInv == ASSUME OutboxInd, NEW m \in Messages, Enqueue(m) PROVE OutboxInd'
<1> USE Config DEF OutboxInd, Enqueue, workerVars, NewRow
<1>1. TypeOK'
  BY DEF TypeOK, Row
<1>2. /\ \A n \in Messages : n # m => box'[n] = box[n]
      /\ box'[m].status = "pending" /\ box'[m].attempt_count = 0
      /\ \A w \in Workers : \A c \in claims[w] : c.id \in Messages /\ c.id # m
  BY DEF TypeOK, ClaimsAreCounted, Claim
<1>3. NewRowsAreFresh' /\ ReadsArePast' /\ AttemptIsUnique'
  BY <1>2 DEF NewRowsAreFresh, ReadsArePast, AttemptIsUnique
<1>4. ClaimsAreCounted'
  BY <1>2 DEF ClaimsAreCounted
<1>5. ClaimStands'
  BY <1>2 DEF ClaimStands, MarkMatches
<1>6. ReplyIsTrue'
  BY CurrentStable DEF ReplyIsTrue
<1>7. SettledIsUnclaimed'
  BY <1>2 DEF SettledIsUnclaimed, NotClaimed
<1>8. RequeuedIsFresh'
  BY <1>2 DEF RequeuedIsFresh, NotClaimed
<1>9. SentWasReceived' /\ FailedHasReason' /\ ReopenedOncePerFailure'
  BY <1>2 DEF SentWasReceived, FailedHasReason, ReopenedOncePerFailure
<1> QED BY <1>1, <1>3, <1>4, <1>5, <1>6, <1>7, <1>8, <1>9

(* CLAIM_AUDIT_OUTBOX, whether its answer arrives or is lost.  Only rows   *)
(* whose lease is over are taken, and each becomes an attempt of its own.  *)
LEMMA ClaimInv ==
    ASSUME OutboxInd, NEW w \in Workers, pc[w] = "claim", TypeOK',
           box' = ClaimedBox(w), UNCHANGED <<now, sink, recovery>>,
           \A v \in Workers \ {w} : /\ pc'[v] = pc[v] /\ lease'[v] = lease[v]
                                    /\ claims'[v] = claims[v] /\ reply'[v] = reply[v],
           \/ claims'[w] = {} /\ pc'[w] = "idle" /\ lease'[w] = Null
           \/ claims'[w] = ClaimsOf(w) /\ pc'[w] = "deliver" /\ lease'[w] = lease[w]
    PROVE  OutboxInd'
<1> USE DEF OutboxInd
<1> DEFINE taken == Candidates(w)
<1>1. /\ taken \subseteq Messages
      /\ \A m \in taken : /\ box[m].status = "pending" /\ box'[m].status = "pending"
                          /\ box[m].next_attempt_at <= now
                          /\ box'[m].next_attempt_at = lease[w]
                          /\ box[m].attempt_count \in Nat
                          /\ box'[m].attempt_count = box[m].attempt_count + 1
  <2>1. taken \subseteq { m \in Messages : box[m].status = "pending" /\ box[m].next_attempt_at <= lease[w] - LeaseMs }
    BY DEF Candidates, Due
  <2>2. lease[w] \in Nat /\ now \in Nat /\ lease[w] - LeaseMs <= now
    BY Config DEF ReadsArePast, TypeOK
  <2>3. \A m \in Messages :
           /\ box[m] \in Row
           /\ box'[m] = IF m \in taken
                        THEN [box[m] EXCEPT !.attempt_count = @ + 1, !.next_attempt_at = lease[w]]
                        ELSE box[m]
    BY DEF ClaimedBox, TypeOK
  <2> HIDE DEF taken
  <2>4. ASSUME NEW m \in taken
        PROVE  /\ box[m].status = "pending" /\ box'[m].status = "pending"
               /\ box[m].next_attempt_at <= now
               /\ box'[m].next_attempt_at = lease[w]
               /\ box[m].attempt_count \in Nat
               /\ box'[m].attempt_count = box[m].attempt_count + 1
    <3>1. m \in Messages /\ box[m].next_attempt_at <= lease[w] - LeaseMs /\ box[m] \in Row
          /\ box[m].status = "pending"
      BY <2>1, <2>3
    <3>2. box'[m] = [box[m] EXCEPT !.attempt_count = @ + 1, !.next_attempt_at = lease[w]]
      BY <2>3, <3>1
    <3>3. box[m].next_attempt_at <= now
      BY <2>2, <3>1, Config DEF Row
    <3> QED BY <3>1, <3>2, <3>3 DEF Row
  <2> QED BY <2>1, <2>4
<1>2. \A m \in Messages : m \notin taken => box'[m] = box[m]
  BY DEF ClaimedBox
<1>3. \A c \in claims'[w] : /\ c.id \in taken /\ c.attempt_count = box[c.id].attempt_count + 1
                            /\ c = [id |-> c.id, attempt_count |-> box[c.id].attempt_count + 1]
  BY DEF ClaimsOf
<1>4. claims[w] = {}
  BY DEF TypeOK
<1> HIDE DEF taken
<1>5. \A v \in Workers : \A c \in claims[v] :
          /\ c.id \in Messages /\ c.attempt_count \in Nat
          /\ c.attempt_count <= box[c.id].attempt_count /\ box[c.id].status # "none"
  BY DEF TypeOK, Claim, ClaimsAreCounted
<1>6. \A m \in Messages : /\ box[m].attempt_count \in Nat /\ box'[m].attempt_count \in Nat
                          /\ box'[m].attempt_count >= box[m].attempt_count
                          /\ box[m].status = box'[m].status
                          /\ box'[m].attempt_count = box[m].attempt_count => box'[m] = box[m]
  BY <1>1, <1>2 DEF TypeOK, Row
<1>7. NewRowsAreFresh'
  BY <1>1, <1>2 DEF NewRowsAreFresh
<1>8. ReadsArePast'
  BY Config DEF ReadsArePast, TypeOK, Null
<1>9. ClaimsAreCounted'
  <2>1. \A v \in Workers \ {w} : \A c \in claims'[v] :
            box'[c.id].status # "none" /\ c.attempt_count <= box'[c.id].attempt_count
    BY <1>5, <1>6
  <2>2. \A c \in claims'[w] : box'[c.id].status # "none" /\ c.attempt_count <= box'[c.id].attempt_count
    BY <1>1, <1>3
  <2>3. \A v \in Workers : \A c, d \in claims'[v] : c.id = d.id => c = d
    BY <1>3 DEF ClaimsAreCounted
  <2> QED BY <2>1, <2>2, <2>3 DEF ClaimsAreCounted
<1>10. AttemptIsUnique'
  <2>1. \A v \in Workers \ {w} : claims'[v] \cap claims'[w] = {}
    BY <1>1, <1>3, <1>5
  <2> QED BY <2>1 DEF AttemptIsUnique
<1>11. ClaimStands'
  <2> SUFFICES ASSUME NEW v \in Workers, lease'[v] > now, NEW c \in claims'[v]
               PROVE  /\ box'[c.id].attempt_count = c.attempt_count
                      /\ box'[c.id].next_attempt_at = lease'[v]
                      /\ box'[c.id].status = "pending"
    BY DEF ClaimStands, MarkMatches
  <2>1. CASE v = w
    BY <1>1, <1>3, <2>1
  <2>2. CASE v # w
    <3>1. c \in claims[v] /\ lease[v] > now /\ lease[v] = lease'[v] /\ lease[v] \in Nat /\ now \in Nat
      BY <2>2 DEF TypeOK
    <3>2. MarkMatches(v, c)
      BY <3>1 DEF ClaimStands
    <3>3. c.id \in Messages /\ c.id \notin taken
      BY <1>1, <1>5, <3>1, <3>2 DEF MarkMatches
    <3> QED BY <1>2, <3>1, <3>2, <3>3 DEF MarkMatches
  <2> QED BY <2>1, <2>2
<1>12. ReplyIsTrue'
  BY CurrentStable DEF ReplyIsTrue
<1>13. SettledIsUnclaimed'
  <2> SUFFICES ASSUME NEW m \in Messages, box'[m].status \in {"sent", "failed"}, NEW v \in Workers
               PROVE  [id |-> m, attempt_count |-> box'[m].attempt_count] \notin claims'[v]
    BY DEF SettledIsUnclaimed, NotClaimed
  <2>1. m \notin taken /\ box'[m] = box[m]
    BY <1>1, <1>2
  <2> QED BY <1>3, <2>1 DEF SettledIsUnclaimed, NotClaimed
<1>14. RequeuedIsFresh'
  <2> SUFFICES ASSUME NEW r \in Recoveries, recovery[r].status # "none"
               PROVE  /\ recovery[r].id \in Messages
                      /\ box'[recovery[r].id].status # "none"
                      /\ recovery[r].expected <= box'[recovery[r].id].attempt_count
                      /\ recovery[r].status = "succeeded" /\ box'[recovery[r].id].attempt_count = recovery[r].expected =>
                            /\ box'[recovery[r].id].status = "pending"
                            /\ \A v \in Workers : [id |-> recovery[r].id, attempt_count |-> recovery[r].expected] \notin claims'[v]
    BY DEF RequeuedIsFresh, NotClaimed
  <2> DEFINE m == recovery[r].id
  <2>1. m \in Messages /\ box[m].status # "none" /\ recovery[r].expected <= box[m].attempt_count
        /\ recovery[r].expected \in Nat
    BY DEF RequeuedIsFresh, TypeOK
  <2>2. ASSUME box'[m].attempt_count = recovery[r].expected, recovery[r].status = "succeeded"
        PROVE  /\ box'[m].status = "pending"
               /\ \A v \in Workers : [id |-> m, attempt_count |-> recovery[r].expected] \notin claims'[v]
    <3>1. m \notin taken /\ box'[m] = box[m]
      BY <1>1, <1>2, <1>6, <2>1, <2>2
    <3> QED BY <1>3, <2>2, <3>1 DEF RequeuedIsFresh, NotClaimed
  <2> HIDE DEF m
  <2>3. recovery[r].expected <= box'[m].attempt_count /\ box'[m].status # "none"
    BY <1>6, <2>1
  <2> QED BY <2>1, <2>2, <2>3 DEF m
<1>15. SentWasReceived' /\ ReopenedOncePerFailure'
  BY <1>6 DEF SentWasReceived, ReopenedOncePerFailure
<1>16. FailedHasReason'
  BY <1>6, Config DEF FailedHasReason
<1> QED BY <1>7, <1>8, <1>9, <1>10, <1>11, <1>12, <1>13, <1>14, <1>15, <1>16

(* MARK_AUDIT_OUTBOX_*_FOR_ATTEMPT, whether its answer arrives or is lost. *)
(* It touches a row only if the row records the very attempt it marks, and *)
(* then no other worker holds that attempt.                                *)
LEMMA MarkInv ==
    ASSUME OutboxInd, NEW w \in Workers, pc[w] = "mark", TypeOK',
           SettleBox(w), UNCHANGED <<now, sink, recovery>>,
           \A v \in Workers \ {w} : /\ pc'[v] = pc[v] /\ lease'[v] = lease[v]
                                    /\ claims'[v] = claims[v] /\ reply'[v] = reply[v],
           claims'[w] \subseteq claims[w] \ {Current(w)}, pc'[w] \in {"idle", "deliver"},
           \/ lease'[w] = lease[w] /\ pc'[w] = "deliver"
           \/ lease'[w] = Null /\ pc'[w] = "idle"
    PROVE  OutboxInd'
<1> USE DEF OutboxInd
<1> DEFINE c == Current(w)
           m == c.id
<1>1. /\ c \in claims[w] /\ m \in Messages /\ c.attempt_count \in Nat
      /\ c = [id |-> m, attempt_count |-> c.attempt_count]
  BY CurrentIsClaim
<1>2. /\ reply[w] \in {"sent", "retryable", "failed"}
      /\ reply[w] = "sent" => sink[m].received
      /\ reply[w] = "failed" => sink[m].refused
  BY DEF ReplyIsTrue
<1>3. \A n \in Messages : /\ n # m => box'[n] = box[n]
                          /\ box[n].attempt_count \in Nat
                          /\ box'[n].attempt_count = box[n].attempt_count
  <2>1. \A n \in Messages : box[n] \in Row
    BY DEF TypeOK
  <2>2. CASE ~ MarkMatches(w, c)
    BY <2>1, <2>2 DEF SettleBox, Row
  <2>3. CASE MarkMatches(w, c)
    <3>1. box' = [box EXCEPT ![m] = MarkedRow(m, EffectiveDelivery(w))]
      BY <2>3 DEF SettleBox
    <3>2. EffectiveDelivery(w) \in {"sent", "retryable", "failed"}
      BY <1>2 DEF EffectiveDelivery
    <3>3. MarkedRow(m, EffectiveDelivery(w)).attempt_count = box[m].attempt_count
      BY <1>1, <2>1, <3>2 DEF MarkedRow, Row
    <3> HIDE DEF m, c
    <3> QED BY <1>1, <2>1, <3>1, <3>3 DEF TypeOK, Row
  <2> QED BY <2>2, <2>3
<1>4. \/ box'[m] = box[m]
      \/ /\ box[m].status = "pending" /\ box[m].attempt_count = c.attempt_count
         /\ \/ box'[m].status = "pending"
            \/ box'[m].status = "sent" /\ reply[w] = "sent"
            \/ /\ box'[m].status = "failed"
               /\ reply[w] = "failed" \/ c.attempt_count >= MaxAttempts
  <2>1. box[m] \in Row
    BY <1>1 DEF TypeOK
  <2>2. CASE ~ MarkMatches(w, c)
    BY <2>2 DEF SettleBox
  <2>3. CASE MarkMatches(w, c)
    <3>1. box'[m] = MarkedRow(m, EffectiveDelivery(w))
      BY <1>1, <2>3 DEF SettleBox, TypeOK
    <3>2. box[m].status = "pending" /\ box[m].attempt_count = c.attempt_count
      BY <2>3 DEF MarkMatches
    <3>3. /\ EffectiveDelivery(w) \in {"sent", "retryable", "failed"}
          /\ EffectiveDelivery(w) = "sent" => reply[w] = "sent"
          /\ EffectiveDelivery(w) = "failed" => reply[w] = "failed" \/ c.attempt_count >= MaxAttempts
      BY <1>2 DEF EffectiveDelivery, Exhausted
    <3> HIDE DEF m, c
    <3> QED BY <2>1, <3>1, <3>2, <3>3 DEF MarkedRow, Row
  <2> QED BY <2>2, <2>3
<1>5. box[m].status # "none"
  BY <1>1 DEF ClaimsAreCounted
<1>6. \A v \in Workers : c \notin claims'[v]
  BY <1>1 DEF AttemptIsUnique
<1>7. \A v \in Workers : claims'[v] \subseteq claims[v]
  OBVIOUS
<1> HIDE DEF m, c
<1>8. \A n \in Messages : box'[n].status = "none" <=> box[n].status = "none"
  BY <1>3, <1>4, <1>5
<1>9. \A v \in Workers : \A d \in claims[v] : d.id \in Messages
  BY DEF TypeOK, Claim
<1>10. NewRowsAreFresh' /\ AttemptIsUnique'
  BY <1>3, <1>7, <1>8 DEF NewRowsAreFresh, AttemptIsUnique
<1>11. ReadsArePast'
  BY Config DEF ReadsArePast, TypeOK, Null
<1>12. ClaimsAreCounted'
  BY <1>3, <1>7, <1>8, <1>9 DEF ClaimsAreCounted
<1>13. ClaimStands'
  <2> SUFFICES ASSUME NEW v \in Workers, lease'[v] > now, NEW d \in claims'[v]
               PROVE  /\ box'[d.id].attempt_count = d.attempt_count
                      /\ box'[d.id].next_attempt_at = lease'[v]
                      /\ box'[d.id].status = "pending"
    BY DEF ClaimStands, MarkMatches
  <2>1. lease'[v] = lease[v]
    BY DEF TypeOK, Null
  <2>2. MarkMatches(v, d)
    BY <1>7, <2>1 DEF ClaimStands
  <2>3. CASE d.id # m
    BY <1>3, <1>7, <1>9, <2>1, <2>2, <2>3 DEF MarkMatches
  <2>4. CASE d.id = m
    <3>1. d = [id |-> d.id, attempt_count |-> d.attempt_count]
      BY <1>7 DEF TypeOK, Claim
    <3>2. box[m].attempt_count # c.attempt_count
      BY <1>1, <1>6, <2>2, <2>4, <3>1 DEF MarkMatches
    <3> QED BY <1>4, <2>1, <2>2, <2>4, <3>2 DEF MarkMatches
  <2> QED BY <2>3, <2>4
<1>14. ReplyIsTrue'
  BY CurrentStable DEF ReplyIsTrue
<1>15. SettledIsUnclaimed'
  <2> SUFFICES ASSUME NEW n \in Messages, box'[n].status \in {"sent", "failed"}, NEW v \in Workers
               PROVE  [id |-> n, attempt_count |-> box'[n].attempt_count] \notin claims'[v]
    BY DEF SettledIsUnclaimed, NotClaimed
  <2>1. CASE box'[n] = box[n]
    BY <1>7, <2>1 DEF SettledIsUnclaimed, NotClaimed
  <2>2. CASE box'[n] # box[n]
    BY <1>1, <1>3, <1>4, <1>6, <2>2
  <2> QED BY <2>1, <2>2
<1>16. RequeuedIsFresh'
  <2> SUFFICES ASSUME NEW r \in Recoveries, recovery[r].status # "none"
               PROVE  /\ recovery[r].id \in Messages
                      /\ box'[recovery[r].id].status # "none"
                      /\ recovery[r].expected <= box'[recovery[r].id].attempt_count
                      /\ recovery[r].status = "succeeded" /\ box'[recovery[r].id].attempt_count = recovery[r].expected =>
                            /\ box'[recovery[r].id].status = "pending"
                            /\ \A v \in Workers : [id |-> recovery[r].id, attempt_count |-> recovery[r].expected] \notin claims'[v]
    BY DEF RequeuedIsFresh, NotClaimed
  <2>1. /\ recovery[r].id \in Messages /\ box[recovery[r].id].status # "none"
        /\ recovery[r].expected <= box[recovery[r].id].attempt_count
    BY DEF RequeuedIsFresh
  <2>2. ASSUME recovery[r].status = "succeeded", box[recovery[r].id].attempt_count = recovery[r].expected
        PROVE  box'[recovery[r].id].status = "pending"
    <3>1. /\ box[recovery[r].id].status = "pending"
          /\ [id |-> recovery[r].id, attempt_count |-> recovery[r].expected] \notin claims[w]
      BY <2>2 DEF RequeuedIsFresh, NotClaimed
    <3>2. CASE recovery[r].id # m
      BY <1>3, <2>1, <3>1, <3>2
    <3>3. CASE recovery[r].id = m
      BY <1>1, <1>4, <2>2, <3>1, <3>3
    <3> QED BY <3>2, <3>3
  <2> QED BY <1>3, <1>7, <1>8, <2>1, <2>2 DEF RequeuedIsFresh, NotClaimed
<1>17. SentWasReceived'
  BY <1>2, <1>3, <1>4 DEF SentWasReceived
<1>18. FailedHasReason'
  BY <1>2, <1>3, <1>4 DEF FailedHasReason
<1>19. ReopenedOncePerFailure'
  BY DEF ReopenedOncePerFailure
<1> QED BY <1>10, <1>11, <1>12, <1>13, <1>14, <1>15, <1>16, <1>17, <1>18, <1>19

-----------------------------------------------------------------------------
(* A confirmed recovery names a failed row, with the count it has.         *)
LEMMA ConfirmRecoveryInv ==
    ASSUME OutboxInd, NEW r \in Recoveries, NEW m \in Messages, ConfirmRecovery(r, m)
    PROVE  OutboxInd'
<1> USE DEF OutboxInd, ConfirmRecovery, workerVars
<1>1. TypeOK'
  BY DEF TypeOK, Row
<1>2. /\ \A s \in Recoveries : s # r => recovery'[s] = recovery[s]
      /\ recovery'[r] = [status |-> "confirmed", id |-> m, expected |-> box[m].attempt_count]
  BY DEF TypeOK
<1>3. NewRowsAreFresh' /\ ReadsArePast' /\ AttemptIsUnique' /\ ClaimsAreCounted'
  BY <1>2 DEF NewRowsAreFresh, ReadsArePast, AttemptIsUnique, ClaimsAreCounted
<1>4. ClaimStands' /\ SettledIsUnclaimed'
  BY DEF ClaimStands, MarkMatches, SettledIsUnclaimed, NotClaimed
<1>5. ReplyIsTrue'
  BY CurrentStable DEF ReplyIsTrue
<1>6. RequeuedIsFresh'
  BY <1>2 DEF RequeuedIsFresh, NotClaimed, TypeOK, Row
<1>7. SentWasReceived' /\ FailedHasReason' /\ ReopenedOncePerFailure'
  BY <1>2 DEF SentWasReceived, FailedHasReason, ReopenedOncePerFailure
<1> QED BY <1>1, <1>3, <1>4, <1>5, <1>6, <1>7

(* execute_confirmed_recovery: a failed row that is as it was reported is  *)
(* pending again under the same count, which nobody holds; the rows that   *)
(* announce the recovery are new.                                          *)
LEMMA ExecuteRecoveryInv ==
    ASSUME OutboxInd, NEW r \in Recoveries, NEW due \in Nat, NEW announced \in Nat,
           ExecuteRecovery(r, due, announced)
    PROVE  OutboxInd'
<1> USE DEF OutboxInd
<1> DEFINE m == recovery[r].id
           new == EnvelopesOf[r]
           requeued == Requeueable(r)
<1>1. /\ recovery[r].status = "confirmed"
      /\ UNCHANGED <<now, workerVars, sink, faults>>
      /\ m \in Messages /\ box[m].status # "none" /\ recovery[r].expected <= box[m].attempt_count
      /\ new \subseteq Messages
      /\ \A n \in new : box[n].status = "none" /\ box[n].attempt_count = 0
  BY EnvelopesAssumption DEF ExecuteRecovery, RequeuedIsFresh, NewRowsAreFresh
<1>2. m \notin new
  BY <1>1
<1>3. \A n \in Messages : box[n] \in Row
  BY DEF TypeOK
<1>4. /\ \A n \in new : box'[n] = [status |-> "pending", attempt_count |-> 0, next_attempt_at |-> announced]
      /\ \A n \in Messages : n \notin new /\ (n # m \/ ~ requeued) => box'[n] = box[n]
      /\ requeued => box'[m] = [box[m] EXCEPT !.status = "pending", !.next_attempt_at = due]
  BY <1>1, <1>2 DEF ExecuteRecovery, NewRow
<1>5. requeued => box[m].status = "failed" /\ box[m].attempt_count = recovery[r].expected
  BY DEF Requeueable
<1>6. /\ \A s \in Recoveries : s # r => recovery'[s] = recovery[s]
      /\ recovery'[r].id = m /\ recovery'[r].expected = recovery[r].expected
      /\ recovery'[r].status = IF requeued THEN "succeeded" ELSE "failed"
      /\ recovery' \in [Recoveries -> [status : {"none", "confirmed", "succeeded", "failed"},
                                       id : Messages \cup {0}, expected : Nat]]
  BY ZenonT(60) DEF ExecuteRecovery, TypeOK
<1>7. TypeOK'
  <2>1. box' \in [Messages -> Row]
    <3>1. DOMAIN box' = Messages /\ box' = [n \in DOMAIN box' |-> box'[n]]
      BY DEF ExecuteRecovery
    <3> HIDE DEF m, new, requeued
    <3>2. ASSUME NEW n \in Messages PROVE box'[n] \in Row
      <4>1. CASE n \in new
        BY <1>4, <4>1 DEF Row
      <4>2. CASE n \notin new /\ n = m /\ requeued
        BY <1>1, <1>3, <1>4, <4>2 DEF Row
      <4>3. CASE n \notin new /\ (n # m \/ ~ requeued)
        BY <1>3, <1>4, <4>3
      <4> QED BY <4>1, <4>2, <4>3
    <3> QED BY <3>1, <3>2
  <2> QED BY <1>1, <1>6, <2>1 DEF TypeOK, workerVars
<1> HIDE DEF m, new, requeued
<1>8. \A n \in Messages : /\ box[n].attempt_count \in Nat
                          /\ box'[n].attempt_count = box[n].attempt_count
                          /\ box'[n].status = "none" => box[n].status = "none" /\ n \notin new
                          /\ box'[n] # box[n] => /\ box'[n].status = "pending"
                                                 /\ box[n].status \in {"none", "failed"}
  <2> TAKE n \in Messages
  <2>1. box[n].attempt_count \in Nat /\ box[n] \in Row
    BY <1>3 DEF Row
  <2>2. CASE n \in new
    BY <1>1, <1>4, <2>1, <2>2
  <2>3. CASE n \notin new /\ n = m /\ requeued
    BY <1>1, <1>4, <1>5, <2>1, <2>3 DEF Row
  <2>4. CASE n \notin new /\ (n # m \/ ~ requeued)
    BY <1>4, <2>1, <2>4
  <2> QED BY <2>2, <2>3, <2>4
<1>9. \A v \in Workers : \A c \in claims[v] :
          /\ c.id \in Messages /\ c = [id |-> c.id, attempt_count |-> c.attempt_count]
          /\ box[c.id].status # "none"
  BY DEF TypeOK, Claim, ClaimsAreCounted
<1>10. UNCHANGED <<pc, lease, claims, reply, now, sink>>
  BY <1>1 DEF workerVars
<1>11. NewRowsAreFresh'
  <2>1. \A n \in Messages : box'[n].status = "none" => box'[n].attempt_count = 0
    BY <1>8 DEF NewRowsAreFresh
  <2>2. ASSUME NEW s \in Recoveries, NEW n \in Messages, n \in EnvelopesOf[s],
               recovery'[s].status \in {"none", "confirmed"}
        PROVE  box'[n].status = "none"
    <3>1. s # r
      BY <1>6, <2>2
    <3>2. box[n].status = "none" /\ n \notin new
      BY <1>6, <2>2, <3>1, EnvelopesAssumption DEF NewRowsAreFresh, new
    <3> QED BY <1>1, <1>4, <3>2
  <2> QED BY <2>1, <2>2 DEF NewRowsAreFresh
<1>12. ReadsArePast' /\ AttemptIsUnique'
  BY <1>10 DEF ReadsArePast, AttemptIsUnique
<1>13. ClaimsAreCounted'
  BY <1>8, <1>9, <1>10 DEF ClaimsAreCounted
<1>14. ClaimStands'
  <2> SUFFICES ASSUME NEW v \in Workers, lease[v] > now, NEW c \in claims[v] PROVE box'[c.id] = box[c.id]
    BY <1>10 DEF ClaimStands, MarkMatches
  <2> QED BY <1>8, <1>9 DEF ClaimStands, MarkMatches
<1>15. ReplyIsTrue'
  BY <1>10, CurrentStable DEF ReplyIsTrue
<1>16. SettledIsUnclaimed'
  BY <1>8, <1>10 DEF SettledIsUnclaimed, NotClaimed
<1>17. requeued => NotClaimed(m, recovery[r].expected)
  BY <1>1, <1>5 DEF SettledIsUnclaimed
<1>18. RequeuedIsFresh'
  <2> SUFFICES ASSUME NEW s \in Recoveries, recovery'[s].status # "none"
               PROVE  /\ recovery'[s].id \in Messages
                      /\ box'[recovery'[s].id].status # "none"
                      /\ recovery'[s].expected <= box'[recovery'[s].id].attempt_count
                      /\ recovery'[s].status = "succeeded" /\ box'[recovery'[s].id].attempt_count = recovery'[s].expected =>
                            /\ box'[recovery'[s].id].status = "pending"
                            /\ NotClaimed(recovery'[s].id, recovery'[s].expected)
    BY <1>10 DEF RequeuedIsFresh, NotClaimed
  <2>1. CASE s = r
    BY <1>1, <1>3, <1>4, <1>5, <1>6, <1>8, <1>17, <2>1 DEF Row
  <2>2. CASE s # r
    BY <1>6, <1>8, <2>2 DEF RequeuedIsFresh
  <2> QED BY <2>1, <2>2
<1>19. SentWasReceived' /\ FailedHasReason'
  BY <1>8, <1>10 DEF SentWasReceived, FailedHasReason
<1>20. ReopenedOncePerFailure'
  <2>1. ASSUME NEW s \in Recoveries, s # r, requeued,
               recovery[s].status = "succeeded", recovery[s].id = m
        PROVE  recovery[s].expected # recovery[r].expected
    BY <1>5, <2>1 DEF RequeuedIsFresh
  <2> QED BY <1>6, <2>1 DEF ReopenedOncePerFailure
<1> QED BY <1>7, <1>11, <1>12, <1>13, <1>14, <1>15, <1>16, <1>18, <1>19, <1>20

-----------------------------------------------------------------------------
(* Every step of a worker, faults included.                                *)
LEMMA WorkerInv ==
    ASSUME OutboxInd, NEW w \in Workers, WorkerStep(w) \/ Crash(w) \/ ReportLost(w)
    PROVE  OutboxInd'
<1> USE DEF OutboxInd
<1>0. \A m \in Messages : box[m] \in Row
  BY DEF TypeOK
<1>1. ASSUME box' = ClaimedBox(w) PROVE box' \in [Messages -> Row]
  <2>1. lease[w] \in Nat
    BY DEF TypeOK
  <2>2. \A m \in Messages : [box[m] EXCEPT !.attempt_count = @ + 1, !.next_attempt_at = lease[w]] \in Row
    <3> TAKE m \in Messages
    <3>1. box[m].attempt_count + 1 \in Nat
      BY <1>0 DEF Row
    <3> QED BY <1>0, <2>1, <3>1, RowUpdate
  <2> QED BY <1>0, <1>1, <2>2 DEF ClaimedBox
<1>2. ASSUME pc[w] = "mark", SettleBox(w) PROVE box' \in [Messages -> Row]
  <2>1. Current(w).id \in Messages
    BY <1>2, CurrentIsClaim
  <2>2. EffectiveDelivery(w) \in {"sent", "retryable", "failed"}
    BY <1>2 DEF EffectiveDelivery, ReplyIsTrue
  <2>3. now \in Nat /\ RetryDelayMs \in Nat
    BY Config DEF TypeOK
  <2>4. ASSUME NEW m \in Messages, NEW d \in {"sent", "retryable", "failed"} PROVE MarkedRow(m, d) \in Row
    <3>1. /\ [box[m] EXCEPT !.status = "sent"] \in Row
          /\ [box[m] EXCEPT !.next_attempt_at = now + RetryDelayMs] \in Row
          /\ [box[m] EXCEPT !.status = "failed", !.next_attempt_at = Null] \in Row
      <4>1. now + RetryDelayMs \in Nat /\ Null \in Nat
        BY <2>3 DEF Null
      <4> QED BY <1>0, <4>1, RowUpdate
    <3>2. CASE d = "sent"
      BY <3>1, <3>2 DEF MarkedRow
    <3>3. CASE d = "retryable"
      BY <3>1, <3>3 DEF MarkedRow
    <3>4. CASE d = "failed"
      BY <3>1, <3>4 DEF MarkedRow
    <3> QED BY <3>2, <3>3, <3>4
  <2> QED BY <1>2, <2>1, <2>2, <2>4 DEF SettleBox, TypeOK
<1>3. CASE ClaimOutbox(w)
  <2>1. Candidates(w) \subseteq Messages
    BY DEF Candidates, Due
  <2>2. ClaimsOf(w) \subseteq Claim /\ (Candidates(w) = {} <=> ClaimsOf(w) = {})
    <3>1. \A m \in Messages : box[m].attempt_count + 1 \in Nat
      BY <1>0 DEF Row
    <3>2. \A m \in Messages : [id |-> m, attempt_count |-> box[m].attempt_count + 1] \in Claim
      BY <3>1 DEF Claim
    <3>3. ClaimsOf(w) \subseteq Claim
      BY <2>1, <3>2 DEF ClaimsOf
    <3>4. Candidates(w) = {} <=> ClaimsOf(w) = {}
      BY DEF ClaimsOf
    <3> QED BY <3>3, <3>4
  <2>3. TypeOK'
    BY <1>1, <1>3, <2>2 DEF ClaimOutbox, TypeOK, Leave, Null
  <2> QED BY <1>3, <2>2, <2>3, ClaimInv, ZenonT(60) DEF ClaimOutbox, Leave, TypeOK
<1>4. CASE MarkDelivery(w)
  <2>1. TypeOK'
    BY <1>2, <1>4 DEF MarkDelivery, TypeOK, Leave, Null, Replies
  <2> QED BY <1>4, <2>1, MarkInv DEF MarkDelivery, Leave, TypeOK
<1>5. CASE ReportLost(w)
  <2>1. box' \in [Messages -> Row]
    BY <1>1, <1>2, <1>5 DEF ReportLost
  <2>2. TypeOK'
    BY <1>5, <2>1, Config DEF ReportLost, Fault, TypeOK, Leave, Null, Replies
  <2> QED BY <1>5, <2>2, MarkInv, ClaimInv DEF ReportLost, Fault, Leave, TypeOK
<1> QED BY <1>3, <1>4, <1>5, DrainOnceInv, DeliverInv, CrashInv DEF WorkerStep

(* Every step preserves the inductive invariant.                           *)
LEMMA OutboxNext == OutboxInd /\ [Next]_vars => OutboxInd'
<1> SUFFICES ASSUME OutboxInd, [Next]_vars PROVE OutboxInd'
  OBVIOUS
<1>1. CASE UNCHANGED vars
  <2>1. /\ UNCHANGED <<box, now, pc, lease, claims, reply, sink, recovery, faults>>
    BY <1>1 DEF vars, workerVars
  <2>2. TypeOK' /\ ReadsArePast' /\ ClaimStands'
    BY <2>1 DEF OutboxInd, TypeOK, ReadsArePast, ClaimStands, MarkMatches
  <2>3. ReplyIsTrue'
    BY <2>1, CurrentStable DEF OutboxInd, ReplyIsTrue
  <2> QED BY <2>1, <2>2, <2>3, RowsStand DEF OutboxInd
<1>2. ASSUME NEW r \in Recoveries, NEW due \in {now, now + 1}, NEW announced \in {now, now + 1},
             ExecuteRecovery(r, due, announced)
      PROVE  OutboxInd'
  <2>1. due \in Nat /\ announced \in Nat
    BY DEF OutboxInd, TypeOK
  <2> QED BY <1>2, <2>1, ExecuteRecoveryInv
<1> QED BY <1>1, <1>2, TickInv, EnqueueInv, WorkerInv, ConfirmRecoveryInv DEF Next

(* The inductive invariant holds in every reachable state.                 *)
THEOREM OutboxInvariant == Spec => []OutboxInd
BY OutboxInit, OutboxNext, PTL DEF Spec

(* Claims are kept apart by lease and attempt, and no envelope is given up *)
(* without a reason, whatever leases run out, workers die and recoveries   *)
(* interleave with the drain of drain_once.                                *)
THEOREM OutboxIsSafe == Spec => []OutboxInv
<1>1. OutboxInd => OutboxInv
  <2> SUFFICES ASSUME OutboxInd PROVE UnexpiredClaimIsExclusive
    BY DEF OutboxInd, OutboxInv
  <2> SUFFICES ASSUME NEW v \in Workers, NEW w \in Workers, v # w,
                      NEW c \in claims[v], NEW d \in claims[w], c.id = d.id,
                      ~ (lease[v] <= now \/ lease[w] <= now)
               PROVE  FALSE
    BY DEF UnexpiredClaimIsExclusive
  <2>1. lease[v] > now /\ lease[w] > now
    BY DEF OutboxInd, TypeOK
  <2>2. c.attempt_count = d.attempt_count
    BY <2>1 DEF OutboxInd, ClaimStands, MarkMatches
  <2>3. c = d
    BY <2>2 DEF OutboxInd, TypeOK, Claim
  <2> QED BY <2>3 DEF OutboxInd, AttemptIsUnique
<1> QED BY <1>1, OutboxInvariant, PTL

(* MARK_AUDIT_OUTBOX_SENT_FOR_ATTEMPT settles only what was delivered.     *)
THEOREM SentIsReceived == Spec => []SentWasReceived
<1>1. OutboxInd => SentWasReceived
  BY DEF OutboxInd
<1> QED BY <1>1, OutboxInvariant, PTL

(* Two recoveries of the same report never both requeue the envelope.      *)
THEOREM ReopenedOnce == Spec => []ReopenedOncePerFailure
<1>1. OutboxInd => ReopenedOncePerFailure
  BY DEF OutboxInd
<1> QED BY <1>1, OutboxInvariant, PTL

(* What a claim and a mark do to the rows: only pending ones change, and   *)
(* no count goes down.                                                     *)
LEMMA WorkerChangesPending ==
    ASSUME OutboxInd, NEW w \in Workers, WorkerStep(w) \/ Crash(w) \/ ReportLost(w), NEW m \in Messages
    PROVE  /\ box'[m] # box[m] => box[m].status = "pending"
           /\ box'[m].attempt_count >= box[m].attempt_count
<1>0. box \in [Messages -> Row] /\ box[m] \in Row /\ box[m].attempt_count \in Nat
  BY DEF OutboxInd, TypeOK, Row
<1>1. CASE box' = ClaimedBox(w)
  <2>1. CASE m \in Candidates(w)
    <3>1. box'[m].attempt_count = box[m].attempt_count + 1
      BY <1>0, <1>1, <2>1 DEF ClaimedBox, Row
    <3> QED BY <1>0, <2>1, <3>1 DEF Candidates, Due
  <2>2. CASE m \notin Candidates(w)
    <3>1. box'[m] = box[m]
      BY <1>1, <2>2 DEF ClaimedBox
    <3> QED BY <1>0, <3>1
  <2> QED BY <2>1, <2>2
<1>2. CASE pc[w] = "mark" /\ SettleBox(w)
  <2>1. CASE MarkMatches(w, Current(w)) /\ m = Current(w).id
    <3>1. box'[m] = MarkedRow(m, EffectiveDelivery(w)) /\ box[m].status = "pending"
      BY <1>0, <1>2, <2>1 DEF SettleBox, MarkMatches
    <3>2. EffectiveDelivery(w) \in {"sent", "retryable", "failed"}
      BY <1>2 DEF EffectiveDelivery, ReplyIsTrue, OutboxInd
    <3>3. ASSUME NEW d \in {"sent", "retryable", "failed"}
          PROVE  MarkedRow(m, d).attempt_count = box[m].attempt_count
      <4>1. CASE d = "sent"
        BY <1>0, <4>1 DEF MarkedRow, Row
      <4>2. CASE d = "retryable"
        BY <1>0, <4>2 DEF MarkedRow, Row
      <4>3. CASE d = "failed"
        BY <1>0, <4>3 DEF MarkedRow, Row
      <4> QED BY <4>1, <4>2, <4>3
    <3> QED BY <1>0, <3>1, <3>2, <3>3
  <2>2. CASE ~ (MarkMatches(w, Current(w)) /\ m = Current(w).id)
    <3>1. box'[m] = box[m]
      BY <1>0, <1>2, <2>2 DEF SettleBox
    <3> QED BY <1>0, <3>1
  <2> QED BY <2>1, <2>2
<1>3. CASE box' = box
  BY <1>0, <1>3
<1> QED BY <1>1, <1>2, <1>3
     DEF WorkerStep, DrainOnce, ClaimOutbox, Deliver, MarkDelivery, Crash, ReportLost

(* A sent envelope never changes, no attempt count goes down, and only a   *)
(* confirmed recovery revives a failed envelope.                           *)
THEOREM SettledIsFinal == Spec => SettledStaysSettled
<1> DEFINE Kept(m) == /\ box[m].status = "sent" => box'[m] = box[m]
                      /\ box'[m].attempt_count >= box[m].attempt_count
                      /\ box[m].status = "failed" /\ box'[m] # box[m] =>
                            \E r \in Recoveries :
                                recovery[r].status = "confirmed" /\ recovery'[r].status = "succeeded"
<1>1. OutboxInd /\ [Next]_vars => [\A m \in Messages : Kept(m)]_vars
  <2> SUFFICES ASSUME OutboxInd, Next, NEW m \in Messages PROVE Kept(m)
    OBVIOUS
  <2>0. box \in [Messages -> Row] /\ box[m] \in Row /\ box[m].attempt_count \in Nat
    BY DEF OutboxInd, TypeOK, Row
  <2>1. CASE box' = box
    BY <2>0, <2>1
  <2>2. ASSUME NEW n \in Messages, Enqueue(n) PROVE Kept(m)
    <3>1. CASE m = n
      BY <2>0, <2>2, <3>1 DEF Enqueue, NewRow, OutboxInd, NewRowsAreFresh
    <3>2. CASE m # n
      BY <2>0, <2>2, <3>2 DEF Enqueue
    <3> QED BY <3>1, <3>2
  <2>3. ASSUME NEW w \in Workers, WorkerStep(w) \/ Crash(w) \/ ReportLost(w) PROVE Kept(m)
    BY <2>3, WorkerChangesPending
  <2>4. ASSUME NEW r \in Recoveries, NEW due, NEW announced, ExecuteRecovery(r, due, announced)
        PROVE  Kept(m)
    <3>1. CASE m \in EnvelopesOf[r]
      <4>1. box[m].status = "none" /\ box[m].attempt_count = 0
        BY <2>4, <3>1 DEF ExecuteRecovery, OutboxInd, NewRowsAreFresh
      <4>2. box'[m].attempt_count = 0
        BY <2>4, <3>1 DEF ExecuteRecovery, NewRow
      <4> QED BY <4>1, <4>2
    <3>2. CASE m \notin EnvelopesOf[r] /\ m = recovery[r].id /\ Requeueable(r)
      <4>1. box[m].status = "failed" /\ recovery[r].status = "confirmed"
        BY <2>4, <3>2 DEF ExecuteRecovery, Requeueable
      <4>2. box'[m].attempt_count = box[m].attempt_count
        BY <2>0, <2>4, <3>2 DEF ExecuteRecovery, Row
      <4>3. recovery'[r].status = "succeeded"
        BY <2>4, <3>2 DEF ExecuteRecovery, OutboxInd, TypeOK
      <4> QED BY <2>0, <4>1, <4>2, <4>3
    <3>3. CASE m \notin EnvelopesOf[r] /\ ~ (m = recovery[r].id /\ Requeueable(r))
      <4>1. box'[m] = box[m]
        BY <2>4, <3>3 DEF ExecuteRecovery
      <4> QED BY <2>0, <4>1
    <3> QED BY <3>1, <3>2, <3>3
  <2> QED BY <2>1, <2>2, <2>3, <2>4 DEF Next, Tick, ConfirmRecovery
<1> QED BY <1>1, OutboxInvariant, PTL DEF Spec, SettledStaysSettled
=============================================================================
