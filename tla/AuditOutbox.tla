---------------------------- MODULE AuditOutbox ----------------------------
(***************************************************************************)
(* PostgresAuditOutboxWorker and the table it drains.  A worker reads its  *)
(* clock, claims the due envelopes under a lease, delivers them one after  *)
(* the other and marks each, if the lease of its attempt still stands.     *)
(* Several workers drain one stream; a delivery may outlast its lease; a   *)
(* worker may die anywhere; an operator reopens a failed envelope with a   *)
(* confirmed recovery.                                                     *)
(***************************************************************************)
EXTENDS Integers, FiniteSets

CONSTANTS
    Messages,      \* ids of audit_outbox rows
    Unsafe,        \* rows older than the payload check, which they fail
    Workers,       \* maintenance workers draining the stream
    Recoveries,    \* confirmed recoveries, by idempotency key
    EnvelopesOf,   \* the rows that announce the events of a recovery
    BatchLimit, LeaseMs, RetryDelayMs, MaxAttempts,  \* AuditOutboxDrainConfig
    MaxTime,       \* bound on the clock
    MaxFaults      \* bound on crashes and repository errors

ASSUME MessagesAssumption == Messages \subseteq Nat /\ IsFiniteSet(Messages)
ASSUME EnvelopesAssumption ==
    /\ EnvelopesOf \in [Recoveries -> SUBSET (Messages \ Unsafe)]
    /\ \A r, s \in Recoveries : r # s => EnvelopesOf[r] \cap EnvelopesOf[s] = {}
ASSUME ConfigAssumption ==  \* PostgresTenantMaintenanceConfig::validate
    /\ {BatchLimit, LeaseMs, RetryDelayMs, MaxAttempts} \subseteq Nat \ {0}
    /\ MaxTime \in Nat \ {0} /\ MaxFaults \in Nat

VARIABLES
    box,       \* audit_outbox
    now,       \* the clock the workers read
    pc,        \* the call a worker is about to make
    lease,     \* lease_until_ms of its claim
    claims,    \* the envelopes it has claimed and not settled
    reply,     \* what the sink answered
    sink,      \* what the sink has seen of each envelope
    recovery,  \* confirmed recoveries
    faults     \* faults so far

workerVars == <<pc, lease, claims, reply>>
vars == <<box, now, workerVars, sink, recovery, faults>>

-----------------------------------------------------------------------------
Null == 0  \* SQL NULL; the clock starts at 1
Row == [status : {"none", "pending", "sent", "failed"},
        attempt_count : Nat, next_attempt_at : Nat]
Claim == [id : Messages, attempt_count : Nat]
Replies == {"none", "sent", "retryable", "failed"}

Init ==
    /\ box = [m \in Messages |-> [status |-> "none", attempt_count |-> 0, next_attempt_at |-> Null]]
    /\ now = 1
    /\ pc = [w \in Workers |-> "idle"]
    /\ lease = [w \in Workers |-> Null]
    /\ claims = [w \in Workers |-> {}]
    /\ reply = [w \in Workers |-> "none"]
    /\ sink = [m \in Messages |-> [received |-> FALSE, refused |-> FALSE]]
    /\ recovery = [r \in Recoveries |-> [status |-> "none", id |-> 0, expected |-> 0]]
    /\ faults = 0

Tick ==
    /\ now < MaxTime
    /\ now' = now + 1
    /\ UNCHANGED <<box, workerVars, sink, recovery, faults>>

(* ENQUEUE_AUDIT_OUTBOX, in the transaction of the event it announces.     *)
NewRow(at) == [status |-> "pending", attempt_count |-> 0, next_attempt_at |-> at]

Enqueue(m) ==
    /\ box[m].status = "none"
    /\ \A r \in Recoveries : m \notin EnvelopesOf[r]
    /\ box' = [box EXCEPT ![m] = NewRow(now)]
    /\ UNCHANGED <<now, workerVars, sink, recovery, faults>>

-----------------------------------------------------------------------------
(* drain_once reads the clock, which fixes the lease, and then claims.     *)
DrainOnce(w) ==
    /\ pc[w] = "idle"
    /\ pc' = [pc EXCEPT ![w] = "claim"]
    /\ lease' = [lease EXCEPT ![w] = now + LeaseMs]
    /\ UNCHANGED <<box, now, claims, reply, sink, recovery, faults>>

(* drain_once returns, and its local variables go.                         *)
Leave(w) ==
    /\ pc' = [pc EXCEPT ![w] = "idle"]
    /\ lease' = [lease EXCEPT ![w] = Null]

(* Mutant: a claimed row is due as soon as it is pending.                  *)
DueIgnoresLease(w) == { m \in Messages : box[m].status = "pending" }

(* CLAIM_AUDIT_OUTBOX: the first rows of those due at the time it read.    *)
Due(w) ==
    { m \in Messages : /\ box[m].status = "pending"
                       /\ box[m].next_attempt_at <= lease[w] - LeaseMs }

Before(j, m) ==
    \/ box[j].next_attempt_at < box[m].next_attempt_at
    \/ box[j].next_attempt_at = box[m].next_attempt_at /\ j < m

Candidates(w) ==
    { m \in Due(w) : Cardinality({ j \in Due(w) : Before(j, m) }) < BatchLimit }

ClaimedBox(w) ==
    [m \in Messages |->
        IF m \in Candidates(w)
        THEN [box[m] EXCEPT !.attempt_count = @ + 1, !.next_attempt_at = lease[w]]
        ELSE box[m]]

ClaimsOf(w) == { [id |-> m, attempt_count |-> box[m].attempt_count + 1] : m \in Candidates(w) }

ClaimOutbox(w) ==
    /\ pc[w] = "claim"
    /\ box' = ClaimedBox(w)
    /\ claims' = [claims EXCEPT ![w] = ClaimsOf(w)]
    /\ IF Candidates(w) = {} THEN Leave(w) ELSE pc' = [pc EXCEPT ![w] = "deliver"] /\ UNCHANGED lease
    /\ UNCHANGED <<now, reply, sink, recovery, faults>>

(* The claim is delivered in the order of the ids.                         *)
Current(w) == CHOOSE c \in claims[w] : \A d \in claims[w] : c.id <= d.id

(* dispatcher.deliver.  An unsafe envelope fails before it is posted; an   *)
(* error or a timeout does not say whether the sink received it.           *)
Deliver(w) ==
    LET m == Current(w).id IN
    /\ pc[w] = "deliver"
    /\ \/ /\ m \notin Unsafe
          /\ reply' = [reply EXCEPT ![w] = "sent"]
          /\ sink' = [sink EXCEPT ![m].received = TRUE]
       \/ /\ m \notin Unsafe
          /\ reply' = [reply EXCEPT ![w] = "retryable"]
          /\ \E received \in {sink[m].received, TRUE} : sink' = [sink EXCEPT ![m].received = received]
       \/ /\ reply' = [reply EXCEPT ![w] = "failed"]
          /\ sink' = [sink EXCEPT ![m].refused = TRUE]
    /\ pc' = [pc EXCEPT ![w] = "mark"]
    /\ UNCHANGED <<box, now, lease, claims, recovery, faults>>

(* Mutant: an exhausted envelope is settled as sent.                       *)
ExhaustedSettlesSent(w) ==
    IF reply[w] = "retryable" /\ Current(w).attempt_count >= MaxAttempts THEN "sent" ELSE reply[w]

(* A retryable delivery of the last attempt counts as failed.              *)
Exhausted(w) == reply[w] = "retryable" /\ Current(w).attempt_count >= MaxAttempts
EffectiveDelivery(w) == IF Exhausted(w) THEN "failed" ELSE reply[w]

(* Mutant: marked by id, whoever claimed or settled the row meanwhile.     *)
MarkMatchesById(w, c) == box[c.id].status # "none"

(* MARK_AUDIT_OUTBOX_*_FOR_ATTEMPT: the claim must still be the row's.     *)
MarkMatches(w, c) ==
    /\ box[c.id].attempt_count = c.attempt_count
    /\ box[c.id].next_attempt_at = lease[w]
    /\ box[c.id].status = "pending"

MarkedRow(m, delivery) ==
    CASE delivery = "sent" -> [box[m] EXCEPT !.status = "sent"]
      [] delivery = "retryable" -> [box[m] EXCEPT !.next_attempt_at = now + RetryDelayMs]
      [] delivery = "failed" -> [box[m] EXCEPT !.status = "failed", !.next_attempt_at = Null]

SettleBox(w) ==
    LET c == Current(w) IN
    box' = IF MarkMatches(w, c)
           THEN [box EXCEPT ![c.id] = MarkedRow(c.id, EffectiveDelivery(w))]
           ELSE box

MarkDelivery(w) ==
    /\ pc[w] = "mark"
    /\ SettleBox(w)
    /\ claims' = [claims EXCEPT ![w] = @ \ {Current(w)}]
    /\ reply' = [reply EXCEPT ![w] = "none"]
    /\ IF claims[w] = {Current(w)}
       THEN Leave(w)
       ELSE pc' = [pc EXCEPT ![w] = "deliver"] /\ UNCHANGED lease
    /\ UNCHANGED <<now, sink, recovery, faults>>

-----------------------------------------------------------------------------
(* A fault ends drain_once and with it the rest of the batch, whose rows   *)
(* stay claimed.  The statement it interrupts may have been committed.     *)
Fault(w) ==
    /\ faults < MaxFaults
    /\ faults' = faults + 1
    /\ claims' = [claims EXCEPT ![w] = {}]
    /\ reply' = [reply EXCEPT ![w] = "none"]
    /\ Leave(w)
    /\ UNCHANGED <<now, sink, recovery>>

Crash(w) ==
    /\ pc[w] # "idle"
    /\ Fault(w)
    /\ UNCHANGED box

ReportLost(w) ==
    /\ \/ pc[w] = "claim" /\ box' = ClaimedBox(w)
       \/ pc[w] = "mark" /\ SettleBox(w)
    /\ Fault(w)

(* An operator reads the recovery report and confirms the requeue of a     *)
(* failed envelope with the attempt count the report showed.               *)
ConfirmRecovery(r, m) ==
    /\ recovery[r].status = "none"
    /\ box[m].status = "failed"
    /\ recovery' = [recovery EXCEPT ![r] =
          [status |-> "confirmed", id |-> m, expected |-> box[m].attempt_count]]
    /\ UNCHANGED <<box, now, workerVars, sink, faults>>

(* Mutant: the requeue is not bound to the status and count reported.      *)
RequeueableAnyRow(r) == recovery[r].id \notin Unsafe

(* execute_confirmed_recovery, one transaction: requeue the row if it is   *)
(* still the one that was reported, settle the operation and announce its  *)
(* events.  The request says when the row and the envelopes are due.  A    *)
(* replay finds a settled operation and changes nothing.                   *)
Requeueable(r) ==
    /\ box[recovery[r].id].status = "failed"
    /\ box[recovery[r].id].attempt_count = recovery[r].expected
    /\ recovery[r].id \notin Unsafe

ExecuteRecovery(r, due, announced) ==
    /\ recovery[r].status = "confirmed"
    /\ recovery' = [recovery EXCEPT ![r].status = IF Requeueable(r) THEN "succeeded" ELSE "failed"]
    /\ box' = [m \in Messages |->
          CASE m \in EnvelopesOf[r] -> NewRow(announced)
            [] m \notin EnvelopesOf[r] /\ m = recovery[r].id /\ Requeueable(r) ->
                  [box[m] EXCEPT !.status = "pending", !.next_attempt_at = due]
            [] OTHER -> box[m]]
    /\ UNCHANGED <<now, workerVars, sink, faults>>

WorkerStep(w) == DrainOnce(w) \/ ClaimOutbox(w) \/ Deliver(w) \/ MarkDelivery(w)

Next ==
    \/ Tick
    \/ \E m \in Messages : Enqueue(m)
    \/ \E w \in Workers : WorkerStep(w) \/ Crash(w) \/ ReportLost(w)
    \/ \E r \in Recoveries, m \in Messages : ConfirmRecovery(r, m)
    \/ \E r \in Recoveries, due, announced \in {now, now + 1} : ExecuteRecovery(r, due, announced)

Spec == Init /\ [][Next]_vars

-----------------------------------------------------------------------------
(* The values every variable ranges over.                                  *)
TypeOK ==
    /\ box \in [Messages -> Row]
    /\ now \in 1 .. MaxTime
    /\ pc \in [Workers -> {"idle", "claim", "deliver", "mark"}]
    /\ lease \in [Workers -> Nat]
    /\ claims \in [Workers -> SUBSET Claim]
    /\ \A w \in Workers : pc[w] \in {"deliver", "mark"} <=> claims[w] # {}
    /\ reply \in [Workers -> Replies]
    /\ sink \in [Messages -> [received : BOOLEAN, refused : BOOLEAN]]
    /\ recovery \in [Recoveries -> [status : {"none", "confirmed", "succeeded", "failed"},
                                    id : Messages \cup {0}, expected : Nat]]
    /\ faults \in 0 .. MaxFaults

(* While its lease runs, a claim is the only one of its envelope: workers  *)
(* deliver the same envelope side by side only after a lease ran out.      *)
UnexpiredClaimIsExclusive ==
    \A v, w \in Workers : v # w =>
        \A c \in claims[v], d \in claims[w] :
            c.id = d.id => lease[v] <= now \/ lease[w] <= now

(* No two claims are the same attempt: attempt_count tells a stale worker  *)
(* from the current one even after a requeue that keeps the count.         *)
AttemptIsUnique ==
    \A v, w \in Workers : v # w => claims[v] \cap claims[w] = {}

(* An envelope marked sent was received by the sink.                       *)
SentWasReceived == \A m \in Messages : box[m].status = "sent" => sink[m].received

(* An envelope is given up only after the sink refused it or after         *)
(* max_attempts attempts, however the marks of stale workers interleave.   *)
FailedHasReason ==
    \A m \in Messages : box[m].status = "failed" =>
        sink[m].refused \/ box[m].attempt_count >= MaxAttempts

(* The state is well formed, claims are kept apart by lease and attempt,   *)
(* and no envelope is given up without a reason.                           *)
OutboxInv == TypeOK /\ UnexpiredClaimIsExclusive /\ AttemptIsUnique /\ FailedHasReason

(* One failure is reopened once: two confirmed recoveries of the same      *)
(* report cannot both requeue the envelope.                                *)
ReopenedOncePerFailure ==
    \A r, s \in Recoveries :
        /\ r # s
        /\ recovery[r].status = "succeeded"
        /\ recovery[s].status = "succeeded"
        /\ recovery[r].id = recovery[s].id
        => recovery[r].expected # recovery[s].expected

(* What a step may never do: change a sent envelope, lower an attempt      *)
(* count, or revive a failed envelope without a recovery.                  *)
SettledStaysSettled ==
    [][ \A m \in Messages :
          /\ box[m].status = "sent" => box'[m] = box[m]
          /\ box'[m].attempt_count >= box[m].attempt_count
          /\ box[m].status = "failed" /\ box'[m] # box[m] =>
                \E r \in Recoveries :
                    recovery[r].status = "confirmed" /\ recovery'[r].status = "succeeded" ]_vars

=============================================================================
