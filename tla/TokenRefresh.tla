---------------------------- MODULE TokenRefresh ----------------------------
(***************************************************************************)
(* The stored Feishu grants and everyone who writes them: the leased sweep *)
(* of SchedulerLease, the live reads of the agent (which refresh without a *)
(* lease), login, logout, and the confirmed recovery of a paused grant.    *)
(* A refresh is three calls, load the material, post it to Feishu, record  *)
(* the outcome, with everyone else free to run in between.                 *)
(*                                                                         *)
(* A refresh token is the rank of its issue; the fingerprint of a grant is *)
(* that of the token it stores.  Time passes for tokens by Age: a grant is *)
(* near when it expires within the lookahead (by default also the skew of  *)
(* live reads).  No code writes the state 'expired', and login refuses a   *)
(* grant without refresh material, so neither appears.                     *)
(***************************************************************************)
EXTENDS SchedulerLease, Sequences, FiniteSets

CONSTANTS
    Grants,      \* token_grants of the tenant
    Readers,     \* live reads of the agent
    Recoveries,  \* confirmed recoveries of paused grants, by idempotency key
    Limit,       \* grants per sweep
    MinWindow,   \* MIN_AUDIT_SEQUENCE_WINDOW
    MaxTokens    \* bound on the tokens Feishu issues per grant

ASSUME RefreshConfig ==
    /\ IsFiniteSet(Grants)
    /\ {Limit, MinWindow} \subseteq Nat \ {0} /\ MaxTokens \in Nat
    /\ Readers \cap Runners = {}

VARIABLES
    grant,      \* token_grants
    login,      \* the token a login has obtained and not stored yet, or 0
    issued,     \* Feishu: tokens issued per grant
    usable,     \* Feishu: tokens it still accepts
    sweep,      \* the rest of a sweep: its candidates, index and result
    call,       \* the refresh an actor is in
    readAt,     \* the clock a live read has read
    audited,    \* audit_events of refreshes, by (trace, sequence)
    recovery,   \* operational recoveries
    errors,     \* repository errors inside a refresh so far
    delivered,  \* history: the last token obtained for a grant
    contended,  \* history: grants with two refreshes at once, or one cut short
    overtaken   \* history: <<sweep, grant>> listed when another refresh was recorded

grantVars == <<grant, login, issued, usable, sweep, call, readAt, audited, recovery, errors,
               delivered, contended, overtaken>>
vars == <<leaseVars, grantVars>>

-----------------------------------------------------------------------------
Actors == Runners \cup Readers
Refreshable == {"valid", "needs_refresh"}
Errors == {"none", "transient", "paused"}  \* paused: the codes the sweep's query excludes
Outcomes == {"success", "transient", "reauth", "config"}

Grant == [state : Refreshable \cup {"none", "reauth_required", "revoked"}, token : Nat,
          near : BOOLEAN, error : Errors, updated_at : Nat]
Snapshot == [id : Grants, token : Nat]
NoCall == [step |-> "none"]
Call == {NoCall} \cup [step : {"load", "post"}, of : Snapshot]
                 \cup [step : {"record"}, of : Snapshot, outcome : Outcomes, token : Nat]
Sweep == [todo : Seq(Snapshot), index : Nat, more : BOOLEAN, listed : BOOLEAN, failed : BOOLEAN]
NoSweep == [todo |-> <<>>, index |-> 0, more |-> FALSE, listed |-> FALSE, failed |-> FALSE]

Init ==
    /\ LeaseInit
    /\ grant = [g \in Grants |-> [state |-> "none", token |-> 0, near |-> FALSE,
                                  error |-> "none", updated_at |-> Null]]
    /\ login = [g \in Grants |-> 0]
    /\ issued = [g \in Grants |-> 0]
    /\ usable = [g \in Grants |-> {}]
    /\ sweep = [r \in Runners |-> NoSweep]
    /\ call = [a \in Actors |-> NoCall]
    /\ readAt = [l \in Readers |-> Null]
    /\ audited = {}
    /\ errors = 0
    /\ recovery = [v \in Recoveries |-> [status |-> "none", id |-> Null, expected |-> Null]]
    /\ delivered = [g \in Grants |-> 0]
    /\ contended = {}
    /\ overtaken = {}

-----------------------------------------------------------------------------
(* Feishu.  A rotation may or may not invalidate the token it was for.     *)
Issue(g, spent) ==
    /\ issued[g] < MaxTokens
    /\ issued' = [issued EXCEPT ![g] = @ + 1]
    /\ \E gone \in {{}, spent} :
          usable' = [usable EXCEPT ![g] = (@ \ gone) \cup {issued[g] + 1}]

(* The user withdraws the authorization in Feishu.                         *)
Deauthorize(g) ==
    /\ usable[g] # {}
    /\ usable' = [usable EXCEPT ![g] = {}]
    /\ UNCHANGED <<leaseVars, grant, login, issued, sweep, call, readAt, audited, recovery, errors,
                   delivered, contended, overtaken>>

Age(g) ==
    /\ grant[g].state \in Refreshable /\ ~ grant[g].near
    /\ grant' = [grant EXCEPT ![g].near = TRUE]
    /\ UNCHANGED <<leaseVars, login, issued, usable, sweep, call, readAt, audited, recovery, errors,
                   delivered, contended, overtaken>>

(* A login exchanges its code for a token, and then upserts the grant,     *)
(* whatever is stored.  A login that could not be stored is dropped, and   *)
(* the user logs in again.                                                 *)
ExchangeCode(g) ==
    /\ Issue(g, usable[g])
    /\ login' = [login EXCEPT ![g] = issued[g] + 1]
    /\ UNCHANGED <<leaseVars, grant, sweep, call, readAt, audited, recovery, errors,
                   delivered, contended, overtaken>>

PersistLoginGrant(g) ==
    /\ login[g] # 0
    /\ grant' = [grant EXCEPT ![g] = [state |-> "valid", token |-> login[g], near |-> FALSE,
                                      error |-> "none", updated_at |-> now]]
    /\ login' = [login EXCEPT ![g] = 0]
    /\ delivered' = [delivered EXCEPT ![g] = login[g]]
    /\ contended' = contended \ {g}
    /\ UNCHANGED <<leaseVars, issued, usable, sweep, call, readAt, audited, recovery, errors, overtaken>>

(* The logout of the last device revokes the grants of its user.           *)
RevokeGrant(g) ==
    /\ grant[g].state \notin {"none", "revoked"}
    /\ grant' = [grant EXCEPT ![g].state = "revoked", ![g].updated_at = now]
    /\ UNCHANGED <<leaseVars, login, issued, usable, sweep, call, readAt, audited, recovery, errors,
                   delivered, contended, overtaken>>

-----------------------------------------------------------------------------
(* refresh_grant_with_audit starts.  The history remembers an overlap.     *)
InFlight(g) == { a \in Actors : call[a] # NoCall /\ call[a].of.id = g }
Begin(snapshot) == [step |-> "load", of |-> snapshot]
Overlap(a, g) == IF InFlight(g) \ {a} # {} THEN {g} ELSE {}

(* The adapter loads the stored material, whatever the grant's state, and  *)
(* posts nothing when the fingerprint has moved on.                        *)
LoadMaterial(a) ==
    LET of == call[a].of IN
    /\ call[a].step = "load"
    /\ call' = [call EXCEPT ![a] =
                  IF grant[of.id].token = of.token
                  THEN [step |-> "post", of |-> of]
                  ELSE [step |-> "record", of |-> of, outcome |-> "transient", token |-> 0]]
    /\ UNCHANGED <<leaseVars, grant, login, issued, usable, sweep, readAt, audited, recovery, errors,
                   delivered, contended, overtaken>>

Answer(a, outcome, token) ==
    call' = [call EXCEPT ![a] = [step |-> "record", of |-> @.of, outcome |-> outcome, token |-> token]]

(* post_json and the classification of what comes back.  A timeout, a 5xx, *)
(* an unreadable or an oversized answer may hide a rotation.               *)
PostRefresh(a) ==
    LET g == call[a].of.id
        t == call[a].of.token IN
    /\ call[a].step = "post"
    /\ \/ /\ t \in usable[g]
          /\ Issue(g, {t})
          /\ \/ /\ Answer(a, "success", issued[g] + 1)
                /\ delivered' = IF grant[g].token = t
                                THEN [delivered EXCEPT ![g] = issued[g] + 1]
                                ELSE delivered
             \/ /\ \E lost \in {"transient", "config"} : Answer(a, lost, 0)
                /\ UNCHANGED delivered
       \/ /\ \E refusal \in {"transient", "config"} \cup (IF t \in usable[g] THEN {} ELSE {"reauth"}) :
                Answer(a, refusal, 0)
          /\ UNCHANGED <<issued, usable, delivered>>
    /\ UNCHANGED <<leaseVars, grant, login, sweep, readAt, audited, recovery, errors, contended,
                   overtaken>>

-----------------------------------------------------------------------------
(* Mutants: the command matches whatever the grant's state; or whatever    *)
(* token it stores by now.                                                 *)
CommandMatchesAnyState(of) == grant[of.id].token = of.token
CommandMatchesAnyToken(of) == grant[of.id].state \in Refreshable

(* ROTATE_TOKEN_GRANT and the MARK_ statements share their guard.          *)
CommandMatches(of) ==
    /\ grant[of.id].token = of.token
    /\ grant[of.id].state \in Refreshable

(* Mutant: a rotation stores the expiry of the new token, not the token.   *)
RotatedKeepsToken(row, c, t) == [row EXCEPT !.state = "valid", !.near = FALSE, !.updated_at = t]

(* ROTATE_TOKEN_GRANT                                                      *)
Rotated(row, c, t) ==
    [row EXCEPT !.state = "valid", !.token = c.token, !.near = FALSE, !.error = "none", !.updated_at = t]

(* The error code the adapter's outcome leaves in last_refresh_error.      *)
ErrorOf(outcome) == IF outcome = "config" THEN "paused" ELSE "transient"

(* MARK_TOKEN_GRANT_REFRESH_FAILED, for a transient and a config failure,  *)
(* and MARK_TOKEN_GRANT_REAUTH_REQUIRED.                                   *)
MarkedRefreshFailed(row, outcome, t) ==
    [row EXCEPT !.state = "needs_refresh", !.error = ErrorOf(outcome), !.updated_at = t]
MarkedReauth(row, t) ==
    [row EXCEPT !.state = "reauth_required", !.error = ErrorOf("reauth"), !.updated_at = t]

(* decide_token_refresh, and the statement of the command it yields.       *)
Applied(row, c, t) ==
    CASE c.outcome = "success" -> Rotated(row, c, t)
      [] c.outcome = "reauth" -> MarkedReauth(row, t)
      [] OTHER -> MarkedRefreshFailed(row, c.outcome, t)

(* Mutant: every attempt writes its events from the same start.            *)
AuditSequenceSameWindow(attempt, index) == 1 + index

(* scheduled_sweep_audit_sequence_start, and the index of the grant.       *)
AuditSequence(attempt, index) ==
    1 + (attempt - 1) * (IF Limit > MinWindow THEN Limit ELSE MinWindow) + index

(* The (trace, sequence) of a refresh event.  The sweeps of a tenant share *)
(* a trace; a live read has one per session, grant and millisecond.        *)
SweepTrace == "token_refresh"
AuditSlot(a) ==
    IF a \in Runners
    THEN <<SweepTrace, AuditSequence(lease[a].attempt_count, sweep[a].index)>>
    ELSE <<a, call[a].of.id, readAt[a]>>

CallTime(a) == IF a \in Runners THEN started[a] ELSE readAt[a]

(* The grants a sweep has listed and not recorded yet.                     *)
Listed(r) == { sweep[r].todo[i].id : i \in DOMAIN sweep[r].todo }

(* apply_planned_command_with_audit: command and event, or neither.        *)
Commit(a) ==
    LET c == call[a]
        g == c.of.id IN
    /\ audited' = audited \cup {AuditSlot(a)}
    /\ grant' = IF CommandMatches(c.of)
                THEN [grant EXCEPT ![g] = Applied(@, c, CallTime(a))]
                ELSE grant
    /\ overtaken' = overtaken \cup { r \in Runners \ {a} : g \in Listed(r) } \X {g}

Rollback == UNCHANGED <<audited, grant, overtaken>>

(* The sweep goes on to its next candidate, or fails and drops the rest.   *)
EndCall(a, ok) ==
    IF a \in Readers THEN call' = [call EXCEPT ![a] = NoCall] /\ UNCHANGED sweep
    ELSE /\ sweep' = [sweep EXCEPT ![a].todo = IF ok THEN Tail(@) ELSE <<>>,
                                   ![a].index = @ + 1,
                                   ![a].failed = ~ ok]
         /\ call' = [call EXCEPT ![a] = IF ok /\ Len(sweep[a].todo) > 1
                                        THEN Begin(sweep[a].todo[2])
                                        ELSE NoCall]

(* Candidates of a sweep are begun one after the other.                    *)
BegunBy(a) ==
    IF a \in Runners /\ Len(sweep[a].todo) > 1 THEN Overlap(a, sweep[a].todo[2].id) ELSE {}

RecordRefresh(a) ==
    /\ call[a].step = "record"
    /\ IF AuditSlot(a) \in audited
       THEN Rollback /\ EndCall(a, FALSE)
       ELSE Commit(a) /\ EndCall(a, TRUE)
    /\ contended' = contended \cup BegunBy(a)
    /\ UNCHANGED <<leaseVars, login, issued, usable, readAt, recovery, errors, delivered>>

(* The transaction fails, or commits and its answer is lost.               *)
RecordFails(a) ==
    /\ call[a].step = "record"
    /\ faults + errors < MaxFaults
    /\ errors' = errors + 1
    /\ Rollback \/ (AuditSlot(a) \notin audited /\ Commit(a))
    /\ EndCall(a, FALSE)
    /\ contended' = contended \cup {call[a].of.id}
    /\ UNCHANGED <<leaseVars, login, issued, usable, readAt, recovery, delivered>>

-----------------------------------------------------------------------------
(* Mutant: the query does not exclude the codes that pause a grant.        *)
CandidatesEvenPaused ==
    { g \in Grants : /\ grant[g].state \in Refreshable
                     /\ grant[g].state = "needs_refresh" \/ grant[g].near }

(* LIST_TOKEN_REFRESH_CANDIDATE_SNAPSHOTS: grants known to need a refresh  *)
(* come first; among equals the order of expiry is left open.              *)
Candidates ==
    { g \in Grants : /\ grant[g].state \in Refreshable
                     /\ grant[g].error # "paused"
                     /\ grant[g].state = "needs_refresh" \/ grant[g].near }

CandidateOrders ==
    { s \in [1 .. Cardinality(Candidates) -> Candidates] :
        \A i, j \in DOMAIN s :
            i < j => /\ s[i] # s[j]
                     /\ grant[s[j]].state = "needs_refresh" => grant[s[i]].state = "needs_refresh" }

Least(m, n) == IF m < n THEN m ELSE n

(* run_once_for_tenant lists limit + 1 candidates and keeps the limit.     *)
ListCandidates(r) ==
    /\ at[r] = "sweep" /\ ~ sweep[r].listed
    /\ \E s \in CandidateOrders :
          LET todo == [i \in 1 .. Least(Limit, Len(s)) |-> [id |-> s[i], token |-> grant[s[i]].token]] IN
          /\ sweep' = [sweep EXCEPT ![r] = [NoSweep EXCEPT !.todo = todo, !.listed = TRUE,
                                                           !.more = Len(s) > Limit]]
          /\ call' = [call EXCEPT ![r] = IF todo = <<>> THEN NoCall ELSE Begin(todo[1])]
          /\ contended' = IF todo = <<>> THEN contended ELSE contended \cup Overlap(r, todo[1].id)
    /\ overtaken' = overtaken \ ({r} \X Grants)
    /\ UNCHANGED <<leaseVars, grant, login, issued, usable, readAt, audited, recovery, errors,
                   delivered>>

(* Mutant: the job is due again as soon as the sweep returns.              *)
DelayAfterNow(r) == 0

(* The delay is short after a cut list and after an error.                 *)
DelayAfter(r) ==
    IF sweep[r].failed THEN RetryDelayMs ELSE IF sweep[r].more THEN BacklogDelayMs ELSE NextRunDelayMs

SweepReturns(r) ==
    /\ sweep[r].listed /\ sweep[r].todo = <<>>
    /\ FinishSweep(r, DelayAfter(r))
    /\ sweep' = [sweep EXCEPT ![r] = NoSweep]
    /\ UNCHANGED <<grant, login, issued, usable, call, readAt, audited, recovery, errors,
                   delivered, contended, overtaken>>

(* The instance dies inside a refresh or between two steps of its run.     *)
InstanceDies(r) ==
    /\ faults + errors < MaxFaults
    /\ Abandon(r)
    /\ sweep' = [sweep EXCEPT ![r] = NoSweep]
    /\ call' = [call EXCEPT ![r] = NoCall]
    /\ contended' = contended \cup (IF call[r] = NoCall THEN {} ELSE {call[r].of.id})
    /\ UNCHANGED <<grant, login, issued, usable, readAt, audited, recovery, errors, delivered,
                   overtaken>>

(* A live read refreshes a grant that needs it, under no lease, and then   *)
(* reloads and validates it, which writes nothing.  A round trip to Feishu *)
(* takes longer than the clock's grain, so a session starts no two at one  *)
(* reading.                                                                *)
RefreshBeforeLiveRead(l, g) ==
    /\ call[l] = NoCall /\ readAt[l] < now
    /\ grant[g].state \in Refreshable
    /\ grant[g].state = "needs_refresh" \/ grant[g].near
    /\ call' = [call EXCEPT ![l] = Begin([id |-> g, token |-> grant[g].token])]
    /\ readAt' = [readAt EXCEPT ![l] = now]
    /\ contended' = contended \cup Overlap(l, g)
    /\ UNCHANGED <<leaseVars, grant, login, issued, usable, sweep, audited, recovery, errors,
                   delivered, overtaken>>

-----------------------------------------------------------------------------
(* An operator confirms the recovery of a paused grant by the version the  *)
(* report showed; executing it resumes that version, or nothing.           *)
Paused(g) == grant[g].state \in Refreshable /\ grant[g].error = "paused"

ConfirmResume(v, g) ==
    /\ recovery[v].status = "none"
    /\ Paused(g)
    /\ recovery' = [recovery EXCEPT ![v] = [status |-> "confirmed", id |-> g,
                                            expected |-> grant[g].updated_at]]
    /\ UNCHANGED <<leaseVars, grant, login, issued, usable, sweep, call, readAt, audited, errors,
                   delivered, contended, overtaken>>

ExecuteResume(v) ==
    LET g == recovery[v].id
        eligible == Paused(g) /\ grant[g].updated_at = recovery[v].expected IN
    /\ recovery[v].status = "confirmed"
    /\ recovery' = [recovery EXCEPT ![v].status = IF eligible THEN "succeeded" ELSE "failed"]
    /\ grant' = IF eligible THEN [grant EXCEPT ![g].error = "none", ![g].updated_at = now] ELSE grant
    /\ UNCHANGED <<leaseVars, login, issued, usable, sweep, call, readAt, audited, errors,
                   delivered, contended, overtaken>>

-----------------------------------------------------------------------------
LeaseStep ==
    /\ \/ Tick
       \/ \E r \in Runners : RunOnce(r) \/ InsertJobIfMissing(r) \/ TryAcquire(r) \/ Finalize(r)
    /\ UNCHANGED grantVars

Next ==
    \/ LeaseStep
    \/ \E r \in Runners : ListCandidates(r) \/ SweepReturns(r) \/ InstanceDies(r)
    \/ \E a \in Actors : LoadMaterial(a) \/ PostRefresh(a) \/ RecordRefresh(a) \/ RecordFails(a)
    \/ \E l \in Readers, g \in Grants : RefreshBeforeLiveRead(l, g)
    \/ \E g \in Grants : \/ Deauthorize(g) \/ Age(g)
                         \/ ExchangeCode(g) \/ PersistLoginGrant(g) \/ RevokeGrant(g)
    \/ \E v \in Recoveries : ExecuteResume(v) \/ \E g \in Grants : ConfirmResume(v, g)

Spec == Init /\ [][Next]_vars

-----------------------------------------------------------------------------
TypeOK ==
    /\ LeaseTypeOK
    /\ grant \in [Grants -> Grant]
    /\ login \in [Grants -> Nat] /\ issued \in [Grants -> Nat] /\ delivered \in [Grants -> Nat]
    /\ usable \in [Grants -> SUBSET Nat]
    /\ \A g \in Grants : usable[g] \subseteq 1 .. issued[g]
    /\ sweep \in [Runners -> Sweep]
    /\ call \in [Actors -> Call]
    /\ readAt \in [Readers -> Nat]
    /\ errors \in Nat
    /\ contended \subseteq Grants
    /\ overtaken \subseteq Runners \X Grants
    /\ recovery \in [Recoveries -> [status : {"none", "confirmed", "succeeded", "failed"},
                                    id : Grants \cup {Null}, expected : Nat]]

(* Sweeping grants under it never breaks the protocol of the lease: every  *)
(* step here is a step of SchedulerLease or leaves the job alone, so what  *)
(* is proved of the lease holds of the refresh.                            *)
KeepsLease == LeaseSpec

(* A grant that was revoked, or that needs the user, comes back only by a  *)
(* login: no refresh that was under way revives it when it returns.        *)
RevivedOnlyByLogin ==
    [][\A g \in Grants :
         grant[g].state \in {"revoked", "reauth_required"} /\ grant'[g].state \in Refreshable =>
            login[g] # 0 /\ grant'[g].token = login[g]]_vars

(* What a login stored is never overwritten by the answer to a refresh of  *)
(* an older token: the stored token is replaced by its own successor, or   *)
(* by a login.                                                             *)
ReplacedByItsSuccessor ==
    [][\A g \in Grants :
         grant'[g].token # grant[g].token =>
            \/ grant'[g].token = login[g]
            \/ \E a \in Actors : /\ call[a].step = "record" /\ call[a].of.id = g
                                 /\ call[a].of.token = grant[g].token]_vars

(* The sweeps of a tenant share one trace: whatever was taken over, the    *)
(* event a sweep is about to write has its slot to itself, so no outcome   *)
(* of a refresh is rolled back by it.                                      *)
SweepSlotIsFree ==
    \A r \in Runners : call[r].step = "record" => AuditSlot(r) \notin audited

Settled(g) ==
    \A a \in Actors : ~ (call[a].step = "record" /\ call[a].of.id = g /\ call[a].outcome = "success")

(* A token that Feishu handed out for the stored one ends up stored, when  *)
(* no other refresh of the grant overlapped and none was cut short.        *)
UncontendedRotationIsSaved ==
    \A g \in Grants \ contended :
        Settled(g) /\ grant[g].state # "revoked" => grant[g].token = delivered[g]

(* Types and the above: the invariant of the race between the refreshes.   *)
RefreshInv == TypeOK /\ UncontendedRotationIsSaved

(* A pause is lifted by a login, by a confirmed recovery of the grant or   *)
(* by a live read, and by no sweep, unless the sweep had listed the grant  *)
(* when the refresh that paused it was recorded.                           *)
PauseOutlastsSweeps ==
    [][\A g \in Grants :
         Paused(g) /\ grant'[g].state \in Refreshable /\ grant'[g].error # "paused" =>
            \/ login[g] # 0 /\ grant'[g].token = login[g]
            \/ \E v \in Recoveries : /\ recovery[v].id = g
                                     /\ recovery[v].status = "confirmed"
                                     /\ recovery'[v].status = "succeeded"
            \/ \E l \in Readers : call[l].step = "record" /\ call[l].of.id = g
            \/ \E r \in Runners : <<r, g>> \in overtaken /\ call[r].step = "record" /\ call[r].of.id = g]_vars

=============================================================================
