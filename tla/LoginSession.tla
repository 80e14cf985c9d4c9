----------------------------- MODULE LoginSession -----------------------------
(***************************************************************************)
(* QR login of one Feishu user and its end: the facade's in-memory login   *)
(* sessions, the OAuth callback that stores identity, grant and device     *)
(* session in five separate upserts, the event stream and the status route *)
(* the client watches, the Swift view model that watches them, and the     *)
(* logout transaction that revokes the grant with the last device.         *)
(***************************************************************************)
EXTENDS Naturals, Sequences, FiniteSets

CONSTANTS
    QRs,          \* ids of login sessions, used in their order
    Callbacks,    \* OAuth redirects, in the order they reach the facade
    NoQr, NoSession,
    TokenReplies, \* answers of the token endpoint
    InfoReplies,  \* answers of the user-info endpoint
    Budgets       \* what a behaviour may use: see Spend

BudgetType == [qrs : Nat, callbacks : Nat, faults : Nat, restarts : Nat, logouts : Nat,
               refreshes : Nat, cancels : Nat, store : BOOLEAN, watch : BOOLEAN]

ASSUME LoginConfig ==
    /\ QRs \subseteq Nat /\ Callbacks \subseteq Nat /\ QRs \cap Callbacks = {}
    /\ NoQr \notin QRs /\ NoSession \notin QRs \cup Callbacks
    /\ Budgets \subseteq BudgetType

VARIABLES
    qr,      \* FeishuLoginRuntime.sessions
    cb,      \* callbacks being handled
    rows,    \* tenant, user and identity rows that are stored
    grant,   \* the user's token grant, and the callback that stored it last
    dev,     \* device session rows
    lo,      \* logout transactions
    sse,     \* event-stream tasks of the facade
    ui,      \* AuthViewModel and AppSessionStore
    ev,      \* the view model's event tasks
    poll,    \* its manual refresh and its polling task
    budget

serverVars == <<qr, cb, rows, grant, dev, lo>>
clientVars == <<ui, ev, poll>>
vars == <<serverVars, sse, clientVars, budget>>

(* A session id is random, and derived from the login session's when no    *)
(* randomness is to be had.                                                *)
Sessions == Callbacks \cup QRs
(* Mutant: the session is stored before the grant it uses.                 *)
StagesSessionFirst == <<"tenant", "workspace_user", "lark_identity", "device_session", "token_grant">>

Stages == <<"tenant", "workspace_user", "lark_identity", "token_grant", "device_session">>

Active == {s \in Sessions : dev[s] = "active"}
Terminal == {"authorized", "denied", "expired"}

(* Bounds: the login sessions and callbacks that may be used, the faults,  *)
(* restarts and manual refreshes that may happen, whether a database is    *)
(* configured, and whether the client stays to watch its login.            *)
Spend(what) == budget[what] > 0 /\ budget' = [budget EXCEPT ![what] = @ - 1]

-----------------------------------------------------------------------------
(* Login sessions.                                                         *)

AuthEventIsTerminal(status) == status \in Terminal

NotifySessionChanged(r) == [r EXCEPT !.version = @ + 1]
ExpireSessionIfNeeded(r) ==
    IF r.state = "pending" /\ r.overdue THEN NotifySessionChanged([r EXCEPT !.state = "expired"])
    ELSE r
Denied(r) == IF r.state = "absent" THEN r
             ELSE NotifySessionChanged([r EXCEPT !.state = "denied", !.session = NoSession])
Authorized(r, s) == NotifySessionChanged([r EXCEPT !.state = "authorized", !.session = s])

(* What the status route and the events show of a login session.           *)
SessionStatusJson(r) ==
    [status |-> r.state, qr_session |-> r.state = "pending",
     oar_session |-> IF r.state = "authorized" THEN r.session ELSE NoSession]

(* What the client makes of them: a pending state needs its QR code, an    *)
(* authorized one its session.                                             *)
ToDomainState(json) ==
    CASE json.status = "pending" /\ json.qr_session -> [state |-> "waiting", session |-> NoSession]
      [] json.status = "authorized" /\ json.oar_session # NoSession ->
            [state |-> "authorized", session |-> json.oar_session]
      [] json.status \in {"denied", "expired"} -> [state |-> json.status, session |-> NoSession]
      [] OTHER -> [state |-> "invalid", session |-> NoSession]

NoReply == [state |-> "none", session |-> NoSession]
Asked == [state |-> "asked", session |-> NoSession]

AbsentQr == [state |-> "absent", session |-> NoSession, version |-> 0, overdue |-> FALSE]

CreateFeishuLoginSession(q) ==
    qr' = [qr EXCEPT ![q] = [AbsentQr EXCEPT !.state = "pending"]]

PassDeadline(q) ==
    /\ qr[q].state = "pending" /\ ~ qr[q].overdue
    /\ qr' = [qr EXCEPT ![q].overdue = TRUE]
    /\ UNCHANGED <<cb, rows, grant, dev, lo, sse, clientVars, budget>>

-----------------------------------------------------------------------------
(* The code exchange: status 0 stands for a transport failure or a body    *)
(* over the limit, code 1 for any error code and 2 for none.               *)
Failed == [ok |-> FALSE, has |-> FALSE]

ParseTokenResponse(r) ==
    IF r.status \in 1 .. 499 /\ r.json /\ r.code = 0 /\ r.access_token /\ r.expires_in
    THEN [ok |-> TRUE, has |-> r.refresh_token]
    ELSE Failed

ParseUserInfoResponse(r) ==
    IF r.status \in 1 .. 499 /\ r.json /\ r.code = 0 /\ r.open_id
    THEN [ok |-> TRUE, has |-> r.tenant_key]
    ELSE Failed

(* The login: none when either step fails; what the token and the user     *)
(* info lack is found when the rows are planned.                           *)
ExchangeCode(token, info) ==
    [ok |-> ParseTokenResponse(token).ok /\ ParseUserInfoResponse(info).ok,
     planned |-> ParseTokenResponse(token).has /\ ParseUserInfoResponse(info).has]

-----------------------------------------------------------------------------
(* The callback.                                                           *)
Idle == [pc |-> "idle", qr |-> NoQr, session |-> NoSession, stage |-> 0,
         began |-> 0, inserted |-> FALSE]
Done(c) == [cb EXCEPT ![c] = [cb[c] EXCEPT !.pc = "done"]]

Arrives(c) == cb[c].pc = "idle" /\ \A d \in Callbacks : d < c => cb[d].pc # "idle"

(* The user declined, or the provider reports an error: whatever the state.*)
CallbackError(c, q) ==
    /\ Spend("callbacks") /\ Arrives(c)
    /\ qr[q].state # "absent"
    /\ cb' = Done(c)
    /\ qr' = [qr EXCEPT ![q] = Denied(@)]
    /\ UNCHANGED <<rows, grant, dev, lo, sse, clientVars>>

CallbackCode(c, q) ==
    /\ Spend("callbacks") /\ Arrives(c)
    /\ qr[q].state # "absent"
    /\ qr' = [qr EXCEPT ![q] = ExpireSessionIfNeeded(@)]
    /\ cb' = IF qr'[q].state \in {"denied", "expired"} THEN Done(c)
             ELSE [cb EXCEPT ![c] = [cb[c] EXCEPT !.pc = "exchange", !.qr = q,
                                                  !.began = qr[q].version]]
    /\ UNCHANGED <<rows, grant, dev, lo, sse, clientVars>>

FailCallback(c) ==
    /\ cb' = Done(c)
    /\ qr' = [qr EXCEPT ![cb[c].qr] = Denied(@)]

Exchange(c) ==
    /\ cb[c].pc = "exchange"
    /\ \E token \in TokenReplies, info \in InfoReplies, s \in {c, cb[c].qr} :
        LET login == ExchangeCode(token, info) IN
        \/ /\ login.ok /\ ~ budget.store
           /\ cb' = [cb EXCEPT ![c] = [cb[c] EXCEPT !.pc = "finish", !.session = s]]
           /\ UNCHANGED qr
        \/ /\ login.ok /\ budget.store /\ login.planned
           /\ cb' = [cb EXCEPT ![c] = [cb[c] EXCEPT !.pc = "persist", !.session = s,
                                                   !.stage = 1]]
           /\ UNCHANGED qr
        \/ /\ ~ login.ok \/ (budget.store /\ ~ login.planned)
           /\ FailCallback(c)
    /\ UNCHANGED <<rows, grant, dev, lo, sse, clientVars, budget>>

(* A logout that found the grant valid holds its row until it ends.        *)
GrantLocked == \E s \in Sessions : lo[s].revokes

UpsertTenant == rows \cup {"tenant"}
UpsertWorkspaceUser == rows \cup {"workspace_user"}
UpsertLarkIdentity == rows \cup {"lark_identity"}
UpsertTokenGrant(c) == grant' = [state |-> "valid", by |-> c]

(* Mutant: the upsert brings back a row that is no longer active.          *)
UpsertReviving(s) == [dev EXCEPT ![s] = "active"]

UpsertDeviceSession(s) == [dev EXCEPT ![s] = IF @ = "absent" THEN "active" ELSE @]

PersistStage(c) ==
    LET stage == Stages[cb[c].stage] IN
    /\ cb[c].pc = "persist"
    /\ stage = "token_grant" => ~ GrantLocked
    /\ cb' = [cb EXCEPT ![c] =
                [cb[c] EXCEPT !.stage = cb[c].stage + 1,
                              !.pc = IF stage = "device_session" THEN "finish" ELSE "persist",
                              !.inserted = stage = "device_session"
                                           /\ dev[cb[c].session] = "absent"]]
    /\ rows' = CASE stage = "tenant" -> UpsertTenant
                 [] stage = "workspace_user" -> UpsertWorkspaceUser
                 [] stage = "lark_identity" -> UpsertLarkIdentity
                 [] OTHER -> rows
    /\ IF stage = "token_grant" THEN UpsertTokenGrant(c) ELSE UNCHANGED grant
    /\ dev' = IF stage = "device_session" THEN UpsertDeviceSession(cb[c].session) ELSE dev
    /\ UNCHANGED <<qr, lo, sse, clientVars, budget>>

PersistFails(c) ==
    /\ Spend("faults")
    /\ cb[c].pc = "persist"
    /\ FailCallback(c)
    /\ UNCHANGED <<rows, grant, dev, lo, sse, clientVars>>

Finish(c) ==
    /\ cb[c].pc = "finish"
    /\ cb' = Done(c)
    /\ qr' = [qr EXCEPT ![cb[c].qr] =
                IF @.state = "absent" THEN @ ELSE Authorized(@, cb[c].session)]
    /\ UNCHANGED <<rows, grant, dev, lo, sse, clientVars, budget>>

-----------------------------------------------------------------------------
(* Logout.  It locks the user's active sessions, revokes its own, counts   *)
(* the rest and, when there is none, revokes the grants with an audit      *)
(* event each; nothing shows before the commit.                            *)
NoTx == [pc |-> "none", locks |-> {}, revokes |-> FALSE]

AuthenticatedContextFromSession(s) == IF dev[s] = "active" THEN "active" ELSE "invalid"
LogoutSessionState(s) ==
    IF dev[s] = "revoked" THEN "signed_out" ELSE AuthenticatedContextFromSession(s)
RevokeDeviceSession(s) == [dev EXCEPT ![s] = IF @ = "absent" THEN @ ELSE "revoked"]
RemainingActiveSessions(s) == {t \in Sessions : RevokeDeviceSession(s)[t] = "active"}
RevokeUserGrants == IF grant.state = "none" THEN grant ELSE [grant EXCEPT !.state = "revoked"]

SignedOut(s) == IF ui.session = s
                THEN [ui EXCEPT !.session = NoSession, !.state = "signed_out",
                                !.qr = NoQr, !.working = FALSE]
                ELSE ui

(* A revoked session is signed out already, and one that is not active is  *)
(* invalid: the client leaves it in both cases.                            *)
Logout(s) ==
    /\ Spend("logouts")
    /\ budget.store /\ dev[s] # "absent" /\ lo[s].pc = "none"
    /\ IF LogoutSessionState(s) = "active"
       THEN lo' = [lo EXCEPT ![s].pc = "begin"] /\ UNCHANGED ui
       ELSE ui' = SignedOut(s) /\ UNCHANGED lo
    /\ UNCHANGED <<qr, cb, rows, grant, dev, sse, ev, poll>>

(* Mutant: the sessions are read without a lock.                           *)
LogoutReads(s) ==
    /\ lo[s].pc = "begin"
    /\ lo' = [lo EXCEPT ![s].pc = "locked"]
    /\ UNCHANGED <<qr, cb, rows, grant, dev, sse, clientVars, budget>>

LogoutLocks(s) ==
    /\ lo[s].pc = "begin"
    /\ \A t \in Sessions : Active \cap lo[t].locks = {}
    /\ lo' = [lo EXCEPT ![s].pc = "locked", ![s].locks = Active]
    /\ UNCHANGED <<qr, cb, rows, grant, dev, sse, clientVars, budget>>

LogoutRevokes(s) ==
    /\ lo[s].pc = "locked"
    /\ lo' = [lo EXCEPT ![s].pc = "revoked",
                        ![s].revokes = RemainingActiveSessions(s) = {} /\ grant.state = "valid"]
    /\ UNCHANGED <<qr, cb, rows, grant, dev, sse, clientVars, budget>>

LogoutCommits(s) ==
    /\ lo[s].pc = "revoked"
    /\ dev' = RevokeDeviceSession(s)
    /\ grant' = IF lo[s].revokes THEN RevokeUserGrants ELSE grant
    /\ lo' = [lo EXCEPT ![s] = NoTx]
    /\ ui' = SignedOut(s)
    /\ UNCHANGED <<qr, cb, rows, sse, ev, poll, budget>>

(* The transaction rolls back; the client leaves the session all the same. *)
LogoutFails(s) ==
    /\ Spend("faults")
    /\ lo[s].pc # "none"
    /\ lo' = [lo EXCEPT ![s] = NoTx]
    /\ ui' = SignedOut(s)
    /\ UNCHANGED <<qr, cb, rows, grant, dev, sse, ev, poll>>

-----------------------------------------------------------------------------
(* The event stream of a login session.  A waiting task is woken by the    *)
(* change of version that comes with every notification.                   *)
NoStream == [pc |-> "none", seen |-> 0, out |-> <<>>]
Listening(q) == ev[q].pc = "run"

(* Sending q's event: a terminal event and a departed client end the task. *)
Send(q) ==
    LET r == qr'[q] IN
    sse' = [sse EXCEPT ![q] =
              [pc |-> IF AuthEventIsTerminal(r.state) \/ ~ Listening(q) THEN "closed" ELSE "loop",
               seen |-> r.version, out |-> Append(@.out, SessionStatusJson(r))]]

Snapshot(q) == qr' = [qr EXCEPT ![q] = ExpireSessionIfNeeded(@)]

StreamOpens(q) ==
    /\ Listening(q) /\ sse[q].pc = "none" /\ qr[q].state # "absent"
    /\ Snapshot(q) /\ Send(q)
    /\ UNCHANGED <<cb, rows, grant, dev, lo, clientVars, budget>>

StreamChecks(q) ==
    /\ sse[q].pc = "loop" /\ qr[q].state # "absent"
    /\ Snapshot(q)
    /\ IF qr'[q].version # sse[q].seen THEN Send(q)
       ELSE sse' = [sse EXCEPT ![q].pc = "wait"]
    /\ UNCHANGED <<cb, rows, grant, dev, lo, clientVars, budget>>

StreamWakes(q) ==
    /\ sse[q].pc = "wait" /\ qr[q].state # "absent"
    /\ qr[q].version # sse[q].seen
    /\ Snapshot(q) /\ Send(q)
    /\ UNCHANGED <<cb, rows, grant, dev, lo, clientVars, budget>>

(* The keepalive: a comment, which the client skips, unless it is over.    *)
StreamKeepalive(q) ==
    /\ sse[q].pc = "wait" /\ qr[q].state # "absent"
    /\ Snapshot(q)
    /\ IF AuthEventIsTerminal(qr'[q].state) THEN Send(q)
       ELSE sse' = [sse EXCEPT ![q].pc = IF Listening(q) THEN "loop" ELSE "closed"]
    /\ UNCHANGED <<cb, rows, grant, dev, lo, clientVars, budget>>

(* The connection is refused, not found, or breaks.                        *)
StreamBreaks(q) ==
    /\ Spend("faults")
    /\ sse[q].pc # "closed" /\ Listening(q)
    /\ sse' = [sse EXCEPT ![q] = [NoStream EXCEPT !.pc = "closed"]]
    /\ UNCHANGED <<serverVars, clientVars>>

StreamNotFound(q) ==
    /\ sse[q].pc # "closed" /\ Listening(q) /\ qr[q].state = "absent"
    /\ sse' = [sse EXCEPT ![q].pc = "closed"]
    /\ UNCHANGED <<serverVars, clientVars, budget>>

-----------------------------------------------------------------------------
(* The view model.  Everything runs on the main actor, so one step is what *)
(* happens between two awaits.  The view offers to start while no QR code  *)
(* is shown, and to refresh or cancel while one is.                        *)
NoTask == [pc |-> "none", job |-> NoReply]
NoPoll == [qr |-> NoQr, reply |-> NoReply]
Waiting(q) == ui.state = "waiting" /\ ui.qr = q

Cancelled(tasks) ==
    [q \in QRs |-> IF tasks[q].pc = "run" THEN [tasks[q] EXCEPT !.pc = "cancelled"] ELSE tasks[q]]

(* apply(nextState), of an event and of a poll alike: what is shown, and   *)
(* the observation a state other than pending ends.                        *)
Shown(q, next) ==
    CASE next.state = "waiting" -> [ui EXCEPT !.state = "waiting", !.qr = q]
      [] next.state = "authorized" -> [ui EXCEPT !.state = "authorized", !.qr = NoQr,
                                                 !.session = next.session]
      [] next.state \in {"denied", "expired"} -> [ui EXCEPT !.state = next.state, !.qr = NoQr]
TasksAfter(tasks, next) == IF next.state = "waiting" THEN tasks ELSE Cancelled(tasks)
LoopAfter(loop, next) == IF next.state = "waiting" THEN loop ELSE NoPoll

Unused(q) == qr[q] = AbsentQr /\ ev[q] = NoTask /\ sse[q] = NoStream

StartFeishuLogin ==
    /\ ui.state # "waiting" /\ ~ ui.working /\ ui.session = NoSession
    /\ budget.qrs > 0
    /\ ui' = [ui EXCEPT !.working = TRUE]
    /\ UNCHANGED <<serverVars, sse, ev, poll, budget>>

(* The reply to the creation, which the facade refuses without randomness. *)
LoginCreated(q) ==
    /\ Spend("qrs")
    /\ ui.working /\ poll.once = NoPoll
    /\ Unused(q) /\ \A p \in QRs : p < q => ~ Unused(p)
    /\ CreateFeishuLoginSession(q)
    /\ ui' = [ui EXCEPT !.state = "waiting", !.qr = q, !.working = FALSE]
    /\ ev' = [Cancelled(ev) EXCEPT ![q] = [NoTask EXCEPT !.pc = IF budget.watch THEN "run" ELSE "ended"]]
    /\ UNCHANGED <<cb, rows, grant, dev, lo, sse, poll>>

LoginNotCreated ==
    /\ Spend("faults")
    /\ ui.working /\ poll.once = NoPoll
    /\ ui' = [ui EXCEPT !.state = "signed_out", !.qr = NoQr, !.working = FALSE]
    /\ UNCHANGED <<serverVars, sse, ev, poll>>

CancelLogin ==
    /\ Spend("cancels")
    /\ ui.state = "waiting" /\ ~ ui.working
    /\ ui' = [ui EXCEPT !.state = "signed_out", !.qr = NoQr]
    /\ ev' = Cancelled(ev) /\ poll' = [poll EXCEPT !.loop = NoPoll]
    /\ UNCHANGED <<serverVars, sse>>

(* An event reaches the task, which runs when the main actor is free.      *)
EventArrives(q) ==
    /\ ev[q].pc = "run" /\ ev[q].job = NoReply /\ sse[q].out # <<>>
    /\ ev' = [ev EXCEPT ![q].job = ToDomainState(Head(sse[q].out))]
    /\ sse' = [sse EXCEPT ![q].out = Tail(@)]
    /\ UNCHANGED <<serverVars, ui, poll, budget>>

EventApplies(q) ==
    /\ ev[q].job # NoReply
    /\ ui' = Shown(q, ev[q].job)
    /\ ev' = TasksAfter([ev EXCEPT ![q].job = NoReply], ev[q].job)
    /\ poll' = [poll EXCEPT !.loop = LoopAfter(@, ev[q].job)]
    /\ UNCHANGED <<serverVars, sse, budget>>

(* Mutant: only an error falls back to polling, not a stream that ends.    *)
EventTaskEndsQuietly(q) ==
    /\ ev[q].job = NoReply
    /\ ev[q].pc = "cancelled" \/ (ev[q].pc = "run" /\ sse[q].pc = "closed" /\ sse[q].out = <<>>)
    /\ ev' = [ev EXCEPT ![q].pc = "ended"]
    /\ UNCHANGED <<serverVars, sse, ui, poll, budget>>

(* The task ends with its stream, or cancelled, and falls back to polling  *)
(* when its QR code is still shown.                                        *)
EventTaskEnds(q) ==
    /\ ev[q].job = NoReply
    /\ ev[q].pc = "cancelled" \/ (ev[q].pc = "run" /\ sse[q].pc = "closed" /\ sse[q].out = <<>>)
    /\ ev' = [ev EXCEPT ![q].pc = "ended"]
    /\ poll' = IF Waiting(q) THEN [poll EXCEPT !.loop = [qr |-> q, reply |-> NoReply]] ELSE poll
    /\ UNCHANGED <<serverVars, sse, ui, budget>>

(* A poll: asked, answered by the status route, applied.                   *)
PollOnce ==
    /\ Spend("refreshes")
    /\ ui.state = "waiting" /\ ~ ui.working
    /\ ui' = [ui EXCEPT !.working = TRUE]
    /\ poll' = [poll EXCEPT !.once = [qr |-> ui.qr, reply |-> Asked]]
    /\ UNCHANGED <<serverVars, sse, ev>>

PollAgain ==
    /\ poll.loop.qr # NoQr /\ poll.loop.reply = NoReply
    /\ poll' = [poll EXCEPT !.loop.reply = Asked]
    /\ UNCHANGED <<serverVars, sse, ui, ev, budget>>

FeishuLoginSessionStatus(kind) ==
    LET q == poll[kind].qr IN
    /\ poll[kind].reply = Asked /\ qr[q].state # "absent"
    /\ Snapshot(q)
    /\ poll' = [poll EXCEPT ![kind].reply = ToDomainState(SessionStatusJson(qr'[q]))]
    /\ UNCHANGED <<cb, rows, grant, dev, lo, sse, ui, ev, budget>>

(* Not found, or not reached: a message, and the loop tries again.         *)
PollFails(kind) ==
    /\ poll[kind].reply = Asked
    /\ IF qr[poll[kind].qr].state = "absent" THEN UNCHANGED budget ELSE Spend("faults")
    /\ poll' = [poll EXCEPT ![kind] = IF kind = "once" THEN NoPoll ELSE [poll[kind] EXCEPT !.reply = NoReply]]
    /\ ui' = IF kind = "once" THEN [ui EXCEPT !.working = FALSE] ELSE ui
    /\ UNCHANGED <<serverVars, sse, ev>>

Answered(kind) == poll[kind].reply \notin {NoReply, Asked}

PollOnceApplies ==
    /\ Answered("once")
    /\ ui' = [Shown(poll.once.qr, poll.once.reply) EXCEPT !.working = FALSE]
    /\ ev' = TasksAfter(ev, poll.once.reply)
    /\ poll' = [once |-> NoPoll, loop |-> LoopAfter(poll.loop, poll.once.reply)]
    /\ UNCHANGED <<serverVars, sse, budget>>

(* The polling task applies its answer only while its QR code is shown.    *)
PollLoopApplies ==
    /\ Answered("loop")
    /\ IF Waiting(poll.loop.qr)
       THEN /\ ui' = Shown(poll.loop.qr, poll.loop.reply)
            /\ ev' = TasksAfter(ev, poll.loop.reply)
            /\ poll' = [poll EXCEPT !.loop = LoopAfter([poll.loop EXCEPT !.reply = NoReply], poll.loop.reply)]
       ELSE /\ poll' = [poll EXCEPT !.loop.reply = NoReply]
            /\ UNCHANGED <<ui, ev>>
    /\ UNCHANGED <<serverVars, sse, budget>>

-----------------------------------------------------------------------------
(* The facade restarts: its login sessions, streams and requests are gone. *)
Restart ==
    /\ Spend("restarts")
    /\ qr' = [q \in QRs |-> AbsentQr]
    /\ cb' = [c \in Callbacks |-> IF cb[c].pc = "idle" THEN cb[c] ELSE [cb[c] EXCEPT !.pc = "done"]]
    /\ lo' = [s \in Sessions |-> NoTx]
    /\ sse' = [q \in QRs |-> IF sse[q].pc = "none" THEN sse[q] ELSE [sse[q] EXCEPT !.pc = "closed"]]
    /\ UNCHANGED <<rows, grant, dev, clientVars>>

Init ==
    /\ qr = [q \in QRs |-> AbsentQr]
    /\ cb = [c \in Callbacks |-> Idle]
    /\ rows = {}
    /\ grant = [state |-> "none", by |-> NoSession]
    /\ dev = [s \in Sessions |-> "absent"]
    /\ lo = [s \in Sessions |-> NoTx]
    /\ sse = [q \in QRs |-> NoStream]
    /\ ui = [state |-> "signed_out", qr |-> NoQr, working |-> FALSE, session |-> NoSession]
    /\ ev = [q \in QRs |-> NoTask]
    /\ poll = [once |-> NoPoll, loop |-> NoPoll]
    /\ budget \in Budgets

Next ==
    \/ \E c \in Callbacks :
        \/ \E q \in QRs : CallbackError(c, q) \/ CallbackCode(c, q)
        \/ Exchange(c) \/ PersistStage(c) \/ PersistFails(c) \/ Finish(c)
    \/ \E s \in Sessions :
        Logout(s) \/ LogoutLocks(s) \/ LogoutRevokes(s) \/ LogoutCommits(s) \/ LogoutFails(s)
    \/ \E q \in QRs :
        \/ PassDeadline(q) \/ LoginCreated(q)
        \/ StreamOpens(q) \/ StreamChecks(q) \/ StreamWakes(q) \/ StreamKeepalive(q)
        \/ StreamBreaks(q) \/ StreamNotFound(q)
        \/ EventArrives(q) \/ EventApplies(q) \/ EventTaskEnds(q)
    \/ \E kind \in {"once", "loop"} : FeishuLoginSessionStatus(kind) \/ PollFails(kind)
    \/ StartFeishuLogin \/ LoginNotCreated \/ CancelLogin
    \/ PollOnce \/ PollAgain \/ PollOnceApplies \/ PollLoopApplies \/ Restart

(* The facade's tasks and the view model's run whenever they can: tokio    *)
(* and the main actor schedule them, and the keepalive and polling timers  *)
(* fire.  Users, callbacks and faults are free.                            *)
Fairness ==
    /\ \A q \in QRs :
        /\ WF_vars(StreamOpens(q)) /\ WF_vars(StreamChecks(q)) /\ WF_vars(StreamWakes(q))
        /\ WF_vars(StreamKeepalive(q)) /\ WF_vars(StreamNotFound(q))
        /\ WF_vars(EventArrives(q)) /\ WF_vars(EventApplies(q)) /\ WF_vars(EventTaskEnds(q))
    /\ \A kind \in {"once", "loop"} : WF_vars(FeishuLoginSessionStatus(kind))
    /\ WF_vars(PollAgain) /\ WF_vars(PollOnceApplies) /\ WF_vars(PollLoopApplies)

Spec == Init /\ [][Next]_vars /\ Fairness

-----------------------------------------------------------------------------
MaybeSession == Sessions \cup {NoSession}
QrType == [state : {"absent", "pending"} \cup Terminal, session : MaybeSession,
           version : Nat, overdue : BOOLEAN]
CbType == [pc : {"idle", "exchange", "persist", "finish", "done"}, qr : QRs \cup {NoQr},
           session : MaybeSession, stage : 0 .. 6, began : Nat, inserted : BOOLEAN]
LoType == [pc : {"none", "begin", "locked", "revoked"}, locks : SUBSET Sessions, revokes : BOOLEAN]
EventType == [status : {"pending"} \cup Terminal, qr_session : BOOLEAN, oar_session : MaybeSession]
SseType == [pc : {"none", "loop", "wait", "closed"}, seen : Nat, out : Seq(EventType)]
Shows == [state : {"waiting"} \cup Terminal, session : MaybeSession]
EvType == [pc : {"none", "run", "cancelled", "ended"}, job : Shows \cup {NoReply}]
PollType == [qr : QRs \cup {NoQr}, reply : Shows \cup {NoReply, Asked}]
UiType == [state : {"signed_out", "waiting"} \cup Terminal, qr : QRs \cup {NoQr},
           working : BOOLEAN, session : MaybeSession]

LoginTypeOK ==
    /\ qr \in [QRs -> QrType] /\ cb \in [Callbacks -> CbType]
    /\ rows \subseteq {"tenant", "workspace_user", "lark_identity"}
    /\ grant \in [state : {"none", "valid", "revoked"}, by : Callbacks \cup {NoSession}]
    /\ dev \in [Sessions -> {"absent", "active", "revoked"}] /\ lo \in [Sessions -> LoType]
    /\ sse \in [QRs -> SseType] /\ ev \in [QRs -> EvType]
    /\ ui \in UiType /\ poll \in [once : PollType, loop : PollType]

(* A login session shown as authorized names a device session that is      *)
(* stored, with the grant and the identity it acts with: the callback      *)
(* stores them all before it tells.                                        *)
AuthorizedIsStored ==
    \A q \in QRs : qr[q].state = "authorized" /\ budget.store =>
        /\ dev[qr[q].session] # "absent" /\ grant.state # "none"
        /\ rows = {"tenant", "workspace_user", "lark_identity"}

LoginInv == LoginTypeOK /\ AuthorizedIsStored

(* When no device is left signed in, the grant is usable only if it was    *)
(* stored by a login that has not stored its session: two logouts at once  *)
(* never take each other for a remaining device.                           *)
LastDeviceRevokesGrant ==
    grant.state = "valid" /\ Active = {} => ~ cb[grant.by].inserted

(* What is over stays over.  A session that signed out never authenticates *)
(* again, not even when a repeated callback derives the same session id;   *)
(* and a login session that was denied or expired is authorized only by a  *)
(* callback that was exchanging its code before that.                      *)
OverStaysOver ==
    [][/\ \A s \in Sessions : dev[s] = "revoked" => dev'[s] = "revoked"
       /\ \A q \in QRs : qr[q].state \in {"denied", "expired"} /\ qr'[q].state = "authorized" =>
            \E c \in Callbacks : cb[c].qr = q /\ cb[c].began < qr[q].version]_vars

(* Every watcher learns of the end of a login, be it decided or past its   *)
(* deadline, although nobody comes to expire it: its event stream ends,    *)
(* and a client that shows and observes its QR code leaves it, by the      *)
(* stream, after a stream that broke, or by polling, unless the facade     *)
(* lost the login session.                                                 *)
Observed(q) == Waiting(q) /\ (ev[q].pc = "run" \/ poll.loop.qr = q)
WatchersLearnTheEnd ==
    \A q \in QRs :
        /\ (sse[q].pc # "none" /\ (qr[q].state # "pending" \/ qr[q].overdue)) ~> sse[q].pc = "closed"
        /\ (Observed(q) /\ (qr[q].state \in Terminal \/ qr[q].overdue))
              ~> (~ Waiting(q) \/ qr[q].state = "absent")

=============================================================================
