------------------------- MODULE LoginSessionProofs -------------------------
(***************************************************************************)
(* Proofs about login and logout, for every number of login sessions and   *)
(* callbacks, every reply of the provider and every budget of faults,      *)
(* restarts, logouts and polls.                                            *)
(*                                                                         *)
(* ServerInd holds the argument.  A logout that locked the user's sessions *)
(* is alone: it holds the lock of its own session, which stays active      *)
(* until it commits, so no other logout can lock.  While it is under way   *)
(* sessions only become active, and a grant stored meanwhile belongs to a  *)
(* login that has no session yet; so a logout that spared the grant leaves *)
(* an active session, or a grant whose login is still to insert its own.   *)
(* A callback under way knows the version its login session had when it    *)
(* came, and every later change of that session has a greater one.         *)
(* ClientInd is what the client's tasks may hold: replies that can be      *)
(* shown, of login sessions that exist.                                    *)
(***************************************************************************)
EXTENDS LoginSession, TLAPS

Live(c) == cb[c].pc \in {"exchange", "persist", "finish"}

(* What the five upserts have stored when the n-th is to come.             *)
StoredBefore(n) ==
    /\ n >= 2 => "tenant" \in rows
    /\ n >= 3 => "workspace_user" \in rows
    /\ n >= 4 => "lark_identity" \in rows
    /\ n >= 5 => grant.state # "none"
FullyStored(s) ==
    /\ dev[s] # "absent" /\ grant.state # "none"
    /\ rows = {"tenant", "workspace_user", "lark_identity"}

ServerTypes ==
    /\ qr \in [QRs -> QrType] /\ cb \in [Callbacks -> CbType]
    /\ rows \subseteq {"tenant", "workspace_user", "lark_identity"}
    /\ grant \in [state : {"none", "valid", "revoked"}, by : Callbacks \cup {NoSession}]
    /\ dev \in [Sessions -> {"absent", "active", "revoked"}] /\ lo \in [Sessions -> LoType]
    /\ budget \in BudgetType

(* A login session that is authorized names a session that is stored.      *)
QrOK(q) ==
    qr[q].state = "authorized" =>
      /\ qr[q].session \in Sessions
      /\ budget.store => FullyStored(qr[q].session)

(* A callback under way: its login session has not become older than it    *)
(* was, and is newer when it was denied or expired meanwhile.              *)
OnTime(c) ==
    Live(c) =>
      /\ cb[c].qr \in QRs /\ qr[cb[c].qr].state # "absent"
      /\ cb[c].began <= qr[cb[c].qr].version
      /\ qr[cb[c].qr].state \in {"denied", "expired"} => cb[c].began < qr[cb[c].qr].version

(* And what it has stored.                                                 *)
Progress(c) ==
    /\ cb[c].pc \in {"persist", "finish"} => cb[c].session \in Sessions
    /\ cb[c].pc = "persist" => cb[c].stage \in 1 .. 5 /\ StoredBefore(cb[c].stage)
    /\ cb[c].pc = "finish" /\ budget.store => FullyStored(cb[c].session)
    /\ cb[c].pc \in {"idle", "exchange", "persist"} => ~ cb[c].inserted

(* Logouts: the one that holds locks is alone, and its session is active.  *)
Holding(s) == lo[s].pc \in {"locked", "revoked"}
LogoutOK(s) ==
    /\ lo[s].pc # "none" => dev[s] = "active"
    /\ Holding(s) => s \in lo[s].locks
    /\ \A t \in Sessions : Holding(s) /\ Holding(t) => s = t
    /\ lo[s].pc = "revoked" /\ ~ lo[s].revokes =>
         \/ \E t \in Sessions : t # s /\ dev[t] = "active"
         \/ grant.state # "valid" \/ ~ cb[grant.by].inserted

ServerInd ==
    /\ ServerTypes
    /\ \A q \in QRs : QrOK(q)
    /\ \A c \in Callbacks : OnTime(c)
    /\ \A c \in Callbacks : Progress(c)
    /\ grant.state # "none" => grant.by \in Callbacks
    /\ \A s \in Sessions : LogoutOK(s)
    /\ LastDeviceRevokesGrant

(* Events and replies that the client can show.                            *)
GoodEvents == {e \in EventType : /\ e.status = "pending" => e.qr_session
                                 /\ e.status = "authorized" => e.oar_session # NoSession}
ClientInd ==
    /\ sse \in [QRs -> SseType] /\ ev \in [QRs -> EvType]
    /\ ui \in UiType /\ poll \in [once : PollType, loop : PollType]
    /\ \A q \in QRs : sse[q].out \in Seq(GoodEvents)
    /\ ui.state = "waiting" => ui.qr \in QRs
    /\ poll.once.reply # NoReply => poll.once.qr \in QRs
    /\ poll.loop.reply # NoReply => poll.loop.qr \in QRs

LoginInd == ServerInd /\ ClientInd

-----------------------------------------------------------------------------
Numbers == {"qrs", "callbacks", "faults", "restarts", "logouts", "refreshes", "cancels"}

(* Spending leaves the choice of a database alone.                         *)
LEMMA SpendKeeps ==
    ASSUME budget \in BudgetType, NEW what \in Numbers, Spend(what)
    PROVE  budget' \in BudgetType /\ budget'.store = budget.store
<1> DEFINE n == budget[what]
<1>1. n \in Nat /\ n > 0
  BY DEF BudgetType, Numbers, Spend
<1>2. n - 1 \in Nat
  BY <1>1
<1>3. budget' = [budget EXCEPT ![what] = n - 1]
  BY DEF Spend, BudgetType, Numbers
<1> HIDE DEF n
<1>4. CASE what = "qrs"
  BY <1>2, <1>3, <1>4 DEF BudgetType
<1>5. CASE what = "callbacks"
  BY <1>2, <1>3, <1>5 DEF BudgetType
<1>6. CASE what = "faults"
  BY <1>2, <1>3, <1>6 DEF BudgetType
<1>7. CASE what = "restarts"
  BY <1>2, <1>3, <1>7 DEF BudgetType
<1>8. CASE what = "logouts"
  BY <1>2, <1>3, <1>8 DEF BudgetType
<1>9. CASE what = "refreshes"
  BY <1>2, <1>3, <1>9 DEF BudgetType
<1>10. CASE what = "cancels"
  BY <1>2, <1>3, <1>10 DEF BudgetType
<1> QED  BY <1>4, <1>5, <1>6, <1>7, <1>8, <1>9, <1>10 DEF Numbers

Spends == budget' \in BudgetType /\ budget'.store = budget.store

(* A step of the client alone.                                             *)
LEMMA ServerKept ==
    ASSUME ServerInd, UNCHANGED serverVars, Spends
    PROVE  ServerInd'
<1>1. ServerTypes'
  BY DEF ServerInd, serverVars, ServerTypes, Spends
<1>2. ASSUME NEW q \in QRs PROVE QrOK(q)'
  BY DEF ServerInd, serverVars, QrOK, FullyStored, Spends
<1>3. ASSUME NEW c \in Callbacks PROVE OnTime(c)'
  BY DEF ServerInd, serverVars, OnTime, Live
<1>4. ASSUME NEW c \in Callbacks PROVE Progress(c)'
  BY DEF ServerInd, serverVars, Progress, FullyStored, StoredBefore, Spends
<1>5. ASSUME NEW s \in Sessions PROVE LogoutOK(s)'
  BY DEF ServerInd, serverVars, LogoutOK, Holding
<1>6. LastDeviceRevokesGrant' /\ (grant.state # "none" => grant.by \in Callbacks)'
  BY DEF ServerInd, serverVars, LastDeviceRevokesGrant, Active
<1> QED  BY <1>1, <1>2, <1>3, <1>4, <1>5, <1>6 DEF ServerInd

(* A step of the server alone.                                             *)
LEMMA ClientKept ==
    ASSUME ClientInd, UNCHANGED <<sse, clientVars>>
    PROVE  ClientInd'
BY DEF ClientInd, clientVars

(* A login session changes: it is created, or gets a greater version, or   *)
(* keeps its version and state; and callbacks go on as they may.           *)
Succeeds(old, new) ==
    \/ old.state = "absent" /\ new.state = "pending"
    \/ new.version = old.version /\ new.state = old.state
    \/ new.version > old.version /\ new.state # "absent"
CallbacksGoOn ==
    \A c \in Callbacks : \/ cb'[c] = cb[c]
                         \/ OnTime(c)' /\ Progress(c)' /\ cb'[c].inserted = cb[c].inserted

(* The login sessions change, each to one that succeeds it.                *)
LEMMA QrStep ==
    ASSUME ServerInd, UNCHANGED <<rows, grant, dev, lo>>, Spends,
           qr' \in [QRs -> QrType], cb' \in [Callbacks -> CbType], CallbacksGoOn,
           \A q \in QRs : Succeeds(qr[q], qr'[q]),
           \A q \in QRs : \/ qr'[q].state # "authorized"
                          \/ qr'[q].state = qr[q].state /\ qr'[q].session = qr[q].session
                          \/ /\ qr'[q].session \in Sessions
                             /\ budget.store => FullyStored(qr'[q].session)
    PROVE  ServerInd'
<1>1. ServerTypes'
  BY DEF ServerInd, ServerTypes, Spends
<1>2. ASSUME NEW q \in QRs PROVE QrOK(q)'
  <2>1. CASE qr'[q].state = qr[q].state /\ qr'[q].session = qr[q].session
    BY <2>1 DEF ServerInd, QrOK, FullyStored, Spends
  <2>2. CASE /\ qr'[q].session \in Sessions
             /\ budget.store => FullyStored(qr'[q].session)
    BY <2>2 DEF QrOK, FullyStored, Spends
  <2> QED  BY <2>1, <2>2 DEF QrOK
<1>3. ASSUME NEW c \in Callbacks PROVE OnTime(c)'
  <2>1. CASE OnTime(c)'
    BY <2>1
  <2>2. CASE cb'[c] = cb[c]
    <3> DEFINE q == cb[c].qr
    <3>1. SUFFICES ASSUME Live(c)
                   PROVE  /\ q \in QRs /\ qr'[q].state # "absent"
                          /\ cb[c].began <= qr'[q].version
                          /\ qr'[q].state \in {"denied", "expired"} => cb[c].began < qr'[q].version
      BY <2>2 DEF OnTime, Live
    <3>2. /\ q \in QRs /\ qr[q].state # "absent"
          /\ cb[c].began <= qr[q].version
          /\ qr[q].state \in {"denied", "expired"} => cb[c].began < qr[q].version
      BY <3>1 DEF ServerInd, OnTime
    <3> HIDE DEF q
    <3>3. cb[c].began \in Nat /\ qr[q].version \in Nat /\ qr'[q].version \in Nat
      BY <3>2 DEF ServerInd, ServerTypes, CbType, QrType
    <3>4. CASE qr'[q].version = qr[q].version /\ qr'[q].state = qr[q].state
      BY <3>2, <3>4
    <3>5. CASE qr'[q].version > qr[q].version /\ qr'[q].state # "absent"
      BY <3>2, <3>3, <3>5
    <3> QED  BY <3>2, <3>4, <3>5 DEF Succeeds
  <2> QED  BY <2>1, <2>2 DEF CallbacksGoOn
<1>4. ASSUME NEW c \in Callbacks PROVE Progress(c)'
  <2>1. CASE Progress(c)'
    BY <2>1
  <2>2. CASE cb'[c] = cb[c]
    BY <2>2 DEF ServerInd, Progress, FullyStored, StoredBefore, Spends
  <2> QED  BY <2>1, <2>2 DEF CallbacksGoOn
<1>5. ASSUME grant.state # "none" PROVE grant.by \in Callbacks /\ cb'[grant.by].inserted = cb[grant.by].inserted
  BY <1>5 DEF ServerInd, CallbacksGoOn
<1>6. ASSUME NEW s \in Sessions PROVE LogoutOK(s)'
  BY <1>5 DEF ServerInd, LogoutOK, Holding
<1>7. LastDeviceRevokesGrant' /\ (grant.state # "none" => grant.by \in Callbacks)'
  BY <1>5 DEF ServerInd, LastDeviceRevokesGrant, Active
<1> QED  BY <1>1, <1>2, <1>3, <1>4, <1>6, <1>7 DEF ServerInd

(* A callback that is done.                                                *)
LEMMA CallbackDone ==
    ASSUME cb \in [Callbacks -> CbType], NEW c \in Callbacks, cb' = Done(c)
    PROVE  cb' \in [Callbacks -> CbType] /\ CallbacksGoOn
<1>1. cb'[c] = [cb[c] EXCEPT !.pc = "done"] /\ \A d \in Callbacks \ {c} : cb'[d] = cb[d]
  BY DEF Done
<1>2. cb[c] \in CbType
  OBVIOUS
<1>3. cb'[c] \in CbType /\ cb'[c].pc = "done" /\ cb'[c].inserted = cb[c].inserted
  BY <1>1, <1>2 DEF CbType
<1>4. cb' \in [Callbacks -> CbType]
  BY <1>1, <1>3 DEF Done
<1>5. OnTime(c)' /\ Progress(c)'
  BY <1>3 DEF OnTime, Live, Progress
<1> QED  BY <1>1, <1>3, <1>4, <1>5 DEF CallbacksGoOn

(* Denying and expiring a login session.                                   *)
LEMMA DeniedQr ==
    ASSUME NEW r \in QrType
    PROVE  /\ Denied(r) \in QrType /\ Succeeds(r, Denied(r)) /\ Denied(r).state # "authorized"
           /\ r.state # "absent" => Denied(r).state # "absent"
<1>1. r.version + 1 \in Nat /\ r.version + 1 > r.version
  BY DEF QrType
<1>2. CASE r.state = "absent"
  BY <1>2 DEF Denied, Succeeds
<1>3. CASE r.state # "absent"
  <2> DEFINE denied == [r EXCEPT !.state = "denied", !.session = NoSession]
  <2>1. denied \in QrType /\ denied.version = r.version /\ denied.state = "denied"
    BY DEF QrType, Terminal, MaybeSession
  <2>2. Denied(r) = [denied EXCEPT !.version = r.version + 1]
    BY <1>3, <2>1 DEF Denied, NotifySessionChanged
  <2> HIDE DEF denied
  <2>3. Denied(r) \in QrType /\ Denied(r).state = "denied" /\ Denied(r).version = r.version + 1
    BY <1>1, <2>1, <2>2 DEF QrType
  <2> QED  BY <1>1, <2>3 DEF Succeeds
<1> QED  BY <1>2, <1>3

(* An overdue login session expires when somebody looks at it.             *)
LEMMA ExpiredQr ==
    ASSUME NEW r \in QrType
    PROVE  /\ ExpireSessionIfNeeded(r) \in QrType /\ Succeeds(r, ExpireSessionIfNeeded(r))
           /\ \/ ExpireSessionIfNeeded(r) = r
              \/ ExpireSessionIfNeeded(r).state = "expired"
<1>1. r.version + 1 \in Nat /\ r.version + 1 > r.version
  BY DEF QrType
<1>2. CASE ~ (r.state = "pending" /\ r.overdue)
  BY <1>2 DEF ExpireSessionIfNeeded, Succeeds
<1>3. CASE r.state = "pending" /\ r.overdue
  <2> DEFINE expired == [r EXCEPT !.state = "expired"]
  <2>1. expired \in QrType /\ expired.version = r.version /\ expired.state = "expired"
    BY DEF QrType, Terminal
  <2>2. ExpireSessionIfNeeded(r) = [expired EXCEPT !.version = r.version + 1]
    BY <1>3, <2>1 DEF ExpireSessionIfNeeded, NotifySessionChanged
  <2> HIDE DEF expired
  <2>3. /\ ExpireSessionIfNeeded(r) \in QrType /\ ExpireSessionIfNeeded(r).state = "expired"
        /\ ExpireSessionIfNeeded(r).version = r.version + 1
    BY <1>1, <2>1, <2>2 DEF QrType
  <2> QED  BY <1>1, <2>3 DEF Succeeds
<1> QED  BY <1>2, <1>3

(* Authorizing a login session makes a newer version of it.                *)
LEMMA AuthorizedQr ==
    ASSUME NEW r \in QrType, NEW s \in Sessions
    PROVE  /\ Authorized(r, s) \in QrType /\ Succeeds(r, Authorized(r, s))
           /\ Authorized(r, s).session = s
<1>1. r.version + 1 \in Nat /\ r.version + 1 > r.version
  BY DEF QrType
<1> DEFINE authorized == [r EXCEPT !.state = "authorized", !.session = s]
<1>2. authorized \in QrType /\ authorized.version = r.version /\ authorized.state = "authorized"
      /\ authorized.session = s
  BY DEF QrType, Terminal, MaybeSession
<1>3. Authorized(r, s) = [authorized EXCEPT !.version = r.version + 1]
  BY <1>2 DEF Authorized, NotifySessionChanged
<1> HIDE DEF authorized
<1>4. /\ Authorized(r, s) \in QrType /\ Authorized(r, s).state = "authorized"
      /\ Authorized(r, s).version = r.version + 1 /\ Authorized(r, s).session = s
  BY <1>1, <1>2, <1>3 DEF QrType
<1> QED  BY <1>1, <1>4 DEF Succeeds

(* One login session changes.                                              *)
LEMMA OneQr ==
    ASSUME ServerInd, UNCHANGED <<rows, grant, dev, lo>>, Spends,
           cb' \in [Callbacks -> CbType], CallbacksGoOn,
           NEW q \in QRs, NEW r \in QrType, qr' = [qr EXCEPT ![q] = r], Succeeds(qr[q], r),
           \/ r.state # "authorized"
           \/ r.state = qr[q].state /\ r.session = qr[q].session
           \/ r.session \in Sessions /\ (budget.store => FullyStored(r.session))
    PROVE  ServerInd'
<1>1. qr \in [QRs -> QrType]
  BY DEF ServerInd, ServerTypes
<1>2. qr' \in [QRs -> QrType] /\ qr'[q] = r /\ \A p \in QRs \ {q} : qr'[p] = qr[p]
  BY <1>1
<1>3. \A p \in QRs : Succeeds(qr[p], qr'[p])
  BY <1>2 DEF Succeeds
<1> QED  BY <1>2, <1>3, QrStep

(* Callbacks that stay as they are.                                        *)
LEMMA CallbacksStay ==
    ASSUME ServerInd, UNCHANGED cb
    PROVE  cb' \in [Callbacks -> CbType] /\ CallbacksGoOn
BY DEF ServerInd, ServerTypes, CallbacksGoOn

(* A step that spends nothing leaves the budget good.                      *)
LEMMA BudgetStays ==
    ASSUME ServerInd, UNCHANGED budget
    PROVE  Spends
BY DEF ServerInd, ServerTypes, Spends

(* So does one that spends.                                                *)
LEMMA BudgetSpent ==
    ASSUME ServerInd, NEW what \in Numbers, Spend(what)
    PROVE  Spends
BY SpendKeeps DEF ServerInd, ServerTypes, Spends

(* A watcher looks at a login session, which may expire by that.           *)
LEMMA SnapshotKeeps ==
    ASSUME ServerInd, NEW q \in QRs, Snapshot(q), UNCHANGED <<cb, rows, grant, dev, lo>>, Spends
    PROVE  ServerInd' /\ qr'[q] \in QrType /\ qr'[q].state \in {qr[q].state, "expired"}
<1> DEFINE r == ExpireSessionIfNeeded(qr[q])
<1>1. qr[q] \in QrType /\ qr \in [QRs -> QrType]
  BY DEF ServerInd, ServerTypes
<1>2. r \in QrType /\ Succeeds(qr[q], r) /\ (r = qr[q] \/ r.state = "expired")
  BY <1>1, ExpiredQr
<1>3. qr' = [qr EXCEPT ![q] = r]
  BY DEF Snapshot
<1> HIDE DEF r
<1>4. ServerInd'
  BY <1>2, <1>3, OneQr, CallbacksStay
<1> QED  BY <1>1, <1>2, <1>3, <1>4

(* The deadline of a login session passes.                                 *)
LEMMA PassDeadlinePreserves ==
    ASSUME LoginInd, NEW q \in QRs, PassDeadline(q)
    PROVE  LoginInd'
<1> DEFINE r == [qr[q] EXCEPT !.overdue = TRUE]
<1>1. qr[q] \in QrType /\ qr \in [QRs -> QrType]
  BY DEF LoginInd, ServerInd, ServerTypes
<1>2. r \in QrType /\ r.state = qr[q].state /\ r.version = qr[q].version /\ r.session = qr[q].session
  BY <1>1 DEF QrType
<1>3. qr' = [qr EXCEPT ![q] = r] /\ UNCHANGED <<cb, rows, grant, dev, lo, sse, clientVars, budget>>
  BY <1>1 DEF PassDeadline
<1> HIDE DEF r
<1>4. Succeeds(qr[q], r)
  BY <1>2 DEF Succeeds
<1>5. ServerInd'
  BY <1>2, <1>3, <1>4, OneQr, CallbacksStay, BudgetStays DEF LoginInd
<1> QED  BY <1>3, <1>5, ClientKept DEF LoginInd

(* A callback with an error denies its login session.                      *)
LEMMA CallbackErrorPreserves ==
    ASSUME LoginInd, NEW c \in Callbacks, NEW q \in QRs, CallbackError(c, q)
    PROVE  LoginInd'
<1> DEFINE r == Denied(qr[q])
<1>1. qr[q] \in QrType /\ cb \in [Callbacks -> CbType]
  BY DEF LoginInd, ServerInd, ServerTypes
<1>2. r \in QrType /\ Succeeds(qr[q], r) /\ r.state # "authorized"
  BY <1>1, DeniedQr
<1>3. /\ qr' = [qr EXCEPT ![q] = r] /\ cb' = Done(c) /\ Spend("callbacks")
      /\ UNCHANGED <<rows, grant, dev, lo, sse, clientVars>>
  BY DEF CallbackError
<1> HIDE DEF r
<1>4. Spends
  BY <1>3, BudgetSpent DEF LoginInd, Numbers
<1>5. ServerInd'
  BY <1>1, <1>2, <1>3, <1>4, OneQr, CallbackDone DEF LoginInd
<1> QED  BY <1>3, <1>5, ClientKept DEF LoginInd

(* A callback with a code begins with the version it finds.                *)
LEMMA CallbackCodePreserves ==
    ASSUME LoginInd, NEW c \in Callbacks, NEW q \in QRs, CallbackCode(c, q)
    PROVE  LoginInd'
<1> DEFINE r == ExpireSessionIfNeeded(qr[q])
           n == [cb[c] EXCEPT !.pc = "exchange", !.qr = q, !.began = qr[q].version]
<1>1. qr[q] \in QrType /\ qr \in [QRs -> QrType] /\ cb[c] \in CbType /\ cb \in [Callbacks -> CbType]
  BY DEF LoginInd, ServerInd, ServerTypes
<1>2. r \in QrType /\ Succeeds(qr[q], r) /\ (r = qr[q] \/ r.state = "expired")
  BY <1>1, ExpiredQr
<1>3. /\ qr' = [qr EXCEPT ![q] = r] /\ qr[q].state # "absent" /\ cb[c].pc = "idle"
      /\ cb' = IF qr'[q].state \in {"denied", "expired"} THEN Done(c) ELSE [cb EXCEPT ![c] = n]
      /\ Spend("callbacks") /\ UNCHANGED <<rows, grant, dev, lo, sse, clientVars>>
  BY DEF CallbackCode, Arrives
<1>4. qr'[q] = r
  BY <1>1, <1>3
<1>5. cb' \in [Callbacks -> CbType] /\ CallbacksGoOn
  <2>1. CASE cb' = Done(c)
    BY <1>1, <2>1, CallbackDone
  <2>2. CASE /\ cb' = [cb EXCEPT ![c] = n]
             /\ ~ (qr'[q].state \in {"denied", "expired"})
    <3>1. /\ n \in CbType /\ n.pc = "exchange" /\ n.qr = q /\ n.began = qr[q].version
          /\ n.inserted = cb[c].inserted
      BY <1>1 DEF CbType, QrType
    <3> HIDE DEF n
    <3>2. /\ cb' \in [Callbacks -> CbType] /\ cb'[c] = n
          /\ \A d \in Callbacks \ {c} : cb'[d] = cb[d]
      BY <1>1, <2>2, <3>1
    <3>3. r = qr[q] /\ qr[q].version \in Nat
      BY <1>1, <1>2, <1>4, <2>2 DEF QrType
    <3>4. OnTime(c)'
      BY <1>3, <1>4, <2>2, <3>1, <3>2, <3>3 DEF OnTime, Live
    <3>5. ~ cb[c].inserted
      BY <1>3 DEF LoginInd, ServerInd, Progress
    <3>6. Progress(c)'
      BY <3>1, <3>2, <3>5 DEF Progress
    <3> QED  BY <3>1, <3>2, <3>4, <3>6 DEF CallbacksGoOn
  <2> QED  BY <1>3, <2>1, <2>2
<1> HIDE DEF r, n
<1>6. Spends
  BY <1>3, BudgetSpent DEF LoginInd, Numbers
<1>7. ServerInd'
  BY <1>2, <1>3, <1>5, <1>6, OneQr DEF LoginInd
<1> QED  BY <1>3, <1>7, ClientKept DEF LoginInd

(* A callback that fails denies its login session.                         *)
LEMMA FailKeeps ==
    ASSUME ServerInd, NEW c \in Callbacks, Live(c), FailCallback(c),
           UNCHANGED <<rows, grant, dev, lo>>, Spends
    PROVE  ServerInd'
<1> DEFINE q == cb[c].qr
           r == Denied(qr[q])
<1>1. q \in QRs /\ qr \in [QRs -> QrType] /\ cb \in [Callbacks -> CbType]
  BY DEF ServerInd, ServerTypes, OnTime
<1>2. r \in QrType /\ Succeeds(qr[q], r) /\ r.state # "authorized"
  BY <1>1, DeniedQr
<1>3. qr' = [qr EXCEPT ![q] = r] /\ cb' = Done(c)
  BY DEF FailCallback
<1> HIDE DEF q, r
<1> QED  BY <1>1, <1>2, <1>3, OneQr, CallbackDone

(* The exchange: the login goes on to be stored, or to its end when there  *)
(* is no database, or fails.                                               *)
LEMMA ExchangePreserves ==
    ASSUME LoginInd, NEW c \in Callbacks, Exchange(c)
    PROVE  LoginInd'
<1>1. /\ cb[c].pc = "exchange" /\ UNCHANGED <<rows, grant, dev, lo, sse, clientVars, budget>>
  BY DEF Exchange
<1>2. PICK s \in {c, cb[c].qr} :
        \/ /\ ~ budget.store /\ UNCHANGED qr
           /\ cb' = [cb EXCEPT ![c] = [cb[c] EXCEPT !.pc = "finish", !.session = s]]
        \/ /\ UNCHANGED qr
           /\ cb' = [cb EXCEPT ![c] = [cb[c] EXCEPT !.pc = "persist", !.session = s, !.stage = 1]]
        \/ FailCallback(c)
  BY DEF Exchange
<1>3. /\ cb[c] \in CbType /\ cb \in [Callbacks -> CbType] /\ Live(c) /\ ~ cb[c].inserted
      /\ cb[c].qr \in QRs /\ OnTime(c)
  BY <1>1 DEF LoginInd, ServerInd, ServerTypes, Live, OnTime, Progress
<1>4. s \in Sessions
  BY <1>3 DEF Sessions
<1>5. Spends
  BY <1>1, BudgetStays DEF LoginInd
<1>6. ServerInd'
  <2>1. ASSUME NEW n \in CbType, UNCHANGED qr, cb' = [cb EXCEPT ![c] = n],
               n.qr = cb[c].qr, n.began = cb[c].began, n.session = s, ~ n.inserted,
               \/ n.pc = "finish" /\ ~ budget.store
               \/ n.pc = "persist" /\ n.stage = 1
        PROVE  ServerInd'
    <3>1. cb' \in [Callbacks -> CbType] /\ cb'[c] = n /\ \A d \in Callbacks \ {c} : cb'[d] = cb[d]
      BY <1>3, <2>1
    <3>2. OnTime(c)'
      BY <1>3, <2>1, <3>1 DEF OnTime, Live
    <3>3. Progress(c)'
      BY <1>1, <1>4, <2>1, <3>1 DEF Progress, StoredBefore
    <3>4. n.inserted = cb[c].inserted
      <4>1. n.inserted \in BOOLEAN /\ cb[c].inserted \in BOOLEAN
        BY <1>3, <2>1 DEF CbType
      <4> QED  BY <1>3, <2>1, <4>1, Zenon
    <3>5. CallbacksGoOn
      BY <3>1, <3>2, <3>3, <3>4 DEF CallbacksGoOn
    <3>6. qr' \in [QRs -> QrType] /\ \A q \in QRs : Succeeds(qr[q], qr'[q])
      BY <2>1 DEF LoginInd, ServerInd, ServerTypes, Succeeds
    <3> QED  BY <1>1, <1>5, <2>1, <3>1, <3>5, <3>6, QrStep DEF LoginInd
  <2>2. CASE /\ ~ budget.store /\ UNCHANGED qr
             /\ cb' = [cb EXCEPT ![c] = [cb[c] EXCEPT !.pc = "finish", !.session = s]]
    <3> DEFINE n == [cb[c] EXCEPT !.pc = "finish", !.session = s]
    <3>1. /\ n \in CbType /\ n.qr = cb[c].qr /\ n.began = cb[c].began /\ n.session = s
          /\ n.inserted = cb[c].inserted /\ n.pc = "finish"
      BY <1>3, <1>4 DEF CbType, MaybeSession
    <3>2. cb' = [cb EXCEPT ![c] = n]
      BY <2>2
    <3> HIDE DEF n
    <3> QED  BY <1>3, <2>1, <2>2, <3>1, <3>2
  <2>3. CASE /\ UNCHANGED qr
             /\ cb' = [cb EXCEPT ![c] = [cb[c] EXCEPT !.pc = "persist", !.session = s, !.stage = 1]]
    <3> DEFINE n == [cb[c] EXCEPT !.pc = "persist", !.session = s, !.stage = 1]
    <3>1. /\ n \in CbType /\ n.qr = cb[c].qr /\ n.began = cb[c].began /\ n.session = s
          /\ n.inserted = cb[c].inserted /\ n.pc = "persist" /\ n.stage = 1
      <4>1. ASSUME NEW one \in 0 .. 6
            PROVE  LET m == [cb[c] EXCEPT !.pc = "persist", !.session = s, !.stage = one]
                   IN  /\ m \in CbType /\ m.qr = cb[c].qr /\ m.began = cb[c].began /\ m.session = s
                       /\ m.inserted = cb[c].inserted /\ m.pc = "persist" /\ m.stage = one
        BY <1>3, <1>4 DEF CbType, MaybeSession
      <4>2. 1 \in 0 .. 6
        OBVIOUS
      <4> QED  BY <4>1, <4>2
    <3>2. cb' = [cb EXCEPT ![c] = n]
      BY <2>3
    <3> HIDE DEF n
    <3> QED  BY <1>3, <2>1, <2>3, <3>1, <3>2
  <2>4. CASE FailCallback(c)
    BY <1>1, <1>3, <1>5, <2>4, FailKeeps DEF LoginInd
  <2> QED  BY <1>2, <2>2, <2>3, <2>4
<1> QED  BY <1>1, <1>6, ClientKept DEF LoginInd

(* One of the five upserts fails.                                          *)
LEMMA PersistFailsPreserves ==
    ASSUME LoginInd, NEW c \in Callbacks, PersistFails(c)
    PROVE  LoginInd'
<1>1. /\ Live(c) /\ FailCallback(c) /\ Spend("faults")
      /\ UNCHANGED <<rows, grant, dev, lo, sse, clientVars>>
  BY DEF PersistFails, Live
<1>2. Spends
  BY <1>1, BudgetSpent DEF LoginInd, Numbers
<1>3. ServerInd'
  BY <1>1, <1>2, FailKeeps DEF LoginInd
<1> QED  BY <1>1, <1>3, ClientKept DEF LoginInd

(* The callback authorizes its login session, with all it names stored.    *)
LEMMA FinishPreserves ==
    ASSUME LoginInd, NEW c \in Callbacks, Finish(c)
    PROVE  LoginInd'
<1> DEFINE q == cb[c].qr
           s == cb[c].session
           r == IF qr[q].state = "absent" THEN qr[q] ELSE Authorized(qr[q], s)
<1>1. cb[c].pc = "finish" /\ cb' = Done(c) /\ UNCHANGED <<rows, grant, dev, lo, sse, clientVars, budget>>
  BY DEF Finish
<1>2. /\ q \in QRs /\ s \in Sessions /\ (budget.store => FullyStored(s))
      /\ qr \in [QRs -> QrType] /\ cb \in [Callbacks -> CbType]
  BY <1>1 DEF LoginInd, ServerInd, ServerTypes, OnTime, Live, Progress
<1>3. qr' = [qr EXCEPT ![q] = r]
  BY <1>2 DEF Finish
<1>4. /\ r \in QrType /\ Succeeds(qr[q], r)
      /\ \/ r = qr[q]
         \/ r.session = s
  BY <1>2, AuthorizedQr DEF Succeeds
<1>5. Spends
  BY <1>1, BudgetStays DEF LoginInd
<1> HIDE DEF q, s, r
<1>6. ServerInd'
  BY <1>1, <1>2, <1>3, <1>4, <1>5, OneQr, CallbackDone DEF LoginInd
<1> QED  BY <1>1, <1>6, ClientKept DEF LoginInd

-----------------------------------------------------------------------------
(* What is stored stays stored.                                            *)
StoreGrows ==
    /\ rows \subseteq rows' /\ rows' \subseteq {"tenant", "workspace_user", "lark_identity"}
    /\ grant.state # "none" => grant'.state # "none"
    /\ \A s \in Sessions : dev[s] # "absent" => dev'[s] # "absent"

(* What is fully stored stays so while the store grows.                    *)
LEMMA StoredStays ==
    ASSUME StoreGrows
    PROVE  /\ \A s \in Sessions : FullyStored(s) => FullyStored(s)'
           /\ \A n \in Nat : StoredBefore(n) => StoredBefore(n)'
BY DEF StoreGrows, FullyStored, StoredBefore

(* So login sessions and callbacks keep their promises when rows, grant    *)
(* and sessions are stored or revoked.                                     *)
LEMMA PromisesKept ==
    ASSUME ServerInd, StoreGrows, UNCHANGED <<qr, budget>>
    PROVE  /\ \A q \in QRs : QrOK(q)'
           /\ \A c \in Callbacks : cb'[c] = cb[c] => OnTime(c)' /\ Progress(c)'
<1>1. ASSUME NEW q \in QRs PROVE QrOK(q)'
  BY StoredStays DEF ServerInd, QrOK
<1>2. ASSUME NEW c \in Callbacks, cb'[c] = cb[c] PROVE OnTime(c)'
  BY <1>2 DEF ServerInd, OnTime, Live
<1>3. ASSUME NEW c \in Callbacks, cb'[c] = cb[c] PROVE Progress(c)'
  <2>1. Progress(c)
    BY DEF ServerInd
  <2>2. ASSUME cb[c].pc = "persist" PROVE StoredBefore(cb[c].stage)'
    <3>1. PICK n \in Nat : n = cb[c].stage /\ StoredBefore(n)
      BY <2>1, <2>2 DEF Progress
    <3>2. StoredBefore(n)'
      BY <3>1, StoredStays
    <3> QED  BY <1>3, <3>1, <3>2 DEF StoredBefore
  <2>3. ASSUME cb[c].pc = "finish", budget.store PROVE FullyStored(cb[c].session)'
    <3>1. PICK s \in Sessions : s = cb[c].session /\ FullyStored(s)
      BY <2>1, <2>3 DEF Progress
    <3>2. FullyStored(s)'
      BY <3>1, StoredStays
    <3> QED  BY <1>3, <3>1, <3>2 DEF FullyStored
  <2> QED  BY <1>3, <2>1, <2>2, <2>3 DEF Progress
<1> QED  BY <1>1, <1>2, <1>3

(* One of the five upserts.                                                *)
LEMMA PersistStagePreserves ==
    ASSUME LoginInd, NEW c \in Callbacks, PersistStage(c)
    PROVE  LoginInd'
<1>0. PICK i \in 1 .. 5, s \in Sessions : i = cb[c].stage /\ s = cb[c].session
  BY DEF PersistStage, LoginInd, ServerInd, Progress
<1> DEFINE stage == Stages[i]
           fresh == stage = "device_session" /\ dev[s] = "absent"
           n == [cb[c] EXCEPT !.stage = i + 1,
                              !.pc = IF stage = "device_session" THEN "finish" ELSE "persist",
                              !.inserted = fresh]
<1>1. /\ cb[c].pc = "persist" /\ UNCHANGED <<qr, lo, sse, clientVars, budget>>
      /\ cb' = [cb EXCEPT ![c] = n]
  BY <1>0 DEF PersistStage
<1>2. /\ cb[c] \in CbType /\ cb \in [Callbacks -> CbType] /\ ~ cb[c].inserted
      /\ StoredBefore(i) /\ OnTime(c)
      /\ dev \in [Sessions -> {"absent", "active", "revoked"}] /\ lo \in [Sessions -> LoType]
      /\ rows \subseteq {"tenant", "workspace_user", "lark_identity"}
  BY <1>0, <1>1 DEF LoginInd, ServerInd, ServerTypes, Progress
<1>3. /\ stage = "device_session" <=> i = 5
      /\ stage = "token_grant" <=> i = 4
      /\ stage = "tenant" <=> i = 1
      /\ stage = "workspace_user" <=> i = 2
      /\ stage = "lark_identity" <=> i = 3
  BY <1>2 DEF Stages
<1>4. /\ n \in CbType /\ n.qr = cb[c].qr /\ n.began = cb[c].began /\ n.session = s
      /\ n.stage = i + 1 /\ n.inserted = fresh
      /\ n.pc = IF stage = "device_session" THEN "finish" ELSE "persist"
  <2>1. i + 1 \in 0 .. 6
    BY <1>2
  <2>2. fresh \in BOOLEAN
    OBVIOUS
  <2> HIDE DEF fresh, stage
  <2> QED  BY <1>0, <1>2, <2>1, <2>2 DEF CbType
<1> HIDE DEF n
<1>5. cb' \in [Callbacks -> CbType] /\ cb'[c] = n /\ \A d \in Callbacks \ {c} : cb'[d] = cb[d]
  BY <1>1, <1>2, <1>4
<1>6. rows' = IF i = 1 THEN rows \cup {"tenant"}
              ELSE IF i = 2 THEN rows \cup {"workspace_user"}
              ELSE IF i = 3 THEN rows \cup {"lark_identity"} ELSE rows
  BY <1>0, <1>3 DEF PersistStage, UpsertTenant, UpsertWorkspaceUser, UpsertLarkIdentity
<1>7. grant' = IF i = 4 THEN [state |-> "valid", by |-> c] ELSE grant
  BY <1>0, <1>3 DEF PersistStage, UpsertTokenGrant
<1>8. dev' = IF i = 5 THEN [dev EXCEPT ![s] = IF dev[s] = "absent" THEN "active" ELSE dev[s]] ELSE dev
  BY <1>0, <1>2, <1>3 DEF PersistStage, UpsertDeviceSession
<1>9. fresh <=> i = 5 /\ dev[s] = "absent"
  BY <1>3
<1> HIDE DEF stage, fresh
<1>10. /\ dev' \in [Sessions -> {"absent", "active", "revoked"}]
       /\ \A t \in Sessions : dev[t] # "absent" => dev'[t] = dev[t]
       /\ i = 5 => dev'[s] # "absent"
       /\ fresh => dev'[s] = "active"
  BY <1>2, <1>8, <1>9
<1>11. grant' \in [state : {"none", "valid", "revoked"}, by : Callbacks \cup {NoSession}]
  BY <1>7 DEF LoginInd, ServerInd, ServerTypes
<1>12. StoreGrows
  BY <1>2, <1>6, <1>7, <1>10 DEF StoreGrows
<1>13. ServerTypes'
  BY <1>1, <1>2, <1>5, <1>10, <1>11, <1>12 DEF LoginInd, ServerInd, ServerTypes, StoreGrows
<1>14. \A q \in QRs : QrOK(q)'
  BY <1>1, <1>12, PromisesKept DEF LoginInd
<1>15. \A d \in Callbacks \ {c} : OnTime(d)' /\ Progress(d)'
  BY <1>1, <1>5, <1>12, PromisesKept DEF LoginInd
<1>16. OnTime(c)'
  BY <1>1, <1>2, <1>4, <1>5 DEF OnTime, Live
<1>17. StoredBefore(i + 1)'
  BY <1>2, <1>6, <1>7 DEF StoredBefore
<1>18. Progress(c)'
  <2>1. CASE i = 5
    <3>1. cb'[c].pc = "finish" /\ cb'[c].session = s
      BY <1>3, <1>4, <1>5, <2>1
    <3>2. rows' = {"tenant", "workspace_user", "lark_identity"} /\ grant'.state # "none"
      <4>1. StoredBefore(5)
        BY <1>2, <2>1
      <4>2. grant.state # "none" /\ {"tenant", "workspace_user", "lark_identity"} \subseteq rows
        BY <4>1 DEF StoredBefore
      <4> QED  BY <1>2, <1>6, <1>7, <2>1, <4>2
    <3> QED  BY <1>2, <1>10, <2>1, <3>1, <3>2 DEF Progress, FullyStored
  <2>2. CASE i # 5
    <3>1. cb'[c].pc = "persist" /\ cb'[c].session = s /\ cb'[c].stage = i + 1
      BY <1>3, <1>4, <1>5, <2>2
    <3>2. i + 1 \in 1 .. 5 /\ ~ fresh
      BY <1>2, <1>9, <2>2
    <3>3. ~ cb'[c].inserted
      BY <1>4, <1>5, <3>2
    <3> QED  BY <1>2, <1>17, <3>1, <3>2, <3>3 DEF Progress, StoredBefore
  <2> QED  BY <2>1, <2>2
<1>19. (grant.state # "none" => grant.by \in Callbacks)'
  BY <1>7 DEF LoginInd, ServerInd
(* A grant that is valid was stored by this login, or was there before.    *)
<1>20. \/ \E t \in Sessions : dev[t] = "absent" /\ dev'[t] = "active"
       \/ ~ cb'[grant'.by].inserted
       \/ grant' = grant /\ cb'[grant.by].inserted = cb[grant.by].inserted
       \/ grant'.state # "valid"
  <2>1. CASE fresh
    BY <1>2, <1>9, <1>10, <2>1
  <2>2. CASE ~ fresh
    <3>1. ~ cb'[c].inserted
      BY <1>4, <1>5, <2>2
    <3>2. CASE i = 4
      BY <1>7, <3>1, <3>2
    <3>3. CASE i # 4 /\ grant.by = c
      BY <1>7, <3>1, <3>3
    <3>4. CASE i # 4 /\ grant.by # c
      <4>1. CASE grant.by \in Callbacks
        BY <1>5, <1>7, <3>4, <4>1
      <4>2. CASE grant.by \notin Callbacks
        BY <1>7, <3>4, <4>2 DEF LoginInd, ServerInd
      <4> QED  BY <4>1, <4>2
    <3> QED  BY <3>2, <3>3, <3>4
  <2> QED  BY <2>1, <2>2
<1>21. ASSUME NEW t \in Sessions PROVE LogoutOK(t)'
  <2>1. LogoutOK(t) /\ lo' = lo
    BY <1>1 DEF LoginInd, ServerInd
  <2>2. lo[t].pc # "none" => dev[t] = "active" /\ dev'[t] = "active"
    BY <1>10, <2>1 DEF LogoutOK
  <2>3. ASSUME lo[t].pc = "revoked", ~ lo[t].revokes
        PROVE  \/ \E u \in Sessions : u # t /\ dev'[u] = "active"
               \/ grant'.state # "valid" \/ ~ cb'[grant'.by].inserted
    <3>1. CASE \E u \in Sessions : dev[u] = "absent" /\ dev'[u] = "active"
      BY <2>2, <2>3, <3>1
    <3>2. CASE \E u \in Sessions : u # t /\ dev[u] = "active"
      BY <1>10, <3>2
    <3>3. CASE grant' = grant /\ cb'[grant.by].inserted = cb[grant.by].inserted
      BY <2>1, <2>3, <3>2, <3>3 DEF LogoutOK
    <3> QED  BY <1>20, <3>1, <3>3
  <2> QED  BY <2>1, <2>2, <2>3 DEF LogoutOK, Holding
<1>22. LastDeviceRevokesGrant'
  <2>1. SUFFICES ASSUME grant'.state = "valid", \A t \in Sessions : dev'[t] # "active",
                        cb'[grant'.by].inserted
                 PROVE  FALSE
    BY DEF LastDeviceRevokesGrant, Active
  <2>2. grant' = grant /\ cb'[grant.by].inserted = cb[grant.by].inserted
    BY <1>20, <2>1
  <2>3. \A t \in Sessions : dev[t] # "active"
    BY <1>10, <2>1
  <2> QED  BY <2>1, <2>2, <2>3 DEF LoginInd, ServerInd, LastDeviceRevokesGrant, Active
<1>23. ServerInd'
  BY <1>13, <1>14, <1>15, <1>16, <1>18, <1>19, <1>21, <1>22 DEF ServerInd
<1> QED  BY <1>1, <1>23, ClientKept DEF LoginInd

-----------------------------------------------------------------------------
(* Logout.  A step that only changes logout transactions, or the device    *)
(* sessions and the grant.                                                 *)
LEMMA LogoutStep ==
    ASSUME ServerInd, StoreGrows, UNCHANGED <<qr, cb, rows>>, Spends,
           lo' \in [Sessions -> LoType],
           dev' \in [Sessions -> {"absent", "active", "revoked"}],
           grant' \in [state : {"none", "valid", "revoked"}, by : Callbacks \cup {NoSession}],
           grant'.by = grant.by, grant.state = "none" => grant'.state = "none",
           \A s \in Sessions : LogoutOK(s)',
           LastDeviceRevokesGrant'
    PROVE  ServerInd'
<1>1. ServerTypes'
  BY DEF ServerInd, ServerTypes, Spends
<1>2. ASSUME NEW q \in QRs PROVE QrOK(q)'
  BY StoredStays DEF ServerInd, QrOK, Spends
<1>3. ASSUME NEW c \in Callbacks PROVE OnTime(c)'
  BY DEF ServerInd, OnTime, Live
<1>4. ASSUME NEW c \in Callbacks PROVE Progress(c)'
  <2>1. Progress(c)
    BY DEF ServerInd
  <2>2. ASSUME cb[c].pc = "persist" PROVE StoredBefore(cb[c].stage)'
    <3>1. PICK n \in Nat : n = cb[c].stage /\ StoredBefore(n)
      BY <2>1, <2>2 DEF Progress
    <3>2. StoredBefore(n)'
      BY <3>1, StoredStays
    <3> QED  BY <3>1, <3>2 DEF StoredBefore
  <2>3. ASSUME cb[c].pc = "finish", budget.store PROVE FullyStored(cb[c].session)'
    <3>1. PICK s \in Sessions : s = cb[c].session /\ FullyStored(s)
      BY <2>1, <2>3 DEF Progress
    <3>2. FullyStored(s)'
      BY <3>1, StoredStays
    <3> QED  BY <3>1, <3>2 DEF FullyStored
  <2> QED  BY <2>1, <2>2, <2>3 DEF Progress, Spends
<1>5. (grant.state # "none" => grant.by \in Callbacks)'
  BY DEF ServerInd
<1> QED  BY <1>1, <1>2, <1>3, <1>4, <1>5 DEF ServerInd

(* The client leaves a session.                                            *)
LEMMA SignedOutKeeps ==
    ASSUME ClientInd, NEW s, ui' = SignedOut(s) \/ UNCHANGED ui, UNCHANGED <<sse, ev, poll>>
    PROVE  ClientInd'
<1>1. ui \in UiType /\ ui' \in UiType /\ (ui'.state = "waiting" => ui'.qr \in QRs)
  <2>1. ui \in UiType /\ (ui.state = "waiting" => ui.qr \in QRs)
    BY DEF ClientInd
  <2>2. CASE UNCHANGED ui
    BY <2>1, <2>2
  <2>3. CASE ui' = SignedOut(s)
    BY <2>1, <2>3 DEF SignedOut, UiType, MaybeSession
  <2> QED  BY <2>2, <2>3
<1> QED  BY <1>1 DEF ClientInd

(* Only the transactions change: each begins, locks, decides or ends.      *)
LEMMA TransactionStep ==
    ASSUME ServerInd, UNCHANGED <<qr, cb, rows, grant, dev>>, Spends, NEW s \in Sessions,
           NEW r \in LoType, lo' = [lo EXCEPT ![s] = r],
           LogoutOK(s)', r.pc \in {"locked", "revoked"} => \A t \in Sessions \ {s} : ~ Holding(t)
    PROVE  ServerInd'
<1>1. lo \in [Sessions -> LoType]
  BY DEF ServerInd, ServerTypes
<1>2. lo' \in [Sessions -> LoType] /\ lo'[s] = r /\ \A t \in Sessions \ {s} : lo'[t] = lo[t]
  BY <1>1
<1>3. ASSUME NEW t \in Sessions, t # s PROVE LogoutOK(t)'
  BY <1>2, <1>3 DEF ServerInd, LogoutOK, Holding
<1>4. StoreGrows
  BY DEF ServerInd, ServerTypes, StoreGrows
<1>5. LastDeviceRevokesGrant'
  BY DEF ServerInd, LastDeviceRevokesGrant, Active
<1> QED  BY <1>2, <1>3, <1>4, <1>5, LogoutStep DEF ServerInd, ServerTypes

(* A logout begins, or finds its session over.                             *)
LEMMA LogoutPreserves ==
    ASSUME LoginInd, NEW s \in Sessions, Logout(s)
    PROVE  LoginInd'
<1>1. /\ Spend("logouts") /\ lo[s].pc = "none" /\ UNCHANGED <<qr, cb, rows, grant, dev, sse, ev, poll>>
      /\ \/ dev[s] = "active" /\ lo' = [lo EXCEPT ![s].pc = "begin"] /\ UNCHANGED ui
         \/ ui' = SignedOut(s) /\ UNCHANGED lo
  BY DEF Logout, LogoutSessionState, AuthenticatedContextFromSession
<1>2. Spends
  BY <1>1, BudgetSpent DEF LoginInd, Numbers
<1>3. ClientInd'
  BY <1>1, SignedOutKeeps DEF LoginInd
<1>4. ServerInd'
  <2>1. CASE dev[s] = "active" /\ lo' = [lo EXCEPT ![s].pc = "begin"]
    <3> DEFINE r == [lo[s] EXCEPT !.pc = "begin"]
    <3>1. lo \in [Sessions -> LoType]
      BY DEF LoginInd, ServerInd, ServerTypes
    <3>2. r \in LoType /\ r.pc = "begin" /\ lo' = [lo EXCEPT ![s] = r]
      BY <2>1, <3>1 DEF LoType
    <3> HIDE DEF r
    <3>3. LogoutOK(s)'
      BY <1>1, <2>1, <3>1, <3>2 DEF LogoutOK, Holding
    <3> QED  BY <1>1, <1>2, <3>2, <3>3, TransactionStep DEF LoginInd
  <2>2. CASE UNCHANGED lo
    BY <1>1, <1>2, <2>2, ServerKept DEF LoginInd, serverVars
  <2> QED  BY <1>1, <2>1, <2>2
<1> QED  BY <1>3, <1>4 DEF LoginInd

(* A logout locks only when no other holds its own session's lock.         *)
LEMMA LogoutLocksPreserves ==
    ASSUME LoginInd, NEW s \in Sessions, LogoutLocks(s)
    PROVE  LoginInd'
<1> DEFINE r == [lo[s] EXCEPT !.pc = "locked", !.locks = Active]
<1>1. /\ lo[s].pc = "begin" /\ UNCHANGED <<qr, cb, rows, grant, dev, sse, clientVars, budget>>
      /\ \A t \in Sessions : Active \cap lo[t].locks = {}
  BY DEF LogoutLocks
<1>2. lo \in [Sessions -> LoType]
  BY DEF LoginInd, ServerInd, ServerTypes
<1>3. Active \subseteq Sessions
  BY DEF Active
<1>4. lo' = [lo EXCEPT ![s] = r] /\ r \in LoType /\ r.pc = "locked" /\ r.locks = Active
  <2>1. PICK A : A = Active
    OBVIOUS
  <2>2. lo' = [lo EXCEPT ![s] = r]
    <3>1. lo' = [lo EXCEPT ![s].pc = "locked", ![s].locks = A]
      BY <2>1 DEF LogoutLocks
    <3>2. lo' = [lo EXCEPT ![s] = [lo[s] EXCEPT !.pc = "locked", !.locks = A]]
      BY <1>2, <3>1
    <3> QED  BY <2>1, <3>2
  <2>3. r \in LoType /\ r.pc = "locked" /\ r.locks = Active
    <3>1. lo[s] \in LoType /\ A \in SUBSET Sessions
      BY <1>2, <1>3, <2>1
    <3>2. [lo[s] EXCEPT !.pc = "locked", !.locks = A] \in LoType
      BY <3>1 DEF LoType
    <3>3. r.pc = "locked" /\ r.locks = Active
      BY <3>1 DEF LoType
    <3> QED  BY <2>1, <3>2, <3>3
  <2> QED  BY <2>2, <2>3
<1> HIDE DEF r
<1>5. dev[s] = "active" /\ s \in Active
  BY <1>1 DEF LoginInd, ServerInd, LogoutOK, Active
<1>6. ASSUME NEW t \in Sessions, Holding(t) PROVE FALSE
  <2>1. dev[t] = "active" /\ t \in lo[t].locks
    BY <1>6 DEF LoginInd, ServerInd, LogoutOK, Holding
  <2>2. t \in Active
    BY <2>1 DEF Active
  <2> QED  BY <1>1, <2>1, <2>2
<1>7. lo'[s] = r /\ \A t \in Sessions \ {s} : lo'[t] = lo[t]
  BY <1>2, <1>4
<1>8. LogoutOK(s)'
  BY <1>1, <1>4, <1>5, <1>6, <1>7 DEF LogoutOK, Holding
<1>9. ServerInd'
  BY <1>1, <1>4, <1>6, <1>8, TransactionStep, BudgetStays DEF LoginInd
<1> QED  BY <1>1, <1>9, ClientKept DEF LoginInd

(* It decides to spare the grant only with another device active.          *)
LEMMA LogoutRevokesPreserves ==
    ASSUME LoginInd, NEW s \in Sessions, LogoutRevokes(s)
    PROVE  LoginInd'
<1> DEFINE last == RemainingActiveSessions(s) = {} /\ grant.state = "valid"
           r == [lo[s] EXCEPT !.pc = "revoked", !.revokes = last]
<1>1. lo[s].pc = "locked" /\ UNCHANGED <<qr, cb, rows, grant, dev, sse, clientVars, budget>>
  BY DEF LogoutRevokes
<1>2. lo \in [Sessions -> LoType] /\ dev \in [Sessions -> {"absent", "active", "revoked"}]
  BY DEF LoginInd, ServerInd, ServerTypes
<1>3. last \in BOOLEAN /\ lo' = [lo EXCEPT ![s] = r]
  BY <1>2 DEF LogoutRevokes
<1>4. ~ last => grant.state # "valid" \/ \E t \in Sessions : t # s /\ dev[t] = "active"
  BY <1>2 DEF RemainingActiveSessions, RevokeDeviceSession
<1> HIDE DEF last
<1>5. r \in LoType /\ r.pc = "revoked" /\ r.locks = lo[s].locks /\ r.revokes = last
  <2>1. lo[s] \in LoType
    BY <1>2
  <2>2. r \in LoType
    BY <1>3, <2>1 DEF LoType
  <2> QED  BY <1>3, <2>1, <2>2 DEF LoType
<1> HIDE DEF r
<1>6. lo'[s] = r /\ \A t \in Sessions \ {s} : lo'[t] = lo[t]
  BY <1>2, <1>3
<1>7. \A t \in Sessions \ {s} : ~ Holding(t)
  BY <1>1 DEF LoginInd, ServerInd, LogoutOK, Holding
<1>8. LogoutOK(s)'
  <2>1. dev[s] = "active" /\ s \in lo[s].locks
    BY <1>1 DEF LoginInd, ServerInd, LogoutOK, Holding
  <2>2. ~ r.revokes => \/ grant'.state # "valid"
                       \/ \E t \in Sessions : t # s /\ dev'[t] = "active"
    BY <1>1, <1>4, <1>5
  <2> QED  BY <1>1, <1>5, <1>6, <1>7, <2>1, <2>2 DEF LogoutOK, Holding
<1>9. ServerInd'
  BY <1>1, <1>3, <1>5, <1>7, <1>8, TransactionStep, BudgetStays DEF LoginInd
<1> QED  BY <1>1, <1>9, ClientKept DEF LoginInd

(* The commit: its session ends, and the grant with the last one.          *)
LEMMA LogoutCommitsPreserves ==
    ASSUME LoginInd, NEW s \in Sessions, LogoutCommits(s)
    PROVE  LoginInd'
<1>1. /\ lo[s].pc = "revoked" /\ lo' = [lo EXCEPT ![s] = NoTx]
      /\ grant' = IF lo[s].revokes THEN RevokeUserGrants ELSE grant
      /\ ui' = SignedOut(s) /\ UNCHANGED <<qr, cb, rows, sse, ev, poll, budget>>
  BY DEF LogoutCommits
<1>2. /\ lo \in [Sessions -> LoType] /\ dev \in [Sessions -> {"absent", "active", "revoked"}]
      /\ grant \in [state : {"none", "valid", "revoked"}, by : Callbacks \cup {NoSession}]
      /\ rows \subseteq {"tenant", "workspace_user", "lark_identity"}
  BY DEF LoginInd, ServerInd, ServerTypes
<1>3. dev[s] = "active" /\ \A t \in Sessions \ {s} : ~ Holding(t)
  BY <1>1 DEF LoginInd, ServerInd, LogoutOK, Holding
<1>4. dev' = [dev EXCEPT ![s] = "revoked"]
  BY <1>2, <1>3 DEF LogoutCommits, RevokeDeviceSession
<1>5. NoTx \in LoType /\ NoTx.pc = "none"
  BY DEF NoTx, LoType
<1>6. lo' \in [Sessions -> LoType] /\ lo'[s] = NoTx /\ \A t \in Sessions \ {s} : lo'[t] = lo[t]
  BY <1>1, <1>2, <1>5
<1>7. /\ grant' \in [state : {"none", "valid", "revoked"}, by : Callbacks \cup {NoSession}]
      /\ grant'.by = grant.by /\ (grant.state = "none" <=> grant'.state = "none")
      /\ lo[s].revokes => grant'.state # "valid"
      /\ ~ lo[s].revokes => grant' = grant
  BY <1>1, <1>2 DEF RevokeUserGrants
<1>8. ASSUME NEW t \in Sessions PROVE LogoutOK(t)'
  <2>1. CASE t = s
    BY <1>5, <1>6, <2>1 DEF LogoutOK, Holding
  <2>2. CASE t # s
    <3>1. lo'[t] = lo[t] /\ ~ Holding(t) /\ dev'[t] = dev[t]
      BY <1>2, <1>3, <1>4, <1>6, <2>2
    <3>2. lo[t].pc # "none" => dev[t] = "active"
      BY DEF LoginInd, ServerInd, LogoutOK
    <3> QED  BY <3>1, <3>2 DEF LogoutOK, Holding
  <2> QED  BY <2>1, <2>2
<1>9. LastDeviceRevokesGrant'
  <2>1. SUFFICES ASSUME grant'.state = "valid", \A t \in Sessions : dev'[t] # "active",
                        cb[grant'.by].inserted
                 PROVE  FALSE
    BY <1>1 DEF LastDeviceRevokesGrant, Active
  <2>2. ~ lo[s].revokes /\ grant' = grant
    BY <1>7, <2>1
  <2>3. \E t \in Sessions : t # s /\ dev[t] = "active"
    BY <1>1, <2>1, <2>2 DEF LoginInd, ServerInd, LogoutOK
  <2> QED  BY <1>2, <1>4, <2>1, <2>3
<1>10. dev' \in [Sessions -> {"absent", "active", "revoked"}]
       /\ \A t \in Sessions : dev[t] # "absent" => dev'[t] # "absent"
  BY <1>2, <1>4
<1>11. StoreGrows
  BY <1>1, <1>2, <1>7, <1>10 DEF StoreGrows
<1>12. Spends
  BY <1>1, BudgetStays DEF LoginInd
<1>13. ServerInd'
  BY <1>1, <1>6, <1>7, <1>8, <1>9, <1>10, <1>11, <1>12, LogoutStep DEF LoginInd
<1> QED  BY <1>1, <1>13, SignedOutKeeps DEF LoginInd

(* A logout rolls back.                                                    *)
LEMMA LogoutFailsPreserves ==
    ASSUME LoginInd, NEW s \in Sessions, LogoutFails(s)
    PROVE  LoginInd'
<1>1. /\ Spend("faults") /\ lo' = [lo EXCEPT ![s] = NoTx] /\ ui' = SignedOut(s)
      /\ UNCHANGED <<qr, cb, rows, grant, dev, sse, ev, poll>>
  BY DEF LogoutFails
<1>2. NoTx \in LoType /\ NoTx.pc = "none"
  BY DEF NoTx, LoType
<1>3. lo \in [Sessions -> LoType]
  BY DEF LoginInd, ServerInd, ServerTypes
<1>4. LogoutOK(s)'
  BY <1>1, <1>2, <1>3 DEF LogoutOK, Holding
<1>5. Spends
  BY <1>1, BudgetSpent DEF LoginInd, Numbers
<1>6. ServerInd'
  BY <1>1, <1>2, <1>4, <1>5, TransactionStep DEF LoginInd
<1> QED  BY <1>1, <1>6, SignedOutKeeps DEF LoginInd

(* The facade restarts: rows, grant and sessions are in the database.      *)
LEMMA RestartPreserves ==
    ASSUME LoginInd, Restart
    PROVE  LoginInd'
<1>1. /\ Spend("restarts") /\ qr' = [q \in QRs |-> AbsentQr]
      /\ cb' = [c \in Callbacks |-> IF cb[c].pc = "idle" THEN cb[c] ELSE [cb[c] EXCEPT !.pc = "done"]]
      /\ lo' = [s \in Sessions |-> NoTx]
      /\ sse' = [q \in QRs |-> IF sse[q].pc = "none" THEN sse[q] ELSE [sse[q] EXCEPT !.pc = "closed"]]
      /\ UNCHANGED <<rows, grant, dev, clientVars>>
  BY DEF Restart
<1>2. Spends
  BY <1>1, BudgetSpent DEF LoginInd, Numbers
<1>3. AbsentQr \in QrType /\ AbsentQr.state = "absent" /\ NoTx \in LoType /\ NoTx.pc = "none"
  BY DEF AbsentQr, QrType, MaybeSession, NoTx, LoType
<1>4. cb \in [Callbacks -> CbType]
  BY DEF LoginInd, ServerInd, ServerTypes
<1>5. ASSUME NEW c \in Callbacks
      PROVE  /\ cb'[c] \in CbType /\ cb'[c].inserted = cb[c].inserted
             /\ cb'[c].pc = "done" \/ (cb'[c] = cb[c] /\ cb[c].pc = "idle")
  <2>1. cb[c] \in CbType
    BY <1>4
  <2>2. CASE cb[c].pc = "idle"
    BY <1>1, <2>1, <2>2
  <2>3. CASE cb[c].pc # "idle"
    <3>1. cb'[c] = [cb[c] EXCEPT !.pc = "done"]
      BY <1>1, <2>3
    <3> QED  BY <2>1, <3>1 DEF CbType
  <2> QED  BY <2>2, <2>3
<1>6. ServerTypes'
  <2>1. cb' \in [Callbacks -> CbType]
    BY <1>1, <1>5
  <2>2. qr' \in [QRs -> QrType] /\ lo' \in [Sessions -> LoType]
    BY <1>1, <1>3
  <2> QED  BY <1>1, <1>2, <2>1, <2>2 DEF LoginInd, ServerInd, ServerTypes, Spends
<1>7. \A q \in QRs : QrOK(q)'
  BY <1>1, <1>3 DEF QrOK
<1>8. \A c \in Callbacks : OnTime(c)'
  BY <1>5 DEF OnTime, Live
<1>9. \A c \in Callbacks : Progress(c)'
  BY <1>5 DEF Progress, LoginInd, ServerInd
<1>10. \A s \in Sessions : LogoutOK(s)'
  BY <1>1, <1>3 DEF LogoutOK, Holding
<1>11. LastDeviceRevokesGrant' /\ (grant.state # "none" => grant.by \in Callbacks)'
  <2>1. grant.state # "none" => grant.by \in Callbacks
    BY DEF LoginInd, ServerInd
  <2>2. grant.state # "none" => cb'[grant.by].inserted = cb[grant.by].inserted
    BY <1>5, <2>1
  <2> QED  BY <1>1, <2>1, <2>2 DEF LoginInd, ServerInd, LastDeviceRevokesGrant, Active
<1>12. ServerInd'
  BY <1>6, <1>7, <1>8, <1>9, <1>10, <1>11 DEF ServerInd
<1>13. ASSUME NEW q \in QRs PROVE sse'[q] \in SseType /\ sse'[q].out \in Seq(GoodEvents)
  <2>1. sse[q] \in SseType /\ sse[q].out \in Seq(GoodEvents)
    BY DEF LoginInd, ClientInd
  <2>2. sse'[q] = sse[q] \/ sse'[q] = [sse[q] EXCEPT !.pc = "closed"]
    BY <1>1
  <2> QED  BY <2>1, <2>2 DEF SseType
<1>14. ClientInd'
  BY <1>1, <1>13 DEF LoginInd, ClientInd, clientVars
<1> QED  BY <1>12, <1>14 DEF LoginInd

-----------------------------------------------------------------------------
(* Events: what is sent can be shown.                                      *)
LEMMA EventIsGood ==
    ASSUME NEW r \in QrType, r.state # "absent", r.state = "authorized" => r.session \in Sessions
    PROVE  SessionStatusJson(r) \in GoodEvents
<1> DEFINE e == SessionStatusJson(r)
<1>1. NoSession \notin Sessions
  BY LoginConfig DEF Sessions
<1>2. e.status = r.state /\ e.status \in {"pending"} \cup Terminal
  BY DEF SessionStatusJson, QrType, Terminal
<1>3. e.qr_session \in BOOLEAN /\ (e.status = "pending" => e.qr_session)
  BY DEF SessionStatusJson
<1>4. e.oar_session \in MaybeSession /\ (e.status = "authorized" => e.oar_session # NoSession)
  BY <1>1 DEF SessionStatusJson, MaybeSession
<1>5. e = [status |-> e.status, qr_session |-> e.qr_session, oar_session |-> e.oar_session]
  BY DEF SessionStatusJson
<1> HIDE DEF e
<1>6. e \in EventType
  BY <1>2, <1>3, <1>4, <1>5 DEF EventType
<1> QED  BY <1>3, <1>4, <1>6 DEF GoodEvents, e

(* An event that can be shown becomes a state of the client.               *)
LEMMA EventIsShown ==
    ASSUME NEW e \in GoodEvents
    PROVE  ToDomainState(e) \in Shows
<1>1. /\ e.status \in {"pending", "authorized", "denied", "expired"}
      /\ e.oar_session \in MaybeSession /\ NoSession \in MaybeSession
      /\ e.status = "pending" => e.qr_session
      /\ e.status = "authorized" => e.oar_session # NoSession
  BY DEF GoodEvents, EventType, Terminal, MaybeSession
<1>2. CASE e.status = "pending"
  BY <1>1, <1>2 DEF ToDomainState, Shows, Terminal
<1>3. CASE e.status = "authorized"
  BY <1>1, <1>3 DEF ToDomainState, Shows, Terminal
<1>4. CASE e.status \in {"denied", "expired"}
  BY <1>1, <1>4 DEF ToDomainState, Shows, Terminal
<1> QED  BY <1>1, <1>2, <1>3, <1>4

(* A stream changes.                                                       *)
LEMMA SseStep ==
    ASSUME ClientInd, UNCHANGED clientVars, NEW q \in QRs, NEW r \in SseType,
           r.out \in Seq(GoodEvents), sse' = [sse EXCEPT ![q] = r]
    PROVE  ClientInd'
<1>1. sse \in [QRs -> SseType] /\ \A p \in QRs : sse[p].out \in Seq(GoodEvents)
  BY DEF ClientInd
<1>2. sse' \in [QRs -> SseType] /\ \A p \in QRs : sse'[p].out \in Seq(GoodEvents)
  BY <1>1
<1> QED  BY <1>2 DEF ClientInd, clientVars

(* A stream that only moves on.                                            *)
LEMMA SseMoves ==
    ASSUME ClientInd, UNCHANGED clientVars, NEW q \in QRs, NEW pc \in {"loop", "wait", "closed"},
           sse' = [sse EXCEPT ![q].pc = pc]
    PROVE  ClientInd'
<1> DEFINE r == [sse[q] EXCEPT !.pc = pc]
<1>1. sse \in [QRs -> SseType] /\ sse[q].out \in Seq(GoodEvents)
  BY DEF ClientInd
<1>2. r \in SseType /\ r.out = sse[q].out /\ sse' = [sse EXCEPT ![q] = r]
  BY <1>1 DEF SseType
<1> HIDE DEF r
<1> QED  BY <1>1, <1>2, SseStep

(* A snapshot is sent.                                                     *)
LEMMA SendKeeps ==
    ASSUME ClientInd, ServerInd', UNCHANGED clientVars, NEW q \in QRs,
           qr'[q].state # "absent", Send(q)
    PROVE  ClientInd'
<1> DEFINE e == SessionStatusJson(qr'[q])
           pc == IF AuthEventIsTerminal(qr'[q].state) \/ ~ Listening(q) THEN "closed" ELSE "loop"
           r == [pc |-> pc, seen |-> qr'[q].version, out |-> Append(sse[q].out, e)]
<1>1. qr'[q] \in QrType /\ (qr'[q].state = "authorized" => qr'[q].session \in Sessions)
  BY DEF ServerInd, ServerTypes, QrOK
<1>2. e \in GoodEvents
  BY <1>1, EventIsGood
<1>3. sse \in [QRs -> SseType] /\ sse[q].out \in Seq(GoodEvents)
  BY DEF ClientInd
<1>4. sse' = [sse EXCEPT ![q] = r]
  BY DEF Send
<1> HIDE DEF e
<1>5. Append(sse[q].out, e) \in Seq(GoodEvents)
  BY <1>2, <1>3
<1>6. Append(sse[q].out, e) \in Seq(EventType)
  <2>1. sse[q].out \in Seq(EventType) /\ e \in EventType
    BY <1>2, <1>3 DEF SseType, GoodEvents
  <2> QED  BY <2>1
<1>7. pc \in {"loop", "closed"} /\ qr'[q].version \in Nat
  BY <1>1 DEF QrType
<1> HIDE DEF pc
<1>8. r \in SseType /\ r.out \in Seq(GoodEvents)
  BY <1>5, <1>6, <1>7 DEF SseType
<1> HIDE DEF r
<1> QED  BY <1>4, <1>8, SseStep

(* The event stream looks at its login session and sends.                  *)
LEMMA StreamPreserves ==
    ASSUME LoginInd, NEW q \in QRs,
           StreamOpens(q) \/ StreamChecks(q) \/ StreamWakes(q) \/ StreamKeepalive(q)
    PROVE  LoginInd'
<1>1. /\ qr[q].state # "absent" /\ Snapshot(q)
      /\ UNCHANGED <<cb, rows, grant, dev, lo, clientVars, budget>>
      /\ \/ Send(q)
         \/ \E pc \in {"loop", "wait", "closed"} : sse' = [sse EXCEPT ![q].pc = pc]
  BY DEF StreamOpens, StreamChecks, StreamWakes, StreamKeepalive
<1>2. Spends
  BY <1>1, BudgetStays DEF LoginInd
<1>3. ServerInd' /\ qr'[q].state # "absent"
  BY <1>1, <1>2, SnapshotKeeps DEF LoginInd
<1>4. ClientInd'
  BY <1>1, <1>3, SendKeeps, SseMoves DEF LoginInd
<1> QED  BY <1>3, <1>4 DEF LoginInd

(* The event stream ends without an event.                                 *)
LEMMA StreamEndPreserves ==
    ASSUME LoginInd, NEW q \in QRs, StreamBreaks(q) \/ StreamNotFound(q)
    PROVE  LoginInd'
<1>1. CASE StreamBreaks(q)
  <2> DEFINE r == [NoStream EXCEPT !.pc = "closed"]
  <2>1. <<>> \in Seq(GoodEvents) /\ <<>> \in Seq(EventType)
    OBVIOUS
  <2>2. r \in SseType /\ r.out \in Seq(GoodEvents)
    BY <2>1 DEF NoStream, SseType
  <2>3. Spend("faults") /\ UNCHANGED <<serverVars, clientVars>> /\ sse' = [sse EXCEPT ![q] = r]
    BY <1>1 DEF StreamBreaks
  <2> HIDE DEF r
  <2>4. Spends
    BY <2>3, BudgetSpent DEF LoginInd, Numbers
  <2> QED  BY <2>2, <2>3, <2>4, SseStep, ServerKept DEF LoginInd
<1>2. CASE StreamNotFound(q)
  <2>1. UNCHANGED <<serverVars, clientVars, budget>> /\ sse' = [sse EXCEPT ![q].pc = "closed"]
    BY <1>2 DEF StreamNotFound
  <2>2. Spends
    BY <2>1, BudgetStays DEF LoginInd
  <2> QED  BY <2>1, <2>2, SseMoves, ServerKept DEF LoginInd
<1> QED  BY <1>1, <1>2

-----------------------------------------------------------------------------
(* The view model.                                                         *)
UiOK(u) == u \in UiType /\ (u.state = "waiting" => u.qr \in QRs)
PollOK(p) == p \in PollType /\ (p.reply # NoReply => p.qr \in QRs)

(* What the client holds, part by part.                                    *)
LEMMA ClientParts ==
    ClientInd <=> /\ sse \in [QRs -> SseType] /\ \A q \in QRs : sse[q].out \in Seq(GoodEvents)
                  /\ ev \in [QRs -> EvType] /\ UiOK(ui)
                  /\ poll \in [once : PollType, loop : PollType]
                  /\ PollOK(poll.once) /\ PollOK(poll.loop)
BY DEF ClientInd, UiOK, PollOK

(* What is shown of a reply is a good view.                                *)
LEMMA ShownOK ==
    ASSUME NEW q \in QRs, NEW next \in Shows, UiOK(ui)
    PROVE  UiOK(Shown(q, next))
<1>1. /\ next.state \in {"waiting", "authorized", "denied", "expired"} /\ next.session \in MaybeSession
      /\ ui \in UiType
  BY DEF Shows, Terminal, UiOK
<1>2. CASE next.state = "waiting"
  BY <1>1, <1>2 DEF Shown, UiOK, UiType
<1>3. CASE next.state = "authorized"
  BY <1>1, <1>3 DEF Shown, UiOK, UiType, Terminal
<1>4. CASE next.state \in {"denied", "expired"}
  BY <1>1, <1>4 DEF Shown, UiOK, UiType, Terminal
<1> QED  BY <1>1, <1>2, <1>3, <1>4

(* Cancelling tasks leaves good tasks.                                     *)
LEMMA TasksOK ==
    ASSUME NEW tasks \in [QRs -> EvType]
    PROVE  /\ Cancelled(tasks) \in [QRs -> EvType]
           /\ \A next : TasksAfter(tasks, next) \in [QRs -> EvType]
<1>1. ASSUME NEW q \in QRs PROVE Cancelled(tasks)[q] \in EvType
  <2>1. tasks[q] \in EvType
    OBVIOUS
  <2>2. [tasks[q] EXCEPT !.pc = "cancelled"] \in EvType
    BY <2>1 DEF EvType
  <2> QED  BY <2>1, <2>2 DEF Cancelled
<1>2. Cancelled(tasks) \in [QRs -> EvType]
  BY <1>1 DEF Cancelled
<1> QED  BY <1>2 DEF TasksAfter

(* No poll is a good poll.                                                 *)
LEMMA NoPollOK == PollOK(NoPoll)
BY DEF PollOK, NoPoll, PollType

(* The polling task stays good, or ends.                                   *)
LEMMA LoopOK ==
    ASSUME NEW loop, PollOK(loop), NEW next
    PROVE  PollOK(LoopAfter(loop, next))
BY NoPollOK DEF LoopAfter

(* A poll that waits for its next question.                                *)
LEMMA Rested ==
    ASSUME NEW p, PollOK(p)
    PROVE  PollOK([p EXCEPT !.reply = NoReply])
BY DEF PollOK, PollType

(* A step of the view model and its stream.                                *)
LEMMA ViewStep ==
    ASSUME LoginInd, ServerInd', sse' \in [QRs -> SseType],
           \A q \in QRs : sse'[q].out \in Seq(GoodEvents),
           ev' \in [QRs -> EvType], UiOK(ui'), poll' \in [once : PollType, loop : PollType],
           PollOK(poll'.once), PollOK(poll'.loop)
    PROVE  LoginInd'
BY DEF LoginInd, ClientInd, UiOK, PollOK

(* Replacing one of the two polls.                                         *)
LEMMA PollsReplaced ==
    ASSUME NEW p \in [once : PollType, loop : PollType], PollOK(p.once), PollOK(p.loop),
           NEW n, PollOK(n)
    PROVE  /\ [p EXCEPT !.loop = n] \in [once : PollType, loop : PollType]
           /\ [p EXCEPT !.loop = n].once = p.once /\ [p EXCEPT !.loop = n].loop = n
           /\ [p EXCEPT !.once = n] \in [once : PollType, loop : PollType]
           /\ [p EXCEPT !.once = n].loop = p.loop /\ [p EXCEPT !.once = n].once = n
<1>1. n \in PollType
  BY DEF PollOK
<1> HIDE DEF PollType
<1> QED  BY <1>1

(* A login is begun, created or not, or cancelled.                         *)
LEMMA BeginPreserves ==
    ASSUME LoginInd, StartFeishuLogin \/ LoginNotCreated \/ CancelLogin
    PROVE  LoginInd'
<1>1. /\ sse \in [QRs -> SseType] /\ \A q \in QRs : sse[q].out \in Seq(GoodEvents)
      /\ ev \in [QRs -> EvType] /\ UiOK(ui) /\ poll \in [once : PollType, loop : PollType]
      /\ PollOK(poll.once) /\ PollOK(poll.loop)
  BY ClientParts DEF LoginInd
<1>2. CASE StartFeishuLogin
  <2>1. UiOK(ui')
    BY <1>1, <1>2 DEF StartFeishuLogin, UiOK, UiType
  <2>2. ServerInd'
    BY <1>2, ServerKept, BudgetStays DEF StartFeishuLogin, LoginInd
  <2> QED  BY <1>1, <1>2, <2>1, <2>2, ViewStep DEF StartFeishuLogin
<1>3. CASE LoginNotCreated
  <2>1. UiOK(ui')
    BY <1>1, <1>3 DEF LoginNotCreated, UiOK, UiType
  <2>2. Spends
    BY <1>3, BudgetSpent DEF LoginNotCreated, LoginInd, Numbers
  <2>3. ServerInd'
    BY <1>3, <2>2, ServerKept DEF LoginNotCreated, LoginInd
  <2> QED  BY <1>1, <1>3, <2>1, <2>3, ViewStep DEF LoginNotCreated
<1>4. CASE CancelLogin
  <2>1. UiOK(ui')
    BY <1>1, <1>4 DEF CancelLogin, UiOK, UiType
  <2>2. Spends
    BY <1>4, BudgetSpent DEF CancelLogin, LoginInd, Numbers
  <2>3. ServerInd'
    BY <1>4, <2>2, ServerKept DEF CancelLogin, LoginInd
  <2>4. ev' \in [QRs -> EvType]
    BY <1>1, <1>4, TasksOK DEF CancelLogin
  <2>5. poll' \in [once : PollType, loop : PollType] /\ PollOK(poll'.once) /\ PollOK(poll'.loop)
    BY <1>1, <1>4, PollsReplaced, NoPollOK DEF CancelLogin
  <2> QED  BY <1>1, <1>4, <2>1, <2>3, <2>4, <2>5, ViewStep DEF CancelLogin
<1> QED  BY <1>2, <1>3, <1>4

(* The reply to the creation of a login session arrives.                   *)
LEMMA LoginCreatedPreserves ==
    ASSUME LoginInd, NEW q \in QRs, LoginCreated(q)
    PROVE  LoginInd'
<1> DEFINE r == [AbsentQr EXCEPT !.state = "pending"]
           task == [NoTask EXCEPT !.pc = IF budget.watch THEN "run" ELSE "ended"]
<1>1. /\ sse \in [QRs -> SseType] /\ \A p \in QRs : sse[p].out \in Seq(GoodEvents)
      /\ ev \in [QRs -> EvType] /\ UiOK(ui) /\ poll \in [once : PollType, loop : PollType]
      /\ PollOK(poll.once) /\ PollOK(poll.loop)
  BY ClientParts DEF LoginInd
<1>2. /\ Spend("qrs") /\ qr[q] = AbsentQr /\ qr' = [qr EXCEPT ![q] = r]
      /\ ui' = [ui EXCEPT !.state = "waiting", !.qr = q, !.working = FALSE]
      /\ ev' = [Cancelled(ev) EXCEPT ![q] = task]
      /\ UNCHANGED <<cb, rows, grant, dev, lo, sse, poll>>
  BY DEF LoginCreated, Unused, CreateFeishuLoginSession
<1>3. r \in QrType /\ r.state = "pending" /\ AbsentQr.state = "absent"
  BY DEF AbsentQr, QrType, MaybeSession
<1>4. Succeeds(qr[q], r)
  BY <1>2, <1>3 DEF Succeeds
<1>5. Spends
  BY <1>2, BudgetSpent DEF LoginInd, Numbers
<1>6. task \in EvType
  BY DEF NoTask, EvType
<1> HIDE DEF r, task
<1>7. ServerInd'
  BY <1>2, <1>3, <1>4, <1>5, OneQr, CallbacksStay DEF LoginInd
<1>8. UiOK(ui')
  BY <1>1, <1>2 DEF UiOK, UiType
<1>9. ev' \in [QRs -> EvType]
  <2>1. Cancelled(ev) \in [QRs -> EvType]
    BY <1>1, TasksOK
  <2> QED  BY <1>2, <1>6, <2>1
<1> QED  BY <1>1, <1>2, <1>7, <1>8, <1>9, ViewStep

(* An event reaches its task, is shown, or the task ends.                  *)
LEMMA EventArrivesPreserves ==
    ASSUME LoginInd, NEW q \in QRs, EventArrives(q)
    PROVE  LoginInd'
<1> DEFINE job == ToDomainState(Head(sse[q].out))
           r == [sse[q] EXCEPT !.out = Tail(sse[q].out)]
           task == [ev[q] EXCEPT !.job = job]
<1>1. /\ sse \in [QRs -> SseType] /\ \A p \in QRs : sse[p].out \in Seq(GoodEvents)
      /\ ev \in [QRs -> EvType] /\ UiOK(ui) /\ poll \in [once : PollType, loop : PollType]
      /\ PollOK(poll.once) /\ PollOK(poll.loop)
  BY ClientParts DEF LoginInd
<1>2. sse[q].out # <<>> /\ UNCHANGED <<serverVars, ui, poll, budget>>
  BY DEF EventArrives
<1>3. Head(sse[q].out) \in GoodEvents /\ Tail(sse[q].out) \in Seq(GoodEvents)
  BY <1>1, <1>2
<1>4. job \in Shows
  BY <1>3, EventIsShown
<1>5. Tail(sse[q].out) \in Seq(EventType)
  <2>1. sse[q].out \in Seq(EventType)
    BY <1>1 DEF SseType
  <2> QED  BY <1>2, <2>1
<1> HIDE DEF job
<1>6. r \in SseType /\ r.out \in Seq(GoodEvents) /\ task \in EvType
  BY <1>1, <1>3, <1>4, <1>5, ZenonT(60) DEF SseType, EvType
<1>7. sse' = [sse EXCEPT ![q] = r] /\ ev' = [ev EXCEPT ![q] = task]
  BY <1>1 DEF EventArrives, job
<1> HIDE DEF r, task
<1>8. sse' \in [QRs -> SseType] /\ (\A p \in QRs : sse'[p].out \in Seq(GoodEvents)) /\ ev' \in [QRs -> EvType]
  BY <1>1, <1>6, <1>7
<1>9. ServerInd'
  BY <1>2, ServerKept, BudgetStays DEF LoginInd
<1> QED  BY <1>1, <1>2, <1>8, <1>9, ViewStep

(* An event is applied to the view.                                        *)
LEMMA EventAppliesPreserves ==
    ASSUME LoginInd, NEW q \in QRs, EventApplies(q)
    PROVE  LoginInd'
<1> DEFINE job == ev[q].job
           task == [ev[q] EXCEPT !.job = NoReply]
<1>1. /\ sse \in [QRs -> SseType] /\ \A p \in QRs : sse[p].out \in Seq(GoodEvents)
      /\ ev \in [QRs -> EvType] /\ UiOK(ui) /\ poll \in [once : PollType, loop : PollType]
      /\ PollOK(poll.once) /\ PollOK(poll.loop)
  BY ClientParts DEF LoginInd
<1>2. job # NoReply /\ ui' = Shown(q, job) /\ UNCHANGED <<serverVars, sse, budget>>
      /\ poll' = [poll EXCEPT !.loop = LoopAfter(poll.loop, job)]
  BY DEF EventApplies
<1>3. ev' = TasksAfter([ev EXCEPT ![q] = task], job)
  BY <1>1 DEF EventApplies
<1>4. job \in Shows /\ task \in EvType
  BY <1>1, <1>2 DEF EvType
<1> HIDE DEF job, task
<1>5. UiOK(ui')
  BY <1>1, <1>2, <1>4, ShownOK
<1>6. ev' \in [QRs -> EvType]
  <2>1. [ev EXCEPT ![q] = task] \in [QRs -> EvType]
    BY <1>1, <1>4
  <2> QED  BY <1>3, <2>1, TasksOK
<1>7. PollOK(LoopAfter(poll.loop, job))
  BY <1>1, LoopOK
<1>8. poll' \in [once : PollType, loop : PollType] /\ PollOK(poll'.once) /\ PollOK(poll'.loop)
  BY <1>1, <1>2, <1>7, PollsReplaced
<1>9. ServerInd'
  BY <1>2, ServerKept, BudgetStays DEF LoginInd
<1> QED  BY <1>1, <1>2, <1>5, <1>6, <1>8, <1>9, ViewStep

(* The event task ends, and may fall back to polling.                      *)
LEMMA EventTaskEndsPreserves ==
    ASSUME LoginInd, NEW q \in QRs, EventTaskEnds(q)
    PROVE  LoginInd'
<1> DEFINE task == [ev[q] EXCEPT !.pc = "ended"]
           p == [qr |-> q, reply |-> NoReply]
<1>1. /\ sse \in [QRs -> SseType] /\ \A v \in QRs : sse[v].out \in Seq(GoodEvents)
      /\ ev \in [QRs -> EvType] /\ UiOK(ui) /\ poll \in [once : PollType, loop : PollType]
      /\ PollOK(poll.once) /\ PollOK(poll.loop)
  BY ClientParts DEF LoginInd
<1>2. /\ UNCHANGED <<serverVars, sse, ui, budget>>
      /\ poll' = [poll EXCEPT !.loop = p] \/ poll' = poll
  BY DEF EventTaskEnds
<1>3. task \in EvType /\ ev' = [ev EXCEPT ![q] = task]
  BY <1>1 DEF EventTaskEnds, EvType
<1>4. PollOK(p)
  BY DEF PollOK, PollType
<1> HIDE DEF task, p
<1>5. ev' \in [QRs -> EvType]
  BY <1>1, <1>3
<1>6. poll' \in [once : PollType, loop : PollType] /\ PollOK(poll'.once) /\ PollOK(poll'.loop)
  BY <1>1, <1>2, <1>4, PollsReplaced
<1>7. ServerInd'
  BY <1>2, ServerKept, BudgetStays DEF LoginInd
<1> QED  BY <1>1, <1>2, <1>5, <1>6, <1>7, ViewStep

(* A poll is asked.                                                        *)
LEMMA AskPreserves ==
    ASSUME LoginInd, PollOnce \/ PollAgain
    PROVE  LoginInd'
<1>1. /\ sse \in [QRs -> SseType] /\ \A v \in QRs : sse[v].out \in Seq(GoodEvents)
      /\ ev \in [QRs -> EvType] /\ UiOK(ui) /\ poll \in [once : PollType, loop : PollType]
      /\ PollOK(poll.once) /\ PollOK(poll.loop)
  BY ClientParts DEF LoginInd
<1>2. CASE PollOnce
  <2> DEFINE p == [qr |-> ui.qr, reply |-> Asked]
  <2>1. /\ Spend("refreshes") /\ ui.state = "waiting" /\ ui' = [ui EXCEPT !.working = TRUE]
        /\ poll' = [poll EXCEPT !.once = p] /\ UNCHANGED <<serverVars, sse, ev>>
    BY <1>2 DEF PollOnce
  <2>2. PollOK(p)
    BY <1>1, <2>1 DEF UiOK, PollOK, PollType
  <2> HIDE DEF p
  <2>3. UiOK(ui')
    BY <1>1, <2>1 DEF UiOK, UiType
  <2>4. poll' \in [once : PollType, loop : PollType] /\ PollOK(poll'.once) /\ PollOK(poll'.loop)
    BY <1>1, <2>1, <2>2, PollsReplaced
  <2>5. Spends
    BY <2>1, BudgetSpent DEF LoginInd, Numbers
  <2>6. ServerInd'
    BY <2>1, <2>5, ServerKept DEF LoginInd
  <2> QED  BY <1>1, <2>1, <2>3, <2>4, <2>6, ViewStep
<1>3. CASE PollAgain
  <2> DEFINE p == [poll.loop EXCEPT !.reply = Asked]
  <2>1. poll.loop.qr # NoQr /\ UNCHANGED <<serverVars, sse, ui, ev, budget>>
    BY <1>3 DEF PollAgain
  <2>2. poll' = [poll EXCEPT !.loop = p]
    BY <1>1, <1>3 DEF PollAgain
  <2>3. PollOK(p)
    BY <1>1, <2>1 DEF PollOK, PollType
  <2> HIDE DEF p
  <2>4. poll' \in [once : PollType, loop : PollType] /\ PollOK(poll'.once) /\ PollOK(poll'.loop)
    BY <1>1, <2>2, <2>3, PollsReplaced
  <2>5. ServerInd'
    BY <2>1, ServerKept, BudgetStays DEF LoginInd
  <2> QED  BY <1>1, <2>1, <2>4, <2>5, ViewStep
<1> QED  BY <1>2, <1>3

(* The status route answers a poll.                                        *)
LEMMA StatusPreserves ==
    ASSUME LoginInd, NEW kind \in {"once", "loop"}, FeishuLoginSessionStatus(kind)
    PROVE  LoginInd'
<1>1. /\ sse \in [QRs -> SseType] /\ \A v \in QRs : sse[v].out \in Seq(GoodEvents)
      /\ ev \in [QRs -> EvType] /\ UiOK(ui) /\ poll \in [once : PollType, loop : PollType]
      /\ PollOK(poll.once) /\ PollOK(poll.loop)
  BY ClientParts DEF LoginInd
<1>2. PollOK(poll[kind]) /\ poll[kind].reply = Asked
  BY <1>1 DEF FeishuLoginSessionStatus
<1>3. NoReply # Asked
  BY DEF NoReply, Asked
<1>4. PICK q \in QRs : q = poll[kind].qr
  BY <1>2, <1>3 DEF PollOK
<1>5. /\ qr[q].state # "absent" /\ Snapshot(q)
      /\ poll' = [poll EXCEPT ![kind].reply = ToDomainState(SessionStatusJson(qr'[q]))]
      /\ UNCHANGED <<cb, rows, grant, dev, lo, sse, ui, ev, budget>>
  BY <1>4 DEF FeishuLoginSessionStatus
<1>6. Spends
  BY <1>5, BudgetStays DEF LoginInd
<1>7. ServerInd' /\ qr'[q] \in QrType /\ qr'[q].state # "absent"
  BY <1>5, <1>6, SnapshotKeeps DEF LoginInd
<1>8. qr'[q].state = "authorized" => qr'[q].session \in Sessions
  BY <1>7 DEF ServerInd, QrOK
<1>9. PICK shown \in Shows : shown = ToDomainState(SessionStatusJson(qr'[q]))
  BY <1>7, <1>8, EventIsGood, EventIsShown
<1> DEFINE p == [poll[kind] EXCEPT !.reply = shown]
<1>10. PollOK(p)
  <2>1. poll[kind] \in PollType /\ poll[kind].qr \in QRs
    BY <1>2, <1>4 DEF PollOK
  <2> QED  BY <2>1 DEF PollOK, PollType
<1>11. poll' = [poll EXCEPT ![kind] = p]
  BY <1>1, <1>5, <1>9
<1> HIDE DEF p
<1>12. poll' \in [once : PollType, loop : PollType] /\ PollOK(poll'.once) /\ PollOK(poll'.loop)
  <2>1. CASE kind = "once"
    BY <1>1, <1>10, <1>11, <2>1, PollsReplaced
  <2>2. CASE kind = "loop"
    BY <1>1, <1>10, <1>11, <2>2, PollsReplaced
  <2> QED  BY <2>1, <2>2
<1> QED  BY <1>1, <1>5, <1>7, <1>12, ViewStep

(* A poll fails.                                                           *)
LEMMA PollFailsPreserves ==
    ASSUME LoginInd, NEW kind \in {"once", "loop"}, PollFails(kind)
    PROVE  LoginInd'
<1>1. /\ sse \in [QRs -> SseType] /\ \A v \in QRs : sse[v].out \in Seq(GoodEvents)
      /\ ev \in [QRs -> EvType] /\ UiOK(ui) /\ poll \in [once : PollType, loop : PollType]
      /\ PollOK(poll.once) /\ PollOK(poll.loop)
  BY ClientParts DEF LoginInd
<1>2. /\ UNCHANGED budget \/ Spend("faults")
      /\ UNCHANGED <<serverVars, sse, ev>>
  BY DEF PollFails
<1>3. Spends
  BY <1>2, BudgetStays, BudgetSpent DEF LoginInd, Numbers
<1>4. ServerInd'
  BY <1>2, <1>3, ServerKept DEF LoginInd
<1>5. UiOK(ui')
  BY <1>1 DEF PollFails, UiOK, UiType
<1>6. poll' \in [once : PollType, loop : PollType] /\ PollOK(poll'.once) /\ PollOK(poll'.loop)
  <2>1. CASE kind = "once"
    <3>1. poll' = [poll EXCEPT !.once = NoPoll]
      BY <2>1 DEF PollFails
    <3> QED  BY <1>1, <3>1, NoPollOK, PollsReplaced
  <2>2. CASE kind = "loop"
    <3> DEFINE p == [poll.loop EXCEPT !.reply = NoReply]
    <3>1. poll' = [poll EXCEPT !.loop = p]
      BY <2>2 DEF PollFails
    <3>2. PollOK(p)
      BY <1>1, Rested
    <3> HIDE DEF p
    <3> QED  BY <1>1, <3>1, <3>2, PollsReplaced
  <2> QED  BY <2>1, <2>2
<1> QED  BY <1>1, <1>2, <1>4, <1>5, <1>6, ViewStep

(* A poll's answer is shown.                                               *)
LEMMA PollAppliesPreserves ==
    ASSUME LoginInd, PollOnceApplies \/ PollLoopApplies
    PROVE  LoginInd'
<1>1. /\ sse \in [QRs -> SseType] /\ \A v \in QRs : sse[v].out \in Seq(GoodEvents)
      /\ ev \in [QRs -> EvType] /\ UiOK(ui) /\ poll \in [once : PollType, loop : PollType]
      /\ PollOK(poll.once) /\ PollOK(poll.loop)
  BY ClientParts DEF LoginInd
<1>2. ServerInd' /\ UNCHANGED sse
  BY ServerKept, BudgetStays DEF LoginInd, PollOnceApplies, PollLoopApplies
<1>3. ASSUME NEW p, PollOK(p), p.reply \notin {NoReply, Asked}
      PROVE  p.qr \in QRs /\ p.reply \in Shows
  BY <1>3 DEF PollOK, PollType
<1>4. CASE PollOnceApplies
  <2> DEFINE shown == Shown(poll.once.qr, poll.once.reply)
             loop == LoopAfter(poll.loop, poll.once.reply)
  <2>1. poll.once.reply \notin {NoReply, Asked}
    BY <1>4 DEF PollOnceApplies, Answered
  <2>2. UiOK(shown)
    BY <1>1, <1>3, <2>1, ShownOK
  <2>3. PollOK(loop)
    BY <1>1, LoopOK
  <2>4. /\ ui' = [shown EXCEPT !.working = FALSE] /\ poll' = [once |-> NoPoll, loop |-> loop]
        /\ ev' = TasksAfter(ev, poll.once.reply)
    BY <1>4 DEF PollOnceApplies
  <2> HIDE DEF shown, loop
  <2>5. UiOK(ui')
    BY <2>2, <2>4 DEF UiOK, UiType
  <2>6. poll' \in [once : PollType, loop : PollType] /\ PollOK(poll'.once) /\ PollOK(poll'.loop)
    <3>1. loop \in PollType /\ NoPoll \in PollType
      BY <2>3, NoPollOK DEF PollOK
    <3> QED  BY <2>3, <2>4, <3>1, NoPollOK
  <2>7. ev' \in [QRs -> EvType]
    BY <1>1, <2>4, TasksOK
  <2> QED  BY <1>1, <1>2, <2>5, <2>6, <2>7, ViewStep
<1>5. CASE PollLoopApplies
  <2> DEFINE rested == [poll.loop EXCEPT !.reply = NoReply]
  <2>1. poll.loop.reply \notin {NoReply, Asked}
    BY <1>5 DEF PollLoopApplies, Answered
  <2>2. PollOK(rested)
    BY <1>1, Rested
  <2>3. CASE Waiting(poll.loop.qr)
    <3>1. /\ ui' = Shown(poll.loop.qr, poll.loop.reply) /\ ev' = TasksAfter(ev, poll.loop.reply)
          /\ poll' = [poll EXCEPT !.loop = LoopAfter(rested, poll.loop.reply)]
      BY <1>5, <2>3 DEF PollLoopApplies
    <3> HIDE DEF rested
    <3>2. UiOK(ui')
      BY <1>1, <1>3, <2>1, <3>1, ShownOK
    <3>3. ev' \in [QRs -> EvType]
      BY <1>1, <3>1, TasksOK
    <3>4. PollOK(LoopAfter(rested, poll.loop.reply))
      BY <2>2, LoopOK
    <3>5. poll' \in [once : PollType, loop : PollType] /\ PollOK(poll'.once) /\ PollOK(poll'.loop)
      BY <1>1, <3>1, <3>4, PollsReplaced
    <3> QED  BY <1>1, <1>2, <3>2, <3>3, <3>5, ViewStep
  <2>4. CASE ~ Waiting(poll.loop.qr)
    <3>1. UNCHANGED <<ui, ev>> /\ poll' = [poll EXCEPT !.loop = rested]
      BY <1>1, <1>5, <2>4 DEF PollLoopApplies
    <3> HIDE DEF rested
    <3>2. poll' \in [once : PollType, loop : PollType] /\ PollOK(poll'.once) /\ PollOK(poll'.loop)
      BY <1>1, <2>2, <3>1, PollsReplaced
    <3> QED  BY <1>1, <1>2, <3>1, <3>2, ViewStep
  <2> QED  BY <2>3, <2>4
<1> QED  BY <1>4, <1>5

-----------------------------------------------------------------------------
(* The invariant holds when nobody has logged in.                          *)
LEMMA InitLogin == Init => LoginInd
<1> SUFFICES ASSUME Init PROVE LoginInd
  OBVIOUS
<1>1. /\ AbsentQr \in QrType /\ AbsentQr.state = "absent"
      /\ NoTx \in LoType /\ NoTx.pc = "none"
  BY DEF AbsentQr, QrType, MaybeSession, NoTx, LoType
<1>2. Idle \in CbType /\ Idle.pc = "idle" /\ ~ Idle.inserted
  BY DEF Idle, CbType, MaybeSession
<1>3. <<>> \in Seq(EventType) /\ <<>> \in Seq(GoodEvents)
  OBVIOUS
<1>4. NoStream \in SseType /\ NoStream.out = <<>>
  BY <1>3 DEF NoStream, SseType
<1>5. NoTask \in EvType
  BY DEF NoTask, EvType
<1>6. ServerTypes
  BY <1>1, <1>2, LoginConfig DEF Init, ServerTypes
<1>7. \A q \in QRs : QrOK(q)
  BY <1>1 DEF Init, QrOK
<1>8. \A c \in Callbacks : OnTime(c) /\ Progress(c)
  BY <1>2 DEF Init, OnTime, Live, Progress
<1>9. \A s \in Sessions : LogoutOK(s)
  BY <1>1 DEF Init, LogoutOK, Holding
<1>10. LastDeviceRevokesGrant /\ (grant.state # "none" => grant.by \in Callbacks)
  BY DEF Init, LastDeviceRevokesGrant
<1>11. UiOK(ui)
  BY DEF Init, UiOK, UiType, MaybeSession
<1>12. poll \in [once : PollType, loop : PollType] /\ PollOK(poll.once) /\ PollOK(poll.loop)
  <2>1. NoPoll \in PollType
    BY NoPollOK DEF PollOK
  <2> QED  BY <2>1, NoPollOK DEF Init
<1>13. ClientInd
  BY <1>3, <1>4, <1>5, <1>11, <1>12, ClientParts DEF Init
<1> QED  BY <1>6, <1>7, <1>8, <1>9, <1>10, <1>13 DEF LoginInd, ServerInd

(* Every step keeps the invariant.                                         *)
LEMMA NextLogin == LoginInd /\ [Next]_vars => LoginInd'
<1> SUFFICES ASSUME LoginInd, [Next]_vars PROVE LoginInd'
  OBVIOUS
<1>1. ASSUME NEW c \in Callbacks,
             \/ \E q \in QRs : CallbackError(c, q) \/ CallbackCode(c, q)
             \/ Exchange(c) \/ PersistStage(c) \/ PersistFails(c) \/ Finish(c)
      PROVE  LoginInd'
  BY <1>1, CallbackErrorPreserves, CallbackCodePreserves, ExchangePreserves,
     PersistStagePreserves, PersistFailsPreserves, FinishPreserves
<1>2. ASSUME NEW s \in Sessions,
             Logout(s) \/ LogoutLocks(s) \/ LogoutRevokes(s) \/ LogoutCommits(s) \/ LogoutFails(s)
      PROVE  LoginInd'
  BY <1>2, LogoutPreserves, LogoutLocksPreserves, LogoutRevokesPreserves,
     LogoutCommitsPreserves, LogoutFailsPreserves
<1>3. ASSUME NEW q \in QRs,
             \/ PassDeadline(q) \/ LoginCreated(q)
             \/ StreamOpens(q) \/ StreamChecks(q) \/ StreamWakes(q) \/ StreamKeepalive(q)
             \/ StreamBreaks(q) \/ StreamNotFound(q)
             \/ EventArrives(q) \/ EventApplies(q) \/ EventTaskEnds(q)
      PROVE  LoginInd'
  BY <1>3, PassDeadlinePreserves, LoginCreatedPreserves, StreamPreserves, StreamEndPreserves,
     EventArrivesPreserves, EventAppliesPreserves, EventTaskEndsPreserves
<1>4. ASSUME NEW kind \in {"once", "loop"}, FeishuLoginSessionStatus(kind) \/ PollFails(kind)
      PROVE  LoginInd'
  BY <1>4, StatusPreserves, PollFailsPreserves
<1>5. CASE \/ StartFeishuLogin \/ LoginNotCreated \/ CancelLogin
           \/ PollOnce \/ PollAgain \/ PollOnceApplies \/ PollLoopApplies \/ Restart
  BY <1>5, BeginPreserves, AskPreserves, PollAppliesPreserves, RestartPreserves
<1>6. CASE UNCHANGED vars
  BY <1>6, ServerKept, BudgetStays, ClientKept DEF vars, LoginInd
<1> QED  BY <1>1, <1>2, <1>3, <1>4, <1>5, <1>6 DEF Next

-----------------------------------------------------------------------------
(* The invariant holds in every reachable state.                           *)
THEOREM LoginInvariant == Spec => []LoginInd
BY InitLogin, NextLogin, PTL DEF Spec

(* Whatever callbacks, logouts, restarts and faults overlap, a login that  *)
(* is shown as authorized has its rows, grant and device session stored    *)
(* (callback, persist_login).                                              *)
THEOREM LoginsAreStored == Spec => []LoginInv
<1>1. LoginInd => LoginInv
  BY DEF LoginInd, ServerInd, ServerTypes, ClientInd, LoginInv, LoginTypeOK, AuthorizedIsStored,
         QrOK, FullyStored
<1> QED  BY <1>1, LoginInvariant, PTL

(* No interleaving of logouts with each other, with logins and with        *)
(* restarts leaves a grant usable after the last device signed out.        *)
THEOREM LastLogoutRevokes == Spec => []LastDeviceRevokesGrant
<1>1. LoginInd => LastDeviceRevokesGrant
  BY DEF LoginInd, ServerInd
<1> QED  BY <1>1, LoginInvariant, PTL


-----------------------------------------------------------------------------
(* What is over stays over.                                                *)
DevicesStayOut == \A s \in Sessions : dev[s] = "revoked" => dev'[s] = "revoked"
NoneAuthorized == \A q \in QRs : qr'[q].state = "authorized" => qr[q].state = "authorized"

(* One login session is replaced, by one that is authorized only if it     *)
(* was.                                                                    *)
LEMMA NotAuthorized ==
    ASSUME ServerTypes, NEW q \in QRs, NEW r \in QrType, qr' = [qr EXCEPT ![q] = r],
           r.state = "authorized" => qr[q].state = "authorized"
    PROVE  NoneAuthorized
BY DEF ServerTypes, NoneAuthorized

(* Looking at a login session authorizes none.                             *)
LEMMA LookingAuthorizesNone ==
    ASSUME ServerTypes, NEW q \in QRs, qr' = [qr EXCEPT ![q] = ExpireSessionIfNeeded(qr[q])]
    PROVE  NoneAuthorized
<1> DEFINE r == ExpireSessionIfNeeded(qr[q])
<1>1. r \in QrType /\ (r = qr[q] \/ r.state = "expired")
  BY ExpiredQr DEF ServerTypes
<1>2. r.state = "authorized" => qr[q].state = "authorized"
  BY <1>1
<1>3. qr' = [qr EXCEPT ![q] = r]
  OBVIOUS
<1> HIDE DEF r
<1> QED  BY <1>1, <1>2, <1>3, NotAuthorized

(* Nor does denying one.                                                   *)
LEMMA DenyingAuthorizesNone ==
    ASSUME ServerTypes, NEW q \in QRs, qr' = [qr EXCEPT ![q] = Denied(qr[q])]
    PROVE  NoneAuthorized
<1> DEFINE r == Denied(qr[q])
<1>1. r \in QrType /\ r.state # "authorized"
  BY DeniedQr DEF ServerTypes
<1>2. qr' = [qr EXCEPT ![q] = r]
  OBVIOUS
<1> HIDE DEF r
<1> QED  BY <1>1, <1>2, NotAuthorized

(* Nor does a callback that fails.                                         *)
LEMMA FailingAuthorizesNone ==
    ASSUME LoginInd, NEW c \in Callbacks, Live(c), FailCallback(c)
    PROVE  NoneAuthorized
<1>1. ServerTypes /\ cb[c].qr \in QRs
  BY DEF LoginInd, ServerInd, OnTime
<1> QED  BY <1>1, DenyingAuthorizesNone DEF FailCallback

(* Only a callback that finishes authorizes a login session, its own.      *)
LEMMA OnlyFinishAuthorizes ==
    ASSUME LoginInd, [Next]_vars
    PROVE  NoneAuthorized \/ \E c \in Callbacks : Finish(c)
<1>1. ServerTypes
  BY DEF LoginInd, ServerInd
<1>2. UNCHANGED qr => NoneAuthorized
  BY DEF NoneAuthorized
<1>3. ASSUME NEW q \in QRs, Snapshot(q)
      PROVE  NoneAuthorized
  BY <1>1, <1>3, LookingAuthorizesNone DEF Snapshot
<1>4. ASSUME NEW c \in Callbacks, NEW q \in QRs, CallbackError(c, q) \/ CallbackCode(c, q)
      PROVE  NoneAuthorized
  BY <1>1, <1>4, LookingAuthorizesNone, DenyingAuthorizesNone DEF CallbackError, CallbackCode
<1>5. ASSUME NEW c \in Callbacks, Exchange(c) \/ PersistStage(c) \/ PersistFails(c)
      PROVE  NoneAuthorized
  BY <1>2, <1>5, FailingAuthorizesNone DEF Exchange, PersistStage, PersistFails, Live
<1>6. ASSUME NEW s \in Sessions,
             Logout(s) \/ LogoutLocks(s) \/ LogoutRevokes(s) \/ LogoutCommits(s) \/ LogoutFails(s)
      PROVE  NoneAuthorized
  BY <1>2, <1>6 DEF Logout, LogoutLocks, LogoutRevokes, LogoutCommits, LogoutFails
<1>7. ASSUME NEW q \in QRs, PassDeadline(q) \/ LoginCreated(q)
      PROVE  NoneAuthorized
  <2>1. CASE PassDeadline(q)
    <3> DEFINE r == [qr[q] EXCEPT !.overdue = TRUE]
    <3>1. qr[q] \in QrType
      BY <1>1 DEF ServerTypes
    <3>2. r \in QrType /\ r.state = qr[q].state
      BY <3>1 DEF QrType
    <3>3. qr' = [qr EXCEPT ![q] = r]
      BY <1>1, <2>1 DEF PassDeadline, ServerTypes
    <3> HIDE DEF r
    <3> QED  BY <1>1, <3>2, <3>3, NotAuthorized
  <2>2. CASE LoginCreated(q)
    <3> DEFINE r == [AbsentQr EXCEPT !.state = "pending"]
    <3>1. r \in QrType /\ r.state = "pending"
      BY DEF AbsentQr, QrType, MaybeSession
    <3>2. qr' = [qr EXCEPT ![q] = r]
      BY <2>2 DEF LoginCreated, CreateFeishuLoginSession
    <3> HIDE DEF r
    <3> QED  BY <1>1, <3>1, <3>2, NotAuthorized
  <2> QED  BY <1>7, <2>1, <2>2
<1>8. ASSUME NEW q \in QRs,
             \/ StreamOpens(q) \/ StreamChecks(q) \/ StreamWakes(q) \/ StreamKeepalive(q)
             \/ StreamBreaks(q) \/ StreamNotFound(q)
             \/ EventArrives(q) \/ EventApplies(q) \/ EventTaskEnds(q)
      PROVE  NoneAuthorized
  <2>1. Snapshot(q) \/ UNCHANGED qr
    BY <1>8 DEF StreamOpens, StreamChecks, StreamWakes, StreamKeepalive, StreamBreaks,
                StreamNotFound, EventArrives, EventApplies, EventTaskEnds, serverVars
  <2> QED  BY <1>2, <1>3, <2>1
<1>9. ASSUME NEW kind \in {"once", "loop"}, FeishuLoginSessionStatus(kind) \/ PollFails(kind)
      PROVE  NoneAuthorized
  <2>1. CASE FeishuLoginSessionStatus(kind)
    <3>1. poll[kind].qr \in QRs
      <4>1. Asked # NoReply
        BY DEF Asked, NoReply
      <4>2. CASE kind = "once"
        BY <2>1, <4>1, <4>2 DEF FeishuLoginSessionStatus, LoginInd, ClientInd
      <4>3. CASE kind = "loop"
        BY <2>1, <4>1, <4>3 DEF FeishuLoginSessionStatus, LoginInd, ClientInd
      <4> QED  BY <4>2, <4>3
    <3>2. Snapshot(poll[kind].qr)
      BY <2>1 DEF FeishuLoginSessionStatus
    <3> QED  BY <1>3, <3>1, <3>2
  <2>2. CASE PollFails(kind)
    BY <1>2, <2>2 DEF PollFails, serverVars
  <2> QED  BY <1>9, <2>1, <2>2
<1>10. CASE \/ StartFeishuLogin \/ LoginNotCreated \/ CancelLogin
            \/ PollOnce \/ PollAgain \/ PollOnceApplies \/ PollLoopApplies
  BY <1>2, <1>10 DEF StartFeishuLogin, LoginNotCreated, CancelLogin, PollOnce, PollAgain,
                     PollOnceApplies, PollLoopApplies, serverVars
<1>11. CASE Restart
  BY <1>11 DEF Restart, AbsentQr, NoneAuthorized
<1>12. CASE UNCHANGED vars
  BY <1>2, <1>12 DEF vars, serverVars
<1> QED  BY <1>4, <1>5, <1>6, <1>7, <1>8, <1>9, <1>10, <1>11, <1>12 DEF Next

(* No step brings back a device session that signed out: the upsert of a   *)
(* callback leaves a row that exists alone.                                *)
LEMMA OutStaysOut ==
    ASSUME LoginInd, [Next]_vars
    PROVE  DevicesStayOut
<1>1. dev \in [Sessions -> {"absent", "active", "revoked"}]
  BY DEF LoginInd, ServerInd, ServerTypes
<1>2. CASE UNCHANGED dev
  BY <1>2 DEF DevicesStayOut
<1>3. ASSUME NEW c \in Callbacks, PersistStage(c)
      PROVE  DevicesStayOut
  <2>1. PICK s : s = cb[c].session
    OBVIOUS
  <2>2. dev' = dev \/ dev' = UpsertDeviceSession(s)
    BY <1>3, <2>1 DEF PersistStage
  <2> QED  BY <1>1, <1>2, <2>2 DEF UpsertDeviceSession, DevicesStayOut
<1>4. ASSUME NEW s \in Sessions, LogoutCommits(s)
      PROVE  DevicesStayOut
  BY <1>1, <1>4 DEF LogoutCommits, RevokeDeviceSession, DevicesStayOut
<1>5. ASSUME NEW c \in Callbacks,
             \/ \E q \in QRs : CallbackError(c, q) \/ CallbackCode(c, q)
             \/ Exchange(c) \/ PersistFails(c) \/ Finish(c)
      PROVE  DevicesStayOut
  BY <1>2, <1>5 DEF CallbackError, CallbackCode, Exchange, PersistFails, Finish
<1>6. ASSUME NEW s \in Sessions, Logout(s) \/ LogoutLocks(s) \/ LogoutRevokes(s) \/ LogoutFails(s)
      PROVE  DevicesStayOut
  BY <1>2, <1>6 DEF Logout, LogoutLocks, LogoutRevokes, LogoutFails
<1>7. ASSUME NEW q \in QRs,
             \/ PassDeadline(q) \/ LoginCreated(q)
             \/ StreamOpens(q) \/ StreamChecks(q) \/ StreamWakes(q) \/ StreamKeepalive(q)
             \/ StreamBreaks(q) \/ StreamNotFound(q)
             \/ EventArrives(q) \/ EventApplies(q) \/ EventTaskEnds(q)
      PROVE  DevicesStayOut
  <2>1. UNCHANGED dev
    BY <1>7 DEF PassDeadline, LoginCreated, StreamOpens, StreamChecks, StreamWakes,
                StreamKeepalive, StreamBreaks, StreamNotFound, EventArrives, EventApplies,
                EventTaskEnds, serverVars
  <2> QED  BY <1>2, <2>1
<1>8. ASSUME NEW kind \in {"once", "loop"}, FeishuLoginSessionStatus(kind) \/ PollFails(kind)
      PROVE  DevicesStayOut
  BY <1>2, <1>8 DEF FeishuLoginSessionStatus, PollFails, serverVars
<1>9. CASE \/ StartFeishuLogin \/ LoginNotCreated \/ CancelLogin
           \/ PollOnce \/ PollAgain \/ PollOnceApplies \/ PollLoopApplies \/ Restart
  BY <1>2, <1>9 DEF StartFeishuLogin, LoginNotCreated, CancelLogin, PollOnce, PollAgain,
                    PollOnceApplies, PollLoopApplies, Restart, serverVars
<1>10. CASE UNCHANGED vars
  BY <1>2, <1>10 DEF vars, serverVars
<1> QED  BY <1>3, <1>4, <1>5, <1>6, <1>7, <1>8, <1>9, <1>10 DEF Next

(* A login session that was denied or expired is authorized only by a      *)
(* callback that began before that, whose exchange was under way           *)
(* (callback_finish); and a session that signed out stays so, whatever     *)
(* callbacks are repeated (upsert_device_session).                         *)
THEOREM NothingRevives == Spec => OverStaysOver
<1>1. LoginInd /\ [Next]_vars =>
        [/\ \A s \in Sessions : dev[s] = "revoked" => dev'[s] = "revoked"
         /\ \A q \in QRs : qr[q].state \in {"denied", "expired"} /\ qr'[q].state = "authorized" =>
              \E c \in Callbacks : cb[c].qr = q /\ cb[c].began < qr[q].version]_vars
  <2> SUFFICES ASSUME LoginInd, [Next]_vars
               PROVE  /\ \A s \in Sessions : dev[s] = "revoked" => dev'[s] = "revoked"
                      /\ \A q \in QRs :
                           qr[q].state \in {"denied", "expired"} /\ qr'[q].state = "authorized" =>
                             \E c \in Callbacks : cb[c].qr = q /\ cb[c].began < qr[q].version
    OBVIOUS
  <2>1. \A s \in Sessions : dev[s] = "revoked" => dev'[s] = "revoked"
    BY OutStaysOut DEF DevicesStayOut
  <2>2. ASSUME NEW q \in QRs, qr[q].state \in {"denied", "expired"}, qr'[q].state = "authorized"
        PROVE  \E c \in Callbacks : cb[c].qr = q /\ cb[c].began < qr[q].version
    <3>1. PICK c \in Callbacks : Finish(c)
      BY <2>2, OnlyFinishAuthorizes DEF NoneAuthorized
    <3>2. Live(c) /\ OnTime(c)
      BY <3>1 DEF Finish, Live, LoginInd, ServerInd
    <3>3. cb[c].qr \in QRs /\ qr \in [QRs -> QrType]
      BY <3>2 DEF OnTime, LoginInd, ServerInd, ServerTypes
    <3>4. cb[c].qr = q
      BY <2>2, <3>1, <3>3 DEF Finish
    <3> QED  BY <2>2, <3>2, <3>4 DEF OnTime
  <2> QED  BY <2>1, <2>2
<1> QED  BY <1>1, LoginInvariant, PTL DEF Spec, OverStaysOver

=============================================================================
