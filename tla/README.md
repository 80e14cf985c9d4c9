# OAR: a TLA+ model of the review, execution, login and agent core

OAR proposes changes to Feishu (Lark) objectives, has a person decide each proposal in a review
inbox, executes what was confirmed through a platform adapter, and keeps an append-only audit
log that is forwarded through an outbox. Around this core a facade logs the user in, keeps the
Feishu grant fresh, runs a maintenance daemon and lets the user chat with an agent that reads Feishu
live. The rules that must not break are: nothing is written without the confirmation of its own
actor, nothing is written twice, everything that was done can be found in the audit log, and nothing
is read or sent beyond what the user allowed. This project models the code those rules rest on, checks
it with TLC and proves with TLAPS every safety property the runs check.

## 1. Inventory

| Component | State | Operations | Hard behaviour |
|---|---|---|---|
| Action executor (`action/postgres_executor.rs`, `repository_sqlx/action_execution/`) | `confirmed_actions`, `operation_ledger`, `audit_events`, `audit_outbox`; a local trace per call | confirm, dry run, acquire (`confirmed -> executing`), execute, record | several workers on one row; death between the call and its record; a write whose answer is an error; lost commits |
| Confirmed-action worker (`action/postgres_execution_worker.rs`) | a batch | list the oldest confirmed rows, execute them one by one; only tests call it, nothing schedules it | stale batch, head-of-line blocking |
| Review decision (`oar-http-facade/review_inbox_routes/decision.rs`, `action_execution/review_decision.rs`) | `proposed_action_decisions`, `review_inbox_items`, the sync cursor sequence | read context, check, record decision | the context is read outside the recording transaction; two devices; two users |
| Review inbox snapshot and client view (`review_inbox_routes.rs`, `review_inbox_sql/`, `ReviewInboxViewModel.swift`) | items, the snapshot a device shows, its load counter | load, reload, decide, apply an answer | a snapshot read in two queries; overlapping loads; a decision on an item that has changed |
| Audit outbox worker (`storage/postgres/audit_outbox_worker.rs`, `oar-lark-adapter/audit_outbox/`) | `audit_outbox` | claim under a lease, deliver, mark | a delivery longer than its lease, stale marks, attempts at the limit |
| Operational recovery (`repository_sqlx/operational_recovery/`) | ledger, outbox, grants | report, requeue an envelope, resume a paused refresh | two recoveries of one failure; replays |
| Scheduler (`repository_sqlx/scheduler.rs`, `token_refresh_scheduler.rs`) | `scheduler_jobs` | insert if missing, claim under a lease, complete, fail | a run longer than its lease |
| Token refresh (`domain/token_refresh/`, `repository_sqlx/token_refresh.rs`) | `token_grants` | list due grants, refresh at Feishu, rotate / pause / require reauthorization | single-use refresh tokens, compare-and-set on the fingerprint, death between refresh and rotation |
| Tenant maintenance and runtime (`tenant_maintenance.rs`, `oar-runtime`, the daemon of the facade) | loop state, counters, stage status | read the environment, discover tenants, run both stages, shut down | one stage or tenant failing, a panic, shutdown during a slow round |
| Feishu login and sessions (`feishu_auth`, `session_auth.rs`, `identity/`, `AuthViewModel.swift`) | login states, identities, sessions, grants, what the client shows | begin, callback, event stream, polling, logout | replayed callbacks, five separate upserts, lazy expiry, broken streams, last-device rule |
| Agent model settings (`agent_routes/`, `agent/settings/`, `AgentSettingsViewModel.swift`) | one row, the form of every sheet | load, detect, save, clear | a key reused for another host; saves that overlap; a row replaced by another device |
| Agent chat (`agent/`, `agent/live_context/`, `AgentSidecar*.swift`, `AgentProvider.swift`) | the turn, the live read, the thread, the frames under way | plan reads, open a session on the grant, read, stream the answer | the grant changes during the turn; failing reads; limits that cut a summary; streams that break |
| Capability registry (`action/capability.rs`) | none | scopes and modes of action types | none |
| Lark read clients and reference parsers (`oar-lark-adapter`) | none | sequences of endpoints, mapping of answers, references | a failure in the middle of an operation |
| Execution policy, in-memory executor, device cursor, JSON parsers, encryption, Swift views | see section 5 | | |

The components meet in Postgres. The decision recorder inserts the decision, the ledger row, the
item state, the event and its envelope in one transaction; the executor's recorder moves ledger row,
linked inbox item, event and envelope in one transaction; the outbox worker drains the envelopes;
recovery reopens failed ones; login, logout, sweeps and live reads write the same grant row. No lock
is held across a call to Feishu, to the model service or to the audit sink.

What makes each component correct:

- executor: at most one adapter call per confirmed action, none before a committed dry run and
  transition, ledger and audit log in step, a success that is real;
- decision: an acknowledged decision is recorded and kept, a ledger row exists only by the decision
  of its own actor, an inbox item shows only its own user's decision, every change raises a cursor;
- inbox: what a user decides is what is stored, and a late answer does not take the screen back;
- outbox: an unexpired claim is exclusive, a late mark settles nothing, a settled envelope is
  reopened only by a confirmed recovery and once per failure;
- lease: an unexpired lease is exclusive, only its holder gives it back, the job always comes due;
- grants: a late answer revives and overwrites nothing, an undisturbed rotation is stored, no sweep
  lifts a pause that it could see when it listed the grant;
- maintenance: one tenant's or one stage's failure does not stop the others, the health status is
  true, and nothing outlives the server;
- login: what is shown as authorized is stored, what is over stays over, the last device takes the
  grant, and every watcher learns the end;
- settings: a key goes only to the host it was typed for, and the stored setting works;
- chat: reads stay within the scopes of the token used, every planned read is answered for, a summary
  that looks complete is complete, a reply that looks whole is whole, and the model was told of every read
  the user is shown.

## 2. Modules

| Module | Models | Builds on |
|---|---|---|
| `OarStore` | the tables the core shares, and the statements every transaction is made of: ledger transitions, append of an audit event with its envelope, the item projection of a ledger row | |
| `ActionExecution` | `PostgresActionExecutor::execute_confirmed_request`, its policy variant, and `PostgresConfirmedActionWorker::drain_once` | `OarStore` |
| `ExecutionPromise` | abstract: a confirmed action is granted once, performed at most once by whoever holds the right, and settled only when performed | |
| `ReviewDecision` | the decision route and `record_review_decision`, raced by devices, users and item upserts | `OarStore` |
| `ReviewPipeline` | `ReviewDecision` and `ActionExecution` on the same tables, actions reaching the executor through `drain_once` | both |
| `InboxSync` | snapshot in two reads, the view model with overlapping loads and submissions | `ReviewDecision` |
| `AuditOutbox` | the outbox worker's claim, deliver and mark, and the confirmed requeue | |
| `SchedulerLease` | `PostgresTokenRefreshScheduledSweep::run_once` around its sweep, and the `scheduler_jobs` statements | |
| `TokenRefresh` | the sweep itself, live reads, login, logout and resume as writers of `token_grants` | `SchedulerLease` |
| `TenantMaintenance` | environment and validation, the round over the tenants, both stages, status, panic and shutdown | |
| `LoginSession` | login sessions, callback, event stream, status route, the client's view model, logout | |
| `AgentSettings` | the settings sheets, four handlers, the row, detection of the protocol, reuse of a saved key | |
| `Capabilities` | the capability matrix and what derives from it | |
| `Sublists` | what loops with a condition collect from a list, without recursion | |
| `SourceRefs` | the parsers of evidence references | |
| `ReadPlan` | which tools the words of a message select, which references are read | `Capabilities`, `SourceRefs`, `Sublists` |
| `LarkReads` | endpoints of each client operation in order, and what an answer becomes | `Sublists` |
| `SummaryText` | the parts of a summary and what a cut leaves of them; lists read page by page | `Sublists` |
| `OkrRead` | coverage of the OKR topology and of its summaries under the limits | `SummaryText` |
| `LiveRead` | session on the grant, refresh, gating by scope, every read, the statuses | `ReadPlan`, `LarkReads`, `OkrRead` |
| `AgentTurn` | the turn: sidecar, stream handler, choice of the provider, frames, what the client shows | `LiveRead` |
| `ActionExecutionProofs`, `AuditOutboxProofs`, `TokenRefreshProofs`, `TenantMaintenanceProofs`, `LoginSessionProofs`, `AgentSettingsProofs`, `AgentTurnProofs` | theorems; `TokenRefreshProofs` holds those of `SchedulerLease` too, `AgentTurnProofs` those of `LiveRead` | the module named |
| `ReviewProofs` | theorems about `ReviewPipeline` and `InboxSync` | both, and `ActionExecutionProofs` |

Each `MC*` module gives model values, symmetry sets and the functions a cfg needs, and nothing else.
Operators called `Mutant` in a comment are single plausible bugs of the definition after them; no
specification uses them.

### How state and actions correspond to the code

*Rows.* A table is a function from its key to a record of the columns some statement reads. An
operation is its idempotency key, a pair of proposed action and decision kind; a payload is a model
value. An audit event is `<<trace, sequence, kind>>`, because the pair (trace, sequence) is the
primary key that makes a replayed transaction fail. An outbox message is the event it carries.

*Transactions.* One transaction is one action. Every statement in it is in that action: the ledger
transition, the event, its envelope and the item projection of `record_*` happen together or not at
all. A duplicate (`ON CONFLICT DO NOTHING`, or a guarded update that matches no row) is a disjunct
with the code's own outcome. Statements that are not in one transaction, such as the five upserts of
a login callback, the two reads of a snapshot and the two reads of the grant by a live read, are
steps of their own.

*Calls.* `pc` (`ActionExecution`), `at` and `call` (`SchedulerLease`, `TokenRefresh`), `task`
(`TenantMaintenance`), `live.step` and `turn.step` (`LiveRead`, `AgentTurn`), and the phase of a
device or a worker elsewhere name the next call an actor makes. The locals that survive an
`await`, such as a context that was read, a batch, a lease or a snapshot, are variables, so they go
stale in the model when they do in the code.

*Client.* The Swift view models are modelled where their state meets the server's: a request, its
answer and the guard under which the answer is applied (`latestLoadRequestID`, the input a
detection was made for, the observed QR code, the message that is streaming) are actions of the same module as
the route.

*Text.* A message is the set of word classes it contains, a reference its form and its components, a
base URL its host and path, an answer of a service its status class. The word lists of the selectors
are these classes; their spelling is left out. A live summary is the list of its parts, each with what it
says and how long it is: counts, examples, a note of what is left out. `finalize_summary` cuts the text at
`LIVE_SUMMARY_CHAR_LIMIT` characters, and a part that is cut off says nothing. Afterwards, for the prompt and
for the client, a summary with a sensitive word becomes one text that says only that (`safe_prompt_context_text`);
`feishu.secret` names the tools whose titles hold such a word, and `alike` makes summaries of references equal.

*Outside.* Feishu, the model service and the audit sink are modelled by what the code can see of them:
a call takes effect or not, and its answer says so or not. Feishu may or may not invalidate the token a
rotation was for.

*Faults.* In the core the process dies between any two calls, a repository call fails before its
commit, and a commit's answer is lost; each spends one of `MaxFaults`. `LoginSession` has broken
connections, failing upserts and a restart of the facade, which loses the login sessions in memory;
`TenantMaintenance` a panic of the task and a listener that fails; `InboxSync`, `AgentSettings` and
`AgentTurn` requests and streams that fail at any step.

*Time.* `AuditOutbox` and `SchedulerLease` have one clock, read at the places where the code reads
it; instances share it. Delays are small numbers whose order is that of the configuration. Tokens
age by a flag, `near`: within the lookahead of the sweep, which by default (300 000 ms) equals
the skew of a live read. A login session is `overdue` from some moment on and is expired by whoever
looks next, as the code does.

### Assumptions of the abstraction

- `sent_at` is set exactly when the status is `sent`; the model keeps the status.
- One confirmed requeue names one envelope. The rows that announce a recovery are among the modelled
  rows or not (`EnvelopesOf`); those that are not would only compete for the batch limit.
- No code writes the grant state `expired`, and a login without refresh material is refused, so
  neither occurs. The short circuit of `refresh_grant_with_audit` is unreachable from its two
  callers, which pick only grants that need a refresh.
- A live session starts at most one refresh per reading of the clock (see the hazard on
  `grant.rs:158`).
- `upsert_job` of the scheduler has no caller outside tests; it is an action of `SchedulerLease`,
  bounded by `MaxAttempts`, and none of `TokenRefresh`.
- Which requests the policy denies is left open: any may be.
- In `TokenRefresh` a login that was not stored is dropped when the user logs in again; two logins of
  one user are not stored in the opposite order of their exchange. `LoginSession` lets them be.
- `LoginSession` is one user of one tenant. `InboxSync` gives a device one decision under way at a
  time, as the view model's `isSubmittingDecision` does, and up to `MaxLoads` loads.
- `AgentTurn` handles the turns of one conversation one after the other, as the sidecar does.
- A page of tasks or meeting notes that is not the last says `has_more`, with or without a token. The number of
  meeting notes a summary prints may be the `total` Feishu reports; the model counts the notes read.
- In `AgentSettings` an endpoint answers at the URL it is asked at. The HTTP client has no redirect policy of its own
  (`provider_config.rs:89-94`), so it follows redirects, and a header such as `x-api-key` may go with them to
  another host; `KeyStaysWithItsHost` is about the URLs the code itself builds.

## 3. Runs

| Run | Instance | Shows |
|---|---|---|
| `execution` | three executors, one action with both keys, one poisoned, two faults | at most one adapter call; ledger, audit log and Feishu agree; `ExecutionInv`; refinement of `ExecutionPromise` |
| `pipeline_safety` | two devices of one user and one of another, one action, two payloads, two item versions, two workers draining, two faults | acknowledged decisions are recorded, ledger rows and writes are the actor's, items are their user's and follow the ledger, every change raises a cursor |
| `pipeline_live` | two actions, edits poisoned, drain limit 2, no fault, fairness of a drain under way | what a drain listed gets its result, whatever becomes of the rows listed before it |
| `sync` | two devices of one user, two actions on a page of one item, two versions of the first, three loads | a decision is stored only as the click on an item shown exactly as it is stored; loads never go back |
| `outbox` | two workers, three envelopes (one unsafe, one announcing a recovery), leases of one tick, one fault, two recoveries | unexpired claims are exclusive, a settled row stays settled, what is sent was received, one failure is reopened once |
| `refresh_race` | one sweep, one live read, one grant, three tokens, one fault | a late answer revives nothing and overwrites nothing; an undisturbed rotation is stored |
| `refresh_takeover` | two instances, leases shorter than a sweep, a recovery | audit windows never collide; `TokenRefresh` implements `SchedulerLease` and inherits `LeaseSafety`; no sweep lifts a pause, unless it had listed the grant before another refresh paused it |
| `maintenance` | two rounds over up to two tenants, a row whose trimmed id clashes and one that is blank, all combinations of settings around the validations, a panic | status and rounds agree, a failed sweep is still drained, a round that succeeds reports exactly the tenants it discovered, in order, whichever of them fail, a daemon that ends takes the server down |
| `login` | four budgets: two callbacks racing three logouts; two login sessions and a cancel; broken connections and a restart; a manual refresh beside the observation | authorized is stored, the last device takes the grant, what is over stays over, watchers learn the end |
| `settings` | two sheets, two base URLs, keys with and without a prefix, a service per host, two edits, three requests | the key goes to its host only, at every URL that detection probes; the stored setting works |
| `turn` | grant scenarios (scopes, staleness, other writers), data scenarios (OKR trees around every limit, lists of one and more pages, empty pages, texts that fit and texts that are cut, summaries that are hidden, references) and chat scenarios (providers, two turns) | reads within the grant, every read answered, a summary in full and without a note is complete, no silent truncation, and the model told of what the client shows |

### Bounds

- *Actors.* Two contenders meet in every race of these protocols (a holder and whoever takes over);
  `execution` has three because a duplicate can race a second duplicate. Each protocol works on one
  row at a time, so one row shows its interleavings; two or more are used where rows interact
  (`pipeline_live`, `outbox`: order, batch and limit; `sync`: what is on the page).
- *Faults.* One fault strands; the second meets the retry of what the first left behind.
- *Clock.* `MaxTime` lets a lease of the scheduler run out, be taken over and run out again; in
  `outbox` it lets a lease run out and the row be claimed, exhausted and requeued again. Deadlock
  is checked in these runs: at `MaxTime` an instance or a worker can still start a
  run and find nothing due.
- *Tokens.* Three: that of the login, of a rotation, and of a second rotation or a second login.
- *Page.* `SnapshotLimit = 1` with two items and sort keys that swap places when the first item is
  updated: the page is cut on every load, and the cut changes.
- *Limits of the live read.* The code's limits (3 to 50) are parameters; the run keeps their order
  (`OkrLimits`) and gives each a tree of cycles, objectives and key results just below and just above it.
  Two pages are read of lists of one to three; a text holds four characters, so that with the shorter
  `wording` a note just fits and with the longer one it is cut off.
- *Budgets.* `Budgets` and `Scenarios` are sets of initial states, one per kind of trouble, because all
  troubles at once would only multiply steps that do not meet.
- `MaxSource`, `MaxAttempts`, `MaxTokens`, `MaxIssued`, `MaxEdits`, `MaxCalls`, `MaxLoads` and
  `MaxRounds` cap counters that no statement caps.

`CHECK_DEADLOCK FALSE` stands in the runs of `ReviewPipeline`, `InboxSync`, `AgentSettings` and
`AgentTurn`, where everything may be decided and answered and nobody has to do more, in `login`, where
the login is over, and in `maintenance`, where the server has returned.

### Fairness

`ReviewPipeline!FairSpec` assumes that a drain under way goes on (`GoOn`): an `async` function that is polled makes
its next call, and after a row the loop takes the next one it listed. Nothing more is assumed, because nothing in
the repository schedules `PostgresConfirmedActionWorker::drain_once`: the daemon runs the refresh sweep and the outbox drain
only. Calling it, deciding and ingesting are not fair, and so no property says that a confirmed action is executed;
`ListedIsFinished` is about the rows a drain has listed. It is claimed only without faults (`MaxFaults = 0`): with a crash the
code fails closed by design: the row stays `executing`, its result is in no event, and every later call returns it as
a duplicate. `StrandedOnlyByFault` shows that nothing but a fault does this.

`TenantMaintenance` is weakly fair in the daemon's step, in the server's noticing of its end and in the
shutdown: tokio polls both, and every call of a round is bounded by a timeout. Neither the signal that shuts
the server down nor a panic is fair.

`LoginSession` is weakly fair in the steps of the event stream, of the polling and of the view model: tokio
and the main actor run them, and the keepalive and polling timers fire. Users, callbacks, the passing of the
deadline and faults are free, so that a login nobody finishes must still end for its watchers by expiry alone.

### Behaviour worth knowing

The model reaches these states too. No property is stated against them, because the code makes no
promise that excludes them or because what excludes them is outside the code:

- nothing schedules the drain of confirmed actions; and where it is called, a row whose dry run is refused stays
  `confirmed`, the drain takes the oldest rows up to its limit, and so as many refused rows as the limit
  keep all younger ones from being listed;
- an item that was confirmed and is not finished is open again when ingest delivers a newer version; the ledger
  keeps the decision;
- an envelope whose last delivery outlasts its lease is claimed once more than `max_attempts`;
- when a live read and a sweep refresh one grant at once, Feishu may rotate both and the compare-and-set
  drops the token that Feishu kept (`UncontendedRotationIsSaved` says this happens only then);
- a live read of a paused grant overwrites the pause, and so does a sweep that had listed the grant before
  another refresh paused it: the rotation compares the fingerprint of the token and not the error. That
  second case came up as the step of the proof of `PauseOutlastsSweeps` that did not go through; the property
  now names it, with the history variable `overtaken`;
- a logout between the grant and the session of a login leaves a signed-in device without a usable
  grant until it logs in again;
- the snapshot that answers a decision is applied outside the counter of loads, so an older load cannot
  overtake a newer one but may overtake that snapshot (`LoadsNeverGoBack` is about loads);
- a sweep that failed safely is shown in the health status as an unknown failure;
- the OKR summary, unlike the progress summary, does not say which key results of later objectives
  were not listed;
- the note of tasks and meeting notes is the last part of a text that is cut at 200 characters, so a few long titles leave
  only an ellipsis of it; and where the pages read were empty although Feishu has more, the summary says that nothing was found;
- the prompt drops repeated texts, the client repeated triples of tool, state and text: two reads hidden for a
  sensitive word are one line for the model and two for the user;
- finished items count for the limit of 100 of a snapshot.

## 4. Proofs

All theorems hold for every value of the constants that satisfies the named assumptions of the
modules. TLC evaluates these assumptions on every run. They are:

- executor and tables: `ProposedActionsFinite`, `PoisonedAssumption`, `LimitAssumption`, `MaxFaultsAssumption`;
- decision and inbox: `UserOfAssumption`, `ActorOfAssumption`, `ConfirmableAssumption`, `MaxSourceAssumption`,
  `SnapshotLimitAssumption`, `SortKeyAssumption`, `MaxSourceOfAssumption`, `MaxLoadsAssumption`;
- outbox: `MessagesAssumption`, `EnvelopesAssumption`, `ConfigAssumption`;
- lease and refresh: `LeaseConfig`, `NoRunnerIsNobody`, `RefreshConfig`;
- chat: `PlanLimits`, `OkrLimits`, `PageLimits`, `SummaryHasRoom`, `ConversationsAreTyped`;
- the others: `MaintenanceConfig`, `LoginConfig`, `SettingsConfig`.

They give the constants their types and repeat what the code validates at start (positive leases, delays and
limits); `SettingsConfig` also says that a row left by an earlier sheet works. `OkrLimits` and
`ConversationsAreTyped` also order the limits of the chat as the constants of the code are: a progress read takes
in as many key results as it discovers objectives, the page of the summary is no shorter than that of the progress, and
the client is told of as many reads as the model is (`AGENT_CONTEXT_STATUS_SUMMARY_LIMIT`, `LIVE_FEISHU_SECTION_LIMIT`).
The bounds (`MaxFaults`, `MaxTime`,
`MaxTokens`, ...) are arbitrary natural numbers, so nothing rests on how small the runs choose them.

Each component has one inductive invariant, proved with one step per action; the theorems about its properties
follow from it.

**Executor** (`ActionExecutionProofs`). "At most one call" is not inductive: a state in which a worker is about to
call although another has called already satisfies it. `ExecutionInv` adds

- `OwnerHoldsRight`: a worker about to call or to record works on a row that is `executing`;
- `RightIsExclusive`: no two workers do so on the same row;
- `CallIsAccounted`: the calls made for a row are what its status and the step of its owner say, so a
  `confirmed` row has none and the owner of an `executing` row has made none before `execute`;
- `SlotsFollowLedger`: an audit sequence is taken only when the ledger has passed the transition that writes it,
  which is why a record of a result never meets a taken slot.

`ExecutionInvariant` proves it; `AtMostOnce`, `OnlyAfterDryRun`, `LedgerIsAudited`, `SuccessIsReal` and
`OnlyFaultsStrand` follow from it, `FinalHistory` is its action property, and `Refinement` proves that every step is
a step of `ExecutionPromise` or a stutter.

**Decision and pipeline** (`ReviewProofs`). `ReviewInd` speaks of the tables and the requests alone, so it
serves the recorder with and without workers beside it. It joins the properties of the recorder (one decision per
action, of its own actor; acknowledged decisions recorded; decisions, ledger rows and events in step; items
that follow the ledger), each of which needs another, and adds that a request under way is a decision
of the device's own user. `PipelineInd` is `ExecutionInv`, `ReviewInd` and `WorkersHoldRows`: a worker holds only keys
with a ledger row, so no step of an executor creates one. From it: `DecisionsStand`, `AcksAreTrue`,
`DecisionsAreAudited`, `ItemsFollowLedger`, `OnlyConfirmedIsWritten`, `PipelineAtMostOnce` and the action property
`ChangesReachClients`.

**Inbox** (`ReviewProofs`). `SyncInd` adds to `ReviewInd` that every copy of an item on a screen, in a submission or
in a snapshot being read is a version the row had (`IsVersion`: equal if the cursors are equal, older
otherwise). The recorder compares cursors inside its transaction, so equal cursors mean the same item:
`DecidedAsItWasShown`. `ScreenOnlyMovesForward` needs `LoadsAreOrdered`: the latest load of a device is read after
the one it shows, and cursors only grow.

**Outbox** (`AuditOutboxProofs`). The exclusion of claims is not inductive, because a claim looks at the row and not
at the other workers. `OutboxInd` ties the two: a claim whose lease runs is the one its row records
(`ClaimStands`), because no worker's reading of the clock is ahead of it (`ReadsArePast`); no claim is ahead of
its row's attempts (`ClaimsAreCounted`); a settled row is nobody's attempt (`SettledIsUnclaimed`), so a requeue, which
keeps the count, revives no stale worker (`RequeuedIsFresh`). It gives `OutboxIsSafe`, `SentIsReceived`,
`ReopenedOnce` and the action property `SettledIsFinal`.

**Lease** (`TokenRefreshProofs`). Exclusive leases need `HeldIsRecorded`, that an unexpired lease is the one
in the row, and this needs `ReadsArePast`: a claim compares the row with an old reading of the
clock, and only because that reading is not ahead of the clock is a lease it takes over
expired for its holder too. Attempts differ because nobody holds a number beyond the row's
(`AttemptsAreCounted`). `RunningEnds`, `PendingIsNear` and `NextRunIsNear` carry `JobIsNeverStuck`.
`LeaseIsSafe` puts these together as `LeaseSafety`; `OnlyHolderReleases` is the action property of the
same invariant. `SchedulerLease` has no run of its own: its steps, but for `upsert_job`, are those of
`refresh_takeover`, which also checks `LeaseSafety`.

**Refresh** (`TokenRefreshProofs`). `RefreshKeepsLease` shows that each step of `TokenRefresh` is a step of
`SchedulerLease` or leaves the lease alone; `SweepIsSafe` brings the lease's theorem to the sweeps. Against a live
read, a login or a logout a sweep has only the compare-and-set on the fingerprint, and `RefreshInd` says what that is
worth. A token not stored yet is in nobody's snapshot (`NewTokensAreFresh`); so among the refreshes of a grant nobody
contended for at most one has a snapshot that still matches (`OneLive`), and what it obtained is what must be
stored (`DeliveredIsPending`). A sweep stays within the audit window of its attempt (`SweepRuns`), attempts differ by
the lease, and hence its slots are free (`SlotsAreSpent`). A refused token is not usable any more
(`RefusedIsUnusable`), and a sweep whose listed grant is paused was overtaken (`PausedWhileListed`). Theorems:
`RotationsAreSaved`, `SlotsAreFree`, and the action properties `OnlyLoginRevives`, `SuccessorsReplace` and
`PausesOutlastSweeps`.

**Maintenance** (`TenantMaintenanceProofs`). `MaintenanceInd` adds to `MaintenanceInv` where the task can be
(`TaskOK`: a round under way has tenants left, a drain follows a sweep that returned) and counts (`TicksOK`):
there are as many drains as sweeps, and at least as many as ticks failed in earlier rounds and tenants
reported in this one. `HealthIsTrue`, `FailedTicksAreDrained` and the action property `EveryTenantIsTicked` follow.

**Login** (`LoginSessionProofs`). In `ServerInd`, a logout that holds the locks of the user's sessions is alone, since
its own session is among them and stays active until it commits (`LogoutOK`). While it is under way sessions only
become active, and a grant stored meanwhile is that of a login that has still to insert its session; so a logout that
spares the grant leaves an active session or such a login: `LastLogoutRevokes`. `Progress` follows the five upserts,
which makes what is shown as authorized stored (`LoginsAreStored`). `OnTime` says that a callback under way knows the
version its login session had when it came: `NothingRevives`. `ClientInd` types what the client's tasks hold.

**Settings** (`AgentSettingsProofs`). `SettingsInd` follows a key from the request it was typed in, through the resolved
save, into the row (`RowOK`) and from the row back into a request that carries none (`CallsOK`). The link is a
lemma about the candidates: trimming, versioning and pushing URLs keeps the host of the base. That the URL
detected is one that answered rests on the least index of a hit, which exists by well-foundedness. `KeysStayHome` and
`StoredSettingsWork` follow.

**Live reads** (`AgentTurnProofs`). `ReadsWithinGrant` is not inductive, because it does not say which row a
read under way goes by. `ReadInv` does: the stored grant, and the row the session holds, carry the scopes that their token
was issued with (`Issued`); from the second gating on, whatever the read still has to do is within the scopes of the row it
holds (`Demand`). A login with fewer scopes between the two readings of the row thus changes what is gated, never what a
token is used for: `LiveReadsWithinGrant`. `TurnShape` types what the user sends and what Feishu holds.

`LiveReadsAreAnswered` needs an account of the statuses while the read is under way (`AnswersGiven`): a tool that is
outstanding has no status, one that no longer is has exactly one (`ToolsAnswered`); and as long as nothing was noted, every
reference given is shown or outstanding (`RefsAnswered`). What a closing read does with those left, a status for each or one
note for all, accounts for them. Gating, degrading and the merging of notes are lemmas about lists of statuses.

`UnqualifiedSummariesAreComplete` rests on `Says`: what a shown summary was made from, namely the topology with the options of
the requested tools, or the pages up to their limit. The summary covers everything, or its text has a part
that says otherwise; a text that was not cut still says what its parts say, and a part cut off leaves the ellipsis. So a
summary with neither note nor ellipsis is complete: a fact about the read alone (`Whole`, `PagesCover`), for every tree of
cycles, objectives and key results, all pages and all lengths. `Sublists`
states what the loops collect by the places they keep and not as a fold, so the argument is about ranks in finite
sets; where it needs the least number with a property, that exists by well-foundedness.

**Chat stream** (`AgentTurnProofs`). `NoSilentTruncation` looks at a send that is over. `StreamInv` says what holds before:
every piece the model sent is with the client or on the wire, and an answer that broke off has an error frame there
(`Delivered`); a `completed` frame is the last one and only there when the model said it was done, a status frame is
the first one and tells of the reads of this turn (`WireWell`, `ReadsTold`); the reply shown is the last message
(`Replied`); nothing is under way before the answer opens (`Unopened`); and the model was asked the question the reads were made
for (`Questioned`). `NoReplyIsTruncated` follows, for answers, conversations and channels of any length.

That the model was told what the user is shown does not hold by itself, because the prompt and the client drop repetitions by
different keys and cut at a limit afterwards. `Told` says it of the facade's two lists from the moment they are made. Both keep
the first places of their keys (`FirstsPicked`), and a text decides the tool and the state of its status unless it
is the text of the hidden ones (`DistinctTextsTell`, `SafeTextNames`). Hence every place the client keeps has a text the prompt keeps at no later a
rank (`PromptTells`), and without hidden summaries the two keep the same places.

**Only model-checked.** `ListedIsFinished`, `WatchersLearnTheEnd` and `EndIsNoticed`: liveness under fairness is out of
the prover's reach. Every invariant and every action property of the runs is proved.

## 5. Not modelled

- *Execution policy and safety* are pure functions from a request to allow or deny. A denial is a free
  choice of `ActionExecution`, so what is shown holds for every policy.
- *The in-memory executor and ledger* are the single-threaded twin the tests use.
- *The device sync cursor* (`advance_cursor` and its compare-and-swap) has no caller outside the tests:
  every snapshot starts at cursor 0.
- *JSON parsers, encryption, redaction and logging* convert data and keep no state; what a caller tells
  apart of their results (an answer that cannot be parsed, a key that does not decrypt) is modelled there.
- *Swift views and mock data* are layout; the view models are modelled with their components.
- *The stand-alone loops of `oar-runtime`* (`TenantMaintenanceRuntime`, the registry's own
  `run_until_cancelled`, its builder) are not used by the facade.
- *The ledger row and trace of a recovery* are abstracted to the recovery's status in `AuditOutbox` and
  `TokenRefresh`; its effects, the requeue and the resume, are modelled.
- *Starvation of due grants* by more grants than a sweep takes that keep failing needs an unbounded
  clock (hazard at `token_grant_sql.rs:271`).

## 6. Plan

The components that change state are modelled, and the safety properties of all of them are proved. What remains:

1. shorter proofs where actions of one component repeat the same argument (the upserts of `LoginSession`, the
   answers of `TokenRefresh`, the reads of `LiveRead`), by lemmas about what a step of either may change;
2. the hazards without a property in `PROJECT.json`, once the code says what should hold there: a login that stores its
   grant before a logout counts its session, two live reads in one millisecond, a snapshot full of finished items;
3. progress of confirmed actions beyond one drain, once something schedules `drain_once`;
4. the OKR summary, which unlike the progress summary does not say which key results it leaves out, once it does, and
   redirects of the endpoints of model settings.
