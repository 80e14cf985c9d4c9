------------------------------ MODULE LiveRead ------------------------------
(***************************************************************************)
(* The live Feishu context of one chat turn.  The facade plans the reads   *)
(* (ReadPlan), opens a session on the user's stored grant, refreshing it   *)
(* first when it is stale, drops what the grant's scopes do not cover, and *)
(* makes the remaining reads one after the other (LarkReads, OkrRead).     *)
(* Meanwhile the user may log in again with other scopes, log out, and     *)
(* another refresher may rotate the grant: the session reads the grant row *)
(* up to twice and the access token it then uses is that of the row it     *)
(* read last.                                                              *)
(***************************************************************************)
EXTENDS ReadPlan, LarkReads, OkrRead

CONSTANTS
    Answers,        \* answers Feishu may give to a read
    ScopeSets,      \* scopes a user may grant
    TaskPageLimit, MinutesPageLimit,
    MaxIssued       \* bound on tokens issued

ASSUME PageLimits == {TaskPageLimit, MinutesPageLimit} \subseteq Nat \ {0}

VARIABLES
    deployment,  \* [store, login]: what the facade is configured with
    account,     \* [kind, others]: how the user's grant is found
    active,   \* the device session of the request
    grant,    \* the user's row of token_grants
    granted,  \* history: scopes of every token issued
    feishu,   \* external: the user's OKR cycles, pages of lists, wording
    live,     \* the read of this turn
    calls,    \* history: endpoints called, with the token used
    outside   \* bound: steps others may still take

readVars == <<deployment, account, active, grant, granted, feishu, live, calls, outside>>

NoGrant == [state |-> "none", token |-> 0, scopes |-> {}, stale |-> FALSE, keyOk |-> TRUE]
NoProgress == [read |-> {}, said |-> {}, cut |-> FALSE]
NoPages == [count |-> 0, said |-> {}, cut |-> FALSE]
NotStarted ==
    [step |-> "idle", text |-> {}, asked |-> {}, given |-> <<>>, tools |-> {},
     refs |-> [s \in Sources |-> <<>>], degraded |-> <<>>, statuses |-> <<>>,
     held |-> NoGrant, openId |-> "unresolved",
     progress |-> NoProgress, tasks |-> NoPages, minutes |-> NoPages, okr |-> <<>>]

Ready(tool) == [tool |-> tool, state |-> "ready", why |-> ""]
DegradedForTool(tool, why) == [tool |-> tool, state |-> "degraded", why |-> why]
DegradedStatuses(whys) == [i \in DOMAIN whys |-> DegradedForTool("", whys[i])]

-----------------------------------------------------------------------------
(* Scopes *)

ToolActionTypes ==
    [CalendarEvents |-> {"CalendarRead", "CalendarEventRead"},
     CalendarFreeBusy |-> {"CalendarFreeBusyRead"},
     MinutesSummary |-> {"MinutesSearchRead"},
     OkrSummary |-> {"OkrPeriodRead", "OkrContentRead"},
     OkrProgress |-> {"OkrPeriodRead", "OkrContentRead", "OkrProgressRead"},
     TaskSummary |-> {"TaskRead"}]

RequiredFeishuScopes(tool) == FeishuScopesForActionTypes(ToolActionTypes[tool])

Uncovered(scopes, tools) == {t \in tools : ~(RequiredFeishuScopes(t) \subseteq scopes)}

(* A mutant: tools the scopes do not cover are dropped without a status.   *)
GateReadToolsQuietly(scopes, l) == [l EXCEPT !.tools = @ \ Uncovered(scopes, l.tools)]

(* The first statuses are the tools the scopes do not cover.               *)
GateReadToolsByScope(scopes, l) ==
    LET refused == InOrder(Uncovered(scopes, l.tools))
    IN  [l EXCEPT !.tools = @ \ Uncovered(scopes, l.tools),
                  !.statuses = @ \o [i \in DOMAIN refused |->
                                        DegradedForTool(refused[i], "missing_permission")]]

HasEvidenceReadScopes(scopes, source) ==
    CASE source = "okr" -> {"OkrContentRead", "OkrProgressRead"} \subseteq scopes
      [] source = "task" -> "TaskRead" \in scopes
      [] source = "calendar" -> {"CalendarRead", "CalendarEventRead"} \subseteq scopes
      [] source = "doc" -> "DocxDocumentRead" \in scopes
      [] source = "minutes" -> scopes \cap {"MinutesBasicRead", "minutes:minutes:readonly"} # {}

GateEvidenceRefsByScope(scopes, l) ==
    LET lacking == {s \in Sources : l.refs[s] # <<>> /\ ~HasEvidenceReadScopes(scopes, s)}
    IN  [l EXCEPT !.refs = [s \in Sources |-> IF s \in lacking THEN <<>> ELSE l.refs[s]],
                  !.degraded = @ \o [i \in 1 .. Cardinality(lacking) |-> "missing_permission"]]

(* A wiki page needs its node too; documents by id are kept.               *)
GateDocEvidenceRefsByScope(scopes, l) ==
    LET plain == {i \in DOMAIN l.refs["doc"] : ~l.refs["doc"][i].wiki}
    IN  IF "WikiNodeRead" \in scopes \/ plain = DOMAIN l.refs["doc"] THEN l
        ELSE [l EXCEPT !.refs["doc"] = Kept(@, plain), !.degraded = Append(@, "missing_permission")]

(* A mutant: the gate is passed once, with the scopes first read.          *)
GateOnceByScope(scopes, l) ==
    IF l.step = "reload" THEN l
    ELSE GateReadToolsByScope(scopes,
            GateDocEvidenceRefsByScope(scopes, GateEvidenceRefsByScope(scopes, l)))

GateReadDemandByScope(scopes, l) ==
    GateReadToolsByScope(scopes,
        GateDocEvidenceRefsByScope(scopes, GateEvidenceRefsByScope(scopes, l)))

NothingToRead(l) == l.tools = {} /\ \A s \in Sources : l.refs[s] = <<>>

-----------------------------------------------------------------------------
(* The grant, as a live read sees it *)

UsableGrant(g) == g.state \in {"valid", "needs_refresh"}
GrantRequiresRefreshBeforeRead(g) == g.state = "needs_refresh" \/ g.stale
LiveReadGrantDenied(g) == ~UsableGrant(g) \/ ~g.keyOk

(* The user's grant: of a workspace user the one named after the user, on  *)
(* an active session; of others the only usable one.                       *)
ResolveGrantIdForUser ==
    /\ UsableGrant(grant)
    /\ IF account.kind = "workspace" THEN active ELSE account.others = 0

Close(l, why) ==
    [l EXCEPT !.step = "done",
              !.statuses = @ \o DegradedStatuses(IF why = "" THEN l.degraded
                                                 ELSE Append(l.degraded, why))]

NeedsLarkOpenId(l) ==
    l.tools \cap {"OkrSummary", "OkrProgress", "CalendarFreeBusy", "MinutesSummary"} # {}

(* Validate the grant, gate by its scopes, and refresh or go on.           *)
AdmitGrant(g, l, fresh) ==
    LET gated == GateReadDemandByScope(g.scopes, [l EXCEPT !.held = g])
    IN  CASE LiveReadGrantDenied(g) -> Close(l, "login_again")
          [] ~LiveReadGrantDenied(g) /\ NothingToRead(gated) -> Close(gated, "")
          [] ~LiveReadGrantDenied(g) /\ ~NothingToRead(gated)
               /\ ~fresh /\ GrantRequiresRefreshBeforeRead(g) ->
                 IF deployment.login THEN [gated EXCEPT !.step = "refresh"]
                 ELSE Close(gated, "no_refresh")
          [] OTHER -> [gated EXCEPT !.step = "identity"]

-----------------------------------------------------------------------------
(* Steps of the read *)

(* The turn's demand; without any the model is asked without live context. *)
StartLiveRead(request) ==
    LET resolved == ResolveEvidenceRefs(request.refs)
        tools == PlanReadTools(request)
        l == [NotStarted EXCEPT !.text = LatestUserText(request), !.asked = tools,
                                !.given = request.refs, !.tools = tools,
                                !.refs = resolved.refs, !.degraded = resolved.degraded]
    IN  /\ live.step = "idle"
        /\ live' = IF NothingToRead(l) THEN Close(l, "") ELSE [l EXCEPT !.step = "resolve"]
        /\ UNCHANGED <<deployment, account, active, grant, granted, feishu, calls, outside>>

ResolveGrant ==
    /\ live.step = "resolve"
    /\ live' = CASE ~deployment.store -> Close(live, "no_store")
                 [] deployment.store /\ ~ResolveGrantIdForUser -> Close(live, "no_grant")
                 [] OTHER -> [live EXCEPT !.step = "load"]
    /\ UNCHANGED <<deployment, account, active, grant, granted, feishu, calls, outside>>

(* The row is read, or cannot be.                                          *)
LoadGrant ==
    /\ live.step = "load"
    /\ \/ live' = AdmitGrant(grant, live, FALSE)
       \/ live' = Close(live, "grant_unreadable")
    /\ UNCHANGED <<deployment, account, active, grant, granted, feishu, calls, outside>>

(* The refresh of the held grant (TokenRefresh has its steps): it rotates  *)
(* the row if it still holds the token presented, finds it replaced, marks *)
(* it, or fails.                                                           *)
RefreshGrantBeforeLiveRead ==
    LET same == grant.token = live.held.token /\ UsableGrant(grant)
        Reload == live' = [live EXCEPT !.step = "reload"]
    IN  /\ live.step = "refresh"
        /\ \/ /\ same /\ Len(granted) < MaxIssued
              /\ grant' = [grant EXCEPT !.state = "valid", !.token = Len(granted) + 1,
                                        !.stale = FALSE]
              /\ granted' = Append(granted, grant.scopes)
              /\ Reload
           \/ ~same /\ Reload /\ UNCHANGED <<grant, granted>>
           \/ /\ live' = Close(live, "login_again")
              /\ grant' = IF same THEN [grant EXCEPT !.state = "reauth_required"] ELSE grant
              /\ UNCHANGED granted
           \/ /\ live' = Close(live, "refresh_failed")
              /\ grant' = IF same THEN [grant EXCEPT !.state = "needs_refresh"] ELSE grant
              /\ UNCHANGED granted
        /\ UNCHANGED <<deployment, account, active, feishu, calls, outside>>

ReloadGrant ==
    /\ live.step = "reload"
    /\ \/ live' = IF GrantRequiresRefreshBeforeRead(grant) THEN Close(live, "still_stale")
                  ELSE AdmitGrant(grant, live, TRUE)
       \/ live' = Close(live, "reload_failed")
    /\ UNCHANGED <<deployment, account, active, grant, granted, feishu, calls, outside>>

(* The access token of the held row is decrypted; tools that ask for "my"  *)
(* data need the Feishu identity of the grant.                             *)
ResolveLarkOpenIdForGrant ==
    LET ready == [live EXCEPT !.step = "read"]
    IN  /\ live.step = "identity"
        /\ \/ live' = Close(live, "undecryptable")
           \/ ~NeedsLarkOpenId(live) /\ live' = ready
           \/ /\ NeedsLarkOpenId(live)
              /\ \E id \in {"known", "missing"} : live' = [ready EXCEPT !.openId = id]
        /\ UNCHANGED <<deployment, account, active, grant, granted, feishu, calls, outside>>

(* The reads in the order the facade makes them: OKR tools and references, *)
(* task, calendar, documents, minutes.  A read made is one less to make.   *)
OkrTools == {"OkrSummary", "OkrProgress"}
ReadOrder == <<"okr_tools", "okr", "TaskSummary", "task", "CalendarFreeBusy", "CalendarEvents",
               "calendar", "doc", "MinutesSummary", "minutes">>
Outstanding(kind) ==
    CASE kind = "okr_tools" -> live.tools \cap OkrTools # {}
      [] kind \in Sources -> live.refs[kind] # <<>>
      [] OTHER -> kind \in live.tools
NextJob(kind) ==
    /\ live.step = "read" /\ Outstanding(kind)
    /\ \A i, j \in DOMAIN ReadOrder :
          i < j /\ ReadOrder[j] = kind => ~Outstanding(ReadOrder[i])

ToolsDone(tools, statuses) == [live EXCEPT !.tools = @ \ tools, !.statuses = @ \o statuses]
RefsDone(source, left, statuses) == [live EXCEPT !.refs[source] = left, !.statuses = @ \o statuses]
Calling(endpoints) == calls' = calls \cup {[endpoint |-> e, token |-> live.held.token] : e \in endpoints}
ReadStep == UNCHANGED <<deployment, account, active, grant, granted, feishu, outside>>

(* A tool that makes one operation of a client.                            *)
AppendToolSummary(tool, source, endpoints, needsId, summarised) ==
    /\ NextJob(tool)
    /\ \/ /\ needsId /\ live.openId # "known"
          /\ live' = ToolsDone({tool}, <<DegradedForTool(tool, "no_identity")>>)
          /\ UNCHANGED calls
       \/ /\ ~needsId \/ live.openId = "known"
          /\ \E k \in DOMAIN endpoints, answer \in Answers :
                /\ Outcome(endpoints, k, answer)
                /\ Calling(Called(endpoints, k))
                /\ live' = IF Succeeded(endpoints, k, answer)
                           THEN [summarised EXCEPT !.tools = @ \ {tool},
                                                   !.statuses = Append(@, Ready(tool))]
                           ELSE ToolsDone({tool}, <<DegradedForTool(tool, ReadErrorReason(source, answer))>>)
    /\ ReadStep

ReadMyTaskSummary ==
    AppendToolSummary("TaskSummary", "task", TaskListEndpoints, FALSE,
                      [live EXCEPT !.tasks = ReadPages(feishu.tasks, TaskPageLimit, feishu.wording)])
ReadMyMinutesSummary ==
    AppendToolSummary("MinutesSummary", "minutes", MinuteSearchEndpoints, TRUE,
                      [live EXCEPT !.minutes = ReadPages(feishu.minutes, MinutesPageLimit, feishu.wording)])
ReadMyCalendarFreeBusy ==
    AppendToolSummary("CalendarFreeBusy", "calendar", CalendarFreeBusyEndpoints, TRUE, live)
ReadMyCalendarEvents ==
    AppendToolSummary("CalendarEvents", "calendar", CalendarEventsEndpoints, FALSE, live)

(* One evidence reference of a source that is read one by one.             *)
AppendEvidence(source) ==
    /\ NextJob(source)
    /\ LET endpoints == RefEndpoints(source, Head(live.refs[source]))
       IN  \E k \in DOMAIN endpoints, answer \in Answers :
             /\ Outcome(endpoints, k, answer)
             /\ Calling(Called(endpoints, k))
             /\ live' = RefsDone(source, Tail(live.refs[source]),
                            <<IF Succeeded(endpoints, k, answer) THEN Ready("")
                              ELSE DegradedForTool("", ReadErrorReason(source, answer))>>)
    /\ ReadStep

(* OKR references are fetched in one batch: all are shown, or one status   *)
(* says none could be; a success without data is such a failure.           *)
AppendOkrEvidence ==
    /\ NextJob("okr")
    /\ \E answer \in Answers, data \in BOOLEAN :
          /\ data => answer = "2xx"
          /\ Calling(ToSet(OkrBatchGetEndpoints))
          /\ live' = RefsDone("okr", <<>>,
                        IF data THEN [i \in DOMAIN live.refs["okr"] |-> Ready("")]
                        ELSE <<DegradedForTool("", IF answer = "2xx" THEN "empty_answer"
                                                   ELSE ReadErrorReason("okr", answer))>>)
    /\ ReadStep

OkrToolsAsked == InOrder(live.tools \cap OkrTools)
PushOkrToolDegraded(why) == [i \in DOMAIN OkrToolsAsked |-> DegradedForTool(OkrToolsAsked[i], why)]

(* The topology is read once for both tools and fails both; the progress   *)
(* of its targets is read after it and fails alone.                        *)
AppendOkrSummaries ==
    LET summary == "OkrSummary" \in live.tools
        progress == "OkrProgress" \in live.tools
        topology == ReadMyOkrTopology(feishu.cycles, OptionsForRequestedTools(summary, progress))
    IN  /\ NextJob("okr_tools")
        /\ \/ /\ live.openId # "known"
              /\ live' = ToolsDone(OkrTools, PushOkrToolDegraded("no_identity"))
              /\ UNCHANGED calls
           \/ /\ live.openId = "known"
              /\ \E k \in DOMAIN OkrTopologyEndpoints, answer \in Answers \ {"2xx"} :
                    /\ Calling(Called(OkrTopologyEndpoints, k))
                    /\ live' = ToolsDone(OkrTools, PushOkrToolDegraded(ReadErrorReason("okr", answer)))
           \/ /\ live.openId = "known"
              /\ \E answer \in (IF progress THEN Answers ELSE {"2xx"}) :
                    /\ Calling(ToSet(OkrTopologyEndpoints \o
                                     IF progress THEN OkrProgressEndpoints ELSE <<>>))
                    /\ live' = [ToolsDone(OkrTools, [i \in DOMAIN OkrToolsAsked |->
                                  IF OkrToolsAsked[i] = "OkrProgress" /\ answer # "2xx"
                                  THEN DegradedForTool("OkrProgress", ReadErrorReason("okr", answer))
                                  ELSE Ready(OkrToolsAsked[i])])
                                EXCEPT !.okr = IF summary
                                               THEN BuildMyOkrSummaryFromTopology(topology) ELSE @,
                                       !.progress = IF progress /\ answer = "2xx"
                                                    THEN ReadMyOkrProgressSummaryFromTopology(
                                                            topology, feishu.wording)
                                                    ELSE @]
        /\ ReadStep

FinishLiveRead ==
    /\ live.step = "read" /\ NothingToRead(live)
    /\ live' = Close(live, "")
    /\ UNCHANGED <<deployment, account, active, grant, granted, feishu, calls, outside>>

-----------------------------------------------------------------------------
(* Others *)

Others(step) ==
    /\ live.step \in {"idle", "resolve", "load", "refresh", "reload"}
    /\ outside > 0 /\ outside' = outside - 1
    /\ step
    /\ UNCHANGED <<deployment, account, feishu, live, calls>>

(* The user logs in again, on this or another device, and may grant other  *)
(* scopes: the row is replaced.                                            *)
LoginAgain(scopes) ==
    Others(/\ Len(granted) < MaxIssued
           /\ granted' = Append(granted, scopes)
           /\ grant' = [NoGrant EXCEPT !.state = "valid", !.token = Len(granted) + 1,
                                       !.scopes = scopes]
           /\ UNCHANGED active)

LogoutElsewhere ==
    Others(/\ grant.state # "none"
           /\ \E last \in BOOLEAN :
                 /\ active' = IF last THEN FALSE ELSE active
                 /\ grant' = IF last THEN [grant EXCEPT !.state = "revoked"] ELSE grant
                 /\ last \/ active
           /\ UNCHANGED granted)

(* The access token comes within the skew of its expiry, or another        *)
(* refresher rotates the grant.                                            *)
GrantAges == Others(UsableGrant(grant) /\ ~grant.stale /\ grant' = [grant EXCEPT !.stale = TRUE]
                    /\ UNCHANGED <<active, granted>>)
RotatedElsewhere ==
    Others(/\ UsableGrant(grant) /\ Len(granted) < MaxIssued
           /\ granted' = Append(granted, grant.scopes)
           /\ grant' = [grant EXCEPT !.state = "valid", !.token = Len(granted) + 1, !.stale = FALSE]
           /\ UNCHANGED active)

-----------------------------------------------------------------------------
(* A world: the deployment, the account, the grant as the last login or    *)
(* refresh left it, what Feishu holds, and how much others do.             *)
ReadInit(world) ==
    /\ deployment = world.deployment /\ account = world.account /\ active = TRUE
    /\ grant = [state |-> "valid", token |-> 1, scopes |-> world.scopes,
                stale |-> world.stale, keyOk |-> world.keyOk]
    /\ granted = <<world.scopes>>
    /\ feishu = world.feishu
    /\ live = NotStarted /\ calls = {} /\ outside = world.outside

ReadSteps(request) ==
    \/ StartLiveRead(request) \/ ResolveGrant \/ LoadGrant \/ RefreshGrantBeforeLiveRead
    \/ ReloadGrant \/ ResolveLarkOpenIdForGrant
    \/ ReadMyTaskSummary \/ ReadMyMinutesSummary \/ ReadMyCalendarFreeBusy \/ ReadMyCalendarEvents
    \/ \E source \in Sources \ {"okr"} : AppendEvidence(source)
    \/ AppendOkrEvidence \/ AppendOkrSummaries \/ FinishLiveRead

OtherSteps ==
    \/ \E scopes \in ScopeSets : LoginAgain(scopes)
    \/ LogoutElsewhere \/ GrantAges \/ RotatedElsewhere

-----------------------------------------------------------------------------
(* Every endpoint is called with a token whose own scopes permit it, also  *)
(* when the grant is replaced by a login with fewer scopes between the two *)
(* reads of the row; and no tool is read for data of other people          *)
(* (session.rs gates again after the refresh; common.rs targets_non_self). *)
ReadsWithinGrant ==
    /\ \A c \in calls : Permits(granted[c.token], c.endpoint)
    /\ TargetsNonSelf(live.text) => live.asked = {}

(* When the read is over every tool that was planned has exactly one       *)
(* status of its own, or one status says that nothing could be read; and   *)
(* every reference that is not shown is accounted for by a degraded status *)
(* (assembly.rs).                                                          *)
StatusesOf(tool) == {i \in DOMAIN live.statuses : live.statuses[i].tool = tool}
ShownRefs == {i \in StatusesOf("") : live.statuses[i].state = "ready"}
GeneralNote == \E i \in StatusesOf("") : live.statuses[i].state = "degraded"

EveryReadIsAnswered ==
    live.step = "done" =>
        /\ \A tool \in live.asked :
              LET answers == Cardinality(StatusesOf(tool))
              IN  answers = 1 \/ (answers = 0 /\ GeneralNote)
        /\ Cardinality(ShownRefs) < Len(live.given) => GeneralNote

(* A summary that ends without an ellipsis and says neither that something *)
(* was left out nor that nothing was found covers all there is: every      *)
(* objective and key result in the progress summary, every task, every     *)
(* meeting note.  A cut may take the note with it, and then the ellipsis   *)
(* stands where it was; whatever the lengths, the pages and the limits, a  *)
(* reader who sees neither misses nothing (rendering.rs skip_suffix, the   *)
(* more_suffix of tasks and minutes, finalize_summary).                    *)
Shown(tool) == \E i \in DOMAIN live.statuses : live.statuses[i] = Ready(tool)
Unqualified(summary) == ~summary.cut /\ summary.said \cap {"more", "skipped", "nothing"} = {}

UnqualifiedSummaryIsComplete ==
    /\ Shown("OkrProgress") /\ Unqualified(live.progress)
         => live.progress.read = TargetsHeld(feishu.cycles)
    /\ Shown("TaskSummary") /\ Unqualified(live.tasks) => live.tasks.count = Total(feishu.tasks)
    /\ Shown("MinutesSummary") /\ Unqualified(live.minutes)
         => live.minutes.count = Total(feishu.minutes)
=============================================================================
