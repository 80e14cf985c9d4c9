--------------------------- MODULE AgentSettings ---------------------------
(***************************************************************************)
(* The model settings of the chat agent: the settings sheet of every       *)
(* device of one user (AgentSettingsViewModel), the facade's               *)
(* /agent/settings and /agent/model-catalog/preview handlers and the one   *)
(* row they share, oar_agent_model_settings.  A sheet may have a load, a   *)
(* detection and a save or clear under way at once; a handler reads the    *)
(* row, probes the model service and writes the row in separate steps.     *)
(***************************************************************************)
EXTENDS Naturals, FiniteSets, SequencesExt

CONSTANTS
    Devices,          \* settings sheets of one user
    Hosts, Segments,  \* what a base URL is made of
    Models,           \* names of models
    Bases,            \* base URLs the user types: [host, path]
    VersionedHosts,   \* hosts whose name contains "openai" or "anthropic"
    AnthropicHosts,   \* hosts whose name contains "anthropic"
    KeyInputs,        \* what is typed as a key: [bearer, key], key "" if only "Bearer"
    Service,          \* external: served base -> [protocol, keys, models]
    PreferredModels,  \* protocol -> models recommended first
    SonnetModels,     \* models whose name contains "sonnet"
    EnvDefault,       \* whether a provider is configured by environment
    EnvBase,          \* its base URL
    SavedBefore,      \* rows earlier sheets may have left
    MaxOffered,       \* bound: models a service lists
    MaxEdits,         \* bound: edits of all sheets
    MaxCalls          \* bound: requests of all sheets

BaseUrls == [host : Hosts \cup {""}, path : Seq(Segments \cup {"v1"})]

(* A row works when the service at its URL speaks its protocol, takes its  *)
(* key and offers its model.                                               *)
Works(r) ==
    /\ r.base \in DOMAIN Service
    /\ r.protocol = Service[r.base].protocol
    /\ r.key \in Service[r.base].keys
    /\ r.model \in ToSet(Service[r.base].models)

ASSUME SettingsConfig ==
    /\ Bases \subseteq BaseUrls /\ EnvBase \in BaseUrls
    /\ \A b \in DOMAIN Service : Service[b].models \in Seq(Models)
    /\ \A r \in SavedBefore :
        r.saved /\ r.base \in BaseUrls /\ Works(r)
    /\ MaxOffered \in Nat /\ MaxEdits \in Nat /\ MaxCalls \in Nat

VARIABLES
    store,    \* whether the facade has a settings store
    row,      \* the user's row of oar_agent_model_settings
    sheet,    \* each device's view model
    call,     \* each device's requests, one per lane
    edits, calls,
    entered,  \* history: keys typed for a host
    sent      \* history: keys the facade sent to a host

vars == <<store, row, sheet, call, edits, calls, entered, sent>>

NoBase == [host |-> "", path |-> <<>>]
Blank == [bearer |-> FALSE, key |-> ""]
NoInput == [base |-> NoBase, key |-> Blank, saved |-> FALSE]
NoRow == [saved |-> FALSE, base |-> NoBase, key |-> "", model |-> "", protocol |-> ""]
Protocols == {"openai", "anthropic"}

----------------------------------------------------------------------------
(* Base URLs and detection *)

IsRootPath(base) == base.path = <<>>

TrimKnownEndpointSuffix(base) ==
    LET n == Len(base.path)
    IN  CASE n >= 2 /\ SubSeq(base.path, n - 1, n) = <<"chat", "completions">> ->
               [base EXCEPT !.path = SubSeq(@, 1, n - 2)]
          [] n >= 1 /\ base.path[n] \in {"messages", "models"} ->
               [base EXCEPT !.path = Front(@)]
          [] OTHER -> base

PushUniqueUrl(urls, url) == IF url \in ToSet(urls) THEN urls ELSE Append(urls, url)

PushApiBaseUrlCandidates(urls, base) ==
    LET versioned == [base EXCEPT !.path = <<"v1">>]
    IN  CASE ~IsRootPath(base) -> PushUniqueUrl(urls, base)
          [] IsRootPath(base) /\ base.host \in VersionedHosts ->
               PushUniqueUrl(PushUniqueUrl(urls, versioned), base)
          [] OTHER -> PushUniqueUrl(PushUniqueUrl(urls, base), versioned)

AgentBaseUrlCandidates(base) ==
    LET trimmed == TrimKnownEndpointSuffix(base)
    IN  PushApiBaseUrlCandidates(
          IF trimmed = base THEN <<>> ELSE PushApiBaseUrlCandidates(<<>>, trimmed), base)

(* A bug that reuses the saved key for whatever URL is typed. *)
AnyBaseUrlShares(left, right) == TRUE

BaseUrlsShareDetectionCandidate(left, right) ==
    \/ left = right
    \/ right \in ToSet(AgentBaseUrlCandidates(left))
    \/ left \in ToSet(AgentBaseUrlCandidates(right))

(* The key a request carries: absent, usable, or "Bearer" and nothing else. *)
OptionalTrimmedApiKey(typed) ==
    CASE typed = Blank -> [kind |-> "none", key |-> ""]
      [] typed # Blank /\ typed.key = "" -> [kind |-> "invalid", key |-> ""]
      [] OTHER -> [kind |-> "given", key |-> typed.key]

(* "offered" is how many of its models the service lists at this moment,  *)
(* 0 when it is down.                                                      *)
ProbeProtocolModels(base, protocol, key, offered) ==
    LET listed == IF base \in DOMAIN Service THEN Service[base].models ELSE <<>>
        models == SubSeq(listed, 1, IF offered < Len(listed) THEN offered ELSE Len(listed))
    IN  IF /\ base \in DOMAIN Service
           /\ Service[base].protocol = protocol /\ key \in Service[base].keys
        THEN [status |-> IF models = <<>> THEN "other" ELSE "ok", models |-> models]
        ELSE [status |-> "refused", models |-> <<>>]

ProtocolProbeOrder(base) ==
    IF base.host \in AnthropicHosts THEN <<"anthropic", "openai">>
                                    ELSE <<"openai", "anthropic">>

(* A preferred model, else any Sonnet of Anthropic, else the first listed. *)
RecommendedModel(protocol, models) ==
    LET preferred == SelectSeq(PreferredModels[protocol], LAMBDA m : m \in ToSet(models))
        sonnets == SelectSeq(models, LAMBDA m : protocol = "anthropic" /\ m \in SonnetModels)
    IN  Head(preferred \o sonnets \o models)

NoCatalog == [ok |-> FALSE, base |-> NoBase, protocol |-> "", models |-> <<>>]

(* Probing in order, up to the first that answers. *)
DetectCatalogForBaseUrl(base, key, offered) ==
    LET order == ProtocolProbeOrder(base)
        hits == {i \in DOMAIN order :
                   ProbeProtocolModels(base, order[i], key, offered).status = "ok"}
        protocol == order[Min(hits)]
    IN  IF hits = {} THEN NoCatalog
        ELSE [ok |-> TRUE, base |-> base, protocol |-> protocol,
              models |-> ProbeProtocolModels(base, protocol, key, offered).models]

DetectCatalog(base, key, offered) ==
    LET urls == AgentBaseUrlCandidates(base)
        hits == {i \in DOMAIN urls : DetectCatalogForBaseUrl(urls[i], key, offered).ok}
    IN  IF hits = {} THEN NoCatalog
        ELSE DetectCatalogForBaseUrl(urls[Min(hits)], key, offered)

(* The URLs the facade itself asks with the key meanwhile.  A service that *)
(* was asked may redirect the HTTP client elsewhere; that is not modelled. *)
ProbedUrls(base, key, offered) ==
    LET urls == AgentBaseUrlCandidates(base)
    IN  {urls[i] : i \in {n \in DOMAIN urls :
           \A j \in 1 .. n - 1 : ~DetectCatalogForBaseUrl(urls[j], key, offered).ok}}

(* The key detection uses for a request, "" when there is none to use. *)
ApiKeyForRequest(base, typed) ==
    LET given == OptionalTrimmedApiKey(typed)
    IN  CASE given.kind = "given" -> given.key
          [] /\ given.kind = "none"
             /\ row.saved
             /\ BaseUrlsShareDetectionCandidate(row.base, base) -> row.key
          [] OTHER -> ""

----------------------------------------------------------------------------
(* Snapshots and the sheet *)

Missing(configurable) ==
    [source |-> "none", base |-> NoBase, model |-> "", protocol |-> "",
     keyStatus |-> "missing", canConfigure |-> configurable]

FromSummary(configurable) ==
    [source |-> "env", base |-> EnvBase, model |-> "envModel", protocol |-> "openai",
     keyStatus |-> "saved", canConfigure |-> configurable]

Snapshot ==
    CASE store /\ row.saved ->
           [source |-> "user", base |-> row.base, model |-> row.model,
            protocol |-> row.protocol, keyStatus |-> "saved", canConfigure |-> TRUE]
      [] ~(store /\ row.saved) /\ EnvDefault -> FromSummary(store)
      [] OTHER -> Missing(store)

HasSavedUserKeyForCurrentBaseURL(s) ==
    s.source = "user" /\ s.keyStatus = "saved" /\ s.savedBase = s.base

HasUsableAPIKey(s) == s.key # Blank \/ HasSavedUserKeyForCurrentBaseURL(s)

CurrentDetectionInput(s) ==
    CASE s.base # NoBase /\ s.key # Blank -> [base |-> s.base, key |-> s.key, saved |-> FALSE]
      [] s.base # NoBase /\ s.key = Blank /\ HasSavedUserKeyForCurrentBaseURL(s) ->
           [base |-> s.base, key |-> Blank, saved |-> TRUE]
      [] OTHER -> NoInput

ResetDetectedCatalog(s) ==
    [s EXCEPT !.lastInput = NoInput, !.protocol = "", !.models = <<>>, !.model = ""]

InvalidateDetectedCatalogIfInputChanged(s) ==
    IF s.lastInput # NoInput /\ CurrentDetectionInput(s) # s.lastInput
    THEN ResetDetectedCatalog(s) ELSE s

ApplyCatalog(s, catalog, input) ==
    [s EXCEPT !.lastInput = input, !.protocol = catalog.protocol, !.models = catalog.models,
              !.model = RecommendedModel(catalog.protocol, catalog.models)]

CollapsedCatalogModels(model) == IF model = "" THEN <<>> ELSE <<model>>

ApplySnapshot(s, snap) ==
    LET t == [s EXCEPT !.source = snap.source, !.base = snap.base,
                       !.savedBase = IF snap.source = "user" THEN snap.base ELSE NoBase,
                       !.protocol = snap.protocol, !.model = snap.model,
                       !.keyStatus = snap.keyStatus, !.canConfigure = snap.canConfigure,
                       !.models = CollapsedCatalogModels(snap.model)]
    IN  [t EXCEPT !.lastInput = CurrentDetectionInput(t)]

ClearAPIKeyPreservingCatalog(s) ==
    LET t == [s EXCEPT !.key = Blank]
    IN  [t EXCEPT !.lastInput = CurrentDetectionInput(t)]

NewSheet ==
    [base |-> NoBase, key |-> Blank, model |-> "", protocol |-> "", models |-> <<>>,
     source |-> "none", savedBase |-> NoBase, keyStatus |-> "missing",
     canConfigure |-> TRUE, lastInput |-> NoInput, loaded |-> FALSE]

Lanes == {"load", "detect", "write"}
IdleCall == [stage |-> "idle", op |-> "", input |-> NoInput, model |-> "", key |-> "",
             catalog |-> NoCatalog, snap |-> Missing(FALSE), ok |-> FALSE]

Idle(d, lane) == call[d][lane].stage = "idle"

CanDetect(d) ==
    /\ sheet[d].canConfigure /\ Idle(d, "detect")
    /\ sheet[d].base # NoBase /\ HasUsableAPIKey(sheet[d])

CanSave(d) ==
    /\ sheet[d].canConfigure /\ Idle(d, "write")
    /\ sheet[d].base # NoBase /\ HasUsableAPIKey(sheet[d])
    /\ CurrentDetectionInput(sheet[d]) = sheet[d].lastInput
    /\ sheet[d].model \in ToSet(sheet[d].models)
    /\ sheet[d].protocol # ""

----------------------------------------------------------------------------
(* The user *)

Edit(d, s) ==
    /\ edits < MaxEdits
    /\ s # sheet[d]
    /\ sheet' = [sheet EXCEPT ![d] = s]
    /\ edits' = edits + 1
    /\ UNCHANGED <<store, row, call, calls, entered, sent>>

EditBaseURL(d, b) ==
    Edit(d, InvalidateDetectedCatalogIfInputChanged([sheet[d] EXCEPT !.base = b]))

EditAPIKey(d, k) ==
    Edit(d, InvalidateDetectedCatalogIfInputChanged([sheet[d] EXCEPT !.key = k]))

SelectModel(d) ==
    \E m \in ToSet(sheet[d].models) : Edit(d, [sheet[d] EXCEPT !.model = m])

Send(d, lane, op, input, model) ==
    /\ calls < MaxCalls
    /\ calls' = calls + 1
    /\ call' = [call EXCEPT ![d][lane] =
                  [IdleCall EXCEPT !.stage = "sent", !.op = op,
                                   !.input = input, !.model = model]]
    /\ entered' = entered \cup
         IF input.key = Blank THEN {} ELSE {<<input.base.host, input.key.key>>}
    /\ UNCHANGED <<store, row, sheet, edits, sent>>

LoadIfNeeded(d) ==
    ~sheet[d].loaded /\ Idle(d, "load") /\ Send(d, "load", "load", NoInput, "")

Detect(d) ==
    /\ CanDetect(d) /\ CurrentDetectionInput(sheet[d]) # NoInput
    /\ Send(d, "detect", "detect", CurrentDetectionInput(sheet[d]), "")

Save(d) ==
    CanSave(d) /\ Send(d, "write", "save", CurrentDetectionInput(sheet[d]), sheet[d].model)

Clear(d) ==
    /\ sheet[d].canConfigure /\ Idle(d, "write")
    /\ Send(d, "write", "clear", NoInput, "")

----------------------------------------------------------------------------
(* The facade.  A request that fails anywhere is answered with an error.   *)

Answer(d, lane, c) == call' = [call EXCEPT ![d][lane] = [c EXCEPT !.stage = "answered"]]

(* GET, and the read that ends PUT and DELETE. *)
SnapshotResponse(d, lane) ==
    /\ \/ lane = "load" /\ call[d][lane].stage = "sent"
       \/ lane = "write" /\ call[d][lane].stage = "written"
    /\ Answer(d, lane, [call[d][lane] EXCEPT !.ok = TRUE, !.snap = Snapshot])
    /\ UNCHANGED <<store, row, sheet, edits, calls, entered, sent>>

(* Resolving the key and probing the service, for a preview or a save. *)
DetectCatalogForRequest(d, lane, offered) ==
    LET c == call[d][lane]
        key == ApiKeyForRequest(c.input.base, c.input.key)
        found == DetectCatalog(c.input.base, key, offered)
        usable == store /\ key # ""
    IN  /\ c.stage = "sent" /\ c.op \in {"detect", "save"}
        /\ sent' = sent \cup IF ~usable THEN {}
                              ELSE {<<b.host, key>> : b \in ProbedUrls(c.input.base, key, offered)}
        /\ CASE ~usable \/ ~found.ok -> Answer(d, lane, c)
             [] c.op = "detect" /\ usable /\ found.ok ->
                  Answer(d, lane, [c EXCEPT !.ok = TRUE, !.catalog = found])
             [] OTHER ->
                  IF c.model \in ToSet(found.models)
                  THEN call' = [call EXCEPT ![d][lane] =
                         [c EXCEPT !.stage = "resolved", !.catalog = found, !.key = key]]
                  ELSE Answer(d, lane, c)
        /\ UNCHANGED <<store, row, sheet, edits, calls, entered>>

(* A bug that stores the URL as the user typed it. *)
UpsertTypedSetting(c) ==
    [saved |-> TRUE, base |-> c.input.base, key |-> c.key, model |-> c.model,
     protocol |-> c.catalog.protocol]

(* The row a save writes: what was detected, not what was typed. *)
UpsertSetting(c) ==
    [saved |-> TRUE, base |-> c.catalog.base, key |-> c.key, model |-> c.model,
     protocol |-> c.catalog.protocol]

SaveSettings(d) ==
    /\ call[d].write.stage = "resolved"
    /\ row' = UpsertSetting(call[d].write)
    /\ call' = [call EXCEPT ![d].write.stage = "written"]
    /\ UNCHANGED <<store, sheet, edits, calls, entered, sent>>

DeleteSettings(d) ==
    /\ call[d].write.stage = "sent" /\ call[d].write.op = "clear"
    /\ row' = IF store THEN NoRow ELSE row
    /\ call' = [call EXCEPT ![d].write.stage = "written"]
    /\ UNCHANGED <<store, sheet, edits, calls, entered, sent>>

(* The database or the connection fails: what was written stays written. *)
RequestFails(d, lane) ==
    /\ call[d][lane].stage \in {"sent", "resolved", "written"}
    /\ Answer(d, lane, [call[d][lane] EXCEPT !.ok = FALSE])
    /\ UNCHANGED <<store, row, sheet, edits, calls, entered, sent>>

----------------------------------------------------------------------------
(* The sheet takes an answer *)

Settle(d, lane, s) ==
    /\ call[d][lane].stage = "answered"
    /\ sheet' = [sheet EXCEPT ![d] = s]
    /\ call' = [call EXCEPT ![d][lane] = IdleCall]
    /\ UNCHANGED <<store, row, edits, calls, entered, sent>>

LoadSettles(d) ==
    LET c == call[d].load
        s == IF c.ok THEN ApplySnapshot(sheet[d], c.snap) ELSE sheet[d]
    IN  Settle(d, "load", [s EXCEPT !.loaded = TRUE])

DetectSettles(d) ==
    LET c == call[d].detect
    IN  Settle(d, "detect",
          CASE ~c.ok -> ResetDetectedCatalog(sheet[d])
            [] c.ok /\ CurrentDetectionInput(sheet[d]) = c.input ->
                 ApplyCatalog(sheet[d], c.catalog, c.input)
            [] OTHER -> sheet[d])

WriteSettles(d) ==
    LET c == call[d].write
    IN  Settle(d, "write",
          IF c.ok THEN ClearAPIKeyPreservingCatalog(ApplySnapshot(sheet[d], c.snap))
                  ELSE sheet[d])

----------------------------------------------------------------------------
Init ==
    /\ store \in BOOLEAN
    /\ row \in {NoRow} \cup (IF store THEN SavedBefore ELSE {})
    /\ sheet = [d \in Devices |-> IF row.saved
                  THEN [ApplySnapshot(NewSheet, Snapshot) EXCEPT !.loaded = TRUE]
                  ELSE NewSheet]
    /\ call = [d \in Devices |-> [lane \in Lanes |-> IdleCall]]
    /\ edits = 0 /\ calls = 0
    /\ entered = IF row.saved THEN {<<row.base.host, row.key>>} ELSE {}
    /\ sent = entered

UserActs(d) ==
    \/ \E b \in Bases : EditBaseURL(d, b)
    \/ \E k \in KeyInputs \cup {Blank} : EditAPIKey(d, k)
    \/ SelectModel(d)
    \/ LoadIfNeeded(d) \/ Detect(d) \/ Save(d) \/ Clear(d)

FacadeActs(d) ==
    \/ \E lane \in Lanes : SnapshotResponse(d, lane) \/ RequestFails(d, lane)
    \/ \E lane \in Lanes, offered \in 0..MaxOffered : DetectCatalogForRequest(d, lane, offered)
    \/ SaveSettings(d) \/ DeleteSettings(d)

SheetActs(d) == LoadSettles(d) \/ DetectSettles(d) \/ WriteSettles(d)

Next == \E d \in Devices : UserActs(d) \/ FacadeActs(d) \/ SheetActs(d)

Spec == Init /\ [][Next]_vars

----------------------------------------------------------------------------
(* The API key the facade sends to a model service was typed by the user   *)
(* for that very host: a key saved for one host is never reused for        *)
(* another, not even when one device still believes in a saved key that    *)
(* another device has replaced meanwhile (api_key_for_request).            *)
KeyStaysWithItsHost == sent \subseteq entered

(* What the row holds is something the chat can use: the service at the    *)
(* stored URL speaks the stored protocol, takes the stored key and offers  *)
(* the stored model, whichever saves, detections and clears overlapped     *)
(* (save_settings re-detects and stores what it detected).                 *)
StoredSettingWorks == row.saved => Works(row)
=============================================================================
