------------------------ MODULE AgentSettingsProofs -------------------------
(***************************************************************************)
(* Proofs about the model settings: a key is sent to no host but the one   *)
(* it was typed for, and the row always holds a setting that works, for    *)
(* every number of devices, every set of URLs, hosts, keys and services,   *)
(* and every length of a run.                                              *)
(*                                                                         *)
(* SettingsInd follows a key along its ways: from the request it was typed *)
(* in, through the resolved save, into the row, and from the row back into *)
(* a request that carries none.  The link between the two is that every    *)
(* URL detection derives from a base keeps the base's host.                *)
(***************************************************************************)
EXTENDS AgentSettings, NaturalsInduction, WellFoundedInduction, TLAPS

CallFields == {"stage", "op", "input", "model", "key", "catalog", "snap", "ok"}

(* A request that was sent carries a key typed for its base, or none.      *)
SentOK(c, typed) ==
    c.stage = "sent" /\ c.input.key # Blank => <<c.input.base.host, c.input.key.key>> \in typed

(* A save that was resolved will write a row that works, and its key was   *)
(* typed for the host of the URL that was detected.                        *)
ResolvedOK(c, typed) ==
    c.stage = "resolved" =>
      /\ c.catalog.base \in BaseUrls
      /\ Works(UpsertSetting(c))
      /\ <<c.catalog.base.host, c.key>> \in typed

CallOK(c, typed) ==
    /\ CallFields \subseteq DOMAIN c
    /\ c.input.base \in BaseUrls /\ c.snap.base \in BaseUrls
    /\ SentOK(c, typed) /\ ResolvedOK(c, typed)

CallsIn(f, typed) ==
    /\ DOMAIN f = Devices
    /\ \A d \in Devices : DOMAIN f[d] = Lanes /\ \A lane \in Lanes : CallOK(f[d][lane], typed)
CallsOK == CallsIn(call, entered)

SheetOK(s) == "base" \in DOMAIN s /\ s.base \in BaseUrls
SheetsIn(f) == DOMAIN f = Devices /\ \A d \in Devices : SheetOK(f[d])
SheetsOK == SheetsIn(sheet)

RowOK ==
    /\ row.base \in BaseUrls
    /\ row.saved => Works(row) /\ <<row.base.host, row.key>> \in entered

(* The inductive invariant: what is stored, and what is on its way.        *)
SettingsInd == RowOK /\ SheetsOK /\ CallsOK /\ KeyStaysWithItsHost

-----------------------------------------------------------------------------
(* The empty URL of a blank sheet counts as one.                           *)
LEMMA NoBaseIsUrl == NoBase \in BaseUrls
BY DEF NoBase, BaseUrls

(* A set of natural numbers that is not empty has a least element, which   *)
(* is its Min.                                                             *)
LEMMA LeastHit ==
    ASSUME NEW S \in SUBSET Nat, S # {}
    PROVE  Min(S) \in S /\ \A i \in S : Min(S) <= i
<1> DEFINE Less == {ss \in Nat \X Nat : ss[1] < ss[2]}
<1>1. IsWellFoundedOn(Less, Nat)
  BY NatLessThanWellFounded DEF OpToRel
<1>2. \E x \in S : \A y \in S : ~ (<<y, x>> \in Less)
  <2> HIDE DEF Less
  <2> QED  BY <1>1, WFMin
<1>3. \E x \in S : \A y \in S : x <= y
  <2> HIDE DEF Less
  <2>1. PICK x \in S : \A y \in S : ~ (<<y, x>> \in Less)
    BY <1>2
  <2>2. ASSUME NEW y \in S PROVE x <= y
    <3>1. x \in Nat /\ y \in Nat  OBVIOUS
    <3>2. ~ (y < x)
      BY <2>1, <3>1 DEF Less
    <3> QED  BY <3>1, <3>2
  <2> QED  BY <2>2
<1> QED  BY <1>3 DEF Min

(* The URLs of one host.                                                   *)
SameHost(h) == {b \in BaseUrls : b.host = h}

(* Pushing a URL of a host onto URLs of that host.                         *)
LEMMA PushKeepsHost ==
    ASSUME NEW h, NEW urls \in Seq(SameHost(h)), NEW url \in SameHost(h)
    PROVE  PushUniqueUrl(urls, url) \in Seq(SameHost(h))
BY DEF PushUniqueUrl

(* What trimming and versioning derive from a base keeps its host.         *)
LEMMA TrimKeepsHost ==
    ASSUME NEW base \in BaseUrls
    PROVE  TrimKnownEndpointSuffix(base) \in SameHost(base.host)
<1> DEFINE n == Len(base.path)
<1>1. base.path \in Seq(Segments \cup {"v1"}) /\ base = [host |-> base.host, path |-> base.path]
  BY DEF BaseUrls
<1>2. ASSUME NEW p \in Seq(Segments \cup {"v1"}) PROVE [base EXCEPT !.path = p] \in SameHost(base.host)
  BY DEF BaseUrls, SameHost
<1>3. ASSUME n >= 2 PROVE SubSeq(base.path, 1, n - 2) \in Seq(Segments \cup {"v1"})
  BY <1>1, <1>3
<1>4. ASSUME n >= 1 PROVE Front(base.path) \in Seq(Segments \cup {"v1"})
  BY <1>1, <1>4 DEF Front
<1>5. base \in SameHost(base.host)
  BY DEF SameHost
<1> QED  BY <1>2, <1>3, <1>4, <1>5 DEF TrimKnownEndpointSuffix

(* So do the candidates of one base: they differ in the path alone.        *)
LEMMA PushApiKeepsHost ==
    ASSUME NEW h, NEW urls \in Seq(SameHost(h)), NEW base \in SameHost(h)
    PROVE  PushApiBaseUrlCandidates(urls, base) \in Seq(SameHost(h))
<1> DEFINE versioned == [base EXCEPT !.path = <<"v1">>]
<1>1. versioned \in SameHost(h)
  <2>1. <<"v1">> \in Seq(Segments \cup {"v1"})
    OBVIOUS
  <2>2. ASSUME NEW p \in Seq(Segments \cup {"v1"}) PROVE [base EXCEPT !.path = p] \in SameHost(h)
    BY DEF BaseUrls, SameHost
  <2> QED  BY <2>1, <2>2
<1> HIDE DEF versioned
<1>2. PushUniqueUrl(urls, base) \in Seq(SameHost(h)) /\ PushUniqueUrl(urls, versioned) \in Seq(SameHost(h))
  BY <1>1, PushKeepsHost
<1>3. /\ PushUniqueUrl(PushUniqueUrl(urls, versioned), base) \in Seq(SameHost(h))
      /\ PushUniqueUrl(PushUniqueUrl(urls, base), versioned) \in Seq(SameHost(h))
  BY <1>1, <1>2, PushKeepsHost
<1> QED  BY <1>2, <1>3 DEF PushApiBaseUrlCandidates, versioned

(* Every URL detection tries for a base is of the base's host: the facade  *)
(* never carries a key to another host (agent_base_url_candidates).        *)
LEMMA CandidatesKeepHost ==
    ASSUME NEW base \in BaseUrls
    PROVE  /\ AgentBaseUrlCandidates(base) \in Seq(BaseUrls)
           /\ \A b \in ToSet(AgentBaseUrlCandidates(base)) : b \in BaseUrls /\ b.host = base.host
<1> DEFINE h == base.host
           trimmed == TrimKnownEndpointSuffix(base)
           first == IF trimmed = base THEN <<>> ELSE PushApiBaseUrlCandidates(<<>>, trimmed)
<1>1. trimmed \in SameHost(h) /\ base \in SameHost(h)
  BY TrimKeepsHost DEF SameHost
<1>2. <<>> \in Seq(SameHost(h))
  OBVIOUS
<1> HIDE DEF trimmed
<1>3. first \in Seq(SameHost(h))
  BY <1>1, <1>2, PushApiKeepsHost
<1> HIDE DEF first
<1>4. PushApiBaseUrlCandidates(first, base) \in Seq(SameHost(h))
  BY <1>1, <1>3, PushApiKeepsHost
<1>5. AgentBaseUrlCandidates(base) \in Seq(SameHost(h))
  BY <1>4 DEF AgentBaseUrlCandidates, first, trimmed
<1> QED  BY <1>5 DEF SameHost, ToSet

(* Two bases that share a candidate share their host.                      *)
LEMMA SharingKeepsHost ==
    ASSUME NEW left \in BaseUrls, NEW right \in BaseUrls,
           BaseUrlsShareDetectionCandidate(left, right)
    PROVE  left.host = right.host
BY CandidatesKeepHost DEF BaseUrlsShareDetectionCandidate

(* A catalog that was detected: the service at its URL takes the key and   *)
(* speaks its protocol, and lists its models.                              *)
Detected(found, key) ==
    /\ found.base \in DOMAIN Service
    /\ found.protocol = Service[found.base].protocol
    /\ key \in Service[found.base].keys
    /\ ToSet(found.models) \subseteq ToSet(Service[found.base].models)

(* A probe that succeeds lists models the service offers to that key.      *)
LEMMA ProbeIsTrue ==
    ASSUME NEW base, NEW protocol, NEW key, NEW offered \in Nat,
           ProbeProtocolModels(base, protocol, key, offered).status = "ok"
    PROVE  /\ base \in DOMAIN Service
           /\ Service[base].protocol = protocol /\ key \in Service[base].keys
           /\ ToSet(ProbeProtocolModels(base, protocol, key, offered).models)
                 \subseteq ToSet(Service[base].models)
<1> DEFINE answers == /\ base \in DOMAIN Service
                      /\ Service[base].protocol = protocol /\ key \in Service[base].keys
           listed == IF base \in DOMAIN Service THEN Service[base].models ELSE <<>>
           n == IF offered < Len(listed) THEN offered ELSE Len(listed)
           models == SubSeq(listed, 1, n)
<1>1. answers
  BY DEF ProbeProtocolModels
<1>2. listed = Service[base].models /\ listed \in Seq(Models)
  BY <1>1, SettingsConfig
<1>3. ProbeProtocolModels(base, protocol, key, offered).models = models
  BY <1>1 DEF ProbeProtocolModels
<1> HIDE DEF listed
<1>4. n \in 0 .. Len(listed)
  BY <1>2
<1> HIDE DEF n
<1>5. Len(models) = n /\ \A i \in 1 .. n : models[i] = listed[i]
  BY <1>2, <1>4
<1>6. ToSet(models) \subseteq ToSet(listed)
  BY <1>2, <1>4, <1>5 DEF ToSet
<1> QED  BY <1>1, <1>2, <1>3, <1>6

(* What is detected for one URL is what its service speaks and takes.      *)
LEMMA BaseUrlDetection ==
    ASSUME NEW base \in BaseUrls, NEW key, NEW offered \in Nat,
           DetectCatalogForBaseUrl(base, key, offered).ok
    PROVE  /\ DetectCatalogForBaseUrl(base, key, offered).base = base
           /\ Detected(DetectCatalogForBaseUrl(base, key, offered), key)
<1> DEFINE order == ProtocolProbeOrder(base)
           hits == {i \in DOMAIN order :
                      ProbeProtocolModels(base, order[i], key, offered).status = "ok"}
           protocol == order[Min(hits)]
           probe == ProbeProtocolModels(base, protocol, key, offered)
           found == [ok |-> TRUE, base |-> base, protocol |-> protocol, models |-> probe.models]
<1>1. hits # {} /\ DetectCatalogForBaseUrl(base, key, offered) = found
  BY DEF DetectCatalogForBaseUrl, NoCatalog
<1>2. DOMAIN order = 1 .. 2
  BY DEF ProtocolProbeOrder
<1> HIDE DEF order
<1>3. hits \in SUBSET Nat
  BY <1>2
<1>4. Min(hits) \in hits
  <2> HIDE DEF hits
  <2> QED  BY <1>1, <1>3, LeastHit
<1>5. probe.status = "ok"
  BY <1>4
<1> HIDE DEF protocol, hits
<1>6. /\ base \in DOMAIN Service
      /\ Service[base].protocol = protocol /\ key \in Service[base].keys
      /\ ToSet(probe.models) \subseteq ToSet(Service[base].models)
  BY <1>5, ProbeIsTrue
<1> HIDE DEF probe
<1> QED  BY <1>1, <1>6 DEF Detected

(* Detection from a base finds a URL of the same host, and the truth about *)
(* the service there.                                                      *)
LEMMA Detection ==
    ASSUME NEW base \in BaseUrls, NEW key, NEW offered \in Nat,
           DetectCatalog(base, key, offered).ok
    PROVE  /\ Detected(DetectCatalog(base, key, offered), key)
           /\ DetectCatalog(base, key, offered).base \in BaseUrls
           /\ DetectCatalog(base, key, offered).base.host = base.host
<1> DEFINE urls == AgentBaseUrlCandidates(base)
           hits == {i \in DOMAIN urls : DetectCatalogForBaseUrl(urls[i], key, offered).ok}
           url == urls[Min(hits)]
<1>1. hits # {} /\ DetectCatalog(base, key, offered) = DetectCatalogForBaseUrl(url, key, offered)
  BY DEF DetectCatalog, NoCatalog
<1>2. urls \in Seq(BaseUrls) /\ \A b \in ToSet(urls) : b \in BaseUrls /\ b.host = base.host
  BY CandidatesKeepHost
<1> HIDE DEF urls
<1>3. hits \in SUBSET Nat
  BY <1>2
<1>4. Min(hits) \in hits
  <2> HIDE DEF hits
  <2> QED  BY <1>1, <1>3, LeastHit
<1>5. Min(hits) \in DOMAIN urls /\ DetectCatalogForBaseUrl(url, key, offered).ok
  BY <1>4
<1> HIDE DEF hits
<1>6. url \in BaseUrls /\ url.host = base.host
  BY <1>2, <1>5 DEF ToSet
<1> HIDE DEF url
<1> QED  BY <1>1, <1>5, <1>6, BaseUrlDetection

(* A key goes to the base's host only.                                     *)
LEMMA ProbedHost ==
    ASSUME NEW base \in BaseUrls, NEW key, NEW offered,
           NEW b \in ProbedUrls(base, key, offered)
    PROVE  b.host = base.host
BY CandidatesKeepHost DEF ProbedUrls, ToSet

-----------------------------------------------------------------------------
(* One request, or one sheet, is replaced.                                 *)
LEMMA CallReplaced ==
    ASSUME NEW f, NEW g, NEW typed, NEW d \in Devices, NEW lane \in Lanes, NEW c,
           CallsIn(f, typed), CallOK(c, typed), g = [f EXCEPT ![d][lane] = c]
    PROVE  CallsIn(g, typed)
<1>1. DOMAIN g = Devices /\ \A e \in Devices : DOMAIN g[e] = Lanes
  BY DEF CallsIn
<1>2. ASSUME NEW e \in Devices, NEW l \in Lanes PROVE CallOK(g[e][l], typed)
  <2>1. CASE e = d /\ l = lane
    <3>1. g[e][l] = c
      BY <2>1 DEF CallsIn
    <3> QED  BY <3>1
  <2>2. CASE ~ (e = d /\ l = lane)
    <3>1. g[e][l] = f[e][l]
      BY <2>2 DEF CallsIn
    <3> QED  BY <3>1 DEF CallsIn
  <2> QED  BY <2>1, <2>2
<1> QED  BY <1>1, <1>2 DEF CallsIn

(* Keys that are typed later do no harm.                                   *)
LEMMA TypedGrows ==
    ASSUME NEW f, NEW typed, NEW more, typed \subseteq more, CallsIn(f, typed)
    PROVE  CallsIn(f, more)
BY DEF CallsIn, CallOK, SentOK, ResolvedOK

(* A sheet is replaced by a good one.                                      *)
LEMMA SheetReplaced ==
    ASSUME NEW f, NEW d \in Devices, NEW s, SheetsIn(f), SheetOK(s)
    PROVE  SheetsIn([f EXCEPT ![d] = s])
BY DEF SheetsIn

(* What the sheet does to itself keeps its base a URL.                     *)
LEMMA SheetKept ==
    ASSUME NEW s, SheetOK(s)
    PROVE  /\ \A b \in BaseUrls : SheetOK([s EXCEPT !.base = b])
           /\ \A k : SheetOK([s EXCEPT !.key = k])
           /\ \A m : SheetOK([s EXCEPT !.model = m])
           /\ SheetOK([s EXCEPT !.loaded = TRUE])
           /\ SheetOK(ResetDetectedCatalog(s))
           /\ SheetOK(InvalidateDetectedCatalogIfInputChanged(s))
           /\ \A catalog, input : SheetOK(ApplyCatalog(s, catalog, input))
           /\ SheetOK(ClearAPIKeyPreservingCatalog(s))
           /\ \A snap : snap.base \in BaseUrls => SheetOK(ApplySnapshot(s, snap))
           /\ CurrentDetectionInput(s).base \in BaseUrls
<1>1. NoInput.base \in BaseUrls
  BY NoBaseIsUrl DEF NoInput
<1>2. SheetOK(ResetDetectedCatalog(s))
  BY DEF SheetOK, ResetDetectedCatalog
<1>3. ASSUME NEW snap, snap.base \in BaseUrls PROVE SheetOK(ApplySnapshot(s, snap))
  BY <1>3 DEF SheetOK, ApplySnapshot
<1>4. \A catalog, input : SheetOK(ApplyCatalog(s, catalog, input))
  BY DEF SheetOK, ApplyCatalog
<1>5. SheetOK(ClearAPIKeyPreservingCatalog(s))
  BY DEF SheetOK, ClearAPIKeyPreservingCatalog
<1>6. CurrentDetectionInput(s).base \in BaseUrls
  BY <1>1 DEF SheetOK, CurrentDetectionInput
<1>7. SheetOK(InvalidateDetectedCatalogIfInputChanged(s))
  BY <1>2 DEF InvalidateDetectedCatalogIfInputChanged
<1>8. /\ \A b \in BaseUrls : SheetOK([s EXCEPT !.base = b])
      /\ \A k : SheetOK([s EXCEPT !.key = k])
      /\ \A m : SheetOK([s EXCEPT !.model = m])
      /\ SheetOK([s EXCEPT !.loaded = TRUE])
  BY DEF SheetOK
<1> QED  BY <1>2, <1>3, <1>4, <1>5, <1>6, <1>7, <1>8

-----------------------------------------------------------------------------
(* The parts of the invariant that a step leaves alone.                    *)
LEMMA RowKept ==
    ASSUME RowOK, UNCHANGED row, entered \subseteq entered'
    PROVE  RowOK'
BY DEF RowOK, Works

(* The invariant holds at the start, with or without a saved row.          *)
LEMMA InitSettings == Init => SettingsInd
<1> SUFFICES ASSUME Init PROVE SettingsInd
  OBVIOUS
<1>1. NoBase \in BaseUrls
  BY NoBaseIsUrl
<1>2. row.base \in BaseUrls /\ (row.saved => Works(row))
  <2>1. row = NoRow \/ row \in SavedBefore
    BY DEF Init
  <2>2. NoRow.base = NoBase /\ NoRow.saved = FALSE
    BY DEF NoRow
  <2> QED  BY <1>1, <2>1, <2>2, SettingsConfig
<1>3. RowOK
  BY <1>2 DEF Init, RowOK
<1>4. ASSUME row.saved PROVE Snapshot.base \in BaseUrls
  BY <1>1, <1>2, SettingsConfig DEF Snapshot, FromSummary, Missing
<1>5. SheetOK(NewSheet)
  BY <1>1 DEF SheetOK, NewSheet
<1>6. ASSUME row.saved PROVE SheetOK([ApplySnapshot(NewSheet, Snapshot) EXCEPT !.loaded = TRUE])
  <2>1. SheetOK(ApplySnapshot(NewSheet, Snapshot))
    BY <1>4, <1>5, <1>6, SheetKept
  <2> QED  BY <2>1, SheetKept
<1>7. SheetsOK
  BY <1>5, <1>6 DEF Init, SheetsOK, SheetsIn
<1>8. CallOK(IdleCall, entered)
  <2>1. CallFields \subseteq DOMAIN IdleCall /\ IdleCall.stage = "idle"
    BY DEF CallFields, IdleCall
  <2>2. IdleCall.input.base = NoBase /\ IdleCall.snap.base = NoBase
    BY DEF IdleCall, NoInput, Missing
  <2> QED  BY <1>1, <2>1, <2>2 DEF CallOK, SentOK, ResolvedOK
<1>9. CallsOK
  BY <1>8 DEF Init, CallsOK, CallsIn
<1>10. KeyStaysWithItsHost
  BY DEF Init, KeyStaysWithItsHost
<1> QED  BY <1>3, <1>7, <1>9, <1>10 DEF SettingsInd

(* A step of the sheet alone: an edit.                                     *)
LEMMA EditPreserves ==
    ASSUME SettingsInd, NEW d \in Devices,
           \/ \E b \in Bases : EditBaseURL(d, b)
           \/ \E k \in KeyInputs \cup {Blank} : EditAPIKey(d, k)
           \/ SelectModel(d)
    PROVE  SettingsInd'
<1>1. SheetOK(sheet[d])
  BY DEF SettingsInd, SheetsOK, SheetsIn
<1>2. SUFFICES ASSUME NEW s, SheetOK(s), sheet' = [sheet EXCEPT ![d] = s],
                      UNCHANGED <<store, row, call, calls, entered, sent>>
               PROVE  SettingsInd'
  <2>1. ASSUME NEW b \in Bases, EditBaseURL(d, b) PROVE SettingsInd'
    <3>1. SheetOK([sheet[d] EXCEPT !.base = b])
      BY <1>1, SheetKept, SettingsConfig
    <3>2. SheetOK(InvalidateDetectedCatalogIfInputChanged([sheet[d] EXCEPT !.base = b]))
      BY <3>1, SheetKept
    <3> QED  BY <2>1, <3>2, <1>2 DEF EditBaseURL, Edit
  <2>2. ASSUME NEW k, EditAPIKey(d, k) PROVE SettingsInd'
    <3>1. SheetOK([sheet[d] EXCEPT !.key = k])
      BY <1>1, SheetKept
    <3>2. SheetOK(InvalidateDetectedCatalogIfInputChanged([sheet[d] EXCEPT !.key = k]))
      BY <3>1, SheetKept
    <3> QED  BY <2>2, <3>2, <1>2 DEF EditAPIKey, Edit
  <2>3. ASSUME NEW m, Edit(d, [sheet[d] EXCEPT !.model = m]) PROVE SettingsInd'
    <3>1. SheetOK([sheet[d] EXCEPT !.model = m])
      BY <1>1, SheetKept
    <3> QED  BY <2>3, <3>1, <1>2 DEF Edit
  <2> QED  BY <2>1, <2>2, <2>3 DEF SelectModel
<1>3. SheetsOK'
  BY <1>2, SheetReplaced DEF SettingsInd, SheetsOK
<1>4. RowOK'
  BY <1>2, RowKept DEF SettingsInd
<1> QED  BY <1>2, <1>3, <1>4 DEF SettingsInd, CallsOK, KeyStaysWithItsHost

(* A request leaves the sheet.                                             *)
LEMMA SendPreserves ==
    ASSUME SettingsInd, NEW d \in Devices, NEW lane \in Lanes, NEW op, NEW input, NEW model,
           input.base \in BaseUrls, Send(d, lane, op, input, model)
    PROVE  SettingsInd'
<1> DEFINE c == [IdleCall EXCEPT !.stage = "sent", !.op = op, !.input = input, !.model = model]
<1>1. entered \subseteq entered' /\ UNCHANGED <<store, row, sheet, edits, sent>>
  BY DEF Send
<1>2. NoBase \in BaseUrls
  BY NoBaseIsUrl
<1>3. CallFields \subseteq DOMAIN c /\ c.stage = "sent" /\ c.input = input /\ c.snap.base = NoBase
  <2>1. CallFields \subseteq DOMAIN IdleCall
    BY DEF CallFields, IdleCall
  <2>2. IdleCall.snap.base = NoBase
    BY DEF IdleCall, Missing
  <2> QED  BY <2>1, <2>2 DEF CallFields
<1>4. input.key # Blank => <<input.base.host, input.key.key>> \in entered'
  BY DEF Send
<1>5. call' = [call EXCEPT ![d][lane] = c]
  BY DEF Send
<1> HIDE DEF c
<1>6. CallOK(c, entered')
  BY <1>2, <1>3, <1>4 DEF CallOK, SentOK, ResolvedOK
<1>7. CallsIn(call, entered')
  BY <1>1, TypedGrows DEF SettingsInd, CallsOK
<1>8. CallsIn(call', entered')
  BY <1>5, <1>6, <1>7, CallReplaced
<1>9. RowOK'
  BY <1>1, RowKept DEF SettingsInd
<1> QED  BY <1>1, <1>8, <1>9 DEF SettingsInd, SheetsOK, CallsOK, KeyStaysWithItsHost

(* Sending a request keeps the invariant.                                  *)
LEMMA RequestPreserves ==
    ASSUME SettingsInd, NEW d \in Devices, LoadIfNeeded(d) \/ Detect(d) \/ Save(d) \/ Clear(d)
    PROVE  SettingsInd'
<1>1. NoInput.base \in BaseUrls
  BY NoBaseIsUrl DEF NoInput
<1>2. CurrentDetectionInput(sheet[d]).base \in BaseUrls
  BY SheetKept DEF SettingsInd, SheetsOK, SheetsIn
<1>3. {"load", "detect", "write"} \subseteq Lanes
  BY DEF Lanes
<1>4. CASE LoadIfNeeded(d)
  BY <1>1, <1>3, <1>4, SendPreserves DEF LoadIfNeeded
<1>5. CASE Detect(d)
  BY <1>2, <1>3, <1>5, SendPreserves DEF Detect
<1>6. CASE Save(d)
  BY <1>2, <1>3, <1>6, SendPreserves DEF Save
<1>7. CASE Clear(d)
  BY <1>1, <1>3, <1>7, SendPreserves DEF Clear
<1> QED  BY <1>4, <1>5, <1>6, <1>7

(* A request is answered: what it carries is not used any more.            *)
LEMMA AnswerKeepsCalls ==
    ASSUME CallsOK, NEW d \in Devices, NEW lane \in Lanes, NEW c,
           CallFields \subseteq DOMAIN c, c.input.base \in BaseUrls, c.snap.base \in BaseUrls,
           Answer(d, lane, c), UNCHANGED entered
    PROVE  CallsOK'
<1> DEFINE answered == [c EXCEPT !.stage = "answered"]
<1>1. CallFields \subseteq DOMAIN answered /\ answered.stage = "answered"
      /\ answered.input = c.input /\ answered.snap = c.snap
  BY DEF CallFields
<1>2. call' = [call EXCEPT ![d][lane] = answered]
  BY DEF Answer
<1> HIDE DEF answered
<1>3. CallOK(answered, entered)
  BY <1>1 DEF CallOK, SentOK, ResolvedOK
<1>4. CallsIn(call', entered)
  BY <1>2, <1>3, CallReplaced DEF CallsOK
<1> QED  BY <1>4 DEF CallsOK

(* An answer that reaches its sheet keeps it.                              *)
LEMMA AnswerPreserves ==
    ASSUME SettingsInd, NEW d \in Devices, NEW lane \in Lanes,
           SnapshotResponse(d, lane) \/ RequestFails(d, lane)
    PROVE  SettingsInd'
<1> DEFINE c == call[d][lane]
           served == [c EXCEPT !.ok = TRUE, !.snap = Snapshot]
           failed == [c EXCEPT !.ok = FALSE]
<1>1. CallFields \subseteq DOMAIN c /\ c.input.base \in BaseUrls /\ c.snap.base \in BaseUrls
  BY DEF SettingsInd, CallsOK, CallsIn, CallOK
<1>2. Snapshot.base \in BaseUrls
  BY NoBaseIsUrl, SettingsConfig DEF Snapshot, FromSummary, Missing, SettingsInd, RowOK
<1>3. /\ CallFields \subseteq DOMAIN served /\ served.input = c.input /\ served.snap = Snapshot
      /\ CallFields \subseteq DOMAIN failed /\ failed.input = c.input /\ failed.snap = c.snap
  BY <1>1 DEF CallFields
<1>4. /\ Answer(d, lane, served) \/ Answer(d, lane, failed)
      /\ UNCHANGED <<store, row, sheet, edits, calls, entered, sent>>
  BY DEF SnapshotResponse, RequestFails
<1> HIDE DEF c, served, failed
<1>5. CallsOK'
  BY <1>1, <1>2, <1>3, <1>4, AnswerKeepsCalls DEF SettingsInd
<1>6. RowOK'
  BY <1>4, RowKept DEF SettingsInd
<1> QED  BY <1>4, <1>5, <1>6 DEF SettingsInd, SheetsOK, KeyStaysWithItsHost

(* The key of a request, typed or saved, was typed for its host.           *)
LEMMA RequestKey ==
    ASSUME RowOK, NEW c, CallOK(c, entered), c.stage = "sent",
           ApiKeyForRequest(c.input.base, c.input.key) # ""
    PROVE  <<c.input.base.host, ApiKeyForRequest(c.input.base, c.input.key)>> \in entered
<1> DEFINE base == c.input.base
           typed == c.input.key
           given == OptionalTrimmedApiKey(typed)
<1>1. base \in BaseUrls /\ row.base \in BaseUrls
  BY DEF CallOK, RowOK
<1>2. CASE given.kind = "given"
  <2>1. typed # Blank /\ given.key = typed.key
    BY <1>2 DEF OptionalTrimmedApiKey
  <2>2. ApiKeyForRequest(base, typed) = typed.key
    BY <1>2, <2>1 DEF ApiKeyForRequest
  <2> QED  BY <2>1, <2>2 DEF CallOK, SentOK
<1>3. CASE given.kind # "given"
  <2>1. /\ given.kind = "none" /\ row.saved
        /\ BaseUrlsShareDetectionCandidate(row.base, base)
        /\ ApiKeyForRequest(base, typed) = row.key
    BY <1>3 DEF ApiKeyForRequest
  <2>2. row.base.host = base.host
    BY <1>1, <2>1, SharingKeepsHost
  <2> QED  BY <2>1, <2>2 DEF RowOK
<1> QED  BY <1>2, <1>3

(* Detection sends the key to the base's host, and resolves a save into a  *)
(* row that works.                                                         *)
LEMMA DetectionPreserves ==
    ASSUME SettingsInd, NEW d \in Devices, NEW lane \in Lanes, NEW offered \in 0 .. MaxOffered,
           DetectCatalogForRequest(d, lane, offered)
    PROVE  SettingsInd'
<1> DEFINE c == call[d][lane]
           key == ApiKeyForRequest(c.input.base, c.input.key)
           found == DetectCatalog(c.input.base, key, offered)
           usable == store /\ key # ""
           detected == [c EXCEPT !.ok = TRUE, !.catalog = found]
           resolved == [c EXCEPT !.stage = "resolved", !.catalog = found, !.key = key]
<1>1. /\ CallOK(c, entered) /\ CallFields \subseteq DOMAIN c
      /\ c.input.base \in BaseUrls /\ c.snap.base \in BaseUrls
  BY DEF SettingsInd, CallsOK, CallsIn, CallOK
<1>2. c.stage = "sent" /\ UNCHANGED <<store, row, sheet, edits, calls, entered>>
  BY DEF DetectCatalogForRequest
<1>3. usable => <<c.input.base.host, key>> \in entered
  BY <1>1, <1>2, RequestKey DEF SettingsInd
<1>4. KeyStaysWithItsHost'
  <2>1. sent' = sent \cup IF ~usable THEN {}
                          ELSE {<<b.host, key>> : b \in ProbedUrls(c.input.base, key, offered)}
    BY DEF DetectCatalogForRequest
  <2> HIDE DEF c, key
  <2>2. ASSUME usable PROVE \A b \in ProbedUrls(c.input.base, key, offered) : <<b.host, key>> \in entered
    <3> DEFINE base == c.input.base
    <3>1. base \in BaseUrls /\ <<base.host, key>> \in entered
      BY <1>1, <1>3, <2>2
    <3> HIDE DEF base
    <3>2. ASSUME NEW b \in ProbedUrls(base, key, offered) PROVE <<b.host, key>> \in entered
      <4>1. b.host = base.host
        BY <3>1, ProbedHost
      <4> QED  BY <3>1, <4>1
    <3> QED  BY <3>2 DEF base
  <2> QED  BY <1>2, <2>1, <2>2 DEF KeyStaysWithItsHost, SettingsInd
<1>5. /\ CallFields \subseteq DOMAIN detected /\ detected.input = c.input /\ detected.snap = c.snap
      /\ CallFields \subseteq DOMAIN resolved /\ resolved.input = c.input /\ resolved.snap = c.snap
      /\ resolved.stage = "resolved" /\ resolved.catalog = found /\ resolved.key = key
      /\ resolved.model = c.model
  BY <1>1 DEF CallFields
<1>6. \/ Answer(d, lane, c)
      \/ Answer(d, lane, detected)
      \/ /\ usable /\ found.ok /\ c.model \in ToSet(found.models)
         /\ call' = [call EXCEPT ![d][lane] = resolved]
  BY DEF DetectCatalogForRequest
<1>7. CallsOK'
  <2>1. CASE Answer(d, lane, c) \/ Answer(d, lane, detected)
    <3> HIDE DEF c, detected
    <3> QED  BY <1>1, <1>2, <1>5, <2>1, AnswerKeepsCalls DEF SettingsInd
  <2>2. CASE /\ usable /\ found.ok /\ c.model \in ToSet(found.models)
             /\ call' = [call EXCEPT ![d][lane] = resolved]
    <3>1. offered \in Nat
      BY SettingsConfig
    <3> HIDE DEF c, key
    <3>2. /\ Detected(found, key) /\ found.base \in BaseUrls
          /\ found.base.host = c.input.base.host
      BY <1>1, <2>2, <3>1, Detection
    <3> HIDE DEF found, resolved
    <3>3. Works(UpsertSetting(resolved))
      BY <1>5, <2>2, <3>2 DEF Works, UpsertSetting, Detected
    <3>4. CallOK(resolved, entered)
      BY <1>1, <1>3, <1>5, <2>2, <3>2, <3>3 DEF CallOK, SentOK, ResolvedOK
    <3>5. CallsIn(call', entered)
      BY <2>2, <3>4, CallReplaced DEF SettingsInd, CallsOK
    <3> QED  BY <1>2, <3>5 DEF CallsOK
  <2> QED  BY <1>6, <2>1, <2>2
<1>8. RowOK'
  BY <1>2, RowKept DEF SettingsInd
<1> QED  BY <1>2, <1>4, <1>7, <1>8 DEF SettingsInd, SheetsOK

(* The row is written: with what was resolved, or cleared.                 *)
LEMMA WritePreserves ==
    ASSUME SettingsInd, NEW d \in Devices, SaveSettings(d) \/ DeleteSettings(d)
    PROVE  SettingsInd'
<1> DEFINE c == call[d]["write"]
           written == [c EXCEPT !.stage = "written"]
<1>1. "write" \in Lanes
  BY DEF Lanes
<1>2. /\ CallOK(c, entered) /\ CallFields \subseteq DOMAIN c
      /\ c.input.base \in BaseUrls /\ c.snap.base \in BaseUrls
  BY <1>1 DEF SettingsInd, CallsOK, CallsIn, CallOK
<1>3. UNCHANGED <<store, sheet, edits, calls, entered, sent>>
  BY DEF SaveSettings, DeleteSettings
<1>4. call' = [call EXCEPT ![d]["write"] = written]
  <2>1. call' = [call EXCEPT ![d]["write"] = [@ EXCEPT !.stage = "written"]]
    BY DEF SaveSettings, DeleteSettings
  <2> QED  BY <1>1, <2>1 DEF SettingsInd, CallsOK, CallsIn
<1>5. /\ CallFields \subseteq DOMAIN written /\ written.stage = "written"
      /\ written.input = c.input /\ written.snap = c.snap
  BY <1>2 DEF CallFields
<1>6. RowOK'
  <2>1. CASE SaveSettings(d)
    <3>1. c.stage = "resolved" /\ row' = UpsertSetting(c)
      BY <2>1 DEF SaveSettings
    <3>2. Works(UpsertSetting(c)) /\ c.catalog.base \in BaseUrls /\ <<c.catalog.base.host, c.key>> \in entered
      BY <1>2, <3>1 DEF CallOK, ResolvedOK
    <3> HIDE DEF c
    <3>3. UpsertSetting(c).base = c.catalog.base /\ UpsertSetting(c).key = c.key
      BY DEF UpsertSetting
    <3>4. Works(row')
      BY <3>1, <3>2
    <3> QED  BY <1>3, <3>1, <3>2, <3>3, <3>4 DEF RowOK, Works
  <2>2. CASE DeleteSettings(d)
    <3>1. row' = NoRow \/ row' = row
      BY <2>2 DEF DeleteSettings
    <3>2. NoRow.base = NoBase /\ NoRow.saved = FALSE
      BY DEF NoRow
    <3>3. CASE row' = NoRow
      BY <3>2, <3>3, NoBaseIsUrl DEF RowOK
    <3>4. CASE row' = row
      BY <1>3, <3>4, RowKept DEF SettingsInd
    <3> QED  BY <3>1, <3>3, <3>4
  <2> QED  BY <2>1, <2>2
<1> HIDE DEF c, written
<1>7. CallOK(written, entered)
  BY <1>2, <1>5 DEF CallOK, SentOK, ResolvedOK
<1>8. CallsIn(call', entered)
  BY <1>1, <1>4, <1>7, CallReplaced DEF SettingsInd, CallsOK
<1> QED  BY <1>3, <1>6, <1>8 DEF SettingsInd, SheetsOK, CallsOK, KeyStaysWithItsHost

(* The sheet takes an answer.                                              *)
LEMMA SettlePreserves ==
    ASSUME SettingsInd, NEW d \in Devices, NEW lane \in Lanes, NEW s, SheetOK(s), Settle(d, lane, s)
    PROVE  SettingsInd'
<1>1. UNCHANGED <<store, row, edits, calls, entered, sent>>
  BY DEF Settle
<1>2. CallOK(IdleCall, entered)
  <2>1. CallFields \subseteq DOMAIN IdleCall /\ IdleCall.stage = "idle"
    BY DEF CallFields, IdleCall
  <2>2. IdleCall.input.base = NoBase /\ IdleCall.snap.base = NoBase
    BY DEF IdleCall, NoInput, Missing
  <2> QED  BY NoBaseIsUrl, <2>1, <2>2 DEF CallOK, SentOK, ResolvedOK
<1>3. call' = [call EXCEPT ![d][lane] = IdleCall]
  BY DEF Settle
<1>4. CallsIn(call', entered)
  BY <1>2, <1>3, CallReplaced DEF SettingsInd, CallsOK
<1>5. SheetsIn(sheet')
  BY SheetReplaced DEF Settle, SettingsInd, SheetsOK
<1>6. RowOK'
  BY <1>1, RowKept DEF SettingsInd
<1> QED  BY <1>1, <1>4, <1>5, <1>6 DEF SettingsInd, SheetsOK, CallsOK, KeyStaysWithItsHost

(* So does everything a user does in a sheet.                              *)
LEMMA SheetPreserves ==
    ASSUME SettingsInd, NEW d \in Devices, SheetActs(d)
    PROVE  SettingsInd'
<1>1. {"load", "detect", "write"} \subseteq Lanes
  BY DEF Lanes
<1>2. SheetOK(sheet[d])
  BY DEF SettingsInd, SheetsOK, SheetsIn
<1>3. \A lane \in Lanes : call[d][lane].snap.base \in BaseUrls
  BY DEF SettingsInd, CallsOK, CallsIn, CallOK
<1>4. CASE LoadSettles(d)
  <2> DEFINE s == IF call[d].load.ok THEN ApplySnapshot(sheet[d], call[d].load.snap) ELSE sheet[d]
  <2>1. SheetOK(s)
    BY <1>1, <1>2, <1>3, SheetKept
  <2>2. Settle(d, "load", [s EXCEPT !.loaded = TRUE])
    BY <1>4 DEF LoadSettles
  <2> HIDE DEF s
  <2>3. SheetOK([s EXCEPT !.loaded = TRUE])
    BY <2>1, SheetKept
  <2> QED  BY <1>1, <2>2, <2>3, SettlePreserves
<1>5. CASE DetectSettles(d)
  <2> DEFINE c == call[d].detect
             s == CASE ~c.ok -> ResetDetectedCatalog(sheet[d])
                    [] c.ok /\ CurrentDetectionInput(sheet[d]) = c.input ->
                         ApplyCatalog(sheet[d], c.catalog, c.input)
                    [] OTHER -> sheet[d]
  <2>1. SheetOK(s)
    BY <1>2, SheetKept
  <2>2. Settle(d, "detect", s)
    BY <1>5 DEF DetectSettles
  <2> HIDE DEF s
  <2> QED  BY <1>1, <2>1, <2>2, SettlePreserves
<1>6. CASE WriteSettles(d)
  <2> DEFINE t == ApplySnapshot(sheet[d], call[d].write.snap)
             s == IF call[d].write.ok THEN ClearAPIKeyPreservingCatalog(t) ELSE sheet[d]
  <2>1. SheetOK(t)
    BY <1>1, <1>2, <1>3, SheetKept
  <2>2. Settle(d, "write", s)
    BY <1>6 DEF WriteSettles
  <2> HIDE DEF t
  <2>3. SheetOK(s)
    BY <1>2, <2>1, SheetKept
  <2> HIDE DEF s
  <2> QED  BY <1>1, <2>2, <2>3, SettlePreserves
<1> QED  BY <1>4, <1>5, <1>6 DEF SheetActs

(* Every step keeps the invariant.                                         *)
LEMMA NextSettings == SettingsInd /\ [Next]_vars => SettingsInd'
<1> SUFFICES ASSUME SettingsInd, [Next]_vars PROVE SettingsInd'
  OBVIOUS
<1>1. ASSUME NEW d \in Devices, UserActs(d) PROVE SettingsInd'
  BY <1>1, EditPreserves, RequestPreserves DEF UserActs
<1>2. ASSUME NEW d \in Devices, FacadeActs(d) PROVE SettingsInd'
  BY <1>2, AnswerPreserves, DetectionPreserves, WritePreserves DEF FacadeActs
<1>3. ASSUME NEW d \in Devices, SheetActs(d) PROVE SettingsInd'
  BY <1>3, SheetPreserves
<1>4. CASE UNCHANGED vars
  BY <1>4 DEF vars, SettingsInd, RowOK, Works, SheetsOK, CallsOK, KeyStaysWithItsHost
<1> QED  BY <1>1, <1>2, <1>3, <1>4 DEF Next

-----------------------------------------------------------------------------
(* The invariant holds in every reachable state.                           *)
THEOREM SettingsInvariant == Spec => []SettingsInd
BY InitSettings, NextSettings, PTL DEF Spec

(* Whatever sheets load, detect, save and clear at once, an API key only   *)
(* ever goes to the host it was typed for (api_key_for_request).           *)
THEOREM KeysStayHome == Spec => []KeyStaysWithItsHost
<1>1. SettingsInd => KeyStaysWithItsHost
  BY DEF SettingsInd
<1> QED  BY <1>1, SettingsInvariant, PTL

(* The stored setting is always one the chat can use (save_settings).      *)
THEOREM StoredSettingsWork == Spec => []StoredSettingWorks
<1>1. SettingsInd => StoredSettingWorks
  BY DEF SettingsInd, RowOK, StoredSettingWorks
<1> QED  BY <1>1, SettingsInvariant, PTL

=============================================================================
