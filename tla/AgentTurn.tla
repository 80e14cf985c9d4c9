----------------------------- MODULE AgentTurn ------------------------------
(***************************************************************************)
(* A conversation with the agent: the sidecar's view model and its stream  *)
(* provider (Swift), the facade's /agent/stream handler, the model service *)
(* it forwards to and the frames in between.  A turn runs the live read of *)
(* LiveRead and then streams the model's answer; the answer may break off, *)
(* contain garbage or never say that it is complete, and the connection to *)
(* the client may be lost at any step.  A piece of answer is the set of    *)
(* word classes of its text, {} when it is blank.                          *)
(***************************************************************************)
EXTENDS LiveRead

CONSTANTS
    Scenarios,    \* [prompts, provider, world] of one conversation
    Pieces,       \* texts the model service may send
    StatusLimit,  \* AGENT_CONTEXT_STATUS_SUMMARY_LIMIT
    LiveSectionLimit,  \* LIVE_FEISHU_SECTION_LIMIT
    ChannelSize   \* AGENT_STREAM_CHANNEL_SIZE

(* What a conversation is made of, and that the prompt and the client are  *)
(* told of equally many reads, as the code's two constants are equal.      *)
(* Summaries of tools in secret hold a sensitive word (a title of Feishu), *)
(* and those of references may be alike.                                   *)
PromptsOfAUser ==
    [text : SUBSET STRING, context : SUBSET STRING, refs : Seq(SourceRef), chunks : Nat]
FeishuData == [cycles : Seq(HeldCycle), tasks : Seq(Page), minutes : Seq(Page),
               wording : Wording, secret : SUBSET STRING, alike : BOOLEAN]
ASSUME ConversationsAreTyped ==
    /\ \A s \in Scenarios : s.prompts \in Seq(PromptsOfAUser) /\ s.world.feishu \in FeishuData
    /\ Pieces \subseteq SUBSET STRING
    /\ StatusLimit = LiveSectionLimit /\ StatusLimit \in Nat

VARIABLES
    provider,  \* [settings, user, env]: where the model's settings are
    prompts,   \* what the user will still send
    thread,    \* messages of the sidecar
    client,    \* the send under way, or the outcome of the last one
    turn,      \* the facade's handling of it
    wire,      \* frames on their way to the client
    upstream   \* the model service's answer so far; left bounds its events

vars == <<readVars, provider, prompts, thread, client, turn, wire, upstream>>

Frame(event, piece, reads, skills) ==
    [event |-> event, piece |-> piece, reads |-> reads, skills |-> skills]
Plain(event) == Frame(event, {}, <<>>, <<>>)
NoTurn == [step |-> "none", request |-> [messages |-> <<>>, context |-> {}, refs |-> <<>>],
           http |-> "pending", protocol |-> "", asked |-> <<>>, told |-> <<>>, reads |-> <<>>]
NoClient == [sends |-> 0, stage |-> "idle", error |-> "", reads |-> <<>>, skills |-> <<>>,
             gathered |-> <<>>, shown |-> <<>>, scheduled |-> FALSE]
NoAnswer == [sent |-> <<>>, done |-> FALSE, broken |-> FALSE, left |-> 0]
Flattened(pieces) == UNION ToSet(pieces)

-----------------------------------------------------------------------------
(* The facade *)

(* The text of a summary, once a text with a sensitive word has become the *)
(* one that says only this.  Tools' texts name the tool, and minutes and   *)
(* busy times leave out what could be sensitive themselves.                *)
HiddenSummary == [tool |-> "", state |-> "hidden", why |-> "", no |-> 0]
NamesTitles(status) ==
    status.state = "ready" /\ status.tool \notin {"MinutesSummary", "CalendarFreeBusy"}
SafePromptContextText(status, i) ==
    IF NamesTitles(status) /\ status.tool \in feishu.secret THEN HiddenSummary
    ELSE [tool |-> status.tool, state |-> status.state, why |-> status.why,
          no |-> IF status.tool = "" /\ ~feishu.alike THEN i ELSE 0]
SafeTexts(statuses) == [i \in DOMAIN statuses |-> SafePromptContextText(statuses[i], i)]

(* What the prompt says was read: the first texts that differ.             *)
SafeContextSummaries(texts, limit) == Take(Distinct(texts), limit)
MakePrompt(texts) == SafeContextSummaries(texts, LiveSectionLimit)

(* What the client is told: the first reads that differ in tool, state or  *)
(* text.                                                                   *)
SafeLiveReadStatuses(statuses, texts, limit) ==
    Take(Distinct([i \in DOMAIN statuses |-> [tool |-> statuses[i].tool,
                                               state |-> statuses[i].state,
                                               summary |-> texts[i]]]), limit)
AgentContextStatus(statuses, texts) == SafeLiveReadStatuses(statuses, texts, StatusLimit)

(* The provider configured by environment: how far the variables of each   *)
(* protocol are set, and the one that is named, if any.  "invalid": the    *)
(* facade does not start; "": it has no default provider.                  *)
OpenAIFromEnvMap(config) ==
    CASE config = "full" -> "openai" [] config = "none" -> "" [] OTHER -> "invalid"
AnthropicFromEnvMap(config) ==
    CASE config = "full" -> "anthropic" [] config = "none" -> "" [] OTHER -> "invalid"

FromEnvMap(env) ==
    LET Named(provided) == IF provided = "" THEN "invalid" ELSE provided
    IN  CASE env.named = "openai" -> Named(OpenAIFromEnvMap(env.openai))
          [] env.named = "anthropic" -> Named(AnthropicFromEnvMap(env.anthropic))
          [] env.named = "" /\ env.openai # "none" /\ env.anthropic # "none" -> "invalid"
          [] env.named = "" /\ env.openai # "none" /\ env.anthropic = "none" -> OpenAIFromEnvMap(env.openai)
          [] env.named = "" /\ env.openai = "none" -> AnthropicFromEnvMap(env.anthropic)
          [] OTHER -> "invalid"

(* The user's own settings win; settings that cannot be read or used are   *)
(* never replaced by the default.  "" : the turn is refused.               *)
UserAgentRuntime ==
    CASE provider.settings = "broken" -> ""
      [] provider.settings = "set" -> provider.user
      [] OTHER -> FromEnvMap(provider.env)

(* The messages asked of the model: no blank ones; for Anthropic none      *)
(* before the first of the user and neighbours of one role merged.         *)
RequestMessages(request) ==
    LET msgs == RecentMessages(request) IN Kept(msgs, {i \in DOMAIN msgs : msgs[i].text # {}})

(* A run of one role starts where the user has spoken and the role changes.*)
RunStarts(msgs) ==
    {i \in DOMAIN msgs : /\ \E j \in 1 .. i : msgs[j].role = "user"
                         /\ i = 1 \/ msgs[i - 1].role # msgs[i].role}
RunFrom(msgs, i) == {j \in i .. Len(msgs) : \A m \in i .. j : msgs[m].role = msgs[i].role}

AnthropicMessages(request) ==
    LET msgs == RequestMessages(request)
        starts == Kept([i \in DOMAIN msgs |-> i], RunStarts(msgs))
    IN  [k \in DOMAIN starts |->
            [role |-> msgs[starts[k]].role,
             text |-> UNION {msgs[j].text : j \in RunFrom(msgs, starts[k])}]]

AskedOf(protocol, request) ==
    IF protocol = "anthropic" THEN AnthropicMessages(request) ELSE RequestMessages(request)

(* Frames for one event of the model service: a piece of text, its own way *)
(* of saying done, an error (Anthropic only), one without meaning here,    *)
(* or garbage.                                                             *)
OpenaiFrameEvents(kind, piece) ==
    CASE kind = "text" -> <<Frame("delta", piece, <<>>, <<>>)>>
      [] kind = "done" -> <<Plain("completed")>>
      [] kind \in {"error", "garbage"} -> <<Plain("error")>>
      [] OTHER -> <<>>

(* An error event of OpenAI is no chunk; of Anthropic it is one of its own.*)
AnthropicFrameEvents(kind, piece) == OpenaiFrameEvents(kind, piece)

FrameEvents(kind, piece) ==
    IF turn.protocol = "anthropic" THEN AnthropicFrameEvents(kind, piece)
                                   ELSE OpenaiFrameEvents(kind, piece)

Respond(http) == turn' = [turn EXCEPT !.step = "ended", !.http = http]

(* Authenticate the session, which needs the store, and read the body.     *)
StreamResponse ==
    /\ turn.step = "received"
    /\ \/ Respond("503")
       \/ deployment.store /\ ~active /\ Respond("401")
       \/ deployment.store /\ active /\ \E http \in {"400", "413"} : Respond(http)
       \/ deployment.store /\ active /\ turn' = [turn EXCEPT !.step = "reading"]
    /\ UNCHANGED <<readVars, provider, prompts, thread, client, wire, upstream>>

InjectLiveFeishuContext ==
    /\ turn.step = "reading"
    /\ ReadSteps(turn.request)
    /\ UNCHANGED <<provider, prompts, thread, client, turn, wire, upstream>>

OthersAct ==
    /\ turn.step \in {"received", "reading"}
    /\ OtherSteps
    /\ UNCHANGED <<provider, prompts, thread, client, turn, wire, upstream>>

ChooseRuntime ==
    /\ turn.step = "reading" /\ live.step = "done"
    /\ IF UserAgentRuntime = "" THEN Respond("503")
       ELSE LET texts == SafeTexts(live.statuses)
            IN  turn' = [turn EXCEPT !.step = "opening", !.protocol = UserAgentRuntime,
                                     !.asked = AskedOf(UserAgentRuntime, turn.request),
                                     !.told = MakePrompt(texts),
                                     !.reads = AgentContextStatus(live.statuses, texts)]
    /\ UNCHANGED <<readVars, provider, prompts, thread, client, wire, upstream>>

(* The model service answers or refuses; what was read is sent first.      *)
OpenStream ==
    LET skills == ActivatedSkills(live.asked)
    IN  /\ turn.step = "opening"
        /\ \/ Respond("502") /\ UNCHANGED wire
           \/ Respond("503") /\ UNCHANGED wire
           \/ /\ turn' = [turn EXCEPT !.step = "streaming", !.http = "200"]
              /\ wire' = IF turn.reads = <<>> /\ skills = <<>> THEN <<>>
                         ELSE <<Frame("context_status", {}, turn.reads, skills)>>
        /\ UNCHANGED <<readVars, provider, prompts, thread, client, upstream>>

(* One event of the answer is forwarded; the channel holds ChannelSize.    *)
ForwardParsedSseFrame(kind, piece) ==
    /\ turn.step = "streaming" /\ Len(wire) < ChannelSize
    /\ ~upstream.done /\ upstream.left > 0
    /\ wire' = wire \o FrameEvents(kind, piece)
    /\ upstream' = [sent |-> IF kind = "text" THEN Append(upstream.sent, piece) ELSE upstream.sent,
                    done |-> kind = "done",
                    broken |-> upstream.broken \/ kind \in {"error", "garbage"},
                    left |-> upstream.left - 1]
    /\ UNCHANGED <<readVars, provider, prompts, thread, client, turn>>

(* The answer ends, or breaks off with an error frame.                     *)
StreamUpstreamEnds ==
    /\ turn.step = "streaming" /\ Len(wire) < ChannelSize
    /\ turn' = [turn EXCEPT !.step = "ended"]
    /\ \/ UNCHANGED <<wire, upstream>>
       \/ /\ ~upstream.done
          /\ wire' = Append(wire, Plain("error"))
          /\ upstream' = [upstream EXCEPT !.broken = TRUE]
    /\ UNCHANGED <<readVars, provider, prompts, thread, client>>

-----------------------------------------------------------------------------
(* The sidecar *)

(* The shown reply is the last message of the thread once it has started.  *)
WithReply(msgs, before, shown) ==
    IF shown = <<>> THEN msgs
    ELSE Append(IF before = <<>> THEN msgs ELSE Front(msgs),
                [role |-> "assistant", text |-> Flattened(shown)])

Display(c) ==
    /\ client' = c
    /\ thread' = WithReply(thread, client.shown, c.shown)

FlushLatest(c) == [c EXCEPT !.shown = c.gathered, !.scheduled = FALSE]
Finish(c) == [FlushLatest(c) EXCEPT !.stage = "idle",
                !.error = IF c.gathered = <<>> THEN "invalidResponse" ELSE ""]
Fail(c, error) == [FlushLatest(c) EXCEPT !.stage = "idle", !.error = error]

(* The request of a turn: the last messages, the context and references.   *)
AgentStreamRequest(msgs, prompt) ==
    LET n == Len(msgs)
    IN  [messages |-> SubSeq(msgs, IF n > RecentLimit THEN n - RecentLimit + 1 ELSE 1, n),
         context |-> prompt.context, refs |-> prompt.refs]

(* A new turn starts only when none is under way and the text is not blank.*)
Send ==
    LET prompt == Head(prompts)
        msgs == Append(thread, [role |-> "user", text |-> prompt.text])
    IN  /\ client.stage = "idle" /\ prompts # <<>> /\ prompt.text # {}
        /\ prompts' = Tail(prompts)
        /\ thread' = msgs
        /\ client' = [NoClient EXCEPT !.sends = client.sends + 1, !.stage = "waiting"]
        /\ turn' = [NoTurn EXCEPT !.step = "received",
                                  !.request = AgentStreamRequest(msgs, prompt)]
        /\ live' = NotStarted /\ wire' = <<>>
        /\ upstream' = [NoAnswer EXCEPT !.left = prompt.chunks]
        /\ UNCHANGED <<deployment, account, active, grant, granted, feishu, calls, outside, provider>>

StreamError(http) ==
    CASE http = "401" -> "unauthorized" [] http \in {"502", "503"} -> "serverUnavailable"
      [] OTHER -> "invalidResponse"

ReceiveResponse ==
    /\ client.stage = "waiting" /\ turn.http # "pending"
    /\ IF turn.http = "200" THEN Display([client EXCEPT !.stage = "receiving"])
       ELSE Display(Fail(client, StreamError(turn.http)))
    /\ UNCHANGED <<readVars, provider, prompts, turn, wire, upstream>>

(* One frame: blank pieces are skipped, a piece is shown now or with the   *)
(* next flush, completed without a piece and errors fail the turn.         *)
ForwardSuccessfulStream ==
    LET frame == Head(wire)
        c == [client EXCEPT !.gathered = Append(@, frame.piece)]
    IN  /\ client.stage = "receiving" /\ wire # <<>>
        /\ wire' = Tail(wire)
        /\ CASE frame.event = "context_status" ->
                  Display([client EXCEPT !.reads = frame.reads, !.skills = frame.skills])
             [] frame.event = "delta" ->
                  IF frame.piece = {} THEN UNCHANGED <<client, thread>>
                  ELSE \E now \in BOOLEAN :
                          Display(IF now THEN FlushLatest(c) ELSE [c EXCEPT !.scheduled = TRUE])
             [] frame.event = "completed" -> Display(Finish(client))
             [] frame.event = "error" -> Display(Fail(client, "serverUnavailable"))
        /\ UNCHANGED <<readVars, provider, prompts, turn, upstream>>

FlushScheduledText ==
    /\ client.stage = "receiving" /\ client.scheduled
    /\ Display(FlushLatest(client))
    /\ UNCHANGED <<readVars, provider, prompts, turn, wire, upstream>>

(* A mutant: a stream that ends is taken for a complete one.               *)
EndIsCompletion(c) == Finish(c)

AtStreamEnd(c) == Fail(c, "invalidResponse")

(* The stream ends without "completed".                                    *)
StreamEnds ==
    /\ client.stage = "receiving" /\ wire = <<>> /\ turn.step = "ended"
    /\ Display(AtStreamEnd(client))
    /\ UNCHANGED <<readVars, provider, prompts, turn, wire, upstream>>

(* The connection is lost: the facade's task ends with its next frame.     *)
ConnectionLost ==
    /\ client.stage \in {"waiting", "receiving"}
    /\ Display(Fail(client, "connection"))
    /\ turn' = [turn EXCEPT !.step = "ended"] /\ wire' = <<>>
    /\ UNCHANGED <<readVars, provider, prompts, upstream>>

-----------------------------------------------------------------------------
Init ==
    /\ \E s \in Scenarios :
          /\ FromEnvMap(s.provider.env) # "invalid"
          /\ ReadInit(s.world) /\ provider = s.provider /\ prompts = s.prompts
    /\ thread = <<[role |-> "assistant", text |-> {"greeting"}]>>
    /\ client = NoClient /\ turn = NoTurn /\ wire = <<>> /\ upstream = NoAnswer

FacadeActs ==
    \/ StreamResponse \/ InjectLiveFeishuContext \/ ChooseRuntime \/ OpenStream
    \/ \E piece \in Pieces : ForwardParsedSseFrame("text", piece)
    \/ \E kind \in {"done", "error", "ignored", "garbage"} : ForwardParsedSseFrame(kind, {})
    \/ StreamUpstreamEnds

ClientActs ==
    \/ Send \/ ReceiveResponse \/ ForwardSuccessfulStream \/ FlushScheduledText
    \/ StreamEnds \/ ConnectionLost

Next == FacadeActs \/ ClientActs \/ OthersAct

Spec == Init /\ [][Next]_vars

-----------------------------------------------------------------------------
(* A reply that is left without an error message is the whole answer: the  *)
(* model service was asked the user's question, it said it was done,       *)
(* nothing of it was garbled, and every piece with text is shown in order, *)
(* however flushes, frames and broken connections fall (AgentProvider.swift*)
(* throws when a stream ends without "completed").  The model was told     *)
(* every summary the user is shown, although the prompt drops repeated     *)
(* texts and the client repeated reads, and when it was told of no hidden  *)
(* summary it was told exactly those (safe_context_summaries,              *)
(* safe_live_read_statuses).                                               *)
ToldOfReads(reads, told) ==
    /\ \A i \in DOMAIN reads : \E k \in DOMAIN told : told[k] = reads[i].summary
    /\ (\A k \in DOMAIN told : told[k] # HiddenSummary)
          => [i \in DOMAIN reads |-> reads[i].summary] = told

NoSilentTruncation ==
    client.sends > 0 /\ client.stage = "idle" /\ client.error = "" =>
        /\ upstream.done /\ ~upstream.broken
        /\ client.shown = Kept(upstream.sent, {i \in DOMAIN upstream.sent : upstream.sent[i] # {}})
        /\ Last(turn.asked).role = "user"
        /\ live.text \subseteq Last(turn.asked).text
        /\ ToldOfReads(client.reads, turn.told)
        /\ Last(thread) = [role |-> "assistant", text |-> Flattened(client.shown)]

=============================================================================
