------------------------------ MODULE ReadPlan ------------------------------
(***************************************************************************)
(* What a chat turn asks to read: the tools that the words of the last     *)
(* user message select, and the evidence references of the review item.    *)
(* A text is the set of word classes it contains, {} when it is blank; the *)
(* word lists of the selectors are those classes.                          *)
(***************************************************************************)
EXTENDS Capabilities, SourceRefs, Sublists

CONSTANTS
    RecentLimit,       \* messages of a request that are looked at
    EvidenceRefLimit   \* LIVE_EVIDENCE_REF_LIMIT

(* Both are positive in the code.                                          *)
ASSUME PlanLimits == RecentLimit \in Nat \ {0} /\ EvidenceRefLimit \in Nat \ {0}

(* Word classes: domains, verbs, whose data, and the names of the tools.   *)
Domains == {"okr", "minutes", "task", "calendar", "freebusy", "listing", "feishu", "elsewhere"}
Verbs == {"read", "count", "current", "progress", "content", "recent", "run",
          "okrWrite", "taskWrite", "calendarWrite", "unsupported"}
Whose == {"self", "others", "goal"}

ToolNames == {"CalendarFreeBusy", "CalendarEvents", "OkrSummary", "OkrProgress",
              "TaskSummary", "MinutesSummary"}
Text == SUBSET (Domains \cup Verbs \cup Whose \cup ToolNames)

RecentMessages(request) ==
    LET n == Len(request.messages)
    IN  SubSeq(request.messages, IF n > RecentLimit THEN n - RecentLimit + 1 ELSE 1, n)

(* The last user message that is not blank, {} if there is none.           *)
LatestUserText(request) ==
    LET msgs == RecentMessages(request)
        said == {i \in DOMAIN msgs : msgs[i].role = "user" /\ msgs[i].text # {}}
    IN  IF said = {} THEN {} ELSE msgs[Max(said)].text

TargetsNonSelf(text) == "others" \in text
AsksToRead(text) == text \cap {"read", "count"} # {}
AsksToRunReadTool(text, tool) == {tool, "run"} \subseteq text

RequestsTool(text, tool) == AsksToRunReadTool(text, tool) /\ ~TargetsNonSelf(text)

OwnWords(text, words) == words \cup {"self"} \subseteq text /\ ~TargetsNonSelf(text)

HasExplicitSelfOkrSummaryIntent(text) ==
    /\ OwnWords(text, {"okr"}) /\ AsksToRead(text) /\ "goal" \notin text
    /\ text \cap {"count", "content"} # {} \/ "progress" \notin text

HasExplicitSelfOkrProgressIntent(text) ==
    OwnWords(text, {"okr", "progress"}) /\ "goal" \notin text

(* "How many do I have in Feishu" asks for OKRs if those were talked about.*)
HasContextualFeishuCountIntent(text) ==
    /\ OwnWords(text, {"feishu"})
    /\ text \cap {"elsewhere", "goal", "task", "calendar", "freebusy"} = {}
    /\ text \cap {"count", "current"} # {}

RequestHasRecentOkrTopic(request) ==
    \/ \E i \in DOMAIN RecentMessages(request) : "okr" \in RecentMessages(request)[i].text
    \/ "okr" \in request.context

OkrReadIntents(request) ==
    LET text == LatestUserText(request)
        summary == \/ RequestsTool(text, "OkrSummary")
                   \/ HasExplicitSelfOkrSummaryIntent(text)
                   \/ HasContextualFeishuCountIntent(text) /\ RequestHasRecentOkrTopic(request)
        progress == RequestsTool(text, "OkrProgress") \/ HasExplicitSelfOkrProgressIntent(text)
    IN  IF "okrWrite" \in text THEN {}
        ELSE {t \in {"OkrSummary"} : summary} \cup {t \in {"OkrProgress"} : progress}

MinutesSummaryRequested(text) ==
    /\ ~TargetsNonSelf(text) /\ "unsupported" \notin text
    /\ \/ AsksToRunReadTool(text, "MinutesSummary")
       \/ /\ "minutes" \in text /\ text \cap {"self", "recent", "feishu"} # {}
          /\ AsksToRead(text) \/ "recent" \in text

TaskSummaryRequested(text) ==
    \/ RequestsTool(text, "TaskSummary")
    \/ OwnWords(text, {"task"}) /\ AsksToRead(text) /\ "taskWrite" \notin text

CalendarFreeBusyRequested(text) ==
    \/ RequestsTool(text, "CalendarFreeBusy")
    \/ /\ text \cap {"feishu", "calendar"} # {} /\ OwnWords(text, {"freebusy"})
       /\ text \cap {"calendarWrite", "listing"} = {}

CalendarEventsRequested(text) ==
    \/ RequestsTool(text, "CalendarEvents")
    \/ /\ text \cap {"feishu", "calendar"} # {} /\ OwnWords(text, {"listing"})
       /\ text \cap {"minutes", "calendarWrite"} = {}

(* The planner's order of the tools.                                       *)
ToolOrder == <<"CalendarFreeBusy", "CalendarEvents", "OkrSummary", "OkrProgress",
               "TaskSummary", "MinutesSummary">>
InOrder(tools) == Kept(ToolOrder, {i \in DOMAIN ToolOrder : ToolOrder[i] \in tools})

(* The tools of a turn.                                                    *)
PlanReadTools(request) ==
    LET text == LatestUserText(request)
        okr == OkrReadIntents(request)
        Wanted(tool) ==
            CASE tool = "CalendarFreeBusy" -> CalendarFreeBusyRequested(text)
              [] tool = "CalendarEvents" -> CalendarEventsRequested(text)
              [] tool = "TaskSummary" -> TaskSummaryRequested(text)
              [] tool = "MinutesSummary" -> MinutesSummaryRequested(text)
              [] OTHER -> tool \in okr
    IN  {tool \in ToolNames : Wanted(tool)}

(* The skills a turn activates, for the prompt and the status frame.       *)
SkillTools == [Calendar |-> {"CalendarFreeBusy", "CalendarEvents"},
               Okr |-> {"OkrSummary", "OkrProgress"},
               Task |-> {"TaskSummary"}, Minutes |-> {"MinutesSummary"}]
SkillOrder == <<"Calendar", "Okr", "Task", "Minutes">>
ActivatedSkills(tools) ==
    Kept(SkillOrder, {i \in DOMAIN SkillOrder : SkillTools[SkillOrder[i]] \cap tools # {}})

-----------------------------------------------------------------------------
(* Evidence references: a type names its source in several spellings.      *)
Sources == {"okr", "task", "calendar", "doc", "minutes"}
SourceTypes == [okr |-> {"okr", "feishu_okr", "lark_okr"}, task |-> {"task", "feishu_task", "lark_task"},
                calendar |-> {"calendar", "feishu_calendar", "lark_calendar"},
                doc |-> {"doc", "docx", "wiki", "feishu_doc", "feishu_docx", "feishu_wiki",
                         "lark_doc", "lark_wiki"},
                minutes |-> {"meeting", "minutes", "feishu_minutes", "lark_minutes"}]
SourceIs(ref, source) == ref.type \in SourceTypes[source]
Supported(ref) == \E s \in Sources : SourceIs(ref, s)
ParsedRef(ref) ==
    IF Supported(ref) THEN ParseEvidenceRef(CHOOSE s \in Sources : SourceIs(ref, s), ref)
    ELSE NotParsed

(* References that parse are the same if they mean the same, others if they *)
(* are written the same.                                                    *)
SameEvidenceRef(a, b) ==
    IF ParsedRef(a).ok
    THEN ParsedRef(b) = ParsedRef(a) /\ \E s \in Sources : SourceIs(a, s) /\ SourceIs(b, s)
    ELSE a = b

DistinctRefs(given) ==
    Kept(given, {i \in DOMAIN given : \A j \in 1 .. i - 1 : ~SameEvidenceRef(given[j], given[i])})
Readable(refs, s) == {i \in DOMAIN refs : SourceIs(refs[i], s) /\ ParsedRef(refs[i]).ok}
Unreadable(refs) == {i \in DOMAIN refs : ~ParsedRef(refs[i]).ok}
ParsedOf(refs, s) ==
    LET own == Kept(refs, Readable(refs, s)) IN [i \in DOMAIN own |-> ParsedRef(own[i])]

(* At most EvidenceRefLimit distinct references are read; whatever is      *)
(* merged, cut or unreadable is said.                                      *)
ResolveEvidenceRefs(given) ==
    LET distinct == DistinctRefs(given)
        kept == Take(distinct, EvidenceRefLimit)
        unread == Kept(kept, Unreadable(kept))
        Note(when, text) == IF when THEN <<text>> ELSE <<>>
    IN  [refs |-> [s \in Sources |-> ParsedOf(kept, s)],
         degraded |-> [i \in DOMAIN unread |->
                          IF Supported(unread[i]) THEN "unparsed_ref" ELSE "unsupported_source"]
                      \o Note(Len(given) > Len(distinct), "merged_duplicates")
                      \o Note(Len(distinct) > EvidenceRefLimit, "over_limit")]
=============================================================================
