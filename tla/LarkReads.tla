------------------------------ MODULE LarkReads ------------------------------
(***************************************************************************)
(* The read clients of the Lark adapter: which endpoints an operation of a *)
(* client calls and in which order, and what an answer becomes.  An        *)
(* operation is a sequence of endpoints; it ends at the first answer that  *)
(* is not a success.  An answer is its HTTP status class, the code inside  *)
(* a 2xx body, or the transport's failure.                                 *)
(***************************************************************************)
EXTENDS Naturals, SequencesExt, Sublists

(* What a client makes of one answer: "ok" or the error's name.            *)
MapStatus(answer) ==
    CASE answer = "2xx" -> "ok"
      [] answer = "401" -> "Unauthorized"
      [] answer = "403" -> "Forbidden"
      [] answer = "404" -> "NotFound"
      [] answer = "429" -> "UpstreamTransient"
      [] answer = "4xx" -> "UpstreamClient"
      [] answer = "5xx" -> "UpstreamTransient"
      [] answer = "lost" -> "Transport"
      [] answer = "oversized" -> "OversizedResponse"
      [] answer = "garbled" -> "InvalidJson"

(* A code inside a 2xx body; OKR and task know no code for "busy", only    *)
(* documents one for "oversized", OKR takes "absent" for a bad request.    *)
ApiCodes == {"code", "code_login", "code_denied", "code_absent", "code_rejected", "code_busy",
             "code_oversized"}
MapApiCode(source, answer) ==
    CASE answer = "code_login" -> "Unauthorized"
      [] answer = "code_denied" -> "Forbidden"
      [] answer = "code_absent" -> IF source = "okr" THEN "UpstreamClient" ELSE "NotFound"
      [] answer = "code_rejected" -> "UpstreamClient"
      [] answer = "code_busy" /\ source \notin {"okr", "task"} -> "UpstreamTransient"
      [] answer = "code_oversized" /\ source = "doc" -> "OversizedResponse"
      [] OTHER -> "ApiFailure"

MapStatusOrParseDocsResponse(answer) == MapStatus(answer)
MapStatusOrParseCalendarResponse(answer) == MapStatus(answer)
MapStatusOrParseMinutesResponse(answer) == MapStatus(answer)

(* Task and OKR answers have no case of their own for 429, OKR none for 404.*)
MapStatusOrParseTaskResponse(answer) ==
    IF answer = "429" THEN "UpstreamClient" ELSE MapStatus(answer)
MapStatusOrParseOkrResponse(answer) ==
    IF answer \in {"404", "429"} THEN "UpstreamClient" ELSE MapStatus(answer)

(* The reason shown for an error: log in again, lacking permission, or     *)
(* not now.                                                                *)
ErrorReason(error) ==
    CASE error = "Unauthorized" -> "login_again"
      [] error = "Forbidden" -> "missing_permission"
      [] error = "NotFound" -> "not_found"
      [] error \in {"UpstreamTransient", "Transport", "ApiFailure"} -> "unavailable"
      [] error \in {"OversizedResponse", "InvalidJson"} -> "unusable_answer"
      [] error \in {"UpstreamClient", "UnsupportedDocumentType"} -> "rejected"

ReadErrorReason(source, answer) ==
    ErrorReason(CASE answer \in ApiCodes -> MapApiCode(source, answer)
                  [] answer \notin ApiCodes /\ source = "doc" -> MapStatusOrParseDocsResponse(answer)
                  [] answer \notin ApiCodes /\ source = "calendar" -> MapStatusOrParseCalendarResponse(answer)
                  [] answer \notin ApiCodes /\ source = "minutes" -> MapStatusOrParseMinutesResponse(answer)
                  [] answer \notin ApiCodes /\ source = "task" -> MapStatusOrParseTaskResponse(answer)
                  [] answer \notin ApiCodes /\ source = "okr" -> MapStatusOrParseOkrResponse(answer))

-----------------------------------------------------------------------------
(* The operations: the endpoints they call, in order.                      *)
DocEndpoints(ref) ==
    IF ref.wiki THEN <<"wiki_node", "docx_metadata", "docx_raw_content">>
    ELSE <<"docx_metadata", "docx_raw_content">>
CalendarFreeBusyEndpoints == <<"free_busy_batch">>
CalendarEventsEndpoints == <<"primary_calendar", "event_instance_view">>
CalendarEventEndpoints == <<"get_event">>
TaskEndpoints == <<"get_task">>
TaskListEndpoints == <<"list_tasks">>
MinuteEndpoints == <<"get_minute">>
MinuteSearchEndpoints == <<"search_minutes">>
OkrBatchGetEndpoints == <<"batch_get_okrs">>
OkrTopologyEndpoints == <<"list_cycles", "list_cycle_objectives", "list_objective_key_results">>
OkrProgressEndpoints == <<"list_progress">>

RefEndpoints(source, ref) ==
    CASE source = "doc" -> DocEndpoints(ref)
      [] source = "calendar" -> CalendarEventEndpoints
      [] source = "task" -> TaskEndpoints
      [] source = "minutes" -> MinuteEndpoints
      [] source = "okr" -> OkrBatchGetEndpoints

(* External: the scopes of which Feishu requires one set for an endpoint.  *)
EndpointScopes ==
    [list_cycles |-> {{"OkrPeriodRead"}}, list_cycle_objectives |-> {{"OkrContentRead"}},
     list_objective_key_results |-> {{"OkrContentRead"}}, list_progress |-> {{"OkrProgressRead"}},
     batch_get_okrs |-> {{"OkrContentRead", "OkrProgressRead"}},
     list_tasks |-> {{"TaskRead"}}, get_task |-> {{"TaskRead"}},
     free_busy_batch |-> {{"CalendarFreeBusyRead"}}, primary_calendar |-> {{"CalendarRead"}},
     event_instance_view |-> {{"CalendarEventRead"}}, get_event |-> {{"CalendarEventRead"}},
     wiki_node |-> {{"WikiNodeRead"}}, docx_metadata |-> {{"DocxDocumentRead"}},
     docx_raw_content |-> {{"DocxDocumentRead"}}, search_minutes |-> {{"MinutesSearchRead"}},
     get_minute |-> {{"MinutesBasicRead"}, {"minutes:minutes:readonly"}}]

Permits(scopes, endpoint) == \E needed \in EndpointScopes[endpoint] : needed \subseteq scopes

(* An operation answered by `answer' at its k-th call has called the first *)
(* k endpoints; it is successful when the last call is.                    *)
Called(endpoints, k) == ToSet(SubSeq(endpoints, 1, k))
Succeeded(endpoints, k, answer) == k = Len(endpoints) /\ answer = "2xx"
Outcome(endpoints, k, answer) == k = Len(endpoints) \/ answer # "2xx"

=============================================================================
