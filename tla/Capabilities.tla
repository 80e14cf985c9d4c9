---------------------------- MODULE Capabilities ----------------------------
(***************************************************************************)
(* The capability registry: what every action type may do and which Feishu *)
(* scope it needs.  Everything else derives from the matrix: the execution *)
(* allowlist, the scopes a login asks for and the scopes a read tool needs.*)
(***************************************************************************)
EXTENDS FiniteSets

ReadActionTypes ==
    {"OkrPeriodRead", "OkrContentRead", "OkrProgressRead", "OkrReviewRead", "OkrSettingRead",
     "CalendarRead", "CalendarEventRead", "CalendarFreeBusyRead", "TaskRead",
     "DocxDocumentRead", "WikiNodeRead", "MinutesBasicRead", "MinutesSearchRead"}

WriteScope == [OkrProgressCreate |-> "OkrProgressWrite", OkrProgressUpdate |-> "OkrProgressWrite",
               TaskCreate |-> "TaskWrite", ImMessageSend |-> "ImMessageSendAsBot"]

ActionTypes == ReadActionTypes \cup DOMAIN WriteScope

(* A read is automatic; of the writes only progress records are executed.  *)
Mode(type) ==
    CASE type \in ReadActionTypes -> "auto_read"
      [] type \in {"OkrProgressCreate", "OkrProgressUpdate"} -> "confirmed_write"
      [] OTHER -> "draft_only"

CapabilityMatrix ==
    [type \in ActionTypes |->
        [scopes |-> {IF type \in ReadActionTypes THEN type ELSE WriteScope[type]},
         effect |-> IF type \in ReadActionTypes THEN "read" ELSE "write",
         mode |-> Mode(type)]]

(* The default bundle a login asks for: everything except sending messages.*)
DefaultAgentFeishuOauthActionTypes == ActionTypes \ {"ImMessageSend"}

FeishuScopesForActionTypes(types) == UNION {CapabilityMatrix[t].scopes : t \in types}

FeishuOauthScopes ==
    {"offline_access"} \cup FeishuScopesForActionTypes(DefaultAgentFeishuOauthActionTypes)

=============================================================================
