------------------------ MODULE MCTenantMaintenance -------------------------
(* Two tenants and a third row whose trimmed id is that of the second, and *)
(* a fourth whose id is blank; environments around every validation.       *)
EXTENDS TenantMaintenance

MCCanonical == <<1, 2, 2, 0>>
MCSweepReports == {[outcome |-> "succeeded", has_more |-> TRUE],
                   [outcome |-> "failed_safe", has_more |-> FALSE]}
MCDrainReports == {{"retryable", "stale"}, {"failed", "exhausted"}}
MCEnvs == [enabled : {"unset", "yes", "bad"}, ephemeral : {"unset", "yes", "bad"},
           database : BOOLEAN, feishu : BOOLEAN, sink : {"unset", "webhook", "noop"},
           url : {"unset", "https", "http"}, instance : {"unset", "ok", "bad"},
           interval : {<<>>, <<4999>>, <<5000>>, <<3600001>>}, lookahead : {<<>>, <<999>>}]
=============================================================================
