---------------------------- MODULE MCLoginSession ----------------------------
(* Four kinds of behaviour, each with the other parts kept small: two     *)
(* logins that race with each other and with logouts; two login sessions   *)
(* of one client that cancels; connections that break and a facade that    *)
(* restarts; a manual refresh beside the observation of two callbacks.     *)
(* Where rows do not matter the facade runs without a database.            *)
EXTENDS LoginSession

MCTokenReplies == {[status |-> 200, json |-> TRUE, code |-> 0, access_token |-> TRUE,
                    expires_in |-> TRUE, refresh_token |-> r] : r \in BOOLEAN}
                  \cup {[status |-> 500, json |-> TRUE, code |-> 1, access_token |-> FALSE,
                         expires_in |-> FALSE, refresh_token |-> FALSE]}
MCInfoReplies == {[status |-> 200, json |-> TRUE, code |-> 0, open_id |-> o, tenant_key |-> TRUE] :
                    o \in BOOLEAN}

Base == [qrs |-> 1, callbacks |-> 1, faults |-> 0, restarts |-> 0, logouts |-> 0,
         refreshes |-> 0, cancels |-> 0, store |-> TRUE, watch |-> TRUE]
MCBudgets == {[Base EXCEPT !.callbacks = 2, !.logouts = 3, !.faults = 1, !.watch = FALSE],
              [Base EXCEPT !.qrs = 2, !.cancels = 1, !.store = FALSE],
              [Base EXCEPT !.faults = 2, !.restarts = 1],
              [Base EXCEPT !.refreshes = 1, !.callbacks = 2, !.store = FALSE]}
=============================================================================
