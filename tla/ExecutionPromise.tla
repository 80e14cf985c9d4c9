-------------------------- MODULE ExecutionPromise --------------------------
(***************************************************************************)
(* What the operation ledger promises of every confirmed action, without   *)
(* workers, transactions or audit: it is confirmed once, the right to      *)
(* execute it is granted once, whoever holds the right performs it at most *)
(* once, and only a performed action is settled.                           *)
(***************************************************************************)
EXTENDS Naturals

CONSTANT Keys

VARIABLES
    status,    \* status of the operation, "none" before it is confirmed
    performed  \* how often the platform was asked to perform it

promiseVars == <<status, performed>>

Init ==
    /\ status = [k \in Keys |-> "none"]
    /\ performed = [k \in Keys |-> 0]

Move(k, from, to) ==
    /\ status[k] = from
    /\ status' = [status EXCEPT ![k] = to]
    /\ UNCHANGED performed

Confirm(k) == Move(k, "none", "confirmed")

Grant(k) == Move(k, "confirmed", "executing")

Perform(k) ==
    /\ status[k] = "executing"
    /\ performed[k] = 0
    /\ performed' = [performed EXCEPT ![k] = 1]
    /\ UNCHANGED status

Settle(k) ==
    /\ performed[k] = 1
    /\ Move(k, "executing", "succeeded") \/ Move(k, "executing", "failed")

Next == \E k \in Keys : Confirm(k) \/ Grant(k) \/ Perform(k) \/ Settle(k)

Spec == Init /\ [][Next]_promiseVars
=============================================================================
