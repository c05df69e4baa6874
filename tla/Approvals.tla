------------------------------- MODULE Approvals -------------------------------
(***************************************************************************)
(* What the vault promises the store of an approval service, with nothing  *)
(* said of calls and conditions: a request is decided once, its grant      *)
(* appears in the step that approves it, and a retired grant stays so.     *)
(* VaultRows.tla implements this specification.                            *)
(***************************************************************************)
CONSTANT Ids            \* requests, each with at most one grant

VARIABLES request, grant

Init ==
    /\ request = [id \in Ids |-> "absent"]
    /\ grant = [id \in Ids |-> "absent"]

Open(id) ==
    /\ request[id] = "absent"
    /\ request' = [request EXCEPT ![id] = "pending"]
    /\ UNCHANGED grant

Approve(id) ==
    /\ request[id] = "pending" /\ grant[id] = "absent"
    /\ request' = [request EXCEPT ![id] = "approved"]
    /\ grant' = [grant EXCEPT ![id] = "live"]

Deny(id) ==
    /\ request[id] = "pending"
    /\ request' = [request EXCEPT ![id] = "denied"]
    /\ UNCHANGED grant

Retire(id) ==
    /\ grant[id] = "live"
    /\ grant' = [grant EXCEPT ![id] = "retired"]
    /\ UNCHANGED request

Next == \E id \in Ids : Open(id) \/ Approve(id) \/ Deny(id) \/ Retire(id)

Spec == Init /\ [][Next]_<<request, grant>>
===============================================================================
