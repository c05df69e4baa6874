----------------------------- MODULE Attributions -----------------------------
(***************************************************************************)
(* What the identity of a request promises, with nothing said of           *)
(* verifiers, headers, lookups or what goes on between them: a request is  *)
(* decided once, at one moment, and then acts for good as somebody it may  *)
(* act as at that moment, by what it carries and by the grants that are in *)
(* the store just then.  RequestIdentity.tla implements this               *)
(* specification.                                                          *)
(***************************************************************************)
EXTENDS Naturals

CONSTANTS
    Requests, Grants, Principals,
    Carried,        \* what a request may carry
    Nothing,        \* what one that has not come carries
    Open, Denied    \* a request not decided; a decision against it

VARIABLES
    trusted,        \* the machine tokens the backend accepts
    service,        \* "drive" or "granite"
    bypass,         \* whether headers count without a token
    grants, minted, \* the grants in the store; the ids of those ever made
    request,        \* what each request carries
    acting          \* as whom it acts

vars == <<trusted, service, bypass, grants, minted, request, acting>>

\* A machine acts as its owner, or as the owner of a grant that names it and that
\* it presents (Drive), or as the x-user-id it asserts (Granite); a human acts as
\* itself; in development the header alone will do.
MayActAs(q) ==
    (IF q.token \in trusted /\ service = "drive"
       THEN {q.token.owner} \cup
            {g.owner : g \in {h \in grants : h.id = q.grant /\ h.subject = q.token.sub}}
       ELSE {})
    \cup (IF bypass \/ (q.token \in trusted /\ service = "granite")
            THEN {q.user_id} \cap Principals ELSE {})
    \cup (IF q.token.kind = "human" THEN {q.token.sub} ELSE {})

Init ==
    /\ service \in {"drive", "granite"} /\ bypass \in BOOLEAN
    /\ grants = {} /\ minted = {}
    /\ request = [r \in Requests |-> Nothing]
    /\ acting = [r \in Requests |-> Open]

Arrive(r, q) ==
    /\ request[r] = Nothing
    /\ request' = [request EXCEPT ![r] = q]
    /\ UNCHANGED <<trusted, service, bypass, grants, minted, acting>>

Decide(r) ==
    /\ request[r] \in Carried
    /\ acting[r] = Open
    /\ \E who \in {Denied} \cup MayActAs(request[r]) : acting' = [acting EXCEPT ![r] = who]
    /\ UNCHANGED <<trusted, service, bypass, grants, minted, request>>

Grant(g) ==
    /\ g.id \notin minted
    /\ grants' = grants \cup {g}
    /\ minted' = minted \cup {g.id}
    /\ UNCHANGED <<trusted, service, bypass, request, acting>>

Revoke(g) ==
    /\ grants' = grants \ {g}
    /\ UNCHANGED <<trusted, service, bypass, minted, request, acting>>

Next ==
    \/ \E r \in Requests : Decide(r) \/ \E q \in Carried : Arrive(r, q)
    \/ \E g \in Grants : Grant(g) \/ Revoke(g)

Spec == Init /\ [][Next]_vars
===============================================================================
