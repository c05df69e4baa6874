------------------------------ MODULE GraphClient ------------------------------
(***************************************************************************)
(* platform-sg-graph-client: what each call of a SocialGraphClient makes   *)
(* of the reply.  A reply is a status and a body; the status 0 stands for  *)
(* a call whose answer never came (it may have been served all the same).  *)
(***************************************************************************)
EXTENDS Naturals

\* The three endpoints.
Endpoints == {"me", "membership", "connections"}

NoAnswer == [status |-> 0, body |-> "none"]
Ok(value) == [kind |-> "Ok", value |-> value]
None == [kind |-> "None"]
Transport == [kind |-> "Err", error |-> "Transport"]
Status(code) == [kind |-> "Err", error |-> "Status", code |-> code]

\* The body, if it decodes.
json(reply) == IF reply.body = "garbled" THEN Transport ELSE Ok(reply.body)

\* reqwest's error_for_status: the statuses from 400 to 599 are errors.
error_for_status(reply) == reply.status \in 400..599

\* Mutant: whatever is not a 200 means that the token was rejected.
resolve_me_Lax(reply) ==
    CASE reply.status = 0 -> Transport
      [] reply.status = 200 -> json(reply)
      [] OTHER -> None

\* The caller's pseudonym, None for a token that SG rejects.
resolve_me(reply) ==
    CASE reply.status = 0 -> Transport
      [] reply.status = 200 -> json(reply)
      [] reply.status = 401 -> None
      [] OTHER -> Status(reply.status)

\* Mutant: error_for_status left out.
register_membership_Unchecked(reply) ==
    IF reply.status = 0 THEN Transport ELSE Ok("nothing")

\* The body is not read.
register_membership(reply) ==
    IF reply.status = 0 \/ error_for_status(reply) THEN Transport ELSE Ok("nothing")

\* The connections who joined.
connections_members(reply) ==
    IF reply.status = 0 \/ error_for_status(reply) THEN Transport ELSE json(reply)
===============================================================================
