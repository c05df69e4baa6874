---------------------------- MODULE RequestIdentity ----------------------------
(***************************************************************************)
(* platform-chirp-auth: who a request acts as.  At startup a backend reads *)
(* its machine verifier from the environment.  Each request carries a      *)
(* bearer token and the trusted headers; the machine verifier runs first,  *)
(* the backend dispatches on its answer, and a machine that presents an    *)
(* approval grant is resolved to the grant's owner by a lookup in the      *)
(* backend's store, where grants are made and revoked all the while.       *)
(*                                                                         *)
(* The backends' dispatch, their user-token path and their store are not   *)
(* in this repository: they are as its documentation describes them for    *)
(* Granite (either/or, x-user-id) and Drive (flat 401, on-behalf-of).      *)
(***************************************************************************)
EXTENDS Integers, FiniteSets

CONSTANTS
    Requests,
    Issuers, Clients,       \* token issuers; the clients that mint machine tokens
    Principals,             \* chirp subs of humans and of machines
    GrantIds,
    Tokens,                 \* the bearer tokens that occur
    Grants,                 \* the grants that may be made
    Environments,           \* the environments a backend may start in
    HeaderIds, HeaderGrants, \* what the trusted headers of a request may hold
    Unset, Blank,           \* an absent header or variable; one of white space
    Undecodable, Invalid,   \* a header that is no text; one that is no id
    None

TokenShape == [kind : {"machine", "human", "test", "invalid"}, issuer : Issuers,
               client : Clients, sub : Principals, owner : Principals]

\* The entries of the audience list: a variable that is set has at least one,
\* so {} is one that is not.
EnvironmentShape == [primary : Issuers \cup {Unset, Blank},
                     fallback : Issuers \cup {Unset, Blank},
                     audiences : SUBSET (Clients \cup {Blank})]

GrantShape == [id : GrantIds, subject : Principals, owner : Principals]

ContextShape == [uid : Principals, agent_id : Principals,
                 approval_grant_id : GrantIds \cup {Invalid, None}]

ASSUME ShapeAssumption ==
    /\ Tokens \subseteq TokenShape
    /\ Grants \subseteq GrantShape
    /\ Environments \subseteq EnvironmentShape
    /\ HeaderIds \subseteq Principals \cup {Unset, Blank, Undecodable, Invalid}
    /\ HeaderGrants \subseteq GrantIds \cup {Unset, Blank, Undecodable, Invalid}

ASSUME NamesAssumption ==
    /\ {Unset, Blank, Undecodable, Invalid, None}
         \cap (Issuers \cup Clients \cup Principals \cup GrantIds) = {}
    /\ Cardinality({Unset, Blank, Undecodable, Invalid, None}) = 5
    /\ None \notin ContextShape \cup GrantShape

VARIABLES
    env,        \* the environment the backend was started in
    service,    \* which backend it is: "drive" or "granite"
    bypass,     \* whether it trusts headers without a token (development)
    grants,     \* the grants now in its store
    minted,     \* the ids of all grants ever made
    request,    \* what each request carries
    phase,      \* where it is
    verdict,    \* what MachineAuth::verify made of its token
    ctx,        \* the identity it acts as
    answer,     \* what the grant lookup found
    window      \* history: the grants in the store at some time since it came

vars == <<env, service, bypass, grants, minted, request, phase, verdict, ctx,
          answer, window>>

-------------------------------------------------------------------------------
\* Startup.

\* The issuer is that of the first variable that is set, blank or not.
IssuerOf(e) == IF e.primary # Unset THEN e.primary ELSE e.fallback

Listed(e) == e.audiences \ {Blank}

\* Mutant: a list of blanks does not switch the path off, and accepts anybody.
from_env_NoAudiences(e) ==
    IF IssuerOf(e) \in Issuers /\ e.audiences # {}
      THEN [issuer |-> IssuerOf(e),
            accepted |-> IF Listed(e) = {} THEN Clients ELSE Listed(e)]
      ELSE None

\* MachineAuth, or None: then the machine path is off.
from_env(e) ==
    IF IssuerOf(e) \in Issuers /\ Listed(e) # {}
      THEN [issuer |-> IssuerOf(e), accepted |-> Listed(e)]
      ELSE None

-------------------------------------------------------------------------------
\* The machine verifier.

\* verify_chirp_id_token of chirp-auth-client; it fetches keys, and may fail to.
LibraryAnswers(machine, token) ==
    IF token.kind = "invalid" \/ token.issuer # machine.issuer THEN {"Error"}
    ELSE {"Error"} \cup
         {IF token.kind # "machine" THEN "Human"
          ELSE IF token.client \in machine.accepted THEN "Machine"
          ELSE "MachineAudienceNotAccepted"}

\* Mutant: the non-member is an error like any other.
MachineVerdict_Flat(lib) == IF lib = "Machine" THEN "Ok" ELSE "NotMachine"

MachineVerdict(lib) ==
    IF lib = "Machine" THEN "Ok"
    ELSE IF lib = "MachineAudienceNotAccepted" THEN "Rejected"
    ELSE "NotMachine"

-------------------------------------------------------------------------------
\* The trusted headers.

\* x-approval-grant: trimmed, dropped if empty; Invalid is text that is no UUID.
GrantHeader(h) == IF h \in {Unset, Undecodable, Blank} THEN None ELSE h

\* Mutant: x-agent-id is taken as it comes.
decode_trusted_headers_RawAgent(r) ==
    IF r.user_id \notin Principals THEN None
    ELSE [uid |-> r.user_id,
          agent_id |-> IF r.agent_id \in {Unset, Undecodable} THEN r.user_id
                       ELSE r.agent_id,
          approval_grant_id |-> GrantHeader(r.grant)]

\* decode_trusted_headers, None for Unauthorized.  An x-agent-id that is no text
\* counts as absent, a blank one does not.
decode_trusted_headers(r) ==
    IF r.user_id \notin Principals THEN None
    ELSE IF r.agent_id \in {Unset, Undecodable}
      THEN [uid |-> r.user_id, agent_id |-> r.user_id,
            approval_grant_id |-> GrantHeader(r.grant)]
    ELSE IF r.agent_id \in Principals
      THEN [uid |-> r.user_id, agent_id |-> r.agent_id,
            approval_grant_id |-> GrantHeader(r.grant)]
    ELSE None

\* Mutant: everybody who presents a grant is looked up, humans too.
NeedsLookup_Always(c, header) == header \in GrantIds

\* apply_on_behalf_of_grant goes to the store for machines (uid and agent_id
\* differ) that present a well-formed grant id.
NeedsLookup(c, header) == c.uid # c.agent_id /\ header \in GrantIds

-------------------------------------------------------------------------------
\* Requests.

NoRequest == [token |-> None, user_id |-> Unset, agent_id |-> Unset, grant |-> Unset]

Init ==
    /\ env \in Environments
    /\ service \in {"drive", "granite"}
    /\ bypass \in BOOLEAN
    /\ grants = {} /\ minted = {}
    /\ request = [r \in Requests |-> NoRequest]
    /\ phase = [r \in Requests |-> "none"]
    /\ verdict = [r \in Requests |-> "none"]
    /\ ctx = [r \in Requests |-> None]
    /\ answer = [r \in Requests |-> None]
    /\ window = [r \in Requests |-> {}]

Deploy == <<env, service, bypass>>

Arrive(r, token, user, agent, grant) ==
    /\ phase[r] = "none"
    /\ request' = [request EXCEPT ![r] = [token |-> token, user_id |-> user,
                                          agent_id |-> agent, grant |-> grant]]
    /\ phase' = [phase EXCEPT ![r] = "arrived"]
    /\ window' = [window EXCEPT ![r] = grants]
    /\ UNCHANGED <<Deploy, grants, minted, verdict, ctx, answer>>

\* The request goes on as c, or is denied if there is no identity.
Assume(r, c, next) ==
    /\ ctx' = [ctx EXCEPT ![r] = c]
    /\ phase' = [phase EXCEPT ![r] = IF c = None THEN "denied" ELSE next]

\* The machine path is off: the user path it is.
SkipMachinePath(r) ==
    /\ phase[r] = "arrived"
    /\ from_env(env) = None
    /\ phase' = [phase EXCEPT ![r] = "user"]
    /\ UNCHANGED <<Deploy, grants, minted, request, verdict, ctx, answer, window>>

\* MachineAuth::verify returns, and the backend dispatches: Drive names the
\* token's owner, Granite the x-user-id; on NotMachine only Granite goes on.
MachinePath(r, lib) ==
    /\ phase[r] = "arrived"
    /\ from_env(env) # None
    /\ lib \in LibraryAnswers(from_env(env), request[r].token)
    /\ verdict' = [verdict EXCEPT ![r] = lib]
    /\ LET t == request[r].token
       IN  CASE MachineVerdict(lib) = "Ok" /\ service = "drive" ->
                  Assume(r, [uid |-> t.owner, agent_id |-> t.sub,
                             approval_grant_id |-> None], "resolve")
             [] MachineVerdict(lib) = "Ok" /\ service = "granite" ->
                  Assume(r, decode_trusted_headers(request[r]), "done")
             [] MachineVerdict(lib) = "NotMachine" /\ service = "granite" ->
                  phase' = [phase EXCEPT ![r] = "user"] /\ UNCHANGED ctx
             [] OTHER -> Assume(r, None, "denied")
    /\ UNCHANGED <<Deploy, grants, minted, request, answer, window>>

\* The user path: a human's token, the headers alone in development, or a 401
\* (the keys may not be fetched, so a human may be denied too).
UserPath(r) ==
    /\ phase[r] = "user"
    /\ LET t == request[r].token
       IN  \/ /\ t.kind = "human"
              /\ Assume(r, [uid |-> t.sub, agent_id |-> t.sub,
                            approval_grant_id |-> None], "resolve")
           \/ /\ bypass
              /\ Assume(r, decode_trusted_headers(request[r]), "done")
           \/ Assume(r, None, "denied")
    /\ UNCHANGED <<Deploy, grants, minted, request, verdict, answer, window>>

\* Mutant: the grant id is kept only when it is going to be looked up.
CopiedGrant_IfLookedUp(c, header) == IF NeedsLookup(c, header) THEN header ELSE None
CopiedGrant(c, header) == header

\* apply_on_behalf_of_grant, to its await.
Resolve(r) ==
    /\ phase[r] = "resolve"
    /\ LET header == GrantHeader(request[r].grant)
       IN  /\ ctx' = [ctx EXCEPT ![r].approval_grant_id = CopiedGrant(ctx[r], header)]
           /\ phase' = [phase EXCEPT ![r] =
                          IF NeedsLookup(ctx[r], header) THEN "lookup" ELSE "done"]
    /\ UNCHANGED <<Deploy, grants, minted, request, verdict, answer, window>>

Finds(c) == {g \in grants : g.id = c.approval_grant_id /\ g.subject = c.agent_id}

\* Mutant: the grants are those of when the request came, or later.
Lookup_Cached(r) ==
    /\ phase[r] = "lookup"
    /\ answer' = [answer EXCEPT ![r] =
          IF \E g \in window[r] : g.id = ctx[r].approval_grant_id /\ g.subject = ctx[r].agent_id
            THEN CHOOSE g \in window[r] :
                    g.id = ctx[r].approval_grant_id /\ g.subject = ctx[r].agent_id
            ELSE None]
    /\ phase' = [phase EXCEPT ![r] = "found"]
    /\ UNCHANGED <<Deploy, grants, minted, request, verdict, ctx, window>>

\* The store answers with the grant of this id that names this subject, with
\* none, or with an error, which counts as none.
Lookup(r) ==
    /\ phase[r] = "lookup"
    /\ \/ \E g \in Finds(ctx[r]) : answer' = [answer EXCEPT ![r] = g]
       \/ answer' = [answer EXCEPT ![r] = None]
    /\ phase' = [phase EXCEPT ![r] = "found"]
    /\ UNCHANGED <<Deploy, grants, minted, request, verdict, ctx, window>>

\* Mutant: a request whose grant is not found is left as it is.
Attribute_FoundOnly(r) ==
    /\ phase[r] = "found"
    /\ answer[r] # None
    /\ ctx' = [ctx EXCEPT ![r].uid = answer[r].owner]
    /\ phase' = [phase EXCEPT ![r] = "done"]
    /\ UNCHANGED <<Deploy, grants, minted, request, verdict, answer, window>>

\* apply_on_behalf_of_grant, from its await on; the grant may be gone by now.
Attribute(r) ==
    /\ phase[r] = "found"
    /\ ctx' = IF answer[r] = None THEN ctx
              ELSE [ctx EXCEPT ![r].uid = answer[r].owner]
    /\ phase' = [phase EXCEPT ![r] = "done"]
    /\ UNCHANGED <<Deploy, grants, minted, request, verdict, answer, window>>

\* Somebody grants, or revokes, while requests are under way.
MintGrant(g) ==
    /\ g.id \notin minted
    /\ grants' = grants \cup {g}
    /\ minted' = minted \cup {g.id}
    /\ window' = [r \in Requests |->
                    IF phase[r] \in {"none", "done", "denied"} THEN window[r]
                    ELSE window[r] \cup {g}]
    /\ UNCHANGED <<Deploy, request, phase, verdict, ctx, answer>>

RevokeGrant(g) ==
    /\ grants' = grants \ {g}
    /\ UNCHANGED <<Deploy, minted, request, phase, verdict, ctx, answer, window>>

Serve(r) ==
    \/ SkipMachinePath(r)
    \/ \E lib \in {"Error", "Human", "Machine", "MachineAudienceNotAccepted"} :
          MachinePath(r, lib)
    \/ UserPath(r) \/ Resolve(r) \/ Lookup(r) \/ Attribute(r)

Next ==
    \/ \E r \in Requests :
         \/ Serve(r)
         \/ \E token \in Tokens, user, agent \in HeaderIds, grant \in HeaderGrants :
               Arrive(r, token, user, agent, grant)
    \/ \E g \in Grants : MintGrant(g)
    \/ \E g \in grants : RevokeGrant(g)

\* Verification and lookup end, if only with an error, and the request goes on.
Spec == Init /\ [][Next]_vars /\ \A r \in Requests : WF_vars(Serve(r))

-------------------------------------------------------------------------------
\* Properties.

\* The type invariant.
TypeOK ==
    /\ env \in Environments /\ service \in {"drive", "granite"} /\ bypass \in BOOLEAN
    /\ grants \subseteq Grants /\ minted \subseteq GrantIds
    /\ request \in [Requests -> {NoRequest} \cup
                      [token : Tokens, user_id : HeaderIds, agent_id : HeaderIds,
                       grant : HeaderGrants]]
    /\ phase \in [Requests -> {"none", "arrived", "user", "resolve", "lookup",
                               "found", "done", "denied"}]
    /\ verdict \in [Requests -> {"none", "Error", "Human", "Machine",
                                 "MachineAudienceNotAccepted"}]
    /\ ctx \in [Requests -> ContextShape \cup {None}]
    /\ answer \in [Requests -> Grants \cup {None}]
    /\ window \in [Requests -> SUBSET Grants]

\* A grant for r that was in the store while r was under way, and makes uid the
\* owner that r's machine may act for.
JustifyingGrants(r, uid) ==
    {g \in window[r] : /\ g.id = request[r].grant
                       /\ g.subject = request[r].token.sub
                       /\ g.owner = uid}

\* No request acts as somebody it may not act as, whatever happens to the grants
\* between its lookup and its end: a machine acts as its owner or as the owner
\* of a grant that names it and that its own request presented, a human only as
\* itself, and x-user-id counts only behind an accepted machine or in development.
AttributionJustified ==
    \A r \in Requests : phase[r] = "done" =>
        LET t == request[r].token
            uid == ctx[r].uid
        IN  \/ /\ verdict[r] = "Machine" /\ service = "drive"
               /\ (uid = t.owner \/ JustifyingGrants(r, uid) # {})
            \/ /\ verdict[r] = "Machine" /\ service = "granite"
               /\ uid = request[r].user_id
            \/ /\ verdict[r] # "Machine" /\ bypass
               /\ uid = request[r].user_id
            \/ /\ t.kind = "human"
               /\ uid = t.sub

\* A verified machine token of a client that is not listed is refused for good:
\* no other path picks the request up, not even the one without tokens.
RejectedIsFinal ==
    \A r \in Requests :
        verdict[r] = "MachineAudienceNotAccepted" => phase[r] = "denied"

\* Only listed clients act as machines: an empty or missing list accepts none.
MachinesAreListed ==
    \A r \in Requests : verdict[r] = "Machine" =>
        request[r].token.client \in env.audiences

\* The grant id a request presented reaches the per-operation check downstream,
\* however the resolution went.
GrantHeaderCarried ==
    \A r \in Requests : phase[r] = "done" =>
        ctx[r].approval_grant_id = GrantHeader(request[r].grant)

\* The machine tokens that this environment accepts.
TrustedTokens ==
    {t \in Tokens : /\ t.kind = "machine" /\ t.issuer = IssuerOf(env)
                    /\ t.client \in env.audiences}

\* As whom a request acts is settled when the store has answered; what is left is
\* to write it down.
Acting(r) ==
    CASE phase[r] = "done" -> ctx[r].uid
      [] phase[r] = "denied" -> None
      [] phase[r] = "found" -> IF answer[r] = None THEN ctx[r].uid ELSE answer[r].owner
      [] OTHER -> Unset

Decisions == INSTANCE Attributions WITH
    Carried <- [token : Tokens, user_id : HeaderIds, agent_id : HeaderIds,
                grant : HeaderGrants],
    Nothing <- NoRequest, Open <- Unset, Denied <- None,
    trusted <- TrustedTokens, acting <- [r \in Requests |-> Acting(r)]

\* The verifier, the dispatch and the two halves of apply_on_behalf_of_grant are
\* together one decision, made at one moment against the store of that moment and
\* never made again, although grants come and go around its await.
ImplementsDecisions == Decisions!Spec

\* Every request is answered: no outcome of a verification or a lookup, and no
\* mistake of the headers, leaves it hanging.
EveryRequestAnswered ==
    \A r \in Requests : phase[r] = "arrived" ~> phase[r] \in {"done", "denied"}

\* "Returns Unauthorized when x-user-id is missing/empty or any provided id
\* fails validation": a header-derived identity had no unusable id.
ProvidedIdsValidated ==
    \A r \in Requests :
        phase[r] = "done" /\ verdict[r] = "Machine" /\ service = "granite" =>
            request[r].agent_id \in Principals \cup {Unset}

\* "issuer_env_vars are tried in order, first non-empty wins".
FirstNonEmptyWins ==
    env.primary \notin Issuers /\ env.fallback \in Issuers /\ Listed(env) # {}
        => from_env(env) # None
===============================================================================
