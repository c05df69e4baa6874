------------------------- MODULE RequestIdentityProofs -------------------------
(***************************************************************************)
(* Proofs about RequestIdentity, for any number of requests, tokens,       *)
(* clients and grants.  The invariant follows a request through its        *)
(* phases: what the identity it is given so far rests on.                  *)
(***************************************************************************)
EXTENDS RequestIdentity, TLAPS

RequestShape == [token : Tokens, user_id : HeaderIds, agent_id : HeaderIds,
                 grant : HeaderGrants]

\* The verdict fits the phase, and a machine was accepted by issuer and list.
VerdictInv(r) ==
    /\ phase[r] = "none" => request[r] = NoRequest
    /\ phase[r] # "none" => request[r] \in RequestShape
    /\ phase[r] \in {"none", "arrived"} => verdict[r] = "none"
    /\ phase[r] = "user" =>
         verdict[r] \notin {"Machine", "MachineAudienceNotAccepted"}
    /\ verdict[r] = "MachineAudienceNotAccepted" => phase[r] = "denied"
    /\ verdict[r] = "Machine" => request[r].token \in TrustedTokens

\* On the way to the store the identity is still the token's own.
OwnIdentity(r) ==
    LET t == request[r].token
    IN  /\ ctx[r] \in ContextShape
        /\ ctx[r].agent_id = t.sub
        /\ \/ verdict[r] = "Machine" /\ service = "drive" /\ ctx[r].uid = t.owner
           \/ t.kind = "human" /\ ctx[r].uid = t.sub

ResolvingInv(r) ==
    /\ phase[r] \in {"resolve", "lookup", "found"} => OwnIdentity(r)
    /\ phase[r] \in {"lookup", "found"} =>
         /\ ctx[r].uid # ctx[r].agent_id
         /\ ctx[r].approval_grant_id = request[r].grant
         /\ request[r].grant \in GrantIds

\* Whatever the store answered, it held while the request was under way.
AnswerInv(r) ==
    /\ phase[r] \notin {"none", "done", "denied"} => grants \subseteq window[r]
    /\ phase[r] = "found" /\ answer[r] # None =>
         /\ answer[r] \in window[r]
         /\ answer[r].id = ctx[r].approval_grant_id
         /\ answer[r].subject = ctx[r].agent_id

\* AttributionJustified and GrantHeaderCarried, of one request.
Justified(r) ==
    LET t == request[r].token
        uid == ctx[r].uid
    IN  \/ /\ verdict[r] = "Machine" /\ service = "drive"
           /\ (uid = t.owner \/ JustifyingGrants(r, uid) # {})
        \/ /\ verdict[r] = "Machine" /\ service = "granite"
           /\ uid = request[r].user_id
        \/ /\ verdict[r] # "Machine" /\ bypass
           /\ uid = request[r].user_id
        \/ /\ t.kind = "human"
           /\ uid = t.sub

DoneInv(r) ==
    phase[r] = "done" =>
        Justified(r) /\ ctx[r].approval_grant_id = GrantHeader(request[r].grant)

RequestInv(r) == VerdictInv(r) /\ ResolvingInv(r) /\ AnswerInv(r) /\ DoneInv(r)

IInv == TypeOK /\ \A r \in Requests : RequestInv(r)

-------------------------------------------------------------------------------
\* An identity taken from the headers is well-formed, names x-user-id and
\* carries the grant id.
LEMMA HeadersShape ==
    ASSUME NEW q \in RequestShape, decode_trusted_headers(q) # None
    PROVE  /\ decode_trusted_headers(q) \in ContextShape
           /\ decode_trusted_headers(q).uid = q.user_id
           /\ decode_trusted_headers(q).approval_grant_id = GrantHeader(q.grant)
  <1>1. q.user_id \in Principals
    BY DEF decode_trusted_headers
  <1>2. q.grant \in HeaderGrants
    BY DEF RequestShape
  <1>3. GrantHeader(q.grant) \in GrantIds \cup {Invalid, None}
    BY <1>2, ShapeAssumption DEF GrantHeader
  <1> QED
    BY <1>1, <1>3 DEF decode_trusted_headers, ContextShape

\* A token's own identity is well-formed.
LEMMA TokenShapes ==
    ASSUME NEW q \in RequestShape
    PROVE  /\ q.token \in TokenShape
           /\ [uid |-> q.token.owner, agent_id |-> q.token.sub,
                approval_grant_id |-> None] \in ContextShape
           /\ [uid |-> q.token.sub, agent_id |-> q.token.sub,
                approval_grant_id |-> None] \in ContextShape
  <1>1. q.token \in TokenShape
    BY ShapeAssumption DEF RequestShape
  <1> QED
    BY <1>1 DEF TokenShape, ContextShape

\* A request keeps its invariant while others, and the store, take steps: all
\* that may change about it is that it has seen more grants.
LEMMA Frame ==
    ASSUME NEW r \in Requests, RequestInv(r), UNCHANGED Deploy,
           UNCHANGED <<request[r], phase[r], verdict[r], ctx[r], answer[r]>>,
           window[r] \subseteq window[r]',
           phase[r] \notin {"none", "done", "denied"} => grants' \subseteq window[r]'
    PROVE  RequestInv(r)'
  <1>1. VerdictInv(r)'
    BY DEF RequestInv, VerdictInv, TrustedTokens, Deploy
  <1>2. ResolvingInv(r)'
    BY DEF RequestInv, ResolvingInv, OwnIdentity, Deploy
  <1>3. AnswerInv(r)'
    BY DEF RequestInv, AnswerInv
  <1>4. \A uid : JustifyingGrants(r, uid) \subseteq JustifyingGrants(r, uid)'
    BY DEF JustifyingGrants
  <1>5. DoneInv(r)'
    BY <1>4 DEF RequestInv, DoneInv, Justified, Deploy
  <1> QED
    BY <1>1, <1>2, <1>3, <1>5 DEF RequestInv

\* So a step of one request need only be followed for that request.
LEMMA OneRequest ==
    ASSUME IInv, TypeOK', NEW r \in Requests, RequestInv(r)',
           UNCHANGED <<Deploy, grants, minted>>,
           \A s \in Requests \ {r} :
             /\ request'[s] = request[s] /\ phase'[s] = phase[s]
             /\ verdict'[s] = verdict[s] /\ ctx'[s] = ctx[s]
             /\ answer'[s] = answer[s] /\ window'[s] = window[s]
    PROVE  IInv'
  <1>1. ASSUME NEW s \in Requests, s # r
        PROVE  RequestInv(s)'
    <2>1. RequestInv(s)
      BY DEF IInv
    <2>2. phase[s] \notin {"none", "done", "denied"} => grants' \subseteq window[s]'
      BY <2>1, <1>1 DEF RequestInv, AnswerInv
    <2> QED
      BY <1>1, <2>1, <2>2, Frame
  <1> QED
    BY <1>1 DEF IInv

LEMMA InitInv == Init => IInv
  <1> SUFFICES ASSUME Init PROVE IInv
    OBVIOUS
  <1>1. TypeOK
    BY DEF Init, TypeOK
  <1>2. ASSUME NEW r \in Requests
        PROVE  RequestInv(r)
    BY <1>2 DEF Init, RequestInv, VerdictInv, ResolvingInv, AnswerInv, DoneInv
  <1> QED
    BY <1>1, <1>2 DEF IInv

LEMMA ArriveStep ==
    ASSUME IInv, NEW r \in Requests, NEW token \in Tokens,
           NEW user \in HeaderIds, NEW agent \in HeaderIds,
           NEW grant \in HeaderGrants, Arrive(r, token, user, agent, grant)
    PROVE  IInv'
  <1> USE DEF IInv
  <1>1. TypeOK'
    BY DEF Arrive, TypeOK, Deploy
  <1>2. request'[r] \in RequestShape /\ phase'[r] = "arrived"
          /\ verdict'[r] = "none" /\ window'[r] = grants
    BY DEF Arrive, TypeOK, RequestShape, RequestInv, VerdictInv
  <1>3. RequestInv(r)'
    BY <1>2 DEF RequestInv, VerdictInv, ResolvingInv, AnswerInv, DoneInv, Arrive
  <1> QED
    BY <1>1, <1>3, OneRequest DEF Arrive, TypeOK

LEMMA SkipStep ==
    ASSUME IInv, NEW r \in Requests, SkipMachinePath(r)
    PROVE  IInv'
  <1> USE DEF IInv
  <1>1. TypeOK'
    BY DEF SkipMachinePath, TypeOK, Deploy
  <1>2. phase'[r] = "user"
    BY DEF SkipMachinePath, TypeOK
  <1>3. RequestInv(r)'
    BY <1>2 DEF SkipMachinePath, RequestInv, VerdictInv, ResolvingInv, AnswerInv,
                DoneInv, Deploy
  <1> QED
    BY <1>1, <1>3, OneRequest DEF SkipMachinePath, TypeOK

\* The machine verifier accepts none but the configured issuer's tokens for listed
\* clients.
LEMMA AcceptedIsTrusted ==
    ASSUME NEW token \in Tokens, from_env(env) # None,
           "Machine" \in LibraryAnswers(from_env(env), token)
    PROVE  token \in TrustedTokens
  <1>1. from_env(env) = [issuer |-> IssuerOf(env), accepted |-> Listed(env)]
    BY DEF from_env
  <1>2. /\ token.kind = "machine" /\ token.issuer = from_env(env).issuer
        /\ token.client \in from_env(env).accepted
    BY DEF LibraryAnswers
  <1> QED
    BY <1>1, <1>2 DEF Listed, TrustedTokens

LEMMA MachineStep ==
    ASSUME IInv, NEW r \in Requests,
           NEW lib \in {"Error", "Human", "Machine", "MachineAudienceNotAccepted"},
           MachinePath(r, lib)
    PROVE  IInv'
  <1> USE DEF IInv
  <1> DEFINE q == request[r]
             own == [uid |-> q.token.owner, agent_id |-> q.token.sub,
                     approval_grant_id |-> None]
             claimed == decode_trusted_headers(q)
  <1>1. /\ q \in RequestShape /\ phase[r] = "arrived"
        /\ own \in ContextShape /\ own # None
        /\ claimed # None => claimed \in ContextShape
    BY TokenShapes, HeadersShape, NamesAssumption
       DEF MachinePath, RequestInv, VerdictInv
  <1>2. /\ UNCHANGED <<Deploy, grants, minted, request, answer, window>>
        /\ verdict' = [verdict EXCEPT ![r] = lib]
        /\ lib = "Machine" => q.token \in TrustedTokens
    BY <1>1, AcceptedIsTrusted DEF MachinePath, RequestShape
  <1>3. CASE lib = "Machine" /\ service = "drive"
    <2>1. ctx' = [ctx EXCEPT ![r] = own] /\ phase' = [phase EXCEPT ![r] = "resolve"]
      BY <1>1, <1>3 DEF MachinePath, MachineVerdict, Assume
    <2>2. TypeOK'
      BY <1>1, <1>2, <2>1 DEF TypeOK, Deploy
    <2>3. RequestInv(r)'
      BY <1>1, <1>2, <1>3, <2>1
         DEF TypeOK, RequestInv, VerdictInv, TrustedTokens, ResolvingInv,
             OwnIdentity, AnswerInv, DoneInv, Deploy
    <2> QED
      BY <1>2, <2>1, <2>2, <2>3, OneRequest DEF TypeOK
  <1>4. CASE lib = "Machine" /\ service = "granite"
    <2>1. /\ ctx' = [ctx EXCEPT ![r] = claimed]
          /\ phase' = [phase EXCEPT ![r] = IF claimed = None THEN "denied" ELSE "done"]
      BY <1>4 DEF MachinePath, MachineVerdict, Assume
    <2>2. TypeOK'
      BY <1>1, <1>2, <2>1 DEF TypeOK, Deploy
    <2>3. claimed # None =>
            claimed.uid = q.user_id /\ claimed.approval_grant_id = GrantHeader(q.grant)
      BY <1>1, HeadersShape
    <2>4. RequestInv(r)'
      BY <1>1, <1>2, <1>4, <2>1, <2>3
         DEF TypeOK, RequestInv, VerdictInv, TrustedTokens, ResolvingInv,
             AnswerInv, DoneInv, Justified, Deploy
    <2> QED
      BY <1>2, <2>1, <2>2, <2>4, OneRequest DEF TypeOK
  <1>5. CASE lib \in {"Error", "Human"} /\ service = "granite"
    <2>1. phase' = [phase EXCEPT ![r] = "user"] /\ UNCHANGED ctx
      BY <1>5 DEF MachinePath, MachineVerdict
    <2>2. TypeOK'
      BY <1>1, <1>2, <2>1 DEF TypeOK, Deploy
    <2>3. RequestInv(r)'
      BY <1>1, <1>2, <1>5, <2>1
         DEF TypeOK, RequestInv, VerdictInv, TrustedTokens, ResolvingInv,
             AnswerInv, DoneInv, Deploy
    <2> QED
      BY <1>2, <2>1, <2>2, <2>3, OneRequest DEF TypeOK
  <1>6. CASE lib = "MachineAudienceNotAccepted"
             \/ (lib \in {"Error", "Human"} /\ service = "drive")
    <2>1. ctx' = [ctx EXCEPT ![r] = None] /\ phase' = [phase EXCEPT ![r] = "denied"]
      BY <1>6 DEF MachinePath, MachineVerdict, Assume
    <2>2. TypeOK'
      BY <1>1, <1>2, <2>1 DEF TypeOK, Deploy
    <2>3. RequestInv(r)'
      BY <1>1, <1>2, <1>6, <2>1
         DEF TypeOK, RequestInv, VerdictInv, TrustedTokens, ResolvingInv,
             AnswerInv, DoneInv, Deploy
    <2> QED
      BY <1>2, <2>1, <2>2, <2>3, OneRequest DEF TypeOK
  <1>7. service \in {"drive", "granite"}
    BY DEF TypeOK
  <1> QED
    BY <1>3, <1>4, <1>5, <1>6, <1>7

LEMMA UserStep ==
    ASSUME IInv, NEW r \in Requests, UserPath(r)
    PROVE  IInv'
  <1> USE DEF IInv
  <1> DEFINE q == request[r]
             own == [uid |-> q.token.sub, agent_id |-> q.token.sub,
                     approval_grant_id |-> None]
             claimed == decode_trusted_headers(q)
             become(c, next) ==
               /\ ctx' = [ctx EXCEPT ![r] = c]
               /\ phase' = [phase EXCEPT ![r] = IF c = None THEN "denied" ELSE next]
  <1>1. /\ q \in RequestShape /\ phase[r] = "user"
        /\ verdict[r] \notin {"Machine", "MachineAudienceNotAccepted"}
        /\ own \in ContextShape /\ own # None
        /\ claimed # None => /\ claimed \in ContextShape
                             /\ claimed.uid = q.user_id
                             /\ claimed.approval_grant_id = GrantHeader(q.grant)
    BY TokenShapes, HeadersShape, NamesAssumption
       DEF UserPath, RequestInv, VerdictInv
  <1>2. UNCHANGED <<Deploy, grants, minted, request, verdict, answer, window>>
    BY DEF UserPath
  <1>3. CASE q.token.kind = "human" /\ become(own, "resolve")
    <2>1. TypeOK'
      BY <1>1, <1>2, <1>3 DEF TypeOK, Deploy
    <2>2. RequestInv(r)'
      BY <1>1, <1>2, <1>3
         DEF TypeOK, RequestInv, VerdictInv, TrustedTokens, ResolvingInv,
             OwnIdentity, AnswerInv, DoneInv, Deploy
    <2> QED
      BY <1>2, <1>3, <2>1, <2>2, OneRequest DEF TypeOK
  <1>4. CASE bypass /\ become(claimed, "done")
    <2>1. TypeOK'
      BY <1>1, <1>2, <1>4 DEF TypeOK, Deploy
    <2>2. RequestInv(r)'
      BY <1>1, <1>2, <1>4
         DEF TypeOK, RequestInv, VerdictInv, TrustedTokens, ResolvingInv,
             AnswerInv, DoneInv, Justified, Deploy
    <2> QED
      BY <1>2, <1>4, <2>1, <2>2, OneRequest DEF TypeOK
  <1>5. CASE become(None, "denied")
    <2>1. TypeOK'
      BY <1>1, <1>2, <1>5 DEF TypeOK, Deploy
    <2>2. RequestInv(r)'
      BY <1>1, <1>2, <1>5
         DEF TypeOK, RequestInv, VerdictInv, TrustedTokens, ResolvingInv,
             AnswerInv, DoneInv, Deploy
    <2> QED
      BY <1>2, <1>5, <2>1, <2>2, OneRequest DEF TypeOK
  <1> QED
    BY <1>3, <1>4, <1>5 DEF UserPath, Assume

\* Copying the grant id leaves the identity as it was; an identity that needs no
\* lookup is justified already.
LEMMA ResolveStep ==
    ASSUME IInv, NEW r \in Requests, Resolve(r)
    PROVE  IInv'
  <1> USE DEF IInv
  <1> DEFINE q == request[r]
             header == GrantHeader(q.grant)
  <1>1. /\ q \in RequestShape /\ phase[r] = "resolve" /\ OwnIdentity(r)
        /\ verdict[r] # "MachineAudienceNotAccepted"
    BY DEF Resolve, RequestInv, VerdictInv, TrustedTokens, ResolvingInv
  <1>2. header \in GrantIds \cup {Invalid, None}
    BY <1>1, ShapeAssumption DEF RequestShape, GrantHeader
  <1>3. header \in GrantIds => header = q.grant
    BY NamesAssumption DEF GrantHeader
  <1>4. /\ UNCHANGED <<Deploy, grants, minted, request, verdict, answer, window>>
        /\ ctx' = [ctx EXCEPT ![r].approval_grant_id = header]
        /\ phase' = [phase EXCEPT ![r] =
                        IF NeedsLookup(ctx[r], header) THEN "lookup" ELSE "done"]
    BY DEF Resolve, CopiedGrant
  <1>5. /\ ctx'[r] \in ContextShape
        /\ ctx'[r].uid = ctx[r].uid /\ ctx'[r].agent_id = ctx[r].agent_id
        /\ ctx'[r].approval_grant_id = header
    BY <1>1, <1>2, <1>4 DEF TypeOK, OwnIdentity, ContextShape
  <1>6. TypeOK'
    BY <1>4, <1>5 DEF TypeOK, Deploy
  <1>7. OwnIdentity(r)'
    BY <1>1, <1>4, <1>5 DEF OwnIdentity, Deploy
  <1>8. VerdictInv(r)' /\ ResolvingInv(r)'
    BY <1>1, <1>3, <1>4, <1>5, <1>7
       DEF TypeOK, RequestInv, VerdictInv, TrustedTokens, ResolvingInv,
           NeedsLookup, Deploy
  <1>9. AnswerInv(r)'
    BY <1>1, <1>4 DEF TypeOK, RequestInv, AnswerInv
  <1>10. DoneInv(r)'
    BY <1>4, <1>5, <1>7 DEF DoneInv, Justified, OwnIdentity
  <1> QED
    BY <1>4, <1>6, <1>8, <1>9, <1>10, OneRequest DEF TypeOK, RequestInv

\* Whatever is found is in the store now, and so was while the request ran.
LEMMA LookupStep ==
    ASSUME IInv, NEW r \in Requests, Lookup(r)
    PROVE  IInv'
  <1> USE DEF IInv
  <1>1. PICK g \in Finds(ctx[r]) \cup {None} : answer' = [answer EXCEPT ![r] = g]
    BY DEF Lookup
  <1>2. /\ phase[r] = "lookup" /\ phase' = [phase EXCEPT ![r] = "found"]
        /\ UNCHANGED <<Deploy, grants, minted, request, verdict, ctx, window>>
    BY DEF Lookup
  <1>3. g # None => /\ g \in grants
                    /\ g.id = ctx[r].approval_grant_id
                    /\ g.subject = ctx[r].agent_id
    BY DEF Finds
  <1>4. TypeOK'
    BY <1>1, <1>2, <1>3 DEF TypeOK, Deploy
  <1>5. VerdictInv(r)' /\ ResolvingInv(r)' /\ DoneInv(r)'
    BY <1>2
       DEF TypeOK, RequestInv, VerdictInv, TrustedTokens, ResolvingInv,
           OwnIdentity, DoneInv, Deploy
  <1>6. AnswerInv(r)'
    BY <1>1, <1>2, <1>3 DEF TypeOK, RequestInv, AnswerInv
  <1> QED
    BY <1>1, <1>2, <1>4, <1>5, <1>6, OneRequest DEF TypeOK, RequestInv

\* The owner written in is that of a grant the request saw, and it named this
\* machine: a human, being its own agent, never gets here.
LEMMA AttributeStep ==
    ASSUME IInv, NEW r \in Requests, Attribute(r)
    PROVE  IInv'
  <1> USE DEF IInv
  <1>1. /\ phase[r] = "found" /\ phase' = [phase EXCEPT ![r] = "done"]
        /\ UNCHANGED <<Deploy, grants, minted, request, verdict, answer, window>>
        /\ OwnIdentity(r)
        /\ ctx[r].uid # ctx[r].agent_id
        /\ ctx[r].approval_grant_id = request[r].grant
        /\ request[r].grant \in GrantIds
        /\ verdict[r] # "MachineAudienceNotAccepted"
    BY DEF Attribute, RequestInv, VerdictInv, TrustedTokens, ResolvingInv
  <1>2. GrantHeader(request[r].grant) = request[r].grant
    BY <1>1, NamesAssumption DEF GrantHeader
  <1>3. /\ verdict[r] = "Machine" /\ service = "drive"
        /\ ctx[r].uid = request[r].token.owner
        /\ ctx[r].agent_id = request[r].token.sub
    BY <1>1 DEF OwnIdentity
  <1>4. VerdictInv(r)' /\ ResolvingInv(r)' /\ AnswerInv(r)'
    BY <1>1
       DEF TypeOK, RequestInv, VerdictInv, TrustedTokens, ResolvingInv,
           AnswerInv, Deploy
  <1>5. CASE answer[r] = None
    <2>1. UNCHANGED ctx
      BY <1>5 DEF Attribute
    <2>2. TypeOK'
      BY <1>1, <2>1 DEF TypeOK, Deploy
    <2>3. DoneInv(r)'
      BY <1>1, <1>2, <1>3, <2>1 DEF DoneInv, Justified, Deploy
    <2> QED
      BY <1>1, <1>4, <2>1, <2>2, <2>3, OneRequest DEF TypeOK, RequestInv
  <1>6. CASE answer[r] # None
    <2>1. /\ answer[r] \in window[r]
          /\ answer[r].id = request[r].grant
          /\ answer[r].subject = request[r].token.sub
      BY <1>1, <1>3, <1>6 DEF RequestInv, AnswerInv
    <2>2. ctx' = [ctx EXCEPT ![r].uid = answer[r].owner]
      BY <1>6 DEF Attribute
    <2>3. answer[r] \in GrantShape
      BY <1>6, ShapeAssumption DEF TypeOK
    <2>4. /\ ctx'[r] \in ContextShape
          /\ ctx'[r].uid = answer[r].owner
          /\ ctx'[r].approval_grant_id = ctx[r].approval_grant_id
      BY <1>1, <2>2, <2>3 DEF TypeOK, OwnIdentity, ContextShape, GrantShape
    <2>5. TypeOK'
      BY <1>1, <2>2, <2>4 DEF TypeOK, Deploy
    <2>6. answer[r] \in JustifyingGrants(r, ctx[r].uid)'
      BY <1>1, <2>1, <2>4 DEF JustifyingGrants
    <2>7. DoneInv(r)'
      BY <1>1, <1>2, <1>3, <2>4, <2>6 DEF DoneInv, Justified, Deploy
    <2> QED
      BY <1>1, <1>4, <2>2, <2>5, <2>7, OneRequest DEF TypeOK, RequestInv
  <1> QED
    BY <1>5, <1>6

LEMMA MintStep ==
    ASSUME IInv, NEW g \in Grants, MintGrant(g)
    PROVE  IInv'
  <1> USE DEF IInv
  <1>1. g.id \in GrantIds
    BY ShapeAssumption DEF GrantShape
  <1>2. TypeOK'
    BY <1>1 DEF MintGrant, TypeOK, Deploy
  <1>3. ASSUME NEW r \in Requests
        PROVE  RequestInv(r)'
    <2>1. /\ window[r] \subseteq window'[r]
          /\ phase[r] \notin {"none", "done", "denied"} => grants' \subseteq window'[r]
      BY DEF MintGrant, TypeOK, RequestInv, AnswerInv
    <2> QED
      BY <2>1, Frame DEF MintGrant
  <1> QED
    BY <1>2, <1>3

LEMMA RevokeStep ==
    ASSUME IInv, NEW g \in grants, RevokeGrant(g)
    PROVE  IInv'
  <1> USE DEF IInv
  <1>1. TypeOK'
    BY DEF RevokeGrant, TypeOK, Deploy
  <1>2. ASSUME NEW r \in Requests
        PROVE  RequestInv(r)'
    <2>1. phase[r] \notin {"none", "done", "denied"} => grants' \subseteq window'[r]
      BY DEF RevokeGrant, RequestInv, AnswerInv
    <2> QED
      BY <2>1, Frame DEF RevokeGrant
  <1> QED
    BY <1>1, <1>2

LEMMA NextInv == IInv /\ [Next]_vars => IInv'
  <1> SUFFICES ASSUME IInv, [Next]_vars PROVE IInv'
    OBVIOUS
  <1>1. ASSUME NEW r \in Requests, Serve(r) PROVE IInv'
    BY <1>1, SkipStep, MachineStep, UserStep, ResolveStep, LookupStep, AttributeStep
       DEF Serve
  <1>2. CASE UNCHANGED vars
    <2>1. TypeOK'
      BY <1>2 DEF IInv, TypeOK, vars
    <2>2. ASSUME NEW r \in Requests PROVE RequestInv(r)'
      BY <1>2, Frame DEF vars, Deploy, IInv, RequestInv, AnswerInv
    <2> QED
      BY <2>1, <2>2 DEF IInv
  <1> QED
    BY <1>1, <1>2, ArriveStep, MintStep, RevokeStep DEF Next

-------------------------------------------------------------------------------
\* The invariant holds of every behaviour.
THEOREM Invariance == Spec => []IInv
  BY InitInv, NextInv, PTL DEF Spec

\* The type invariant: no identity is ever made of an id that failed validation.
THEOREM TypeCorrect == Spec => []TypeOK
  <1>1. IInv => TypeOK
    BY DEF IInv
  <1> QED
    BY <1>1, Invariance, PTL

\* apply_on_behalf_of_grant and the dispatch: no request acts as somebody it may
\* not act as, however grants are made and revoked around its lookup.
THEOREM Attribution == Spec => []AttributionJustified
  <1>1. IInv => AttributionJustified
    BY DEF IInv, RequestInv, DoneInv, Justified, AttributionJustified
  <1> QED
    BY <1>1, Invariance, PTL

\* MachineAuth::verify: a rejection is never followed by another path.
THEOREM RejectionFinal == Spec => []RejectedIsFinal
  <1>1. IInv => RejectedIsFinal
    BY DEF IInv, RequestInv, VerdictInv, RejectedIsFinal
  <1> QED
    BY <1>1, Invariance, PTL

\* MachineAuth::from_env: whatever the environment, only listed clients are
\* accepted as machines.
THEOREM ListedOnly == Spec => []MachinesAreListed
  <1>1. IInv => MachinesAreListed
    BY DEF IInv, RequestInv, VerdictInv, TrustedTokens, MachinesAreListed
  <1> QED
    BY <1>1, Invariance, PTL

\* apply_on_behalf_of_grant: the presented grant id survives every outcome of
\* the lookup.
THEOREM GrantIdCarried == Spec => []GrantHeaderCarried
  <1>1. IInv => GrantHeaderCarried
    BY DEF IInv, RequestInv, DoneInv, GrantHeaderCarried
  <1> QED
    BY <1>1, Invariance, PTL

-------------------------------------------------------------------------------
\* The refinement.

\* A request that acts as the token says may do so, grant or no grant.
LEMMA OwnIsAllowed ==
    ASSUME NEW r \in Requests, RequestInv(r), OwnIdentity(r), phase[r] # "none"
    PROVE  ctx[r].uid \in Decisions!MayActAs(request[r])
<1>1. verdict[r] = "Machine" => request[r].token \in TrustedTokens
  BY DEF RequestInv, VerdictInv
<1> QED
  BY <1>1 DEF OwnIdentity, Decisions!MayActAs

\* What the headers name is allowed behind an accepted machine and in development.
LEMMA HeaderIsAllowed ==
    ASSUME NEW q \in RequestShape,
           bypass \/ (q.token \in TrustedTokens /\ service = "granite")
    PROVE  LET c == decode_trusted_headers(q)
           IN  c # None => c.uid \in Decisions!MayActAs(q)
<1>1. decode_trusted_headers(q) # None =>
        decode_trusted_headers(q).uid = q.user_id /\ q.user_id \in Principals
  BY HeadersShape DEF decode_trusted_headers
<1> QED
  BY <1>1 DEF Decisions!MayActAs

\* A step of one request that settles it is a decision; one that does not settle
\* it, or finds it settled, is none.
LEMMA Settles ==
    ASSUME NEW r \in Requests, request[r] \in RequestShape,
           UNCHANGED <<Deploy, grants, minted, request>>,
           \A s \in Requests \ {r} : UNCHANGED <<phase[s], ctx[s], answer[s]>>,
           \/ Acting(r)' = Acting(r)
           \/ Acting(r) = Unset /\ Acting(r)' \in {None} \cup Decisions!MayActAs(request[r])
    PROVE  Decisions!Decide(r) \/ UNCHANGED Decisions!vars
<1> DEFINE acts == [s \in Requests |-> Acting(s)]
<1>1. \A s \in Requests \ {r} : Acting(s)' = Acting(s)
  BY DEF Acting
<1>2. TrustedTokens' = TrustedTokens
  BY DEF TrustedTokens, Deploy
<1>3. CASE Acting(r)' = Acting(r)
  <2>1. acts' = acts
    BY <1>1, <1>3
  <2> QED
    BY <1>2, <2>1 DEF Decisions!vars, Deploy
<1>4. CASE Acting(r) = Unset /\ Acting(r)' \in {None} \cup Decisions!MayActAs(request[r])
  <2>1. acts' = [acts EXCEPT ![r] = Acting(r)']
    BY <1>1
  <2>2. acts[r] = Unset
    BY <1>4
  <2> QED
    BY <1>2, <1>4, <2>1, <2>2 DEF Decisions!Decide, Deploy, RequestShape
<1> QED
  BY <1>3, <1>4

LEMMA ServeDecides ==
    ASSUME IInv, NEW r \in Requests, Serve(r)
    PROVE  Decisions!Decide(r) \/ UNCHANGED Decisions!vars
<1> DEFINE q == request[r]
           claimed == decode_trusted_headers(q)
<1>1. RequestInv(r) /\ TypeOK
  BY DEF IInv
<1>2. q \in RequestShape
  BY <1>1 DEF RequestInv, VerdictInv, Serve, SkipMachinePath, MachinePath, UserPath,
             Resolve, Lookup, Attribute
<1>3. CASE SkipMachinePath(r)
  <2>1. Acting(r)' = Acting(r)
    BY <1>1, <1>3 DEF SkipMachinePath, TypeOK, Acting
  <2> QED
    BY <1>1, <1>2, <1>3, <2>1, Settles DEF SkipMachinePath, TypeOK
<1>4. CASE \E lib \in {"Error", "Human", "Machine", "MachineAudienceNotAccepted"} :
             MachinePath(r, lib)
  <2>1. PICK lib \in {"Error", "Human", "Machine", "MachineAudienceNotAccepted"} :
               MachinePath(r, lib)
    BY <1>4
  <2>2. /\ phase[r] = "arrived" /\ Acting(r) = Unset
        /\ UNCHANGED <<Deploy, grants, minted, request, answer>>
        /\ lib = "Machine" => q.token \in TrustedTokens
    BY <1>2, <2>1, AcceptedIsTrusted DEF MachinePath, RequestShape, Acting
  <2>3. /\ \A s \in Requests \ {r} : UNCHANGED <<phase[s], ctx[s]>>
        /\ \/ phase'[r] \in {"resolve", "user", "denied"}
           \/ /\ lib = "Machine" /\ service = "granite"
              /\ phase'[r] = "done" /\ claimed # None /\ ctx'[r] = claimed
    BY <1>1, <2>1 DEF MachinePath, MachineVerdict, Assume, TypeOK
  <2>4. Acting(r)' = Unset
          \/ Acting(r)' \in {None} \cup Decisions!MayActAs(q)
    BY <1>2, <2>2, <2>3, HeaderIsAllowed DEF Acting
  <2> QED
    BY <1>2, <2>2, <2>3, <2>4, Settles
<1>5. CASE UserPath(r)
  <2>1. /\ phase[r] = "user" /\ Acting(r) = Unset
        /\ UNCHANGED <<Deploy, grants, minted, request, answer>>
    BY <1>5 DEF UserPath, Acting
  <2>2. /\ \A s \in Requests \ {r} : UNCHANGED <<phase[s], ctx[s]>>
        /\ \/ phase'[r] \in {"resolve", "denied"}
           \/ bypass /\ phase'[r] = "done" /\ claimed # None /\ ctx'[r] = claimed
    BY <1>1, <1>5 DEF UserPath, Assume, TypeOK
  <2>3. Acting(r)' = Unset
          \/ Acting(r)' \in {None} \cup Decisions!MayActAs(q)
    BY <1>2, <2>1, <2>2, HeaderIsAllowed DEF Acting
  <2> QED
    BY <1>2, <2>1, <2>2, <2>3, Settles
<1>6. CASE Resolve(r)
  <2>1. /\ phase[r] = "resolve" /\ Acting(r) = Unset /\ OwnIdentity(r)
        /\ UNCHANGED <<Deploy, grants, minted, request, answer>>
    BY <1>1, <1>6 DEF Resolve, Acting, RequestInv, ResolvingInv
  <2>2. /\ \A s \in Requests \ {r} : UNCHANGED <<phase[s], ctx[s]>>
        /\ phase'[r] \in {"lookup", "done"} /\ ctx'[r].uid = ctx[r].uid
    BY <1>1, <1>6, <2>1 DEF Resolve, TypeOK, OwnIdentity, ContextShape
  <2>3. ctx[r].uid \in Decisions!MayActAs(q)
    BY <1>1, <2>1, OwnIsAllowed
  <2>4. Acting(r)' = Unset \/ Acting(r)' \in {None} \cup Decisions!MayActAs(q)
    BY <2>2, <2>3 DEF Acting
  <2> QED
    BY <1>2, <2>1, <2>2, <2>4, Settles
<1>7. CASE Lookup(r)
  <2>1. /\ phase[r] = "lookup" /\ Acting(r) = Unset /\ OwnIdentity(r)
        /\ ctx[r].uid # ctx[r].agent_id /\ ctx[r].approval_grant_id = q.grant
        /\ verdict[r] = "Machine" => q.token \in TrustedTokens
        /\ UNCHANGED <<Deploy, grants, minted, request, ctx>>
    BY <1>1, <1>7 DEF Lookup, Acting, RequestInv, ResolvingInv, VerdictInv
  <2>2. /\ \A s \in Requests \ {r} : UNCHANGED <<phase[s], answer[s]>>
        /\ phase'[r] = "found" /\ answer'[r] \in Finds(ctx[r]) \cup {None}
    BY <1>1, <1>7 DEF Lookup, TypeOK
  <2>3. ctx[r].uid \in Decisions!MayActAs(q)
    BY <1>1, <2>1, OwnIsAllowed
  <2>4. \A g \in Finds(ctx[r]) : g.owner \in Decisions!MayActAs(q)
    BY <2>1 DEF Finds, OwnIdentity, Decisions!MayActAs
  <2>5. Acting(r)' \in {None} \cup Decisions!MayActAs(q)
    BY <2>1, <2>2, <2>3, <2>4 DEF Acting
  <2> QED
    BY <1>2, <2>1, <2>2, <2>5, Settles
<1>8. CASE Attribute(r)
  <2>1. /\ phase[r] = "found" /\ phase'[r] = "done" /\ OwnIdentity(r)
        /\ UNCHANGED <<Deploy, grants, minted, request, answer>>
        /\ \A s \in Requests \ {r} : UNCHANGED <<phase[s], ctx[s]>>
    BY <1>1, <1>8 DEF Attribute, TypeOK, RequestInv, ResolvingInv
  <2>2. ctx'[r].uid = IF answer[r] = None THEN ctx[r].uid ELSE answer[r].owner
    BY <1>1, <1>8, <2>1 DEF Attribute, TypeOK, OwnIdentity, ContextShape
  <2>3. Acting(r)' = Acting(r)
    BY <2>1, <2>2 DEF Acting
  <2> QED
    BY <1>2, <2>1, <2>3, Settles
<1> QED
  BY <1>3, <1>4, <1>5, <1>6, <1>7, <1>8 DEF Serve

LEMMA ArriveArrives ==
    ASSUME IInv, NEW r \in Requests, NEW token \in Tokens,
           NEW user \in HeaderIds, NEW agent \in HeaderIds,
           NEW grant \in HeaderGrants, Arrive(r, token, user, agent, grant)
    PROVE  \E q \in RequestShape : Decisions!Arrive(r, q)
<1> DEFINE q == [token |-> token, user_id |-> user, agent_id |-> agent, grant |-> grant]
           acts == [s \in Requests |-> Acting(s)]
<1>1. q \in RequestShape
  BY DEF RequestShape
<1>2. /\ request[r] = NoRequest /\ request' = [request EXCEPT ![r] = q]
      /\ UNCHANGED <<Deploy, grants, minted, ctx, answer>>
      /\ phase' = [phase EXCEPT ![r] = "arrived"] /\ phase[r] = "none"
  BY DEF Arrive, IInv, RequestInv, VerdictInv
<1>3. \A s \in Requests : Acting(s)' = Acting(s)
  BY <1>2 DEF Acting, IInv, TypeOK
<1>4. acts' = acts
  BY <1>3
<1>5. TrustedTokens' = TrustedTokens
  BY <1>2 DEF TrustedTokens, Deploy
<1> QED
  BY <1>1, <1>2, <1>4, <1>5 DEF Decisions!Arrive, Deploy

\* The path of a request through verifier, dispatch and apply_on_behalf_of_grant,
\* with grants made and revoked around its await, is one atomic decision: every
\* step of it is that decision or a stutter.
THEOREM Refinement == Spec => ImplementsDecisions
<1> DEFINE acts == [s \in Requests |-> Acting(s)]
<1>1. Init => Decisions!Init
  BY DEF Init, Decisions!Init, Acting
<1>2. ASSUME IInv, [Next]_vars PROVE [Decisions!Next]_(Decisions!vars)
  <2>1. CASE \E r \in Requests : Serve(r)
    BY <1>2, <2>1, ServeDecides DEF Decisions!Next
  <2>2. CASE \E r \in Requests : \E token \in Tokens, user, agent \in HeaderIds,
               grant \in HeaderGrants : Arrive(r, token, user, agent, grant)
    BY <1>2, <2>2, ArriveArrives DEF Decisions!Next, RequestShape
  <2>3. ASSUME UNCHANGED <<Deploy, request, phase, ctx, answer>>
        PROVE  /\ UNCHANGED <<TrustedTokens, service, bypass, request>>
               /\ acts' = acts
    BY <2>3 DEF TrustedTokens, Deploy, Acting
  <2>4. CASE \E g \in Grants : MintGrant(g)
    BY <2>3, <2>4 DEF MintGrant, Decisions!Next, Decisions!Grant
  <2>5. CASE \E g \in grants : RevokeGrant(g)
    <3>1. grants \subseteq Grants
      BY <1>2 DEF IInv, TypeOK
    <3> QED
      BY <2>3, <2>5, <3>1 DEF RevokeGrant, Decisions!Next, Decisions!Revoke
  <2>6. CASE UNCHANGED vars
    BY <2>3, <2>6 DEF vars, Decisions!vars, Deploy
  <2> QED
    BY <1>2, <2>1, <2>2, <2>4, <2>5, <2>6 DEF Next
<1> QED
  BY <1>1, <1>2, Invariance, PTL DEF Spec, ImplementsDecisions, Decisions!Spec

-------------------------------------------------------------------------------
\* Every request nears its answer.

\* How many steps of its own a request may have before it.
StepsAhead == [none |-> 5, arrived |-> 5, user |-> 4, resolve |-> 3, lookup |-> 2,
               found |-> 1, done |-> 0, denied |-> 0]

\* Each step that serves a request brings it nearer to its answer, and no other
\* step takes it away from it: a request is served five times at most, and once
\* answered it is served no more, although grants come and go.
NearerTheAnswer ==
    [][\A r \in Requests :
         /\ StepsAhead[phase'[r]] <= StepsAhead[phase[r]]
         /\ Serve(r) => StepsAhead[phase'[r]] < StepsAhead[phase[r]]]_vars

\* Who serves a request moves it on along its path, and no other.
LEMMA ServeMovesOn ==
    ASSUME TypeOK, NEW r \in Requests, Serve(r)
    PROVE  /\ StepsAhead[phase'[r]] \in 0 .. 5
           /\ StepsAhead[phase'[r]] < StepsAhead[phase[r]]
           /\ \A q \in Requests \ {r} : phase'[q] = phase[q]
<1>1. PICK next \in {"user", "resolve", "lookup", "found", "done", "denied"} :
        /\ phase' = [phase EXCEPT ![r] = next]
        /\ \/ phase[r] = "arrived" /\ next \in {"user", "resolve", "done", "denied"}
           \/ phase[r] = "user" /\ next \in {"resolve", "done", "denied"}
           \/ phase[r] = "resolve" /\ next \in {"lookup", "done"}
           \/ phase[r] = "lookup" /\ next = "found"
           \/ phase[r] = "found" /\ next = "done"
  <2>1. CASE SkipMachinePath(r)
    BY <2>1 DEF SkipMachinePath
  <2>2. CASE \E lib \in {"Error", "Human", "Machine", "MachineAudienceNotAccepted"} :
               MachinePath(r, lib)
    <3>1. \A lib : \/ MachineVerdict(lib) = "Ok"
                    \/ MachineVerdict(lib) = "NotMachine"
                    \/ MachineVerdict(lib) = "Rejected"
      BY DEF MachineVerdict
    <3> QED
      BY <2>2, <3>1 DEF MachinePath, Assume, TypeOK
  <2>3. CASE UserPath(r)
    BY <2>3 DEF UserPath, Assume
  <2>4. CASE Resolve(r)
    BY <2>4 DEF Resolve
  <2>5. CASE Lookup(r) \/ Attribute(r)
    BY <2>5 DEF Lookup, Attribute
  <2> QED
    BY <2>1, <2>2, <2>3, <2>4, <2>5 DEF Serve
<1>2. phase'[r] = next /\ \A q \in Requests \ {r} : phase'[q] = phase[q]
  BY <1>1 DEF TypeOK
<1>3. StepsAhead[next] \in 0 .. 5 /\ StepsAhead[next] < StepsAhead[phase[r]]
  BY <1>1 DEF StepsAhead
<1> QED
  BY <1>2, <1>3

THEOREM StepsBounded == Spec => NearerTheAnswer
<1> DEFINE Nearer == \A r \in Requests :
                       /\ StepsAhead[phase'[r]] <= StepsAhead[phase[r]]
                       /\ Serve(r) => StepsAhead[phase'[r]] < StepsAhead[phase[r]]
<1>1. ASSUME TypeOK, [Next]_vars PROVE Nearer
  <2>1. \A r \in Requests : StepsAhead[phase[r]] \in 0 .. 5
    BY <1>1 DEF TypeOK, StepsAhead
  <2>2. ASSUME NEW r \in Requests, Serve(r)
        PROVE  \A q \in Requests : StepsAhead[phase'[q]] <= StepsAhead[phase[q]]
    <3>1. \A q \in Requests \ {r} : StepsAhead[phase'[q]] = StepsAhead[phase[q]]
      BY <1>1, <2>2, ServeMovesOn
    <3>2. StepsAhead[phase'[r]] <= StepsAhead[phase[r]]
      BY <1>1, <2>1, <2>2, ServeMovesOn
    <3> QED
      BY <2>1, <3>1, <3>2
  <2>3. ASSUME NEW r \in Requests, NEW token \in Tokens, NEW user \in HeaderIds,
               NEW agent \in HeaderIds, NEW grant \in HeaderGrants,
               Arrive(r, token, user, agent, grant)
        PROVE  \A q \in Requests : StepsAhead[phase'[q]] <= StepsAhead[phase[q]]
    BY <1>1, <2>1, <2>3 DEF Arrive, TypeOK, StepsAhead
  <2>4. ASSUME \/ \E g \in Grants : MintGrant(g)
               \/ \E g \in grants : RevokeGrant(g)
               \/ UNCHANGED vars
        PROVE  \A q \in Requests : StepsAhead[phase'[q]] <= StepsAhead[phase[q]]
    BY <2>1, <2>4 DEF MintGrant, RevokeGrant, vars
  <2> QED
    BY <1>1, <2>2, <2>3, <2>4, ServeMovesOn DEF Next
<1> HIDE DEF Nearer
<1>2. TypeOK /\ [Next]_vars => [Nearer]_vars
  BY <1>1
<1>3. Spec => [][Nearer]_vars
  BY <1>2, TypeCorrect, PTL DEF Spec
<1> QED
  BY <1>3 DEF NearerTheAnswer, Nearer
===============================================================================
