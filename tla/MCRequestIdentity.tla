--------------------------- MODULE MCRequestIdentity ---------------------------
(***************************************************************************)
(* A small instance of RequestIdentity: a listed client, an unlisted one,  *)
(* a human, a token that does not verify; one grant id, given to the       *)
(* machine or to somebody else; every kind of header and of variable.      *)
(***************************************************************************)
EXTENDS RequestIdentity

CONSTANTS i1, listed, unlisted, human, agent, other, g1

Token(kind, client, sub, owner) ==
    [kind |-> kind, issuer |-> i1, client |-> client, sub |-> sub, owner |-> owner]

MCTokens == { Token("machine", listed, agent, human),
              Token("machine", unlisted, agent, human),
              Token("human", listed, human, human),
              Token("test", listed, human, human),
              Token("invalid", listed, human, human) }

MCGrants == { [id |-> g1, subject |-> s, owner |-> other] : s \in {agent, human} }

MCEnvironments ==
    [primary : {i1, Unset, Blank}, fallback : {i1, Unset}, audiences : {{Blank, listed}}]
    \cup [primary : {i1}, fallback : {Unset}, audiences : {{}, {Blank}}]
===============================================================================
