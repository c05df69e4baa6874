------------------------------ MODULE SigningKeys ------------------------------
(***************************************************************************)
(* The keys that sign for an app: platform-notary, whose attestations are  *)
(* checked against the key set it publishes, and the testkit of            *)
(* platform-chirp-auth, whose tokens are checked against the set of its    *)
(* local server.  Processes are started again, and whoever checks may hold *)
(* a key set from any earlier time.  Key generation, KMS and the check of  *)
(* signatures and claims are not in this repository.                       *)
(***************************************************************************)
EXTENDS Naturals, FiniteSets

CONSTANTS
    Processes,          \* processes that sign
    Notary,             \* the variant of each: Local or Kms, or testkit
    Audiences,          \* audiences of tokens
    MaxRuns, MaxSigned, MaxFetched, MaxTime    \* bounds

ASSUME KeysAssumption ==
    /\ Notary \in [Processes -> {"Local", "Kms", "testkit"}]
    /\ {MaxRuns, MaxSigned, MaxFetched, MaxTime} \subseteq Nat

VARIABLES
    run,            \* how often each process was started
    key,            \* its key, 0 while it has none
    made,           \* keys made so far; the first is the one KMS holds
    body,           \* the key set its testkit server serves
    fetched,        \* key sets that were fetched
    attestations, tokens,
    now             \* in hours

vars == <<run, key, made, body, fetched, attestations, tokens, now>>

-------------------------------------------------------------------------------
KmsKey == 1
TEST_KID == 0

\* The name of a key.  A notary asks its key for it, in the crate of the envelope,
\* which gives other keys other names; the testkit has one name for all of its keys.
kid(p, k) == IF Notary[p] = "testkit" THEN TEST_KID ELSE k

\* The key set of a process with this key.
jwks(p, k) == {[kid |-> kid(p, k), key |-> k]}

\* Mutant: no OnceLock, a key for every caller.
keypair_PerCall(p) == made + 1

\* get_or_init: made for the first caller, mint or server, and kept.
keypair(p) == IF key[p] = 0 THEN made + 1 ELSE key[p]

Init ==
    /\ run = [p \in Processes |-> 0]
    /\ key = [p \in Processes |-> 0]
    /\ made = KmsKey
    /\ body = [p \in Processes |-> {}]
    /\ fetched = {} /\ attestations = {} /\ tokens = {}
    /\ now = 0

\* A process starts: a local notary makes its key, the testkit has none yet.
Start(p) ==
    /\ run[p] < MaxRuns
    /\ run' = [run EXCEPT ![p] = @ + 1]
    /\ key' = [key EXCEPT ![p] = CASE Notary[p] = "Local" -> made + 1
                                   [] Notary[p] = "Kms" -> KmsKey
                                   [] Notary[p] = "testkit" -> 0]
    /\ made' = IF Notary[p] = "Local" THEN made + 1 ELSE made
    /\ body' = [body EXCEPT ![p] = {}]
    /\ UNCHANGED <<fetched, attestations, tokens, now>>

\* What a call of keypair leaves behind.
KeyUsed(p) ==
    /\ key' = [key EXCEPT ![p] = keypair(p)]
    /\ made' = IF keypair(p) > made THEN keypair(p) ELSE made

\* start_jwks_server: its body is made when it starts.
start_jwks_server(p) ==
    /\ Notary[p] = "testkit" /\ run[p] > 0
    /\ KeyUsed(p)
    /\ body' = [body EXCEPT ![p] = jwks(p, keypair(p))]
    /\ UNCHANGED <<run, fetched, attestations, tokens, now>>

\* Someone fetches the key set, from the app's page or the testkit's server.
Fetch(p) ==
    LET served == IF Notary[p] = "testkit" THEN body[p] ELSE jwks(p, key[p])
    IN  /\ run[p] > 0 /\ served # {} /\ Cardinality(fetched) < MaxFetched
        /\ fetched' = fetched \cup {[from |-> p, run |-> run[p], keys |-> served]}
        /\ UNCHANGED <<run, key, made, body, attestations, tokens, now>>

\* Notary::sign, of a record's core.  KMS may fail, and then there is no attestation.
sign(p) ==
    /\ Notary[p] # "testkit" /\ run[p] > 0 /\ Cardinality(attestations) < MaxSigned
    /\ attestations' = attestations \cup
         {[from |-> p, run |-> run[p], kid |-> kid(p, key[p]), key |-> key[p]]}
    /\ UNCHANGED <<run, key, made, body, fetched, tokens, now>>

\* The claims of the two mints: an hour to live, and act if it is a machine.
mint_human_id_token(aud) == [act |-> "none", aud |-> aud, exp |-> now + 1]
mint_machine_id_token(aud) == [act |-> "machine", aud |-> aud, exp |-> now + 1]

\* make_jwt.
Mint(p, who, claims) ==
    /\ Notary[p] = "testkit" /\ run[p] > 0 /\ Cardinality(tokens) < MaxSigned
    /\ KeyUsed(p)
    /\ tokens' = tokens \cup
         {[from |-> p, run |-> run[p], kid |-> TEST_KID, key |-> keypair(p), who |-> who,
           claims |-> claims]}
    /\ UNCHANGED <<run, body, fetched, attestations, now>>

Tick == now < MaxTime /\ now' = now + 1
        /\ UNCHANGED <<run, key, made, body, fetched, attestations, tokens>>

Next ==
    \/ \E p \in Processes :
         \/ Start(p) \/ start_jwks_server(p) \/ Fetch(p) \/ sign(p)
         \/ \E aud \in Audiences : \/ Mint(p, "human", mint_human_id_token(aud))
                                   \/ Mint(p, "machine", mint_machine_id_token(aud))
    \/ Tick

Spec == Init /\ [][Next]_vars

-------------------------------------------------------------------------------
\* The check of what was signed, against a key set.

Signed(d, keys) == \E k \in keys : k.kid = d.kid /\ k.key = d.key

\* testkit::config, and the identity its verifier finds in a token.
config(aud) == [aud |-> aud]
Identity(t, keys, cfg) ==
    IF Signed(t, keys) /\ t.claims.aud = cfg.aud /\ now < t.claims.exp
      THEN IF t.claims.act = "machine" THEN "machine" ELSE "human"
      ELSE "rejected"

-------------------------------------------------------------------------------
\* Properties.

\* What a process signed, its key set confirms, whichever of the two came first and
\* whoever asked first for the key; KMS's confirms it across restarts.  A token is
\* who it was minted for, for its audience and its hour.
GenuineVerifies ==
    \A s \in fetched :
        /\ \A a \in attestations :
             \/ a.from = s.from /\ a.run = s.run
             \/ Notary[a.from] = "Kms" /\ Notary[s.from] = "Kms"
             => Signed(a, s.keys)
        /\ \A t \in tokens : t.from = s.from /\ t.run = s.run =>
             \A aud \in Audiences :
               Identity(t, s.keys, config(aud)) =
                 IF aud = t.claims.aud /\ now < t.claims.exp THEN t.who ELSE "rejected"
===============================================================================
