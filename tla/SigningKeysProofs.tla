--------------------------- MODULE SigningKeysProofs ---------------------------
(***************************************************************************)
(* Proofs about SigningKeys, for any number of processes, restarts,        *)
(* documents and key sets.  The inductive invariant ties every document    *)
(* and every fetched set to the key that its process had in that run.      *)
(***************************************************************************)
EXTENDS SigningKeys, TLAPS

Documents == attestations \cup tokens

KeyInv ==
    /\ run \in [Processes -> Nat] /\ key \in [Processes -> Nat] /\ made \in Nat \ {0}
    /\ body \in [Processes -> SUBSET [kid : Nat, key : Nat]]
    /\ \A p \in Processes :
         /\ Notary[p] # "testkit" /\ run[p] > 0 => key[p] # 0
         /\ Notary[p] = "Kms" /\ run[p] > 0 => key[p] = KmsKey
         /\ body[p] # {} => key[p] # 0 /\ body[p] = jwks(p, key[p])

\* A document bears its process's key, by its name.
Genuine(d) ==
    /\ d.from \in Processes /\ d.run \in Nat \ {0} /\ d.run <= run[d.from]
    /\ d.kid = kid(d.from, d.key)
    /\ d.run = run[d.from] => key[d.from] # 0 /\ d.key = key[d.from]
    /\ Notary[d.from] = "Kms" => d.key = KmsKey

\* A fetched set is its process's.
Published(s) ==
    /\ s.from \in Processes /\ s.run \in Nat \ {0} /\ s.run <= run[s.from]
    /\ \E k \in Nat : s.keys = jwks(s.from, k)
    /\ s.run = run[s.from] => key[s.from] # 0 /\ s.keys = jwks(s.from, key[s.from])
    /\ Notary[s.from] = "Kms" => s.keys = jwks(s.from, KmsKey)

DocumentInv ==
    /\ \A d \in Documents : Genuine(d)
    /\ \A a \in attestations : Notary[a.from] # "testkit"
    /\ \A t \in tokens : /\ t.who \in {"human", "machine"}
                         /\ t.claims.act = IF t.who = "machine" THEN "machine" ELSE "none"
SetInv == \A s \in fetched : Published(s)
PairInv == \A s \in fetched, d \in Documents :
    d.from = s.from /\ d.run = s.run => s.keys = jwks(d.from, d.key)

IInv == KeyInv /\ DocumentInv /\ SetInv /\ PairInv

-------------------------------------------------------------------------------
LEMMA InitInv == Init => IInv
  BY DEF Init, IInv, KeyInv, DocumentInv, SetInv, PairInv, Documents, KmsKey

\* In a run a key is made at most once, and then kept.
LEMMA Keeps ==
    ASSUME IInv, UNCHANGED <<run, fetched>>,
           \A p \in Processes : key[p] # 0 => key'[p] = key[p]
    PROVE  SetInv' /\ \A d \in Documents : Genuine(d)'
  <1>1. \A s \in fetched : Published(s)'
    BY DEF IInv, SetInv, Published, kid, jwks
  <1>2. \A d \in Documents : Genuine(d)'
    BY DEF IInv, DocumentInv, Genuine, kid
  <1> QED
    BY <1>1, <1>2 DEF SetInv

LEMMA Used ==
    ASSUME IInv, NEW p \in Processes, KeyUsed(p), Notary[p] = "testkit"
    PROVE  /\ key' \in [Processes -> Nat] /\ made' \in Nat \ {0}
           /\ key'[p] = keypair(p) /\ key'[p] # 0
           /\ \A q \in Processes : key[q] # 0 => key'[q] = key[q]
           /\ \A q \in Processes \ {p} : key'[q] = key[q]
  BY DEF IInv, KeyInv, KeyUsed, keypair

LEMMA JwksType == ASSUME NEW p \in Processes, NEW k \in Nat
                  PROVE  jwks(p, k) \subseteq [kid : Nat, key : Nat] /\ jwks(p, k) # {}
  BY DEF jwks, kid, TEST_KID

LEMMA StartStep == ASSUME IInv, NEW p \in Processes, Start(p) PROVE IInv'
  <1>1. /\ run' = [run EXCEPT ![p] = @ + 1] /\ body' = [body EXCEPT ![p] = {}]
        /\ UNCHANGED <<fetched, attestations, tokens, now>>
    BY DEF Start
  <1>2. /\ run \in [Processes -> Nat] /\ key \in [Processes -> Nat] /\ made \in Nat \ {0}
        /\ body \in [Processes -> SUBSET [kid : Nat, key : Nat]]
    BY DEF IInv, KeyInv
  <1>3. /\ run'[p] = run[p] + 1 /\ body'[p] = {}
        /\ \A q \in Processes \ {p} : run'[q] = run[q] /\ body'[q] = body[q]
        /\ run' \in [Processes -> Nat]
        /\ body' \in [Processes -> SUBSET [kid : Nat, key : Nat]]
    BY <1>1, <1>2
  <1>4. /\ key' \in [Processes -> Nat] /\ made' \in Nat \ {0}
        /\ \A q \in Processes \ {p} : key'[q] = key[q]
        /\ Notary[p] # "testkit" => key'[p] # 0
        /\ Notary[p] = "Kms" => key'[p] = KmsKey
    <2>1. CASE Notary[p] = "Local"
      BY <1>2, <2>1 DEF Start
    <2>2. CASE Notary[p] = "Kms"
      BY <1>2, <2>2 DEF Start, KmsKey
    <2>3. CASE Notary[p] = "testkit"
      BY <1>2, <2>3 DEF Start
    <2> QED
      BY <2>1, <2>2, <2>3, KeysAssumption
  <1>5. KeyInv'
    BY <1>3, <1>4 DEF IInv, KeyInv, jwks, kid
  <1>6. ASSUME NEW d \in Documents PROVE Genuine(d)'
    BY <1>2, <1>3, <1>4, <1>6 DEF IInv, DocumentInv, Genuine, kid
  <1>7. ASSUME NEW s \in fetched PROVE Published(s)'
    BY <1>2, <1>3, <1>4, <1>7 DEF IInv, SetInv, Published, kid, jwks
  <1>8. DocumentInv' /\ SetInv' /\ PairInv'
    BY <1>1, <1>6, <1>7 DEF IInv, DocumentInv, SetInv, PairInv, Documents, jwks, kid
  <1> QED
    BY <1>5, <1>8 DEF IInv

LEMMA ServerStep == ASSUME IInv, NEW p \in Processes, start_jwks_server(p) PROVE IInv'
  <1>1. /\ Notary[p] = "testkit" /\ KeyUsed(p)
        /\ body' = [body EXCEPT ![p] = jwks(p, keypair(p))]
        /\ UNCHANGED <<run, fetched, attestations, tokens, now>>
    BY DEF start_jwks_server
  <1>2. /\ key' \in [Processes -> Nat] /\ made' \in Nat \ {0}
        /\ key'[p] = keypair(p) /\ key'[p] # 0
        /\ \A q \in Processes : key[q] # 0 => key'[q] = key[q]
        /\ \A q \in Processes \ {p} : key'[q] = key[q]
    BY <1>1, Used
  <1>3. /\ body' \in [Processes -> SUBSET [kid : Nat, key : Nat]]
        /\ body'[p] = jwks(p, key'[p]) /\ \A q \in Processes \ {p} : body'[q] = body[q]
    BY <1>1, <1>2, JwksType DEF IInv, KeyInv
  <1>4. KeyInv'
    BY <1>1, <1>2, <1>3 DEF IInv, KeyInv, jwks, kid
  <1>5. SetInv' /\ \A d \in Documents : Genuine(d)'
    BY <1>1, <1>2, Keeps
  <1>6. DocumentInv' /\ PairInv'
    BY <1>1, <1>5 DEF IInv, DocumentInv, PairInv, Documents, jwks, kid
  <1> QED
    BY <1>4, <1>5, <1>6 DEF IInv

LEMMA FetchStep == ASSUME IInv, NEW p \in Processes, Fetch(p) PROVE IInv'
  <1> DEFINE served == IF Notary[p] = "testkit" THEN body[p] ELSE jwks(p, key[p])
             new == [from |-> p, run |-> run[p], keys |-> served]
  <1>1. /\ run[p] > 0 /\ served # {} /\ fetched' = fetched \cup {new}
        /\ UNCHANGED <<run, key, made, body, attestations, tokens, now>>
    BY DEF Fetch
  <1>2. served = jwks(p, key[p]) /\ key[p] # 0 /\ key[p] \in Nat /\ run[p] \in Nat \ {0}
        /\ (Notary[p] = "Kms" => key[p] = KmsKey)
    BY <1>1 DEF IInv, KeyInv
  <1>3. Published(new)
    <2> HIDE DEF served
    <2> QED
      BY <1>2 DEF Published
  <1> HIDE DEF new
  <1>4. KeyInv' /\ DocumentInv'
    BY <1>1 DEF IInv, KeyInv, DocumentInv, Documents, Genuine, jwks, kid
  <1>5. SetInv'
    BY <1>1, <1>3 DEF IInv, SetInv, Published, jwks, kid
  <1>6. \A d \in Documents : d.from = p /\ d.run = run[p] => d.key = key[p]
    BY DEF IInv, DocumentInv, Genuine
  <1>7. PairInv'
    <2>1. new.from = p /\ new.run = run[p] /\ new.keys = jwks(p, key[p])
      BY <1>2 DEF new
    <2> QED
      BY <1>1, <1>6, <2>1 DEF IInv, PairInv, Documents, jwks, kid
  <1> QED
    BY <1>4, <1>5, <1>7 DEF IInv

\* A new document, signed with the key that its process has from now on.
LEMMA Signs ==
    ASSUME IInv, UNCHANGED <<run, fetched>>, KeyInv',
           \A q \in Processes : key[q] # 0 => key'[q] = key[q],
           NEW d, Genuine(d)', d.run = run[d.from], Documents' = Documents \cup {d}
    PROVE  SetInv' /\ PairInv' /\ \A e \in Documents' : Genuine(e)'
  <1>1. SetInv' /\ \A e \in Documents : Genuine(e)'
    BY Keeps
  <1>2. d.from \in Processes /\ d.key = key'[d.from]
    BY DEF Genuine
  <1>3. \A s \in fetched : s.from = d.from /\ s.run = d.run => s.keys = jwks(d.from, d.key)
    BY <1>1, <1>2 DEF SetInv, Published, jwks, kid
  <1>4. PairInv'
    BY <1>3 DEF IInv, PairInv, jwks, kid
  <1> QED
    BY <1>1, <1>4

LEMMA SignStep == ASSUME IInv, NEW p \in Processes, sign(p) PROVE IInv'
  <1> PICK d : d = [from |-> p, run |-> run[p], kid |-> kid(p, key[p]), key |-> key[p]]
    OBVIOUS
  <1>1. /\ Notary[p] # "testkit" /\ run[p] > 0 /\ attestations' = attestations \cup {d}
        /\ UNCHANGED <<run, key, made, body, fetched, tokens, now>>
    BY DEF sign
  <1>2. KeyInv'
    BY <1>1 DEF IInv, KeyInv, jwks, kid
  <1>3. /\ key[p] # 0 /\ run[p] \in Nat \ {0} /\ (Notary[p] = "Kms" => key[p] = KmsKey)
    BY <1>1 DEF IInv, KeyInv
  <1>4. Genuine(d)'
    BY <1>1, <1>3 DEF Genuine, kid
  <1>5. Documents' = Documents \cup {d}
    BY <1>1 DEF Documents
  <1>6. d.run = run[d.from] /\ Notary[d.from] # "testkit"
    BY <1>1
  <1>7. SetInv' /\ PairInv' /\ \A e \in Documents' : Genuine(e)'
    BY <1>1, <1>2, <1>4, <1>5, <1>6, Signs
  <1>8. DocumentInv'
    BY <1>1, <1>6, <1>7 DEF IInv, DocumentInv
  <1> QED
    BY <1>2, <1>7, <1>8 DEF IInv

LEMMA MintStep ==
    ASSUME IInv, NEW p \in Processes, NEW who \in {"human", "machine"}, NEW claims,
           claims.act = IF who = "machine" THEN "machine" ELSE "none", Mint(p, who, claims)
    PROVE  IInv'
  <1> PICK d : d = [from |-> p, run |-> run[p], kid |-> TEST_KID, key |-> keypair(p),
                    who |-> who, claims |-> claims]
    OBVIOUS
  <1>1. /\ Notary[p] = "testkit" /\ run[p] > 0 /\ KeyUsed(p) /\ tokens' = tokens \cup {d}
        /\ UNCHANGED <<run, body, fetched, attestations, now>>
    BY DEF Mint
  <1>2. /\ key' \in [Processes -> Nat] /\ made' \in Nat \ {0}
        /\ key'[p] = keypair(p) /\ key'[p] # 0
        /\ \A q \in Processes : key[q] # 0 => key'[q] = key[q]
        /\ \A q \in Processes \ {p} : key'[q] = key[q]
    BY <1>1, Used
  <1>3. KeyInv'
    BY <1>1, <1>2 DEF IInv, KeyInv, jwks, kid
  <1>4. run[p] \in Nat \ {0}
    BY <1>1 DEF IInv, KeyInv
  <1>5. Genuine(d)'
    BY <1>1, <1>2, <1>4 DEF Genuine, kid
  <1>6. Documents' = Documents \cup {d}
    BY <1>1 DEF Documents
  <1>7. d.run = run[d.from] /\ d.who = who /\ d.claims = claims
    OBVIOUS
  <1>8. SetInv' /\ PairInv' /\ \A e \in Documents' : Genuine(e)'
    BY <1>1, <1>2, <1>3, <1>5, <1>6, <1>7, Signs
  <1>9. DocumentInv'
    BY <1>1, <1>7, <1>8 DEF IInv, DocumentInv
  <1> QED
    BY <1>3, <1>8, <1>9 DEF IInv

LEMMA NextInv == IInv /\ [Next]_vars => IInv'
  <1> SUFFICES ASSUME IInv, [Next]_vars PROVE IInv'
    OBVIOUS
  <1>1. ASSUME NEW p \in Processes,
               Start(p) \/ start_jwks_server(p) \/ Fetch(p) \/ sign(p)
        PROVE  IInv'
    BY <1>1, StartStep, ServerStep, FetchStep, SignStep
  <1>2. ASSUME NEW p \in Processes, NEW aud, Mint(p, "human", mint_human_id_token(aud))
        PROVE  IInv'
    <2>1. mint_human_id_token(aud).act = "none"
      BY DEF mint_human_id_token
    <2> QED
      BY <1>2, <2>1, MintStep
  <1>3. ASSUME NEW p \in Processes, NEW aud, Mint(p, "machine", mint_machine_id_token(aud))
        PROVE  IInv'
    <2>1. mint_machine_id_token(aud).act = "machine"
      BY DEF mint_machine_id_token
    <2> QED
      BY <1>3, <2>1, MintStep
  <1>4. CASE UNCHANGED <<run, key, made, body, fetched, attestations, tokens>>
    BY <1>4 DEF IInv, KeyInv, DocumentInv, SetInv, PairInv, Documents, Genuine, Published,
                jwks, kid
  <1> QED
    BY <1>1, <1>2, <1>3, <1>4 DEF Next, Tick, vars

\* Every document and every set belongs to the key of its process's run.
THEOREM Invariance == Spec => []IInv
  BY InitInv, NextInv, PTL DEF Spec

\* What a process signed its key set confirms, for any number of processes, restarts
\* and callers that race for the first use of the key (keypair, Notary::jwks).
THEOREM GenuineVerified == Spec => []GenuineVerifies
  <1>1. IInv => GenuineVerifies
    <2> SUFFICES ASSUME IInv, NEW s \in fetched PROVE
          /\ \A a \in attestations :
               \/ a.from = s.from /\ a.run = s.run
               \/ Notary[a.from] = "Kms" /\ Notary[s.from] = "Kms"
               => Signed(a, s.keys)
          /\ \A t \in tokens : t.from = s.from /\ t.run = s.run =>
               \A aud \in Audiences :
                 Identity(t, s.keys, config(aud)) =
                   IF aud = t.claims.aud /\ now < t.claims.exp THEN t.who ELSE "rejected"
      BY DEF GenuineVerifies
    <2>1. ASSUME NEW d \in Documents, d.from = s.from, d.run = s.run PROVE Signed(d, s.keys)
      <3>1. s.keys = jwks(d.from, d.key) /\ d.kid = kid(d.from, d.key)
        BY <2>1 DEF IInv, PairInv, DocumentInv, Genuine
      <3>2. [kid |-> kid(d.from, d.key), key |-> d.key] \in s.keys
        BY <3>1 DEF jwks
      <3> QED
        BY <3>1, <3>2 DEF Signed
    <2>2. ASSUME NEW a \in attestations, Notary[a.from] = "Kms", Notary[s.from] = "Kms"
          PROVE  Signed(a, s.keys)
      <3>1. s.keys = jwks(s.from, KmsKey) /\ a.kid = kid(a.from, a.key) /\ a.key = KmsKey
        BY <2>2 DEF IInv, SetInv, Published, DocumentInv, Documents, Genuine
      <3>2. [kid |-> KmsKey, key |-> KmsKey] \in s.keys /\ a.kid = KmsKey
        BY <2>2, <3>1 DEF jwks, kid
      <3> QED
        BY <3>1, <3>2 DEF Signed
    <2>3. ASSUME NEW t \in tokens, t.from = s.from, t.run = s.run, NEW aud \in Audiences
          PROVE  Identity(t, s.keys, config(aud)) =
                   IF aud = t.claims.aud /\ now < t.claims.exp THEN t.who ELSE "rejected"
      <3>1. Signed(t, s.keys)
        BY <2>1, <2>3 DEF Documents
      <3>2. /\ t.who \in {"human", "machine"}
            /\ t.claims.act = IF t.who = "machine" THEN "machine" ELSE "none"
        BY DEF IInv, DocumentInv
      <3> QED
        BY <3>1, <3>2 DEF Identity, config
    <2> QED
      BY <2>1, <2>2, <2>3 DEF Documents
  <1> QED
    BY <1>1, Invariance, PTL
===============================================================================
