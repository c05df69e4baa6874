-------------------------------- MODULE Webhook --------------------------------
(***************************************************************************)
(* platform-webhook-sig: one signature scheme between the senders and the  *)
(* consumers of a webhook.  Senders sign a timestamp, a nonce and a body;  *)
(* copies travel over a network that loses, duplicates, delays, reorders,  *)
(* re-frames and alters them; several instances of the consumer verify     *)
(* them with the crate's Verifier and deduplicate what it returned, as the *)
(* crate's docs ask of them; a rollout moves senders and consumers off the *)
(* legacy scheme.                                                          *)
(*                                                                         *)
(* A string is the sequence of the pieces between its dots, so joining two *)
(* strings with a dot is concatenating them, and where one ended is not    *)
(* part of the result.  HMAC is ideal: a MAC is the record of its key and  *)
(* of the string it covers.  Integers are those of an i64 of a release     *)
(* build: they wrap at HalfRange (2^63 in the code).                       *)
(***************************************************************************)
EXTENDS Integers, Sequences, FiniteSets

CONSTANTS
    Senders, Workers,           \* sending services; instances of the consumer
    Pieces,                     \* texts without a dot, integers among them
    Empty,                      \* the piece without a character
    LTrim, RTrim,               \* a piece without the white space on its left, right
    Uuids,                      \* the pieces Uuid::new_v4 may mint
    CallerNonces,               \* strings that callers of sign_with give as a nonce
    HeaderTexts,                \* strings the network may put into a nonce header
    Stamps, Bodies,             \* the timestamps and bodies that are signed
    Secret, OtherSecret,        \* the shared key, and a key of somebody else
    Absent,                     \* a header that is not there
    Malformed,                  \* a signature that is not sha256=<hex>
    Freshness,                  \* the Verifier's freshness_secs
    Stall,                      \* the longest an instance lives after verifying
    Retention,                  \* how long the consumer remembers a dedup key
    HalfRange,                  \* half the number of values of an i64
    MaxTime,                    \* bounds of the model: the clock,
    MaxIssued, MaxEvents        \*   deliveries signed, and those with those acted on

Strings == Seq(Pieces) \ {<<>>}
Ints == Pieces \cap Int

ASSUME StringsAssumption ==
    /\ CallerNonces \cup HeaderTexts \cup Stamps \cup Bodies \subseteq Strings
    /\ Empty \in Pieces
    /\ Absent \notin Strings

\* A minted nonce is a text of its own: it occurs in nothing else that is signed.
ASSUME UuidsAssumption ==
    /\ Uuids \subseteq Pieces \ {Empty}
    /\ \A u \in Uuids : LTrim[u] = u /\ RTrim[u] = u
    /\ \A s \in CallerNonces \cup Stamps \cup Bodies :
         \A i \in 1 .. Len(s) : s[i] \notin Uuids

ASSUME TrimAssumption ==
    /\ LTrim \in [Pieces -> Pieces] /\ RTrim \in [Pieces -> Pieces]
    /\ \A x \in Pieces : /\ LTrim[LTrim[x]] = LTrim[x] /\ RTrim[RTrim[x]] = RTrim[x]
                         /\ LTrim[RTrim[x]] = RTrim[LTrim[x]]
    /\ \A i \in Ints : LTrim[i] = i /\ RTrim[i] = i

ASSUME SecretAssumption == Secret # OtherSecret

ASSUME WindowAssumption ==
    /\ Freshness \in Nat /\ Stall \in Nat /\ Retention \in Nat
    /\ HalfRange \in Nat /\ MaxTime \in Nat
    /\ MaxIssued \in Nat /\ MaxEvents \in Nat
    /\ MaxTime < HalfRange
    /\ Ints \subseteq -HalfRange .. HalfRange - 1
    /\ Retention >= 2 * Freshness + Stall

Canonical == "Canonical"
LegacyNoNonce == "LegacyNoNonce"
Scheme == {Canonical, LegacyNoNonce}

Minted == {<<u>> : u \in Uuids}
Nonces == Minted \cup CallerNonces

Deliveries ==
    [scheme : {Canonical}, ts : Stamps, nonce : Nonces, body : Bodies]
        \cup
    [scheme : {LegacyNoNonce}, ts : Stamps, nonce : {Absent}, body : Bodies]

VARIABLES
    now,        \* the consumer's clock, in seconds
    emits,      \* the scheme each sender emits
    issued,     \* the deliveries signed so far
    accepted,   \* the schemes the Verifier of each instance accepts
    worker,     \* each instance: idle, or what it verified and when
    seen,       \* the dedup keys the consumer remembers, and since when
    handled     \* what the consumer acted on, in order

vars == <<now, emits, issued, accepted, worker, seen, handled>>

Idle == [phase |-> "idle"]
Holding(d, t) == [phase |-> "verified", d |-> d, at |-> t]

-------------------------------------------------------------------------------
\* Signing.

\* "a.b": a and b may have dots of their own.
Join(a, b) == a \o b
Hmac(key, string) == [key |-> key, string |-> string]

mac_over(secret, timestamp, nonce, body) ==
    Hmac(secret, Join(timestamp, Join(nonce, body)))

legacy_mac(secret, timestamp, body) == Hmac(secret, Join(timestamp, body))

\* The headers and the body that carry a signed delivery.
Presented(d) ==
    [signature |-> IF d.scheme = Canonical
                     THEN mac_over(Secret, d.ts, d.nonce, d.body)
                     ELSE legacy_mac(Secret, d.ts, d.body),
     timestamp |-> d.ts, nonce |-> d.nonce, body |-> d.body]

\* The strings that a holder of the secret has signed.
SignedText(d) == Presented(d).signature.string
SignedTexts == {SignedText(d) : d \in issued}

\* The string of p's MAC framed anew: i pieces of timestamp, a nonce up to piece j,
\* or none, and the rest as the body.
Framed(p, i, j) ==
    LET s == p.signature.string
    IN  [signature |-> p.signature,
         timestamp |-> SubSeq(s, 1, i),
         nonce |-> IF j <= i THEN Absent ELSE SubSeq(s, i + 1, j),
         body |-> SubSeq(s, (IF j <= i THEN i ELSE j) + 1, Len(s))]

Framings(p) ==
    LET Cuts == 1 .. Len(p.signature.string) - 1
    IN  {Framed(p, i, j) : i, j \in Cuts}

\* What a copy may have become on its way: framed anew, or with a field exchanged.
Alterations(p) ==
    {p} \cup Framings(p)
      \cup {[p EXCEPT !.nonce = n] : n \in HeaderTexts \cup {Absent}}
      \cup {[p EXCEPT !.timestamp = t] : t \in {<<i>> : i \in Ints} \cup {Absent}}
      \cup {[p EXCEPT !.body = b] : b \in Bodies}
      \cup {[p EXCEPT !.signature = s] : s \in {Absent, Malformed}}

\* The same headers and body, signed by somebody who has another key.
Foreign(d) == [Presented(d) EXCEPT !.signature = Hmac(OtherSecret, SignedText(d))]

\* A MAC is neither an absent header nor a malformed one.
ASSUME MacAssumption ==
    \A d \in Deliveries : Presented(d).signature \notin {Absent, Malformed}

-------------------------------------------------------------------------------
\* Verifying.

new_accepted == {Canonical}

\* Mutant: the added scheme replaces the default.
also_accept_Replacing(schemes, scheme) == {scheme}
also_accept(schemes, scheme) == schemes \cup {scheme}

\* i64 arithmetic of a release build, for results less than one range away.
Wrap(x) == IF x >= HalfRange THEN x - 2 * HalfRange
           ELSE IF x < -HalfRange THEN x + 2 * HalfRange ELSE x
Abs64(x) == IF x < 0 THEN Wrap(-x) ELSE x

\* Mutant: only the past is stale.
Skew_OneSided(t, ts) == Wrap(t - ts)

\* Mutant: only the future is stale.
Skew_FutureOnly(t, ts) == Wrap(ts - t)
Skew(t, ts) == Abs64(Wrap(t - ts))

\* str::trim.
Trim(s) ==
    [i \in 1 .. Len(s) |->
       LET x == IF i = 1 THEN LTrim[s[i]] ELSE s[i]
       IN  IF i = Len(s) THEN RTrim[x] ELSE x]

EmptyText == <<Empty>>

\* A blank nonce header counts as no nonce; no nonce is the empty text.
NonceOf(p) == IF p.nonce = Absent THEN EmptyText ELSE Trim(p.nonce)

\* The scheme is chosen by the presence of a nonce.
SchemeOf(p) == IF NonceOf(p) = EmptyText THEN LegacyNoNonce ELSE Canonical

\* The string the verifier feeds its MAC, built apart from mac_over.
VerifierString(p) ==
    IF SchemeOf(p) = Canonical
      THEN Join(Trim(p.timestamp), Join(NonceOf(p), p.body))
      ELSE Join(Trim(p.timestamp), p.body)

\* Mutant: the key is checked, not what it signed.
SignatureMatches_AnyString(p) == p.signature = Hmac(Secret, p.signature.string)
SignatureMatches(p) == p.signature = Hmac(Secret, VerifierString(p))

\* timestamp.parse::<i64>() succeeds, and what it gives.
Parses(s) == Len(s) = 1 /\ s[1] \in Int
Number(s) == s[1]

\* Mutant: the timestamp is judged before the MAC.
Verify_TimestampFirst(schemes, p, t) ==
    IF {p.signature, p.timestamp} \cap {Absent, Malformed} # {}
         \/ SchemeOf(p) \notin schemes THEN "Refused"
    ELSE IF ~Parses(Trim(p.timestamp)) THEN "MalformedTimestamp"
    ELSE IF Skew(t, Number(Trim(p.timestamp))) > Freshness THEN "Stale"
    ELSE IF SignatureMatches(p) THEN "Ok" ELSE "SignatureMismatch"

\* The verdict: "Ok", or the error of the first check that fails.
Verify(schemes, p, t) ==
    IF p.signature = Absent THEN "MissingSignature"
    ELSE IF p.timestamp = Absent THEN "MissingTimestamp"
    ELSE IF SchemeOf(p) \notin schemes
           THEN IF SchemeOf(p) = Canonical THEN "SignatureMismatch"
                                           ELSE "MissingNonce"
    ELSE IF p.signature = Malformed THEN "MalformedSignature"
    ELSE IF ~SignatureMatches(p) THEN "SignatureMismatch"
    ELSE IF ~Parses(Trim(p.timestamp)) THEN "MalformedTimestamp"
    ELSE IF Skew(t, Number(Trim(p.timestamp))) > Freshness THEN "Stale"
    ELSE "Ok"

\* Mutant: the raw nonce header is returned, blank as it may be.
Verified_RawNonce(p) == [scheme |-> SchemeOf(p), ts |-> Trim(p.timestamp),
                         nonce |-> IF p.nonce = Absent THEN EmptyText ELSE p.nonce,
                         body |-> p.body]

\* What the consumer has once Verify said "Ok": Verified, with the body.
Verified(p) == [scheme |-> SchemeOf(p), ts |-> Trim(p.timestamp),
                nonce |-> NonceOf(p), body |-> p.body]

\* What Verified may be: the timestamp is an integer, the nonce neither blank nor
\* padded, and empty only under the legacy scheme.
Readings ==
    [scheme : {Canonical}, ts : {<<i>> : i \in Ints},
     nonce : {n \in Strings : Trim(n) = n /\ n # EmptyText}, body : Strings]
        \cup
    [scheme : {LegacyNoNonce}, ts : {<<i>> : i \in Ints}, nonce : {EmptyText},
     body : Strings]

\* The consumer deduplicates on the nonce, and on the body if there is none.
DedupKey(d) == <<d.scheme, IF d.scheme = Canonical THEN d.nonce ELSE d.body>>

Known(k) == \E r \in seen : r.key = k

-------------------------------------------------------------------------------
\* The system.

\* Every copy that may be in the network, of what was signed with the secret and of
\* what somebody signed like it with another key.
Copies ==
    UNION {Alterations(Presented(d)) \cup {Foreign([d EXCEPT !.body = b]) : b \in Bodies} :
             d \in issued}

Init ==
    /\ now = 0
    /\ emits = [s \in Senders |-> LegacyNoNonce]
    /\ issued = {}
    /\ accepted = [w \in Workers |-> also_accept(new_accepted, LegacyNoNonce)]
    /\ worker = [w \in Workers |-> Idle]
    /\ seen = {}
    /\ handled = <<>>

Issue(d) ==
    /\ Cardinality(issued) < MaxIssued
    /\ Cardinality(issued) + Len(handled) < MaxEvents
    /\ issued' = issued \cup {d}
    /\ UNCHANGED <<now, emits, accepted, worker, seen, handled>>

\* Signer::sign_with: this crate only ever signs canonically.  The timestamp and the
\* nonce are the caller's, who may give any and give one twice.
sign_with(s, ts, n, b) ==
    /\ emits[s] = Canonical
    /\ Issue([scheme |-> Canonical, ts |-> ts, nonce |-> n, body |-> b])

\* Mutant: the nonce is not minted for each delivery.
sign_AnyNonce(s, ts, u, b) == Parses(ts) /\ sign_with(s, ts, <<u>>, b)

\* Signer::sign: the sender's clock, which may be off, and a nonce minted afresh.
sign(s, ts, u, b) ==
    /\ Parses(ts)
    /\ \A d \in issued : d.nonce # <<u>>
    /\ sign_with(s, ts, <<u>>, b)

\* A sender that has not migrated yet.
SignLegacy(s, ts, b) ==
    /\ emits[s] = LegacyNoNonce
    /\ Issue([scheme |-> LegacyNoNonce, ts |-> ts, nonce |-> Absent, body |-> b])

\* An idle instance is handed a copy of something signed, reads its clock and
\* verifies; whatever it refuses it answers with the error and forgets.  Copies
\* stay in the network: they may come again, or never.
Receive(w, p) ==
    /\ worker[w] = Idle
    /\ Verify(accepted[w], p, now) = "Ok"
    /\ worker' = [worker EXCEPT ![w] = Holding(Verified(p), now)]
    /\ UNCHANGED <<now, emits, issued, accepted, seen, handled>>

\* The consumer records the key of a verified delivery and acts on it, or drops
\* it when the key is there already.  Recording is one conditional write.
Record(w) ==
    /\ worker[w] # Idle
    /\ LET d == worker[w].d
           k == DedupKey(d)
       IN  IF Known(k)
             THEN UNCHANGED <<seen, handled>>
             ELSE /\ Cardinality(issued) + Len(handled) < MaxEvents
                  /\ seen' = seen \cup {[key |-> k, at |-> now]}
                  /\ handled' = Append(handled, d)
    /\ worker' = [worker EXCEPT ![w] = Idle]
    /\ UNCHANGED <<now, emits, issued, accepted>>

\* The instance dies between verifying and recording.
Crash(w) ==
    /\ worker[w] # Idle
    /\ worker' = [worker EXCEPT ![w] = Idle]
    /\ UNCHANGED <<now, emits, issued, accepted, seen, handled>>

\* Mutant: keys are remembered only for one freshness window.
Purge_AfterWindow(r) ==
    /\ now > r.at + Freshness
    /\ seen' = seen \ {r}
    /\ UNCHANGED <<now, emits, issued, accepted, worker, handled>>

\* The store forgets a key once it is older than the retention.
Purge(r) ==
    /\ now > r.at + Retention
    /\ seen' = seen \ {r}
    /\ UNCHANGED <<now, emits, issued, accepted, worker, handled>>

\* A second passes.  The platform kills an instance Stall seconds after it
\* verified, so none that is still at work lets the clock pass that point.
Tick ==
    /\ now < MaxTime
    /\ \A w \in Workers : worker[w] # Idle => now < worker[w].at + Stall
    /\ now' = now + 1
    /\ UNCHANGED <<emits, issued, accepted, worker, seen, handled>>

\* The rollout: the consumers accept both schemes (Init), then each sender
\* flips, then each instance is replaced by one that accepts only the canonical
\* scheme, when nothing signed under the legacy one can still be fresh.
FlipSender(s) ==
    /\ emits[s] = LegacyNoNonce
    /\ emits' = [emits EXCEPT ![s] = Canonical]
    /\ UNCHANGED <<now, issued, accepted, worker, seen, handled>>

Drained ==
    /\ \A s \in Senders : emits[s] = Canonical
    /\ \A d \in issued : d.scheme = LegacyNoNonce /\ Parses(d.ts)
                            => now > Number(d.ts) + Freshness

DropLegacy(w) ==
    /\ Drained
    /\ worker[w] = Idle
    /\ accepted' = [accepted EXCEPT ![w] = new_accepted]
    /\ UNCHANGED <<now, emits, issued, worker, seen, handled>>

Next ==
    \/ \E s \in Senders, ts \in Stamps, b \in Bodies :
         \/ \E u \in Uuids : sign(s, ts, u, b)
         \/ \E n \in CallerNonces : sign_with(s, ts, n, b)
         \/ SignLegacy(s, ts, b)
    \/ \E w \in Workers :
         \/ \E p \in Copies : Receive(w, p)
         \/ Record(w)
         \/ Crash(w)
         \/ DropLegacy(w)
    \/ \E r \in seen : Purge(r)
    \/ \E s \in Senders : FlipSender(s)
    \/ Tick

Spec == Init /\ [][Next]_vars

-------------------------------------------------------------------------------
\* Properties.

\* The type invariant.
TypeOK ==
    /\ now \in 0 .. MaxTime
    /\ emits \in [Senders -> Scheme]
    /\ issued \subseteq Deliveries
    /\ accepted \in [Workers -> SUBSET Scheme]
    /\ worker \in [Workers -> {Idle} \cup [phase : {"verified"}, d : Readings, at : Nat]]
    /\ seen \subseteq [key : Scheme \X Strings, at : Nat]
    /\ handled \in Seq(Readings)

\* No stamp is so far before the epoch that the verifier's subtraction overflows:
\* so of every stamp of a clock, and of any that is not negative.
NoWrap == \A ts \in Ints : MaxTime - ts < HalfRange

\* Nothing verify returned is acted on twice with the body it came with, whatever the
\* network duplicates and however late: the freshness window of verify and the
\* consumer's memory of the nonces it returned are enough together, though neither
\* is alone.
NoReplay ==
    \A i, j \in 1 .. Len(handled) : handled[i] = handled[j] => i = j

\* Only repeats are dropped: when the dedup turns a delivery with a minted nonce away,
\* this same delivery has been acted on.  The nonce that sign mints and verify returns
\* belongs to one signed delivery, whatever the bodies.
OnlyRepeatsDropped ==
    \A w \in Workers :
        /\ worker[w] # Idle
        /\ worker[w].d.nonce \in Minted
        /\ Known(DedupKey(worker[w].d))
        => \E i \in 1 .. Len(handled) : handled[i] = worker[w].d

\* What the Verifiers of the running instances accept.
Deployed == {accepted[w] : w \in Workers}

\* A verdict of Ok means that a holder of the secret signed the string that timestamp,
\* nonce and body make up; and if verify returns a nonce that sign minted, that this
\* delivery was signed, field by field: mac_over signs what the verifier's own MAC
\* covers, in the same order.
OkIsAuthentic ==
    \A schemes \in Deployed, p \in Copies :
        Verify(schemes, p, now) = "Ok" =>
            /\ VerifierString(p) \in SignedTexts
            /\ NonceOf(p) \in Minted => Verified(p) \in issued

FreshAt(ts, t) ==
    Parses(ts) /\ Number(ts) - Freshness <= t /\ t <= Number(ts) + Freshness

\* A delivery is accepted only within the window: "more than this many seconds
\* from the verifier's clock (either direction) is rejected as stale".
OkIsFresh ==
    \A schemes \in Deployed, p \in Copies :
        Verify(schemes, p, now) = "Ok" => FreshAt(Trim(p.timestamp), now)

\* sign_with signs a nonce as it is given and verify trims what it is handed, so only
\* a nonce without white space around it, and not empty, comes back as it was signed.
Carried(d) ==
    d.scheme = Canonical => Trim(d.nonce) = d.nonce /\ d.nonce # EmptyText

\* No lockstep: all through the rollout an unaltered delivery that is still
\* fresh is accepted by whichever instance it reaches.
FreshGenuineAccepted ==
    \A schemes \in Deployed, d \in issued :
        FreshAt(d.ts, now) /\ Carried(d) => Verify(schemes, Presented(d), now) = "Ok"

\* The timestamp is trusted only after authenticity: verify complains about a
\* timestamp's value only when a holder of the secret signed the string it heads.
TimestampErrorsAreAuthentic ==
    \A schemes \in Deployed, p \in Copies :
        Verify(schemes, p, now) \in {"Stale", "MalformedTimestamp"}
            => VerifierString(p) \in SignedTexts

\* "A canonical-signed body can never verify as legacy or vice-versa": what verify
\* accepts was signed under the scheme it reports.  The code does not have it: a
\* string does not tell where its nonce ends, nor whether it has one.
SchemesDistinct ==
    \A schemes \in Deployed, p \in Copies :
        Verify(schemes, p, now) = "Ok" =>
            \E d \in issued : d.scheme = SchemeOf(p) /\ SignedText(d) = VerifierString(p)

Inbox == INSTANCE WebhookInbox WITH signed <- SignedTexts, log <- handled

\* The consumer acts only on readings of signed strings, on each at most once: verify
\* and the dedup of its result implement the inbox.
ImplementsInbox == Inbox!Spec
===============================================================================
