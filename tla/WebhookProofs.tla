----------------------------- MODULE WebhookProofs -----------------------------
(***************************************************************************)
(* Theorems about Webhook, for every number of senders, instances, nonces, *)
(* bodies and stamps and for all windows.  The lemmas say what verify      *)
(* answers to a copy, framed and altered as it may be; the inductive       *)
(* invariant says how the freshness window, the stall and the retention    *)
(* fit together.                                                           *)
(***************************************************************************)
EXTENDS Webhook, SequenceTheorems, TLAPS

-------------------------------------------------------------------------------
\* Strings.

LEMMA StringShape ==
    ASSUME NEW s \in Strings
    PROVE  /\ s \in Seq(Pieces) /\ Len(s) \in Nat \ {0} /\ DOMAIN s = 1 .. Len(s)
           /\ \A i \in 1 .. Len(s) : s[i] \in Pieces
BY LenProperties, EmptySeq, ElementOfSeq DEF Strings

LEMMA StringOfSeq ==
    ASSUME NEW s \in Seq(Pieces), Len(s) > 0
    PROVE  s \in Strings
BY EmptySeq DEF Strings

\* What a dot between two strings gives: a string, with their pieces in their order.
LEMMA JoinShape ==
    ASSUME NEW a \in Strings, NEW b \in Strings
    PROVE  /\ Join(a, b) \in Strings
           /\ Len(Join(a, b)) = Len(a) + Len(b)
           /\ \A i \in 1 .. Len(a) + Len(b) :
                Join(a, b)[i] = IF i <= Len(a) THEN a[i] ELSE b[i - Len(a)]
<1>1. /\ a \in Seq(Pieces) /\ b \in Seq(Pieces)
      /\ Len(a) \in Nat \ {0} /\ Len(b) \in Nat \ {0}
  BY StringShape
<1>2. /\ Join(a, b) \in Seq(Pieces)
      /\ Len(Join(a, b)) = Len(a) + Len(b)
      /\ \A i \in 1 .. Len(a) + Len(b) :
           Join(a, b)[i] = IF i <= Len(a) THEN a[i] ELSE b[i - Len(a)]
  BY <1>1, ConcatProperties DEF Join
<1> QED
  BY <1>1, <1>2, StringOfSeq

\* Where the first two pieces of a joined string come from.
LEMMA JoinHead ==
    ASSUME NEW a \in Strings, NEW b \in Strings
    PROVE  /\ Join(a, b)[1] = a[1]
           /\ Len(a) > 1 => Join(a, b)[2] = a[2]
           /\ Len(a) = 1 => Join(a, b)[2] = b[1]
<1>1. Len(a) \in Nat \ {0} /\ Len(b) \in Nat \ {0}
  BY StringShape
<1> DEFINE c == Join(a, b)
<1>2. \A i \in 1 .. Len(a) + Len(b) : c[i] = IF i <= Len(a) THEN a[i] ELSE b[i - Len(a)]
  BY JoinShape
<1> HIDE DEF c
<1>3. 1 \in 1 .. Len(a) + Len(b) /\ 2 \in 1 .. Len(a) + Len(b)
  BY <1>1
<1>4. c[1] = a[1]
  BY <1>1, <1>2, <1>3
<1>5. Len(a) > 1 => c[2] = a[2]
  BY <1>1, <1>2, <1>3
<1>6. Len(a) = 1 => c[2] = b[1]
  BY <1>1, <1>2, <1>3
<1> QED
  BY <1>4, <1>5, <1>6 DEF c

LEMMA JoinThree ==
    ASSUME NEW a \in Strings, NEW b \in Strings, NEW c \in Strings
    PROVE  (a \o b) \o c = Join(a, Join(b, c))
<1>1. a \in Seq(Pieces) /\ b \in Seq(Pieces) /\ c \in Seq(Pieces)
  BY StringShape
<1>2. (a \o b) \o c = a \o (b \o c)
  BY <1>1, ConcatAssociative
<1> QED
  BY <1>2 DEF Join

\* What stands after the same beginning can be told from the whole.
LEMMA JoinCancel ==
    ASSUME NEW a \in Strings, NEW b \in Strings, NEW c \in Strings,
           Join(a, b) = Join(a, c)
    PROVE  b = c
<1>1. a \in Seq(Pieces) /\ b \in Seq(Pieces) /\ c \in Seq(Pieces)
  BY StringShape
<1>2. \A S : \A x, y, z \in Seq(S) : x \o y = x \o z => y = z
  BY ConcatSimplifications
<1>3. a \o b = a \o c => b = c
  BY <1>1, <1>2, Zenon
<1> QED
  BY <1>3 DEF Join

LEMMA PieceShape ==
    ASSUME NEW x \in Pieces
    PROVE  <<x>> \in Strings /\ Len(<<x>>) = 1 /\ <<x>>[1] = x
BY DEF Strings

LEMMA OnePiece ==
    ASSUME NEW s \in Strings, NEW t \in Strings, Len(s) = 1, Len(t) = 1, s[1] = t[1]
    PROVE  s = t
<1>1. s \in Seq(Pieces) /\ t \in Seq(Pieces)
  BY StringShape
<1>2. \A i \in 1 .. Len(s) : s[i] = t[i]
  OBVIOUS
<1> QED
  BY <1>1, <1>2, SeqEqual

\* str::trim keeps a string a string, and what it gives has nothing left to trim.
LEMMA TrimShape ==
    ASSUME NEW s \in Strings
    PROVE  Trim(s) \in Strings /\ Trim(Trim(s)) = Trim(s)
<1> DEFINE n == Len(s)
           t == Trim(s)
           x(i) == IF i = 1 THEN LTrim[s[i]] ELSE s[i]
<1>1. /\ n \in Nat \ {0} /\ \A i \in 1 .. n : s[i] \in Pieces
  BY StringShape
<1>2. t = [i \in 1 .. n |-> IF i = n THEN RTrim[x(i)] ELSE x(i)]
  BY DEF Trim
<1>3. \A i \in 1 .. n : x(i) \in Pieces /\ t[i] \in Pieces
  BY <1>1, <1>2, TrimAssumption
<1>4. t \in [1 .. n -> Pieces]
  BY <1>2, <1>3
<1> HIDE DEF t
<1>5. t \in Seq(Pieces)
  BY <1>1, <1>4, SeqDef
<1>6. Len(t) = n
  BY <1>1, <1>4, <1>5, LenProperties
<1>7. t \in Strings
  BY <1>1, <1>5, <1>6, StringOfSeq
<1>8. Trim(t) = t
  <2> DEFINE y(i) == IF i = 1 THEN LTrim[t[i]] ELSE t[i]
  <2>1. Trim(t) = [i \in 1 .. n |-> IF i = n THEN RTrim[y(i)] ELSE y(i)]
    BY <1>6 DEF Trim
  <2>2. SUFFICES ASSUME NEW i \in 1 .. n
                 PROVE  (IF i = n THEN RTrim[y(i)] ELSE y(i)) = t[i]
    BY <1>4, <2>1
  <2>3. t[i] = IF i = n THEN RTrim[x(i)] ELSE x(i)
    BY <1>2
  <2>4. s[i] \in Pieces
    BY <1>1
  <2>5. CASE i = 1 /\ i = n
    <3>1. t[i] = RTrim[LTrim[s[i]]]
      BY <2>3, <2>5
    <3>2. RTrim[LTrim[t[i]]] = t[i]
      BY <2>4, <3>1, TrimAssumption
    <3> QED
      BY <2>5, <3>2
  <2>6. CASE i = 1 /\ i # n
    BY <2>3, <2>4, <2>6, TrimAssumption
  <2>7. CASE i # 1 /\ i = n
    BY <2>3, <2>4, <2>7, TrimAssumption
  <2>8. CASE i # 1 /\ i # n
    BY <2>3, <2>8
  <2> QED
    BY <2>5, <2>6, <2>7, <2>8
<1> QED
  BY <1>7, <1>8 DEF t

\* An integer and a minted nonce have no white space around them.
LEMMA TrimPiece ==
    ASSUME NEW x \in Pieces, LTrim[x] = x, RTrim[x] = x
    PROVE  Trim(<<x>>) = <<x>>
<1>1. /\ Len(<<x>>) = 1 /\ <<x>>[1] = x /\ <<x>> = [i \in 1 .. 1 |-> x]
  OBVIOUS
<1>2. Trim(<<x>>) = [i \in 1 .. 1 |-> x]
  BY <1>1 DEF Trim
<1> QED
  BY <1>1, <1>2

LEMMA IntShape ==
    ASSUME NEW s \in Strings, Parses(s)
    PROVE  /\ s = <<Number(s)>> /\ Number(s) \in Ints
           /\ Trim(s) = s
<1>1. s = <<s[1]>> /\ s[1] \in Ints /\ s[1] \in Pieces
  <2>1. Len(s) = 1 /\ s[1] \in Pieces /\ s[1] \in Int /\ s \in Seq(Pieces)
    BY StringShape DEF Parses
  <2>2. s = <<s[1]>>
    BY <2>1, LenProperties
  <2> QED
    BY <2>1, <2>2 DEF Ints
<1>2. Trim(<<s[1]>>) = <<s[1]>>
  BY <1>1, TrimAssumption, TrimPiece
<1> QED
  BY <1>1, <1>2 DEF Number

LEMMA EmptyShape == EmptyText \in Strings /\ EmptyText \notin Minted
<1>1. Empty \in Pieces /\ Empty \notin Uuids
  BY StringsAssumption, UuidsAssumption
<1> QED
  BY <1>1, PieceShape DEF EmptyText, Minted

-------------------------------------------------------------------------------
\* What travels.

\* The fields of a delivery, the string that is signed for it and its unaltered copy.
LEMMA DeliveryShape ==
    ASSUME NEW d \in Deliveries
    PROVE  /\ d.ts \in Stamps /\ d.ts \in Strings /\ d.body \in Bodies /\ d.body \in Strings
           /\ d.scheme = Canonical => /\ d.nonce \in Nonces /\ d.nonce \in Strings
                                      /\ SignedText(d) = Join(d.ts, Join(d.nonce, d.body))
           /\ d.scheme # Canonical => /\ d.scheme = LegacyNoNonce /\ d.nonce = Absent
                                      /\ SignedText(d) = Join(d.ts, d.body)
           /\ SignedText(d) \in Strings
           /\ Presented(d) = [signature |-> Hmac(Secret, SignedText(d)),
                              timestamp |-> d.ts, nonce |-> d.nonce, body |-> d.body]
<1>1. /\ d.ts \in Stamps /\ d.body \in Bodies
      /\ d.scheme = Canonical => d.nonce \in Nonces
      /\ d.scheme # Canonical => d.scheme = LegacyNoNonce /\ d.nonce = Absent
  BY DEF Deliveries, Canonical, LegacyNoNonce
<1>2. d.ts \in Strings /\ d.body \in Strings /\ Nonces \subseteq Strings
  BY <1>1, StringsAssumption, UuidsAssumption, PieceShape DEF Nonces, Minted
<1>3. CASE d.scheme = Canonical
  <2>1. SignedText(d) = Join(d.ts, Join(d.nonce, d.body))
    BY <1>3 DEF SignedText, Presented, mac_over, Hmac
  <2>2. SignedText(d) \in Strings
    BY <1>1, <1>2, <1>3, <2>1, JoinShape
  <2> QED
    BY <1>1, <1>2, <1>3, <2>1, <2>2 DEF SignedText, Presented, mac_over, Hmac
<1>4. CASE d.scheme # Canonical
  <2>1. SignedText(d) = Join(d.ts, d.body)
    BY <1>4 DEF SignedText, Presented, legacy_mac, Hmac
  <2>2. SignedText(d) \in Strings
    BY <1>1, <1>2, <1>4, <2>1, JoinShape
  <2> QED
    BY <1>1, <1>2, <1>4, <2>1, <2>2 DEF SignedText, Presented, legacy_mac, Hmac
<1> QED
  BY <1>3, <1>4

\* However the string of a MAC is framed anew, its parts are strings.
LEMMA FramedShape ==
    ASSUME NEW p, p.signature.string \in Strings, NEW q \in Framings(p)
    PROVE  /\ q.signature = p.signature
           /\ q.timestamp \in Strings /\ q.body \in Strings
           /\ q.nonce \in Strings \cup {Absent}
<1> DEFINE s == p.signature.string
<1>1. Len(s) \in Nat /\ \A i \in 1 .. Len(s) : s[i] \in Pieces
  BY StringShape
<1>2. PICK i, j \in 1 .. Len(s) - 1 : q = Framed(p, i, j)
  BY DEF Framings
<1> HIDE DEF s
<1>3. \A m, n \in 1 .. Len(s) : m <= n => SubSeq(s, m, n) \in Strings
  <2>1. SUFFICES ASSUME NEW m \in 1 .. Len(s), NEW n \in 1 .. Len(s), m <= n
                 PROVE  SubSeq(s, m, n) \in Strings
    OBVIOUS
  <2>2. \A k \in m .. n : s[k] \in Pieces
    BY <1>1, <2>1
  <2>3. SubSeq(s, m, n) \in Seq(Pieces) /\ Len(SubSeq(s, m, n)) = n - m + 1
    BY <1>1, <2>1, <2>2, SubSeqProperties
  <2>4. n - m + 1 > 0
    BY <1>1, <2>1
  <2>5. Len(SubSeq(s, m, n)) > 0
    BY <2>3, <2>4
  <2> QED
    BY <2>3, <2>5, StringOfSeq
<1>4. /\ SubSeq(s, 1, i) \in Strings
      /\ j > i => SubSeq(s, i + 1, j) \in Strings
      /\ SubSeq(s, (IF j <= i THEN i ELSE j) + 1, Len(s)) \in Strings
  <2>1. /\ i \in Nat /\ j \in Nat /\ 1 <= i /\ 1 <= j /\ i < Len(s) /\ j < Len(s)
    BY <1>1, <1>2
  <2>2. SubSeq(s, 1, i) \in Strings
    BY <1>1, <1>3, <2>1
  <2>3. j > i => SubSeq(s, i + 1, j) \in Strings
    BY <1>1, <1>3, <2>1
  <2>4. \A k \in 1 .. Len(s) - 1 : SubSeq(s, k + 1, Len(s)) \in Strings
    BY <1>1, <1>3
  <2> QED
    BY <1>1, <1>2, <2>1, <2>2, <2>3, <2>4
<1>5. /\ q.signature = p.signature /\ q.timestamp = SubSeq(s, 1, i)
      /\ q.nonce = IF j <= i THEN Absent ELSE SubSeq(s, i + 1, j)
      /\ q.body = SubSeq(s, (IF j <= i THEN i ELSE j) + 1, Len(s))
  BY <1>2 DEF Framed, s
<1>6. j <= i \/ j > i
  BY <1>1, <1>2
<1> QED
  BY <1>4, <1>5, <1>6

\* A copy's fields are strings, or absent, and its signature is a MAC of the secret
\* over a string that was signed with it, a MAC of another key, or none.
LEMMA CopyShape ==
    ASSUME issued \subseteq Deliveries, NEW p \in Copies
    PROVE  /\ p.timestamp \in Strings \cup {Absent}
           /\ p.nonce \in Strings \cup {Absent}
           /\ p.body \in Strings
           /\ \/ p.signature \in {Absent, Malformed}
              \/ \E t \in SignedTexts : p.signature = Hmac(Secret, t)
              \/ \E t \in Strings : p.signature = Hmac(OtherSecret, t)
<1>1. PICK d \in issued :
             \/ p \in Alterations(Presented(d))
             \/ \E b \in Bodies : p = Foreign([d EXCEPT !.body = b])
  BY DEF Copies
<1> DEFINE q == Presented(d)
           t == SignedText(d)
<1>2. /\ d \in Deliveries /\ t \in SignedTexts /\ t \in Strings
      /\ d.ts \in Strings /\ d.body \in Strings /\ d.nonce \in Strings \cup {Absent}
      /\ q = [signature |-> Hmac(Secret, t), timestamp |-> d.ts,
              nonce |-> d.nonce, body |-> d.body]
  BY DeliveryShape DEF SignedTexts
<1>3. CASE \E b \in Bodies : p = Foreign([d EXCEPT !.body = b])
  <2>1. PICK b \in Bodies : p = Foreign([d EXCEPT !.body = b])
    BY <1>3
  <2> DEFINE e == [d EXCEPT !.body = b]
  <2>2. e \in Deliveries
    BY <1>2 DEF Deliveries
  <2>3. /\ Presented(e) = [signature |-> Hmac(Secret, SignedText(e)), timestamp |-> e.ts,
                           nonce |-> e.nonce, body |-> e.body]
        /\ SignedText(e) \in Strings
        /\ e.ts \in Strings /\ e.body \in Strings /\ e.nonce \in Strings \cup {Absent}
    BY <2>2, DeliveryShape
  <2> HIDE DEF e
  <2>4. /\ p.signature = Hmac(OtherSecret, SignedText(e)) /\ p.timestamp = e.ts
        /\ p.nonce = e.nonce /\ p.body = e.body
    BY <2>1, <2>3 DEF Foreign, e
  <2> QED
    BY <2>3, <2>4
<1>4. CASE p \in Alterations(q)
  <2>1. q.signature.string = t
    BY <1>2 DEF Hmac
  <2> HIDE DEF q, t
  <2>2. CASE p \in Framings(q)
    <3>1. /\ p.signature = q.signature
          /\ p.timestamp \in Strings /\ p.body \in Strings
          /\ p.nonce \in Strings \cup {Absent}
      BY <1>2, <2>1, <2>2, FramedShape
    <3> QED
      BY <1>2, <3>1
  <2>3. CASE p \notin Framings(q)
    <3>1. HeaderTexts \subseteq Strings /\ Bodies \subseteq Strings
      BY StringsAssumption
    <3>2. {<<i>> : i \in Ints} \subseteq Strings
      BY PieceShape DEF Ints
    <3>3. \/ p = q
          \/ \E n \in Strings \cup {Absent} : p = [q EXCEPT !.nonce = n]
          \/ \E n \in Strings \cup {Absent} : p = [q EXCEPT !.timestamp = n]
          \/ \E b \in Strings : p = [q EXCEPT !.body = b]
          \/ \E s \in {Absent, Malformed} : p = [q EXCEPT !.signature = s]
      BY <1>4, <2>3, <3>1, <3>2 DEF Alterations
    <3> QED
      BY <1>2, <3>3
  <2> QED
    BY <2>2, <2>3
<1> QED
  BY <1>1, <1>3, <1>4

\* The string verify computes its MAC over when that MAC is the one presented was
\* signed by a holder of the secret.
LEMMA MatchIsSigned ==
    ASSUME issued \subseteq Deliveries, NEW p \in Copies,
           p.signature \notin {Absent, Malformed}, SignatureMatches(p)
    PROVE  VerifierString(p) \in SignedTexts
<1>1. p.signature = [key |-> Secret, string |-> VerifierString(p)]
  BY DEF SignatureMatches, Hmac
<1>2. p.signature.key = Secret /\ p.signature.string = VerifierString(p)
  BY <1>1
<1>3. CASE \E t \in SignedTexts : p.signature = Hmac(Secret, t)
  BY <1>2, <1>3 DEF Hmac
<1>4. CASE \E t \in Strings : p.signature = Hmac(OtherSecret, t)
  BY <1>2, <1>4, SecretAssumption DEF Hmac
<1> QED
  BY <1>3, <1>4, CopyShape

-------------------------------------------------------------------------------
\* The window.

\* What the i64 arithmetic makes of a distance: itself as long as it is below one
\* range, its complement beyond, and the smallest i64, which passes any window, at
\* exactly one range.
LEMMA SkewValue ==
    ASSUME NEW ts \in Ints, NEW t \in 0 .. MaxTime
    PROVE  /\ ts \in Int /\ t \in Nat /\ HalfRange \in Nat \ {0} /\ Freshness \in Nat
           /\ t - ts < HalfRange => Skew(t, ts) = IF t < ts THEN ts - t ELSE t - ts
           /\ t - ts > HalfRange => /\ Skew(t, ts) = 2 * HalfRange - (t - ts)
                                   /\ Skew(t, ts) < HalfRange
           /\ t - ts = HalfRange => Skew(t, ts) = -HalfRange
<1>1. /\ ts \in Int /\ -HalfRange <= ts /\ ts <= HalfRange - 1
      /\ t \in Nat /\ t <= MaxTime
      /\ HalfRange \in Nat /\ MaxTime \in Nat /\ MaxTime < HalfRange
      /\ Freshness \in Nat
  BY WindowAssumption
<1> DEFINE x == t - ts
<1>2. x \in Int /\ -HalfRange < x /\ x < 2 * HalfRange
  BY <1>1
<1>3. ASSUME x < HalfRange PROVE Skew(t, ts) = IF t < ts THEN ts - t ELSE t - ts
  BY <1>1, <1>2, <1>3 DEF Skew, Abs64, Wrap
<1>4. ASSUME x > HalfRange
      PROVE  Skew(t, ts) = 2 * HalfRange - x /\ Skew(t, ts) < HalfRange
  <2>1. Wrap(x) = x - 2 * HalfRange /\ Wrap(x) < 0 /\ Wrap(x) > -HalfRange
    BY <1>1, <1>2, <1>4 DEF Wrap
  <2>2. Wrap(2 * HalfRange - x) = 2 * HalfRange - x
    BY <1>1, <1>2, <1>4 DEF Wrap
  <2> QED
    BY <1>1, <1>2, <1>4, <2>1, <2>2 DEF Skew, Abs64
<1>5. ASSUME x = HalfRange PROVE Skew(t, ts) = -HalfRange
  <2>1. Wrap(x) = -HalfRange /\ Wrap(HalfRange) = -HalfRange
    BY <1>1, <1>5 DEF Wrap
  <2> QED
    BY <1>1, <1>5, <2>1 DEF Skew, Abs64
<1> QED
  BY <1>1, <1>3, <1>4, <1>5

\* When the subtraction does not overflow the skew is the distance, so the check
\* is two-sided.
LEMMA SkewIsDistance ==
    ASSUME NoWrap, NEW s \in Strings, Parses(s), NEW t \in 0 .. MaxTime
    PROVE  Skew(t, Number(s)) > Freshness <=> ~FreshAt(s, t)
<1>1. Number(s) \in Ints
  BY IntShape
<1>2. t - Number(s) < HalfRange
  <2>1. /\ Number(s) \in Int /\ t \in Nat /\ t <= MaxTime
        /\ HalfRange \in Nat /\ MaxTime \in Nat
    <3>1. Number(s) \in Int
      BY <1>1 DEF Ints
    <3> QED
      BY <3>1, WindowAssumption
  <2>2. MaxTime - Number(s) < HalfRange
    BY <1>1 DEF NoWrap
  <2> QED
    BY <2>1, <2>2
<1> QED
  BY <1>1, <1>2, SkewValue DEF FreshAt

\* A fresh stamp passes even where the subtraction overflows: the wrapped skew is
\* never more than the distance.
LEMMA FreshPasses ==
    ASSUME NEW s \in Strings, NEW t \in 0 .. MaxTime, FreshAt(s, t)
    PROVE  ~(Skew(t, Number(s)) > Freshness)
<1>1. Number(s) \in Ints
  BY IntShape DEF FreshAt
<1> QED
  BY <1>1, SkewValue DEF FreshAt

\* A stamp of a clock after 1970 wraps nothing.
LEMMA AfterEpoch == Ints \subseteq Nat => NoWrap
BY WindowAssumption DEF NoWrap

-------------------------------------------------------------------------------
\* What verify answers.

\* The string of what verify returns is the string it computed its MAC over.
LEMMA TextOfVerified ==
    ASSUME NEW p, p.timestamp \in Strings, p.nonce \in Strings \cup {Absent},
           p.body \in Strings
    PROVE  /\ Inbox!Text(Verified(p)) = VerifierString(p)
           /\ NonceOf(p) \in Strings
           /\ p.nonce # Absent => Trim(NonceOf(p)) = NonceOf(p)
<1>1. /\ Trim(p.timestamp) \in Strings /\ NonceOf(p) \in Strings
      /\ p.nonce # Absent => Trim(NonceOf(p)) = NonceOf(p)
  BY TrimShape, EmptyShape DEF NonceOf
<1>2. (Trim(p.timestamp) \o NonceOf(p)) \o p.body
        = Join(Trim(p.timestamp), Join(NonceOf(p), p.body))
  <2> DEFINE a == Trim(p.timestamp)
             b == NonceOf(p)
             c == p.body
  <2>1. a \in Strings /\ b \in Strings /\ c \in Strings
    BY <1>1
  <2> HIDE DEF a, b, c
  <2>2. (a \o b) \o c = Join(a, Join(b, c))
    BY <2>1, JoinThree
  <2> QED
    BY <2>2 DEF a, b, c
<1>3. Trim(p.timestamp) \o p.body = Join(Trim(p.timestamp), p.body)
  BY DEF Join
<1>4. VerifierString(p) = IF SchemeOf(p) = Canonical
                            THEN Join(Trim(p.timestamp), Join(NonceOf(p), p.body))
                            ELSE Join(Trim(p.timestamp), p.body)
  BY DEF VerifierString
<1> QED
  BY <1>1, <1>2, <1>3, <1>4 DEF Inbox!Text, Verified, Canonical

\* verify answers Ok only over a string that was signed; what it returns is a reading
\* of it, and without overflow a fresh one.
LEMMA OkVerdict ==
    ASSUME issued \subseteq Deliveries, NEW t \in 0 .. MaxTime, NEW p \in Copies,
           NEW schemes, Verify(schemes, p, t) = "Ok"
    PROVE  /\ VerifierString(p) \in SignedTexts
           /\ Verified(p) \in Readings
           /\ Inbox!Text(Verified(p)) = VerifierString(p)
           /\ NoWrap => FreshAt(Trim(p.timestamp), t)
<1>1. /\ p.signature \notin {Absent, Malformed} /\ p.timestamp # Absent
      /\ SignatureMatches(p)
      /\ Parses(Trim(p.timestamp))
      /\ ~(Skew(t, Number(Trim(p.timestamp))) > Freshness)
  BY DEF Verify
<1>2. /\ p.timestamp \in Strings /\ p.nonce \in Strings \cup {Absent} /\ p.body \in Strings
  BY <1>1, CopyShape
<1>3. VerifierString(p) \in SignedTexts
  BY <1>1, MatchIsSigned
<1>4. Trim(p.timestamp) \in Strings
  BY <1>2, TrimShape
<1>5. /\ Trim(p.timestamp) = <<Number(Trim(p.timestamp))>>
      /\ Number(Trim(p.timestamp)) \in Ints
  BY <1>1, <1>4, IntShape
<1>6. Verified(p) \in Readings
  <2>1. /\ NonceOf(p) \in Strings
        /\ NonceOf(p) # EmptyText => Trim(NonceOf(p)) = NonceOf(p)
    BY <1>2, TextOfVerified DEF NonceOf
  <2>2. Trim(p.timestamp) \in {<<i>> : i \in Ints}
    BY <1>5
  <2>3. Verified(p) = [scheme |-> SchemeOf(p), ts |-> Trim(p.timestamp),
                       nonce |-> NonceOf(p), body |-> p.body]
    BY DEF Verified
  <2>4. SchemeOf(p) = IF NonceOf(p) = EmptyText THEN LegacyNoNonce ELSE Canonical
    BY DEF SchemeOf
  <2> QED
    BY <1>2, <2>1, <2>2, <2>3, <2>4 DEF Readings
<1>7. NoWrap => FreshAt(Trim(p.timestamp), t)
  BY <1>1, <1>4, SkewIsDistance
<1> QED
  BY <1>2, <1>3, <1>6, <1>7, TextOfVerified

\* verify complains about a timestamp's value only when the MAC matches.
LEMMA TimestampVerdict ==
    ASSUME issued \subseteq Deliveries, NEW t, NEW p \in Copies,
           NEW schemes, Verify(schemes, p, t) \in {"Stale", "MalformedTimestamp"}
    PROVE  VerifierString(p) \in SignedTexts
<1>1. p.signature \notin {Absent, Malformed} /\ SignatureMatches(p)
  BY DEF Verify
<1> QED
  BY <1>1, MatchIsSigned

\* verify accepts the unaltered copy of a delivery whose scheme it accepts, whose
\* nonce it reads as it was signed, and whose skew it finds within the window.
LEMMA GenuineVerdict ==
    ASSUME NEW d \in Deliveries, NEW t \in 0 .. MaxTime, Carried(d),
           NEW schemes, d.scheme \in schemes,
           Parses(d.ts), ~(Skew(t, Number(d.ts)) > Freshness)
    PROVE  Verify(schemes, Presented(d), t) = "Ok"
<1> DEFINE p == Presented(d)
<1>1. /\ p.signature = Hmac(Secret, SignedText(d)) /\ p.signature \notin {Absent, Malformed}
      /\ p.timestamp = d.ts /\ p.nonce = d.nonce /\ p.body = d.body
      /\ d.ts \in Strings /\ p.timestamp # Absent
  BY DeliveryShape, MacAssumption, StringsAssumption
<1>2. Trim(p.timestamp) = d.ts
  BY <1>1, IntShape
<1>3. /\ SchemeOf(p) = d.scheme
      /\ d.scheme = Canonical => NonceOf(p) = d.nonce
  <2>1. CASE d.scheme = Canonical
    <3>1. d.nonce # Absent /\ Trim(d.nonce) = d.nonce /\ d.nonce # EmptyText
      BY <2>1, DeliveryShape, StringsAssumption DEF Carried
    <3> QED
      BY <1>1, <2>1, <3>1 DEF SchemeOf, NonceOf
  <2>2. CASE d.scheme # Canonical
    BY <1>1, <2>2, DeliveryShape DEF SchemeOf, NonceOf
  <2> QED
    BY <2>1, <2>2
<1>4. VerifierString(p) = SignedText(d)
  BY <1>1, <1>2, <1>3, DeliveryShape DEF VerifierString
<1> HIDE DEF p
<1>5. Verify(schemes, p, t) = "Ok"
  BY <1>1, <1>2, <1>3, <1>4 DEF Verify, SignatureMatches
<1> QED
  BY <1>5 DEF p

\* A reading with a minted nonce is canonical: timestamp, nonce and body make its string.
LEMMA ReadingText ==
    ASSUME NEW r \in Readings, r.nonce \in Minted
    PROVE  /\ r.scheme = Canonical /\ r.body \in Strings
           /\ r.ts \in Strings /\ r.nonce \in Strings
           /\ Inbox!Text(r) = Join(r.ts, Join(r.nonce, r.body))
           /\ \E i \in Ints, u \in Uuids : r.ts = <<i>> /\ r.nonce = <<u>>
<1>1. /\ r.scheme = Canonical /\ r.body \in Strings /\ r.nonce \in Strings
      /\ r.ts \in {<<i>> : i \in Ints}
  BY EmptyShape DEF Readings
<1>2. r.ts \in Strings
  BY <1>1, PieceShape DEF Ints
<1>3. (r.ts \o r.nonce) \o r.body = Join(r.ts, Join(r.nonce, r.body))
  BY <1>1, <1>2, JoinThree
<1> QED
  BY <1>1, <1>2, <1>3 DEF Inbox!Text, Minted, Canonical

\* A nonce that sign minted binds: it is in the string of one delivery only, between
\* its timestamp and its body, so there is but one way to read that string with it.
LEMMA MintedBinds ==
    ASSUME NEW d \in Deliveries, NEW r \in Readings, r.nonce \in Minted,
           Inbox!Text(r) = SignedText(d)
    PROVE  r = d
<1> DEFINE s == SignedText(d)
<1>1. /\ r.scheme = Canonical
      /\ r.ts \in Strings /\ r.nonce \in Strings /\ r.body \in Strings
      /\ s = Join(r.ts, Join(r.nonce, r.body))
  BY ReadingText
<1>2. PICK i \in Ints, u \in Uuids : r.ts = <<i>> /\ r.nonce = <<u>>
  BY ReadingText
<1>3. /\ Len(r.ts) = 1 /\ r.ts[1] = i /\ r.nonce[1] = u
  BY <1>2
<1>4. s[1] = i /\ s[2] = u
  <2>1. Join(r.nonce, r.body) \in Strings /\ Join(r.nonce, r.body)[1] = u
    BY <1>1, <1>3, JoinShape, JoinHead
  <2> QED
    BY <1>1, <1>3, <2>1, JoinHead
<1>5. /\ d.ts \in Strings /\ d.body \in Strings
      /\ \A k \in 1 .. Len(d.ts) : d.ts[k] \notin Uuids
      /\ \A k \in 1 .. Len(d.body) : d.body[k] \notin Uuids
  BY DeliveryShape, UuidsAssumption
<1>6. /\ Len(d.ts) \in Nat \ {0} /\ Len(d.body) \in Nat \ {0}
      /\ Len(d.ts) > 1 => d.ts[2] \notin Uuids
      /\ d.body[1] \notin Uuids
      /\ Len(d.ts) = 1 \/ Len(d.ts) > 1
  <2>1. Len(d.ts) \in Nat \ {0} /\ Len(d.body) \in Nat \ {0}
    BY <1>5, StringShape
  <2>2. \A n \in Nat \ {0} : n = 1 \/ n > 1
    OBVIOUS
  <2>3. Len(d.ts) = 1 \/ Len(d.ts) > 1
    BY <2>1, <2>2, Zenon
  <2> QED
    BY <1>5, <2>1, <2>3
<1> HIDE DEF s
<1>7. /\ d.scheme = Canonical /\ d.nonce \in Strings
      /\ s = Join(d.ts, Join(d.nonce, d.body))
  <2>1. SUFFICES ASSUME d.scheme # Canonical PROVE FALSE
    BY DeliveryShape DEF s
  <2>2. s = Join(d.ts, d.body)
    BY <2>1, DeliveryShape DEF s
  <2>3. Len(d.ts) > 1 => s[2] = d.ts[2]
    BY <1>5, <2>2, JoinHead
  <2>4. Len(d.ts) = 1 => s[2] = d.body[1]
    BY <1>5, <2>2, JoinHead
  <2> QED
    BY <1>4, <1>6, <2>3, <2>4
<1>8. Join(d.nonce, d.body) \in Strings /\ Join(d.nonce, d.body)[1] = d.nonce[1]
  BY <1>5, <1>7, JoinShape, JoinHead
<1>9. Len(d.ts) = 1
  <2>1. Len(d.ts) > 1 => s[2] = d.ts[2]
    BY <1>5, <1>7, <1>8, JoinHead
  <2> QED
    BY <1>4, <1>6, <2>1
<1>10. d.nonce[1] = u /\ d.ts[1] = i
  BY <1>4, <1>5, <1>7, <1>8, <1>9, JoinHead
<1>11. d.nonce = <<u>>
  <2>1. d.nonce \in Nonces /\ Len(d.nonce) \in Nat \ {0}
    BY <1>7, DeliveryShape, StringShape
  <2>2. d.nonce \notin CallerNonces
    <3>1. 1 \in 1 .. Len(d.nonce)
      BY <2>1
    <3> QED
      BY <1>10, <3>1, UuidsAssumption
  <2>3. PICK v \in Uuids : d.nonce = <<v>>
    BY <2>1, <2>2 DEF Nonces, Minted
  <2> QED
    BY <1>10, <2>3
<1>12. d.ts = <<i>>
  <2>1. d.ts \in Seq(Pieces) /\ d.ts = [k \in 1 .. 1 |-> d.ts[k]]
    BY <1>5, <1>9, StringShape, LenProperties
  <2> QED
    BY <1>9, <1>10, <2>1
<1>13. d.body = r.body
  <2>1. Join(d.nonce, r.body) \in Strings /\ Join(d.nonce, d.body) \in Strings
    BY <1>1, <1>5, <1>7, JoinShape
  <2>2. Join(d.ts, Join(d.nonce, r.body)) = Join(d.ts, Join(d.nonce, d.body))
    BY <1>1, <1>2, <1>7, <1>11, <1>12
  <2>3. Join(d.nonce, r.body) = Join(d.nonce, d.body)
    BY <1>5, <2>1, <2>2, JoinCancel
  <2> QED
    BY <1>1, <1>5, <1>7, <2>3, JoinCancel
<1>14. d = [scheme |-> Canonical, ts |-> d.ts, nonce |-> d.nonce, body |-> d.body]
  BY <1>7 DEF Deliveries, Canonical, LegacyNoNonce
<1>15. r = [scheme |-> Canonical, ts |-> r.ts, nonce |-> r.nonce, body |-> r.body]
  BY <1>1 DEF Readings, Canonical, LegacyNoNonce
<1> QED
  BY <1>2, <1>11, <1>12, <1>13, <1>14, <1>15

\* No field that is signed has a dot in it.
Dotless == \A s \in Stamps \cup CallerNonces \cup Bodies : Len(s) = 1

\* Three pieces between two dots can be read with a nonce in one way only.
LEMMA DotlessReading ==
    ASSUME Dotless, NEW d \in Deliveries, NEW r \in Readings, r.scheme = Canonical,
           Inbox!Text(r) = SignedText(d)
    PROVE  r = d
<1> DEFINE s == SignedText(d)
<1>1. /\ r.nonce \in Strings /\ r.body \in Strings /\ r.ts \in {<<i>> : i \in Ints}
      /\ r = [scheme |-> Canonical, ts |-> r.ts, nonce |-> r.nonce, body |-> r.body]
  BY DEF Readings, Canonical, LegacyNoNonce
<1>2. r.ts \in Strings /\ Len(r.ts) = 1
  BY <1>1, PieceShape DEF Ints
<1>3. s = Join(r.ts, Join(r.nonce, r.body))
  BY <1>1, <1>2, JoinThree DEF Inbox!Text, Canonical
<1> HIDE DEF s
<1>4. /\ Len(r.nonce) \in Nat \ {0} /\ Len(r.body) \in Nat \ {0}
      /\ Join(r.nonce, r.body) \in Strings
      /\ Len(s) = 1 + (Len(r.nonce) + Len(r.body))
  <2>1. Len(r.nonce) \in Nat \ {0} /\ Len(r.body) \in Nat \ {0}
    BY <1>1, StringShape
  <2>2. /\ Join(r.nonce, r.body) \in Strings
        /\ Len(Join(r.nonce, r.body)) = Len(r.nonce) + Len(r.body)
    BY <1>1, JoinShape
  <2>3. Len(s) = Len(r.ts) + Len(Join(r.nonce, r.body))
    BY <1>2, <1>3, <2>2, JoinShape
  <2> QED
    BY <1>2, <2>1, <2>2, <2>3
<1>5. /\ d.ts \in Strings /\ d.body \in Strings
      /\ Len(d.ts) = 1 /\ Len(d.body) = 1
  BY DeliveryShape DEF Dotless
<1>6. d.scheme = Canonical
  <2>1. SUFFICES ASSUME d.scheme # Canonical PROVE FALSE
    OBVIOUS
  <2>2. s = Join(d.ts, d.body)
    BY <2>1, DeliveryShape DEF s
  <2>3. Len(s) = Len(d.ts) + Len(d.body)
    BY <1>5, <2>2, JoinShape
  <2>4. 1 + 1 = 1 + (Len(r.nonce) + Len(r.body))
    BY <1>4, <1>5, <2>3
  <2>5. \A m, n \in Nat \ {0} : 1 + 1 # 1 + (m + n)
    OBVIOUS
  <2> QED
    BY <1>4, <2>4, <2>5
<1>7. /\ d.nonce \in Strings /\ Len(d.nonce) = 1
      /\ s = Join(d.ts, Join(d.nonce, d.body))
      /\ d = [scheme |-> Canonical, ts |-> d.ts, nonce |-> d.nonce, body |-> d.body]
  <2>1. d.nonce \in Nonces /\ d.nonce \in Strings
    BY <1>6, DeliveryShape
  <2>2. \A u \in Uuids : Len(<<u>>) = 1
    OBVIOUS
  <2>3. Len(d.nonce) = 1
    BY <2>1, <2>2 DEF Nonces, Minted, Dotless
  <2>4. d = [scheme |-> Canonical, ts |-> d.ts, nonce |-> d.nonce, body |-> d.body]
    BY <1>6 DEF Deliveries, Canonical, LegacyNoNonce
  <2> QED
    BY <1>6, <2>1, <2>3, <2>4, DeliveryShape DEF s
<1>8. Join(d.nonce, d.body) \in Strings /\ Len(s) = 1 + (1 + 1)
  <2>1. /\ Join(d.nonce, d.body) \in Strings
        /\ Len(Join(d.nonce, d.body)) = Len(d.nonce) + Len(d.body)
    BY <1>5, <1>7, JoinShape
  <2>2. Len(s) = Len(d.ts) + Len(Join(d.nonce, d.body))
    BY <1>5, <1>7, <2>1, JoinShape
  <2> QED
    BY <1>5, <1>7, <2>1, <2>2
<1>9. Len(r.nonce) = 1
  <2>1. 1 + (Len(r.nonce) + Len(r.body)) = 1 + (1 + 1)
    BY <1>4, <1>8
  <2>2. \A m, n \in Nat \ {0} : 1 + (m + n) = 1 + (1 + 1) => m = 1
    OBVIOUS
  <2> QED
    BY <1>4, <2>1, <2>2
<1>10. /\ r.ts[1] = d.ts[1]
       /\ Join(r.nonce, r.body)[1] = Join(d.nonce, d.body)[1]
  <2>1. s[1] = r.ts[1] /\ s[2] = Join(r.nonce, r.body)[1]
    BY <1>2, <1>3, <1>4, JoinHead
  <2>2. s[1] = d.ts[1] /\ s[2] = Join(d.nonce, d.body)[1]
    BY <1>5, <1>7, <1>8, JoinHead
  <2> QED
    BY <2>1, <2>2
<1>11. r.ts = d.ts
  BY <1>2, <1>5, <1>10, OnePiece
<1>12. r.nonce = d.nonce
  <2>1. r.nonce[1] = d.nonce[1]
    BY <1>1, <1>5, <1>7, <1>10, JoinHead
  <2> QED
    BY <1>1, <1>7, <1>9, <2>1, OnePiece
<1>13. r.body = d.body
  <2>1. Join(r.nonce, r.body) = Join(d.nonce, d.body)
    BY <1>2, <1>3, <1>4, <1>7, <1>8, <1>11, JoinCancel
  <2> QED
    BY <1>1, <1>5, <1>12, <2>1, JoinCancel
<1> QED
  BY <1>1, <1>7, <1>11, <1>12, <1>13

-------------------------------------------------------------------------------
\* The inductive invariant.

\* A holder of the secret signed the string of r, and if r has a minted nonce, r.
Backed(r) ==
    /\ Inbox!Text(r) \in SignedTexts
    /\ r.nonce \in Minted => r \in issued

\* The consumer still remembers r, since its window opened or later.
Remembered(r) ==
    \E x \in seen : x.key = DedupKey(r) /\ Number(r.ts) - Freshness <= x.at

\* Too late even for an instance that verified r in its last second.
Expired(r) == now > Number(r.ts) + Freshness + Stall

WorkerInv ==
    \A w \in Workers : worker[w] # Idle =>
        /\ Backed(worker[w].d)
        /\ worker[w].at <= now
        /\ now <= worker[w].at + Stall

HandledInv == \A i \in 1 .. Len(handled) : Backed(handled[i])

RolloutInv ==
    \A w \in Workers :
        /\ Canonical \in accepted[w]
        /\ LegacyNoNonce \notin accepted[w] => Drained

\* A minted nonce is in one delivery, and is recorded with that delivery.
MintInv ==
    /\ \A d, e \in issued : d.nonce \in Minted /\ d.nonce = e.nonce => d = e
    /\ \A x \in seen : x.key[1] = Canonical /\ x.key[2] \in Minted =>
         \E i \in 1 .. Len(handled) : handled[i].nonce = x.key[2]

IInv == TypeOK /\ WorkerInv /\ HandledInv /\ RolloutInv /\ MintInv

\* What the windows add to it, where no subtraction overflows.
HeldFresh ==
    \A w \in Workers : worker[w] # Idle => FreshAt(worker[w].d.ts, worker[w].at)

HandledGone ==
    \A i \in 1 .. Len(handled) : Remembered(handled[i]) \/ Expired(handled[i])

WindowInv == HeldFresh /\ HandledGone /\ NoReplay

LEMMA ReadingShape ==
    \A r \in Readings : /\ Number(r.ts) \in Int
                        /\ r.scheme \in Scheme
                        /\ DedupKey(r) \in Scheme \X Strings
                        /\ r.nonce \in Minted => DedupKey(r) = <<Canonical, r.nonce>>
                        /\ DedupKey(r)[1] = Canonical => DedupKey(r)[2] = r.nonce
<1>1. SUFFICES ASSUME NEW r \in Readings
               PROVE  /\ Number(r.ts) \in Int
                      /\ r.scheme \in Scheme
                      /\ DedupKey(r) \in Scheme \X Strings
                      /\ r.nonce \in Minted => DedupKey(r) = <<Canonical, r.nonce>>
                      /\ DedupKey(r)[1] = Canonical => DedupKey(r)[2] = r.nonce
  OBVIOUS
<1>2. /\ r.ts \in {<<i>> : i \in Ints} /\ r.body \in Strings
      /\ \/ r.scheme = Canonical /\ r.nonce \in Strings
         \/ r.scheme = LegacyNoNonce /\ r.nonce \notin Minted
  BY EmptyShape DEF Readings
<1>3. Number(r.ts) \in Int
  BY <1>2 DEF Number, Ints
<1> QED
  BY <1>2, <1>3 DEF DedupKey, Scheme, Canonical, LegacyNoNonce

\* What is signed stays signed.
LEMMA BackedStays ==
    ASSUME issued \subseteq issued'
    PROVE  SignedTexts \subseteq SignedTexts' /\ \A r : Backed(r) => Backed(r)'
BY DEF SignedTexts, Backed

LEMMA InitInv == Init => IInv
<1> SUFFICES ASSUME Init PROVE IInv
  OBVIOUS
<1>1. TypeOK
  BY WindowAssumption DEF Init, TypeOK, Scheme, also_accept, new_accepted
<1>2. WorkerInv /\ HandledInv
  BY DEF Init, WorkerInv, HandledInv
<1>3. RolloutInv /\ MintInv
  BY DEF Init, RolloutInv, also_accept, new_accepted, MintInv
<1> QED
  BY <1>1, <1>2, <1>3 DEF IInv

\* Signing adds a delivery; it cannot be a legacy one once the drain is over, and a
\* minted nonce is new.
LEMMA IssueStep ==
    ASSUME IInv, NEW d \in Deliveries, Issue(d),
           d.scheme = LegacyNoNonce => \E s \in Senders : emits[s] = LegacyNoNonce,
           d.nonce \in Minted => \A e \in issued : e.nonce # d.nonce
    PROVE  IInv'
<1> USE DEF IInv, Issue
<1>0. issued \subseteq issued'
  OBVIOUS
<1>1. TypeOK'
  BY DEF TypeOK
<1>2. WorkerInv'
  BY <1>0, BackedStays DEF WorkerInv
<1>3. HandledInv'
  BY <1>0, BackedStays DEF HandledInv
<1>4. RolloutInv'
  <2>1. Drained => Drained'
    BY DEF Drained, Canonical, LegacyNoNonce
  <2> QED
    BY <2>1 DEF RolloutInv
<1>5. MintInv'
  BY DEF MintInv
<1> QED
  BY <1>1, <1>2, <1>3, <1>4, <1>5

\* An instance holds what verify said Ok to, so a reading of a signed string.
LEMMA ReceiveStep ==
    ASSUME IInv, NEW w \in Workers, NEW p \in Copies, Receive(w, p)
    PROVE  /\ IInv'
           /\ NoWrap /\ HeldFresh => HeldFresh'
<1> USE DEF IInv, Receive
<1> DEFINE r == Verified(p)
<1>1. issued \subseteq Deliveries /\ now \in 0 .. MaxTime
  BY DEF TypeOK
<1>2. /\ r \in Readings /\ Inbox!Text(r) \in SignedTexts
      /\ NoWrap => FreshAt(r.ts, now)
  BY <1>1, OkVerdict DEF Verified
<1>3. r.nonce \in Minted => r \in issued
  <2>1. PICK d \in issued : Inbox!Text(r) = SignedText(d)
    BY <1>2 DEF SignedTexts
  <2> HIDE DEF r
  <2> QED
    BY <1>1, <1>2, <2>1, MintedBinds
<1>4. /\ worker' = [worker EXCEPT ![w] = [phase |-> "verified", d |-> r, at |-> now]]
      /\ worker'[w].d = r /\ worker'[w].at = now
  BY DEF Holding, TypeOK
<1> HIDE DEF r
<1>5. TypeOK'
  BY <1>1, <1>2, <1>4, WindowAssumption DEF TypeOK
<1>6. \A x : Backed(x) => Backed(x)'
  BY BackedStays
<1>7. WorkerInv'
  <2>1. Backed(r)
    BY <1>2, <1>3 DEF Backed
  <2>2. now \in Nat /\ Stall \in Nat
    BY <1>1, WindowAssumption
  <2>3. SUFFICES ASSUME NEW v \in Workers, worker'[v] # Idle
                 PROVE  /\ Backed(worker[v].d)'
                        /\ worker'[v].at <= now
                        /\ now <= worker'[v].at + Stall
    BY DEF WorkerInv
  <2>4. CASE v = w
    <3>1. worker'[v].d = r /\ worker'[v].at = now
      BY <1>4, <2>4
    <3>2. Backed(worker[v].d)'
      BY <2>1, <3>1 DEF Backed, SignedTexts
    <3> QED
      BY <2>2, <3>1, <3>2
  <2>5. CASE v # w
    <3>1. worker'[v] = worker[v] /\ worker[v] # Idle
      BY <1>4, <2>3, <2>5 DEF TypeOK
    <3>2. Backed(worker[v].d)'
      BY <3>1 DEF WorkerInv, Backed, SignedTexts
    <3> QED
      BY <3>1, <3>2 DEF WorkerInv
  <2> QED
    BY <2>4, <2>5
<1>8. HandledInv'
  BY <1>6 DEF HandledInv
<1>9. RolloutInv' /\ MintInv'
  BY DEF RolloutInv, Drained, MintInv
<1>10. ASSUME NoWrap, HeldFresh PROVE HeldFresh'
  BY <1>2, <1>4, <1>10 DEF HeldFresh, TypeOK
<1> QED
  BY <1>5, <1>7, <1>8, <1>9, <1>10

\* What a Record step does: the key is there and nothing changes, or the key and
\* the reading are recorded together.
LEMMA RecordShape ==
    ASSUME IInv, NEW w \in Workers, Record(w)
    PROVE  LET r == worker[w].d
               k == DedupKey(r)
           IN  /\ Backed(r) /\ r \in Readings /\ Number(r.ts) \in Int
               /\ k \in Scheme \X Strings
               /\ worker[w] # Idle /\ worker[w].at \in Nat /\ now \in Nat
               /\ worker[w].at <= now /\ now <= worker[w].at + Stall
               /\ worker' = [worker EXCEPT ![w] = Idle]
               /\ UNCHANGED <<now, emits, issued, accepted>>
               /\ \/ Known(k) /\ UNCHANGED <<seen, handled>>
                  \/ /\ ~Known(k)
                     /\ seen' = seen \cup {[key |-> k, at |-> now]}
                     /\ handled' = Append(handled, r)
                     /\ Len(handled') = Len(handled) + 1
                     /\ \A i \in 1 .. Len(handled) : handled'[i] = handled[i]
                     /\ handled'[Len(handled) + 1] = r
<1> DEFINE r == worker[w].d
           k == DedupKey(r)
<1>1. /\ Backed(r) /\ r \in Readings
      /\ worker[w] # Idle /\ worker[w].at \in Nat /\ now \in Nat
      /\ worker[w].at <= now /\ now <= worker[w].at + Stall
  BY WindowAssumption DEF Record, IInv, WorkerInv, TypeOK, Idle
<1>2. Number(r.ts) \in Int /\ k \in Scheme \X Strings
  BY <1>1, ReadingShape
<1>3. handled \in Seq(Readings)
  BY DEF IInv, TypeOK
<1> HIDE DEF r
<1>4. /\ Len(Append(handled, r)) = Len(handled) + 1
      /\ \A i \in 1 .. Len(handled) : Append(handled, r)[i] = handled[i]
      /\ Append(handled, r)[Len(handled) + 1] = r
  BY <1>1, <1>3, AppendProperties
<1> HIDE DEF k
<1> QED
  BY <1>1, <1>2, <1>4 DEF Record, r, k

LEMMA RecordStep ==
    ASSUME IInv, NEW w \in Workers, Record(w)
    PROVE  IInv'
<1> USE DEF IInv
<1> DEFINE r == worker[w].d
           k == DedupKey(r)
<1>1. /\ Backed(r) /\ r \in Readings /\ k \in Scheme \X Strings /\ now \in Nat
      /\ worker' = [worker EXCEPT ![w] = Idle]
      /\ UNCHANGED <<now, emits, issued, accepted>>
  BY RecordShape
<1>2. \A x : Backed(x) => Backed(x)'
  BY <1>1, BackedStays
<1>3. WorkerInv' /\ RolloutInv'
  BY <1>1, <1>2 DEF WorkerInv, RolloutInv, Drained, TypeOK, Idle
<1>4. CASE Known(k)
  <2>1. UNCHANGED <<seen, handled>>
    BY <1>4, RecordShape
  <2> QED
    BY <1>1, <1>2, <1>3, <2>1 DEF TypeOK, HandledInv, MintInv
<1>5. CASE ~Known(k)
  <2>1. /\ seen' = seen \cup {[key |-> k, at |-> now]} /\ handled' = Append(handled, r)
        /\ Len(handled') = Len(handled) + 1
        /\ \A i \in 1 .. Len(handled) : handled'[i] = handled[i]
        /\ handled'[Len(handled) + 1] = r
    BY <1>5, RecordShape
  <2>2. handled \in Seq(Readings) /\ Len(handled) \in Nat
    BY LenProperties DEF TypeOK
  <2> HIDE DEF k, r
  <2>3. TypeOK'
    <3>1. handled' \in Seq(Readings)
      BY <1>1, <2>1, <2>2, AppendProperties
    <3> QED
      BY <1>1, <2>1, <3>1 DEF TypeOK
  <2>4. HandledInv'
    <3>1. SUFFICES ASSUME NEW i \in 1 .. Len(handled) + 1
                   PROVE  Backed(handled[i])'
      BY <2>1 DEF HandledInv
    <3>2. i = Len(handled) + 1 \/ i \in 1 .. Len(handled)
      BY <2>2
    <3>3. Backed(handled'[i])
      BY <1>1, <2>1, <3>2 DEF HandledInv
    <3> QED
      BY <1>1, <3>3 DEF Backed, SignedTexts
  <2>5. MintInv'
    <3>1. SUFFICES ASSUME NEW x \in seen', x.key[1] = Canonical, x.key[2] \in Minted
                   PROVE  \E i \in 1 .. Len(handled') : handled'[i].nonce = x.key[2]
      BY <1>1 DEF MintInv
    <3>2. CASE x = [key |-> k, at |-> now]
      <4>1. r.nonce = x.key[2]
        BY <1>1, <3>1, <3>2, ReadingShape DEF k
      <4>2. Len(handled) + 1 \in 1 .. Len(handled')
        BY <2>1, <2>2
      <4> QED
        BY <2>1, <4>1, <4>2
    <3>3. CASE x \in seen
      <4>1. PICK i \in 1 .. Len(handled) : handled[i].nonce = x.key[2]
        BY <3>1, <3>3 DEF MintInv
      <4>2. i \in 1 .. Len(handled') /\ handled'[i] = handled[i]
        BY <2>1, <2>2
      <4> QED
        BY <4>1, <4>2
    <3> QED
      BY <2>1, <3>1, <3>2, <3>3
  <2> QED
    BY <1>3, <2>3, <2>4, <2>5
<1> QED
  BY <1>4, <1>5

\* The step the windows are for.  If the key is not recorded and r was handled
\* before, then r has expired; but an instance that holds it is younger.
LEMMA RecordsNew ==
    ASSUME IInv, WindowInv, NEW w \in Workers, Record(w),
           ~Known(DedupKey(worker[w].d))
    PROVE  \A i \in 1 .. Len(handled) : handled[i] # worker[w].d
<1> DEFINE r == worker[w].d
<1>1. SUFFICES ASSUME NEW i \in 1 .. Len(handled), handled[i] = r PROVE FALSE
  OBVIOUS
<1>2. Expired(r)
  BY <1>1 DEF WindowInv, HandledGone, Remembered, Known
<1>3. /\ FreshAt(r.ts, worker[w].at) /\ worker[w].at \in Nat /\ now \in Nat
      /\ Number(r.ts) \in Int
      /\ now <= worker[w].at + Stall /\ Freshness \in Nat /\ Stall \in Nat
  BY RecordShape, WindowAssumption DEF WindowInv, HeldFresh
<1> QED
  BY <1>2, <1>3 DEF Expired, FreshAt

LEMMA RecordWindow ==
    ASSUME IInv, WindowInv, NEW w \in Workers, Record(w)
    PROVE  WindowInv'
<1> DEFINE r == worker[w].d
           k == DedupKey(r)
<1>1. /\ r \in Readings /\ now \in Nat /\ Number(r.ts) \in Int
      /\ worker' = [worker EXCEPT ![w] = Idle] /\ UNCHANGED now
      /\ FreshAt(r.ts, worker[w].at) /\ worker[w].at \in Nat /\ worker[w].at <= now
  BY RecordShape DEF WindowInv, HeldFresh
<1>2. HeldFresh'
  BY <1>1 DEF HeldFresh, WindowInv, IInv, TypeOK
<1>3. CASE Known(k)
  <2>1. UNCHANGED <<seen, handled>>
    BY <1>3, RecordShape
  <2> QED
    BY <1>1, <1>2, <2>1
       DEF WindowInv, HandledGone, NoReplay, Remembered, Expired
<1>4. CASE ~Known(k)
  <2>1. /\ seen' = seen \cup {[key |-> k, at |-> now]}
        /\ Len(handled') = Len(handled) + 1
        /\ \A i \in 1 .. Len(handled) : handled'[i] = handled[i]
        /\ handled'[Len(handled) + 1] = r
    BY <1>4, RecordShape
  <2>2. /\ handled \in Seq(Readings) /\ Len(handled) \in Nat /\ Freshness \in Nat
    BY WindowAssumption, LenProperties DEF IInv, TypeOK
  <2>3. \A i \in 1 .. Len(handled) : handled[i] # r
    BY <1>4, RecordsNew
  <2> HIDE DEF k, r
  <2>4. NoReplay'
    BY <2>1, <2>2, <2>3 DEF NoReplay, WindowInv
  <2>5. HandledGone'
    <3>1. SUFFICES ASSUME NEW i \in 1 .. Len(handled) + 1
                   PROVE  Remembered(handled[i])' \/ Expired(handled[i])'
      BY <2>1 DEF HandledGone
    <3>2. CASE i = Len(handled) + 1
      <4>1. [key |-> k, at |-> now] \in seen' /\ Number(r.ts) - Freshness <= now
        BY <1>1, <2>1, <2>2 DEF FreshAt
      <4>2. \E x \in seen' : x.key = DedupKey(r) /\ Number(r.ts) - Freshness <= x.at
        BY <4>1 DEF k
      <4> QED
        BY <2>1, <3>2, <4>2 DEF Remembered
    <3>3. CASE i \in 1 .. Len(handled)
      <4>1. /\ handled'[i] = handled[i]
            /\ Remembered(handled[i]) \/ Expired(handled[i])
        BY <2>1, <3>3 DEF WindowInv, HandledGone
      <4>2. CASE Expired(handled[i])
        BY <1>1, <4>1, <4>2 DEF Expired
      <4>3. CASE Remembered(handled[i])
        BY <2>1, <4>1, <4>3 DEF Remembered
      <4> QED
        BY <4>1, <4>2, <4>3
    <3> QED
      BY <2>2, <3>1, <3>2, <3>3
  <2> QED
    BY <1>2, <2>4, <2>5 DEF WindowInv
<1> QED
  BY <1>3, <1>4

\* Forgetting a key disturbs nothing but the memory of what it stood for.
LEMMA PurgeStep ==
    ASSUME IInv, NEW x \in seen, Purge(x)
    PROVE  IInv'
<1> USE DEF IInv, Purge
<1>1. \A r : Backed(r) => Backed(r)'
  BY BackedStays
<1>2. TypeOK' /\ RolloutInv' /\ MintInv'
  BY DEF TypeOK, RolloutInv, Drained, MintInv
<1>3. WorkerInv' /\ HandledInv'
  BY <1>1 DEF WorkerInv, HandledInv
<1> QED
  BY <1>2, <1>3

\* A key is forgotten only when what it stood for has expired: this is where
\* Retention >= 2 * Freshness + Stall is needed.
LEMMA PurgeWindow ==
    ASSUME IInv, WindowInv, NEW x \in seen, Purge(x)
    PROVE  WindowInv'
<1> USE DEF WindowInv, Purge
<1>1. HeldFresh' /\ NoReplay'
  BY DEF HeldFresh, NoReplay
<1>2. HandledGone'
  <2>1. SUFFICES ASSUME NEW i \in 1 .. Len(handled)
                 PROVE  Remembered(handled[i])' \/ Expired(handled[i])'
    BY DEF HandledGone
  <2>2. handled[i] \in Readings
    BY <2>1, ElementOfSeq DEF IInv, TypeOK
  <2>3. /\ Number(handled[i].ts) \in Int
        /\ Remembered(handled[i]) \/ Expired(handled[i])
        /\ now \in Nat /\ x.at \in Nat
        /\ Freshness \in Nat /\ Stall \in Nat /\ Retention \in Nat
        /\ Retention >= 2 * Freshness + Stall
    BY <2>1, <2>2, ReadingShape, WindowAssumption DEF IInv, HandledGone, TypeOK
  <2>4. CASE Expired(handled[i])
    BY <2>4 DEF Expired
  <2>5. CASE Remembered(handled[i])
    <3>1. PICK y \in seen : /\ y.key = DedupKey(handled[i])
                            /\ Number(handled[i].ts) - Freshness <= y.at
      BY <2>5 DEF Remembered
    <3>2. CASE y = x
      BY <2>3, <3>1, <3>2 DEF Expired
    <3>3. CASE y # x
      BY <3>1, <3>3 DEF Remembered
    <3> QED
      BY <3>2, <3>3
  <2> QED
    BY <2>3, <2>4, <2>5
<1> QED
  BY <1>1, <1>2

\* The clock passes no instance by more than Stall.
LEMMA TickStep ==
    ASSUME IInv, Tick
    PROVE  IInv'
<1> USE DEF IInv, Tick
<1>0. now \in Nat /\ Stall \in Nat /\ Freshness \in Nat
  BY WindowAssumption DEF TypeOK
<1>1. TypeOK'
  BY WindowAssumption DEF TypeOK
<1>2. \A r : Backed(r) => Backed(r)'
  BY BackedStays
<1>3. WorkerInv'
  <2>1. SUFFICES ASSUME NEW w \in Workers, worker[w] # Idle
                 PROVE  /\ Backed(worker[w].d)'
                        /\ worker[w].at <= now + 1 /\ now + 1 <= worker[w].at + Stall
    BY DEF WorkerInv
  <2>2. worker[w].at \in Nat /\ worker[w].at <= now /\ now < worker[w].at + Stall
    BY <2>1 DEF WorkerInv, TypeOK
  <2>3. Backed(worker[w].d)'
    BY <1>2, <2>1 DEF WorkerInv
  <2> QED
    BY <1>0, <2>2, <2>3
<1>4. HandledInv' /\ MintInv'
  BY <1>2 DEF HandledInv, MintInv
<1>5. RolloutInv'
  <2>1. Drained => Drained'
    <3>1. \A d \in issued : Parses(d.ts) => Number(d.ts) \in Int
      BY DEF Parses, Number
    <3> QED
      BY <1>0, <3>1 DEF Drained
  <2> QED
    BY <2>1 DEF RolloutInv
<1> QED
  BY <1>1, <1>3, <1>4, <1>5

\* What has expired stays expired.
LEMMA TickWindow ==
    ASSUME IInv, WindowInv, Tick
    PROVE  WindowInv'
<1> USE DEF WindowInv, Tick
<1>0. now \in Nat /\ Stall \in Nat /\ Freshness \in Nat
  BY WindowAssumption DEF IInv, TypeOK
<1>1. HeldFresh' /\ NoReplay'
  BY DEF HeldFresh, NoReplay
<1>2. HandledGone'
  <2>1. SUFFICES ASSUME NEW i \in 1 .. Len(handled)
                 PROVE  Remembered(handled[i])' \/ Expired(handled[i])'
    BY DEF HandledGone
  <2>2. handled[i] \in Readings
    BY <2>1, ElementOfSeq DEF IInv, TypeOK
  <2>3. Number(handled[i].ts) \in Int
    BY <2>2, ReadingShape
  <2>4. Expired(handled[i]) => Expired(handled[i])'
    BY <1>0, <2>3 DEF Expired
  <2>5. Remembered(handled[i]) => Remembered(handled[i])'
    BY DEF Remembered
  <2> QED
    BY <2>1, <2>4, <2>5 DEF HandledGone
<1> QED
  BY <1>1, <1>2

\* A crash loses what an instance held, and nothing else.
LEMMA CrashStep ==
    ASSUME IInv, NEW w \in Workers, Crash(w)
    PROVE  IInv'
<1> USE DEF IInv, Crash
<1>1. TypeOK' /\ WorkerInv'
  BY DEF TypeOK, WorkerInv, Backed, SignedTexts
<1>2. HandledInv' /\ RolloutInv' /\ MintInv'
  BY DEF HandledInv, RolloutInv, Drained, MintInv, Backed, SignedTexts
<1> QED
  BY <1>1, <1>2

\* The rollout: the legacy scheme is dropped only when it is drained.
LEMMA RolloutStep ==
    ASSUME IInv, (\E s \in Senders : FlipSender(s)) \/ (\E w \in Workers : DropLegacy(w))
    PROVE  IInv'
<1> USE DEF IInv
<1>1. CASE \E s \in Senders : FlipSender(s)
  <2>1. PICK s \in Senders : FlipSender(s)
    BY <1>1
  <2>2. Drained => Drained'
    BY <2>1 DEF FlipSender, Drained, TypeOK
  <2>3. TypeOK' /\ WorkerInv' /\ MintInv'
    BY <2>1 DEF FlipSender, TypeOK, WorkerInv, MintInv, Scheme, Backed, SignedTexts
  <2>4. HandledInv' /\ RolloutInv'
    BY <2>1, <2>2 DEF FlipSender, HandledInv, RolloutInv, Backed, SignedTexts
  <2> QED
    BY <2>3, <2>4
<1>2. CASE \E w \in Workers : DropLegacy(w)
  <2>1. PICK w \in Workers : DropLegacy(w)
    BY <1>2
  <2>2. TypeOK' /\ WorkerInv' /\ MintInv'
    BY <2>1
       DEF DropLegacy, TypeOK, WorkerInv, MintInv, new_accepted, Scheme, Backed, SignedTexts
  <2>3. Drained /\ Drained'
    BY <2>1 DEF DropLegacy, Drained
  <2>4. HandledInv' /\ RolloutInv'
    BY <2>1, <2>3
       DEF DropLegacy, HandledInv, RolloutInv, TypeOK, new_accepted, Backed, SignedTexts
  <2> QED
    BY <2>2, <2>4
<1> QED
  BY <1>1, <1>2

\* The steps of the senders that sign, as issues of a delivery.
LEMMA SigningIsIssuing ==
    ASSUME NEW s \in Senders, NEW ts \in Stamps, NEW b \in Bodies,
           \/ \E u \in Uuids : sign(s, ts, u, b)
           \/ \E n \in CallerNonces : sign_with(s, ts, n, b)
           \/ SignLegacy(s, ts, b)
    PROVE  \E d \in Deliveries :
             /\ Issue(d)
             /\ d.scheme = LegacyNoNonce => \E x \in Senders : emits[x] = LegacyNoNonce
             /\ d.nonce \in Minted => \A e \in issued : e.nonce # d.nonce
<1>1. CASE \E u \in Uuids : sign(s, ts, u, b)
  <2>1. PICK u \in Uuids : sign(s, ts, u, b)
    BY <1>1
  <2> DEFINE d == [scheme |-> Canonical, ts |-> ts, nonce |-> <<u>>, body |-> b]
  <2>2. Issue(d) /\ d.scheme # LegacyNoNonce /\ \A e \in issued : e.nonce # d.nonce
    BY <2>1 DEF sign, sign_with, Canonical, LegacyNoNonce
  <2>3. d \in Deliveries
    BY DEF Deliveries, Nonces, Minted
  <2> QED
    BY <2>2, <2>3
<1>2. CASE \E n \in CallerNonces : sign_with(s, ts, n, b)
  <2>1. PICK n \in CallerNonces : sign_with(s, ts, n, b)
    BY <1>2
  <2> DEFINE d == [scheme |-> Canonical, ts |-> ts, nonce |-> n, body |-> b]
  <2>2. Issue(d) /\ d.scheme # LegacyNoNonce
    BY <2>1 DEF sign_with, Canonical, LegacyNoNonce
  <2>3. d.nonce \notin Minted
    <3>1. n \in Strings /\ \A i \in 1 .. Len(n) : n[i] \notin Uuids
      BY StringsAssumption, UuidsAssumption
    <3>2. \A u \in Uuids : n # <<u>>
      <4>1. SUFFICES ASSUME NEW u \in Uuids, n = <<u>> PROVE FALSE
        OBVIOUS
      <4>2. Len(n) = 1 /\ n[1] = u
        BY <4>1
      <4> QED
        BY <3>1, <4>2
    <3> QED
      BY <3>2 DEF Minted
  <2>4. d \in Deliveries
    BY DEF Deliveries, Nonces
  <2> QED
    BY <2>2, <2>3, <2>4
<1>3. CASE SignLegacy(s, ts, b)
  <2> DEFINE d == [scheme |-> LegacyNoNonce, ts |-> ts, nonce |-> Absent, body |-> b]
  <2>1. Issue(d) /\ emits[s] = LegacyNoNonce
    BY <1>3 DEF SignLegacy
  <2>2. d.nonce \notin Minted
    BY StringsAssumption, UuidsAssumption, PieceShape DEF Minted
  <2>3. d \in Deliveries
    BY DEF Deliveries
  <2> QED
    BY <2>1, <2>2, <2>3
<1> QED
  BY <1>1, <1>2, <1>3

LEMMA NextInv ==
    ASSUME IInv, [Next]_vars
    PROVE  IInv'
<1>1. CASE \E s \in Senders, ts \in Stamps, b \in Bodies :
             \/ \E u \in Uuids : sign(s, ts, u, b)
             \/ \E n \in CallerNonces : sign_with(s, ts, n, b)
             \/ SignLegacy(s, ts, b)
  <2>1. PICK d \in Deliveries :
               /\ Issue(d)
               /\ d.scheme = LegacyNoNonce => \E x \in Senders : emits[x] = LegacyNoNonce
               /\ d.nonce \in Minted => \A e \in issued : e.nonce # d.nonce
    BY <1>1, SigningIsIssuing
  <2> QED
    BY <2>1, IssueStep
<1>2. CASE \E w \in Workers, p \in Copies : Receive(w, p)
  BY <1>2, ReceiveStep
<1>3. CASE \E w \in Workers : Record(w)
  BY <1>3, RecordStep
<1>4. CASE \E w \in Workers : Crash(w)
  BY <1>4, CrashStep
<1>5. CASE \E x \in seen : Purge(x)
  BY <1>5, PurgeStep
<1>6. CASE (\E s \in Senders : FlipSender(s)) \/ (\E w \in Workers : DropLegacy(w))
  BY <1>6, RolloutStep
<1>7. CASE Tick
  BY <1>7, TickStep
<1>8. CASE UNCHANGED vars
  <2>1. TypeOK' /\ RolloutInv' /\ MintInv'
    BY <1>8 DEF vars, IInv, TypeOK, RolloutInv, Drained, MintInv
  <2>2. WorkerInv' /\ HandledInv'
    BY <1>8 DEF vars, IInv, WorkerInv, HandledInv, Backed, SignedTexts
  <2> QED
    BY <2>1, <2>2 DEF IInv
<1> QED
  BY <1>1, <1>2, <1>3, <1>4, <1>5, <1>6, <1>7, <1>8 DEF Next

\* The steps that leave the clock, the memory and the handled deliveries alone,
\* and put nothing into an instance's hands.
LEMMA OtherWindow ==
    ASSUME WindowInv, UNCHANGED <<now, seen, handled>>,
           \A w \in Workers : worker'[w] \in {Idle, worker[w]}
    PROVE  WindowInv'
BY DEF WindowInv, HeldFresh, HandledGone, Remembered, Expired, NoReplay

LEMMA NextWindow ==
    ASSUME NoWrap, IInv, WindowInv, [Next]_vars
    PROVE  WindowInv'
<1>1. CASE \E w \in Workers, p \in Copies : Receive(w, p)
  <2>1. PICK w \in Workers, p \in Copies : Receive(w, p)
    BY <1>1
  <2>2. HeldFresh'
    BY <2>1, ReceiveStep DEF WindowInv
  <2>3. HandledGone' /\ NoReplay'
    BY <2>1 DEF Receive, WindowInv, HandledGone, Remembered, Expired, NoReplay
  <2> QED
    BY <2>2, <2>3 DEF WindowInv
<1>2. CASE \E w \in Workers : Record(w)
  BY <1>2, RecordWindow
<1>3. CASE \E w \in Workers : Crash(w)
  <2>1. worker \in [Workers -> {Idle} \cup [phase : {"verified"}, d : Readings, at : Nat]]
    BY DEF IInv, TypeOK
  <2> QED
    BY <1>3, <2>1, OtherWindow DEF Crash
<1>4. CASE \E x \in seen : Purge(x)
  BY <1>4, PurgeWindow
<1>5. CASE Tick
  BY <1>5, TickWindow
<1>6. CASE UNCHANGED <<now, worker, seen, handled>>
  BY <1>6, OtherWindow
<1>7. \/ UNCHANGED <<now, worker, seen, handled>>
      \/ \E w \in Workers, p \in Copies : Receive(w, p)
      \/ \E w \in Workers : Record(w) \/ Crash(w)
      \/ \E x \in seen : Purge(x)
      \/ Tick
  BY DEF Next, vars, sign, sign_with, SignLegacy, Issue, DropLegacy, FlipSender
<1> QED
  BY <1>1, <1>2, <1>3, <1>4, <1>5, <1>6, <1>7

-------------------------------------------------------------------------------
\* The theorems.

\* The invariant holds in every reachable state.
THEOREM Invariance == Spec => []IInv
<1>1. Init => IInv
  BY InitInv
<1>2. IInv /\ [Next]_vars => IInv'
  BY NextInv
<1> QED
  BY <1>1, <1>2, PTL DEF Spec

\* Where no subtraction overflows, what an instance holds was fresh when it was
\* verified, and what was handled is remembered as long as it may come again.
THEOREM Windows == ASSUME NoWrap PROVE Spec => []WindowInv
<1>1. Init => WindowInv
  BY DEF Init, WindowInv, HeldFresh, HandledGone, NoReplay
<1>2. IInv /\ WindowInv /\ [Next]_vars => WindowInv'
  BY NextWindow
<1> QED
  BY <1>1, <1>2, Invariance, PTL DEF Spec

\* Every variable keeps its type: no step of the senders, the consumer or the
\* rollout leaves the states Webhook describes; a blank nonce header is never returned.
THEOREM TypeCorrect == Spec => []TypeOK
<1>1. IInv => TypeOK
  BY DEF IInv
<1> QED
  BY <1>1, Invariance, PTL

\* verify's window and the dedup of its nonce exclude a second handling of what verify
\* returned, given a retention of twice the window plus the stall.
THEOREM ReplayExcluded == ASSUME NoWrap PROVE Spec => []NoReplay
<1>1. WindowInv => NoReplay
  BY DEF WindowInv
<1> QED
  BY <1>1, Windows, PTL

\* The dedup turns away no delivery with a minted nonce that was not acted on already.
THEOREM NothingLostToDedup == Spec => []OnlyRepeatsDropped
<1>1. ASSUME IInv PROVE OnlyRepeatsDropped
  <2>1. SUFFICES ASSUME NEW w \in Workers, worker[w] # Idle,
                        worker[w].d.nonce \in Minted,
                        Known(DedupKey(worker[w].d))
                 PROVE  \E i \in 1 .. Len(handled) : handled[i] = worker[w].d
    BY DEF OnlyRepeatsDropped
  <2> DEFINE r == worker[w].d
  <2>2. r \in Readings /\ r \in issued
    BY <1>1, <2>1 DEF IInv, TypeOK, WorkerInv, Backed, Idle
  <2>3. DedupKey(r) = <<Canonical, r.nonce>>
    BY <2>1, <2>2, ReadingShape
  <2>4. PICK i \in 1 .. Len(handled) : handled[i].nonce = r.nonce
    BY <1>1, <2>1, <2>3 DEF IInv, MintInv, Known
  <2>5. handled[i] \in issued
    BY <1>1, <2>1, <2>4 DEF IInv, HandledInv, Backed
  <2> QED
    BY <1>1, <2>1, <2>2, <2>4, <2>5 DEF IInv, MintInv
<1> QED
  BY <1>1, Invariance, PTL

\* Whatever an instance accepts, at any point of the rollout, was signed as a string,
\* and field by field when its nonce is one that sign minted.
THEOREM Authenticity == Spec => []OkIsAuthentic
<1>1. ASSUME IInv PROVE OkIsAuthentic
  <2>1. SUFFICES ASSUME NEW schemes \in Deployed, NEW p \in Copies,
                        Verify(schemes, p, now) = "Ok"
                 PROVE  /\ VerifierString(p) \in SignedTexts
                        /\ NonceOf(p) \in Minted => Verified(p) \in issued
    BY DEF OkIsAuthentic
  <2>2. issued \subseteq Deliveries /\ now \in 0 .. MaxTime
    BY <1>1 DEF IInv, TypeOK
  <2>3. /\ VerifierString(p) \in SignedTexts /\ Verified(p) \in Readings
        /\ Inbox!Text(Verified(p)) = VerifierString(p)
    BY <2>1, <2>2, OkVerdict
  <2>4. PICK d \in issued : Inbox!Text(Verified(p)) = SignedText(d)
    BY <2>3 DEF SignedTexts
  <2>5. NonceOf(p) = Verified(p).nonce
    BY DEF Verified
  <2> QED
    BY <2>2, <2>3, <2>4, <2>5, MintedBinds
<1> QED
  BY <1>1, Invariance, PTL

\* An Ok with a nonce stands for one signed delivery, field by field.
CanonicalOkBinds ==
    \A schemes \in Deployed, p \in Copies :
        Verify(schemes, p, now) = "Ok" /\ SchemeOf(p) = Canonical
            => Verified(p) \in issued

\* What the promise of the docs needs: where no body and no nonce that is signed has a
\* dot, a string has but one reading with a nonce, so whatever verify accepts under the
\* canonical scheme was signed under it, with this timestamp, this nonce and this body.
THEOREM DotlessBinds == ASSUME Dotless PROVE Spec => []CanonicalOkBinds
<1>1. ASSUME IInv PROVE CanonicalOkBinds
  <2>1. SUFFICES ASSUME NEW schemes \in Deployed, NEW p \in Copies,
                        Verify(schemes, p, now) = "Ok", SchemeOf(p) = Canonical
                 PROVE  Verified(p) \in issued
    BY DEF CanonicalOkBinds
  <2> DEFINE r == Verified(p)
  <2>2. issued \subseteq Deliveries /\ now \in 0 .. MaxTime
    BY <1>1 DEF IInv, TypeOK
  <2>3. /\ VerifierString(p) \in SignedTexts /\ r \in Readings
        /\ Inbox!Text(r) = VerifierString(p) /\ r.scheme = Canonical
    BY <2>1, <2>2, OkVerdict DEF Verified
  <2>4. PICK d \in issued : Inbox!Text(r) = SignedText(d)
    BY <2>3 DEF SignedTexts
  <2>5. d \in Deliveries
    BY <2>2
  <2> HIDE DEF r
  <2>6. r = d
    BY <2>3, <2>4, <2>5, DotlessReading
  <2> QED
    BY <2>6 DEF r
<1> QED
  BY <1>1, Invariance, PTL

\* Whatever an instance accepts is within the window of its clock, both ways.
THEOREM FreshnessEnforced == ASSUME NoWrap PROVE Spec => []OkIsFresh
<1>1. ASSUME IInv PROVE OkIsFresh
  <2>1. SUFFICES ASSUME NEW schemes \in Deployed, NEW p \in Copies,
                        Verify(schemes, p, now) = "Ok"
                 PROVE  FreshAt(Trim(p.timestamp), now)
    BY DEF OkIsFresh
  <2>2. issued \subseteq Deliveries /\ now \in 0 .. MaxTime
    BY <1>1 DEF IInv, TypeOK
  <2> QED
    BY <2>1, <2>2, OkVerdict
<1> QED
  BY <1>1, Invariance, PTL

\* NoWrap is exactly what the window needs: the skew is the distance if and only if
\* the distance fits an i64.
THEOREM SkewExact ==
    \A ts \in Ints, t \in 0 .. MaxTime :
        Skew(t, ts) = (IF t < ts THEN ts - t ELSE t - ts) <=> t - ts < HalfRange
BY SkewValue

\* Without it verify accepts a delivery whose stamp is one whole range in the past,
\* whatever the window: its skew wraps to the smallest i64.
THEOREM WrapAdmitsStale ==
    ASSUME NEW d \in Deliveries, NEW t \in 0 .. MaxTime, Carried(d),
           Parses(d.ts), t - Number(d.ts) = HalfRange, Freshness < HalfRange,
           NEW schemes, d.scheme \in schemes
    PROVE  Verify(schemes, Presented(d), t) = "Ok" /\ ~FreshAt(d.ts, t)
<1>1. Number(d.ts) \in Ints
  BY DeliveryShape, IntShape
<1>2. ~(Skew(t, Number(d.ts)) > Freshness) /\ ~FreshAt(d.ts, t)
  BY <1>1, SkewValue DEF FreshAt
<1> QED
  BY <1>2, GenuineVerdict

\* No lockstep: during the whole rollout no instance refuses an unaltered
\* delivery that is fresh.
THEOREM NoLockstep == Spec => []FreshGenuineAccepted
<1>1. ASSUME IInv PROVE FreshGenuineAccepted
  <2>1. SUFFICES ASSUME NEW w \in Workers, NEW d \in issued,
                        FreshAt(d.ts, now), Carried(d)
                 PROVE  Verify(accepted[w], Presented(d), now) = "Ok"
    BY DEF FreshGenuineAccepted, Deployed
  <2>2. /\ d \in Deliveries /\ now \in 0 .. MaxTime /\ d.ts \in Strings
        /\ Canonical \in accepted[w]
        /\ LegacyNoNonce \notin accepted[w] => Drained
    BY <1>1, DeliveryShape DEF IInv, TypeOK, RolloutInv
  <2>3. Number(d.ts) \in Ints /\ Number(d.ts) \in Int /\ Parses(d.ts)
    BY <2>1, <2>2, IntShape DEF FreshAt, Ints
  <2>4. d.scheme \in accepted[w]
    <3>1. SUFFICES ASSUME d.scheme \notin accepted[w] PROVE FALSE
      OBVIOUS
    <3>2. d.scheme = LegacyNoNonce /\ Drained
      BY <2>2, <3>1 DEF Deliveries
    <3>3. now \in Nat /\ Freshness \in Nat
          /\ now <= Number(d.ts) + Freshness /\ now > Number(d.ts) + Freshness
      BY <2>1, <2>2, <2>3, <3>2, WindowAssumption DEF Drained, FreshAt
    <3> QED
      BY <2>3, <3>3
  <2> QED
    BY <2>1, <2>2, <2>3, <2>4, FreshPasses, GenuineVerdict
<1> QED
  BY <1>1, Invariance, PTL

\* A complaint about a timestamp's value is made only about a string that was signed.
THEOREM TimestampTrustedLate == Spec => []TimestampErrorsAreAuthentic
<1>1. ASSUME IInv PROVE TimestampErrorsAreAuthentic
  <2>1. issued \subseteq Deliveries
    BY <1>1 DEF IInv, TypeOK
  <2> QED
    BY <2>1, TimestampVerdict DEF TimestampErrorsAreAuthentic
<1> QED
  BY <1>1, Invariance, PTL

\* The consumer implements the inbox: every step is a step of it or a stutter.
THEOREM Refinement == ASSUME NoWrap PROVE Spec => ImplementsInbox
<1>1. Init => Inbox!Init
  BY DEF Init, Inbox!Init, SignedTexts
<1>2. ASSUME IInv, WindowInv, [Next]_vars
      PROVE  [Inbox!Next]_<<SignedTexts, handled>>
  <2> SUFFICES ASSUME ~UNCHANGED <<SignedTexts, handled>> PROVE Inbox!Next
    OBVIOUS
  <2>1. CASE \E d \in Deliveries : Issue(d)
    <3>1. issued \subseteq issued' /\ UNCHANGED handled
      BY <2>1 DEF Issue
    <3>2. SignedTexts \subseteq SignedTexts'
      BY <3>1, BackedStays
    <3> QED
      BY <3>1, <3>2 DEF Inbox!Next, Inbox!Sign
  <2>2. CASE \E w \in Workers : Record(w)
    <3>1. PICK w \in Workers : Record(w)
      BY <2>2
    <3> DEFINE r == worker[w].d
    <3>2. UNCHANGED issued /\ Backed(r)
      BY <1>2, <3>1, RecordShape
    <3>3. UNCHANGED SignedTexts
      BY <3>2 DEF SignedTexts
    <3>4. /\ ~Known(DedupKey(r)) /\ handled' = Append(handled, r)
          /\ Len(handled') = Len(handled) + 1
          /\ handled'[Len(handled) + 1] = r
      BY <1>2, <3>1, <3>3, RecordShape
    <3>5. \A i \in 1 .. Len(handled) : handled[i] # r
      BY <1>2, <3>1, <3>4, RecordsNew
    <3> HIDE DEF r
    <3>6. Inbox!Process(r)
      BY <3>2, <3>3, <3>4, <3>5 DEF Inbox!Process, Backed
    <3>7. \E i \in DOMAIN handled' : handled'[i] = r
      <4>1. handled \in Seq(Readings) /\ r \in Readings
        BY <1>2, <3>1, RecordShape DEF IInv, TypeOK, r
      <4>2. handled' \in Seq(Readings) /\ Len(handled) \in Nat
        BY <3>4, <4>1, AppendProperties, LenProperties
      <4>3. DOMAIN handled' = 1 .. Len(handled')
        BY <4>2, LenProperties
      <4>4. Len(handled) + 1 \in DOMAIN handled'
        BY <3>4, <4>2, <4>3
      <4> QED
        BY <3>4, <4>4
    <3> QED
      BY <3>6, <3>7 DEF Inbox!Next
  <2>3. (\E d \in Deliveries : Issue(d)) \/ (\E w \in Workers : Record(w))
    <3>1. ~UNCHANGED <<issued, handled>>
      BY DEF SignedTexts
    <3>2. ASSUME NEW s \in Senders, NEW ts \in Stamps, NEW b \in Bodies,
                 \/ \E u \in Uuids : sign(s, ts, u, b)
                 \/ \E n \in CallerNonces : sign_with(s, ts, n, b)
                 \/ SignLegacy(s, ts, b)
          PROVE  \E d \in Deliveries : Issue(d)
      BY <3>2, SigningIsIssuing
    <3> QED
      BY <1>2, <3>1, <3>2
         DEF Next, vars, Receive, Crash, DropLegacy, Purge, FlipSender, Tick
  <2> QED
    BY <2>1, <2>2, <2>3
<1> QED
  BY <1>1, <1>2, Invariance, Windows, PTL DEF Spec, ImplementsInbox, Inbox!Spec
===============================================================================
