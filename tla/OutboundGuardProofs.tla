-------------------------- MODULE OutboundGuardProofs --------------------------
(***************************************************************************)
(* Theorems about OutboundGuard, for all sets of jobs, names, addresses    *)
(* and URLs and any number of attempts.                                    *)
(***************************************************************************)
EXTENDS OutboundGuard, OutboundAddressProofs

\* The addresses an attempt may reach.
Resolved(j) == IF literal_host_ip(url[j]) THEN {url[j].host} ELSE answer[j]

\* A destination carries the whole answer of its attempt, checked; that of a
\* literal host carries none, and the URL's own check stands for it.
DestinationInv(j) ==
    /\ dest[j].host = url[j].host
    /\ dest[j].addrs = answer[j]
    /\ IF literal_host_ip(url[j]) THEN answer[j] = {} ELSE AnswerPasses(answer[j])

JobInv(j) ==
    /\ phase[j] = "new" => dest[j] = None /\ reached[j] = {} /\ answer[j] = {}
    /\ phase[j] # "new" => url[j] \in Urls /\ check_url(url[j])
    /\ phase[j] \in {"registered", "resolving"} =>
         dest[j] = None /\ reached[j] = {} /\ answer[j] = {}
    /\ phase[j] = "resolving" => ~literal_host_ip(url[j])
    /\ phase[j] \in {"ready", "sent"} => dest[j] # None
    /\ dest[j] # None => DestinationInv(j)
    /\ reached[j] # {} => dest[j] # None
    /\ url[j] # None => reached[j] \subseteq Resolved(j)

IInv == TypeOK /\ \A j \in Jobs : JobInv(j)

LEMMA InitInv == Init => IInv
BY AttemptsAssumption, UrlAssumption DEF Init, IInv, TypeOK, JobInv

\* A job's step leaves the other jobs alone.
OthersUnchanged(j) ==
    \A i \in Jobs \ {j} :
        /\ url'[i] = url[i] /\ phase'[i] = phase[i] /\ dest'[i] = dest[i]
        /\ answer'[i] = answer[i] /\ reached'[i] = reached[i]

LEMMA JobInvOfOthers ==
    ASSUME IInv, NEW j \in Jobs, OthersUnchanged(j), JobInv(j)'
    PROVE  \A i \in Jobs : JobInv(i)'
<1>1. SUFFICES ASSUME NEW i \in Jobs \ {j} PROVE JobInv(i)'
  OBVIOUS
<1>2. JobInv(i)
  BY DEF IInv
<1> QED
  BY <1>2 DEF OthersUnchanged, JobInv, DestinationInv, Resolved

\* What is sent to is what this attempt resolved and checked.
LEMMA TargetsResolved ==
    ASSUME NEW j \in Jobs, JobInv(j), dest[j] # None, phase[j] # "new"
    PROVE  Targets(client_builder(dest[j]), url[j]) \subseteq Resolved(j)
<1>1. DestinationInv(j)
  BY DEF JobInv
<1>2. CASE literal_host_ip(url[j])
  BY <1>2 DEF Targets, client_builder, Resolved
<1>3. CASE ~literal_host_ip(url[j])
  <2>1. dest[j].host = url[j].host /\ dest[j].addrs = answer[j] /\ answer[j] # {}
    BY <1>1, <1>3 DEF DestinationInv, AnswerPasses
  <2> QED
    BY <1>3, <2>1 DEF Targets, client_builder, Resolved
<1> QED
  BY <1>2, <1>3

LEMMA NextInv == ASSUME IInv, [Next]_vars PROVE IInv'
<1> USE DEF IInv
<1>1. ASSUME NEW j \in Jobs, NEW u \in Urls, Register(j, u) PROVE IInv'
  <2> USE <1>1 DEF Register
  <2>1. TypeOK'
    BY DEF TypeOK
  <2>2. JobInv(j)'
    BY UrlAssumption DEF JobInv, TypeOK, DestinationInv, Resolved
  <2> QED
    BY <2>1, <2>2, JobInvOfOthers DEF OthersUnchanged, TypeOK
<1>2. ASSUME NEW j \in Jobs, Resolve(j) PROVE IInv'
  <2> USE <1>2 DEF Resolve
  <2>1. url[j] \in Urls /\ url[j] \in UrlShape /\ check_url(url[j]) /\ JobInv(j)
    BY UrlAssumption DEF JobInv
  <2>2. CASE literal_host_ip(url[j])
    <3>1. /\ phase' = [phase EXCEPT ![j] = "ready"]
          /\ dest' = [dest EXCEPT ![j] = Destination(url[j].host, {})]
      BY <2>1, <2>2
    <3>2. Destination(url[j].host, {})
            \in [host : Domains \cup Addresses, addrs : SUBSET Addresses]
      BY <2>2 DEF Destination, literal_host_ip
    <3>3. TypeOK'
      BY <3>1, <3>2, AttemptsAssumption DEF TypeOK
    <3>4. JobInv(j)'
      BY <2>1, <2>2, <3>1, <3>2, NoneAssumption
         DEF JobInv, TypeOK, DestinationInv, Resolved, Destination
    <3> QED
      BY <3>1, <3>3, <3>4, JobInvOfOthers DEF OthersUnchanged, TypeOK
  <2>3. CASE ~literal_host_ip(url[j])
    <3>1. phase' = [phase EXCEPT ![j] = "resolving"] /\ UNCHANGED dest
      BY <2>1, <2>3
    <3>2. TypeOK'
      BY <3>1, AttemptsAssumption DEF TypeOK
    <3>3. JobInv(j)'
      BY <2>1, <2>3, <3>1 DEF JobInv, TypeOK, DestinationInv, Resolved
    <3> QED
      BY <3>1, <3>2, <3>3, JobInvOfOthers DEF OthersUnchanged, TypeOK
  <2> QED
    BY <2>2, <2>3
<1>3. ASSUME NEW j \in Jobs, NEW addrs \in SUBSET Addresses, Answer(j, addrs)
      PROVE  IInv'
  <2> USE <1>3 DEF Answer
  <2>1. JobInv(j) /\ url[j] \in Urls /\ url[j] \in UrlShape /\ check_url(url[j])
        /\ ~literal_host_ip(url[j]) /\ dest[j] = None /\ reached[j] = {}
    BY UrlAssumption DEF JobInv
  <2>2. CASE AnswerPasses(addrs)
    <3>1. /\ phase' = [phase EXCEPT ![j] = "ready"]
          /\ dest' = [dest EXCEPT ![j] = Destination(url[j].host, addrs)]
      BY <2>2
    <3>2. Destination(url[j].host, addrs)
            \in [host : Domains \cup Addresses, addrs : SUBSET Addresses]
      BY <2>1 DEF Destination, UrlShape, check_url
    <3>3. TypeOK'
      BY <3>1, <3>2 DEF TypeOK
    <3>4. JobInv(j)'
      BY <2>1, <2>2, <3>1, <3>2, NoneAssumption
         DEF JobInv, TypeOK, DestinationInv, Resolved, Destination
    <3> QED
      BY <3>1, <3>3, <3>4, JobInvOfOthers DEF OthersUnchanged, TypeOK
  <2>3. CASE ~AnswerPasses(addrs)
    <3>1. phase' = [phase EXCEPT ![j] = "failed"] /\ UNCHANGED dest
      BY <2>3
    <3>2. TypeOK'
      BY <3>1 DEF TypeOK
    <3>3. JobInv(j)'
      BY <2>1, <3>1 DEF JobInv, TypeOK, DestinationInv, Resolved
    <3> QED
      BY <3>1, <3>2, <3>3, JobInvOfOthers DEF OthersUnchanged, TypeOK
  <2> QED
    BY <2>2, <2>3
<1>4. ASSUME NEW j \in Jobs, LookupFails(j) \/ Delivered(j) \/ SendFails(j)
      PROVE  IInv'
  <2> USE <1>4 DEF LookupFails, Delivered, SendFails
  <2>1. TypeOK'
    BY DEF TypeOK
  <2>2. JobInv(j)'
    BY DEF JobInv, TypeOK, DestinationInv, Resolved
  <2> QED
    BY <2>1, <2>2, JobInvOfOthers DEF OthersUnchanged, TypeOK
<1>5. ASSUME NEW j \in Jobs, NEW a \in Addresses, Send(j, a) PROVE IInv'
  <2> USE <1>5 DEF Send
  <2>1. TypeOK'
    BY DEF TypeOK
  <2>2. JobInv(j) /\ a \in Resolved(j)
    BY TargetsResolved DEF JobInv
  <2>3. JobInv(j)'
    BY <2>2 DEF JobInv, TypeOK, DestinationInv, Resolved
  <2> QED
    BY <2>1, <2>3, JobInvOfOthers DEF OthersUnchanged, TypeOK
<1>6. ASSUME NEW j \in Jobs, NEW u \in Urls, NEW a \in Addresses, Redirected(j, u, a)
      PROVE  IInv'
  <2>1. /\ phase[j] = "sent" /\ phase' = [phase EXCEPT ![j] = "closed"]
        /\ UNCHANGED <<url, dest, answer, reached, attempts>>
    BY <1>6 DEF Redirected, client_builder
  <2>2. TypeOK'
    BY <2>1 DEF TypeOK
  <2>3. JobInv(j)'
    BY <2>1 DEF JobInv, TypeOK, DestinationInv, Resolved
  <2> QED
    BY <2>1, <2>2, <2>3, JobInvOfOthers DEF OthersUnchanged, TypeOK
<1>7. ASSUME NEW j \in Jobs, Retry(j) PROVE IInv'
  <2> USE <1>7 DEF Retry
  <2>1. TypeOK'
    BY DEF TypeOK
  <2>2. JobInv(j)'
    BY DEF JobInv, TypeOK, DestinationInv, Resolved
  <2> QED
    BY <2>1, <2>2, JobInvOfOthers DEF OthersUnchanged, TypeOK
<1>8. CASE UNCHANGED vars
  BY <1>8 DEF vars, TypeOK, JobInv, DestinationInv, Resolved
<1> QED
  BY <1>1, <1>2, <1>3, <1>4, <1>5, <1>6, <1>7, <1>8 DEF Next, Drive

-------------------------------------------------------------------------------
\* The theorems.

THEOREM Invariance == Spec => []IInv
<1>1. Init => IInv
  BY InitInv
<1>2. IInv /\ [Next]_vars => IInv'
  BY NextInv
<1> QED
  BY <1>1, <1>2, PTL DEF Spec

\* Every variable keeps its type.
THEOREM TypeCorrect == Spec => []TypeOK
<1>1. IInv => TypeOK
  BY DEF IInv
<1> QED
  BY <1>1, Invariance, PTL

\* A request goes only to addresses this attempt resolved.
THEOREM PinHolds == Spec => []ReachedWasResolved
<1>1. ASSUME IInv PROVE ReachedWasResolved
  BY <1>1, UrlAssumption DEF IInv, JobInv, ReachedWasResolved, Resolved
<1> QED
  BY <1>1, Invariance, PTL

\* A destination exists only if the whole answer was public.
THEOREM AnswersVetted == Spec => []NoMixedAnswer
<1>1. ASSUME IInv PROVE NoMixedAnswer
  <2>1. SUFFICES ASSUME NEW j \in Jobs, dest[j] # None, NEW a \in answer[j]
                 PROVE  ~Special(a)
    BY DEF NoMixedAnswer
  <2>2. ensure_public_ip(a)
    BY <1>1, <2>1 DEF IInv, JobInv, DestinationInv, AnswerPasses
  <2>3. a \in Ipv4Addr \cup Ipv6Addr
    BY <1>1, AddressAssumption DEF IInv, TypeOK
  <2> QED
    BY <2>2, <2>3, CheckSound
<1> QED
  BY <1>1, Invariance, PTL

\* No request goes to a special address.
THEOREM EgressPublic == Spec => []OnlyPublicReached
<1>1. ASSUME IInv PROVE OnlyPublicReached
  <2>1. SUFFICES ASSUME NEW j \in Jobs, NEW a \in reached[j] PROVE ~Special(a)
    BY DEF OnlyPublicReached
  <2>2. /\ dest[j] # None /\ phase[j] # "new" /\ DestinationInv(j)
        /\ url[j] \in Urls /\ check_url(url[j]) /\ a \in Resolved(j)
    BY <1>1, <2>1, UrlAssumption DEF IInv, JobInv
  <2>3. ensure_public_ip(a)
    BY <2>2 DEF Resolved, DestinationInv, AnswerPasses, check_url
  <2>4. a \in Ipv4Addr \cup Ipv6Addr
    BY <1>1, AddressAssumption DEF IInv, TypeOK
  <2> QED
    BY <2>3, <2>4, CheckSound
<1> QED
  BY <1>1, Invariance, PTL

-------------------------------------------------------------------------------
\* Retries end.

\* A bound on the steps left of a job: an attempt takes at most five.
Rank == [new |-> 0, registered |-> 0, resolving |-> 4, ready |-> 3, sent |-> 2,
         failed |-> 1, closed |-> 0]
StepsLeft(j) == 5 * (MaxAttempts - attempts[j]) + Rank[phase[j]]

LEMMA StepsLeftIsNat == TypeOK => \A j \in Jobs : StepsLeft(j) \in Nat
<1> SUFFICES ASSUME TypeOK, NEW j \in Jobs PROVE StepsLeft(j) \in Nat
  OBVIOUS
<1>1. /\ attempts[j] \in Nat /\ attempts[j] <= MaxAttempts /\ MaxAttempts \in Nat
      /\ Rank[phase[j]] \in Nat
  BY AttemptsAssumption DEF TypeOK, Rank
<1> QED
  BY <1>1 DEF StepsLeft

\* A step that leaves a job's phase and attempts alone leaves its bound alone.
LEMMA Bystander ==
    ASSUME NEW i \in Jobs, phase'[i] = phase[i], attempts'[i] = attempts[i]
    PROVE  StepsLeft(i)' = StepsLeft(i)
BY DEF StepsLeft

\* A job that is driven is nearer to its end by every step, retries included, and
\* no step of another job takes it away from it: however lookups, sends and
\* retries interleave, a job is driven at most 5 * MaxAttempts times.
NearerTheEnd ==
    [][\A j \in Jobs : /\ StepsLeft(j)' <= StepsLeft(j)
                       /\ Drive(j) => StepsLeft(j)' < StepsLeft(j)]_vars

\* The lower of two ranks, with the attempts left as they are.
LEMMA LowerRankCounts ==
    ASSUME TypeOK, NEW j \in Jobs, NEW b, phase' = [phase EXCEPT ![j] = b],
           UNCHANGED attempts, Rank[b] \in Nat, Rank[b] < Rank[phase[j]]
    PROVE  /\ StepsLeft(j)' < StepsLeft(j)
           /\ \A i \in Jobs \ {j} : phase'[i] = phase[i] /\ attempts'[i] = attempts[i]
<1> DEFINE left == 5 * (MaxAttempts - attempts[j])
<1>1. left \in Int /\ Rank[phase[j]] \in Nat
  BY AttemptsAssumption DEF TypeOK, Rank
<1>2. phase'[j] = b /\ attempts'[j] = attempts[j]
  BY DEF TypeOK
<1>3. StepsLeft(j) = left + Rank[phase[j]] /\ StepsLeft(j)' = left + Rank[b]
  BY <1>2 DEF StepsLeft
<1>4. StepsLeft(j)' < StepsLeft(j)
  <2> HIDE DEF left
  <2> QED
    BY <1>1, <1>3
<1> QED
  BY <1>4 DEF TypeOK

LEMMA DriveCounts ==
    ASSUME TypeOK, NEW j \in Jobs, Drive(j)
    PROVE  /\ StepsLeft(j)' < StepsLeft(j)
           /\ \A i \in Jobs \ {j} : phase'[i] = phase[i] /\ attempts'[i] = attempts[i]
<1>1. CASE Resolve(j)
  <2> DEFINE left == MaxAttempts - attempts[j]
  <2>1. /\ phase[j] = "registered" /\ phase'[j] \in {"closed", "ready", "resolving"}
        /\ attempts'[j] = attempts[j] + 1
        /\ \A i \in Jobs \ {j} : phase'[i] = phase[i] /\ attempts'[i] = attempts[i]
    BY <1>1 DEF Resolve, TypeOK
  <2>2. Rank[phase[j]] = 0 /\ Rank[phase'[j]] \in 0 .. 4
    BY <2>1 DEF Rank
  <2>3. left \in Int /\ MaxAttempts - (attempts[j] + 1) = left - 1
    BY AttemptsAssumption DEF TypeOK
  <2>4. StepsLeft(j) = 5 * left /\ StepsLeft(j)' = 5 * (left - 1) + Rank[phase'[j]]
    <3>1. StepsLeft(j) = 5 * left + 0
      BY <2>2 DEF StepsLeft
    <3>2. StepsLeft(j)' = 5 * (MaxAttempts - (attempts[j] + 1)) + Rank[phase'[j]]
      BY <2>1 DEF StepsLeft
    <3>3. 5 * left + 0 = 5 * left
      BY <2>3
    <3> QED
      BY <2>3, <3>1, <3>2, <3>3
  <2> HIDE DEF left
  <2>5. StepsLeft(j)' < StepsLeft(j)
    BY <2>2, <2>3, <2>4
  <2> QED
    BY <2>1, <2>5
<1>2. CASE LookupFails(j) \/ \E addrs \in SUBSET Addresses : Answer(j, addrs)
  <2>1. /\ phase[j] = "resolving" /\ UNCHANGED attempts
        /\ \E b \in {"ready", "failed"} : phase' = [phase EXCEPT ![j] = b]
    BY <1>2 DEF LookupFails, Answer
  <2>2. PICK b \in {"ready", "failed"} : phase' = [phase EXCEPT ![j] = b]
    BY <2>1
  <2>3. Rank[b] \in Nat /\ Rank[b] < Rank[phase[j]]
    BY <2>1 DEF Rank
  <2> QED
    BY <2>1, <2>2, <2>3, LowerRankCounts
<1>3. CASE \E a \in Addresses : Send(j, a)
  <2>1. phase[j] = "ready" /\ UNCHANGED attempts /\ phase' = [phase EXCEPT ![j] = "sent"]
    BY <1>3 DEF Send
  <2>2. Rank["sent"] \in Nat /\ Rank["sent"] < Rank[phase[j]]
    BY <2>1 DEF Rank
  <2> QED
    BY <2>1, <2>2, LowerRankCounts
<1>4. CASE Delivered(j) \/ SendFails(j)
             \/ \E a \in Addresses, u \in Urls : Redirected(j, u, a)
  <2>1. /\ phase[j] = "sent" /\ UNCHANGED attempts
        /\ \E b \in {"failed", "closed"} : phase' = [phase EXCEPT ![j] = b]
    BY <1>4 DEF Delivered, SendFails, Redirected, client_builder
  <2>2. PICK b \in {"failed", "closed"} : phase' = [phase EXCEPT ![j] = b]
    BY <2>1
  <2>3. Rank[b] \in Nat /\ Rank[b] < Rank[phase[j]]
    BY <2>1 DEF Rank
  <2> QED
    BY <2>1, <2>2, <2>3, LowerRankCounts
<1>5. CASE Retry(j)
  <2>1. /\ phase[j] = "failed" /\ UNCHANGED attempts
        /\ \E b \in {"registered", "closed"} : phase' = [phase EXCEPT ![j] = b]
    BY <1>5 DEF Retry
  <2>2. PICK b \in {"registered", "closed"} : phase' = [phase EXCEPT ![j] = b]
    BY <2>1
  <2>3. Rank[b] \in Nat /\ Rank[b] < Rank[phase[j]]
    BY <2>1 DEF Rank
  <2> QED
    BY <2>1, <2>2, <2>3, LowerRankCounts
<1> QED
  BY <1>1, <1>2, <1>3, <1>4, <1>5 DEF Drive

THEOREM RetriesEnd == Spec => NearerTheEnd
<1> DEFINE Counts == \A j \in Jobs : /\ StepsLeft(j)' <= StepsLeft(j)
                                     /\ Drive(j) => StepsLeft(j)' < StepsLeft(j)
<1>0. TypeOK' => (\A j \in Jobs : StepsLeft(j) \in Nat)'
  BY StepsLeftIsNat, PTL
<1>1. ASSUME TypeOK, TypeOK', [Next]_vars PROVE Counts
  <2>1. \A j \in Jobs : StepsLeft(j) \in Nat /\ StepsLeft(j)' \in Nat
    BY <1>0, <1>1, StepsLeftIsNat
  <2>2. ASSUME NEW j \in Jobs, Drive(j) PROVE \A i \in Jobs : StepsLeft(i)' <= StepsLeft(i)
    <3>1. \A i \in Jobs \ {j} : StepsLeft(i)' = StepsLeft(i)
      BY <1>1, <2>2, DriveCounts, Bystander
    <3> QED
      BY <1>1, <2>1, <2>2, <3>1, DriveCounts
  <2>3. ASSUME NEW j \in Jobs, NEW u \in Urls, Register(j, u)
        PROVE  \A i \in Jobs : StepsLeft(i)' <= StepsLeft(i)
    <3>1. /\ phase[j] = "new" /\ phase' = [phase EXCEPT ![j] = "registered"]
          /\ UNCHANGED attempts
      BY <2>3 DEF Register
    <3>2. \A i \in Jobs : Rank[phase'[i]] = Rank[phase[i]] /\ attempts'[i] = attempts[i]
      BY <1>1, <3>1 DEF TypeOK, Rank
    <3> QED
      BY <2>1, <3>2 DEF StepsLeft
  <2>4. ASSUME UNCHANGED vars PROVE \A i \in Jobs : StepsLeft(i)' <= StepsLeft(i)
    BY <2>1, <2>4, Bystander DEF vars
  <2>5. \A j \in Jobs : Drive(j) => StepsLeft(j)' < StepsLeft(j)
    BY <1>1, DriveCounts
  <2> QED
    BY <1>1, <2>2, <2>3, <2>4, <2>5 DEF Next
<1> HIDE DEF Counts
<1>2. TypeOK /\ TypeOK' /\ [Next]_vars => [Counts]_vars
  BY <1>1
<1>3. Spec => [][Counts]_vars
  BY <1>2, TypeCorrect, PTL DEF Spec
<1> QED
  BY <1>3 DEF NearerTheEnd, Counts
===============================================================================
