--------------------------- MODULE DepositFeedProofs ---------------------------
(***************************************************************************)
(* Proofs about DepositFeed, for any number of calls, rows and attempts.   *)
(* The invariant says what a request under way carries, and what an answer *)
(* tells: that the rows of its call were all in the store when it was      *)
(* given, and nothing is ever taken out.                                   *)
(***************************************************************************)
EXTENDS DepositFeed, FiniteSetTheorems, TLAPS

OpsOf(E) == {feed_op_bytes(e, 0) : e \in E}

Meant == UNION {call[c].entries : c \in Calls}

\* Nothing is in the store but rows somebody meant to post.
StoreInv == store \subseteq OpsOf(Meant)

\* A request carries rows of its call, and all of them if the call waits for it.
NetworkInv ==
    \A q \in network :
        /\ q.ops \subseteq OpsOf(Meant)
        /\ call[q.call].attempt = q.attempt => q.ops = OpsOf(call[q.call].entries)

\* A call that has not begun means nothing; an answer of 200 is the truth.
CallInv ==
    \A c \in Calls :
        /\ call[c].phase = "new" => call[c].entries = {} /\ call[c].attempt = 0
        /\ call[c].phase = "Ok" => call[c].answer = 200
        /\ call[c].answer = 200 => OpsOf(call[c].entries) \subseteq store

\* No request is ahead of its call.
AttemptInv == \A q \in network : q.attempt <= call[q.call].attempt

IInv == TypeOK /\ StoreInv /\ NetworkInv /\ CallInv /\ AttemptInv

-------------------------------------------------------------------------------
\* What the crate encodes does not depend on the attempt.
LEMMA EncodingShape ==
    ASSUME NEW E \in SUBSET Entries, NEW n \in Attempts, Encoded(E, n) # {}
    PROVE  Encoded(E, n) = OpsOf(E) /\ OpsOf(E) \subseteq Ops
  BY DEF Encoded, OpsOf, feed_op_bytes, Ops

\* So a row has one operation at most.
LEMMA OneCopy ==
    ASSUME TypeOK, NEW e \in Entries
    PROVE  Copies(e) \subseteq {feed_op_bytes(e, 0)}
  BY DEF TypeOK, Copies, Ops, feed_op_bytes

LEMMA InitInv == Init => IInv
  <1> SUFFICES ASSUME Init PROVE IInv
    OBVIOUS
  <1>1. TypeOK
    BY AttemptsAssumption DEF Init, TypeOK
  <1>2. CallInv
    BY NoneAssumption DEF Init, CallInv
  <1> QED
    BY <1>1, <1>2 DEF Init, IInv, StoreInv, NetworkInv, AttemptInv

\* A call that begins, or begins again, sends its rows under a new number.
LEMMA PostStep ==
    ASSUME IInv, NEW c \in Calls, NEW E \in SUBSET Entries, Post(c, E),
           call[c].attempt < MaxAttempts,
           call[c].phase = "new" \/ E = call[c].entries,
           UNCHANGED <<capLive, store>>
    PROVE  IInv'
  <1> USE DEF IInv
  <1> DEFINE n == call[c].attempt + 1
             ops == Encoded(E, n)
             posted(phase) == [phase |-> phase, entries |-> E, attempt |-> n,
                               answer |-> None]
             request == [call |-> c, attempt |-> n, ops |-> ops]
  <1>1. n \in Attempts /\ n \in 0 .. MaxAttempts
    BY AttemptsAssumption DEF TypeOK, Attempts
  <1>2. PICK phase \in {"Encode", "sent"} : call' = [call EXCEPT ![c] = posted(phase)]
    BY DEF Post
  <1>3. \/ ops = {} /\ network' = network
        \/ ops # {} /\ network' = network \cup {request}
    BY DEF Post
  <1>4. ops # {} => ops = OpsOf(E) /\ ops \subseteq Ops
    BY <1>1, EncodingShape
  <1>5. /\ call'[c] = posted(phase)
        /\ \A d \in Calls \ {c} : call'[d] = call[d]
    BY <1>2 DEF TypeOK
  <1>6. TypeOK'
    <2>1. call' \in [Calls -> [phase : {"new", "sent", "Ok", "Status", "Transport", "Encode"},
                               entries : SUBSET Entries, attempt : 0 .. MaxAttempts,
                               answer : Statuses \cup {None}]]
      BY <1>1, <1>2 DEF TypeOK
    <2>2. network' \subseteq Requests
      BY <1>1, <1>3, <1>4 DEF TypeOK, Requests
    <2> QED
      BY <2>1, <2>2 DEF TypeOK
  <1>7. \A d \in Calls : call[d].entries \subseteq call'[d].entries
    BY <1>5 DEF CallInv
  <1>8. OpsOf(Meant) \subseteq OpsOf(Meant)'
    BY <1>7 DEF OpsOf, Meant
  <1>9. StoreInv'
    BY <1>8 DEF StoreInv
  <1>10. ASSUME NEW q \in network'
         PROVE  /\ q.ops \subseteq OpsOf(Meant)'
                /\ call'[q.call].attempt = q.attempt => q.ops = OpsOf(call'[q.call].entries)
                /\ q.attempt <= call'[q.call].attempt
    <2>1. CASE q \in network
      <3>1. /\ q.call \in Calls /\ q.attempt \in Attempts
            /\ q.ops \subseteq OpsOf(Meant)
            /\ q.attempt <= call[q.call].attempt
            /\ call[q.call].attempt = q.attempt => q.ops = OpsOf(call[q.call].entries)
            /\ call[c].attempt \in 0 .. MaxAttempts
        BY <2>1 DEF NetworkInv, AttemptInv, TypeOK, Requests
      <3>2. CASE q.call = c
        BY <1>5, <1>8, <3>1, <3>2, AttemptsAssumption DEF Attempts
      <3>3. CASE q.call # c
        BY <1>5, <1>8, <3>1, <3>3
      <3> QED
        BY <3>2, <3>3
    <2>2. CASE q = request /\ ops = OpsOf(E)
      <3>1. E \subseteq Meant'
        BY <1>5 DEF Meant
      <3>2. OpsOf(E) \subseteq OpsOf(Meant)'
        BY <3>1 DEF OpsOf
      <3> QED
        BY <1>1, <1>5, <2>2, <3>2 DEF Attempts
    <2> QED
      BY <1>3, <1>4, <2>1, <2>2
  <1>11. NetworkInv' /\ AttemptInv'
    BY <1>10 DEF NetworkInv, AttemptInv, OpsOf
  <1>12. CallInv'
    BY <1>2, <1>5, NoneAssumption DEF CallInv, OpsOf
  <1> QED
    BY <1>6, <1>9, <1>11, <1>12

LEMMA ArrivesStep ==
    ASSUME IInv, NEW q \in network, NEW status \in Statuses, NEW O \in SUBSET Ops,
           Arrives(q, status, O)
    PROVE  IInv'
  <1> USE DEF IInv
  <1>1. /\ q.call \in Calls
        /\ q.ops \subseteq OpsOf(Meant)
        /\ call[q.call].attempt = q.attempt => q.ops = OpsOf(call[q.call].entries)
    BY DEF NetworkInv, TypeOK, Requests
  <1>2. /\ O \subseteq q.ops
        /\ status = 200 => O = q.ops
        /\ store' = store \cup O /\ UNCHANGED <<capLive, network>>
    BY DEF Arrives
  <1>3. \A c \in Calls : /\ call'[c].phase = call[c].phase
                         /\ call'[c].entries = call[c].entries
                         /\ call'[c].attempt = call[c].attempt
    BY <1>1 DEF Arrives, TypeOK
  <1>4. \A c \in Calls : \/ call'[c].answer = call[c].answer
                         \/ /\ c = q.call /\ Waits(q)
                            /\ call'[c].answer = status
    BY <1>1 DEF Arrives, TypeOK
  <1>5. TypeOK'
    BY <1>1, <1>2 DEF Arrives, TypeOK
  <1>6. OpsOf(Meant)' = OpsOf(Meant)
    BY <1>3 DEF OpsOf, Meant
  <1>7. StoreInv'
    BY <1>1, <1>2, <1>6 DEF StoreInv
  <1>8. NetworkInv' /\ AttemptInv'
    <2>1. \A r \in network : r.call \in Calls
      BY DEF TypeOK, Requests
    <2> QED
      BY <1>2, <1>3, <1>6, <2>1 DEF NetworkInv, AttemptInv, OpsOf
  <1>9. CallInv'
    <2> SUFFICES ASSUME NEW c \in Calls
                 PROVE  /\ call'[c].phase = "new" =>
                             call'[c].entries = {} /\ call'[c].attempt = 0
                        /\ call'[c].phase = "Ok" => call'[c].answer = 200
                        /\ call'[c].answer = 200 => OpsOf(call'[c].entries) \subseteq store'
      BY DEF CallInv, OpsOf
    <2>1. CASE call'[c].answer = call[c].answer
      BY <1>2, <1>3, <2>1 DEF CallInv
    <2>2. CASE c = q.call /\ Waits(q) /\ call'[c].answer = status
      BY <1>1, <1>2, <1>3, <2>2 DEF CallInv, Waits
    <2> QED
      BY <1>4, <2>1, <2>2
  <1> QED
    BY <1>5, <1>7, <1>8, <1>9

\* An answer is read, or there is none: the rows and the number stay.
LEMMA ReturnStep ==
    ASSUME IInv, NEW c \in Calls, Return(c) \/ Fails(c)
    PROVE  IInv'
  <1> USE DEF IInv
  <1>1. PICK phase \in {"Ok", "Status", "Transport"} :
           /\ call' = [call EXCEPT ![c].phase = phase]
           /\ phase = "Ok" => call[c].answer = 200
    <2>1. CASE Fails(c)
      BY <2>1 DEF Fails
    <2>2. CASE Return(c)
      <3>1. call[c].answer \in Statuses
        BY <2>2 DEF Return, TypeOK
      <3>2. Outcome(call[c].answer) = "Ok" => call[c].answer = 200
        BY <3>1 DEF Outcome, Statuses
      <3> QED
        BY <2>2, <3>2 DEF Return, Outcome
    <2> QED
      BY <2>1, <2>2
  <1>2. UNCHANGED <<capLive, network, store>>
    BY DEF Return, Fails
  <1>3. \A d \in Calls : /\ call'[d].entries = call[d].entries
                         /\ call'[d].attempt = call[d].attempt
                         /\ call'[d].answer = call[d].answer
                         /\ call'[d].phase = IF d = c THEN phase ELSE call[d].phase
    BY <1>1 DEF TypeOK
  <1>4. TypeOK'
    BY <1>1, <1>2 DEF TypeOK
  <1>5. OpsOf(Meant)' = OpsOf(Meant)
    BY <1>3 DEF OpsOf, Meant
  <1>6. StoreInv'
    BY <1>2, <1>5 DEF StoreInv
  <1>7. NetworkInv' /\ AttemptInv'
    <2>1. \A q \in network : q.call \in Calls
      BY DEF TypeOK, Requests
    <2> QED
      BY <1>2, <1>3, <1>5, <2>1 DEF NetworkInv, AttemptInv, OpsOf
  <1>8. CallInv'
    BY <1>1, <1>2, <1>3 DEF CallInv, OpsOf
  <1> QED
    BY <1>4, <1>6, <1>7, <1>8

LEMMA NextInv == IInv /\ [Next]_vars => IInv'
  <1> SUFFICES ASSUME IInv, [Next]_vars PROVE IInv'
    OBVIOUS
  <1> USE DEF IInv
  <1>1. ASSUME NEW c \in Calls, NEW E \in SUBSET Entries, Deposit(c, E)
        PROVE  IInv'
    <2>1. call[c].attempt < MaxAttempts
      BY <1>1, AttemptsAssumption DEF Deposit, CallInv
    <2> QED
      BY <1>1, <2>1, PostStep DEF Deposit
  <1>2. ASSUME NEW c \in Calls, Retry(c)
        PROVE  IInv'
    <2>1. call[c].entries \in SUBSET Entries
      BY DEF TypeOK
    <2> QED
      BY <1>2, <2>1, PostStep DEF Retry
  <1>3. CASE Revoke
    <2>1. capLive' \in BOOLEAN /\ UNCHANGED call /\ UNCHANGED network /\ UNCHANGED store
      BY <1>3 DEF Revoke
    <2>2. TypeOK'
      BY <2>1 DEF TypeOK
    <2>3. UNCHANGED <<call, network, store>>
      BY <2>1
    <2> QED
      BY <2>2, <2>3 DEF StoreInv, NetworkInv, CallInv, AttemptInv, OpsOf, Meant
  <1>4. CASE UNCHANGED vars
    BY <1>4 DEF vars, TypeOK, StoreInv, NetworkInv, CallInv, AttemptInv, OpsOf, Meant
  <1>5. ASSUME NEW c \in Calls, Return(c) \/ Fails(c)
        PROVE  IInv'
    BY <1>5, ReturnStep
  <1>6. ASSUME NEW q \in network, NEW status \in Statuses, NEW O \in SUBSET Ops,
               Arrives(q, status, O)
        PROVE  IInv'
    BY <1>6, ArrivesStep
  <1> HIDE DEF IInv
  <1> QED
    BY <1>1, <1>2, <1>3, <1>4, <1>5, <1>6 DEF Next

-------------------------------------------------------------------------------
\* The invariant holds of every behaviour.
THEOREM Invariance == Spec => []IInv
  BY InitInv, NextInv, PTL DEF Spec

\* The type invariant: nothing but encoded rows is ever sent or stored.
THEOREM TypeCorrect == Spec => []TypeOK
  <1>1. IInv => TypeOK
    BY DEF IInv
  <1> QED
    BY <1>1, Invariance, PTL

LEMMA OkStored == IInv => OkIsStored
  <1> SUFFICES ASSUME IInv, NEW c \in Calls, call[c].phase = "Ok",
                      NEW e \in call[c].entries
               PROVE  Copies(e) # {}
    BY DEF OkIsStored
  <1>1. feed_op_bytes(e, 0) \in store
    BY DEF IInv, CallInv, OpsOf
  <1> QED
    BY <1>1 DEF Copies, feed_op_bytes

\* DriveClient::deposit: Ok means that every row is in the feed.
THEOREM SuccessStored == Spec => []OkIsStored
  BY OkStored, Invariance, PTL

\* How often a row is shown: once, or not at all.
LEMMA CopyCount ==
    ASSUME TypeOK, NEW e \in Entries
    PROVE  Cardinality(Copies(e)) = IF Copies(e) = {} THEN 0 ELSE 1
  <1>1. Copies(e) = {} \/ Copies(e) = {feed_op_bytes(e, 0)}
    BY OneCopy
  <1> QED
    BY <1>1, FS_EmptySet, FS_Singleton

\* feed_op_bytes: retries, late copies and other calls never show a row twice.
THEOREM NeverTwice == Spec => []ShownOnce
  <1>1. IInv => ShownOnce
    BY CopyCount DEF IInv, ShownOnce
  <1> QED
    BY <1>1, Invariance, PTL
-------------------------------------------------------------------------------
\* The refinement mapping, by name.
Shown == [e \in Entries |-> Cardinality(Copies(e))]
PostedOf(calls) == UNION {calls[c].entries : c \in {x \in Calls : calls[x].phase = "Ok"}}
MeantOf(calls) == UNION {calls[c].entries : c \in Calls}
Stutters == UNCHANGED <<MeantOf(call), Shown, PostedOf(call)>>

\* How often a row is shown, as the ledger counts it.
LEMMA ShownCount ==
    ASSUME TypeOK
    PROVE  \A e \in Entries : Shown[e] = IF Copies(e) = {} THEN 0 ELSE 1
  BY CopyCount DEF Shown

\* A step that leaves the store alone shows nothing new.
LEMMA ShownStays == UNCHANGED store => UNCHANGED Shown
  BY DEF Shown, Copies

\* A deposit means its rows, and none of them counts as posted yet.
LEMMA MeanStep ==
    ASSUME IInv, NEW c \in Calls, NEW E \in SUBSET Entries, Deposit(c, E)
    PROVE  Ledger!Mean(E)
  <1>1. PICK r : r.entries = E /\ r.phase # "Ok" /\ call' = [call EXCEPT ![c] = r]
    BY DEF Deposit, Post
  <1>2. call[c].entries = {} /\ call[c].phase = "new"
    BY DEF Deposit, IInv, CallInv
  <1>3. \A d \in Calls : /\ d # c => call'[d] = call[d]
                         /\ d = c => call'[d].entries = E /\ call'[d].phase # "Ok"
    BY <1>1 DEF IInv, TypeOK
  <1>4. MeantOf(call') = MeantOf(call) \cup E
    BY <1>2, <1>3 DEF MeantOf
  <1>5. PostedOf(call') = PostedOf(call)
    BY <1>2, <1>3 DEF PostedOf
  <1>6. UNCHANGED Shown
    BY ShownStays DEF Deposit
  <1> QED
    BY <1>4, <1>5, <1>6 DEF Ledger!Mean, MeantOf, PostedOf, Shown

\* A retry means nothing new.
LEMMA RetryStep ==
    ASSUME IInv, NEW c \in Calls, Retry(c)
    PROVE  Stutters
  <1>1. PICK r : /\ r.entries = call[c].entries /\ r.phase # "Ok"
                 /\ call' = [call EXCEPT ![c] = r]
    BY DEF Retry, Post
  <1>2. call[c].phase # "Ok"
    BY DEF Retry
  <1>3. \A d \in Calls : /\ call'[d].entries = call[d].entries
                         /\ call'[d].phase = "Ok" <=> call[d].phase = "Ok"
    BY <1>1, <1>2 DEF IInv, TypeOK
  <1>4. UNCHANGED Shown
    BY ShownStays DEF Retry
  <1> QED
    BY <1>3, <1>4 DEF Stutters, MeantOf, PostedOf

\* What a request stores is shown, unless it was; every row of it was meant.
LEMMA ShowStep ==
    ASSUME IInv, IInv', NEW q \in network, NEW status \in Statuses, NEW O \in SUBSET Ops,
           Arrives(q, status, O)
    PROVE  \E E \in SUBSET Entries : Ledger!Show(E)
  <1> DEFINE E == {e \in Entries : Copies(e) = {} /\ Copies(e)' # {}}
  <1>1. store' = store \cup O /\ O \subseteq q.ops
    BY DEF Arrives
  <1>2. \A c \in Calls : call'[c].entries = call[c].entries /\ call'[c].phase = call[c].phase
    BY DEF Arrives, IInv, TypeOK, Requests
  <1>3. MeantOf(call') = MeantOf(call) /\ PostedOf(call') = PostedOf(call)
    BY <1>2 DEF MeantOf, PostedOf
  <1>4. \A e \in E : e \in MeantOf(call) /\ Shown[e] = 0
    <2> SUFFICES ASSUME NEW e \in E PROVE e \in MeantOf(call) /\ Shown[e] = 0
      OBVIOUS
    <2>1. PICK op \in O : op.entry = e
      BY <1>1 DEF Copies
    <2>2. op \in OpsOf(Meant)
      BY <1>1, <2>1 DEF IInv, NetworkInv
    <2>3. e \in MeantOf(call)
      BY <2>1, <2>2 DEF OpsOf, feed_op_bytes, Meant, MeantOf
    <2> QED
      BY <2>3, ShownCount DEF IInv
  <1>5. Shown' = [e \in Entries |-> IF e \in E THEN 1 ELSE Shown[e]]
    <2>1. \A e \in Entries : Shown[e] = IF Copies(e) = {} THEN 0 ELSE 1
      BY ShownCount DEF IInv
    <2>2. \A e \in Entries : Copies(e) \subseteq Copies(e)'
      BY <1>1 DEF Copies
    <2>3. \A e \in Entries : Cardinality(Copies(e))' = IF Copies(e)' = {} THEN 0 ELSE 1
      <3> SUFFICES ASSUME NEW e \in Entries
                   PROVE  Cardinality(Copies(e)') = IF Copies(e)' = {} THEN 0 ELSE 1
        OBVIOUS
      <3>1. Copies(e)' = {} \/ Copies(e)' = {feed_op_bytes(e, 0)}
        BY DEF IInv, TypeOK, Copies, Ops, feed_op_bytes
      <3> QED
        BY <3>1, FS_EmptySet, FS_Singleton
    <2> QED
      BY <2>1, <2>2, <2>3 DEF Shown
  <1>6. E \in SUBSET Entries
    OBVIOUS
  <1>7. Ledger!Show(E)
    BY <1>3, <1>4, <1>5 DEF Ledger!Show, MeantOf, PostedOf, Shown
  <1> QED
    BY <1>6, <1>7

\* A return with success confirms what is shown; without, nothing has changed.
LEMMA ConfirmStep ==
    ASSUME IInv, IInv', NEW c \in Calls, Return(c) \/ Fails(c)
    PROVE  Ledger!Confirm(call[c].entries) \/ Stutters
  <1>1. PICK phase : call' = [call EXCEPT ![c].phase = phase]
    BY DEF Return, Fails
  <1>2. UNCHANGED store /\ call[c].phase = "sent"
    BY DEF Return, Fails
  <1>3. \A d \in Calls : /\ call'[d].entries = call[d].entries
                         /\ call'[d].phase = IF d = c THEN phase ELSE call[d].phase
    BY <1>1 DEF IInv, TypeOK
  <1>4. MeantOf(call') = MeantOf(call) /\ UNCHANGED Shown
    BY <1>2, <1>3, ShownStays DEF MeantOf
  <1>5. CASE phase # "Ok"
    <2>1. PostedOf(call') = PostedOf(call)
      BY <1>2, <1>3, <1>5 DEF PostedOf
    <2> QED
      BY <1>4, <2>1 DEF Stutters
  <1>6. CASE phase = "Ok"
    <2>1. PostedOf(call') = PostedOf(call) \cup call[c].entries
      BY <1>2, <1>3, <1>6 DEF PostedOf
    <2>2. \A e \in call[c].entries : e \in Entries /\ Copies(e) # {}
      <3>1. call'[c].phase = "Ok"
        BY <1>3, <1>6
      <3>2. OpsOf(call'[c].entries) \subseteq store'
        BY <3>1 DEF IInv, CallInv, OpsOf
      <3>3. OpsOf(call[c].entries) \subseteq store
        BY <1>2, <1>3, <3>2
      <3>4. \A e \in call[c].entries : feed_op_bytes(e, 0) \in Copies(e)
        BY <3>3 DEF OpsOf, Copies, feed_op_bytes
      <3> QED
        BY <3>4 DEF IInv, TypeOK
    <2>3. \A e \in call[c].entries : Shown[e] = 1
      BY <2>2, ShownCount DEF IInv
    <2> QED
      BY <1>4, <2>1, <2>3 DEF Ledger!Confirm, MeantOf, PostedOf, Shown
  <1> QED
    BY <1>5, <1>6

\* Every step of the detailed specification is one of the ledger, or none.
LEMMA LedgerStep ==
    ASSUME IInv, IInv', [Next]_vars
    PROVE  (\E E \in SUBSET Entries :
              Ledger!Mean(E) \/ Ledger!Show(E) \/ Ledger!Confirm(E)) \/ Stutters
  <1>1. ASSUME NEW c \in Calls, Return(c) \/ Fails(c)
        PROVE  Stutters \/ \E E \in SUBSET Entries : Ledger!Confirm(E)
    <2>1. call[c].entries \in SUBSET Entries
      BY DEF IInv, TypeOK
    <2>2. Ledger!Confirm(call[c].entries) \/ Stutters
      BY <1>1, ConfirmStep
    <2> QED
      BY <2>1, <2>2 DEF Ledger!Confirm
  <1>2. CASE Revoke \/ UNCHANGED vars
    <2>1. UNCHANGED call /\ UNCHANGED store
      BY <1>2 DEF Revoke, vars
    <2> QED
      BY <2>1, ShownStays DEF Stutters, MeantOf, PostedOf
  <1>3. ASSUME NEW c \in Calls, NEW E \in SUBSET Entries, Deposit(c, E)
        PROVE  Ledger!Mean(E)
    BY <1>3, MeanStep
  <1>4. ASSUME NEW c \in Calls, Retry(c)
        PROVE  Stutters
    BY <1>4, RetryStep
  <1>5. ASSUME NEW q \in network, NEW status \in Statuses, NEW O \in SUBSET Ops,
               Arrives(q, status, O)
        PROVE  \E E \in SUBSET Entries : Ledger!Show(E)
    BY <1>5, ShowStep
  <1> QED
    BY <1>1, <1>2, <1>3, <1>4, <1>5 DEF Next

\* Deposits with retries implement the ledger: what an app is told is posted is
\* shown once, and nothing is shown that no app meant to post.
THEOREM Refinement == Spec => ImplementsLedger
  <1>1. Init => Ledger!Init
    <2> SUFFICES ASSUME Init PROVE Ledger!Init
      OBVIOUS
    <2>1. \A e \in Entries : Cardinality(Copies(e)) = 0
      BY FS_EmptySet DEF Init, Copies
    <2>2. \A c \in Calls : call[c].entries = {} /\ call[c].phase = "new"
      BY DEF Init
    <2> QED
      BY <2>1, <2>2 DEF Ledger!Init
  <1>2. IInv /\ IInv' /\ [Next]_vars =>
          [Ledger!Next]_<<UNION {call[c].entries : c \in Calls},
                          [e \in Entries |-> Cardinality(Copies(e))],
                          UNION {call[c].entries :
                                   c \in {x \in Calls : call[x].phase = "Ok"}}>>
    BY LedgerStep DEF Ledger!Next, Stutters, MeantOf, PostedOf, Shown
  <1> QED
    BY <1>1, <1>2, Invariance, PTL DEF Spec, ImplementsLedger, Ledger!Spec
===============================================================================
