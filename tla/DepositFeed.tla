------------------------------ MODULE DepositFeed ------------------------------
(***************************************************************************)
(* platform-drive-deposit: apps that deposit rows into a recipient's feed. *)
(* A call encodes its rows, posts the operations and reads the answer; a   *)
(* call that fails in any way is made again.  The network loses, repeats   *)
(* and delays requests and answers.  Drive, which is not in this           *)
(* repository, checks the cap, stores operations under their bytes, so     *)
(* that one that comes twice is one, and may fail half-way.                *)
(***************************************************************************)
EXTENDS Integers, FiniteSets

CONSTANTS
    Calls,          \* deposits an app makes
    Entries,        \* rows, each at its feed key
    Unencodable,    \* entries whose row does not serialize to JSON
    None,           \* no answer yet
    MaxAttempts     \* bound of the model: how often a call is made

ASSUME EntriesAssumption == Unencodable \subseteq Entries
ASSUME AttemptsAssumption == MaxAttempts \in Nat
ASSUME NoneAssumption == None \notin Int

\* Statuses of an answer: accepted, refused, failed.
Statuses == {200, 403, 500}
Attempts == 1 .. MaxAttempts

VARIABLES
    capLive,        \* whether the recipient has not revoked the deposit-cap
    call,           \* where each call is, and the answer on its connection
    network,        \* requests under way; a copy may arrive at any time
    store           \* the operations Drive holds in the recipient's partition

vars == <<capLive, call, network, store>>

-------------------------------------------------------------------------------
\* The crate.

\* Mutant: the operation bears something of the attempt that made it.
feed_op_bytes_PerAttempt(e, attempt) == [entry |-> e, after |-> attempt]

\* The first operation of a fresh replica, without an author: the same bytes for
\* the same key and row, whichever attempt encodes them.
feed_op_bytes(e, attempt) == [entry |-> e, after |-> 0]

\* Mutant: only a failure of the server is an error.
Outcome_ServerErrors(status) == IF status = 500 THEN "Status" ELSE "Ok"

\* Any 2xx is success, whoever it came from: the client follows redirects, so the
\* answers below are Drive's only where nothing redirects a deposit.
Outcome(status) == IF status \in 200..299 THEN "Ok" ELSE "Status"

Ops == {feed_op_bytes(e, n) : e \in Entries, n \in Attempts}
Requests == [call : Calls, attempt : Attempts, ops : SUBSET Ops]

-------------------------------------------------------------------------------
\* Calls.

Init ==
    /\ capLive = TRUE
    /\ call = [c \in Calls |-> [phase |-> "new", entries |-> {}, attempt |-> 0,
                            answer |-> None]]
    /\ network = {}
    /\ store = {}

\* Mutant: the rows that encode are posted, those that do not are left out.
Encoded_Partial(E, attempt) == {feed_op_bytes(e, attempt) : e \in E \ Unencodable}

\* Mutant: a row that does not encode is posted as an empty one.
Encoded_Defaulted(E, attempt) ==
    {IF e \in Unencodable THEN [entry |-> None, after |-> 0]
     ELSE feed_op_bytes(e, attempt) : e \in E}

\* The app encodes every row before it deposits any.
Encoded(E, attempt) ==
    IF E \cap Unencodable # {} THEN {} ELSE {feed_op_bytes(e, attempt) : e \in E}

\* The app encodes the rows and deposits them.  Encode is an error before
\* anything is sent.
Post(c, E) ==
    LET n == call[c].attempt + 1
        ops == Encoded(E, n)
        posted(phase) == [phase |-> phase, entries |-> E, attempt |-> n, answer |-> None]
    IN  IF ops = {}
          THEN /\ call' = [call EXCEPT ![c] = posted("Encode")]
               /\ UNCHANGED network
          ELSE /\ call' = [call EXCEPT ![c] = posted("sent")]
               /\ network' = network \cup {[call |-> c, attempt |-> n, ops |-> ops]}

Deposit(c, E) ==
    /\ call[c].phase = "new" /\ MaxAttempts > 0
    /\ Post(c, E)
    /\ UNCHANGED <<capLive, store>>

\* The same rows again, after an error that does not say whether they are there.
Retry(c) ==
    /\ call[c].phase \in {"Transport", "Status"}
    /\ call[c].attempt < MaxAttempts
    /\ Post(c, call[c].entries)
    /\ UNCHANGED <<capLive, store>>

\* The call still waits for the answer to this request.
Waits(q) ==
    LET c == call[q.call]
    IN  c.phase = "sent" /\ c.attempt = q.attempt /\ c.answer = None

\* A copy of a request arrives: Drive stores what it is sent, or fails before it
\* has stored everything, or after; with the cap gone it refuses.
Arrives(q, status, O) ==
    /\ O \subseteq q.ops
    /\ status = 200 => O = q.ops /\ capLive
    /\ status = 403 => O = {}
    /\ O # {} => capLive
    /\ store' = store \cup O
    /\ call' = IF Waits(q) THEN [call EXCEPT ![q.call].answer = status] ELSE call
    /\ UNCHANGED <<capLive, network>>

\* DriveClient::deposit with the answer to its request.
Return(c) ==
    /\ call[c].phase = "sent"
    /\ call[c].answer # None
    /\ call' = [call EXCEPT ![c].phase = Outcome(call[c].answer)]
    /\ UNCHANGED <<capLive, network, store>>

\* DriveClient::deposit without one: it is lost, or the caller gave up.  The
\* request may still be under way.
Fails(c) ==
    /\ call[c].phase = "sent"
    /\ call' = [call EXCEPT ![c].phase = "Transport"]
    /\ UNCHANGED <<capLive, network, store>>

Revoke ==
    /\ capLive
    /\ capLive' = FALSE
    /\ UNCHANGED <<call, network, store>>

Next ==
    \/ \E c \in Calls :
         \/ \E E \in SUBSET Entries \ {{}} : Deposit(c, E)
         \/ Retry(c)
         \/ Return(c)
         \/ Fails(c)
    \/ \E q \in network, status \in Statuses, O \in SUBSET Ops : Arrives(q, status, O)
    \/ Revoke

Spec == Init /\ [][Next]_vars

-------------------------------------------------------------------------------
\* Properties.

\* The type invariant.
TypeOK ==
    /\ capLive \in BOOLEAN
    /\ call \in [Calls -> [phase : {"new", "sent", "Ok", "Status", "Transport", "Encode"},
                           entries : SUBSET Entries, attempt : 0 .. MaxAttempts,
                           answer : Statuses \cup {None}]]
    /\ network \subseteq Requests
    /\ store \subseteq Ops

Copies(e) == {op \in store : op.entry = e}

\* A deposit that reports success has put every one of its rows into the feed,
\* whatever became of earlier attempts and of the cap.
OkIsStored ==
    \A c \in Calls : call[c].phase = "Ok" =>
        \A e \in call[c].entries : Copies(e) # {}

\* The feed shows a row once, however often it was deposited: by retries after
\* lost answers, by late copies of requests, by several calls.
ShownOnce == \A e \in Entries : Cardinality(Copies(e)) <= 1

Ledger == INSTANCE DepositLedger WITH
    meant  <- UNION {call[c].entries : c \in Calls},
    shown  <- [e \in Entries |-> Cardinality(Copies(e))],
    posted <- UNION {call[c].entries : c \in {x \in Calls : call[x].phase = "Ok"}}

\* Deposits with retries implement a ledger of rows that are posted once.
ImplementsLedger == Ledger!Spec
===============================================================================
