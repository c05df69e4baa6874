------------------------------- MODULE VaultRows -------------------------------
(***************************************************************************)
(* platform-vault-dynamo: a store of approvals that reaches its tables     *)
(* through a VaultClient.  A request has a row, and its grant has one      *)
(* once it is approved; a grant is retired by marking its row.  Calls of   *)
(* many instances interleave; their requests are repeated and delayed, by  *)
(* the SDK's own retries among others, and their answers lost.  DynamoDB,  *)
(* its IAM check and the store are not in this repository.                 *)
(***************************************************************************)
EXTENDS FiniteSets

CONSTANTS
    Ids,                \* requests, each with at most one grant
    Calls,              \* calls of the store's methods
    ChecksConditions    \* whether the store puts ConditionChecks into its
                        \*   transactions

ASSUME ChecksAssumption == ChecksConditions \in BOOLEAN

Tables == {"request", "grant"}
Keys == Tables \X Ids
States(table) == IF table = "request"
                   THEN {"absent", "pending", "approved", "denied"}
                   ELSE {"absent", "live", "retired"}
AnyState == States("request") \cup States("grant")

VARIABLES
    row,        \* the vault's rows, "absent" where there is none
    call,       \* each call: its method and id, and how far it is
    network     \* requests that were sent; a copy may arrive at any time

vars == <<row, call, network>>

-------------------------------------------------------------------------------
\* The crate.

\* What the type exposes, and what the role policy grants, by IAM's names.
REQUIRED_ACTIONS == {"GetItem", "BatchGetItem", "Query", "Scan", "DescribeTable",
                     "PutItem", "UpdateItem"}

\* An item: what it does to the row at key, if that is in one of the states needs.
Put(key, needs, to) == [kind |-> "Put", key |-> key, needs |-> needs, to |-> to]
Update(key, needs, to) == [Put(key, needs, to) EXCEPT !.kind = "Update"]
ConditionCheck(key, needs) == [Put(key, needs, "same") EXCEPT !.kind = "ConditionCheck"]

\* Mutant: items are sent without their condition expressions.
into_Unconditional(item) ==
    [key |-> item.key, needs |-> AnyState, to |-> item.to,
     action |-> IF item.kind = "Put" THEN "PutItem" ELSE "UpdateItem"]

\* From<VaultTransactItem>: the SDK's item, which DynamoDB authorises by the
\* action it stands for.  No kind stands for DeleteItem.
into(item) ==
    [key |-> item.key, needs |-> item.needs, to |-> item.to,
     action |-> CASE item.kind = "Put" -> "PutItem"
                  [] item.kind = "Update" -> "UpdateItem"
                  [] item.kind = "ConditionCheck" -> "ConditionCheckItem"]

\* put_item and update_item: one request with one item.
single(item) == {{into(item)}}

\* Mutant: a request for each item.
transact_write_Each(items) == {{into(i)} : i \in items}

\* One request with all the items.
transact_write(items) == {{into(i) : i \in items}}

-------------------------------------------------------------------------------
\* The store's methods: the requests each of them sends.

Create(id) == transact_write({Put(<<"request", id>>, {"absent"}, "pending")})

Approve(id) ==
    transact_write({Update(<<"request", id>>, {"pending"}, "approved"),
                    Put(<<"grant", id>>, AnyState, "live")})

Deny(id) ==
    transact_write({Update(<<"request", id>>, {"pending"}, "denied")}
        \cup IF ChecksConditions THEN {ConditionCheck(<<"grant", id>>, {"absent"})}
                                 ELSE {})

\* Mutant: a delete, which the raw SDK client lets a store write.
Retire_Delete(id) ==
    {{[key |-> <<"grant", id>>, needs |-> AnyState, to |-> "absent",
       action |-> "DeleteItem"]}}

\* Mutant: without attribute_exists(pk).
Retire_Upsert(id) == single(Update(<<"grant", id>>, AnyState, "retired"))

\* The tombstone: an update that marks the row, if there is one.
Retire(id) == single(Update(<<"grant", id>>, {"live", "retired"}, "retired"))

Methods == {"Create", "Approve", "Deny", "Retire"}
Requests(method, id) ==
    CASE method = "Create" -> Create(id)
      [] method = "Approve" -> Approve(id)
      [] method = "Deny" -> Deny(id)
      [] method = "Retire" -> Retire(id)

-------------------------------------------------------------------------------
Init ==
    /\ row = [k \in Keys |-> "absent"]
    /\ call = [c \in Calls |-> [phase |-> "idle"]]
    /\ network = {}

Send(c, method, id) ==
    /\ call[c].phase = "idle"
    /\ call' = [call EXCEPT ![c] = [phase |-> "sent", method |-> method, id |-> id]]
    /\ network' = network \cup {[call |-> c, items |-> r] : r \in Requests(method, id)}
    /\ UNCHANGED row

Authorized(items) == \A i \in items : i.action \in REQUIRED_ACTIONS
Holds(items) == \A i \in items : row[i.key] \in i.needs

\* The row after an item: an update of a row that is not there makes a row of
\* nothing but the update.
After(item) ==
    IF item.action = "ConditionCheckItem" THEN row[item.key]
    ELSE IF item.action = "UpdateItem" /\ row[item.key] = "absent" THEN "hollow"
    ELSE item.to

\* The rows after all items, which are of different keys.
Written(items) ==
    [k \in Keys |-> IF \E i \in items : i.key = k
                      THEN After(CHOOSE i \in items : i.key = k) ELSE row[k]]

\* DynamoDB executes a copy of a request: all of its items or none, judged and
\* written at one point.  The call hears of it if it still waits.
Execute(q) ==
    LET verdict == IF ~Authorized(q.items) THEN "AccessDenied"
                   ELSE IF ~Holds(q.items) THEN "Cancelled" ELSE "Ok"
    IN  /\ row' = IF verdict = "Ok" THEN Written(q.items) ELSE row
        /\ \/ UNCHANGED call
           \/ /\ call[q.call].phase = "sent"
              /\ call' = [call EXCEPT ![q.call].phase = verdict]
        /\ UNCHANGED network

\* No answer: the caller does not know.
GiveUp(c) ==
    /\ call[c].phase = "sent"
    /\ call' = [call EXCEPT ![c].phase = "Unknown"]
    /\ UNCHANGED <<row, network>>

Next ==
    \/ \E c \in Calls :
         \/ \E method \in Methods, id \in Ids : Send(c, method, id)
         \/ GiveUp(c)
    \/ \E q \in network : Execute(q)

Spec == Init /\ [][Next]_vars

-------------------------------------------------------------------------------
\* Properties.

\* The type invariant; it leaves no place for a row made by an update alone.
TypeOK ==
    /\ row \in [Keys -> AnyState]
    /\ \A k \in Keys : row[k] \in States(k[1])
    /\ call \in [Calls ->
         [phase : {"idle"}] \cup
         [phase : {"sent", "Ok", "Cancelled", "AccessDenied", "Unknown"},
          method : Methods, id : Ids]]
    /\ \A q \in network : q.call \in Calls /\ call[q.call].phase # "idle"

Done(method, id) ==
    LET req == row[<<"request", id>>]
        grant == row[<<"grant", id>>]
    IN  CASE method = "Create" -> req # "absent"
          [] method = "Approve" -> req = "approved" /\ grant # "absent"
          [] method = "Deny" -> req = "denied" /\ grant = "absent"
          [] method = "Retire" -> req = "approved" /\ grant = "retired"

\* What a call that reports success did is there, and stays, whoever else calls
\* meanwhile and whatever is repeated: approvals and denials exclude each other
\* (transact_write, atomicity), a retired grant was there to be retired.
OkIsDone == \A c \in Calls : call[c].phase = "Ok" => Done(call[c].method, call[c].id)

\* Whatever a store writes with this type, IAM permits: the surface is not laxer than
\* the grant.  It holds of stores without a ConditionCheck (ChecksConditions = FALSE),
\* which the type offers as well and IAM refuses.
NeverRefused == \A c \in Calls : call[c].phase # "AccessDenied"

\* A marked row is never unmarked or overwritten, not by a late or repeated
\* approval either.
RetiredStays ==
    [][\A id \in Ids : row[<<"grant", id>>] = "retired"
                         => row'[<<"grant", id>>] = "retired"]_vars

Ledger == INSTANCE Approvals WITH
    request <- [id \in Ids |-> row[<<"request", id>>]],
    grant <- [id \in Ids |-> row[<<"grant", id>>]]

\* Calls, repeats and lost answers implement approvals: each transaction is one
\* step, or none.
ImplementsApprovals == Ledger!Spec
===============================================================================
