---------------------------- MODULE VaultRowsProofs ----------------------------
(***************************************************************************)
(* Proofs about VaultRows, for any number of ids and calls.  The argument  *)
(* has two parts: what a request of each method does to the rows when      *)
(* DynamoDB executes it, whole or not at all; and that a grant has a row   *)
(* exactly if its request is approved, which makes the condition on the    *)
(* request guard the unconditional put of the grant.                       *)
(***************************************************************************)
EXTENDS VaultRows, TLAPS

Req(id) == <<"request", id>>
Grant(id) == <<"grant", id>>

\* A grant has a row exactly if its request is approved.
RowInv == \A id \in Ids : row[Grant(id)] # "absent" <=> row[Req(id)] = "approved"

\* A request under way is one its call's method sends.
NetworkInv ==
    \A q \in network :
        /\ call[q.call].method \in Methods /\ call[q.call].id \in Ids
        /\ q.items \in Requests(call[q.call].method, call[q.call].id)

IInv == TypeOK /\ RowInv /\ NetworkInv /\ OkIsDone

-------------------------------------------------------------------------------
\* What each method does to the rows when all its conditions hold.
Opened(id) == row[Req(id)] = "absent" /\ row' = [row EXCEPT ![Req(id)] = "pending"]
Approved(id) == /\ row[Req(id)] = "pending"
                /\ row' = [row EXCEPT ![Req(id)] = "approved", ![Grant(id)] = "live"]
Denied(id) == row[Req(id)] = "pending" /\ row' = [row EXCEPT ![Req(id)] = "denied"]
Retired(id) == /\ row[Grant(id)] \in {"live", "retired"}
               /\ row' = [row EXCEPT ![Grant(id)] = "retired"]

Effect(method, id) ==
    CASE method = "Create" -> Opened(id)
      [] method = "Approve" -> Approved(id)
      [] method = "Deny" -> Denied(id)
      [] method = "Retire" -> Retired(id)

\* The items, as DynamoDB gets them.
Wire(key, needs, to, action) == [key |-> key, needs |-> needs, to |-> to, action |-> action]

LEMMA WireItems ==
    ASSUME NEW k, NEW needs, NEW to
    PROVE  /\ into(Put(k, needs, to)) = Wire(k, needs, to, "PutItem")
           /\ into(Update(k, needs, to)) = Wire(k, needs, to, "UpdateItem")
           /\ into(ConditionCheck(k, needs)) = Wire(k, needs, "same", "ConditionCheckItem")
  BY DEF into, Put, Update, ConditionCheck, Wire

LEMMA MethodItems ==
    ASSUME NEW id, NEW items
    PROVE  /\ items \in Create(id) =>
                items = {Wire(Req(id), {"absent"}, "pending", "PutItem")}
           /\ items \in Approve(id) =>
                items = {Wire(Req(id), {"pending"}, "approved", "UpdateItem"),
                         Wire(Grant(id), AnyState, "live", "PutItem")}
           /\ items \in Deny(id) =>
                \/ items = {Wire(Req(id), {"pending"}, "denied", "UpdateItem")}
                \/ /\ ChecksConditions
                   /\ items = {Wire(Req(id), {"pending"}, "denied", "UpdateItem"),
                               Wire(Grant(id), {"absent"}, "same", "ConditionCheckItem")}
           /\ items \in Retire(id) =>
                items = {Wire(Grant(id), {"live", "retired"}, "retired", "UpdateItem")}
  <1>1. items \in Create(id) => items = {Wire(Req(id), {"absent"}, "pending", "PutItem")}
    BY WireItems DEF Create, transact_write, Req
  <1>2. items \in Approve(id) =>
          items = {Wire(Req(id), {"pending"}, "approved", "UpdateItem"),
                   Wire(Grant(id), AnyState, "live", "PutItem")}
    <2> DEFINE u == Update(Req(id), {"pending"}, "approved")
               p == Put(Grant(id), AnyState, "live")
    <2>1. {into(i) : i \in {u, p}} = {into(u), into(p)}
      OBVIOUS
    <2> QED
      BY <2>1, WireItems DEF Approve, transact_write, Req, Grant
  <1>3. items \in Deny(id) =>
          \/ items = {Wire(Req(id), {"pending"}, "denied", "UpdateItem")}
          \/ /\ ChecksConditions
             /\ items = {Wire(Req(id), {"pending"}, "denied", "UpdateItem"),
                         Wire(Grant(id), {"absent"}, "same", "ConditionCheckItem")}
    <2> DEFINE u == Update(Req(id), {"pending"}, "denied")
               c == ConditionCheck(Grant(id), {"absent"})
    <2>1. CASE ChecksConditions
      <3>1. {into(i) : i \in {u} \cup {c}} = {into(u), into(c)}
        OBVIOUS
      <3> QED
        BY <2>1, <3>1, WireItems DEF Deny, transact_write, Req, Grant
    <2>2. CASE ~ChecksConditions
      <3>1. {into(i) : i \in {u} \cup {}} = {into(u)}
        OBVIOUS
      <3> QED
        BY <2>2, <3>1, WireItems DEF Deny, transact_write, Req, Grant
    <2> QED
      BY <2>1, <2>2
  <1>4. items \in Retire(id) =>
          items = {Wire(Grant(id), {"live", "retired"}, "retired", "UpdateItem")}
    BY WireItems DEF Retire, single, Grant
  <1> QED
    BY <1>1, <1>2, <1>3, <1>4

LEMMA WrittenOne ==
    ASSUME DOMAIN row = Keys, row = [k \in Keys |-> row[k]], NEW i, i.key \in Keys
    PROVE  Written({i}) = [row EXCEPT ![i.key] = After(i)]
  <1>1. (CHOOSE j \in {i} : j.key = i.key) = i
    OBVIOUS
  <1> QED
    BY <1>1 DEF Written

LEMMA WrittenTwo ==
    ASSUME DOMAIN row = Keys, row = [k \in Keys |-> row[k]],
           NEW i, NEW j, i.key \in Keys, j.key \in Keys, i.key # j.key
    PROVE  Written({i, j}) = [row EXCEPT ![i.key] = After(i), ![j.key] = After(j)]
  <1>1. (CHOOSE x \in {i, j} : x.key = i.key) = i /\ (CHOOSE x \in {i, j} : x.key = j.key) = j
    OBVIOUS
  <1>2. \A k \in Keys : Written({i, j})[k] =
           IF k = i.key THEN After(i) ELSE IF k = j.key THEN After(j) ELSE row[k]
    BY <1>1 DEF Written
  <1>3. Written({i, j}) = [k \in Keys |-> Written({i, j})[k]]
    BY DEF Written
  <1> QED
    BY <1>2, <1>3

\* A request that holds has the effect of its method.
LEMMA Effects ==
    ASSUME TypeOK, NEW id \in Ids, NEW method \in Methods,
           NEW items \in Requests(method, id), Authorized(items), Holds(items),
           row' = Written(items)
    PROVE  Effect(method, id)
  <1>1. Req(id) \in Keys /\ Grant(id) \in Keys /\ Req(id) # Grant(id)
    BY DEF Req, Grant, Keys, Tables
  <1>2. DOMAIN row = Keys /\ row = [k \in Keys |-> row[k]]
    BY DEF TypeOK
  <1>3. CASE method = "Create"
    <2> DEFINE i == Wire(Req(id), {"absent"}, "pending", "PutItem")
    <2>1. items = {i}
      BY <1>3, MethodItems DEF Requests
    <2>2. i.key = Req(id) /\ i.needs = {"absent"} /\ After(i) = "pending"
      BY DEF Wire, After
    <2>3. row[Req(id)] = "absent"
      BY <2>1, <2>2 DEF Holds
    <2>4. row' = [row EXCEPT ![Req(id)] = "pending"]
      <3> HIDE DEF i
      <3> QED
        BY <1>1, <1>2, <2>1, <2>2, WrittenOne
    <2> QED
      BY <1>3, <2>3, <2>4 DEF Effect, Opened
  <1>4. CASE method = "Approve"
    <2> DEFINE i == Wire(Req(id), {"pending"}, "approved", "UpdateItem")
               j == Wire(Grant(id), AnyState, "live", "PutItem")
    <2>1. items = {i, j}
      BY <1>4, MethodItems DEF Requests
    <2>2. i.key = Req(id) /\ i.needs = {"pending"}
      BY DEF Wire
    <2>3. row[Req(id)] = "pending"
      BY <2>1, <2>2 DEF Holds
    <2>4. After(i) = "approved"
      BY <2>3 DEF Wire, After
    <2>5. j.key = Grant(id) /\ After(j) = "live"
      BY DEF Wire, After
    <2>6. row' = [row EXCEPT ![Req(id)] = "approved", ![Grant(id)] = "live"]
      <3> HIDE DEF i, j
      <3> QED
        BY <1>1, <1>2, <2>1, <2>2, <2>4, <2>5, WrittenTwo
    <2> QED
      BY <1>4, <2>3, <2>6 DEF Effect, Approved
  <1>5. CASE method = "Deny"
    <2> DEFINE i == Wire(Req(id), {"pending"}, "denied", "UpdateItem")
               j == Wire(Grant(id), {"absent"}, "same", "ConditionCheckItem")
    <2>1. items = {i}
      <3>1. items = {i} \/ items = {i, j}
        BY <1>5, MethodItems DEF Requests
      <3>2. j.action \notin REQUIRED_ACTIONS
        BY DEF Wire, REQUIRED_ACTIONS
      <3> QED
        BY <3>1, <3>2 DEF Authorized
    <2>2. i.key = Req(id) /\ i.needs = {"pending"}
      BY DEF Wire
    <2>3. row[Req(id)] = "pending"
      BY <2>1, <2>2 DEF Holds
    <2>4. After(i) = "denied"
      BY <2>3 DEF Wire, After
    <2>5. row' = [row EXCEPT ![Req(id)] = "denied"]
      <3> HIDE DEF i
      <3> QED
        BY <1>1, <1>2, <2>1, <2>2, <2>4, WrittenOne
    <2> QED
      BY <1>5, <2>3, <2>5 DEF Effect, Denied
  <1>6. CASE method = "Retire"
    <2> DEFINE i == Wire(Grant(id), {"live", "retired"}, "retired", "UpdateItem")
    <2>1. items = {i}
      BY <1>6, MethodItems DEF Requests
    <2>2. i.key = Grant(id) /\ i.needs = {"live", "retired"}
      BY DEF Wire
    <2>3. row[Grant(id)] \in {"live", "retired"}
      BY <2>1, <2>2 DEF Holds
    <2>4. After(i) = "retired"
      BY <2>3 DEF Wire, After
    <2>5. row' = [row EXCEPT ![Grant(id)] = "retired"]
      <3> HIDE DEF i
      <3> QED
        BY <1>1, <1>2, <2>1, <2>2, <2>4, WrittenOne
    <2> QED
      BY <1>6, <2>3, <2>5 DEF Effect, Retired
  <1> QED
    BY <1>3, <1>4, <1>5, <1>6 DEF Methods

\* Without condition checks nothing is refused.
LEMMA AllAuthorized ==
    ASSUME ~ChecksConditions, NEW id, NEW method \in Methods,
           NEW items \in Requests(method, id)
    PROVE  Authorized(items)
  <1>1. \A i \in items : i.action \in {"PutItem", "UpdateItem"}
    BY MethodItems DEF Requests, Methods, Wire
  <1> QED
    BY <1>1 DEF Authorized, REQUIRED_ACTIONS

-------------------------------------------------------------------------------
LEMMA InitInv == Init => IInv
  <1> SUFFICES ASSUME Init PROVE IInv
    OBVIOUS
  <1>1. TypeOK
    BY DEF Init, TypeOK, Keys, Tables, States, AnyState
  <1>2. RowInv
    BY DEF Init, RowInv, Req, Grant, Keys, Tables
  <1> QED
    BY <1>1, <1>2 DEF Init, IInv, NetworkInv, OkIsDone

\* Sending touches no row, and no call but its own.
LEMMA SendStep ==
    ASSUME IInv, NEW c \in Calls, NEW method \in Methods, NEW id \in Ids,
           Send(c, method, id)
    PROVE  IInv'
  <1> USE DEF IInv
  <1>1. /\ UNCHANGED row
        /\ call[c].phase = "idle"
        /\ call' = [call EXCEPT ![c] = [phase |-> "sent", method |-> method, id |-> id]]
    BY DEF Send
  <1>2. \A d \in Calls : call'[d] = IF d = c
                           THEN [phase |-> "sent", method |-> method, id |-> id]
                           ELSE call[d]
    BY <1>1 DEF TypeOK
  <1>3. \A q \in network : q.call \in Calls /\ q.call # c
    BY <1>1 DEF TypeOK
  <1>4. \A q \in network' : \/ q \in network
                            \/ /\ q.call = c
                               /\ q.items \in Requests(method, id)
    BY DEF Send
  <1>5. TypeOK'
    <2>1. call' \in [Calls ->
            [phase : {"idle"}] \cup
            [phase : {"sent", "Ok", "Cancelled", "AccessDenied", "Unknown"},
             method : Methods, id : Ids]]
      BY <1>1 DEF TypeOK
    <2>2. \A q \in network' : q.call \in Calls /\ call'[q.call].phase # "idle"
      BY <1>2, <1>3, <1>4 DEF TypeOK
    <2> QED
      BY <1>1, <2>1, <2>2 DEF TypeOK
  <1>6. RowInv'
    BY <1>1 DEF RowInv
  <1>7. NetworkInv'
    <2> SUFFICES ASSUME NEW q \in network'
                 PROVE  /\ call'[q.call].method \in Methods /\ call'[q.call].id \in Ids
                        /\ q.items \in Requests(call'[q.call].method, call'[q.call].id)
      BY DEF NetworkInv, Requests, Create, Approve, Deny, Retire
    <2>1. CASE q \in network
      BY <1>2, <1>3, <2>1 DEF NetworkInv
    <2>2. CASE q.call = c /\ q.items \in Requests(method, id)
      BY <1>2, <2>2
    <2> QED
      BY <1>4, <2>1, <2>2
  <1>8. OkIsDone'
    <2>1. \A d \in Calls : call'[d].phase = "Ok" => call'[d] = call[d]
      BY <1>2
    <2> QED
      BY <1>1, <2>1 DEF OkIsDone, Done
  <1> QED
    BY <1>5, <1>6, <1>7, <1>8

LEMMA GiveUpStep ==
    ASSUME IInv, NEW c \in Calls, GiveUp(c)
    PROVE  IInv'
  <1> USE DEF IInv
  <1>1. /\ UNCHANGED <<row, network>>
        /\ call[c].phase = "sent"
        /\ call' = [call EXCEPT ![c].phase = "Unknown"]
    BY DEF GiveUp
  <1>2. \A d \in Calls : call'[d] = IF d = c THEN [call[c] EXCEPT !.phase = "Unknown"] ELSE call[d]
    BY <1>1 DEF TypeOK
  <1>3. call[c] \in [phase : {"sent"}, method : Methods, id : Ids]
    BY <1>1 DEF TypeOK
  <1>4. TypeOK'
    BY <1>1, <1>2, <1>3 DEF TypeOK
  <1>5. RowInv' /\ NetworkInv'
    BY <1>1, <1>2, <1>3 DEF RowInv, NetworkInv, TypeOK, Requests, Create, Approve, Deny, Retire
  <1>6. OkIsDone'
    <2>1. \A d \in Calls : call'[d].phase = "Ok" => call'[d] = call[d]
      BY <1>2, <1>3
    <2> QED
      BY <1>1, <2>1 DEF OkIsDone, Done
  <1> QED
    BY <1>4, <1>5, <1>6

\* What an executed request does to the rows: nothing, or its method's effect.
LEMMA ExecuteRows ==
    ASSUME IInv, NEW q \in network, Execute(q)
    PROVE  /\ call[q.call].method \in Methods /\ call[q.call].id \in Ids
           /\ \/ UNCHANGED row
              \/ Effect(call[q.call].method, call[q.call].id)
  <1>1. /\ call[q.call].method \in Methods /\ call[q.call].id \in Ids
        /\ q.items \in Requests(call[q.call].method, call[q.call].id)
    BY DEF IInv, NetworkInv
  <1>2. UNCHANGED row \/ (Authorized(q.items) /\ Holds(q.items) /\ row' = Written(q.items))
    BY DEF Execute
  <1> QED
    BY <1>1, <1>2, Effects DEF IInv

\* An effect keeps every request and its grant in step, is what its method
\* reports, and undoes nothing that another call reported.
LEMMA EffectKeeps ==
    ASSUME TypeOK, RowInv, NEW method \in Methods, NEW id \in Ids, Effect(method, id)
    PROVE  /\ row' \in [Keys -> AnyState]
           /\ \A k \in Keys : row'[k] \in States(k[1])
           /\ RowInv'
           /\ Done(method, id)'
           /\ \A m \in Methods, j \in Ids : Done(m, j) => Done(m, j)'
           /\ \A j \in Ids : row[Grant(j)] = "retired" => row'[Grant(j)] = "retired"
  <1>1. \A j \in Ids : /\ Req(j) \in Keys /\ Grant(j) \in Keys
                       /\ row[Req(j)] \in States("request")
                       /\ row[Grant(j)] \in States("grant")
                       /\ Req(j)[1] = "request" /\ Grant(j)[1] = "grant"
    BY DEF TypeOK, Req, Grant, Keys, Tables
  <1>2. \A i, j \in Ids : /\ Req(i) # Grant(j)
                          /\ Req(i) = Req(j) <=> i = j
                          /\ Grant(i) = Grant(j) <=> i = j
    BY DEF Req, Grant
  <1>3. /\ row \in [Keys -> AnyState]
        /\ \A k \in Keys : row[k] \in States(k[1])
        /\ \A t \in {"request", "grant"} : States(t) \subseteq AnyState
        /\ {"absent", "pending", "approved", "denied"} = States("request")
        /\ {"absent", "live", "retired"} = States("grant")
    BY DEF TypeOK, States, AnyState
  <1>4. \A m \in Methods, j \in Ids :
          /\ Done(m, j) <=>
               CASE m = "Create" -> row[Req(j)] # "absent"
                 [] m = "Approve" -> row[Req(j)] = "approved" /\ row[Grant(j)] # "absent"
                 [] m = "Deny" -> row[Req(j)] = "denied" /\ row[Grant(j)] = "absent"
                 [] m = "Retire" -> row[Req(j)] = "approved" /\ row[Grant(j)] = "retired"
          /\ Done(m, j)' <=>
               CASE m = "Create" -> row'[Req(j)] # "absent"
                 [] m = "Approve" -> row'[Req(j)] = "approved" /\ row'[Grant(j)] # "absent"
                 [] m = "Deny" -> row'[Req(j)] = "denied" /\ row'[Grant(j)] = "absent"
                 [] m = "Retire" -> row'[Req(j)] = "approved" /\ row'[Grant(j)] = "retired"
    BY DEF Done, Req, Grant
  <1>5. CASE method = "Create"
    <2>1. row[Req(id)] = "absent" /\ row' = [row EXCEPT ![Req(id)] = "pending"]
      BY <1>5 DEF Effect, Opened
    <2>2. /\ row'[Req(id)] = "pending"
          /\ \A k \in Keys \ {Req(id)} : row'[k] = row[k]
      BY <1>1, <1>3, <2>1
    <2> QED
      BY <1>1, <1>2, <1>3, <1>4, <1>5, <2>1, <2>2 DEF RowInv, Methods
  <1>6. CASE method = "Approve"
    <2>1. /\ row[Req(id)] = "pending"
          /\ row' = [row EXCEPT ![Req(id)] = "approved", ![Grant(id)] = "live"]
      BY <1>6 DEF Effect, Approved
    <2>2. /\ row'[Req(id)] = "approved" /\ row'[Grant(id)] = "live"
          /\ \A k \in Keys \ {Req(id), Grant(id)} : row'[k] = row[k]
      BY <1>1, <1>2, <1>3, <2>1
    <2> QED
      BY <1>1, <1>2, <1>3, <1>4, <1>6, <2>1, <2>2 DEF RowInv, Methods
  <1>7. CASE method = "Deny"
    <2>1. row[Req(id)] = "pending" /\ row' = [row EXCEPT ![Req(id)] = "denied"]
      BY <1>7 DEF Effect, Denied
    <2>2. /\ row'[Req(id)] = "denied"
          /\ \A k \in Keys \ {Req(id)} : row'[k] = row[k]
      BY <1>1, <1>3, <2>1
    <2> QED
      BY <1>1, <1>2, <1>3, <1>4, <1>7, <2>1, <2>2 DEF RowInv, Methods
  <1>8. CASE method = "Retire"
    <2>1. /\ row[Grant(id)] \in {"live", "retired"}
          /\ row' = [row EXCEPT ![Grant(id)] = "retired"]
      BY <1>8 DEF Effect, Retired
    <2>2. /\ row'[Grant(id)] = "retired"
          /\ \A k \in Keys \ {Grant(id)} : row'[k] = row[k]
      BY <1>1, <1>3, <2>1
    <2> QED
      BY <1>1, <1>2, <1>3, <1>4, <1>8, <2>1, <2>2 DEF RowInv, Methods
  <1> QED
    BY <1>5, <1>6, <1>7, <1>8 DEF Methods

LEMMA ExecuteStep ==
    ASSUME IInv, NEW q \in network, Execute(q)
    PROVE  IInv'
  <1> USE DEF IInv
  <1> DEFINE c == q.call
             m == call[c].method
             id == call[c].id
  <1>1. c \in Calls /\ call[c].phase # "idle" /\ m \in Methods /\ id \in Ids
    BY DEF TypeOK, NetworkInv
  <1>2. UNCHANGED network
    BY DEF Execute
  <1>3. \/ call' = call
        \/ /\ call[c].phase = "sent"
           /\ \E v \in {"Ok", "Cancelled", "AccessDenied"} :
                /\ call' = [call EXCEPT ![c].phase = v]
                /\ v = "Ok" => Effect(m, id)
    <2>1. CASE Authorized(q.items) /\ Holds(q.items)
      <3>1. Effect(m, id)
        BY <1>1, <2>1, Effects DEF Execute, NetworkInv
      <3> QED
        BY <2>1, <3>1 DEF Execute
    <2>2. CASE ~(Authorized(q.items) /\ Holds(q.items))
      BY <2>2 DEF Execute
    <2> QED
      BY <2>1, <2>2
  <1>4. UNCHANGED row \/ Effect(m, id)
    BY ExecuteRows
  <1>5. /\ row' \in [Keys -> AnyState] /\ \A k \in Keys : row'[k] \in States(k[1])
        /\ RowInv'
        /\ \A x \in Methods, j \in Ids : Done(x, j) => Done(x, j)'
    <2>1. CASE UNCHANGED row
      BY <2>1 DEF TypeOK, RowInv, Done
    <2>2. CASE Effect(m, id)
      BY <1>1, <2>2, EffectKeeps
    <2> QED
      BY <1>4, <2>1, <2>2
  <1> DEFINE Heard(d) == /\ d = c
                         /\ call'[d] \in [phase : {"Ok", "Cancelled", "AccessDenied"},
                                          method : {m}, id : {id}]
                         /\ call'[d].phase = "Ok" => Effect(m, id)
  <1>6. \A d \in Calls : call'[d] = call[d] \/ Heard(d)
    <2>1. CASE call' = call
      BY <2>1
    <2>2. ASSUME call[c].phase = "sent", NEW v \in {"Ok", "Cancelled", "AccessDenied"},
                 call' = [call EXCEPT ![c].phase = v], v = "Ok" => Effect(m, id)
          PROVE  \A d \in Calls : call'[d] = call[d] \/ Heard(d)
      <3>1. call[c] \in [phase : {"sent"}, method : Methods, id : Ids]
        BY <1>1, <2>2 DEF TypeOK
      <3>2. call'[c] = [call[c] EXCEPT !.phase = v] /\ \A d \in Calls \ {c} : call'[d] = call[d]
        BY <1>1, <2>2 DEF TypeOK
      <3> QED
        BY <2>2, <3>1, <3>2
    <2> QED
      BY <1>3, <2>1, <2>2
  <1>7. \A d \in Calls : call[d].phase = "Ok" => call[d].method \in Methods /\ call[d].id \in Ids
    BY DEF TypeOK
  <1>8. OkIsDone'
    <2>1. \A x \in Methods, j \in Ids : Effect(x, j) => Done(x, j)'
      BY EffectKeeps
    <2>2. \A d \in Calls : call'[d].phase = "Ok" =>
            \A x \in Methods, j \in Ids :
              x = call'[d].method /\ j = call'[d].id => Done(x, j)'
      <3> SUFFICES ASSUME NEW d \in Calls, call'[d].phase = "Ok",
                          NEW x \in Methods, NEW j \in Ids,
                          x = call'[d].method, j = call'[d].id
                   PROVE  Done(x, j)'
        OBVIOUS
      <3>1. CASE call'[d] = call[d]
        BY <1>5, <3>1 DEF OkIsDone
      <3>2. CASE x = m /\ j = id /\ Effect(m, id)
        BY <2>1, <3>2
      <3> QED
        BY <1>6, <3>1, <3>2
    <2>3. \A d \in Calls : call'[d].phase = "Ok"
                             => call'[d].method \in Methods /\ call'[d].id \in Ids
      BY <1>1, <1>6, <1>7
    <2> QED
      BY <2>2, <2>3 DEF OkIsDone, Done
  <1>9. NetworkInv'
    <2>1. \A p \in network : call'[p.call].method = call[p.call].method
                             /\ call'[p.call].id = call[p.call].id
      BY <1>6 DEF TypeOK
    <2> QED
      BY <1>2, <2>1 DEF NetworkInv, Requests, Create, Approve, Deny, Retire
  <1>10. TypeOK'
    <2>1. \A d \in Calls : call'[d] \in [phase : {"idle"}] \cup
            [phase : {"sent", "Ok", "Cancelled", "AccessDenied", "Unknown"},
             method : Methods, id : Ids]
      BY <1>1, <1>6 DEF TypeOK
    <2>2. call' = [d \in Calls |-> call'[d]]
      BY <1>3 DEF TypeOK
    <2>3. \A d \in Calls : call[d].phase # "idle" => call'[d].phase # "idle"
      BY <1>6
    <2> QED
      BY <1>2, <1>5, <2>1, <2>2, <2>3 DEF TypeOK
  <1> QED
    BY <1>5, <1>8, <1>9, <1>10

LEMMA NextInv == IInv /\ [Next]_vars => IInv'
  <1> SUFFICES ASSUME IInv, [Next]_vars PROVE IInv'
    OBVIOUS
  <1>1. ASSUME NEW c \in Calls, NEW method \in Methods, NEW id \in Ids, Send(c, method, id)
        PROVE  IInv'
    BY <1>1, SendStep
  <1>2. ASSUME NEW c \in Calls, GiveUp(c) PROVE IInv'
    BY <1>2, GiveUpStep
  <1>3. ASSUME NEW q \in network, Execute(q) PROVE IInv'
    BY <1>3, ExecuteStep
  <1>4. CASE UNCHANGED vars
    BY <1>4 DEF vars, IInv, TypeOK, RowInv, NetworkInv, OkIsDone, Done, Requests,
                Create, Approve, Deny, Retire
  <1> QED
    BY <1>1, <1>2, <1>3, <1>4 DEF Next

\* The inductive invariant: each grant in step with its request, the network
\* holding only what its calls sent, every reported success still so.
THEOREM Invariance == Spec => []IInv
  BY InitInv, NextInv, PTL DEF Spec

\* The rows stay in the states the store writes, for any number of calls: no row
\* comes to be by an update alone (the attribute_exists guard).
THEOREM TypeCorrect == Spec => []TypeOK
  <1>1. IInv => TypeOK
    BY DEF IInv
  <1> QED
    BY <1>1, Invariance, PTL

\* A transaction that reported success is visible ever after, for any number of
\* calls: approvals exclude denials (transact_write).
THEOREM SuccessStands == Spec => []OkIsDone
  <1>1. IInv => OkIsDone
    BY DEF IInv
  <1> QED
    BY <1>1, Invariance, PTL

\* Puts and updates through the type are never refused: a store that puts no
\* ConditionCheck into its transactions needs nothing beyond REQUIRED_ACTIONS.
THEOREM NothingRefused == ASSUME ~ChecksConditions PROVE Spec => []NeverRefused
  <1>1. Init => NeverRefused
    BY DEF Init, NeverRefused
  <1>2. IInv /\ NeverRefused /\ [Next]_vars => NeverRefused'
    <2> SUFFICES ASSUME IInv, NeverRefused, [Next]_vars PROVE NeverRefused'
      OBVIOUS
    <2>1. ASSUME NEW c \in Calls, NEW method \in Methods, NEW id \in Ids,
                 Send(c, method, id)
          PROVE  NeverRefused'
      BY <2>1 DEF Send, NeverRefused, IInv, TypeOK
    <2>2. ASSUME NEW c \in Calls, GiveUp(c) PROVE NeverRefused'
      BY <2>2 DEF GiveUp, NeverRefused, IInv, TypeOK
    <2>3. ASSUME NEW q \in network, Execute(q) PROVE NeverRefused'
      <3>1. Authorized(q.items)
        BY AllAuthorized DEF IInv, NetworkInv
      <3>2. q.call \in Calls
        BY DEF IInv, TypeOK
      <3>3. \/ call' = call
            \/ \E v \in {"Ok", "Cancelled"} : call' = [call EXCEPT ![q.call].phase = v]
        BY <2>3, <3>1 DEF Execute
      <3> QED
        BY <3>2, <3>3 DEF NeverRefused, IInv, TypeOK
    <2>4. CASE UNCHANGED vars
      BY <2>4 DEF vars, NeverRefused
    <2> QED
      BY <2>1, <2>2, <2>3, <2>4 DEF Next
  <1> QED
    BY <1>1, <1>2, Invariance, PTL DEF Spec

\* What one step may do to the rows: nothing, or one method's effect.
LEMMA StepRows ==
    ASSUME IInv, [Next]_vars
    PROVE  UNCHANGED row \/ \E method \in Methods, id \in Ids : Effect(method, id)
  <1>1. ASSUME NEW q \in network, Execute(q)
        PROVE  UNCHANGED row \/ \E method \in Methods, id \in Ids : Effect(method, id)
    BY <1>1, ExecuteRows
  <1> QED
    BY <1>1 DEF Next, Send, GiveUp, vars

\* Tombstones stay: the approval's unconditional put of a grant is guarded by the
\* condition on the request in the same transaction, which RowInv makes enough.
THEOREM TombstoneStays == Spec => RetiredStays
  <1> DEFINE Stays == \A id \in Ids : row[<<"grant", id>>] = "retired"
                                        => row'[<<"grant", id>>] = "retired"
  <1>1. IInv /\ [Next]_vars => Stays
    <2> SUFFICES ASSUME IInv, [Next]_vars PROVE Stays
      OBVIOUS
    <2>1. CASE UNCHANGED row
      BY <2>1
    <2>2. ASSUME NEW method \in Methods, NEW id \in Ids, Effect(method, id) PROVE Stays
      BY <2>2, EffectKeeps DEF IInv, Grant
    <2> QED
      BY <2>1, <2>2, StepRows
  <1> HIDE DEF Stays
  <1>2. IInv /\ [Next]_vars => [Stays]_vars
    BY <1>1
  <1>3. Spec => [][Stays]_vars
    BY <1>2, Invariance, PTL DEF Spec
  <1> QED
    BY <1>3 DEF RetiredStays, Stays

\* Calls, repeats and lost answers implement Approvals: an executed request is one
\* of its steps, and a cancelled or repeated one none.
THEOREM Refinement == Spec => ImplementsApprovals
  <1> DEFINE request == [id \in Ids |-> row[<<"request", id>>]]
             grant == [id \in Ids |-> row[<<"grant", id>>]]
  <1>1. Init => Ledger!Init
    BY DEF Init, Ledger!Init, Keys, Tables
  <1>2. IInv /\ [Next]_vars => [Ledger!Next]_<<request, grant>>
    <2> SUFFICES ASSUME IInv, [Next]_vars PROVE [Ledger!Next]_<<request, grant>>
      OBVIOUS
    <2>1. CASE UNCHANGED row
      BY <2>1
    <2>2. ASSUME NEW method \in Methods, NEW id \in Ids, Effect(method, id)
          PROVE  [Ledger!Next]_<<request, grant>>
      <3>1. /\ row \in [Keys -> AnyState]
            /\ \A j \in Ids : /\ Req(j) \in Keys /\ Grant(j) \in Keys /\ Req(j) # Grant(id)
                              /\ Grant(j) # Req(id) /\ row[Grant(j)] \in States("grant")
                              /\ Req(j) = Req(id) <=> j = id
                              /\ Grant(j) = Grant(id) <=> j = id
        BY DEF IInv, TypeOK, Req, Grant, Keys, Tables
      <3>2. \A j \in Ids : request[j] = row[Req(j)] /\ grant[j] = row[Grant(j)]
        BY DEF Req, Grant
      <3>3. /\ request' = [j \in Ids |-> row'[Req(j)]]
            /\ grant' = [j \in Ids |-> row'[Grant(j)]]
        BY DEF Req, Grant
      <3>4. CASE method = "Create"
        <4>1. row[Req(id)] = "absent" /\ row' = [row EXCEPT ![Req(id)] = "pending"]
          BY <2>2, <3>4 DEF Effect, Opened
        <4>2. request[id] = "absent" /\ request' = [request EXCEPT ![id] = "pending"]
          BY <3>1, <3>2, <3>3, <4>1
        <4>3. grant' = grant
          BY <3>1, <3>2, <3>3, <4>1
        <4> QED
          BY <4>2, <4>3 DEF Ledger!Next, Ledger!Open
      <3>5. CASE method = "Approve"
        <4>1. /\ row[Req(id)] = "pending"
              /\ row' = [row EXCEPT ![Req(id)] = "approved", ![Grant(id)] = "live"]
          BY <2>2, <3>5 DEF Effect, Approved
        <4>2. request[id] = "pending" /\ request' = [request EXCEPT ![id] = "approved"]
          BY <3>1, <3>2, <3>3, <4>1
        <4>3. grant[id] = "absent" /\ grant' = [grant EXCEPT ![id] = "live"]
          BY <3>1, <3>2, <3>3, <4>1 DEF IInv, RowInv
        <4> QED
          BY <4>2, <4>3 DEF Ledger!Next, Ledger!Approve
      <3>6. CASE method = "Deny"
        <4>1. row[Req(id)] = "pending" /\ row' = [row EXCEPT ![Req(id)] = "denied"]
          BY <2>2, <3>6 DEF Effect, Denied
        <4>2. request[id] = "pending" /\ request' = [request EXCEPT ![id] = "denied"]
          BY <3>1, <3>2, <3>3, <4>1
        <4>3. grant' = grant
          BY <3>1, <3>2, <3>3, <4>1
        <4> QED
          BY <4>2, <4>3 DEF Ledger!Next, Ledger!Deny
      <3>7. CASE method = "Retire"
        <4>1. row[Grant(id)] \in {"live", "retired"}
              /\ row' = [row EXCEPT ![Grant(id)] = "retired"]
          BY <2>2, <3>7 DEF Effect, Retired
        <4>2. request' = request
          BY <3>1, <3>2, <3>3, <4>1
        <4>3. grant' = [grant EXCEPT ![id] = "retired"] /\ grant[id] \in {"live", "retired"}
          BY <3>1, <3>2, <3>3, <4>1
        <4>4. grant[id] = "retired" => grant' = grant
          BY <4>3
        <4> QED
          BY <4>2, <4>3, <4>4 DEF Ledger!Next, Ledger!Retire
      <3> QED
        BY <3>4, <3>5, <3>6, <3>7 DEF Methods
    <2> QED
      BY <2>1, <2>2, StepRows
  <1> QED
    BY <1>1, <1>2, Invariance, PTL DEF ImplementsApprovals, Ledger!Spec, Spec

-------------------------------------------------------------------------------
\* What a ConditionCheck costs.

\* The denial of a store that checks conditions needs an action outside the grant.
LEMMA DenyUnauthorized ==
    ASSUME ChecksConditions, NEW id, NEW items \in Deny(id)
    PROVE  ~Authorized(items)
  <1> DEFINE j == into(ConditionCheck(<<"grant", id>>, {"absent"}))
  <1>1. j \in items
    BY DEF Deny, transact_write
  <1>2. j.action = "ConditionCheckItem"
    BY WireItems DEF Wire
  <1> QED
    BY <1>1, <1>2 DEF Authorized, REQUIRED_ACTIONS

NothingDenied ==
    /\ \A id \in Ids : row[<<"request", id>>] # "denied"
    /\ \A c \in Calls : call[c].phase = "Ok" => call[c].method # "Deny"

\* A store that does what VaultTransactItem offers, and guards its denials with a
\* ConditionCheck, never denies anything: IAM refuses every such transaction whole
\* (REQUIRED_ACTIONS has no ConditionCheckItem).
THEOREM ChecksBarDenials == ASSUME ChecksConditions PROVE Spec => []NothingDenied
  <1> DEFINE Undenied == \A id \in Ids : row[<<"request", id>>] # "denied"
  <1>1. Init => Undenied
    BY DEF Init, Keys, Tables
  <1>2. IInv /\ Undenied /\ [Next]_vars => Undenied'
    <2> SUFFICES ASSUME IInv, Undenied, [Next]_vars PROVE Undenied'
      OBVIOUS
    <2>1. ASSUME NEW q \in network, Execute(q) PROVE Undenied'
      <3> DEFINE method == call[q.call].method
                 id == call[q.call].id
      <3>1. method \in Methods /\ id \in Ids /\ q.items \in Requests(method, id)
        BY DEF IInv, NetworkInv
      <3>2. \/ UNCHANGED row
            \/ Authorized(q.items) /\ Effect(method, id)
        BY <2>1, <3>1, Effects DEF IInv, Execute
      <3>3. method = "Deny" => ~Authorized(q.items)
        BY <3>1, DenyUnauthorized DEF Requests
      <3> HIDE DEF method, id
      <3>4. \A i \in Ids : Req(i) \in Keys /\ Grant(i) \in Keys
        BY DEF Req, Grant, Keys, Tables
      <3>5. row \in [Keys -> AnyState]
        BY DEF IInv, TypeOK
      <3>6. \A i, k \in Ids : Req(i) # Grant(k)
        BY DEF Req, Grant
      <3>7. Undenied' <=> \A i \in Ids : row'[Req(i)] # "denied"
        BY DEF Req
      <3>8. \A i \in Ids : row[Req(i)] # "denied"
        BY DEF Req
      <3>9. CASE Effect(method, id) /\ method # "Deny"
        BY <3>1, <3>4, <3>5, <3>6, <3>7, <3>8, <3>9
           DEF Effect, Methods, Opened, Approved, Retired
      <3> QED
        BY <3>2, <3>3, <3>9
    <2> QED
      BY <2>1 DEF Next, Send, GiveUp, vars
  <1>3. IInv /\ Undenied => NothingDenied
    <2> SUFFICES ASSUME IInv, Undenied, NEW c \in Calls, call[c].phase = "Ok"
                 PROVE  call[c].method # "Deny"
      BY DEF NothingDenied
    <2>1. Done(call[c].method, call[c].id) /\ call[c].id \in Ids
      BY DEF IInv, OkIsDone, TypeOK
    <2> QED
      BY <2>1 DEF Done
  <1> HIDE DEF Undenied
  <1> QED
    BY <1>1, <1>2, <1>3, Invariance, PTL DEF Spec
===============================================================================
