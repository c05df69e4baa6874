------------------------------- MODULE AppBackend -------------------------------
(***************************************************************************)
(* A backend built from platform-lambda (serve, the store selector, the    *)
(* health router), platform-sg-graph-client and platform-http-error.  Its  *)
(* process starts, is told to stop, is killed and started again; requests  *)
(* come meanwhile, and a request to join the app makes three calls to the  *)
(* Social Graph and then writes the store.  The app's handlers, the Social *)
(* Graph, DynamoDB and the server axum are not in this repository.         *)
(***************************************************************************)
EXTENDS FiniteSets, ErrorResponse, GraphClient

CONSTANTS
    Requests,           \* requests that clients may send
    Users,              \* users, and their graph-access tokens
    bearer,             \* the user whose token a request carries
    Redirecting,        \* whether what stands before the Social Graph may
                        \*   answer with a redirect
    MaxRuns             \* bound: how often the process is started

ASSUME BackendAssumption ==
    /\ bearer \in [Requests -> Users]
    /\ Redirecting \in BOOLEAN
    /\ MaxRuns \in Nat

VARIABLES
    env,        \* the variables serve and the store selector read
    proc,       \* the process: its phase, whether it has its signal handlers,
                \*   the signals they caught, its store's kind and the label
                \*   for it, and which run it is
    stage,      \* where each request is
    reply,      \* the Social Graph's reply to a request's call
    answer,     \* the answer to a request
    graph,      \* the Social Graph: the tokens it accepts, the app's members
    memory,     \* the joins in the process's own store
    table,      \* the joins in the DynamoDB table
    joined      \* joins answered with 200: the user, the label told, the run

vars == <<env, proc, stage, reply, answer, graph, memory, table, joined>>

-------------------------------------------------------------------------------
\* platform-lambda.

\* std::env::var: a value that is not Unicode counts as none.
var_ok(value) == value \notin {"unset", "not Unicode"}

\* Mutant: a label the info page does not know.
select_dynamo_or_memory_Label(value) ==
    IF var_ok(value) THEN [store |-> "dynamodb", label |-> "dynamo"]
                     ELSE [store |-> "memory", label |-> "memory"]

\* Mutant: a blank variable selects the memory store under the other's label.
select_dynamo_or_memory_Blank(value) ==
    [store |-> IF var_ok(value) /\ value # "blank" THEN "dynamodb" ELSE "memory",
     label |-> IF var_ok(value) THEN "dynamodb" ELSE "memory"]

\* The store is chosen by the variable's presence.
select_dynamo_or_memory(value) ==
    IF var_ok(value) THEN [store |-> "dynamodb", label |-> "dynamodb"]
                     ELSE [store |-> "memory", label |-> "memory"]

\* serve, up to the point where requests come: the bind variable is parsed, then
\* Lambda is detected, then the address is bound, if it is free.
serve(bind, lambda, free) ==
    IF bind = "junk" THEN "panicked"
    ELSE IF lambda THEN "lambda"
    ELSE IF free THEN "serving" ELSE "panicked"

Signals == {"SIGINT", "SIGTERM"}

\* Mutant: no handler for SIGTERM, which then ends the process at once.
Handled_Interrupt == {"SIGINT"}

\* The signals shutdown_signal installs handlers for when it is first polled.
Handled == {"SIGINT", "SIGTERM"}

\* Mutant: both are awaited (join! for select!).
shutdown_signal_Both(caught) == Handled \subseteq caught

\* shutdown_signal completes with the first of them.
shutdown_signal(caught) == Handled \cap caught # {}

\* The health router's only page, and 404 for every other path.
Health_ok == [status |-> 200, body |-> "ok"]
health_router(path) ==
    IF path = "/health" THEN Health_ok ELSE [status |-> 404, body |-> "empty"]

\* The info that a service shows on a page of its own.
ServiceInfo(label) == [status |-> 200, body |-> label]

-------------------------------------------------------------------------------
Paths == {"/health", "/healthz"}
Serving == {"serving", "draining", "lambda"}
InFlight(r) == stage[r] \in Endpoints \cup {"write"}
Waiting == [status |-> 0, body |-> "waiting"]
NotYet == [status |-> 0, body |-> "none"]
Dead(phase) == [phase |-> phase, armed |-> FALSE, caught |-> {}, store |-> "none",
                label |-> "none", run |-> proc.run]

Init ==
    /\ env \in [bind : {"fit", "junk"}, lambda : BOOLEAN,
                table : {"unset", "not Unicode", "blank", "named"}]
    /\ proc = [phase |-> "down", armed |-> FALSE, caught |-> {}, store |-> "none",
               label |-> "none", run |-> 0]
    /\ stage = [r \in Requests |-> "idle"]
    /\ reply = [r \in Requests |-> NotYet]
    /\ answer = [r \in Requests |-> NotYet]
    /\ graph = [accepts |-> Users, members |-> {}]
    /\ memory = {} /\ table = {} /\ joined = {}

\* The process: select_dynamo_or_memory, then serve.
Start(free) ==
    LET chosen == select_dynamo_or_memory(env.table)
        phase == serve(env.bind, env.lambda, free)
    IN  /\ proc.phase \notin Serving /\ proc.run < MaxRuns
        /\ proc' = IF phase = "panicked"
                     THEN [Dead(phase) EXCEPT !.run = @ + 1]
                     ELSE [phase |-> phase, armed |-> FALSE, caught |-> {},
                           store |-> chosen.store, label |-> chosen.label,
                           run |-> proc.run + 1]
        /\ memory' = {}
        /\ UNCHANGED <<env, stage, reply, answer, graph, table, joined>>

\* axum first polls shutdown_signal, some time after the address is bound.
Arm ==
    /\ proc.phase = "serving" /\ ~proc.armed
    /\ proc' = [proc EXCEPT !.armed = TRUE]
    /\ UNCHANGED <<env, stage, reply, answer, graph, memory, table, joined>>

\* The process is gone, for this cause, and with it the requests in flight.
Dies(cause) ==
    /\ proc' = Dead("dead")
    /\ stage' = [r \in Requests |-> IF InFlight(r) THEN "lost" ELSE stage[r]]
    /\ answer' = [r \in Requests |-> IF InFlight(r) THEN [status |-> 0, body |-> cause]
                                                    ELSE answer[r]]
    /\ UNCHANGED <<env, reply, graph, memory, table, joined>>

\* A crash, or Lambda's end of an invocation or an instance.
Kill == proc.phase \in Serving /\ Dies("killed")

\* A signal: caught, or the end of a process without a handler for it.
Signal(s) ==
    /\ proc.phase \in Serving
    /\ IF proc.armed /\ s \in Handled
         THEN /\ proc' = [proc EXCEPT !.caught = @ \cup {s}]
              /\ UNCHANGED <<env, stage, reply, answer, graph, memory, table, joined>>
         ELSE Dies(IF proc.armed THEN s ELSE "unarmed")

\* with_graceful_shutdown: no more is accepted, and what is in flight is finished.
Shutdown ==
    /\ proc.phase = "serving" /\ proc.armed /\ shutdown_signal(proc.caught)
    /\ proc' = [proc EXCEPT !.phase = "draining"]
    /\ UNCHANGED <<env, stage, reply, answer, graph, memory, table, joined>>

Drained ==
    /\ proc.phase = "draining" /\ \A r \in Requests : ~InFlight(r)
    /\ proc' = Dead("ended")
    /\ UNCHANGED <<env, stage, reply, answer, graph, memory, table, joined>>

-------------------------------------------------------------------------------
\* Requests.

\* run_lambda hands the app one event at a time.
run_lambda == proc.phase = "lambda" /\ \A r \in Requests : ~InFlight(r)
Accepting(r) == stage[r] = "idle" /\ (proc.phase = "serving" \/ run_lambda)

Answer(r, end, response) ==
    /\ stage' = [stage EXCEPT ![r] = end]
    /\ answer' = [answer EXCEPT ![r] = response]

\* A page of the router, the service's info, or the error a handler ends in.
Page(r) ==
    /\ Accepting(r)
    /\ \/ \E path \in Paths : Answer(r, "served", health_router(path))
       \/ Answer(r, "served", ServiceInfo(proc.label))
       \/ \E error \in ApiError : Answer(r, "served", into_response(error))
    /\ UNCHANGED <<env, proc, reply, graph, memory, table, joined>>

\* A handler that calls the Social Graph, at this endpoint.
Calls(r, endpoint) ==
    /\ stage' = [stage EXCEPT ![r] = endpoint]
    /\ reply' = [reply EXCEPT ![r] = Waiting]

Join(r) ==
    /\ Accepting(r)
    /\ Calls(r, "me")
    /\ UNCHANGED <<env, proc, answer, graph, memory, table, joined>>

\* The errors an app makes of one of its own or of the client's.
Mapped == {"Internal", "ServiceUnavailable"}
Fails(r) == \E error \in Mapped : Answer(r, "answered", into_response(error))

\* The handler goes on with a reply: the caller, the membership, the connections.
Handle(r) ==
    /\ reply[r] # Waiting
    /\ \/ /\ stage[r] = "me"
          /\ LET me == resolve_me(reply[r])
             IN  CASE me.kind = "Ok" -> Calls(r, "membership") /\ UNCHANGED answer
                   [] me.kind = "None" -> /\ Answer(r, "answered", into_response("Unauthorized"))
                                          /\ UNCHANGED reply
                   [] me.kind = "Err" -> Fails(r) /\ UNCHANGED reply
       \/ /\ stage[r] = "membership"
          /\ IF register_membership(reply[r]).kind = "Ok"
               THEN Calls(r, "connections") /\ UNCHANGED answer
               ELSE Fails(r) /\ UNCHANGED reply
       \/ /\ stage[r] = "connections"
          /\ UNCHANGED reply
          /\ IF connections_members(reply[r]).kind = "Ok"
               THEN stage' = [stage EXCEPT ![r] = "write"] /\ UNCHANGED answer
               ELSE Fails(r)
    /\ UNCHANGED <<env, proc, graph, memory, table, joined>>

\* The write, into the store that was selected; DynamoDB may fail, with or without
\* having written, and always does for a table without a name.
Write(r) ==
    LET user == bearer[r]
        told == /\ Answer(r, "answered", [status |-> 200, body |-> "joined"])
                /\ joined' = joined \cup {[user |-> user, label |-> proc.label,
                                           run |-> proc.run]}
    IN  /\ stage[r] = "write"
        /\ \/ /\ proc.store = "memory"
              /\ memory' = memory \cup {user} /\ UNCHANGED table
              /\ told
           \/ /\ proc.store = "dynamodb" /\ env.table = "named"
              /\ table' = table \cup {user} /\ UNCHANGED memory
              /\ told \/ (Fails(r) /\ UNCHANGED joined)
           \/ /\ proc.store = "dynamodb"
              /\ Fails(r)
              /\ UNCHANGED <<memory, table, joined>>
        /\ UNCHANGED <<env, proc, reply, graph>>

\* The client closes its connection: axum drops the handler where it waits.
ClientLeaves(r) ==
    /\ InFlight(r)
    /\ stage' = [stage EXCEPT ![r] = "left"]
    /\ UNCHANGED <<env, proc, reply, answer, graph, memory, table, joined>>

-------------------------------------------------------------------------------
\* The Social Graph.

\* It serves a call and answers, or the answer is lost or does not decode; or the
\* call does not reach it.
SgServes(r) ==
    /\ stage[r] \in Endpoints /\ reply[r] = Waiting
    /\ \/ /\ bearer[r] \in graph.accepts
          /\ graph' = IF stage[r] = "membership"
                        THEN [graph EXCEPT !.members = @ \cup {bearer[r]}] ELSE graph
          /\ \E answered \in {NoAnswer, [status |-> 200, body |-> "view"],
                              [status |-> 200, body |-> "garbled"]} :
               reply' = [reply EXCEPT ![r] = answered]
       \/ /\ bearer[r] \notin graph.accepts
          /\ reply' = [reply EXCEPT ![r] = [status |-> 401, body |-> "detail"]]
          /\ UNCHANGED graph
       \/ /\ \E answered \in {NoAnswer, [status |-> 500, body |-> "detail"]}
                \cup (IF Redirecting THEN {[status |-> 302, body |-> "garbled"]} ELSE {}) :
               reply' = [reply EXCEPT ![r] = answered]
          /\ UNCHANGED graph
    /\ UNCHANGED <<env, proc, stage, answer, memory, table, joined>>

\* A user takes the token back.
Revoke(u) ==
    /\ graph' = [graph EXCEPT !.accepts = @ \ {u}]
    /\ UNCHANGED <<env, proc, stage, reply, answer, memory, table, joined>>

Next ==
    \/ \E free \in BOOLEAN : Start(free)
    \/ Arm \/ Kill \/ Shutdown \/ Drained
    \/ \E s \in Signals : Signal(s)
    \/ \E r \in Requests : \/ Page(r) \/ Join(r) \/ Handle(r) \/ Write(r)
                           \/ ClientLeaves(r) \/ SgServes(r)
    \/ \E u \in Users : Revoke(u)

Spec == Init /\ [][Next]_vars

\* Tasks that can go on do, and the network ends every call some way: the client
\* has no timeout of its own, so without this a drain may wait for ever.
Progress == \A r \in Requests : WF_vars(Handle(r)) /\ WF_vars(Write(r)) /\ WF_vars(SgServes(r))
FairSpec == Spec /\ WF_vars(Shutdown) /\ WF_vars(Drained) /\ Progress

-------------------------------------------------------------------------------
\* Properties.

Stages == {"idle", "served", "write", "answered", "lost", "left"} \cup Endpoints
Bodies == {"none", "waiting", "view", "garbled", "detail", "unauthorized", "forbidden",
           "ok", "dynamodb", "memory", "empty", "joined", "killed", "unarmed",
           REDACTED_INTERNAL_BODY} \cup Signals
Messages == [status : Nat, body : Bodies]

\* The type invariant; only a process that serves has requests in flight.
TypeOK ==
    /\ env \in [bind : {"fit", "junk"}, lambda : BOOLEAN,
                table : {"unset", "not Unicode", "blank", "named"}]
    /\ proc \in [phase : {"down", "panicked", "dead", "ended"} \cup Serving,
                 armed : BOOLEAN, caught : SUBSET Signals,
                 store : {"none", "memory", "dynamodb"},
                 label : {"none", "memory", "dynamodb"}, run : 0..MaxRuns]
    /\ stage \in [Requests -> Stages]
    /\ reply \in [Requests -> Messages]
    /\ answer \in [Requests -> Messages]
    /\ graph \in [accepts : SUBSET Users, members : SUBSET Users]
    /\ memory \subseteq Users /\ table \subseteq Users
    /\ joined \subseteq [user : Users, label : {"memory", "dynamodb"}, run : 1..MaxRuns]
    /\ \A r \in Requests : InFlight(r) => proc.phase \in Serving

\* A signal costs no request, once serve has its handlers: neither one that comes
\* while requests are in flight, nor a second one during the drain, nor the end.
NoneAbandoned ==
    /\ \A r \in Requests : answer[r].body \notin Signals
    /\ proc.phase = "ended" => \A r \in Requests : ~InFlight(r)

\* A caller told "joined" is a member, whose connections can discover it: not
\* every join that got so far had an answer from the Social Graph.
JoinedIsListed == \A j \in joined : j.user \in graph.members

\* Who wants to join and is answered 401 has a token that the Social Graph rejects:
\* neither an outage nor a failure later on looks like a bad token.
RejectedIsRevoked ==
    \A r \in Requests :
        stage[r] = "answered" /\ answer[r].status = 401 => bearer[r] \notin graph.accepts

\* An acknowledged join outlives the process if its info page says "dynamodb", and
\* is there at least as long as the process that acknowledged it.
Kept ==
    \A j \in joined :
        \/ j.user \in table
        \/ /\ j.label = "memory"
           /\ j.run = proc.run /\ proc.phase \in Serving => j.user \in memory

\* Told to stop, a process stops, whatever is in flight: neither its drain nor a
\* signal is waited for in vain (shutdown_signal).  That a call in flight ends is
\* the network's part, WF(SgServes): the client has no timeout.
StopsWhenTold == proc.caught # {} ~> proc.phase \notin Serving
===============================================================================
