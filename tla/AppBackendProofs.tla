---------------------------- MODULE AppBackendProofs ----------------------------
(***************************************************************************)
(* Proofs about AppBackend, for any number of requests, users and runs.    *)
(* The inductive invariant says, for every request in flight, what the     *)
(* Social Graph did when it gave the reply that is there, and for the      *)
(* process, that the label it shows is that of the store it writes.        *)
(***************************************************************************)
EXTENDS AppBackend, TLAPS

\* What one request knows.
MemberInv == \A r \in Requests :
    /\ stage[r] \in {"connections", "write"} => bearer[r] \in graph.members
    /\ stage[r] = "membership" /\ reply[r].status # 0 /\ reply[r].status \notin 400..599
         => bearer[r] \in graph.members
RejectInv == \A r \in Requests :
    /\ stage[r] = "me" /\ reply[r].status = 401 => bearer[r] \notin graph.accepts
    /\ stage[r] = "answered" /\ answer[r].status = 401 => bearer[r] \notin graph.accepts
AnswerInv == \A r \in Requests : answer[r].body \notin Signals
StoreInv == proc.phase \in Serving =>
    proc.store = proc.label /\ proc.label \in {"memory", "dynamodb"} /\ proc.run \in 1..MaxRuns
RunInv == \A j \in joined : j.run <= proc.run

IInv == TypeOK /\ RejectInv /\ AnswerInv /\ StoreInv /\ RunInv /\ Kept
Listed == MemberInv /\ JoinedIsListed

-------------------------------------------------------------------------------
\* The pure parts.

\* An error's response is no signal's doing, and only Unauthorized is a 401.
LEMMA Responses ==
    ASSUME NEW error \in ApiError
    PROVE  LET m == into_response(error)
           IN  /\ m \in Messages
               /\ m.body \notin Signals
               /\ m.status = 401 => error = "Unauthorized"
  <1>1. error \in {"BadRequest", "Unauthorized", "Forbidden", "NotFound", "Conflict",
                   "PayloadTooLarge", "RateLimited", "NotImplemented",
                   "ServiceUnavailable", "Internal"}
    BY DEF ApiError, status
  <1>2. status[error] \in Nat /\ (status[error] = 401 => error = "Unauthorized")
    BY <1>1 DEF status
  <1>3. detail(error) \in {"unauthorized", "forbidden", "detail"}
    BY DEF detail
  <1>4. /\ into_response(error).status = status[error]
        /\ status[error] >= 500 => into_response(error).body = "internal error"
        /\ ~(status[error] >= 500) => into_response(error).body = detail(error)
    BY DEF into_response, REDACTED_INTERNAL_BODY
  <1>5. into_response(error) = [status |-> status[error], body |-> into_response(error).body]
    BY DEF into_response
  <1>6. into_response(error).body \in {"internal error", "unauthorized", "forbidden", "detail"}
    BY <1>3, <1>4
  <1>7. into_response(error) \in Messages
    <2>1. into_response(error).body \in Bodies
      BY <1>6 DEF Bodies, REDACTED_INTERNAL_BODY
    <2> QED
      BY <1>2, <1>5, <2>1 DEF Messages
  <1> QED
    BY <1>2, <1>4, <1>6, <1>7 DEF Signals, REDACTED_INTERNAL_BODY

\* What the three calls make of a reply.
LEMMA Outcomes ==
    ASSUME NEW m
    PROVE  /\ resolve_me(m).kind = "None" => m.status = 401
           /\ resolve_me(m).kind \in {"Ok", "None", "Err"}
           /\ register_membership(m).kind = "Ok" => m.status # 0 /\ m.status \notin 400..599
           /\ connections_members(m).kind = "Ok" => m.status # 0 /\ m.status \notin 400..599
  BY DEF resolve_me, register_membership, connections_members, json, Ok, None, Transport,
         Status, error_for_status

\* The selector's label is that of its store.
LEMMA Selected ==
    ASSUME NEW value
    PROVE  LET c == select_dynamo_or_memory(value)
           IN  c.store = c.label /\ c.label \in {"memory", "dynamodb"}
  BY DEF select_dynamo_or_memory

LEMMA Pages ==
    ASSUME NEW path \in Paths, NEW label \in {"memory", "dynamodb"}
    PROVE  /\ health_router(path) \in Messages /\ health_router(path).body \notin Signals
           /\ ServiceInfo(label) \in Messages /\ ServiceInfo(label).body \notin Signals
  BY DEF health_router, Health_ok, ServiceInfo, Messages, Bodies, Signals

LEMMA InitInv == Init => IInv /\ Listed
  <1> SUFFICES ASSUME Init PROVE IInv /\ Listed
    OBVIOUS
  <1> DEFINE down == [phase |-> "down", armed |-> FALSE, caught |-> {}, store |-> "none",
                      label |-> "none", run |-> 0]
  <1>0. proc = down /\ stage = [r \in Requests |-> "idle"]
        /\ reply = [r \in Requests |-> NotYet] /\ answer = [r \in Requests |-> NotYet]
        /\ memory = {} /\ table = {} /\ joined = {}
    BY DEF Init
  <1>1. TypeOK
    <2>1. NotYet \in Messages
      BY DEF NotYet, Messages, Bodies
    <2>2. "idle" \in Stages /\ proc.phase \notin Serving /\ \A r \in Requests : ~InFlight(r)
      BY <1>0 DEF Stages, InFlight, Endpoints, Serving
    <2>3. proc \in [phase : {"down", "panicked", "dead", "ended"} \cup Serving,
                    armed : BOOLEAN, caught : SUBSET Signals,
                    store : {"none", "memory", "dynamodb"},
                    label : {"none", "memory", "dynamodb"}, run : 0..MaxRuns]
      BY <1>0, BackendAssumption
    <2> QED
      BY <2>1, <2>2, <2>3 DEF Init, TypeOK
  <1>2. RejectInv /\ AnswerInv /\ StoreInv /\ RunInv /\ Kept
    <2>1. RejectInv
      BY <1>0 DEF RejectInv
    <2>2. AnswerInv
      BY <1>0 DEF AnswerInv, NotYet, Signals
    <2>3. StoreInv
      BY <1>0 DEF StoreInv, Serving
    <2>4. RunInv /\ Kept
      BY <1>0 DEF RunInv, Kept
    <2> QED
      BY <2>1, <2>2, <2>3, <2>4
  <1>3. MemberInv /\ JoinedIsListed
    BY DEF Init, MemberInv, JoinedIsListed
  <1> QED
    BY <1>1, <1>2, <1>3 DEF IInv, Listed

-------------------------------------------------------------------------------
\* Steps of the process.

Processes == [phase : {"down", "panicked", "dead", "ended"} \cup Serving,
              armed : BOOLEAN, caught : SUBSET Signals,
              store : {"none", "memory", "dynamodb"},
              label : {"none", "memory", "dynamodb"}, run : 0..MaxRuns]

\* A step of the process alone, in which it starts nothing.
LEMMA ProcStep ==
    ASSUME IInv, UNCHANGED <<env, stage, reply, answer, graph, memory, table, joined>>,
           proc' \in Processes, proc'.run = proc.run,
           proc'.phase \in Serving => /\ proc.phase \in Serving
                                      /\ proc'.store = proc.store /\ proc'.label = proc.label,
           \A r \in Requests : InFlight(r) => proc'.phase \in Serving
    PROVE  IInv'
  <1>1. TypeOK'
    BY DEF IInv, TypeOK, Processes, InFlight
  <1>2. RejectInv' /\ AnswerInv' /\ RunInv'
    BY DEF IInv, RejectInv, AnswerInv, RunInv
  <1>3. StoreInv'
    BY DEF IInv, StoreInv
  <1>4. Kept'
    BY DEF IInv, Kept
  <1> QED
    BY <1>1, <1>2, <1>3, <1>4 DEF IInv

LEMMA DeadProcess ==
    ASSUME TypeOK, NEW phase \in {"panicked", "dead", "ended"}
    PROVE  /\ Dead(phase) \in Processes /\ Dead(phase).run = proc.run
           /\ Dead(phase).phase = phase /\ phase \notin Serving
  BY DEF TypeOK, Dead, Processes, Serving

LEMMA ArmStep == ASSUME IInv, Arm PROVE IInv'
  <1>1. /\ proc.phase = "serving" /\ proc' = [proc EXCEPT !.armed = TRUE]
        /\ UNCHANGED <<env, stage, reply, answer, graph, memory, table, joined>>
    BY DEF Arm
  <1>2. proc' \in Processes
    BY <1>1 DEF IInv, TypeOK, Processes
  <1>3. /\ proc'.run = proc.run /\ proc'.phase = proc.phase /\ proc'.store = proc.store
        /\ proc'.label = proc.label
    BY <1>1 DEF IInv, TypeOK
  <1> QED
    BY <1>1, <1>2, <1>3, ProcStep DEF Serving

LEMMA ShutdownStep == ASSUME IInv, Shutdown PROVE IInv'
  <1>1. /\ proc.phase = "serving" /\ proc' = [proc EXCEPT !.phase = "draining"]
        /\ UNCHANGED <<env, stage, reply, answer, graph, memory, table, joined>>
    BY DEF Shutdown
  <1>2. proc' \in Processes
    BY <1>1 DEF IInv, TypeOK, Processes, Serving
  <1>3. /\ proc'.run = proc.run /\ proc'.phase = "draining" /\ proc'.store = proc.store
        /\ proc'.label = proc.label
    BY <1>1 DEF IInv, TypeOK
  <1> QED
    BY <1>1, <1>2, <1>3, ProcStep DEF Serving

LEMMA DrainedStep == ASSUME IInv, Drained PROVE IInv'
  BY ProcStep, DeadProcess DEF Drained, IInv

\* The process is gone for a cause that is no caught signal.
LEMMA DiesStep ==
    ASSUME IInv, NEW cause \in {"killed", "unarmed"}, Dies(cause)
    PROVE  IInv'
  <1>1. /\ proc' = Dead("dead")
        /\ stage' = [r \in Requests |-> IF InFlight(r) THEN "lost" ELSE stage[r]]
        /\ answer' = [r \in Requests |-> IF InFlight(r) THEN [status |-> 0, body |-> cause]
                                                        ELSE answer[r]]
        /\ UNCHANGED <<env, reply, graph, memory, table, joined>>
    BY DEF Dies
  <1>2. proc' \in Processes /\ proc'.run = proc.run /\ proc'.phase \notin Serving
    BY <1>1, DeadProcess DEF IInv
  <1>3. \A r \in Requests : /\ stage'[r] \in {"lost", stage[r]}
                            /\ stage'[r] \notin {"me", "membership", "connections", "write"}
    BY <1>1 DEF InFlight, Endpoints
  <1>4. \A r \in Requests : ~InFlight(r)'
    BY <1>3 DEF InFlight, Endpoints
  <1>5. [status |-> 0, body |-> cause] \in Messages
    BY DEF Messages, Bodies
  <1>6. stage' \in [Requests -> Stages] /\ answer' \in [Requests -> Messages]
    BY <1>1, <1>5 DEF IInv, TypeOK, Stages
  <1>7. TypeOK'
    BY <1>1, <1>2, <1>4, <1>6 DEF IInv, TypeOK, Processes
  <1>8. \A r \in Requests :
          \/ answer'[r] = answer[r] /\ stage'[r] = stage[r]
          \/ answer'[r] = [status |-> 0, body |-> cause] /\ stage'[r] = "lost"
    BY <1>1
  <1>9. RejectInv' /\ AnswerInv'
    <2>1. RejectInv'
      BY <1>1, <1>8 DEF IInv, RejectInv
    <2>2. AnswerInv'
      BY <1>8 DEF IInv, AnswerInv, Signals
    <2> QED
      BY <2>1, <2>2
  <1>10. StoreInv' /\ RunInv' /\ Kept'
    BY <1>1, <1>2 DEF IInv, StoreInv, RunInv, Kept
  <1> QED
    BY <1>7, <1>9, <1>10 DEF IInv

LEMMA SignalStep == ASSUME IInv, NEW s \in Signals, Signal(s) PROVE IInv'
  <1>1. CASE proc.armed
    <2>1. s \in Handled
      BY DEF Signals, Handled
    <2>2. /\ proc' = [proc EXCEPT !.caught = @ \cup {s}]
          /\ UNCHANGED <<env, stage, reply, answer, graph, memory, table, joined>>
      BY <1>1, <2>1 DEF Signal
    <2>3. proc' \in Processes
      BY <2>2 DEF IInv, TypeOK, Processes
    <2>4. /\ proc'.run = proc.run /\ proc'.phase = proc.phase /\ proc'.store = proc.store
          /\ proc'.label = proc.label
      BY <2>2 DEF IInv, TypeOK
    <2> QED
      BY <2>2, <2>3, <2>4, ProcStep DEF Signal, IInv, TypeOK
  <1>2. CASE ~proc.armed
    BY <1>2, DiesStep DEF Signal
  <1> QED
    BY <1>1, <1>2

LEMMA StartStep == ASSUME IInv, NEW free \in BOOLEAN, Start(free) PROVE IInv'
  <1> DEFINE chosen == select_dynamo_or_memory(env.table)
             phase == serve(env.bind, env.lambda, free)
  <1>1. /\ proc.phase \notin Serving /\ proc.run < MaxRuns
        /\ proc' = IF phase = "panicked"
                     THEN [Dead(phase) EXCEPT !.run = @ + 1]
                     ELSE [phase |-> phase, armed |-> FALSE, caught |-> {},
                           store |-> chosen.store, label |-> chosen.label,
                           run |-> proc.run + 1]
        /\ memory' = {}
        /\ UNCHANGED <<env, stage, reply, answer, graph, table, joined>>
    BY DEF Start
  <1>2. phase \in {"panicked", "lambda", "serving"}
    BY DEF serve
  <1>3. chosen.store = chosen.label /\ chosen.label \in {"memory", "dynamodb"}
    BY Selected
  <1>4. proc.run \in 0..MaxRuns /\ proc.run + 1 \in 1..MaxRuns
    <2>1. proc.run \in 0..MaxRuns
      BY DEF IInv, TypeOK
    <2> QED
      BY <1>1, <2>1, BackendAssumption
  <1>5. /\ proc' \in Processes /\ proc'.run = proc.run + 1
        /\ proc'.phase \in Serving
             => proc'.store = proc'.label /\ proc'.label \in {"memory", "dynamodb"}
    <2>1. CASE phase = "panicked"
      <3>1. proc' = [phase |-> "panicked", armed |-> FALSE, caught |-> {}, store |-> "none",
                     label |-> "none", run |-> proc.run + 1]
        BY <1>1, <2>1 DEF Dead
      <3> QED
        BY <1>4, <3>1 DEF Processes, Serving
    <2>2. CASE phase # "panicked"
      <3> HIDE DEF chosen, phase
      <3> QED
        BY <1>1, <1>2, <1>3, <1>4, <2>2 DEF Processes, Serving
    <2> QED
      BY <2>1, <2>2
  <1>6. \A r \in Requests : ~InFlight(r) /\ ~InFlight(r)'
    BY <1>1 DEF IInv, TypeOK, InFlight
  <1>7. TypeOK'
    BY <1>1, <1>5, <1>6 DEF IInv, TypeOK, Processes
  <1>8. RejectInv' /\ AnswerInv'
    BY <1>1 DEF IInv, RejectInv, AnswerInv
  <1>9. StoreInv'
    BY <1>4, <1>5 DEF StoreInv
  <1>10. \A j \in joined : j.run \in Nat /\ j.run <= proc.run /\ j.run # proc'.run
    <2>1. \A j \in joined : j.run \in 1..MaxRuns /\ j.run <= proc.run
      BY DEF IInv, RunInv, TypeOK
    <2> QED
      BY <1>4, <1>5, <2>1, BackendAssumption
  <1>11. RunInv' /\ Kept'
    BY <1>1, <1>4, <1>5, <1>10 DEF IInv, RunInv, Kept
  <1> QED
    BY <1>7, <1>8, <1>9, <1>11 DEF IInv

-------------------------------------------------------------------------------
\* Steps of a request.

\* It is answered; what that acknowledges is kept.
LEMMA AnswerStep ==
    ASSUME IInv, NEW r \in Requests, NEW end \in {"served", "answered"}, NEW m \in Messages,
           Answer(r, end, m), UNCHANGED <<env, proc, reply, graph>>,
           m.body \notin Signals,
           end = "answered" /\ m.status = 401 => bearer[r] \notin graph.accepts,
           memory' \subseteq Users, table' \subseteq Users,
           joined' \subseteq [user : Users, label : {"memory", "dynamodb"}, run : 1..MaxRuns],
           RunInv', Kept'
    PROVE  IInv'
  <1>1. /\ stage' = [stage EXCEPT ![r] = end]
        /\ answer' = [answer EXCEPT ![r] = m]
    BY DEF Answer
  <1>2. stage \in [Requests -> Stages] /\ answer \in [Requests -> Messages]
    BY DEF IInv, TypeOK
  <1>3. /\ stage'[r] = end /\ answer'[r] = m
        /\ \A q \in Requests \ {r} : stage'[q] = stage[q] /\ answer'[q] = answer[q]
    BY <1>1, <1>2
  <1>4. stage' \in [Requests -> Stages] /\ answer' \in [Requests -> Messages]
    BY <1>1, <1>2 DEF Stages
  <1>5. \A q \in Requests : InFlight(q)' => InFlight(q)
    BY <1>3 DEF InFlight, Endpoints
  <1>6. TypeOK'
    BY <1>4, <1>5 DEF IInv, TypeOK
  <1>7. RejectInv'
    BY <1>3 DEF IInv, RejectInv
  <1>8. AnswerInv'
    BY <1>3 DEF IInv, AnswerInv
  <1>9. StoreInv'
    BY DEF IInv, StoreInv
  <1> QED
    BY <1>6, <1>7, <1>8, <1>9 DEF IInv

\* It goes on to another stage, with a new reply or none.
LEMMA StageStep ==
    ASSUME IInv, NEW r \in Requests, NEW x \in Stages \ {"answered"}, NEW m \in Messages,
           stage' = [stage EXCEPT ![r] = x], reply' = [reply EXCEPT ![r] = m],
           UNCHANGED <<env, proc, answer, graph, memory, table, joined>>,
           x = "me" /\ m.status = 401 => bearer[r] \notin graph.accepts,
           proc.phase \in Serving
    PROVE  IInv'
  <1>1. /\ stage \in [Requests -> Stages] /\ reply \in [Requests -> Messages]
        /\ answer \in [Requests -> Messages]
    BY DEF IInv, TypeOK
  <1>2. /\ stage'[r] = x /\ reply'[r] = m
        /\ \A q \in Requests \ {r} : stage'[q] = stage[q] /\ reply'[q] = reply[q]
    BY <1>1
  <1>3. stage' \in [Requests -> Stages] /\ reply' \in [Requests -> Messages]
    BY <1>1
  <1>4. TypeOK'
    BY <1>3 DEF IInv, TypeOK
  <1>5. RejectInv'
    BY <1>2 DEF IInv, RejectInv
  <1>6. AnswerInv' /\ StoreInv' /\ RunInv' /\ Kept'
    BY DEF IInv, AnswerInv, StoreInv, RunInv, Kept
  <1> QED
    BY <1>4, <1>5, <1>6 DEF IInv

LEMMA WaitingIs == Waiting \in Messages /\ Waiting.status = 0 /\ Waiting.status # 401
  BY DEF Waiting, Messages, Bodies

LEMMA FailsStep ==
    ASSUME IInv, NEW r \in Requests, Fails(r), UNCHANGED <<env, proc, reply, graph>>,
           memory' \subseteq Users, table' \subseteq Users, UNCHANGED joined, Kept'
    PROVE  IInv'
  <1>1. PICK error \in Mapped : Answer(r, "answered", into_response(error))
    BY DEF Fails
  <1>2. error \in ApiError /\ error # "Unauthorized"
    BY DEF Mapped, ApiError, status
  <1>3. RunInv' /\ joined' \subseteq
          [user : Users, label : {"memory", "dynamodb"}, run : 1..MaxRuns]
    BY DEF IInv, RunInv, TypeOK
  <1> DEFINE m == into_response(error)
  <1>4. m \in Messages /\ m.status # 401 /\ m.body \notin Signals
    BY <1>2, Responses
  <1> HIDE DEF m
  <1>5. Answer(r, "answered", m)
    BY <1>1 DEF m
  <1> QED
    BY <1>3, <1>4, <1>5, AnswerStep

LEMMA PageStep == ASSUME IInv, NEW r \in Requests, Page(r) PROVE IInv'
  <1>1. /\ UNCHANGED <<env, proc, reply, graph, memory, table, joined>>
        /\ proc.phase \in Serving
    BY DEF Page, Accepting, run_lambda, Serving
  <1>2. proc.label \in {"memory", "dynamodb"}
    BY <1>1 DEF IInv, StoreInv
  <1>3. RunInv' /\ Kept'
    BY <1>1 DEF IInv, RunInv, Kept
  <1>4. /\ memory' \subseteq Users /\ table' \subseteq Users
        /\ joined' \subseteq [user : Users, label : {"memory", "dynamodb"}, run : 1..MaxRuns]
    BY <1>1 DEF IInv, TypeOK
  <1>5. \E m \in Messages : Answer(r, "served", m) /\ m.body \notin Signals
    <2>1. ASSUME NEW path \in Paths, Answer(r, "served", health_router(path))
          PROVE  <1>5
      BY <1>2, <2>1, Pages
    <2>2. CASE Answer(r, "served", ServiceInfo(proc.label))
      <3>1. "/health" \in Paths
        BY DEF Paths
      <3> QED
        BY <1>2, <2>2, <3>1, Pages
    <2>3. ASSUME NEW error \in ApiError, Answer(r, "served", into_response(error))
          PROVE  <1>5
      BY <2>3, Responses
    <2> QED
      BY <2>1, <2>2, <2>3 DEF Page
  <1> QED
    BY <1>1, <1>3, <1>4, <1>5, AnswerStep

LEMMA JoinStep == ASSUME IInv, NEW r \in Requests, Join(r) PROVE IInv'
  <1>1. /\ proc.phase \in Serving
        /\ stage' = [stage EXCEPT ![r] = "me"] /\ reply' = [reply EXCEPT ![r] = Waiting]
        /\ UNCHANGED <<env, proc, answer, graph, memory, table, joined>>
    BY DEF Join, Accepting, run_lambda, Serving, Calls
  <1>2. "me" \in Stages \ {"answered"}
    BY DEF Stages, Endpoints
  <1> QED
    BY <1>1, <1>2, WaitingIs, StageStep

LEMMA LeavesStep == ASSUME IInv, NEW r \in Requests, ClientLeaves(r) PROVE IInv'
  <1>1. /\ proc.phase \in Serving /\ stage' = [stage EXCEPT ![r] = "left"]
        /\ UNCHANGED <<env, proc, reply, answer, graph, memory, table, joined>>
    BY DEF ClientLeaves, IInv, TypeOK
  <1>2. reply' = [reply EXCEPT ![r] = reply[r]] /\ reply[r] \in Messages
    BY <1>1 DEF IInv, TypeOK
  <1>3. "left" \in Stages \ {"answered"}
    BY DEF Stages
  <1> QED
    BY <1>1, <1>2, <1>3, StageStep

\* What a handler does with a reply: it goes on, fails, or is sent away.
LEMMA ReplyHandled ==
    ASSUME NEW r \in Requests, Handle(r)
    PROVE  /\ reply[r] # Waiting
           /\ UNCHANGED <<env, proc, graph, memory, table, joined>>
           /\ \/ Fails(r) /\ UNCHANGED reply
              \/ /\ stage[r] = "me" /\ reply[r].status = 401 /\ UNCHANGED reply
                 /\ Answer(r, "answered", into_response("Unauthorized"))
              \/ /\ stage[r] = "me" /\ Calls(r, "membership") /\ UNCHANGED answer
              \/ /\ stage[r] = "membership" /\ Calls(r, "connections") /\ UNCHANGED answer
                 /\ reply[r].status # 0 /\ reply[r].status \notin 400..599
              \/ /\ stage[r] = "connections" /\ stage' = [stage EXCEPT ![r] = "write"]
                 /\ UNCHANGED <<reply, answer>>
  <1>1. CASE stage[r] = "me"
    <2> DEFINE me == resolve_me(reply[r])
    <2>1. me.kind \in {"Ok", "None", "Err"} /\ (me.kind = "None" => reply[r].status = 401)
      BY Outcomes
    <2> HIDE DEF me
    <2>2. CASE me.kind = "Ok"
      BY <1>1, <2>2 DEF Handle, me
    <2>3. CASE me.kind = "None"
      BY <1>1, <2>1, <2>3 DEF Handle, me
    <2>4. CASE me.kind = "Err"
      BY <1>1, <2>4 DEF Handle, me
    <2> QED
      BY <2>1, <2>2, <2>3, <2>4
  <1>2. CASE stage[r] = "membership"
    <2>1. CASE register_membership(reply[r]).kind = "Ok"
      BY <1>2, <2>1, Outcomes DEF Handle
    <2>2. CASE register_membership(reply[r]).kind # "Ok"
      BY <1>2, <2>2 DEF Handle
    <2> QED
      BY <2>1, <2>2
  <1>3. CASE stage[r] = "connections"
    BY <1>3 DEF Handle
  <1> QED
    BY <1>1, <1>2, <1>3 DEF Handle

LEMMA HandleStep == ASSUME IInv, NEW r \in Requests, Handle(r) PROVE IInv'
  <1>1. UNCHANGED <<env, proc, graph, memory, table, joined>>
    BY ReplyHandled
  <1>2. /\ memory' \subseteq Users /\ table' \subseteq Users /\ RunInv' /\ Kept'
        /\ joined' \subseteq [user : Users, label : {"memory", "dynamodb"}, run : 1..MaxRuns]
    BY <1>1 DEF IInv, TypeOK, RunInv, Kept
  <1>3. reply[r] \in Messages /\ reply = [reply EXCEPT ![r] = reply[r]]
    BY DEF IInv, TypeOK
  <1>4. stage[r] \in {"me", "membership", "connections"} => proc.phase \in Serving
    BY DEF IInv, TypeOK, InFlight, Endpoints
  <1>5. CASE Fails(r) /\ UNCHANGED reply
    BY <1>1, <1>2, <1>5, FailsStep
  <1>6. CASE /\ stage[r] = "me" /\ reply[r].status = 401 /\ UNCHANGED reply
             /\ Answer(r, "answered", into_response("Unauthorized"))
    <2>1. bearer[r] \notin graph.accepts
      BY <1>6 DEF IInv, RejectInv
    <2>2. "Unauthorized" \in ApiError
      BY DEF ApiError, status
    <2> DEFINE m == into_response("Unauthorized")
    <2>3. m \in Messages /\ m.body \notin Signals
      BY <2>2, Responses
    <2> HIDE DEF m
    <2>4. Answer(r, "answered", m)
      BY <1>6 DEF m
    <2> QED
      BY <1>1, <1>2, <1>6, <2>1, <2>3, <2>4, AnswerStep
  <1>7. ASSUME NEW x \in {"membership", "connections"}, Calls(r, x), UNCHANGED answer,
               stage[r] \in {"me", "membership"}
        PROVE  IInv'
    <2>1. x \in Stages \ {"answered"} /\ x # "me"
      BY DEF Stages, Endpoints
    <2> QED
      BY <1>1, <1>4, <1>7, <2>1, WaitingIs, StageStep DEF Calls
  <1>8. CASE /\ stage[r] = "connections" /\ stage' = [stage EXCEPT ![r] = "write"]
             /\ UNCHANGED <<reply, answer>>
    <2>1. "write" \in Stages \ {"answered"}
      BY DEF Stages
    <2> QED
      BY <1>1, <1>3, <1>4, <1>8, <2>1, StageStep
  <1> QED
    BY <1>5, <1>6, <1>7, <1>8, ReplyHandled

\* The three ends of a write.
LEMMA Written ==
    ASSUME NEW r \in Requests, Write(r)
    PROVE  LET user == bearer[r]
               told == /\ Answer(r, "answered", [status |-> 200, body |-> "joined"])
                       /\ joined' = joined \cup {[user |-> user, label |-> proc.label,
                                                  run |-> proc.run]}
           IN  /\ stage[r] = "write" /\ UNCHANGED <<env, proc, reply, graph>>
               /\ \/ /\ proc.store = "memory" /\ memory' = memory \cup {user}
                     /\ UNCHANGED table /\ told
                  \/ /\ proc.store = "dynamodb" /\ table' = table \cup {user}
                     /\ UNCHANGED memory /\ told
                  \/ /\ table' \in {table, table \cup {user}} /\ UNCHANGED <<memory, joined>>
                     /\ Fails(r)
  BY DEF Write

LEMMA WriteStep == ASSUME IInv, NEW r \in Requests, Write(r) PROVE IInv'
  <1> DEFINE user == bearer[r]
             j == [user |-> user, label |-> proc.label, run |-> proc.run]
             m == [status |-> 200, body |-> "joined"]
  <1>1. stage[r] = "write" /\ UNCHANGED <<env, proc, reply, graph>>
    BY Written
  <1>2. proc.phase \in Serving
    BY <1>1 DEF IInv, TypeOK, InFlight
  <1>3. /\ proc.store = proc.label /\ proc.label \in {"memory", "dynamodb"}
        /\ proc.run \in 1..MaxRuns /\ user \in Users
    BY <1>2, BackendAssumption DEF IInv, StoreInv
  <1>4. /\ memory \subseteq Users /\ table \subseteq Users
        /\ joined \subseteq [user : Users, label : {"memory", "dynamodb"}, run : 1..MaxRuns]
    BY DEF IInv, TypeOK
  <1>5. m \in Messages /\ m.status # 401 /\ m.body \notin Signals
    BY DEF Messages, Bodies, Signals
  <1>6. CASE /\ Answer(r, "answered", m) /\ joined' = joined \cup {j}
             /\ \/ proc.store = "memory" /\ memory' = memory \cup {user} /\ UNCHANGED table
                \/ proc.store = "dynamodb" /\ table' = table \cup {user} /\ UNCHANGED memory
    <2>1. /\ memory' \subseteq Users /\ table' \subseteq Users
          /\ memory \subseteq memory' /\ table \subseteq table'
      BY <1>3, <1>4, <1>6
    <2>2. joined' \subseteq [user : Users, label : {"memory", "dynamodb"}, run : 1..MaxRuns]
      BY <1>3, <1>4, <1>6
    <2>3. RunInv'
      <3>1. \A k \in joined : k.run <= proc.run
        BY DEF IInv, RunInv
      <3>2. proc.run <= proc.run
        BY <1>3, BackendAssumption
      <3> QED
        BY <1>1, <1>6, <3>1, <3>2 DEF RunInv
    <2>4. Kept'
      <3>1. \A k \in joined : \/ k.user \in table
                              \/ /\ k.label = "memory"
                                 /\ k.run = proc.run /\ proc.phase \in Serving
                                      => k.user \in memory
        BY DEF IInv, Kept
      <3>2. j.user \in table' \/ (j.label = "memory" /\ j.user \in memory')
        BY <1>3, <1>6
      <3> QED
        BY <1>1, <1>6, <2>1, <3>1, <3>2 DEF Kept
    <2> HIDE DEF m, j
    <2> QED
      BY <1>1, <1>5, <1>6, <2>1, <2>2, <2>3, <2>4, AnswerStep
  <1>7. CASE /\ table' \in {table, table \cup {user}} /\ UNCHANGED <<memory, joined>>
             /\ Fails(r)
    <2>1. memory' \subseteq Users /\ table' \subseteq Users
      BY <1>3, <1>4, <1>7
    <2>2. Kept'
      BY <1>1, <1>7 DEF IInv, Kept
    <2> QED
      BY <1>1, <1>7, <2>1, <2>2, FailsStep
  <1> QED
    BY <1>6, <1>7, Written

-------------------------------------------------------------------------------
\* Steps of the Social Graph.

\* A reply, and what the Social Graph did before it gave it.
Gives(r, m) ==
    /\ reply' = [reply EXCEPT ![r] = m]
    /\ m.status = 401 => bearer[r] \notin graph.accepts
    /\ \/ Redirecting
       \/ m.status \in {0, 401, 500}
       \/ stage[r] = "membership"
            => graph' = [graph EXCEPT !.members = @ \cup {bearer[r]}]

LEMMA Served ==
    ASSUME NEW r \in Requests, SgServes(r)
    PROVE  /\ stage[r] \in Endpoints /\ reply[r] = Waiting
           /\ UNCHANGED <<env, proc, stage, answer, memory, table, joined>>
           /\ graph' = graph \/ graph' = [graph EXCEPT !.members = @ \cup {bearer[r]}]
           /\ \E m \in Messages : Gives(r, m)
  <1> DEFINE Replies == {NoAnswer, [status |-> 200, body |-> "view"],
                         [status |-> 200, body |-> "garbled"],
                         [status |-> 401, body |-> "detail"],
                         [status |-> 500, body |-> "detail"],
                         [status |-> 302, body |-> "garbled"]}
  <1>1. Replies \subseteq Messages
    BY DEF NoAnswer, Messages, Bodies
  <1>2. /\ stage[r] \in Endpoints /\ reply[r] = Waiting
        /\ UNCHANGED <<env, proc, stage, answer, memory, table, joined>>
    BY DEF SgServes
  <1>3. CASE /\ graph' = IF stage[r] = "membership"
                          THEN [graph EXCEPT !.members = @ \cup {bearer[r]}] ELSE graph
             /\ \E m \in {NoAnswer, [status |-> 200, body |-> "view"],
                          [status |-> 200, body |-> "garbled"]} :
                  reply' = [reply EXCEPT ![r] = m]
    <2>1. PICK m \in {NoAnswer, [status |-> 200, body |-> "view"],
                      [status |-> 200, body |-> "garbled"]} :
                  reply' = [reply EXCEPT ![r] = m]
      BY <1>3
    <2>2. m \in Messages /\ m.status # 401
      BY <1>1 DEF NoAnswer
    <2>3. /\ graph' = graph \/ graph' = [graph EXCEPT !.members = @ \cup {bearer[r]}]
          /\ stage[r] = "membership" => graph' = [graph EXCEPT !.members = @ \cup {bearer[r]}]
      BY <1>3
    <2>4. Gives(r, m)
      BY <2>1, <2>2, <2>3 DEF Gives
    <2> QED
      BY <1>2, <2>2, <2>3, <2>4
  <1>4. CASE /\ bearer[r] \notin graph.accepts /\ UNCHANGED graph
             /\ reply' = [reply EXCEPT ![r] = [status |-> 401, body |-> "detail"]]
    <2> DEFINE m == [status |-> 401, body |-> "detail"]
    <2>1. m \in Messages /\ m.status = 401
      BY <1>1
    <2> HIDE DEF m
    <2>2. reply' = [reply EXCEPT ![r] = m]
      BY <1>4 DEF m
    <2>3. Gives(r, m)
      BY <1>4, <2>1, <2>2 DEF Gives
    <2> QED
      BY <1>2, <1>4, <2>1, <2>3
  <1>5. CASE /\ UNCHANGED graph
             /\ \E m \in {NoAnswer, [status |-> 500, body |-> "detail"]}
                   \cup (IF Redirecting THEN {[status |-> 302, body |-> "garbled"]} ELSE {}) :
                  reply' = [reply EXCEPT ![r] = m]
    <2>1. PICK m \in {NoAnswer, [status |-> 500, body |-> "detail"]}
                   \cup (IF Redirecting THEN {[status |-> 302, body |-> "garbled"]} ELSE {}) :
                  reply' = [reply EXCEPT ![r] = m]
      BY <1>5
    <2>2. /\ m \in Messages /\ m.status # 401
          /\ Redirecting \/ m.status \in {0, 401, 500}
      <3>1. CASE Redirecting
        BY <1>1, <3>1 DEF NoAnswer
      <3>2. CASE ~Redirecting
        BY <1>1, <3>2 DEF NoAnswer
      <3> QED
        BY <3>1, <3>2
    <2>3. Gives(r, m)
      BY <2>1, <2>2 DEF Gives
    <2> QED
      BY <1>2, <1>5, <2>2, <2>3
  <1> QED
    BY <1>3, <1>4, <1>5 DEF SgServes

LEMMA ServesStep == ASSUME IInv, NEW r \in Requests, SgServes(r) PROVE IInv'
  <1>1. /\ stage[r] \in Endpoints /\ UNCHANGED <<env, proc, stage, answer, memory, table, joined>>
        /\ graph' = graph \/ graph' = [graph EXCEPT !.members = @ \cup {bearer[r]}]
    BY Served
  <1>2. PICK m \in Messages : Gives(r, m)
    BY Served
  <1>3. /\ reply \in [Requests -> Messages]
        /\ graph \in [accepts : SUBSET Users, members : SUBSET Users]
    BY DEF IInv, TypeOK
  <1>4. /\ reply' \in [Requests -> Messages] /\ reply'[r] = m
        /\ \A q \in Requests \ {r} : reply'[q] = reply[q]
    BY <1>2, <1>3 DEF Gives
  <1>5. graph' \in [accepts : SUBSET Users, members : SUBSET Users]
        /\ graph'.accepts = graph.accepts
    BY <1>1, <1>3, BackendAssumption
  <1>6. TypeOK'
    BY <1>1, <1>4, <1>5 DEF IInv, TypeOK, InFlight
  <1>7. RejectInv'
    BY <1>1, <1>2, <1>4, <1>5 DEF IInv, RejectInv, Gives
  <1>8. AnswerInv' /\ StoreInv' /\ RunInv' /\ Kept'
    BY <1>1 DEF IInv, AnswerInv, StoreInv, RunInv, Kept
  <1> QED
    BY <1>6, <1>7, <1>8 DEF IInv

LEMMA RevokeStep == ASSUME IInv, NEW u \in Users, Revoke(u) PROVE IInv'
  <1>1. /\ graph' = [graph EXCEPT !.accepts = @ \ {u}]
        /\ UNCHANGED <<env, proc, stage, reply, answer, memory, table, joined>>
    BY DEF Revoke
  <1>2. /\ graph \in [accepts : SUBSET Users, members : SUBSET Users]
        /\ graph' \in [accepts : SUBSET Users, members : SUBSET Users]
        /\ graph'.accepts = graph.accepts \ {u}
    BY <1>1 DEF IInv, TypeOK
  <1>3. TypeOK'
    BY <1>1, <1>2 DEF IInv, TypeOK, InFlight
  <1>4. RejectInv'
    BY <1>1, <1>2 DEF IInv, RejectInv
  <1>5. AnswerInv' /\ StoreInv' /\ RunInv' /\ Kept'
    BY <1>1 DEF IInv, AnswerInv, StoreInv, RunInv, Kept
  <1> QED
    BY <1>3, <1>4, <1>5 DEF IInv

LEMMA NextInv == IInv /\ [Next]_vars => IInv'
  <1> SUFFICES ASSUME IInv, [Next]_vars PROVE IInv'
    OBVIOUS
  <1>1. ASSUME NEW free \in BOOLEAN, Start(free) PROVE IInv'
    BY <1>1, StartStep
  <1>2. CASE Arm
    BY <1>2, ArmStep
  <1>3. CASE Kill
    BY <1>3, DiesStep DEF Kill
  <1>4. CASE Shutdown
    BY <1>4, ShutdownStep
  <1>5. CASE Drained
    BY <1>5, DrainedStep
  <1>6. ASSUME NEW s \in Signals, Signal(s) PROVE IInv'
    BY <1>6, SignalStep
  <1>7. ASSUME NEW r \in Requests,
               \/ Page(r) \/ Join(r) \/ Handle(r) \/ Write(r) \/ ClientLeaves(r) \/ SgServes(r)
        PROVE  IInv'
    BY <1>7, PageStep, JoinStep, HandleStep, WriteStep, LeavesStep, ServesStep
  <1>8. ASSUME NEW u \in Users, Revoke(u) PROVE IInv'
    BY <1>8, RevokeStep
  <1>9. CASE UNCHANGED vars
    <2>1. UNCHANGED <<env, proc, stage, reply, answer, graph, memory, table, joined>>
      BY <1>9 DEF vars
    <2>2. TypeOK'
      BY <2>1 DEF IInv, TypeOK, InFlight
    <2>3. RejectInv' /\ AnswerInv'
      BY <2>1 DEF IInv, RejectInv, AnswerInv
    <2>4. StoreInv' /\ RunInv' /\ Kept'
      BY <2>1 DEF IInv, StoreInv, RunInv, Kept
    <2> QED
      BY <2>2, <2>3, <2>4 DEF IInv
  <1> QED
    BY <1>1, <1>2, <1>3, <1>4, <1>5, <1>6, <1>7, <1>8, <1>9 DEF Next

\* The inductive invariant of a process and its requests.
THEOREM Invariance == Spec => []IInv
  <1>1. Init => IInv
    BY InitInv
  <1> QED
    BY <1>1, NextInv, PTL DEF Spec

\* Only a process that serves has requests in flight (serve, the drain).
THEOREM TypeCorrect == Spec => []TypeOK
  <1>1. IInv => TypeOK
    BY DEF IInv
  <1> QED
    BY <1>1, Invariance, PTL

\* A caught signal costs no request, for any number of requests, signals and runs
\* (shutdown_signal, with_graceful_shutdown).
THEOREM SignalsAbandonNone == Spec => []NoneAbandoned
  <1>1. IInv => NoneAbandoned
    <2> SUFFICES ASSUME IInv PROVE NoneAbandoned
      OBVIOUS
    <2>1. \A r \in Requests : answer[r].body \notin Signals
      BY DEF IInv, AnswerInv
    <2>2. proc.phase = "ended" => proc.phase \notin Serving
      BY DEF Serving
    <2> QED
      BY <2>1, <2>2 DEF IInv, TypeOK, NoneAbandoned
  <1> QED
    BY <1>1, Invariance, PTL

\* A 401 to a caller is the Social Graph's verdict on its token (resolve_me).
THEOREM RejectedTruly == Spec => []RejectedIsRevoked
  <1>1. IInv => RejectedIsRevoked
    BY DEF IInv, RejectInv, RejectedIsRevoked
  <1> QED
    BY <1>1, Invariance, PTL

\* An acknowledged join survives as its label promises (select_dynamo_or_memory).
THEOREM AcknowledgedKept == Spec => []Kept
  <1>1. IInv => Kept
    BY DEF IInv
  <1> QED
    BY <1>1, Invariance, PTL

-------------------------------------------------------------------------------
\* Joined callers are members, if the Social Graph is not hidden by redirects.

LEMMA ListedStep == ASSUME ~Redirecting, IInv, Listed, [Next]_vars PROVE Listed'
  <1>1. ASSUME joined' = joined, graph'.members = graph.members, reply' = reply,
               \A r \in Requests : stage'[r] = stage[r]
                                   \/ stage'[r] \notin {"membership", "connections", "write"}
        PROVE  Listed'
    BY <1>1 DEF Listed, MemberInv, JoinedIsListed
  <1>2. /\ stage \in [Requests -> Stages] /\ reply \in [Requests -> Messages]
        /\ graph \in [accepts : SUBSET Users, members : SUBSET Users]
    BY DEF IInv, TypeOK
  <1>3. ASSUME NEW free \in BOOLEAN, Start(free) PROVE Listed'
    BY <1>1, <1>3 DEF Start
  <1>4. CASE Arm \/ Shutdown \/ Drained
    BY <1>1, <1>4 DEF Arm, Shutdown, Drained
  <1>5. ASSUME NEW cause, Dies(cause) PROVE Listed'
    <2>1. \A r \in Requests : stage'[r] = stage[r] \/ stage'[r] = "lost"
      BY <1>5 DEF Dies
    <2> QED
      BY <1>1, <1>5, <2>1 DEF Dies
  <1>6. ASSUME NEW s \in Signals, Signal(s) PROVE Listed'
    <2>1. CASE proc.armed /\ s \in Handled
      BY <1>1, <1>6, <2>1 DEF Signal
    <2>2. CASE ~(proc.armed /\ s \in Handled)
      BY <1>5, <1>6, <2>2 DEF Signal
    <2> QED
      BY <2>1, <2>2
  <1>7. ASSUME NEW r \in Requests, NEW x \in {"served", "answered", "left"},
               stage' = [stage EXCEPT ![r] = x], UNCHANGED <<reply, graph, joined>>
        PROVE  Listed'
    BY <1>1, <1>2, <1>7
  <1>8. ASSUME NEW r \in Requests, Page(r) PROVE Listed'
    BY <1>7, <1>8 DEF Page, Answer
  <1>9. ASSUME NEW r \in Requests, ClientLeaves(r) PROVE Listed'
    BY <1>7, <1>9 DEF ClientLeaves
  <1>10. ASSUME NEW r \in Requests, Fails(r), UNCHANGED <<reply, graph, joined>> PROVE Listed'
    BY <1>7, <1>10 DEF Fails, Answer
  <1>11. ASSUME NEW r \in Requests, NEW x \in {"me", "membership", "connections"}, Calls(r, x),
                UNCHANGED <<graph, joined>>, x = "connections" => bearer[r] \in graph.members
         PROVE  Listed'
    <2>1. /\ stage'[r] = x /\ reply'[r].status = 0
          /\ \A q \in Requests \ {r} : stage'[q] = stage[q] /\ reply'[q] = reply[q]
      BY <1>2, <1>11, WaitingIs DEF Calls
    <2> QED
      BY <1>11, <2>1 DEF Listed, MemberInv, JoinedIsListed
  <1>12. ASSUME NEW r \in Requests, Join(r) PROVE Listed'
    BY <1>11, <1>12 DEF Join
  <1>13. ASSUME NEW r \in Requests, Handle(r) PROVE Listed'
    <2>1. UNCHANGED <<graph, joined>>
      BY <1>13, ReplyHandled
    <2>2. CASE Fails(r) /\ UNCHANGED reply
      BY <1>10, <2>1, <2>2
    <2>3. CASE UNCHANGED reply /\ Answer(r, "answered", into_response("Unauthorized"))
      BY <1>7, <2>1, <2>3 DEF Answer
    <2>4. CASE Calls(r, "membership")
      BY <1>11, <2>1, <2>4
    <2>5. CASE /\ stage[r] = "membership" /\ Calls(r, "connections")
               /\ reply[r].status # 0 /\ reply[r].status \notin 400..599
      BY <1>11, <2>1, <2>5 DEF Listed, MemberInv
    <2>6. CASE /\ stage[r] = "connections" /\ stage' = [stage EXCEPT ![r] = "write"]
               /\ UNCHANGED reply
      <3>1. /\ stage'[r] = "write" /\ bearer[r] \in graph.members
            /\ \A q \in Requests \ {r} : stage'[q] = stage[q]
        BY <1>2, <2>6 DEF Listed, MemberInv
      <3> QED
        BY <2>1, <2>6, <3>1 DEF Listed, MemberInv, JoinedIsListed
    <2> QED
      BY <1>13, <2>2, <2>3, <2>4, <2>5, <2>6, ReplyHandled
  <1>14. ASSUME NEW r \in Requests, Write(r) PROVE Listed'
    <2>1. stage[r] = "write" /\ UNCHANGED <<reply, graph>>
      BY <1>14, Written
    <2>2. bearer[r] \in graph.members
      BY <2>1 DEF Listed, MemberInv
    <2>3. CASE Fails(r) /\ UNCHANGED joined
      BY <1>10, <2>1, <2>3
    <2>4. CASE /\ Answer(r, "answered", [status |-> 200, body |-> "joined"])
               /\ joined' = joined \cup {[user |-> bearer[r], label |-> proc.label,
                                          run |-> proc.run]}
      <3>1. JoinedIsListed'
        BY <2>1, <2>2, <2>4 DEF Listed, JoinedIsListed
      <3>2. \A q \in Requests : stage'[q] = stage[q] \/ stage'[q] = "answered"
        BY <1>2, <2>4 DEF Answer
      <3>3. MemberInv'
        BY <2>1, <3>2 DEF Listed, MemberInv
      <3> QED
        BY <3>1, <3>3 DEF Listed
    <2> QED
      BY <1>14, <2>3, <2>4, Written
  <1>15. ASSUME NEW r \in Requests, SgServes(r) PROVE Listed'
    <2>1. /\ UNCHANGED <<stage, joined>>
          /\ graph' = graph \/ graph' = [graph EXCEPT !.members = @ \cup {bearer[r]}]
      BY <1>15, Served
    <2>2. PICK m \in Messages : Gives(r, m)
      BY <1>15, Served
    <2>3. reply'[r] = m /\ \A q \in Requests \ {r} : reply'[q] = reply[q]
      BY <1>2, <2>2 DEF Gives
    <2>4. graph.members \subseteq graph'.members
      BY <1>2, <2>1
    <2>5. stage[r] = "membership" /\ m.status # 0 /\ m.status \notin 400..599
            => bearer[r] \in graph'.members
      BY <1>2, <2>2 DEF Gives
    <2> QED
      BY <2>1, <2>3, <2>4, <2>5 DEF Listed, MemberInv, JoinedIsListed
  <1>16. ASSUME NEW u \in Users, Revoke(u) PROVE Listed'
    <2>1. graph'.members = graph.members
      BY <1>2, <1>16 DEF Revoke
    <2> QED
      BY <1>1, <1>16, <2>1 DEF Revoke
  <1>17. CASE UNCHANGED vars
    BY <1>1, <1>17 DEF vars
  <1> QED
    BY <1>3, <1>4, <1>5, <1>6, <1>8, <1>9, <1>12, <1>13, <1>14, <1>15, <1>16, <1>17
       DEF Next, Kill

\* Whoever is told to have joined is a member, for any number of requests, lost
\* answers and restarts: register_membership lets through what is not an error,
\* which is enough as long as no redirect answers for the Social Graph.
THEOREM JoinedListed == ASSUME ~Redirecting PROVE Spec => []JoinedIsListed
  <1>1. Init => Listed
    BY InitInv
  <1>2. IInv /\ Listed /\ [Next]_vars => Listed'
    BY ListedStep
  <1>3. Listed => JoinedIsListed
    BY DEF Listed
  <1> QED
    BY <1>1, <1>2, <1>3, Invariance, PTL DEF Spec

-------------------------------------------------------------------------------
\* A drain comes to its end, and an answer stays.

\* How many steps a request in flight may have before it, replies included.
Work(at, m) ==
    CASE at = "me" -> IF m = Waiting THEN 7 ELSE 6
      [] at = "membership" -> IF m = Waiting THEN 5 ELSE 4
      [] at = "connections" -> IF m = Waiting THEN 3 ELSE 2
      [] at = "write" -> 1
      [] OTHER -> 0
WorkLeft(r) == Work(stage[r], reply[r])

\* Every step of a handler, and every reply, leaves a request less to do; and
\* during the drain nothing gives any request more to do, nor lets a new one in:
\* seven steps per request are the most a drain has to wait for.
DrainShrinks ==
    [][\A r \in Requests :
         /\ Handle(r) \/ Write(r) \/ SgServes(r) => WorkLeft(r)' < WorkLeft(r)
         /\ proc.phase = "draining" => WorkLeft(r)' <= WorkLeft(r)]_vars

\* Once a request is answered, or lost, that is what its client has: no later
\* reply, crash or run of the process changes it.
AnswersFinal ==
    [][\A r \in Requests : ~InFlight(r) /\ stage[r] # "idle" =>
          answer'[r] = answer[r] /\ stage'[r] = stage[r]]_vars

LEMMA WorkIs == \A at, m : Work(at, m) \in 0 .. 7
BY DEF Work

\* The other requests, in a step of r.
Others(r) ==
    \A q \in Requests \ {r} :
        stage'[q] = stage[q] /\ reply'[q] = reply[q] /\ answer'[q] = answer[q]

\* A step of a handler: it is done, or makes its next call, or is about to write.
LEMMA HandlerMoves ==
    ASSUME TypeOK, NEW r \in Requests, Handle(r) \/ Write(r)
    PROVE  WorkLeft(r)' < WorkLeft(r) /\ InFlight(r) /\ Others(r)
<1>1. ASSUME NEW m, Answer(r, "answered", m), UNCHANGED reply,
             stage[r] \in Endpoints \cup {"write"}
      PROVE  WorkLeft(r)' < WorkLeft(r) /\ InFlight(r) /\ Others(r)
  <2>1. stage'[r] = "answered" /\ Others(r)
    BY <1>1 DEF Answer, TypeOK, Others
  <2> QED
    BY <1>1, <2>1 DEF WorkLeft, Work, InFlight, Endpoints
<1>2. ASSUME Fails(r), UNCHANGED reply, stage[r] \in Endpoints \cup {"write"}
      PROVE  WorkLeft(r)' < WorkLeft(r) /\ InFlight(r) /\ Others(r)
  BY <1>1, <1>2 DEF Fails
<1>3. ASSUME NEW at \in {"membership", "connections"}, Calls(r, at), UNCHANGED answer,
             \/ stage[r] = "me" /\ at = "membership"
             \/ stage[r] = "membership" /\ at = "connections",
             reply[r] # Waiting
      PROVE  WorkLeft(r)' < WorkLeft(r) /\ InFlight(r) /\ Others(r)
  <2>1. stage'[r] = at /\ reply'[r] = Waiting /\ Others(r)
    BY <1>3 DEF Calls, TypeOK, Others
  <2> QED
    BY <1>3, <2>1 DEF WorkLeft, Work, InFlight, Endpoints
<1>4. CASE Handle(r)
  <2>1. stage[r] \in Endpoints /\ reply[r] # Waiting
    BY <1>4 DEF Handle, Endpoints
  <2>2. CASE /\ stage[r] = "connections" /\ stage' = [stage EXCEPT ![r] = "write"]
             /\ UNCHANGED <<reply, answer>>
    <3>1. stage'[r] = "write" /\ Others(r)
      BY <2>2 DEF TypeOK, Others
    <3> QED
      BY <2>1, <2>2, <3>1 DEF WorkLeft, Work, InFlight
  <2> QED
    BY <1>1, <1>2, <1>3, <1>4, <2>1, <2>2, ReplyHandled
<1>5. CASE Write(r)
  BY <1>1, <1>2, <1>5 DEF Write
<1> QED
  BY <1>4, <1>5

\* The Social Graph's step: a call that waited has its reply.
LEMMA ReplyMoves ==
    ASSUME TypeOK, NEW r \in Requests, SgServes(r)
    PROVE  WorkLeft(r)' < WorkLeft(r) /\ InFlight(r) /\ Others(r)
<1>1. \E m : m # Waiting /\ reply' = [reply EXCEPT ![r] = m]
  BY DEF SgServes, Waiting, NoAnswer
<1>2. /\ stage[r] \in Endpoints /\ reply[r] = Waiting /\ UNCHANGED <<stage, answer>>
  BY DEF SgServes
<1>3. reply'[r] # Waiting /\ Others(r)
  BY <1>1, <1>2 DEF TypeOK, Others
<1> QED
  BY <1>2, <1>3 DEF WorkLeft, Work, InFlight, Endpoints

\* Every other step leaves a request as it is, ends it, or, outside the drain,
\* lets it in.
LEMMA OtherMoves ==
    ASSUME TypeOK, [Next]_vars, ~\E q \in Requests : Handle(q) \/ Write(q) \/ SgServes(q),
           NEW r \in Requests
    PROVE  \/ UNCHANGED <<stage[r], reply[r], answer[r]>>
           \/ InFlight(r) /\ UNCHANGED reply[r] /\ stage'[r] \in {"lost", "left"}
           \/ stage[r] = "idle" /\ proc.phase # "draining"
<1>1. CASE \/ \E free \in BOOLEAN : Start(free)
           \/ Arm \/ Shutdown \/ Drained
           \/ \E u \in Users : Revoke(u)
           \/ UNCHANGED vars
  BY <1>1 DEF Start, Arm, Shutdown, Drained, Revoke, vars
<1>2. ASSUME NEW cause, Dies(cause)
      PROVE  \/ UNCHANGED <<stage[r], reply[r], answer[r]>>
             \/ InFlight(r) /\ UNCHANGED reply[r] /\ stage'[r] \in {"lost", "left"}
  BY <1>2 DEF Dies
<1>3. CASE Kill \/ \E s \in Signals : Signal(s)
  BY <1>2, <1>3 DEF Kill, Signal
<1>4. ASSUME NEW q \in Requests, Page(q) \/ Join(q)
      PROVE  \/ UNCHANGED <<stage[r], reply[r], answer[r]>>
             \/ stage[r] = "idle" /\ proc.phase # "draining"
  <2>1. stage[q] = "idle" /\ proc.phase # "draining"
    BY <1>4 DEF Page, Join, Accepting, run_lambda
  <2>2. r # q => UNCHANGED <<stage[r], reply[r], answer[r]>>
    BY <1>4 DEF Page, Join, Answer, Calls, TypeOK
  <2> QED
    BY <2>1, <2>2
<1>5. ASSUME NEW q \in Requests, ClientLeaves(q)
      PROVE  \/ UNCHANGED <<stage[r], reply[r], answer[r]>>
             \/ InFlight(r) /\ UNCHANGED reply[r] /\ stage'[r] \in {"lost", "left"}
  BY <1>5 DEF ClientLeaves, TypeOK
<1> QED
  BY <1>1, <1>3, <1>4, <1>5 DEF Next

\* A drain is finite, for any number of requests in flight, whatever replies they
\* get (with_graceful_shutdown).
THEOREM DrainIsFinite == Spec => DrainShrinks
<1> DEFINE Shrinks == \A r \in Requests :
             /\ Handle(r) \/ Write(r) \/ SgServes(r) => WorkLeft(r)' < WorkLeft(r)
             /\ proc.phase = "draining" => WorkLeft(r)' <= WorkLeft(r)
<1>1. ASSUME TypeOK, [Next]_vars PROVE Shrinks
  <2>1. ASSUME NEW r \in Requests, Handle(r) \/ Write(r) \/ SgServes(r)
        PROVE  WorkLeft(r)' < WorkLeft(r) /\ Others(r)
    BY <1>1, <2>1, HandlerMoves, ReplyMoves
  <2>2. ASSUME NEW r \in Requests, proc.phase = "draining"
        PROVE  WorkLeft(r)' <= WorkLeft(r)
    <3>1. WorkLeft(r) \in 0 .. 7 /\ WorkLeft(r)' \in 0 .. 7
      BY WorkIs DEF WorkLeft
    <3>2. UNCHANGED <<stage[r], reply[r]>> => WorkLeft(r)' = WorkLeft(r)
      BY DEF WorkLeft
    <3>3. ASSUME NEW q \in Requests, Handle(q) \/ Write(q) \/ SgServes(q)
          PROVE  WorkLeft(r)' <= WorkLeft(r)
      BY <2>1, <3>1, <3>2, <3>3 DEF Others
    <3>4. ASSUME ~\E q \in Requests : Handle(q) \/ Write(q) \/ SgServes(q)
          PROVE  WorkLeft(r)' <= WorkLeft(r)
      <4>1. stage'[r] \in {"lost", "left"} => WorkLeft(r)' = 0
        BY DEF WorkLeft, Work
      <4>2. \/ UNCHANGED <<stage[r], reply[r]>>
            \/ stage'[r] \in {"lost", "left"}
        BY <1>1, <2>2, <3>4, OtherMoves
      <4> QED
        BY <3>1, <3>2, <4>1, <4>2
    <3> QED
      BY <3>3, <3>4
  <2> QED
    BY <2>1, <2>2
<1> HIDE DEF Shrinks
<1>2. TypeOK /\ [Next]_vars => [Shrinks]_vars
  BY <1>1
<1>3. Spec => [][Shrinks]_vars
  BY <1>2, TypeCorrect, PTL DEF Spec
<1> QED
  BY <1>3 DEF DrainShrinks, Shrinks

\* An answer is final, for any number of requests and runs (serve, the drain).
THEOREM AnswersStay == Spec => AnswersFinal
<1> DEFINE Final == \A r \in Requests : ~InFlight(r) /\ stage[r] # "idle" =>
                       answer'[r] = answer[r] /\ stage'[r] = stage[r]
<1>1. ASSUME TypeOK, [Next]_vars PROVE Final
  <2> SUFFICES ASSUME NEW r \in Requests, ~InFlight(r), stage[r] # "idle"
               PROVE  answer'[r] = answer[r] /\ stage'[r] = stage[r]
    OBVIOUS
  <2>1. ASSUME NEW q \in Requests, Handle(q) \/ Write(q) \/ SgServes(q)
        PROVE  answer'[r] = answer[r] /\ stage'[r] = stage[r]
    <3>1. InFlight(q) /\ Others(q)
      BY <1>1, <2>1, HandlerMoves, ReplyMoves
    <3> QED
      BY <3>1 DEF Others
  <2> QED
    BY <1>1, <2>1, OtherMoves
<1> HIDE DEF Final
<1>2. TypeOK /\ [Next]_vars => [Final]_vars
  BY <1>1
<1>3. Spec => [][Final]_vars
  BY <1>2, TypeCorrect, PTL DEF Spec
<1> QED
  BY <1>3 DEF AnswersFinal, Final
===============================================================================
