----------------------------- MODULE OutboundGuard -----------------------------
(***************************************************************************)
(* platform-outbound-guard: requests to URLs that a requester chose.  A    *)
(* job registers a URL, and then makes attempts: each resolves the host    *)
(* anew, is refused or gets a Destination, builds a client pinned to it    *)
(* and sends.  DNS answers anything, differently each time; the HTTP       *)
(* client (reqwest, outside this repository) does what its configuration   *)
(* tells it to; servers answer, redirect or fail.                          *)
(***************************************************************************)
EXTENDS OutboundAddress

CONSTANTS
    Jobs,
    Domains,        \* hosts that are names
    Addresses,      \* the IP addresses that occur, in URLs and in DNS answers
    Urls,           \* the URLs requesters supply and servers redirect to
    NoHost,         \* the host of a URL without one
    None,           \* no URL, no destination
    MaxAttempts     \* bound of the model: attempts per job

UrlShape == [https : BOOLEAN, host : Domains \cup Addresses \cup {NoHost},
             userinfo : BOOLEAN, port : BOOLEAN]

ASSUME AddressAssumption == Addresses \subseteq Ipv4Addr \cup Ipv6Addr
ASSUME HostAssumption ==
    /\ Domains \cap Addresses = {}
    /\ NoHost \notin Domains \cup Addresses
ASSUME UrlAssumption == Urls \subseteq UrlShape /\ None \notin Urls
ASSUME NoneAssumption ==
    None \notin [host : Domains \cup Addresses, addrs : SUBSET Addresses]
ASSUME AttemptsAssumption == MaxAttempts \in Nat

VARIABLES
    url,        \* the URL a job was registered with
    phase,      \* where the job is: new, registered, resolving, ready,
                \*   sent, failed, closed
    dest,       \* the Destination of the current attempt
    answer,     \* what the lookup of the current attempt returned
    reached,    \* the addresses the requests of the current attempt went to
    attempts    \* how many attempts have begun

vars == <<url, phase, dest, answer, reached, attempts>>

-------------------------------------------------------------------------------
\* The checks.

literal_host_ip(u) == u.host \in Addresses

\* Mutant: a URL without a host passes.
check_url_Hostless(u) ==
    u.https /\ ~u.userinfo /\ u.port /\ (literal_host_ip(u) => ensure_public_ip(u.host))

check_url(u) ==
    /\ u.https
    /\ u.host # NoHost
    /\ ~u.userinfo
    /\ u.port
    /\ literal_host_ip(u) => ensure_public_ip(u.host)

\* What resolve_pinned asks of the sorted, deduplicated answer.
AnswerPasses(addrs) == addrs # {} /\ \A a \in addrs : ensure_public_ip(a)

Destination(host, addrs) == [host |-> host, addrs |-> addrs]

\* Mutant: no pin; the name is looked up again when the client connects.
client_builder_Unpinned(d) == [follows |-> FALSE, proxied |-> FALSE,
                               host |-> d.host, pins |-> {}]

\* Mutant: reqwest's default redirect policy is left in place.
client_builder_Following(d) == [follows |-> TRUE, proxied |-> FALSE,
                                host |-> d.host, pins |-> d.addrs]

client_builder(d) == [follows |-> FALSE, proxied |-> FALSE,
                      host |-> d.host, pins |-> d.addrs]

\* Where reqwest may connect for u: to a proxy, to the literal address, to the
\* addresses the host is pinned to, or to whatever it resolves the host to.
Targets(client, u) ==
    IF client.proxied THEN Addresses
    ELSE IF literal_host_ip(u) THEN {u.host}
    ELSE IF client.host = u.host /\ client.pins # {} THEN client.pins
    ELSE Addresses

-------------------------------------------------------------------------------
\* Jobs.

Init ==
    /\ url = [j \in Jobs |-> None]
    /\ phase = [j \in Jobs |-> "new"]
    /\ dest = [j \in Jobs |-> None]
    /\ answer = [j \in Jobs |-> {}]
    /\ reached = [j \in Jobs |-> {}]
    /\ attempts = [j \in Jobs |-> 0]

\* validate_url at registration; a URL it refuses is never stored.
Register(j, u) ==
    /\ phase[j] = "new"
    /\ check_url(u)
    /\ url' = [url EXCEPT ![j] = u]
    /\ phase' = [phase EXCEPT ![j] = "registered"]
    /\ UNCHANGED <<dest, answer, reached, attempts>>

\* resolve_pinned up to the await: the URL is checked again, a literal address
\* becomes a destination at once, a name is looked up.
Resolve(j) ==
    /\ phase[j] = "registered"
    /\ attempts[j] < MaxAttempts
    /\ attempts' = [attempts EXCEPT ![j] = @ + 1]
    /\ IF ~check_url(url[j])
         THEN /\ phase' = [phase EXCEPT ![j] = "closed"]
              /\ UNCHANGED dest
         ELSE IF literal_host_ip(url[j])
         THEN /\ phase' = [phase EXCEPT ![j] = "ready"]
              /\ dest' = [dest EXCEPT ![j] = Destination(url[j].host, {})]
         ELSE /\ phase' = [phase EXCEPT ![j] = "resolving"]
              /\ UNCHANGED dest
    /\ UNCHANGED <<url, answer, reached>>

\* Mutant: after an answer it refuses it waits for a better one.
Answer_AskAgain(j, addrs) ==
    /\ phase[j] = "resolving"
    /\ answer' = [answer EXCEPT ![j] = addrs]
    /\ IF AnswerPasses(addrs)
         THEN /\ phase' = [phase EXCEPT ![j] = "ready"]
              /\ dest' = [dest EXCEPT ![j] = Destination(url[j].host, addrs)]
         ELSE UNCHANGED <<phase, dest>>
    /\ UNCHANGED <<url, reached, attempts>>

\* resolve_pinned after the await, with the addresses the lookup returned.
Answer(j, addrs) ==
    /\ phase[j] = "resolving"
    /\ answer' = [answer EXCEPT ![j] = addrs]
    /\ IF AnswerPasses(addrs)
         THEN /\ phase' = [phase EXCEPT ![j] = "ready"]
              /\ dest' = [dest EXCEPT ![j] = Destination(url[j].host, addrs)]
         ELSE /\ phase' = [phase EXCEPT ![j] = "failed"]
              /\ UNCHANGED dest
    /\ UNCHANGED <<url, reached, attempts>>

\* The lookup fails, or the caller's timeout drops it.
LookupFails(j) ==
    /\ phase[j] = "resolving"
    /\ phase' = [phase EXCEPT ![j] = "failed"]
    /\ UNCHANGED <<url, dest, answer, reached, attempts>>

\* The client built from the destination sends; the connection goes to one of
\* the targets.
Send(j, a) ==
    /\ phase[j] = "ready"
    /\ a \in Targets(client_builder(dest[j]), url[j])
    /\ reached' = [reached EXCEPT ![j] = @ \cup {a}]
    /\ phase' = [phase EXCEPT ![j] = "sent"]
    /\ UNCHANGED <<url, dest, answer, attempts>>

\* The server redirects to u.  A client that follows redirects connects on its
\* own; one that does not hands the 3xx back.
Redirected(j, u, a) ==
    /\ phase[j] = "sent"
    /\ LET client == client_builder(dest[j])
       IN  IF client.follows
             THEN /\ a \in Targets(client, u)
                  /\ reached' = [reached EXCEPT ![j] = @ \cup {a}]
                  /\ UNCHANGED phase
             ELSE /\ phase' = [phase EXCEPT ![j] = "closed"]
                  /\ UNCHANGED reached
    /\ UNCHANGED <<url, dest, answer, attempts>>

Delivered(j) ==
    /\ phase[j] = "sent"
    /\ phase' = [phase EXCEPT ![j] = "closed"]
    /\ UNCHANGED <<url, dest, answer, reached, attempts>>

SendFails(j) ==
    /\ phase[j] = "sent"
    /\ phase' = [phase EXCEPT ![j] = "failed"]
    /\ UNCHANGED <<url, dest, answer, reached, attempts>>

\* The caller tries again, from resolve_pinned on, while it has attempts left.
Retry(j) ==
    /\ phase[j] = "failed"
    /\ phase' = [phase EXCEPT ![j] =
                   IF attempts[j] < MaxAttempts THEN "registered" ELSE "closed"]
    /\ dest' = [dest EXCEPT ![j] = None]
    /\ answer' = [answer EXCEPT ![j] = {}]
    /\ reached' = [reached EXCEPT ![j] = {}]
    /\ UNCHANGED <<url, attempts>>

\* What becomes of an attempt, once the caller drives it.
Drive(j) ==
    \/ Resolve(j)
    \/ LookupFails(j) \/ \E addrs \in SUBSET Addresses : Answer(j, addrs)
    \/ \E a \in Addresses : Send(j, a) \/ \E u \in Urls : Redirected(j, u, a)
    \/ Delivered(j) \/ SendFails(j)
    \/ Retry(j)

Next == \E j \in Jobs : Drive(j) \/ \E u \in Urls : Register(j, u)

\* The caller keeps driving the jobs it accepted; lookups and requests end, if
\* only by a timeout.
Spec == Init /\ [][Next]_vars /\ \A j \in Jobs : WF_vars(Drive(j))

-------------------------------------------------------------------------------
\* Properties.

\* The type invariant.
TypeOK ==
    /\ url \in [Jobs -> Urls \cup {None}]
    /\ phase \in [Jobs -> {"new", "registered", "resolving", "ready", "sent",
                           "failed", "closed"}]
    /\ dest \in [Jobs -> {None} \cup [host : Domains \cup Addresses,
                                      addrs : SUBSET Addresses]]
    /\ answer \in [Jobs -> SUBSET Addresses]
    /\ reached \in [Jobs -> SUBSET Addresses]
    /\ attempts \in [Jobs -> 0 .. MaxAttempts]

\* No request ever goes to a special address, whatever DNS answers at which
\* moment, to whatever the server redirects, and however often it is retried.
OnlyPublicReached ==
    \A j \in Jobs : \A a \in reached[j] : ~Special(a)

\* The connection goes to an address that this attempt checked: the literal
\* host, or a member of the answer this very attempt received.  No address is
\* left over from an earlier attempt and none comes from a second lookup.
ReachedWasResolved ==
    \A j \in Jobs : reached[j] \subseteq
        IF url[j] # None /\ literal_host_ip(url[j]) THEN {url[j].host} ELSE answer[j]

\* A mixed answer is refused outright: while an attempt holds a destination, no
\* address of its answer is special, those it did not connect to included.
NoMixedAnswer ==
    \A j \in Jobs : dest[j] # None => \A a \in answer[j] : ~Special(a)

\* Every accepted job ends: neither a refusal, an empty answer nor a failure
\* leaves it between two phases.
EveryJobCloses ==
    \A j \in Jobs : phase[j] = "registered" ~> phase[j] = "closed"
===============================================================================
