# A TLA+ model of the platform crates

The repository holds the Rust crates that every backend of the platform builds on. Most of
them are thin, and what makes them right or wrong is how they are used: a verdict that is
computed before an await and used after it, a check in one instance and a record in another,
a rollout in which old and new code run side by side. This directory models those uses,
checks them with TLC on small instances and proves the central properties with TLAPS for
every instance.

All `lib.rs` lines below are of the crate that the section is about, under `src/<crate>/src/`.

## Inventory

| component | state it keeps | operations | interacts with | what is hard |
|---|---|---|---|---|
| platform-webhook-sig | none (stateless by design); a secret, a window, the accepted schemes | `Signer::sign`, `sign_with`; `Verifier::new`, `also_accept`, `verify` | senders sign, the network carries, consumers verify and dedup the returned nonce | duplicates reaching two instances, verify and record not atomic, two-sided window, rollout order, signed strings without lengths, i64 arithmetic |
| platform-outbound-guard | none; a `Destination` is a proof that a check ran | `validate_url`, `check_url`, `resolve_pinned`, `client_builder`, the address predicates | the caller's job, DNS, reqwest | DNS changes between check and connect, mixed and empty answers, redirects, retries, prefix boundaries |
| platform-chirp-auth | the allowlist read at startup | `MachineAuth::from_env`, `verify`, `decode_trusted_headers`, `apply_on_behalf_of_grant` | chirp-auth-client (keys, JWTs), the backend's dispatch, its grant store | grants revoked around an await, errors that look alike, fall-through, unset against blank |
| platform-chirp-auth testkit | one key per process; the set its server serves | `mint_human_id_token`, `mint_machine_id_token`, `start_jwks_server`, `config` | tests of consumers | a key made by whoever asks first, one name for every process's key |
| platform-http-error | none | `ApiError::status`, `detail`, `into_response` | every handler | redaction keyed off the status |
| platform-lambda | process-wide: tracing, listener | `serve`, `run_lambda`, `shutdown_signal`, `select_dynamo_or_memory`, health routes | environment, Lambda runtime, signals, AWS configuration | shutdown against requests in flight, order of start-up decisions, set-but-blank variables |
| platform-vault-dynamo | the SDK client | the granted item operations, `transact_write` | DynamoDB under an IAM grant without deletes | tombstones against concurrent writers and readers, conditional updates |
| platform-drive-deposit | HTTP client, base URL | `deposit`, `feed_op_bytes` | Drive's append-only store | lost answers and retries |
| platform-sg-graph-client | HTTP client, base URL | `resolve_me`, `register_membership`, `connections_members` | Social Graph | status mapping, lost answers, joins seen late |
| platform-notary | a local or a KMS key | `kid`, `jwks`, `sign` | KMS, clients that fetch the key set | restart with a new key id |
| CI workflows | none | dispatch and poll | the hosting service | a deadline against a late result |

What makes each component correct:

* **webhook-sig** - the string that an accepted delivery makes up was signed by a holder of the
  secret, and with a minted nonce field by field; it is recent; with the consumer's dedup nothing
  verified is acted on twice, and nothing with a minted nonce is dropped that was not acted on;
  no genuine fresh delivery is refused during the rollout.
* **outbound-guard** - no request reaches an address outside the public ranges, and each one
  reaches only what was checked for that very attempt.
* **chirp-auth** - a request acts only as somebody it may act as; a refusal is final; every
  request is answered.
* **drive-deposit** - what an app is told is posted is in the recipient's feed, and a row that is
  deposited again is not there twice.
* **vault** - what a call reports as done is done, no transaction is half done, IAM refuses
  nothing that a store without condition checks writes, and a retired row stays retired.
* **lambda**, **sg-graph**, **http-error** - a signal costs no request and a backend that is told
  to stop stops; "joined" means listed at the Social Graph and kept in the store the backend
  says it has; a 401 means a rejected token.
* **notary**, **testkit** - a key set confirms what its process signs.

## Modules

| module | what it is |
|---|---|
| `WebhookInbox` | what a webhook consumer promises: readings of signed strings only, each at most once |
| `Webhook` | senders, network, consumer instances, dedup store, rollout; implements `WebhookInbox` |
| `WebhookProofs` | its invariant and theorems |
| `OutboundAddress` | the address predicates, and apart from them the special ranges as intervals |
| `AddressForms` | an address that is judged, then rewritten into a form that embeds it |
| `OutboundAddressProofs` | the predicates against the ranges, for every address |
| `OutboundGuard` | jobs that resolve, pin, connect, are redirected and retry; uses `OutboundAddress` |
| `OutboundGuardProofs` | its invariant and theorems |
| `Attributions` | what an identity promises: one decision per request, right when it is made |
| `RequestIdentity` | startup, verifier, dispatch, headers, lookup; implements `Attributions` |
| `RequestIdentityProofs` | its invariant, theorems and the refinement |
| `DepositLedger` | what depositing promises: rows an app meant to post, each shown once |
| `DepositFeed` | calls that encode, post and retry, the network, Drive; implements `DepositLedger` |
| `DepositFeedProofs` | its invariant, theorems and the refinement |
| `Approvals` | what the vault promises a store of approvals: decided once, retired for good |
| `VaultRows` | a store's calls, transactions, DynamoDB with its IAM check; implements `Approvals` |
| `VaultRowsProofs` | its invariant, theorems and the refinement |
| `ErrorResponse` | the errors of platform-http-error and their responses |
| `GraphClient` | what the three calls of platform-sg-graph-client make of a reply |
| `AppBackend` | a backend's process, requests, store and Social Graph; composes the two above |
| `AppBackendProofs` | its invariant and theorems |
| `SigningKeys` | notaries and testkits: keys, key sets, signatures, restarts |
| `SigningKeysProofs` | its invariant and theorems |
| `MC...` | the small instances that TLC checks |

### Webhook

`Verify` is `Verifier::verify`, check by check in the code's order, with the error of the first
check that fails. `VerifierString` (the string the verifier feeds its MAC, lib.rs:222-230) and
`mac_over` (lib.rs:253-261) are kept apart, as in the code: that they agree is a property, not
an assumption. HMAC is ideal, a MAC being the record of its key and of the string.

A string is the sequence of the pieces between its dots, so `Join(a, b)`, "a.b", is `a \o b`,
and it does not tell where `a` ended. An integer is the piece of its decimal text, and parses
only if it is the whole string; `LTrim` and `RTrim` say what `str::trim` does to a piece, `Empty`
is the piece without a character. A nonce header of white space counts as none (lib.rs:202). A
signature that does not decode is `Malformed`.

`sign` takes a stamp of the sender's clock, which may be off, and a UUID it has not minted before;
`sign_with` takes any stamp and any nonce of the caller's, also one used already, one with dots
and one with white space around it. The last is signed as given and verified trimmed, so such a
delivery never verifies; `FreshGenuineAccepted` leaves it out (`Carried`).

What the dots mean for the promises:

* `verify` accepts only strings that were signed, but it takes the fields from where the
  headers cut them. One signed string has as many *readings* as it has dots to cut at, and a
  reading without a nonce is of the other scheme. `SchemesDistinct`, which the docs promise, is
  violated: the finding of `webhook_schemes`.
* A nonce that `sign` minted occurs nowhere else in what is signed (`UuidsAssumption`), so where
  verify returns one, the reading is the delivery that was signed. `OkIsAuthentic` and
  `OnlyRepeatsDropped` promise this, and the signed string for the rest.
* `NoReplay` and the inbox count readings: the consumer acts on each at most once. They do not
  say that a signed string is acted on once, since with another cut it has another dedup key.
* Where no stamp, nonce or body has a dot, a string has one canonical reading: `DotlessBinds`.

A signed delivery stays in the network for good, as every copy that `Alterations` names: as
signed, cut anew anywhere (`Framings`, which exchanges nonce and body, drops the nonce or brings
one in), or with one header or the body replaced; and with another key's MAC. An instance may
`Receive` any copy any number of times, or never: loss, duplication, delay and reordering are all
in that. `Receive` is the handler up to the verdict; `Record` is the consumer's durable
conditional write of the nonce with its action. Between the two the instance may `Crash`, others
may verify the same delivery, time passes and the store may `Purge` old keys. Refusals change no
state and are no steps; the invariants below quantify over every verdict that any copy would get
in a state.

The consumer's half (the conditional write, how long it remembers, how long an instance may stall
between verifying and recording) is not in the repository; lib.rs:18-21 and 102-106 say what it
is to do. The model takes the weakest version under which the promise holds, as assumptions:

* `Retention >= 2 * Freshness + Stall`. The window is two-sided: a delivery stamped `Freshness`
  ahead of the clock is acceptable for twice that long. "Within the freshness window"
  (lib.rs:20) is not enough: `Purge_AfterWindow`, which remembers for one window, breaks
  `ImplementsInbox`.
* `MaxTime < HalfRange` and integers within the i64 (`WindowAssumption`).
* `TrimAssumption`: trimming twice is trimming once, on each side, and an integer's text has no
  white space. (A stamp with white space is a piece that is no integer but trims to one.)
* `UuidsAssumption`, `SecretAssumption` (a foreign key is not the secret), `StringsAssumption` and
  `MacAssumption` (an absent or malformed header is no text and no MAC).

Drift between the clocks of instances is not modelled; a sender's clock is arbitrary, since any
stamp may be signed.

### OutboundGuard

A job's `url` is what `validate_url` admitted. `Resolve` is `resolve_pinned` up to its await and
`Answer` the rest, with any set of addresses; `LookupFails` is the error and the caller's
timeout. `Targets` says where reqwest may connect: to the literal address, to the pins of that
host, or, unpinned, anywhere. That the client has pins, does not follow redirects and has no
proxy is read from `client_builder` (lib.rs:211-219). The caller is the one the docs describe:
resolve, build, send, and start over for each attempt. `Destination` values cannot be made in
another way in the code (no public constructor) nor in the model.

`OutboundAddress` writes the octet patterns as the code does, and the documented ranges
(lib.rs:132-140, 162-169) a second time as intervals of 24-bit prefixes. `AddressForms` judges an
address and rewrites it, once, as an IPv4-mapped or IPv4-compatible one, as a resolver may.

### RequestIdentity

`from_env` is evaluated on the environment the backend started in. A request goes through phases:
`arrived`, `MachinePath` (the verifier's answer and the dispatch), `user`, `resolve`, `lookup`,
`found`, then `done` or `denied`. `Lookup` is the store's answer at one moment, `Attribute` what
`apply_on_behalf_of_grant` does with it later; `MintGrant` and `RevokeGrant` happen at any time.
`window` is a history variable: the grants that were in the store at some time since the request
came. The dispatches are those of the docs (lib.rs:462-469): Drive answers both errors with a
401, Granite goes on to its user path on `NotMachine`; the user path and the bypass for
development (lib.rs:117-127) are external and as permissive as their description.

`Attributions` has none of this: a request arrives, and is decided once, in one step, against the
grants of that moment. `RequestIdentity` implements it with the decision at `Lookup` when the
store is asked and at the step that ends the path otherwise (`Acting`): what
`apply_on_behalf_of_grant` writes after its await was settled before, and a revocation in between
comes after the decision.

### DepositFeed

A call of an app encodes a set of rows and posts them (`Deposit`, with `Encoded` for
`feed_op_bytes` and `Post` for `DriveClient::deposit` up to its await), and ends in `Ok`,
`Encode`, `Transport` or `Status`. `Return` is `deposit` with an answer, `Fails` without one: the
answer is lost or the caller gives up. `Retry` is the app's, of the same rows. Requests stay in
the network, so a copy may arrive late or again.

Drive is external. `Arrives` is its endpoint as lib.rs:3-15 describes it: with the cap revoked it
takes nothing; it may store a part of a request and fail; it answers with success only when
everything is stored. Its store is a set, because it folds operations by their bytes. What
`feed_op_bytes` encodes is the first operation of a fresh replica, without an author
(lib.rs:123-128), so its bytes are a function of key and row, whatever the attempt. The encoder
(store-core) is another repository's; that its canonical bytes have no clock and no random
identity in them is an assumption, and `feed_op_bytes_PerAttempt` shows that `ShownOnce` hangs on
it. The other side of it is that two equal rows of one feed are one: `Entries` is a set, and rows
that are to be shown apart must differ, as those of the test do by their `id`.

`Outcome` is `is_success` (lib.rs:98), any 2xx. The client follows redirects, so in the code such
an answer may come from elsewhere; the model's answers are Drive's, as nothing redirects them.
The body of an error answer decides nothing and is left out; lib.rs:33 calls it truncated, while
lib.rs:102 reads all of it.

### VaultRows

The crate is a few operators: `REQUIRED_ACTIONS`, the three kinds of `VaultTransactItem`, `into`
(the conversion to the SDK's items, with the action DynamoDB authorises each by), `single`
(`put_item`, `update_item`) and `transact_write`, which is one request. What can go wrong is how
stores use them, so the model has a store like the one of lib.rs:192-194: `Create`, `Approve` and
`Deny` are transactions, `Retire` is the tombstone of lib.rs:57-61 with its condition. A request
has a row, and an approved one has a grant, another row; a grant is retired by a mark on its row.

`Send` starts a call and puts its request into the network, where it stays: `Execute` may happen
any number of times, late or never, which covers the SDK's retries. `Authorized` is IAM and
`Holds` the conditions, of all items at one point; `After` is what a write leaves, and an update
of a row that is not there leaves a "hollow" one, which `TypeOK` excludes. The caller hears the
verdict, or gives up (`GiveUp`) and knows nothing. A repeat may find its own work done and report
`Cancelled`; only success is a promise. Idempotency tokens, which the SDK puts on transactions,
would only take behaviours away and are not modelled. Reads change nothing and have no action;
that a read path filters marked rows is the store's duty (lib.rs:58).

`ChecksConditions` says whether the store uses the third kind of item. With it, IAM refuses the
transaction: `vault_checks`, below.

### AppBackend, ErrorResponse, GraphClient

`Start` is a `main` of the platform: `select_dynamo_or_memory`, then `serve`, which parses the
bind variable, then looks for Lambda, then binds, in this order; the environment is arbitrary
and may make it panic. `Arm` is the first poll of `shutdown_signal`, which installs the handlers;
a signal before it, or under Lambda, ends the process as the operating system would. `Shutdown`
and `Drained` are `with_graceful_shutdown`: nothing more is accepted, and the process ends when
nothing is in flight. `Kill` is a crash, or Lambda's end of an instance. Started again, the
process has an empty memory store.

A request is a page (`health_router`, which serves `/health` only, the info page that each service
has of its own, or any error of the app's through `into_response`) or a `Join`: the caller's
pseudonym, the membership, the connections, then a write into the selected store. Each call waits
for `SgServes`: the Social Graph serves it and answers, or the answer is lost or does not decode,
or it rejects the token, or it fails without serving it. `Handle` is the handler after the await,
with `resolve_me`, `register_membership` and `connections_members` as the code maps the reply. The
docs leave the mapping of errors to the app; the handler here maps `Ok(None)` to `Unauthorized`,
as lib.rs:89 asks, and all else to a 5xx. `ClientLeaves` drops a handler at its await, as axum
does when the connection closes.

`Redirecting` (FALSE in the run) is an assumption about what stands before the Social Graph.
`error_for_status` errs for 400 to 599 only, so a redirect that reqwest does not follow counts as
success for `register_membership`; `JoinedIsListed` is checked and proved without redirects, and
fails with them.

Seen on the way, in docs rather than behaviour:

* lib.rs:47-53 of the Graph client calls an unexpected status `SgError::Status`; two of the three
  methods report theirs as `Transport`.
* http-error lib.rs:42-45 calls the messages of 501 and 503 caller-facing; like every 5xx they
  are redacted (lib.rs:100), as lib.rs:24-25 says. One branch decides it for every response, so it
  is a definition here (`into_response`) and no property: one would repeat the branch.
* A table variable that is set but not Unicode selects the memory store without a word
  (store.rs:61-67); a blank one selects DynamoDB with a table without a name, where each write
  fails. `Kept` holds either way, since the info page names the store that is used.
* A second signal during the drain does not hasten it, and reqwest has no timeout by default:
  a drain lasts as long as the Social Graph's slowest answer.

### SigningKeys

`Notary` says what each process is. A local notary makes its key when it starts and KMS keeps one
for all; the testkit makes its key for the first `Mint` or `start_jwks_server` that asks
(`keypair` with its `OnceLock`), and its server serves the set of that moment until the process
ends. `sign` and `Mint` add to what was signed for good, `Fetch` keeps a key set for good, so
anything may be checked against any set, before or after a `Start` again. Signatures are ideal. A
notary's kid comes with its key from another crate (attestation-envelope), which `Notary::kid`
asks; that two keys have two kids is read from lib.rs:20-21, and no property rests on it. The
testkit has one kid for the keys of all processes, so there a token of another process looks
forged rather than unknown. Its docs mean one process, and `GenuineVerifies` claims no more; the
comment at testkit.rs:197-201, about a second server with its own key pair, describes what cannot
happen within one.

## Runs

| run | question | result |
|---|---|---|
| `webhook` | are the promises kept by verify, dedup and rollout together? | passes, 133 976 states up to symmetry |
| `webhook_schemes` | can what was signed under one scheme never verify under the other? | violated, see below |
| `webhook_wide` | is a stale stamp refused whatever its value? | violated, see below |
| `outbound_guard` | is only what was checked reached, does every job end, and do the patterns agree with the ranges in every written form? | passes, 23 828 states |
| `request_identity` | is every identity justified, and every request answered? | passes, 443 744 states |
| `deposit_feed` | is what is reported as posted in the feed, once, whatever is lost or repeated? | passes, 6 684 states up to symmetry |
| `vault` | do transactions, repeats and tombstones keep what they promise, within the role's grant? | passes, 32 957 states up to symmetry |
| `vault_checks` | is every kind of transaction item within the role's grant? | violated, see below |
| `backend` | start-up, signals, crashes and failing calls: is every answer true, and does it stop? | passes, 712 560 states |
| `keys` | does a key set confirm what its process signed, whoever asked first for the key? | passes, 904 304 states |
| `request_identity_ids` | is every id that is provided validated? | violated, see below |
| `request_identity_env` | does the first non-empty issuer variable win? | violated, see below |

The properties, with the hazards they are for, are in `PROJECT.json` and commented where they
are defined. `CHECK_DEADLOCK FALSE` stands where the system may rest: the webhook clock and
supply of deliveries are bounded, and jobs, requests, calls and runs of a process end.

**Bounds.** `webhook`: two senders and two instances (duplicates verified side by side, a rollout
half done), two UUIDs, a caller's nonce as it is and with a blank, a body and one whose first piece
is that nonce, at most two deliveries signed (`MaxIssued`), and three signed and acted on together
(`MaxEvents`: one acted on twice, or two of which one is dropped), a stamp 2, a window and a stall
of one second, the least admissible retention, and a clock up to 5 (`MaxTime`): a delivery may come
before its window and long after it, and one first seen at 1 may come again when its key could be
gone. A stamp that is no integer comes of cutting a string anew. `HalfRange` is 16, wider than any
sum that occurs.
`outbound_guard`: two jobs, two attempts each (something can be left over), one name, a public
and a special address of both kinds, a URL for every refusal. Beside them (`SideBySide`: the two
share no state, so one moves while the other rests) every octet that a pattern names and its
neighbours, three octets deep.
`request_identity`: one request (requests share only the store, which changes at any step), a
listed and an unlisted client, a human, a test and an invalid token, a grant for the machine or
for somebody else, every kind of user and agent header and of variable. A grant header is absent,
invalid or an id; a blank one and one that is no text are like an absent one (`GrantHeader`), and
only `request_identity_ids` has them.
`deposit_feed`: two calls that may share rows (late copies of one against the other), two
attempts each (an answer lost, then a retry), two rows that encode and one that does not.
`vault`: two ids (rows of one must not disturb the other), four calls (created, approved and
retired, and one more against them; each request repeated without bound).
`backend`: two requests of one user, so that a join that failed is tried again and two are in
flight, two runs of the process (`MaxRuns`: what is acknowledged in one and read in the next),
every environment. More users would share only the store's set.
`keys`: a process of each kind, two runs each (`MaxRuns`), two signatures of each sort and two
key sets (`MaxSigned`, `MaxFetched`: the properties compare one with one), two audiences, and one
hour (`MaxTime`), after which a token has expired.

**Fairness.** `outbound_guard`: weak fairness of `Drive(j)` for each job. The caller awaits what
it started, and lookups and requests end, if only by its timeout (lib.rs:209 leaves timeouts to
it). Any outcome may be the one that happens: fairness never chooses success.
`request_identity`: weak fairness of `Serve(r)`, since the server polls the handler and both
awaits end with an answer or an error. Nothing is assumed of arrivals, grants or revocations.
`backend` (`FairSpec`): weak fairness of the server's own steps (`Shutdown`, `Drained`), of each
handler that can go on (`Handle`, `Write`: the executor polls woken tasks), and of `SgServes`: each
call ends some way, if only by a broken connection. The last one is an assumption about the
network, since the client sets no timeout; without it `StopsWhenTold` fails, as a drain waits for
a call that never ends. Nothing is assumed of signals, clients, crashes or restarts.
The webhook system, deposits, the vault and the keys have safety properties only: nobody promises
delivery, and when to retry is the app's decision.

**Findings.**

* `webhook_schemes` (webhook lib.rs:222): the MAC covers a string with dots and without lengths,
  and the scheme is picked by a header. A canonical delivery without its nonce header, with the
  nonce and a dot before the body, verifies as legacy; a legacy one whose body has a dot verifies
  as canonical with the piece before it as the nonce. lib.rs:48-51 says that a canonical-signed
  body can never verify as legacy or vice versa, and lib.rs:195-198 that stripping the nonce fails.
* `webhook_wide` (lib.rs:236): `(now_unix - ts).abs()` wraps in a release build when the stamp
  lies 2^63 seconds before the clock, the skew is negative, and the delivery passes for fresh,
  contrary to lib.rs:32-33. A debug build panics. `WrapAdmitsStale` proves it for every clock and
  window, and `SkewExact` that nothing short of it goes wrong; `NoWrap` excludes it.
* `request_identity_ids` (chirp-auth lib.rs:146): an `x-agent-id` that is not visible ASCII
  counts as absent, where lib.rs:113-114 promises `Unauthorized`.
* `request_identity_env` (chirp-auth lib.rs:408): the first variable that is *set* wins, blank or
  not, and a blank one turns the path off; lib.rs:391 says that the first non-empty one wins.
* `vault_checks` (vault lib.rs:250): the type offers `ConditionCheck`, which DynamoDB authorises as
  `dynamodb:ConditionCheckItem`; neither `REQUIRED_ACTIONS` nor the quoted policy has it. The
  surface is to be isomorphic to the grant (lib.rs:233-237), and the test said to pin that,
  `surface_matches_grant()`, does not exist. `ChecksBarDenials` proves what follows from it: a
  denial that holds such a check never takes effect, with any number of calls and repeats.

## Proofs

| theorem | for every |
|---|---|
| `WebhookProofs!NothingLostToDedup`, `Authenticity`, `NoLockstep`, `TimestampTrustedLate`, `TypeCorrect` | number of senders, instances, nonces, bodies, stamps, with dots anywhere; window, stall and retention within `WindowAssumption` |
| `WebhookProofs!DotlessBinds` | the same, where stamps, nonces and bodies have no dots (`Dotless`): a canonical reading is what was signed |
| `WebhookProofs!ReplayExcluded`, `FreshnessEnforced` | the same, where the i64 cannot wrap (`NoWrap`) |
| `WebhookProofs!Refinement` | the same: `Webhook` implements `WebhookInbox` |
| `WebhookProofs!SkewExact`, `WrapAdmitsStale` | stamp, clock and window: exactly when the skew is right, and what passes when it is not |
| `OutboundAddressProofs!Ipv4Verdict`, `NoSpecialPasses`, `FormNeutral` | address and rewriting of it, not only the probed ones |
| `OutboundAddressProofs!Ipv4Exact`, `EmbeddingTransparent`, `Ipv6Sound`, `CheckSound` | address: the facts about the predicates that these rest on |
| `OutboundGuardProofs!EgressPublic`, `PinHolds`, `AnswersVetted`, `TypeCorrect` | jobs, names, addresses, URLs, attempts |
| `OutboundGuardProofs!RetriesEnd` | the same: five steps per attempt at most |
| `RequestIdentityProofs!Attribution`, `RejectionFinal`, `ListedOnly`, `GrantIdCarried`, `TypeCorrect` | requests, tokens, environments, headers, grants |
| `RequestIdentityProofs!Refinement` | the same: `RequestIdentity` implements `Attributions` |
| `RequestIdentityProofs!StepsBounded` | the same: five steps per request at most |
| `DepositFeedProofs!SuccessStored`, `NeverTwice`, `TypeCorrect` | calls, rows, attempts |
| `DepositFeedProofs!Refinement` | the same: `DepositFeed` implements `DepositLedger` |
| `VaultRowsProofs!SuccessStands`, `TombstoneStays`, `TypeCorrect` | ids, calls, repeats |
| `VaultRowsProofs!NothingRefused` | the same, of a store without `ConditionCheck` |
| `VaultRowsProofs!ChecksBarDenials` | the same, of a store whose denials use `ConditionCheck` |
| `VaultRowsProofs!Refinement` | the same: `VaultRows` implements `Approvals` |
| `AppBackendProofs!SignalsAbandonNone`, `RejectedTruly`, `AcknowledgedKept`, `TypeCorrect` | requests, users, environments, runs |
| `AppBackendProofs!JoinedListed` | the same, without redirects |
| `AppBackendProofs!AnswersStay`, `DrainIsFinite` | requests, users, environments, runs: answers are final, a drain is at most seven steps per request |
| `SigningKeysProofs!GenuineVerified` | processes, runs, signatures, key sets, audiences |

**Webhook.** None of the properties is inductive. `IInv` adds what an instance holds (`WorkerInv`:
it reads a signed string, and was verified at most `Stall` ago), that what was handled does so too
(`HandledInv`), that a minted nonce belongs to one delivery (`MintInv`), and that an instance that
dropped legacy faces no fresh legacy delivery (`RolloutInv`). It holds for all stamps, so who
signed what, and what the dedup drops, does not hang on the arithmetic. `WindowInv` does: what is
held was within the window when it was verified (`HeldFresh`), and what was handled is either
remembered or so old that no instance can hold it (`HandledGone`). This is where the retention
bound is used: a key recorded at `t` belongs to a stamp of at most `t + Freshness`, which is fresh
until `t + 2 * Freshness` and held until `Stall` later. Its theorems assume `NoWrap`: no stamp is
so far in the past that the skew wraps. By `SkewExact` that is exactly what the arithmetic needs,
and by `WrapAdmitsStale` a delivery just beyond it is accepted though it is stale.

The lemmas on strings carry the dots: what `Join` and `Trim` do to a sequence, that a verified copy
has the signed string as its text (`MatchIsSigned`), that a minted piece in it stands where the
signer put its nonce, since it occurs nowhere else (`MintedBinds`), and that a dotless string of
three pieces can be cut in one way only (`DotlessReading`).

**Addresses.** An address is four octets or eight segments. The octet patterns become comparisons
of the 24-bit prefix, range by range, and an embedded address has the verdict of its last four
octets (`EmbeddingTransparent`). `AddressTyped` says that rewriting leads to addresses again, and
with it the three properties of the run hold for all probes.

**OutboundGuard.** `IInv` says which phase has which destination and answer, and that a
destination is what the check of this attempt admitted; `CheckSound` turns "admitted" into "not
special". `AnswersVetted` says more than the run checks: the whole answer was public, the
addresses that were not used included. `StepsLeft` counts what a job may still do; every step of
a driven job lowers it, a retry too, and no other step raises it.

**RequestIdentity.** `RequestInv` follows one request: which verdicts its phase allows, that on
the way to the store the identity is still the token's own (`ResolvingInv`), and that whatever
the store answered held at some time while the request ran (`AnswerInv`). `Frame` shows that a
request keeps it while others and the store move, so each step is followed for one request.
For the refinement a step that gives `Acting` a value is `Decide`, and what it gives is among
`MayActAs` of that very moment: the token's own identity (`OwnIsAllowed`), the headers
(`HeaderIsAllowed`) or the owner of the grant that the store found. `Attribute` stutters.

**DepositFeed.** `OkIsStored` is about answers that were given earlier by a store that has grown
since. `IInv` adds that a request carries all rows of its call as long as the call waits for it
(`NetworkInv`; a late copy of an earlier attempt carries rows of the call as well, but is not
waited for, by `AttemptInv`), that nothing is stored that nobody meant (`StoreInv`), and that an
answer of 200 says that all rows are stored (`CallInv`). For the refinement a deposit is `Mean`,
an arrival is `Show` of the rows it adds, a return with success is `Confirm`, and all else
stutters.

**VaultRows.** `OkIsDone` is about a success of some time ago, in rows that others changed since.
`IInv` adds that every request in the network carries exactly what its call's method writes
(`NetworkInv`) and that a grant exists if and only if its request is approved (`RowInv`), which is
where the atomicity of `transact_write` is used: with a request per item it is false between two of
them. `StepRows` says once what a step does to the rows (nothing, or the effect of one method
whose conditions held), and the action property and the refinement follow from it.

**AppBackend.** `IInv` ties replies to their past: while a handler waits at "me", a 401 means that
the token was revoked (`RejectInv`), and revoked tokens stay so; the label is that of the store
while the process serves (`StoreInv`); what was acknowledged was so in this run or an earlier one
(`RunInv`). `MemberInv` says that past the membership call, or with a good reply to it, the user
is a member; it is kept apart because it needs `~Redirecting`. `WorkLeft` counts the steps that a
request in flight may still have, replies included; `OtherMoves` says what the other steps may do
to it: nothing, end it, or let it in, which the drain does not.

**SigningKeys.** `IInv` ties each document and each fetched set to its process and run (`Genuine`,
`Published`): of the current run they bear the key the process has now, and of earlier ones the two
agree with each other (`PairInv`), as a run has at most one key.

**Only model-checked**: the liveness properties `EveryJobCloses`, `EveryRequestAnswered` and
`StopsWhenTold`, as the prover does not handle fairness. Their safety halves are proved
(`RetriesEnd`, `StepsBounded`, `DrainIsFinite`): each fair step lowers a bound that no other step
raises. What TLC adds is that such a step can be taken until the end. The other way round,
`AnswersVetted`, `AnswersStay` and these three are proved and in no run; they, and each inductive
invariant, were checked by TLC on the instances before.

## Not modelled

* Parsing of URLs, JWTs, UUIDs and headers as text; constant-time comparison; logging and
  `init_tracing`; the wording of pages and errors.
* The reads of the vault client, which change nothing.
* The socket loop of the testkit's server, and the claims of a token besides audience, expiry and
  kind: verification is chirp-auth-client's.
* The workflows under `.github`: shell steps against the hosting service's API, whose behaviour is
  not in the repository and decides all of their outcomes.

## Plan

Built in this order: `Webhook` (the platform's one protocol), `OutboundGuard`, `RequestIdentity`,
`DepositFeed`, then `VaultRows`, `AppBackend` with `ErrorResponse` and `GraphClient`, and
`SigningKeys`. Every crate has its module. What could be added:

1. `RequestIdentity` in front of `AppBackend`, so that its rejections become responses
   (`MachineAuthError` to `ApiError`, chirp-auth lib.rs:349-361), and `SigningKeys` behind its
   verifier, with a cached key set.
2. Reads of the vault with a filter of marked rows, against a retirement between two pages of a
   query.
3. Clocks of the webhook's instances that drift apart.

What could be proved besides: an abstract egress guard (an attempt connects, in one step, to an
address that is public at that moment or ends) that `OutboundGuard` implements, and an abstract
backend (joins that are acknowledged once and kept) for `AppBackend`.
