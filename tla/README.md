# Formal models of predictfun-cpp

TLA+ models of this library: of the parts whose correctness depends on the order
in which things happen (orders that are recorded, sent, answered, recovered and
reconciled; streams that reconnect; calls that wait, are retried and cancelled;
transactions that may or may not have been broadcast), and of the pure algorithms
between a text and a signed amount. TLC checks the models on small instances, and
TLAPS proves the properties that matter most for every instance.

## 1. The system

predictfun-cpp is a C++20 client of the Predict.fun exchange. Its parts are:

| Part | Source | What it holds | Modelled in |
|---|---|---|---|
| Order tracker | `src/lifecycle.cpp` | a table from order hash to state, amounts and a reconciliation flag | `OrderTracker` |
| Journal and persistent tracker | `src/lifecycle_journal.cpp` | an append-only file of records; the table is published after the record is on stable storage | `PersistentOrderTracker` |
| Durable order session | `src/execution_session.cpp` | submissions in flight and one reconciliation, all on one strand | `DurableOrderSession`, `SubmitOnce` |
| Trading client | `src/trading.cpp` | one POST per mutation, rate-limit wait, cancellation, classification of the outcome | `TradingClient`, `MutationContract` |
| HTTP transport | `src/http.cpp` | one request, TLS or plain, with deadline and cancellation | `HttpSession` |
| REST clients, authentication | `src/private_rest.cpp`, `src/public_rest.cpp`, `src/auth.cpp` | GETs with retries, the referral POST, challenge and token exchange | `RestClient`; order pages in `DurableOrderSession` |
| Rate limiter | `src/rate_limiter.cpp` | token buckets, cooldowns, `Retry-After` | `RateLimiter` |
| Private stream | `src/private_wss.cpp` | generations, subscription, timers, the reconciliation gate, a bounded queue | `PrivateWsClient` |
| Public stream | `src/public_wss.cpp` | the same with topics, acknowledgements, freshness, timestamps | `PublicWsClient` |
| Reconnect backoff | `src/reconnect.cpp` | delay, storm window and cooldown | `ReconnectBackoff` |
| WebSocket transport | `src/websocket.cpp` | the stages of an open, reads, the write queue, close, cancel | `WebSocketChannel` |
| Chain client | `src/chain_client.cpp` | JSON-RPC calls, approval checks and runs, transactions and receipts | `ChainClient` |
| Chain encodings, approvals, positions | `src/chain_abi.cpp`, `src/chain_transaction.cpp`, `src/chain_approvals.cpp`, `src/chain_operations.cpp` | call data, RLP, approval steps, position transactions | `ChainEncoding`, `Positions` |
| Decimals, amounts, liquidity, book | `src/decimal.cpp`, `src/exact_number.cpp`, `src/order_amounts.cpp`, `src/liquidity.cpp`, `src/orderbook.cpp` | pure functions | `Decimals`, `OrderAmounts`, `Liquidity` |
| Acceptance tool | `tools/testnet_acceptance*.cpp` | gates, evidence, snapshots, one write per session | `Acceptance`, `AcceptancePlan` |
| Order building, hashing, signing, secrets; JSON codecs; probe tools | `src/order_*.cpp`, `src/*codec.cpp`, `tools/` | | not modelled, section 6 |

How they interact: the host gives a signed order to the session. The session
journals the hash, asks the trading client for the one POST, and journals the
outcome. The private stream hands wallet events to the host, which forwards them
to the session; after each new connection (a *generation*) the host asks the
session to reconcile, and the session quarantines every open order, reads all
order pages through the private REST client and applies them. After a restart the
journal is replayed and every order that is not terminal is quarantined until a
reconciliation shows it. The REST and authentication clients share one rate
limiter; both streams use the WebSocket transport and the backoff. The acceptance
tool drives the chain client.

`PROJECT.json` lists all parts, the source lines of every definition, and the
places where the code is exposed to an order of events that a unit test hardly
reaches.

## 2. Modules

```
OrderTracker                 operators: what each transition does to one order
  PersistentOrderTracker     + the journal file, failures and crashes
    PersistentOrderTrackerProofs       safety and recovery, TLAPS
    DurableOrderSession      + submissions, reconciliation, venue and network
      DurableOrderSessionProofs        safety and refinement, TLAPS
      MCDurableOrderSession            instances for TLC
SubmitOnce                   what the session promises; instantiated by it
HttpSession                  one HTTP request
  TradingClient              + the mutation that makes it
    TradingClientProofs                safety and refinement, TLAPS
MutationContract             what a mutation promises; instantiated by TradingClient
PrivateWsClient              the private wallet stream and its channels
  PrivateWsClientProofs                safety, TLAPS
ReconnectBackoff             operators: the delays of both streams
  PublicWsClient             + the public stream and its channels
    PublicWsClientLemmas               what its methods keep, TLAPS
      PublicWsClientProofs             safety, TLAPS
WebSocketChannel             one channel of the WebSocket transport
  WebSocketChannelProofs               safety, TLAPS
RateLimiter                  operators: buckets and cooldowns
  RestClient                 + the operations that share one limiter
    RestClientProofs                   safety, TLAPS
    MCRestClient                       instance for TLC
ChainClient                  the calls, a node and a chain
  MCChainClient                        instance for TLC
  Acceptance                 + the acceptance tool and its evidence
    MCAcceptance                       instance for TLC
Decimals                     operators on texts, decimals, prices, books
  OrderAmounts, Liquidity    operators: amounts of orders, quotes
ChainEncoding                operators on bytes: ABI, RLP
  Positions                  + approvals and position transactions
    AcceptancePlan           + the tool's plans, arguments and phrases
MCAlgorithms                 all of these against reference definitions
```

**OrderTracker** has no variables. An order is a record of its lifecycle state,
how much is filled (none, some, all), whether the amounts are such that `restore`
accepts them, and the reconciliation flag. There is one operator per method of
the C++ class. Ids, reasons, timestamps and stream generations are stored by the
code and never read by it, so they are left out.

**PersistentOrderTracker** has `up` and `tracker` (the published table), `disk`
and `limbo`. The file is modelled by what a replay of it returns. `disk` is a
sequence of *images*: the first is on stable storage, each later one adds bytes
that were written and not yet synced, the last is what a reader sees now. A crash
keeps any one of them. An image has the latest record of each hash in readable
frames and a state of the framing: no file, a short header, whole frames, a
partial frame at the end, or whole frames behind a partial one. `limbo` is a
history variable: the records whose append was reported failed and which may
still be in the file. One action per method of the facade: the transition is
computed on a copy, appended, synced, published. An append may fail with any part
of its frames written (`AppendFails`). `Create`, `Open`, `OpenCorrupt` and
their failing variants are the branches of `open`; `Crash` loses the table in
memory and any part of the unsynced images.

**DurableOrderSession** adds `create` (per hash, the create operation), `rec` (the
reconciliation: phase, page count, cursors seen, collected orders), and the world
outside: `wire` (requests on their way), `http` (answers on their way), `venue`
(the order as the venue has it), `inbox` (wallet events on their way), and the
history variable `posts` (how often the create of a hash was sent). A handler of the
session's strand is one step. The trading client and the venue are external to
the session and take steps of their own: refuse before dispatch, dispatch, lose a
request, accept, refuse, answer, lose an answer, move an order, emit or drop an
event.

**SubmitOnce** is the promise made to the host: a hash is free, armed (recorded,
about to be sent), posted, or void (recorded, never to be sent), and it moves only
forward. `Once` in `DurableOrderSession` is its instance under the mapping
`Intent`.

**HttpSession** has `http` (the session: the stage it is in, the completion of the
stage's operation, socket, timer and stop handler), `stopped` and `expired` (the
stop token and the deadline), `wire`, `answer` and `reply` (the request on the
network, the response, the result dispatched to the caller). An asynchronous
operation is in progress, then complete with its handler queued, then handled;
`cancel_io` aborts what is in progress and cannot reach a queued handler. One action
per handler (`HttpStart`, `OnSuccess`, `OnFailure`, `OnStop`, `OnDeadline`), the rest
is the clock, the sockets and the server.

**TradingClient** extends it with `op` (phase of the operation, its stop handler,
whether the caller set a deadline), `outcome` and `calls` (what the handler was
called with, how often). `OpStart`, `OnTimer`, `Handle` and `OnOpStop` are the
operation's handlers; the rate-limit wait is any the limiter may return.

**MutationContract** is what `DurableOrderSession` relies on: one callback, and an
error only if the request never goes out or the venue rejected it. The session
models the create operation by these outcomes directly (`RefuseUnsent`, `Dispatch`,
`Answered`, `Unanswered`).

**PrivateWsClient** has `client` (state, generation, the set of flags that are true,
the event queue, the timer handlers that have not run), `channels` (per generation: the
operations whose handlers have not run, whether it is opened), `known` and `marked` (the
generations the host was told to reconcile, and has marked) and `crashed`. The methods of
the C++ class are operators on the client's record, and each handler is an action made
of them. The outcome of an operation is chosen when its handler runs. This is exact for
cancellation: whatever is cancelled may have completed just before. So cancelling
takes no handler away, and all depends on the tests of generation and flags that the
handlers make. `client.lost` is a history variable: the queue dropped an event
and the host has read none since that tells it so (degraded, reconnect_wait,
connecting, stopped).

**PublicWsClient** is built in the same way. Its record has the topics (desired,
acknowledged, fresh, last timestamp), the requests that are pending and the backoff
of **ReconnectBackoff**, whose times are relative to its last decision. `Request`
is one call of send_subscription, `Granted` and `HandleData` are handle_response and
handle_data, and `UpdateFreshness` decides between subscribing, synchronizing and
live. `delivered` and `regressed` are history: the last timestamp handed to the host.

**WebSocketChannel** has the channel's flags (`chan`), the operation of the opening, of
the read and of the close with the ways each may still end, the queue `writes`, the
frame given to the stream (`inflight`), and as history the frames on the network
(`wire`), the answers to writes (`told`) and the calls made.

**RateLimiter** counts tokens in ticks of refill, so the code's floating-point refill
is exact on integers. **RestClient** has the limiter, the clock and one record per
call: what is queued for it (start, timer, answer, signature), its attempt, deadline,
cancellation, and as history how often it was sent, for free after a 429, or too early.

**ChainClient** has one record per call (`ops`), the cached chain id (`validated`) and
the node with its pool, its chain and another user of the account (`node`). A call is a
chain of callbacks; each callback of the C++ code is an action, and what a failure
leads to depends on the stage (`Failed`). **Acceptance** adds the process (`tool`) and
the evidence file; a session is one run of the process and makes the calls of
`ChainClient` one after the other. It may be killed, and its disk may fail, between
any two steps.

**Decimals**, **OrderAmounts**, **Liquidity**, **ChainEncoding**, **Positions** and
**AcceptancePlan** have operators only, named after the C++ functions. The widths of
integers, words and addresses are parameters. A text is what the parsers tell apart in
it: sign, digits, points, exponent. **MCAlgorithms** makes every call of a bounded set
of calls one step, and its properties compare the result with a reference: the value
of the digits, the price share by share, what a decoder reads from the bytes.

### Abstractions and assumptions

* An unknown order, an invalid argument, and other calls that return an error
  before they change anything are steps that change nothing; they are left out.
* Frames of a batch are written in the order of the hashes (`lifecycle.cpp:318`). The
  model has no order of hashes, so any subset of a failed batch may be in the file: the
  code's prefixes and more.
* A journal whose contents are synced survives a crash together with its directory entry.
  `initialize` creates the file and syncs it, not the directory
  (`lifecycle_journal.cpp:216-228`), so this is asked of the file system.
* `flush_after_append` is true, its default. Without it nothing is promised.
* One process has the journal open.
* The venue: a 3xx or 4xx answer other than 429 means the order was not placed; a
  failed settlement ends the order; a REST page shows orders as they are when it
  is served. Wallet events may be lost or late and are not reordered. The answer to
  a create may name another hash.
* A create whose operation ended still may reach the venue later.
* The clients and transports assume that their executor runs one handler at a time: a
  single-threaded `io_context` or a strand. The code does not enforce it.
* A connect opens the socket again, even one that a cancellation has closed before
  the resolver's handler ran; every other operation fails on a closed socket.
* `WebSocketChannel`: a caller does not write again from inside the handler of a
  successful write. Neither stream client does.
* The chain: a transaction is mined at most once and stays mined; a receipt has status
  0 or 1 or none; the endpoint belongs to one network. Keccak and secp256k1 are
  external: a digest is the bytes it is taken of.

## 3. Runs

| Run | Checks | Bounds |
|---|---|---|
| `session_one` | `QuarantineFitsState`, `AtMostOnePost`, `TerminalIsTrue` | one order, every report, event and fate, two pages, one cursor, one event in flight, failed appends, torn headers, two images |
| `session_two` | `PublishedIsDurable`, `SubmitsOnce`, `RecoveryIsFaithful` | two orders in flight, one page, orders that stay open at the venue: batch appends that fail half way |
| `session_live` | `ReconcileFinishes`, `SubmitFinishes` | one order, two pages, two cursors, under fairness |
| `trading` | `KeepsContract`, `Completes` | one mutation, all answers and errors, under fairness |
| `private_ws` | `GateHolds`, `LossIsAnnounced`, `Progress` | two connections, a queue of two events, under fairness |
| `public_ws` | `LiveIsFresh`, `LossIsAnnounced`, `BackoffSurvivesConnecting`, `Progress` | three connections, two topics of which one has snapshots, one topic change, data without timestamps, a queue of one event, a storm after one attempt, under fairness |
| `ws_channel` | `SentInOrder`, `AnswersAreTrue`, `OpenIsAnswered`, `CancelEndsIo` | one channel, three writes, two reads, one close, under fairness |
| `rest` | `ReferralIsHonest`, `CooldownIsObserved`, `SendsAreWithinBudget`, `NoCallIsForgotten`, `QuietWhenAnswered` | two calls of any of the four kinds, one endpoint with a bucket of its own, one retry, calls at time 0, a minute of two ticks |
| `chain` | `OutcomeIsTheChains`, `HashIsKept`, `SentOnce`, `SentToExpectedChain`, `Completes` | two concurrent calls, the first of any kind, approval runs of two steps with one named twice, one foreign transaction, two polls, three networks, under fairness |
| `acceptance` | `ToolTypeOK`, `WritesAreAuthorized`, `OutcomeIsAuditable`, `SuccessIsReal` | two sessions, every mode and set of gates, two approval steps, kills and disk failures, testnet and mainnet |
| `algorithms` | `NumbersAreExact`, `OrdersAreBacked`, `QuotesAreExact`, `BytesReadBack`, `PlansAreBound` | every input of small sets; words of two bytes, addresses of one, decimals of up to two places |
| `session_torn` | `AtMostOnePost`, violated | one order, appends that leave part of a frame |

Why the bounds are enough for the cases of interest. Orders interact only through a batch
append, so two of them reach every case; one image more than the synced one is what
a failed append leaves, and a second shows failures on top of each other. In
`session_live` two cursors and two pages let a cursor repeat and the page bound be met. A
mutation is one object that shares no state with another. Two connections let every
handler of an old one run in the next, and a third (`public_ws`) is what a timer left over
from before a stop opens beside a session; data has no timestamps there, since an older
one ends the connection as an unknown topic does and `OrdersStamps` is proved for any. The
private stream's queue of two holds an event and a state; the public one's of one is what
three connections leave room for, and `AnnouncesLoss` is proved for every size. Three writes
put two behind one that fails. Two REST calls compete for a token, and the second sees the
cooldown of the first. Two chain calls race for a nonce. In the algorithms the
widths are such that every overflow, carry and boundary of a length (0, 1, 55, 56, 256
bytes) occurs. The theorems of section 4 cover all other sizes of what they are about.
Deadlock is checked in the session's runs, where something can always happen. The other
systems may stop: a call is answered, the bound on connections or time is met, the
process has crashed.

What the properties say:

* `PublishedIsDurable`: whatever image a crash keeps, it holds for each order the
  published record or one whose append failed after it.
* `RecoveryIsFaithful`: a tracker that opens shows each order as it was last
  published, or as a failed later append left it, quarantined unless terminal.
* `QuarantineFitsState`: in memory and on disk, an order that is ambiguous,
  unknown or removed from the book is flagged, a terminal one is not.
* `AtMostOnePost`, `SubmitsOnce`: an order is never sent twice, over all crashes and
  recoveries; the session implements `SubmitOnce`.
* `TerminalIsTrue`: a terminal state that the tracker shows, or a recovery may show,
  is true at the venue; in particular an order that may be rebuilt with a new nonce
  never trades.
* `ReconcileFinishes`, `SubmitFinishes`: every reconciliation and every submission
  ends.
* `KeepsContract`: after an error that is not the venue's the request is not on the
  network and never will be, even when the timer or the resolver had completed before
  the caller's stop was handled; the handler is called once. `Completes`: it is called.
* `GateHolds`: the private stream is live, and flags a wallet event as reconciled, only in
  a generation that the host has marked.
* `LossIsAnnounced` (both streams): an event that the bounded queue dropped, or that was
  cleared from it, is announced by an event the host has yet to read.
* `LiveIsFresh`: a live public stream has an open session, and every topic not being
  asked for is acknowledged and fresh on this connection.
* `BackoffSurvivesConnecting`: the delay shrinks, and a storm is forgotten, only by a
  stream that went live or a new start. A message that makes the stream live and does not
  fit the queue does both in one step: it resets the backoff and costs the connection.
* `Progress` (both streams): a connection comes to its reconciliation or to the answers of
  its requests, is replaced, or is stopped, whatever the server does.
* `SentInOrder`, `AnswersAreTrue`: frames leave in the order of the calls, each at most
  once; a refused frame is never sent, one reported as written was.
* `OpenIsAnswered`, `CancelEndsIo`: every open is answered; after a cancellation
  every operation ends.
* `ReferralIsHonest`: a referral reported as failed after it was sent was refused by the
  venue. `CooldownIsObserved`: no request goes out in a cooldown its operation was told of.
  `SendsAreWithinBudget`: all requests together, the free retries of a 429 apart, stay
  within a full bucket and its refill. `NoCallIsForgotten`: a call for which nothing is
  queued was answered. `QuietWhenAnswered`: it is answered once and then sends nothing.
* `OutcomeIsTheChains`: confirmed, reverted and success are what the chain decided.
  `HashIsKept`: whatever may have been broadcast is reported with its hash, except as
  section 5 says. `SentOnce`, `SentToExpectedChain`: no step is sent twice or to another chain.
* `WritesAreAuthorized`: whatever is sent was authorised first, in evidence that survives
  a crash, on the testnet, with all gates passed. `OutcomeIsAuditable`: its hash is in the
  evidence. `SuccessIsReal`: an exit code of success means the chain did it.
* `NumbersAreExact`: no rounding or wrap-around from a text to wei and back.
  `OrdersAreBacked`: an order's amounts are within its price and what the book has.
  `QuotesAreExact`: a quote accounts for all that was asked for; a round trip gains nothing
  but rounding. `BytesReadBack`: a decoder reads from the bytes what was put in,
  a routed cancellation included; nothing is signed without a signature, and nothing sent to
  cancel no orders.
  `PlansAreBound`: what an operator confirms is what is approved and executed, for one owner,
  whichever field of the plan another one differs in and in whatever order the flags were given.

### Fairness

`session_live` assumes that a reserved rate-limit slot comes or the request is
refused, that a request ends by its answer or by the transport's deadline (the
HTTP session always arms one), and that the strand runs what was posted to it.
Nothing is assumed of the venue, the wallet stream, the host, or of crashes.

`trading` assumes that queued handlers run, that armed timers and the stream's
own timeout fire, and that a deadline passes; not that the network or the server
does anything, nor that the caller stops the request.

`private_ws` and `public_ws` assume that an open ends, by its deadline if by nothing else,
and that a reconnect or acknowledgement timer that was not cancelled fires. Nothing is
assumed of frames, writes, heartbeats or the host, nor of the last connection within the
bound. In `public_ws` the assumption is of the current connection only.

`ws_channel` assumes that the deadline of an open passes and its handler runs, that the
stream's own timeout fires, and that operations on a closed socket end; not that the
peer ever answers. An open without a deadline of the caller's gets the channel's own.

`chain` assumes that every request is answered or failed by its deadline and that the poll
timer fires; not that anything is ever mined.

## 4. Proofs

All theorems hold for every value of the constants that the named assumptions of the
modules allow (`ASSUME`): any sets of orders, topics and answers, any bounds, rates,
policies and numbers of connections and calls. Every proof has the same shape: an
inductive invariant, one lemma per operator on what it keeps, one lemma per action, and
a temporal step that puts them together.

The theorems on orders assume that a failed append leaves whole frames or none
(`"torn_append" \notin Faults`); `session_torn` shows that without this `AtMostOnePost`
is false.

* `TrackerSafety` (`PersistentOrderTrackerProofs`): `TypeOK`, `PublishedIsDurable` and
  `QuarantineFitsState`. The inductive invariant `TrackerInv` adds that the framing of
  an open journal is clean (`Framed`), that every record in every image fits its flag,
  and that limbo is what the images hold beyond the published table. `PublishedIsDurable`
  alone is not inductive: an append behind a partial frame would not be readable. There
  is one lemma per operator of `OrderTracker`, and the cases of `append`, `open`
  and a crash rest on them.
* `RecoveryFaithful`: every step that opens a tracker, from `TrackerInv`.
* `SessionSafety` (`DurableOrderSessionProofs`): `SessionTypeOK`, `PostedIsJournaled` and
  `AtMostOnePost`. `SessionInv` adds `SubmitInv` (a waiting create is tracked and not
  yet sent, a sent one was sent once) and `FetchInv` (a reconciliation runs only in an open
  session).
* `SessionSubmitsOnce`: `Spec => SubmitsOnce`. Each action maps to a step of
  `SubmitOnce` or to a stutter, since an order, once in all images, is never forgotten.
* `TradingCompletesOnce`, `TradingPostsOnce`, `TradingKeepsContract` (`TradingClientProofs`).
  `TradingInv` says when the handler is still there (`HandlerInv`), that the session is idle
  until the operation has dispatched it (`DispatchInv`), and that nothing is on the network or
  in an answer before the session writes (`WireInv`). `KeepsContract` needs all three: a
  refusal is harmless because a refused operation is never dispatched.
* `PrivateGate`, `PrivateLossAnnounced` (`PrivateWsClientProofs`). `IInv` says what the flags
  imply of each other (`FlagsOK`: an open session has its channel, a pending reconnection has
  dropped everything else, the gate is open only in a marked generation), and what handlers
  may be left (`ChannelsOK`). The latter is needed twice. A channel that is opening has no
  other handler and no timer, so nothing can have dropped it when `opened` runs. And a read
  that is handled while a reconnection is pending finds a queue that is empty or ends in an
  alarm; without this, an event that does not fit could be dropped with no alarm left, since
  `schedule_reconnect` then does nothing.
* `StaysFresh`, `AnnouncesLoss`, `OrdersStamps`, `KeepsBackoff`, `TypeSafe`
  (`PublicWsClientProofs`, over the lemmas of `PublicWsClientLemmas`). `StateInv` says of the
  record that nothing is acknowledged or asked for without a session (`RequestInv`), that a live
  stream is fresh (`LiveInv`), that a loss is announced while there is a channel (`LossInv`), and
  that a topic's timestamp is at least the last one delivered (`StampInv`); and of the channels
  what may be under way on the current one (`ChannelsInv`). Every action lemma also proves
  `BackoffStep`, from which `KeepsBackoff` follows.
* `WritesOneAtATime`, `SendsInOrder`, `AnswersTruly`, `OpensOnce` (`WebSocketChannelProofs`).
  `WriteInv`: the one frame in flight is the front of the queue (`FlightInv`), what is on the
  network is older than what is queued (`WireInv`), who was answered is not queued (`ToldInv`).
  `OpenInv`: the answer to an open comes when no stage of it is under way.
* `ForgetsNoCall`, `ObservesCooldown`, `ReportsHonestly`, `StaysQuiet`, `KeepsBudget`,
  `BoundsSends` (`RestClientProofs`). `RestInv` has the limiter's part (`BudgetIsKept`: what a
  bucket was charged is within its rate, which rests on facts about refills under a penalty)
  and one invariant per operation: how often it was sent in each phase (`SendInv`), what may
  be queued after it was answered and that the wait for a timer includes the cooldown
  (`CallInv`), and what a referral's caller was told (`ReferralInv`).

Only model-checked: liveness (fairness and ENABLED are out of the prover's reach),
`TerminalIsTrue`, `SendsAreWithinBudget` (a sum over all calls, by induction), the chain client,
the acceptance tool, and the algorithms, whose folds would need induction over data.

## 5. Where the code does something else than is said of it

`session_torn` is a run (`findings` in `PROJECT.json`): after a failed append that left part
of a frame, later records are lost by the next replay, and an order that was sent may be
sent again.

The following were met while modelling. The models contain them, and the properties are
stated so that they hold in spite of them; only the reports of the runs have sound amounts,
and the command lines name no flag twice.

Orders:
* A wallet event releases a quarantined order while the pages are still being fetched
  (`lifecycle.cpp:252`; `execution/session.hpp:81-83` and `README.md:192-193` say that only the
  pages do).
* The answer to a create, handled after the event of a fill, takes the order from filled back to
  accepted (`lifecycle.cpp:149`; for a rejection `:161-164` refuses exactly this).
* A receipt for another hash leaves a sent order as a plain pending submission
  (`lifecycle.cpp:145`; `docs/DURABLE_ORDER_SESSION.md:17` says an outcome is persisted).
* A report with a non-positive amount is journaled and then refused by `restore`
  (`lifecycle.cpp:177`, `:329-335`), so the journal does not open
  (`docs/DURABLE_ORDER_SESSION.md:74` says that opening restores all records).

Streams:
* A heartbeat read just before the connection was given up is handled after it, and echoed
  through a channel pointer that is null by then (`private_wss.cpp:231`, `public_wss.cpp:338`).
  A data frame in the same place is delivered and marked fresh.
* A reconnect timer that had expired before a stop and a new start still connects
  (`public_wss.cpp:493`), and `connect` leaves `session_open` set (`:176`). A topic added then is
  written to a channel that is opening, which refuses it at once (`websocket.cpp:321`): the client
  gives the connection up, and if the open succeeds nevertheless, `opened` subscribes through a
  null channel (`public_wss.cpp:256`).
* A topic added while live leaves the stream live until it is acknowledged. A topic that is
  unsubscribed and subscribed again before the acknowledgement is dropped by it. A stop keeps
  the topics.
* `websocket.cpp:336`: when a channel is closed or cancelled while a write succeeds, the handlers
  of the writes queued behind it are never called. An open may succeed after its cancellation
  (`:206`, `:392`), a deadline handler already queued may close a channel just reported open
  (`:162`), and a close has no timeout.

REST, authentication, limiter:
* `rate_limiter.hpp:53-54` says that a past `Retry-After` date uses the fallback; it gives 0.
* A 429's retry is not charged and waits only for its own cooldown, not for a longer one set since.
  A token is charged when it is reserved, also for a request that is then never sent.
* `auth.cpp:285`: a signer that throws after it has taken the callback loses the caller's handler.

Chain and tool:
* `chain_client.cpp:414`: an answer to `eth_sendRawTransaction` that is no JSON-RPC result, say a
  proxy's page, is reported as an error without the hash, although the node may have the
  transaction. `types/chain.hpp:91-93` and `docs/TESTNET_ACCEPTANCE.md:193-195` say that the hash is
  kept. `HashIsKept` and `OutcomeIsAuditable` name this one exception (`garbled`).
* Two executions for one account read the same pending nonce (`:334`); the poll timer does not
  look at the stop token; the chain id is asked for once and trusted from then on.
* The tool writes a hash only after the wait for its receipt, so a kill in between leaves none;
  a session after a kill may send again. An evidence stream that failed stays failed.
  `chain_verified` is written on either network.

Numbers:
* `FixedDecimal` refuses `1e+3` and zeros beyond its places. `limit_amounts` accepts a price
  above one, and a market order does not check that its book is sorted. An order by value
  without a minimum may offer more than the value. Rounding per level lets a round trip
  recover up to a wei per level more than was spent.
* `--scope convert --scope split` keeps the negative-risk flag of the first.

## 6. Not modelled

* Order building, hashing and signing, secret memory (`order_builder.cpp`, `order_eip712.cpp`,
  `order_signature.cpp`, `local_signer.cpp`, `secret.cpp`, `evm.cpp`): fixed byte transformations
  over Keccak and secp256k1 with no state that branches.
* JSON codecs: text to records. They enter the models as the set of records a decoder may
  return, the error included; so does a frame of the journal, whole, partial or unreadable.
* The expiry of a token and the codec of the authentication client.
* The probe tools: read-only drivers of the clients above, with counters and report text.
* Statistics, reasons, log text and the `event_ready` wake-up of the streams.
* Threads: everything on one executor is taken to run one handler at a time, as the library
  asks of its callers.
