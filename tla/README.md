# A TLA+ model of go-xpx-chain-sdk

The SDK is the Go client library of a Catapult (ProximaX Sirius) chain: it builds, signs and
announces transactions over REST and listens to chain events over a websocket. This directory holds
TLA+ modules that model its core, TLC configurations that check them on small instances, and TLAPS
proofs of what matters most for instances of every size. `PROJECT.json` lists components, runs, the
map from definitions to source lines, hazards, findings and theorems. All paths below are relative
to the repository.

Run a check with `tlc -config X.cfg MCModule`, a proof with `tlapm XProof.tla`.

## 1. Inventory

| Component | Source | State | Operations | Talks to |
|---|---|---|---|---|
| Websocket subscriptions | `sdk/websocket/client.go`, `router.go`, `message_publisher.go`, `handlers/`, `subscribers/` | eight handler storages (locked maps of maps), `topicHandlers` (plain map), client UID, router uid, publisher connection | eight `AddXHandlers`, `RouteMessage`, eight `Handle`, `PublishSubscribe/UnsubscribeMessage`, `reconnect` | user code (callbacks), the node (frames), lifecycle (reader goroutine) |
| Websocket lifecycle | `sdk/websocket/client.go` | `conn`, `alreadyListening`, context, unbuffered `messagesChan` | `NewClient`, `Listen`, its reader, `Close` | the connection, the router |
| Node failover | `sdk/sdk.go` 45-312, `client.go` 471-503 | `Config.UsedBaseUrl`, shared by all calls | `newRequest`, `do`, `doNewRequest`, `connect` | HTTP transport, every REST service, the websocket |
| Transaction payloads | `sdk/transaction_model.go`, `transaction_schema.go`, `sdk_schema.go`, `sdk.go` 328-562 | the transaction, its flatbuffer, the signed payload | constructors, `Size`, `generateBytes`, `toAggregateTransactionBytes`, `signTransactionWith`, `signTransactionWithCosignatures`, `modifyTransaction` | the node, which reads the size field and the layout |
| Transaction mapping | `sdk/transaction_model.go` 3431-3539, the transactions' DTOs | none; a goroutine and an error slot per transaction | `MapTransactions`, `MapTransaction`, `toStruct` | REST answers, websocket messages |
| REST services | `sdk/account.go`, `blockchain.go`, `contract.go`, `metadata.go`, `mosaic.go`, `namespace.go`, `network.go`, `transaction.go` | none: several requests of one call read a chain that moves on | about forty methods of one request or more | failover, DTOs, the mapping |
| Resolver | `sdk/resolver.go` | none | lookups by asset id, one or many | mosaic and namespace services |
| Answers of the node | `sdk/*_internal.go` | none | `toStruct` of every DTO | every service |
| Flatbuffer builders | `transactions/*_buffer.go` | the buffer being built | `Start`, `Add`, `End` of each table | `generateBytes`, the schemas |
| Network configuration | `sdk/network_model.go` | the parsed bag | parser, writer | network service, `NetworkConfigTransaction` |
| Ids and numbers, secrets, messages, examples | see `PROJECT.json` | none of their own | one conversion each | |

What is hard here, and a unit test hardly reaches:

- *Interleavings.* `AddXHandlers`, routed messages (a goroutine each, plus one per handler function)
  and the reader share the storages, two uids and the connection. Each access is locked or not, but
  no operation is atomic: check-then-subscribe-then-store, remove-then-check-then-unsubscribe.
- *Failure.* A connection ends between any two steps; a frame written to it is reported as written
  and lost, or fails. A reconnection may fail half way and start over.
- *Unlocked fields.* `Listen`, its reader and `Close` read and write `c.conn`,
  `c.alreadyListening` and the storages with no lock; `UsedBaseUrl` is shared by all calls.
- *Retries.* A request whose answer was lost goes to the next node with the same body buffer, drained or rewound.
- *Boundaries.* The serializer shortens a zero scalar to one byte while `Size` counts its width; counts are cut to 8 or 16 bits.
- *Positions.* Builder, schema, aggregation, signing and hashing agree on a payload only by the order of slots and by
  fixed offsets; nothing in the code compares them.
- *Answers.* A lineage, a resolved id, a fee are put together from several answers of a node whose chain
  changes meanwhile, and any field of any of them may be missing or malformed.
- *Nested goroutines.* A list of transactions is mapped by a goroutine each, those of an aggregate inside its own.

What makes each component correct: a topic with handlers is subscribed and one without is not, and
every routed message finds its topic handler (subscriptions); one reader per connection, nothing
left open or waiting after `Listen` (lifecycle); all nodes tried, an announcement sent on as is only where
the transport rewinds it, a cancelled call stops (failover); announced size, real length, layout and fee agree, and a node verifies what was signed
(payloads); the list or the error does not depend on the scheduler, and no malformed field gets through but those nobody looks at (mapping, answers);
a result is complete and was true at some moment of the call (services, resolver).

## 2. Modules

| Module | Stands for |
|---|---|
| `WsClient` | websocket subscriptions and `reconnect`, and the serial discipline (`AddsAlone`, `SerialSpec`) |
| `MCWsClient` | its instances: one block topic, one address topic |
| `WsClientProof` | proofs about `WsClient`: types and registered topics; what the node is subscribed to |
| `WsLifecycle`, `MCWsLifecycle`, `WsLifecycleProof` | `Listen`, the reader, `Close`, cancellation |
| `NodeFailover`, `MCNodeFailover`, `NodeFailoverProof` | failover of REST calls and of the websocket dial |
| `TxPayload`, `MCTxPayload`, `TxPayloadProof` | sizes and lengths of every transaction type, aggregates, signing, fees |
| `TxBuffers` | flatbuffer builders, schemas and the serializer, as operators |
| `TxLayout`, `MCTxLayout` | the same actions as `TxPayload` on bytes; implements `TxPayload` |
| `TxBuffersProof`, `TxLayoutProof` | lemmas about segments, slices and schemas; proofs about `TxLayout` and its refinement of `TxPayload` |
| `Conversions` | `toStruct` of every DTO, as operators |
| `RestServices`, `MCRestServices` | the services, the resolver and the mapping of transactions |
| `RestServicesProof`, `RestCallsProof` | proofs about `RestServices`: mapping, malformed fields, lineages and types; what the resolver returns |

Some definitions are preceded by a deliberately wrong variant of them (`ReconnectUncounted`, `AskHeightNext`), whose
comment says what it gets wrong. No specification uses them; each shows that some property would notice the mistake.

### WsClient

The eight `AddXHandlers`, the eight `Handle` and the eight storages are copies of one another, apart
from the block storage, which has no address and whose removal fails in other cases (`RemoveFails`). So
one function `subs` from topics to sets of handler pointers stands for the eight storages, `entries` for the keys
of their outer maps (which are never deleted), and each action is one stretch of the common text.
`PROJECT.json` maps the actions to the copies for confirmed transactions.

| Actions | Code |
|---|---|
| `AddStart`, `AddHas`, `AddRegister` | entry, `topicHandlers.HasHandler`, `SetTopicHandler` |
| `AddCheck`, `AddReadUid`, `AddPublish`, `AddStore` | `HasHandlers`; `c.UID`; `PublishSubscribeMessage`; `AddHandlers` |
| `Deliver`, `RouteLookup` | the `Listen` loop's `go RouteMessage`; `GetHandler`, with its panic |
| `HandleGet`, `HandleSpawn`, `HandleRangeEnd` | `GetHandlers` returning the live map; the loop over it |
| `HandlerReturns`, `HandlerRemove`, `HandlerCheck` | the handler function; `RemoveHandlers`; the test of the shared `err` |
| `HandleAnswer`, `RouteReadUid`, `RoutePublish` | `HasHandlers` after `Wait`; the unsubscription, with its panic |
| `ReadCloseError`, `Reconnect`, `SetConn`, `SetUid` | the reader's close error and the steps of `reconnect` |
| `ResubscribeList`, `ResubscribePublish`, `ResubscribeDone` | the lists of `GetAddresses`, one write each |
| `ServerReceive`, `ConnectionLost` | external: the node and the network |

A critical section is one step and so is every unlocked read. A data race on a Go map is a choice
between "unnoticed" and the runtime's fatal error (`fault = "mapRace"`): a write while a message is in `GetHandler`, or another
caller in `HasHandler` or `SetTopicHandler` (`ReadingTopicHandlers`, `TouchingTopicHandlers`), a removal while a `Handle` ranges. The `err` that the goroutines of
one `Handle` share is modelled as such: a goroutine sees its own error or a sibling's.
The node ignores a frame whose uid is not the connection's. A write to a dead connection fails or is
swallowed. Messages are taken to be well formed, so the panics of the mappers on
malformed JSON are out of scope. `reconnect` is modelled with `connectFn` set, as `client_test.go`
builds the client; what `NewClient` does is in `WsLifecycle`.

### WsLifecycle

`conn` is the field itself, read anew at each use (0 for nil). `Listen` is split at each access to shared state
(`ListenCheck`, `ListenSet`, then the select: `LoopReceive`, `LoopDone`, `LoopClose`, `LoopNil`), so is the
reader (`ReadStart`, `ReadMessage`, `ReadError`, `ReadCloseError`, `Reconnect`, `ReconnectAssign`, `Resubscribe`) and
`Close` (`CloseCheck` to `CloseStorages`). A read error is "reset", "closed on this side" (both `*net.OpError`)
or "closed by the peer" (`*websocket.CloseError`). `connectFn` says whether the field is set; a client from
`NewClient` leaves it nil. Two history variables record what the properties have to exclude: `raced`, two `Listen`s that both passed
the test of `alreadyListening`; `late`, a reader that reconnected after `Close` had begun or its loop had ended.

### NodeFailover

A node is its index in `BaseURLs`. A call may fail before any attempt (`RequestFails`: path or body make no request). Each attempt ends in
one of: not reached, exchange broken after all or part of the request was sent, refused status, undecodable body, accepted. The request
body is a `bytes.Buffer` that the first sending drains. What a later attempt makes of it is up to `net/http` (external, from how
`sdk.go` builds the request): the content length no longer matches, which is noticed before anything is written. On a new connection that is an
error. On a connection kept from an earlier exchange (`kept`) the transport takes the failure for a stale connection, rewinds the
body with `GetBody`, which `http.NewRequest` sets for a `bytes.Buffer`, and sends it whole. A connection may be kept, or not, after every exchange that came to an
answer (`MayKeep`). The history variable `moved` records that another call stored `UsedBaseUrl` while this one was under way. The loop reads `UsedBaseUrl` in each round, as the code does. `do` turns every status from 400 up
into an `HttpError` before `handleResponseStatusCode` sees it, so the latter's cases for 400, 404 and 409 never apply;
`oddStatus` is what it still reports. Redirects are not modelled.

### TxPayload

A transaction is reduced to two numbers computed along different paths: `size`, from `Size()` and
the header constants, and `bytes`, from the schema walked over the flatbuffer. There is one operator per schema
and one per transaction type, with the lengths that vary as parameters; a field keeps its width, and is
one byte if zero (`findParam`). The actions are: construct (with the fee of `modifyTransaction`), add to an
aggregate, build the aggregate, sign, sign with cosignatories. A behaviour is the making of one transaction. An aggregate
inside an aggregate is left out. Contents, hashes and signatures are abstracted to their lengths.

### TxBuffers and TxLayout

The bytes themselves, as a sequence of segments: a field, how many of its bytes are there and from which on, the number it
holds, and for the fields of an inner transaction which one. `Build` fills the slots a builder declares, `serialize` walks a
schema over them by position, `Slice` is Go's slicing; so a field may come out cut, in the wrong place or with another
field's width, as in the code. A scalar that is zero is absent from the buffer and read back as one byte
(`findParam`); `valueSize` of a metadata modification is a vector for that reason, as the code's own comment says. The actions are those of
`TxPayload`; `signing` and `hashing` are the bytes the signature and the hash are computed from. Numbers that no length depends on are 1.

`PayloadSpec` is the refinement: `Payload == INSTANCE TxPayload WITH ...` maps the bytes to their number and the payload
to the number in its first four bytes, and every step of `TxLayout` is a step of `TxPayload`. `TxLayoutProof` proves it, so
what `TxPayloadProof` says of numbers holds of the bytes.

### Conversions

A `toStruct` method is a sequence of fallible steps, one per field it decodes; a step says what happens when the field is missing
and when it is malformed: an error, a panic, or nothing. Nothing is what happens to a property type of more than one bit, which
`propertiesDTO` lets pass and the switch of `accountPropertiesDTO` drops, to an alias of an unknown type, and to a cosignature that is not the last. Order matters, since the method stops at the first error or
panic. An answer has up to `MaxFlaws` flawed fields. A list has two elements. The lengths of keys, hashes and addresses are not
looked at by the code beyond what the steps say, so text of the wrong length is no flaw of its own.

### RestServices

The services keep nothing between calls, so a behaviour is one call: its arguments are refused, or it makes requests one by one
(`todo` is its stack of continuations) and ends in "ok", "error" or "panic". Methods of one request are records (`Method`): which
tests refuse an argument, which argument they do not survive, and every outcome of every kind of response (`Responses`), which depends
on what it is decoded into: a struct, a pointer, a list, or a list made beforehand of nil pointers, which an empty body leaves as it is
and `GetTransactionStatuses` does not survive (`GetNils`). Methods
of several requests are actions, one per request or conversion between two requests:

| Actions | Code |
|---|---|
| `GetNamespaceInfo`, `buildNamespaceHierarchy`, `SetParent`, `Collect` | `namespace.go` 19-47, 182-199; a recursion becomes tasks on the stack |
| `GetNamespaceInfosFromAccount`, `buildNamespacesHierarchy` | `namespace.go` 49-88, 201-211; the loop takes one info a round |
| `MakeNils`, `MosaicInfosOf`, `NamespaceIds`, `Resolve`, `MosaicInfoOf`, `RefuseIds` | `resolver.go` |
| `AskHeight`, `AskAtHeight`, `AskBlock` | `network.go`, the effective fee in `transaction.go` |
| `AskTransactions`, `MapTransactions` (spawning, `MapSingle`, `MapAggregate`, `MapReturns`), `AssertAggregates` | `MapTransactions`, the DTO of aggregates, `AggregateBondedTransactions` |
| `Relink`, `Expire`, `Rollback` | external: the chain, between two requests |

Abstractions: of a namespace the node says what is so, but it may leave out its parent or its alias (`InfosOf`), and the namespace is then
taken for a root, or for one without a mosaic, as the code does; for a list of mosaics it may send infos of fewer, of none, or in any order. What a mosaic info or
a transaction says is left out. A list of transactions holds at most one aggregate, and an aggregate no aggregate. A transaction of the list
is its outcome: "ok", "error" or "panic", and the malformed fields it lets through.

## 3. Runs

| Run | Checks | Distinct states | Result |
|---|---|---|---|
| `WsConcurrent` | `TypeOK`, `TopicRegistered`, `NoIdleSubscription` | 1.7 M | holds |
| `WsSerial` | `NoLostSubscription` if handlers are added only while nothing else happens | 402 k | holds |
| `WsLiveness` | `IdleSubscriptionEnds` on one connection | 146 k | holds |
| `WsLost` | `NoLostSubscription` for any caller | | violated |
| `LifeListen` | `TypeOK`, `OneReader`, `ClosedOnReturn`, `ListenReturns` | 141 k | holds |
| `LifeReconnect` | `ReconnectStarts` for a client from `NewClient` | | violated |
| `FailoverConcurrent` | `TypeOK`, `AnnouncedOnceUnlessKept`, `FailureMeansAllTried` | 4.6 M | holds |
| `FailoverCancel` | `NoAttemptAfterCancel` | | violated |
| `PayloadSizes` | `TypeOK`, `SizeFieldExact`, `CosignaturesDelimited`, `FeeCoversPayload` | 255 k | holds |
| `PayloadZero` | `SizeFieldExact` with nonce 0 | | violated |
| `Layout` | `Verifiable`, `FieldsWhole`, `CountsAnnounced`, `InnerDelimited`, `PayloadSpec` | 33 k | holds |
| `Services` | `TypeOK`, `MalformedRefused`, `LineageComplete`, `ResolvedDuringCall`, `MappingInListOrder`, `MappingEnds` | 1.5 M | holds |

**Bounds.** Two topics are enough for the two kinds of storage, two callers and two messages for
every pairwise race, two handlers for "one goes, one stays" and for a call racing the last removal.
Two connections in `WsConcurrent` give every race with one reconnection; three in `WsSerial` let a resubscription
fail half way and start over. Messages are goroutine slots, reused without limit, so the number of
events is not bounded; handler pointers are used once (each call takes fresh addresses), so the
number of handlers is. Two `Listen`s, a `Close` and two connections give every pair of unlocked accesses and one reconnection. Three nodes
let a call skip, fail and succeed in the loop. The lengths in `PayloadSizes` contain 0, 1, and 255, the
largest count its byte holds; `Layout` adds the lengths at which a count wraps, 256 and 65536, and nonce 0. In `Services` three
namespaces are the deepest lineage the protocol allows; one change of the chain can fall between any two requests (the theorems allow any number); two flaws
let one error hide another; two mosaics and two ids let a namespace be relinked and a list be short; three transactions and
two inner ones let a goroutine end before, between and after its siblings. Symmetry is used for callers, messages,
handlers and calls only where no liveness is checked; nothing in the modules tells them apart.

**Deadlock** is not checked where stopping is legitimate: a client whose handlers are used up and
whose connection count is spent, a process that has died, a list of calls that are all done.
A signed transaction (`Layout`) and a call that has returned (`Services`) end their behaviours. `TxPayload` always has a next step and
is checked.

**Disciplines.** `WsSerial` restricts the interleavings (`AddsAlone`) because the property fails without: the code is right
for programs that keep the discipline, and the restriction says which one they have to keep. `OneReader`, `ClosedOnReturn` and
`FailureMeansAllTried` do the same with history variables (`raced`, `late`, `moved`): all interleavings are explored, and the property says
which ones it does not cover. `ClosedOnReturn` also leaves out the connection that a reader has opened and not yet assigned to `c.conn`: nobody
else can reach it.

What the properties do not cover, and PROJECT.json says so at each hazard: the map races, which are permitted faults; two `Listen`s that
race past the test, and a reconnection that outlives `Close`; a call during a reconnection, which may pair the old uid with the new connection, or meet a dead one;
addresses subscribed again after a reconnection although they have no handlers; a used node moved by another call; counts that wrap and lengths that are zero in 16 bits; the fee of
cosignatures; the fields of `LetThrough`.

**Fairness.** Weak fairness of each goroutine's steps: the Go scheduler runs what can run. Handler functions are taken
to return, and a live connection to deliver. In `WsLifecycle` the loop's `ctx.Done` branch is fair of
its own, since a `select` with several ready cases picks at random. In `RestServices` only
the goroutines of a mapping are fair: an HTTP client without a timeout may wait for a node forever, so that no call is taken to end.
Nothing forces the user to call, the chain to
produce events, a connection to fail or the node to send.

### What the violations show

- `WsLost`. `AddConfirmedAddedHandlers` finds a handler, so it does not subscribe; the event being handled
  removes that handler, `Handle` reads an empty storage and answers "not needed"; the call stores its
  handler; `RouteMessage` unsubscribes. The new handler is never called.
- `LifeReconnect`. `NewClient` never sets `connectFn`, so that the first close by the peer makes the
  reader call a nil function. Only the tests set the field.
- `FailoverCancel`. `do` throws the result of `req.WithContext(ctx)` away and the loop over the nodes does
  not look at the context.
- `PayloadZero`. A mosaic definition with nonce 0 is 134 bytes long and says 137; the same happens for an
  empty proof, an empty configuration and an aggregate without transactions.

### Seen in the models, not stated as runs

- Two events of one address can call one handler twice, and the second removal panics (`fault = "handlersNotFound"`).
- After a reconnection, an address whose handlers have all gone is subscribed again (keys are never
  deleted) and stays so: `Handle` answers TRUE when it finds none. Hence `nconn = 1` in `NoIdleSubscription`.
- `Close` closes the connection before it clears `c.conn`. The loop, woken in between, closes it again and panics
  (`fault = "doubleClose"`).
- A reader that holds a message when its `Listen` has returned waits on the unbuffered channel for ever.
- A reset connection stops the reader like `Close` does, without a reconnection.
- Concurrent calls that move `UsedBaseUrl` make a third skip a node it never tried.
- A reconnection that ends after `Close` leaves a connection open that nobody closes (`late`).
- 256 entries are announced as none, and their bytes follow all the same (`CountsAnnounced` says "modulo").
- Failing over, a second node receives an announcement in full if the transport had kept a connection to it from an earlier call (`kept`).
- The three exceptions of `MalformedRefused` (`LetThrough`): the malformed signer of a cosignature that another one follows, a property type of more
  than one bit, an alias of an unknown type.
- `GetNamespaceInfo` builds the hierarchy of a parent in the call that fetches it and once more after it, so that requests double with every level.
- `GetMosaicInfosByAssetIds` of namespaces only returns one nil per id before the infos, and of mosaics whatever the node sent.
- `GetTransactionStatuses` of an empty response body dereferences a nil pointer per hash.
- A null element among the supported entities of a network version ends the process.
- An answer without an address ends the process, as does a transaction that is no aggregate among `AggregateBondedTransactions`;
  an answer of status 200 without a body is a struct of zeros.

## 4. Proofs

Every theorem holds for all values of the constants that satisfy the modules' `ASSUME`s. These say that bounds are
numbers, that the parts of the system are told apart (`FailoverConstants`, `ParentAssumption`), that the topics' channels are
channels (`WsConstants`) and that `reconnect` goes through the channels of all topics (`ResubscribesAll`, which the list in
`client.go` 393-441 does). All safety invariants that the runs
check are proved but one, `CountsAnnounced`, and so is the refinement of `TxPayload` by `TxLayout`.

| Module | Theorem | States |
|---|---|---|
| `WsClientProof` | `TypeCorrect`, `TopicAlwaysRegistered` | `TypeOK`, `TopicRegistered` |
| | `NoIdleOnFirstConnection` | `NoIdleSubscription` |
| | `NoLossWhenAddingAlone` | `NoLostSubscription`, under `SerialSpec` |
| `WsLifecycleProof` | `TypeCorrect`, `OneReaderAtATime`, `NothingOpenOnReturn` | `TypeOK`, `OneReader`, `ClosedOnReturn` |
| `NodeFailoverProof` | `TypeCorrect`, `SecondNodeOnlyOverKept`, `FailureAfterAllTried` | `TypeOK`, `AnnouncedOnceUnlessKept`, `FailureMeansAllTried` |
| `TxPayloadProof` | `TypeCorrect`, `FeeAlwaysCoversPayload` | `TypeOK`, `FeeCoversPayload` |
| | `PayloadSizeExact`, `CosignaturesAlwaysDelimited` | `SizeFieldExact`, `CosignaturesDelimited`, if no scalar is zero |
| | `NeverLongerThanAnnounced` | a payload is at most as long as its size field says |
| `TxLayoutProof` | `LayoutInvariant` | `LayoutInv`, the inductive invariant |
| | `NoFieldCut`, `AlwaysVerifiable`, `InnerTransactionsFound` | `FieldsWhole`, `Verifiable`, `InnerDelimited` |
| | `LayoutImplementsPayload` | `PayloadSpec`: every step of `TxLayout` is one of `TxPayload` or changes nothing of it |
| | `NeverMoreThanAnnounced`, `AnnouncedIsLength` | the first four bytes of a payload announce at least its length; exactly its length, if no scalar is zero |
| `RestServicesProof` | `FirstErrorInListOrder`, `MalformedIsRefused` | `MappingInListOrder`, `MalformedRefused` |
| | `TypeCorrect`, `WholeLineage` | `TypeOK`, `LineageComplete` |
| `RestCallsProof` | `ResolvedAliases` | `ResolvedDuringCall` |

**WsClientProof.** "No message meets a channel without
handler" is not inductive: whether a message can arrive depends on what the node is subscribed to, which depends on frames
in flight, which depends on callers and on the list `reconnect` works through. The invariant follows
that chain, each link saying that its topics' channels are registered: `CallsInv` (callers past registration),
`RoutesInv` (messages under way), `StoredInv` (storage keys and the topics being resubscribed), `NetInv` (frames
and the node's subscriptions). One lemma per action, all combined in `StepInv`.

`NoIdleOnFirstConnection` and `NoLossWhenAddingAlone` are about the node, which lags behind the frames on the wire. `Expects(t)` is what it will
have made of topic t when the wire is empty: the last frame that concerns t decides, and if there is none what it has now. A
handful of lemmas say what a frame, a receipt and a new connection do to it. For `NoIdleSubscription`, `HandledInv` says that
where the node will be subscribed somebody answers for it: handlers are stored, a call is about to store some, or a
message whose handlers were called has yet to look and unsubscribe. The unlocked test in `Handle` is safe here for one reason the proof shows: the message
that removes the last handler still has its own test before it (`Children`). For `NoLostSubscription`, `SerialInv` says the converse: what
is stored, or about to be, the node will be subscribed to, or the reader has yet to come to it on this connection (`Pending`). The
discipline enters at one place, `Unsubscribing`: a message that is about to unsubscribe does so for a topic that is still empty.
`WsLost` is the step that breaks it.

**WsLifecycleProof.** The properties exclude two histories, `raced` and `late`; `Undisturbed` is what holds as long as neither has
happened. It rests on the flag `alreadyListening`: as long as no `Close` has reset it, one `Listen` at most is past its test (`OneListen`), and
a `Close` resets it only after `c.conn` has become nil for good (`Detached`). From there the connections are followed: an open one is
`c.conn` (`OnlyConn`), there is none where the code is about to forget or to replace it (`NoneLeft`), and a reader that waits does so
on `c.conn`, alone (`OneBlocked`).

**NodeFailoverProof.** `AnnouncedOnceUnlessKept` from `LoopInv` (a call
attempting from its loop has a position in the list) and `BodyInv` (a body that is still full has been
received by nobody; of the nodes that received a drained one, those without a kept connection are one at most), with any number of calls racing on
`UsedBaseUrl`: what is drained is sent again only over what is kept, and what may be kept only grows. `FailureMeansAllTried` from
`OrderInv`: a call that nobody disturbed has tried the used node and those before its position (`TriedBefore`), each once. That it tried
each *once* is a count, for which the length of `tried` is part of the invariant: one less while the position has not passed the used node.

**TxPayloadProof.** For each type a lemma shows that the schema yields at most what `Size` adds up, for all lengths, and as much
where no scalar is zero (`NonzeroScalars`: no length that a 16-bit field cuts to zero, no nonce 0, no empty aggregate, the condition
that `PayloadZero` shows to be necessary). `TxInv`, `InnerInv` and
`SignedInv` carry both through aggregation and signing. So the fee covers the payload without any condition, and where
the size field is wrong (`PayloadZero`) it is too large: a node waits for bytes that do not come, it never cuts any off. The limits 65536 and the
default fee stay folded in the proofs: nothing depends on their values.

**TxBuffersProof.** Lemmas about lists of segments of any length. `StartsOf` unfolds the recursion that says where each segment starts, by
`StepsExist` and `Induct`; `StartsJoin` says that behind x everything starts where it did, by the length of x later. From these `SliceParts`: a
slice of x, y and z put together whose bounds are the ends of x and of y is y; and `SlicePart`, for bounds within one segment. Since only segments
that have bytes are in the lists (`Nonempty`), the bounds decide which segments a slice holds. `Framed` is a header with something behind it, and `FramedReads` says what each of
the fixed offsets of the code finds there. `FlatJoin`, `NonemptyJoin` and `Makes` take a schema apart: what it serializes is what each attribute makes of its slot, in order.

**TxLayoutProof.** A lemma for each of the builders shows that its bytes are `Framed` and as long as `TxPayload` says of its type, for all lengths
and counts, zeros included (`Faithful`). `LayoutInv` is needed because the properties speak of the last payload only: what is signed is taken apart at offsets that
are right only for what was framed, and an aggregate is delimited only if everything gathered for it was (`InnerTx`, `Contained`). It says that the inner
transactions are whole and delimited, that the transaction at hand is `Made` (framed, and behind its header the count and the bytes of its inner transactions), and
that what was signed is `Shaped` like it: the size it announces, a signature and a signer in their places, the same bytes and
the cosignatures behind. The three properties follow from it without another look at the steps. For `InnerDelimited` the places where a node reads a size and the places
it is sent to are two sets, `Begins` and `Ends`; putting two delimited lists together shifts both alike (`MarksJoin`).

The refinement is `SameInit` and one lemma per action, where both sides are sums over the same lists: of the bytes gathered (`InnerBytes`, `InnerSize`) and of the
cosignatures. `AnnouncedIsLength` and `NeverMoreThanAnnounced` are the theorems of `TxPayloadProof`, instantiated (`Sizes`) and carried over by it.

**RestServicesProof.** For the mapping, `MapInv` says that a goroutine that waits for others finds all of them done
(`InnerDone`, `OuterDone`), and that each has left in its error slot what its transaction says; that the slots are searched in list order then gives
the first error, with the least element of a set of failing places from `MinOf`, a lemma that follows from well-founded induction on the
naturals. For malformed fields every `toStruct` is shown to consist of steps that look at their field (`Checked`), the
three of `LetThrough` excepted: `MalformedIsRefused` is a statement about the shape of every list of steps in
`Conversions`, whatever combination of flaws the answer has.

For lineages, `LineageInv` describes the stack of tasks of a call about namespaces: on top what is being done about the lineage at hand,
being fetched (`Fetching`), looking for the parent of its k-th (`Climbing`) or whole (`Built`); below it the lineages that wait for it, each with
the pair of tasks that will set the parent and build the parent's hierarchy once more (`Frame`, `Stack`); at the bottom what the method
does with the result (`Base`). A recursion of any depth is one such stack, so no induction is needed. `TypeCorrect` needs it as well: `SetParent`
indexes the second lineage, and only the stack says that there is one.

**RestCallsProof.** `ResolvedAliases` is about the loop of `GetMosaicInfosByAssetIds`, which the stack of tasks keeps at a place in the list while the tasks of one
namespace are above it. `ResolveInv` says, for every task that may be on top, how far the result has come (`Through`): whatever came of the mosaics, or the
nils the code puts there, then one alias for each namespace the loop has gone past. `AliasInv` adds that every alias in hand,
in a lineage or in the chain as it is now, was linked since the call began, so that relinking takes nothing back. What the loop has gone past is `OfType`, the
beginnings of a selection: that such a recursion over the positions of a list exists and may be unfolded is proved once, for any step (`StepsExist`,
from `Induct`, induction over the positions of a list as a least counterexample).

**What proving changed in the models.** The proof of `StepInv` for `ServerReceive` failed on a `CASE` whose guards overlapped: TLC takes
the first that is true, the logic any of them. It is now nested conditions. The tasks of `buildNamespacesHierarchy` and
`GetMosaicInfosByAssetIds` were flattened into one list before the first request; they are now the loops that the code has
(`buildNamespacesHierarchy`, `NamespaceIds`). `FeeAlwaysCoversPayload` turned out to need no condition, and the serial
discipline to need `ResubscribesAll`. The ids of one type were a `SelectSeq`, which the prover cannot unfold; they are now a recursive function over
the positions of the list (`OfType`), the loop of the code. That no namespace is a mosaic, two types in Go, had to be said
(`ParentAssumption`). In `TxLayout` the folds and selections were replaced by recursive functions over positions (`Nonempty`, `InnerSize`), a slice by the
segments between the last that ends before it and the first that starts after it, and the table of a transaction by the seven slots of `TransactionBuffer`
and its own, which is how the Go functions add them. That the inner transactions' lengths, counted beside their bytes, were redundant came out of the same
proof: the code keeps no such count. `LayoutConstants` says that lengths and counts are numbers.

**Model-checked only:**

- `IdleSubscriptionEnds`, `ListenReturns`, `MappingEnds`: liveness under fairness is outside the prover's reach.
- `CountsAnnounced`: that a count precedes what it counts, in every one of seventeen types. It picks the entries of one owner out of the whole payload,
  so a proof has to say for every type exactly which fields it holds, in which order, and of which owner, where `LayoutInv` only has to say that they are whole.

## 5. Not modelled

- Cryptography, JSON syntax, formatting and URLs: no control to model.
- The parser and the writer of the network configuration (`network_model.go` 146-304) beyond accepting or refusing: they work on text, line by line.
- 64-bit ids, namespace paths and versions: pure functions over bytes, out of TLC's reach at their width.
- The readers that flatbuffers generates beside the builders: nobody calls them.
- `AddXHandlers` after `Close`, a nil field read in one module and cleared in the other; a response body that breaks off half way;
  redirects; malformed websocket messages.

## 6. Plan

Done, in this order: subscriptions, lifecycle, failover, payloads; then bytes and their
refinement of payloads, the services with mapping and resolver; then the proofs of section 4.

Next:

1. `CountsAnnounced`: a lemma per type that lists its fields, as `Faithful` lists its length.
2. An abstract subscription service (a topic is subscribed or not, handlers come and go) and the refinement by `WsClient` under the
   serial discipline.
