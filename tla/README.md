# TLA+ models of the AMQP link, heartbeat and server handshake code

This directory holds a verification project for the Rust AMQP 1.0 crate whose sources are in `src/src/`. It contains:
- TLA+ modules that model its stateful parts;
- TLC configurations that model-check them on small instances;
- an abstract specification of a receiving link (`TransferChannel`) that both receiver links are shown to implement;
- TLAPS proof modules for the sender link, both receiver links, the heartbeat timer, the server handshake and Variant's `as_long` cast, with `ChannelLemmas` holding the sequence lemmas they share.

`PROJECT.json` lists the components, runs, mutants and source map, and the findings and hazards.

## Inventory of the system

| Part | Source | State | Operations | Interacts with |
|---|---|---|---|---|
| Sender link | `link.rs` 14–152 | `delivery_count`, `link_credit` (u32), `pending_transfers` (FIFO of message and promise), `error` | `new`, `send`, `apply_flow`, `detached`, `set_error` | session (`send_transfer`, Disposition routing, not in this tree); peer receiver via Flow, Transfer, Disposition and Detach |
| Receiver link | `rcvlink.rs` | `credit`, `delivery_count` (u32), `queue`, `closed`, `reader_task` | `new`, `set_link_credit`, `handle_transfer`, `close`, `Stream::poll`, `open`, `send_disposition` | session (`rcv_link_flow`, `detach_receiver_link`); reading task through an `AtomicTask`; peer sender |
| Legacy receiver link | `link.rs` 154–302 | `queue`, `closed`, `reader_task` (no credit) | `open`, `set_flow`, `send_disposition`, `close`, `handle_transfer`, `poll` | as above |
| Heartbeat | `hb.rs` | `expire_local`, `expire_remote`, `local`, `remote`, one `Delay` | `new`, `update_local`, `update_remote`, `next_expire`, `poll` | the connection, which reports frames in and out, polls the timer, and writes heartbeats or closes |
| Server handshake | `server/factory.rs`, `server/service.rs` | the future chain's position, the framed stream, and which builder made the factory | `ServerService::call`, `handshake`, `open_connection`, `ServiceFactoryService::call`, the `ServiceFactory` builders | the client over the socket; the SASL service (`Sasl::new`, not in this tree); the Dispatcher |
| Handshake builder | `server/handshake.rs` | none | builders | none |
| Client | `client/connection.rs` | configuration values | `new`, `state`, `sink`, `start_default` | a Dispatcher not in this tree |
| Variant | `types/variant.rs` | none | value conversions (`as_str`, `as_long`, `PartialEq<str>`) | none |

The behaviours that make this code hard to test are these:
- the peer's Flows, Transfers, Dispositions and Detaches interleave with local calls;
- stale and repeated Flows arrive;
- u32 counters wrap;
- a reading task parks and is woken by a producer;
- the local deadline and the wire-silence deadline race;
- a client may send anything at any point of the handshake.

## Plan

Each component with state gets:
- one module, with one action per handler;
- an MC module that gives the constants small values;
- a passing run with a type invariant, the safety properties, and liveness where the scheduling justifies fairness;
- one violation run for each real disagreement with the spec found while modelling;
- one mutant per checked property.

Every invariant and action property of the passing runs is proved with TLAPS, for every value of the constants. This covers the sender link's four safety properties, the receiver links' types, order and credit accounting, and the Heartbeat and handshake invariants. Variant's `as_long` cast is proved for every width. Both receiver links are checked against an abstract FIFO channel by TLC, and the safety part of each refinement is proved. Only liveness, and the fairness part of the refinements, is left to TLC alone.

## Modules

### SenderLink (`link.rs` SenderLinkInner)

Variables and their code counterparts:
- `delivery_count`, `link_credit`, `pending_transfers` and `error` are the fields of SenderLinkInner. `error` is a Boolean, because its value is never read.
- The session is modelled from the spec:
  - `next_outgoing_id` stamps delivery ids;
  - `unsettled` is the map of sent, unsettled deliveries;
  - `promise` is each message's promise state;
  - `wire` and `inbox` are the two directions of the connection.
- The peer receiver grants credit by Flow, settles by Disposition, and may detach.

Actions and the code they model:
- `SendQueued` and `SendNow` are the two branches of `send`.
- `ApplyFlow` is all of `apply_flow`, including its drain loop. `delta` is a u32 subtraction, modelled as `% 2^Width`. It includes the `delta <= 0` branch `link_credit += max(0, link_credit + delta)` exactly as written.
- `Detached` and `SetError` share `FailLink`. It fails every pending promise and drains the queue, and the session fails the unsettled ones.
- `HandleDisposition` and `DropFlow` are the session's routing. They are marked `spec_modelled`.

Counters keep their width: `Mod == 2^Width`. TLC uses a small Width, so that wrapping happens within the bounds.

### ReceiverLink (`rcvlink.rs`)

- `SetLinkCredit(n)`: `credit += n`, wrapping as in a release build, followed by a Flow that carries `delivery_count` and `n`.
- `HandleTransfer` has the credit check and the `Close("limit")` branch. The push, and the wakeup when the queue becomes non-empty, are in the same step.
- `Poll` is the Stream `poll`:
  - it pops the queue;
  - on an empty queue it returns `None` if `closed`;
  - otherwise it registers and parks.
- `Close` is `ReceiverLinkInner::close`. `AppClose` is the application's `close` or `close_with_error`.
- The peer is a compliant sender. It reads a Flow's credit as counting from the Flow's delivery-count, and may overrun its credit up to `MaxOverruns` times.

### LegacyReceiverLink (`link.rs` ReceiverLink / ReceiverLinkInner)

The same shape as ReceiverLink, with these differences:
- `handle_transfer` has no credit check;
- `set_flow` always sends `delivery_count 0` with a fixed credit (5000 in the code, `FixedCredit` here);
- `open`, `send_disposition` and `close` post frames.

Each Flow frame records a ghost `handled` field: the number of Transfers taken when it was sent.

### Heartbeat (`hb.rs`)

Time is discrete (`now`). `deadline` is the Delay's deadline. Tying this module to the code:
- `Init` is `Heartbeat::new`.
- `UpdateLocal` and `UpdateRemote` model the updates.
- `NextExpire` models `next_expire`.
- `Poll` models all of `poll` when the Delay is due:
  - close when the deadline reached `expire_local + local`;
  - otherwise request a heartbeat when it reached `expire_remote + remote`, and re-arm at `next_expire`;
  - or fail with a timer error.
- `Tick`, `SendFrame` and `WriteHeartbeat` are the connection's side, from the spec.
- The ghosts `last_in` and `last_out` record when frames really came in and went out. The properties use them, never the code's own fields.

### ServerHandshake (`server/factory.rs`, `server/service.rs`)

`phase` is the position in the future chain. The phases are `read_proto`, `read_open`, `sasl`, `read_proto2`, `read_open2`, `call_factory`, `dispatch` and `failed`. The other variables:
- `error` is the HandshakeError kind;
- `c2s` holds the client's unread messages;
- `s2c` holds the server's writes;
- `consumed` is the history of what was read;
- `factory` records each factory call, with its auth argument and its outcome.

The actions:
- `ReadProtocol` is the protocol match of `ServerService::call`.
- `ReadProtocol2` is `handshake`.
- `OpenConnection` is `open_connection`. Which phase comes after it depends on the path.
- `CallFactory` is the plain path's `factory.call(None)`.
- `FactoryCall` is `ServiceFactoryService::call`: it joins the state or SASL service with `new_service`.
- `Sasl` is a single step, because `Sasl::new` is not in this tree. It reads the SASL init, calls the factory with the credentials, and answers with the outcome.
- `IoError` is any read or write failure.
- `ClientSend` lets the client send any header, frame or end of stream, up to `MaxClientMsgs`.

`builder` is the constant choice of `ServiceFactory` builder (`Builders`). `ServiceFactory::state(f)` keeps `f` as the state service, and its call may fail. `ServiceFactory::sasl` and `ServiceFactory::service` install `(|()| ok(()))`, which always succeeds. `StateOutcomes` gives the possible results of the state service's call for that builder. `Init` chooses the builder, and no action changes it.

### TransferChannel (abstract receiving link)

This is what the application reading a receiver link's Stream is promised. The peer's Transfers, numbered in send order, come out in that order, each at most once. A Transfer in transit is eventually yielded (`WF(Deliver)`). `LossySpec` also allows `Lose`: a Transfer in transit disappears.

Both receiver modules instantiate it with this refinement mapping:
- `chan <- queue \o to_link`: the Transfers in the link's queue, followed by those still on the wire;
- `out <- consumed`;
- `n <- sent`.

How each module uses it:
- `ImplementsLossyChannel == Channel!LossySpec` in ReceiverLink is a property of `receiver_pass`. A Transfer rejected by the credit check (`Close("limit")`) is a `Lose`.
- LegacyReceiverLink has no credit check, so nothing is lost, and it refines `Channel!Spec`. No run checks that as a property, because it would repeat `InArrivalOrder` (safety) and `TransfersDelivered` (liveness). Its safety part is the theorem `LegacyRefinesChannel`.

Each link step maps to one of three things:
- a `Send`, when the peer sends;
- a `Deliver`, when `Poll` pops the queue;
- a stutter, for everything else. `HandleTransfer` moves a Transfer from `to_link` to the end of `queue`, so the concatenation does not change.

TLC checks both refinements, liveness included, on the passing runs. The safety part of each (`Channel!SafeSpec` and `Channel!LossySafeSpec`: `Init` and `[][Next]_vars` without the fairness) is proved for every value of the constants. See Proofs.

### Variant (`types/variant.rs`)

A Variant is a record `[tag, val]`. An integer variant's payload ranges over its Rust type, `IntRange(tag)`, of width `Bits(tag)`. `Option` is a set of at most one element.

The conversions are:
- `EqStr` for `PartialEq<str>`;
- `AsStr` for `as_str`;
- `AsLong` for `as_long`.

`CastSigned(x, half)` is Rust's `as` cast to a signed type with `2 * half` values. It keeps the low bits and reads them as two's complement. The module has no state and no run. TLC cannot enumerate 64-bit ranges, so it is checked by TLAPS only.

## Runs

| Run | Checks | Shows |
|---|---|---|
| sender_pass | TypeOK, InSendOrder, PendingOnlyWhenStarved, PromiseAccounted, FailureResolvesAll | Sends leave in call order. Messages wait only when credit is 0. A promise is pending exactly while the queue or the unsettled map holds its message. The step that fails the link (detach or `set_error`) leaves no promise pending, including those of unsettled deliveries. |
| sender_credit_overgrant | CreditWithinGrant (violated) | A repeated Flow makes `apply_flow` double the credit (link.rs:127). |
| sender_detached_send | DetachedHoldsNoQueuedSends (violated) | `send` after detach queues a message whose promise never resolves (link.rs:138). |
| receiver_pass | TypeOK, LimitDetachOnlyForOverrun, TransfersDelivered, ImplementsLossyChannel | Transfer-limit detaches happen only after real overruns, and no wakeup is lost. The link implements a lossy FIFO: it never reorders or repeats a Transfer. |
| receiver_stream_end | StreamEndsAfterDetach (violated) | `closed` is never set, so the stream never ends after detach, and repeated closes detach again. |
| receiver_credit_wrap | LimitDetachOnlyForOverrun (violated, Width 2) | `credit += n` wraps, and a compliant Transfer is then rejected. |
| legacy_pass | TypeOK, InArrivalOrder, TransfersDelivered | The Stream yields Transfers in arrival order, with none lost, and every queued Transfer reaches the reader. |
| legacy_overrun | OverrunRejected (violated) | Transfers beyond credit reach the application. |
| legacy_flow_dc | FlowCarriesDeliveryCount (violated) | `set_flow` announces a stale delivery-count of 0. After `FixedCredit` Transfers, a new Flow grants nothing. |
| heartbeat_pass | TypeOK, NoEarlyClose, HeartbeatInTime | The timer never closes early, and keeps the wire busy within `remote`. |
| server_pass | TypeOK, RepliesMatchRequests, DispatchOnlyWhenEstablished | Each reply answers the message at its position. The Dispatcher starts only after a full plain or SASL exchange with one successful factory call. |
| server_service_close | ServiceErrorClosed (violated) | After the server's Open, a factory failure drops the stream with no Close (factory.rs:122). |

Each property of a passing run has a mutant in `PROJECT.json`. Each mutant changes a mapped definition the way a plausible bug would; examples are a dropped guard, a pop from the wrong end, and a late wakeup. The check confirms that TLC finds the property violated.

### Bounds

- **SenderLink: a few messages, flows and grants, with a small Width.** This is enough to queue behind exhausted credit, drain through several Flows, and wrap the counters.
- **ReceiverLink: Width 3, two grants of at most 2, four Transfers and one overrun.** The wrap run uses Width 2 with three grants, the smallest instance where `credit` wraps.
- **LegacyReceiverLink: credit 2, three calls and four Transfers.** The peer can exhaust the fixed credit and then see a second `set_flow`.
- **Heartbeat: every pair of local in {0,2,3} and remote in {None,1,2} up to time 7.** This covers local below, equal to and above remote, the zero timeout, and several re-arms.
- **ServerHandshake: up to five client messages.** The SASL exchange needs four, plus one message more, over seven message kinds.

### Fairness

The liveness properties assume only two things:
- `WF(Poll)`: a woken task is polled by the executor.
- `WF(HandleTransfer)`: the session dispatches every inbound Transfer to its link.

The application, the peer and time get no fairness. Heartbeat and ServerHandshake check only safety, and their runs disable deadlock checking. The Heartbeat run stops at the time bound. The handshake stops in `dispatch` or `failed`, or when the client has nothing more to send.

## Proofs

### `SenderLink_proofs.tla`

These theorems are proved for every `Width`, `MaxMsgs`, `MaxCredit` and `MaxFlows` that satisfy `SenderAssumption`. Together they cover every property of the `sender_pass` run.

- **`TypeCorrect`: `Spec => []TypeOK`.** TypeOK is split into `TypeArith` (counters and sequences) and `TypeBool` (the two flags). SMT handles the first and Zenon the second. Each half is shown preserved by every action in `NextTypeArith` and `NextTypeBool`.
- **`StarvedQueue`: `Spec => []PendingOnlyWhenStarved`.** The invariant is not inductive alone, because apply_flow's arithmetic needs the counter ranges. The inductive invariant is `StarvedInv == TypeArith /\ TypeBool /\ PendingOnlyWhenStarved`. The key lemma is `ApplyFlowStarved`:
  - apply_flow drains only when the credit was 0;
  - it stops with the queue empty or the credit spent;
  - on the `delta = 0` branch it doubles a zero credit to zero.
- **`SenderInSendOrder`: `Spec => []InSendOrder`.** The sent stream is `received`, then the messages on the wire (`WireMsgs`), then `pending_transfers`, and it is ascending. The inductive invariant is `OrderInv == StarvedInv /\ StreamOK`, where `StreamOK` adds `StreamBelowSends`: every message of the stream is at most `sends`. Both additions are needed:
  - `send()` with credit puts message `sends + 1` on the wire, in front of the queue, so the queue must be empty (`PendingOnlyWhenStarved`);
  - the new message must lie above every message already in the stream (`StreamBelowSends`).

  One lemma per action shows what it does to the stream:
  - `SendQueuedOrder` and `SendNowOrder`: it is appended to;
  - `ApplyFlowOrder` (drain from the queue to the wire) and `PeerReceiveMsgs` (wire to `received`): it is unchanged;
  - `FailLinkOrder`: a prefix of it is kept.
- **`SenderPromiseAccounted`: `Spec => []PromiseAccounted`.** A promise is `"pending"` exactly when its message is queued or has an unsettled delivery. The inductive invariant `PInv` adds to `OrderInv`:
  - `UnsettledBelowSends`;
  - `UnsettledOnce`: one unsettled delivery per message;
  - `PendingNotUnsettled`: no message is both queued and unsettled;
  - `PromiseNoneAbove`: messages not yet sent have no promise.

  Without `UnsettledOnce` and `PendingNotUnsettled`, a Disposition that settles one delivery could leave the message held elsewhere while its promise is already settled. apply_flow preserves both because the queue is ascending (`PendingFacts`, from `StreamOK`): the messages it drains are distinct from each other and from what stays queued. So the order proof is a step of this one.
- **`SenderFailureResolvesAll`: `Spec => FailureResolvesAll`**, the action property. It follows from `PInv` (`NextFailStep`):
  - only `detached` and `set_error` set the error;
  - they fail every message the link holds (`Held`), queued or unsettled;
  - by `PromiseAccounted`, those are exactly the messages whose promises are `"pending"`.

  `PromiseAccounted` alone would not catch a session that leaves the unsettled promises waiting: they would stay pending and held. The mutant `FailLinkPendingOnly` does this, and `FailureResolvesAll` catches it.

TLC checked `OrderInv` and `PInv` as invariants of the `SenderLink.cfg` instance (363,232 states) before they were proved.

How the proofs are built:
- `ApplyFlowShape` extracts `apply_flow`'s effect in terms of three named quantities: `FlowDelta`, `FlowCredit` and `FlowDrain`.
- `ModRange` bounds `x % 2^Width`.
- These two lemmas keep the modular arithmetic within SMT's reach.
- `SendTransfersMsgs` says what `Session::send_transfer` does to `WireMsgs`. `DrainParts` and `ChannelLemmas!SplitAt` split the queue at the number of messages drained.

### `ReceiverLink_proofs.tla`

- **`ReceiverTypeCorrect`: `Spec => []TypeOK`**, for every width and bound that satisfy `ReceiverAssumption`. TypeOK is split three ways (`TypeSeqs`, `TypeCounters`, `TypeFlags`), and there is one typing lemma per action.
- **`ReceiverCreditInvariant`: `NoCreditWrap => (Spec => []RInv)`.**
- **`ReceiverLimitDetach`: `NoCreditWrap => (Spec => []LimitDetachOnlyForOverrun)`.**

  `NoCreditWrap == MaxGrant * MaxGrants < 2^Width` says the credit the application grants never wraps the u32. The hypothesis is necessary: the `receiver_credit_wrap` run breaks `LimitDetachOnlyForOverrun` when it fails. The passing run's constants satisfy it (2 * 2 < 8).

  `LimitDetachOnlyForOverrun` is not inductive. The inductive invariant `RInv` says that, while the peer has not overrun, the link and a compliant peer agree on the credit (`CreditAccounting`):
  - the Transfers in flight plus the peer's credit are covered by the link's credit (`CreditCovers`);
  - the peer's delivery count is the link's plus the Transfers in flight, modulo 2^Width (`PeerCountAgrees`);
  - every Flow the peer has not read grants at most the link's credit plus what the link counted since the Flow was sent (`FlowsBounded`, with the serial-number distance `Since`).

  With this, `handle_transfer` sees a zero credit only if the peer overran. The arithmetic is modulo 2^Width: `ModShift`, `ModAdd`, `ModSub` and the other `Mod*` lemmas, and `SinceShift` for the distance. `GrantBound` keeps the product `MaxGrant * grants` opaque to SMT.
- **`ReceiverRefinesLossyChannel`: `Spec => Channel!LossySafeSpec`**, under the refinement mapping of `TransferChannel`.
  - `NextRefines` maps each step to `Send`, `Deliver`, `Lose` or a stutter.
  - `handle_transfer` without credit drops the head of `to_link`. `RefuseIsLose` shows that this is `Lose` at position `Len(queue) + 1` of the channel (`ChannelLemmas!DropHead`).

### `LegacyReceiverLink_proofs.tla`

These theorems are proved for every `FixedCredit`, `MaxCalls`, `MaxTransfers` and `MaxOverruns` that satisfy `LegacyAssumption`:
- `LegacyInvariant`: `Spec => []LInv`;
- `LegacyTypeCorrect`: `Spec => []TypeOK`;
- `LegacyArrivalOrder`: `Spec => []InArrivalOrder`;
- `LegacyRefinesChannel`: `Spec => Channel!SafeSpec`.

`LInv` adds two counting facts to TypeOK and `InArrivalOrder`:
- `peer_dc = sent`;
- `handled = Len(consumed) + Len(queue)`.

The Flows the peer reads are computed from these. The order step uses `MoveHead` and `PopFront` (handle_transfer and poll) and `ConcatAppend` (the peer's send). `NextRefines` maps the same steps to `Channel!Next`, which has no `Lose`.

### `ChannelLemmas.tla`

Lemmas on the concatenations the link proofs reason about, over any element set:
- `ConcatAppend`, `MoveHead`, `PopFront` and `DropHead`;
- `SplitAt`, for splitting a sequence after k elements;
- `RangeIndex`, `RangeAppend` and `RangeSplit`;
- `SerialSeq` and `AppendSerial`, for the sequence `1 .. k`.

It is extended by the sender and both receiver proof modules.

### `Heartbeat_proofs.tla`

These theorems are proved for every `LocalChoices`, `RemoteChoices`, `MaxTime` and `MaxQueued` that satisfy `HeartbeatAssumption`:
- `HeartbeatTypeCorrect`: `Spec => []TypeOK`;
- `NoCloseBeforeTimeout`: `Spec => []NoEarlyClose`;
- `HeartbeatsInTime`: `Spec => []HeartbeatInTime`.

All three follow from the inductive invariant `HInv`. Its conjuncts:
- `expire_local` equals the ghost `last_in`. With a remote timeout, `expire_remote` equals `last_out`.
- Both expiry instants lie in the past.
- `now <= deadline`: time never passes a due Delay.
- With a remote timeout, `deadline <= expire_remote + remote`.

`HeartbeatInTime` alone is not inductive, because it says nothing about the deadline that stops `Tick`. The step that needs care is `poll`'s re-arm (`PollHInv`). `poll` runs at `now = deadline`, and `next_expire` is neither before `now` nor after the remote expiry. So the new deadline keeps both bounds. This holds even though the expiry used is stale: the heartbeat it asks for is not written yet.

### `ServerHandshake_proofs.tla`

These theorems are proved for every `MaxClientMsgs` that satisfies `HandshakeAssumption`, and for either builder:
- `HandshakeRepliesMatch`: `Spec => []RepliesMatchRequests`;
- `HandshakeDispatchSafe`: `Spec => []DispatchOnlyWhenEstablished`;
- `HandshakeTypeCorrect`: `Spec => []TypeOK`.

All three follow from `HandshakeInvariant`: `Spec => []HSInv`. Neither safety property is inductive alone. `RepliesMatchRequests` does not say the server has answered everything it read, so a later reply could land at the wrong position. `DispatchOnlyWhenEstablished` says nothing until `dispatch`. `HSInv` adds two things:
- outside `failed`, the replies are exactly `Replies(consumed)`, one reply per message read;
- for each position of the future chain, the history read so far and the factory calls made so far. For example, `read_open2` has read `<<hdr_sasl, sasl_init, hdr_amqp>>`, and the SASL factory call has succeeded.

TLC checked `HSInv` as an invariant of the passing run before the proof.

The proof has one lemma per action (`ReadProtocolHS` to `ClientSendHS`), with two generic steps:
- `FailStep`: every error branch writes nothing more and reads at most one more message, so the replies still match;
- `ReplyStep`: a branch that reads `m` and writes `ReplyTo(m)` keeps `s2c = Replies(consumed)`.

`Histories` writes out the literal histories through the sequence extensionality lemma `SeqExt`, because the provers do not equate `Append(<<a, b>>, c)` with `<<a, b, c>>` directly. A CASE of the model takes any arm whose guard holds, so the open_connection steps expand `Header` to rule out the `m \in Header` arm.

### `Variant_proofs.tla`

These theorems are proved for every width: the width is a parameter `half`, with `2 * half` values in the type.
- `CastKeepsSigned`: the cast keeps every value of the signed type.
- `CastWrapsUnsigned`: an unsigned value of at least `half` comes out as itself less `2 * half`, which is negative.
- `CastInSigned`: whatever the integer, the result lies in the signed range.

`AsLongOfLong` and `AsLongUlongNegative` apply these to `as_long`, through the lemma `IntPayload`: an integer variant's payload lies in its `IntRange`. They show two things:
- `as_long` of a Long is the value itself;
- `as_long` of a Ulong of at least 2^63 is `Some` of a negative number, where a checked conversion would give `None` (variant.rs:133).

The provers cannot evaluate `2^63`, so `Half("Long") \in Nat \ {0}` is a hypothesis of these two theorems.

These stay with TLC:
- the liveness properties: `TransfersDelivered` in both receiver links, and `ImplementsLossyChannel` as a whole, whose `WF_vars(Deliver)` part is liveness. TLAPS cannot reason about `ENABLED` or fairness here, so only the safety parts of the refinements are proved;
- the properties of the violation runs, which TLC shows false.

## Not modelled

- The session, connection and dispatcher, whose code is not in this tree. Only the parts the links need are modelled, from the spec: Transfer emission, Disposition routing, and Flow and Detach delivery.
- `Sasl::new`'s SASL exchange, which is one step.
- `client/connection.rs`. Its `keepalive + 5` u16 overflow is listed as a hazard.
- The rest of `types/variant.rs`: `as_bytes_str`, the `From` impls, and the `unimplemented!` Hash of VariantMap, which is listed as a hazard.
- The builders of `server/handshake.rs`, which only build a value.
- Frame encoding and the layout of messages. A message is an index, a frame a small record.
