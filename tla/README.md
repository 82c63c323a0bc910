# Verification of the AXTP TypeScript runtime

TLA+ models of `src/src` (the runtime of `@axtp/ts-sdk`) and of the definitions
its generators accept (`src/devtools/generators`), the TLC runs that check them
and the theorems TLAPS proves about them. Paths below are relative to `src/` of
the repository unless they start with `src/`.

    tlc -workers 2 -config MCAxtpClient.cfg MCAxtpClient   # one of the runs
    tlapm AxtpClientProofs.tla                             # one of the proofs

`PROJECT.json` lists the runs, the source lines each definition stands for, the
hazards the properties are aimed at, a mutant of the code for every property
(the definitions marked "Mutant of ..." in the modules), and the findings.

## 1. The system

AXTP is a request/response, event and streaming protocol over a byte stream
(framed profile, TCP) or a message stream (unframed profile, WebSocket). One
connection is

    transport -> core.inbound -> CoreEvents -> endpoint -> broker / streams
    application -> endpoint -> core.outbound -> transport

and an SDK facade owns one endpoint after another (client) or many at a time
(server). Everything runs in one JavaScript thread: what is not atomic is what
lies on two sides of an `await`, a timer, a stream's queue or the network.

| component | state | operations | with whom it interacts | what is hard | what makes it correct |
|---|---|---|---|---|---|
| Client life cycle (`sdk/client.ts`, `endpoint/reconnect.ts`) | client state, endpoint, first-ready promise, handshake timer; coordinator: active, attempts, backoff timer | connect, tryOpen, spawnEndpoint, onEndpointReady/Close, onFatalHandshakeError, handshake timeout, close; start, stop, schedule, attempt | transport factory, endpoint events, timers | four ways to fail, each starting the coordinator; dials in flight over close(); code after `await`; listeners that close the client inside a handler | one connection at a time; never waiting for nothing; closed is final, and quiet but for what such a listener leaves behind; connect() and every loss settle |
| Client delivery (`sdk/client.ts` 361-581, 646-693) | call queue, flushing flag, waiters, event outbox | callRaw with fail-fast / wait-ready / queue, enqueueCall, flushCallQueue, rejectCallQueue, waitForUsable; emitRaw, enqueueEvent, flushOutbox | life cycle, endpoint.call and emit | a flush loop that awaits answers while the connection changes; listeners that issue more | every caller is settled, once; nothing is written twice; a ready client does not sit on its queues |
| Pending calls (`core/pendingCalls.ts`) | Map id -> entry, next id, timers | request, resolve, rejectAll, cancel | core, timers | late and repeated answers, ids that wrap | a caller gets the answer to its own call, once, or a rejection |
| Core (`core/core.ts`, `runtimeGate.ts`) | gate, inbound/outbound queues | routeBytes, handleRpc, call, emit, sendRpc | wire, control session, handshake, endpoint | the core is ahead of its endpoint | nothing of a peer in session is refused; the broker runs on a ready endpoint |
| Control session (`core/controlSession.ts`) | pending OPEN, peer parameters, next control id | sendOpen, handleOpen, handleAccept, handleClose, heartbeat | core, frame codec | both ends change the frame size at different moments | one frame size, one interval |
| Handshake (`core/handshake.ts`) | sid, masks | startHello, handleHello/Identify/Identified | core, gate | a sid is mixed of two seeds | one non-zero sid on both ends, for life |
| Endpoint (`endpoint/endpoint.ts`) | life cycle, heartbeat, pipes | start, wire, consume, onCoreEvent, close, call, emit | core, broker, streams, transport, facade | close from five causes | closed once, everything pending rejected |
| Heartbeat (`endpoint/timers.ts`) | two timers | start, reset, stop | endpoint | an acknowledgement racing the timeout | a peer that answers is kept, a dead one is dropped |
| Streams (`endpoint/stream*.ts`) | registry of contexts, next id | openStream, wrapStreamHandler, send, close, onData, abortAll | core.call, endpoint | ids adopted after an `await`; close is local | a chunk reaches its own stream, in order; teardown releases all |
| Frame codec (`protocol/codec/frame.ts`, `core/wire/*`) | receive buffer, assemblies, message id | fragment, parseLoop, reassemble, eviction | core | ids that wrap, 256 unfinished assemblies, expiry, damage | what is reassembled is what was sent |
| Message codecs (`protocol/codec/*`, `io/*`) | none | encode and decode CONTROL, RPC, STREAM | core | parameters of newer peers, messages cut short | a message means to its receiver what its sender meant |
| Broker, router (`broker/*`) | handler tables of two scopes | dispatchRequest, dispatchEvent, setMethod, disposers | endpoint, server, application | a handler answers at any later moment; disposers of replaced handlers | one response per request; the latest handler serves |
| Server (`sdk/server.ts`) | entries, next id, closed | listen, adopt, emit, call, close | transport server, endpoints | close() against endpoints not ready yet | entries, notices and endpoints agree; close() ends |
| Transports (`transport/*`) | socket, two web streams | connect, enqueue, write, close, terminate | network, endpoint's pipes | messages and ends arriving while the endpoint closes | in order, nothing lost before the end of a peer that closes, nothing left open |
| EventStream (`types/events.ts`) | listeners, queues | emit, subscribe, unsubscribe, close | all of the above | calls from inside a listener | who stays subscribed gets each value once |
| Registry, event masks (`types/registry.ts`) | generated tables | lookups, computeEventMasks, isEventSubscribed | client, application | bits, bytes and domains | exactly the subscribed events |
| Diagnostics, debug server (`diagnostics.ts`, `debug.ts`) | ring buffer, followers, HTTP server | emitDiagnostic, push, entries, stats, SSE, listen, close | core, broker, client | listen and close overlapping; entries JSON cannot express | followers miss nothing and get nothing twice |
| Generators (`src/devtools/generators`) | none | validateSpec, build, validateProtocolDefinition, emitters | YAML files | rules of two validators that must add up | what is accepted is usable |
| Generated code, conformance, playground, scripts | - | - | - | - | see "Not modelled" |

## 2. The modules

Each action is one run-to-completion turn: a timer callback, one completion of
I/O, one decoded message, one CoreEvent, one call of the public API, or one
promise continuation. A continuation that runs *some microtasks later* is an
action of its own only where the code reads or writes shared state after it;
in between, other continuations and already decoded messages may run, but
timers and I/O may not (they are macrotasks), and the guards say so
(`Macrotask`, `MicrotasksDone`).

### AxtpClient - life cycle and reconnect
The client, its `ReconnectCoordinator`, and the life cycle of the endpoints it
spawns. `connectCall` is the promise of connect(): `waiting` while awaitReady
has not settled, `resuming` between the ready event and the code after the
`await`, then `resolved` or `rejected`. `opening` is tryOpen's
transport.connect() in flight, `attempting` counts the coordinator's.
Fragments are named after the methods (`SetState`, `FailReady`, `Stop`,
`Schedule`, `StartReconnect`, `Spawn`, `OnEndpointClose`); the actions are the
public calls, the settling of a dial, the timers and the endpoint's events.
Delays and jitter are abstracted: an armed timer may fire at any later moment.
Options are chosen in `Init` and never change. Without a limit of attempts the
counter is not tracked (it feeds only the delay and the event's payload).

`EventStream.emit` is synchronous, so a listener may call close() in the middle
of a handler, which then goes on. Where this differs from a close() just before
or just after the handler, the action has a case for it and `closedIn` names
the place: `ClosedInConnect` (in onStateChange("connecting") of connect(),
before there is a first-ready promise to fail), `ClosedInSpawn` (before the
handshake timer is armed) and `ClosedInStart` (in onError, onDisconnect or
onStateChange before `coordinator.start()`). The coordinator that the last of
them starts belongs to a closed client: it dials until a dial succeeds, whose
transport is then closed, or until its attempts are exhausted, and it never
spawns an endpoint. `ClosedIsQuiet` and `BudgetAndEnd` say what is left to a
closed client in each case; finding `closed_dials` is the consequence. Sinks of
diagnostics are assumed not to call the client.

### ClientDelivery - calls and events of the client
EXTENDS AxtpClient; every life cycle step is taken together with what it does
to the calls and events (`D...` actions), so no step of the client exists
without its effect on the queues. A call is `waiting` (in waitForUsable),
`granted` (its continuation has an endpoint and is about to run), `queued`,
`inflight` or settled; an event is in the `outbox` or settled.
`flushItem`/`flushAnswer` are the local state of flushCallQueue's loop. The
answer of a written call comes, fails, or times out at any moment. Calls and
events share one numbering, so that their order on the wire is a property.
What a listener does to the life cycle is AxtpClient's; that listeners also
issue calls and events is modelled by issuing them before or after the step.

### PendingCalls and CallContract
The table of outgoing calls with wrapping ids; `CallContract` is what the
issuer of a call is promised and does not know ids, timers or tables. The
contract ends (`void`) when an id is given out while a message, an entry or a
timer still uses it: 2^32 - 1 calls later in the code, two in the run.

### Session - two endpoints on one connection
Link opening (OPEN/ACCEPT), session handshake (Hello/Identify/Identified),
gate, requests, responses, events, closing and cut connections, in the framed
and the unframed profile, with the logical roles (who sends Hello) independent
of the physical ones. A core decodes and answers a message in one turn; its
endpoint takes CoreEvents from a queue, so that the core is ahead. Seeds and
sids are sets of one bits and are mixed as in `generateSid`; `maxFrameSize`
travels in 16 bits as in `writeU16`; a message carries the length of its
longest frame, which the peer's decoder checks.

### Streams - data streams between two endpoints in session
openStream, the wrapped stream handler, allocation and adoption of ids, send,
close and abortAll on both peers, either of which may open streams. A
`Stream` object and its context in the registry are separate state
(`streamId`, `isClosed` against `registry`): that they agree is a property.
`resuming` and `dispatched` are the two continuations that run after the
endpoint may have closed. A chunk carries, for the properties only, which
Stream sent it. An id names one stream as long as `ambiguous` is FALSE: one
side opens and ids have not wrapped.

### Server - the SDK server, its connections and its handlers
`AxtpServer` over a TCP, WebSocket or in-memory server: listening, adoption,
registration when an endpoint is ready, ends from either side, close(), and
the handler tables of the server and of each endpoint's broker. `told` is what
an observer of onConnect and onDisconnect has seen; another listener of
onConnect may close the endpoint it is told of (`ReadyAndClosed`). `left` are
the endpoints that were still connecting when close() ran, which it does not
close. A request's handler is looked up when it is dispatched and runs later.

### Transport - one connection of the three transports
The socket or the in-memory pair, the readable and writable made of it, the
endpoint's two pipes and the signal that aborts them, against a peer that
sends, closes or is cut off. `network` is what is underway to this end, `chunks`
the readable's queue, `outbox` what the core has encoded and no pipe has read.
What an aborted pipe does with a chunk it has already read is left open (it may
be written or not); the readable is cancelled. `threw` is an exception in a
listener of the socket. A connection ends by `End` (the peer closes), `Reset`
(it is cut, and any number of the last messages underway are lost with it) or
`BadFrame` (a WebSocket frame ws cannot read). A cut socket errors its
readable; a cut WebSocket has only its `close` event (code 1006), and
`nodeWsTransport.ts` 43-48 closes the readable as if the peer had closed
(`EndsCleanly`). "closed by peer" therefore proves that everything arrived
unless the connection is a WebSocket that was cut; `EndIsLast` says just this.
What the peer has is what this end has written to the socket (`got`).

### Keepalive - the heartbeat
Discrete time. A tick sends a probe and is not moved by answers; an answer
restarts only the timeout; several due timers fire in any order. The peer
answers within `MaxRtt` or has died; the outbound pipe may break on a message
that cannot be encoded. The module assumes `interval + MaxRtt < timeout`,
which is what `max(2 * interval, 10000)` is for.

### EventStream
One stack: `at` is how far notifyListeners has come, `queued` what each nested
flushPendingEmits still holds. Between two calls of listeners, that is inside
one, the application may subscribe, unsubscribe, emit and close.

### Framing - one direction of a framed connection
Fragmenter, encoder, decoder and reassembler over a stream of abstract bytes
(two for the magic, one each for the header fields, a fragment and the crc),
which arrives in pieces of any length. A payload may itself be a frame. An
element may be damaged: it becomes noise, or a header claims more payload than
there is. `arrived`, `frames`, `causes` and the `msg` of a frame exist for the
properties only. `causes` records why a message may be lost or mixed though
nothing was damaged: its id came round while in use, its assembly expired, or
the limit refused it. The limit of 256 assemblies is 1 in the run, 65535 ids
are 2; maxMessageSize counts fragments.

### Codec - CONTROL, STREAM and JSON-RPC messages
Operators, one per function of the codecs, and one variable that holds a
sample. A byte has 32 values in the run, so that 16- and 32-bit fields have
their edges at 1023 and 2^20 - 1, and 31 is the marker 0xff. JSON values are
pairs of type and content. For CONTROL the property reads what was written with
entries of a newer version put anywhere between, and every prefix of it; for
RPC every message with one member missing or of another type.

### Debug - diagnostics and the debug server
`RpcEntry`, `DispatchEntry` and their siblings are what the runtime logs. The
collector's ring, its filters and counts, followers over server-sent events,
and a server that is opened, closed and opened again. Entries are numbered;
`plain` says whether JSON can express the data (only what the application is
about to send may not be). `crashed` is a rejection nobody handles, which ends
a node process.

### SourceDefinitions, ProtocolDefinition, Definitions
The generators' way from YAML to the runtime, as operators:
`SourceDefinitions` is validateSpec and the domain registry,
`ProtocolDefinition` the build, validateProtocolDefinition and the comparison
with the documents, `Definitions` what the TypeScript emitter makes of it and
the runtime's lookups and event masks. Its one action, `Edit`, changes the
definition files item by item; the properties relate what both validators
accept to what the emitted code can do. `IsSource` is the shape the loaders
give a definition; `MCDefinitions` holds the one the edits start from.

### MCParts
Framing, Keepalive, EventStream, Codec, Debug, Transport and Definitions share
no state. MCParts chooses one of them in the first state and lets only that one
move, so that one run checks seven small modules. `PartsTypeOK` joins their
type invariants, `MeaningKept` what codecs and event masks promise. MCRpc does
the same with PendingCalls and Server, the caller's and the server's side.

### AxtpClientProofs, ClientDeliveryProofs, PendingCallsProofs, SessionProofs, ServerProofs, StreamsProofs, LinkProofs, PartsProofs
The theorems about the module of the same name, with the inductive invariant
and the lemmas they rest on (section 5). ClientDeliveryProofs extends
AxtpClientProofs as ClientDelivery extends AxtpClient. LinkProofs is about what
lies between a core and its peer (Framing, Keepalive, Transport), PartsProofs
about the parts that are not (EventStream, Debug, Definitions). `Subsequences`
holds the removal and filtering of list items that EventStream and Debug write
by position: the definition of SelectSeq recurses, and the provers know nothing of it. The other
MC modules only give constants their values.

## 3. The runs

| run | question | states | bounds, and why they are enough |
|---|---|---|---|
| `client` | is the life cycle safe and live under all 48 option combinations, with listeners that close the client? | 9.5 k | 3 endpoint objects: one live, one the client may still point at, one to spawn (a closed object no longer referred to stands for a fresh one, so the number of reconnects is not bounded); attempts 0, 2 and unlimited |
| `delivery` | is any call or event lost, stalled, doubled or kept waiting? | 1 080 k | 3 calls or events (one flushed, one queued, one issued), 2 endpoints, one key; 4 queue options, which have sizes 0, 1 and 2 and every overflow policy of queue and outbox between them; 1 attempt, so that giving up is reached |
| `rpc` | calls: does the table implement the contract, does every call settle? server: do entries, notices and handlers agree, does close() return? | 298 k | calls (114 k): 4 calls over 2 ids: an id is given out up to two times too early, with entries, timers and messages of all ages; server (185 k): 2 connections (one to close while another connects), 2 registrations in 3 scopes (one may replace the other), 1 request, all three transports |
| `session` | do two peers agree, and does everything sent in session get through? | 72 k | 7 set-ups: both profiles, both directions, equal roles, sizes on either side of each other, 65536 (wraps to 0), 20 (too small for ACCEPT); 2 messages of each side; 2-bit seeds, which can cancel out |
| `streams` | do contexts and Stream objects agree, do chunks reach their own stream in order? | 457 k | 2 streams, both opened by the client or one by each side; 2 ids; 3 chunks in all, so that a gap is possible; the two calls are interchangeable (symmetry) |
| `parts` | the seven independent modules, below | 476 k | see below |
| `closed_queue`, `wait_ready`, `connect_timeout`, `closed_dials`, `stream_teardown`, `late_message` | the statements of the documentation that the code does not keep (section 6) | - | as `delivery`, `client`, `streams` and `parts` |

The parts of `parts`:

| part | question | states | bounds |
|---|---|---|---|
| framing | is a message ever mixed, repeated, reordered, or lost for no reason? | 169 k | 2 messages of 1, 2 or 3 frames (3 is too long), 2 ids and a message that cannot be cut, so that an id comes round; 1 assembly; every way to cut the stream; 1 damaged element |
| keepalive | is a live peer kept and a dead one dropped? | 9 k | intervals on both sides of the floor of the timeout, answers up to 3 units late, 4 control ids |
| events | does a subscriber get each value once? | 44 k | 3 listeners, 3 values: two nested emits |
| codec | does a message keep its meaning? | 553 | the samples: every message kind, 9 unknown entries in 3 places, values at the edges of their widths |
| debug | do followers miss nothing, do counts and lists agree? | 165 k | 2 interchangeable followers, a ring of 2, 3 entries, 2 servers |
| transport | in order, nothing lost before the end of a peer that closes, nothing left open? | 41 k | 3 text messages and a binary one of the peer, 2 messages of the endpoint besides OPEN, all three kinds |
| definitions | is what the validators accept usable, is a client sent what it subscribed? | 47 k | 3 edits out of 41 items and 11 meta files; masks of 2-bit bytes, so that 4 bits need two |

What the properties say, and at which hazard each is aimed, is in the comments
of the modules and in `PROJECT.json`. In short:

* client: `OneConnection`, `NeverWedged`, `HandshakeGuarded`, `ClosedIsQuiet`,
  `ReadyServes`, `BudgetAndEnd` (steps), `ConnectSettles`, `LossResolved`
  (liveness).
* delivery: `NoLostCaller`, `NoStalledQueue`, `WrittenOnce` (steps),
  `QueuedCallSettles` (liveness).
* rpc, calls: `TableAgrees`, `AnsweredByOwn`, `ImplementsContract` (refinement),
  `EveryCallSettles` (liveness).
* session: `PeersAgree` (sid, frame size, interval), `BusinessServed` (nothing
  refused, in order, on a ready endpoint), `NegotiatedOnce` (steps),
  `HandshakeCompletes` (liveness).
* streams: `RegistryAgrees`, `ChunksArrive`.
* rpc, server: `EntriesAgree`, `LatestServes`, `CloseReturns` (liveness).
* parts: `ChunkingIrrelevant`, `MessagesArrive`, `HeartbeatTells`,
  `DeliveredOnce`, `MeaningKept` (`MessagesUnderstood` and `MasksExact`),
  `TelemetryComplete`, `TransportDelivers`, `DefinitionsServe`.

Some hazards have no property that would catch them, and `PROJECT.json` says
so at each: reused request ids (the contract is `void` then), a peer that never
becomes ready and never leaves while close() waits (`CloseReturns` asks that
peers still connecting leave), and an outbound pipe that broke without anybody
being told (`HeartbeatTells` permits the timeout and does not ask for it). Of
streams whose ids collide only `RegistryAgrees` speaks.

Deadlock is not checked: a closed client or server, a table of settled calls
and a closed connection really stop, and the parts stop when all is sent and
read. Some properties carry a precondition, always one of the code's own
options or a bound named in the module: `Limited` (a finite handshake timeout
and a finite number of attempts), `~reused`, `~ambiguous`,
`"reused" \notin causes`, `Roomy` (both frame size limits hold a whole ACCEPT;
15 to 35 are legal settings under which it does not fit), and
`~options.connectTimeout` in `QueuedCallSettles` (finding `connect_timeout` is
the reason).

## 4. Fairness

Weak fairness only, and only of what the runtime itself drives: a promise
continuation runs, an armed timer fires, a transport's connect() settles one
way or the other (both in one WF, so that neither outcome is promised), a
written call is answered or rejected (its timer is PendingCalls', where this
is checked from the timers alone). In Session a started connection is read and
its end is noticed. In Server a connection that has ended is reported to its
endpoint, a WebSocket's closing handshake ends (ws arms a timer for it) and
node's servers close when their last connection has ended; nothing makes a peer
leave, which is why `CloseReturns` asks for it. Nothing is assumed of a peer in
AxtpClient and PendingCalls: it may never answer. The network need not stay up.
Keepalive has no fairness: its clock does not pass a timer that is due, which
makes "dropped in time" an invariant.

## 5. What is proved

Each theorem module has an inductive invariant that is stronger than the
properties the runs check, the proof that every action keeps it, and the
theorems that follow. TLC checked each invariant over all states of the
module's run before it was proved.

| module | for all | theorems | the invariant, and why the properties alone do not do |
|---|---|---|---|
| AxtpClientProofs | endpoint objects, options, limits of attempts | `TypeOK`, `OneConnection`, `NeverWedged`, `HandshakeGuarded`, `ClosedIsQuiet`, `ReadyServes`, action property `BudgetAndEnd`, all with listeners that close the client | a retry timer fires into no second dial because the coordinator is active exactly while it has a timer or a dial of its own (`CoordinatorAgrees`) |
| ClientDeliveryProofs | calls and events, queue sizes, policies | `DSpec => Spec` (so all theorems above hold under delivery), `DeliveryTypeOK`, `NoLostCaller`, `NoStalledQueue`, action property `WrittenOnce` | `NoLostCaller` speaks of the queue as a whole; `CallsInv` of items: each holds its own caller, none shares one, only the item being flushed may have been written |
| PendingCallsProofs | calls, size of the request id | `TypeOK`, `TableAgrees`, `AnsweredByOwn`, the refinement `ImplementsContract` | while ids outlive their calls, calls that wait have different ids (`IdsNameCalls`), so the entry under an id is its own |
| SessionProofs | limits, seeds, intervals, roles, profiles, number of sends | `TypeOK`, `PeersAgree`, `BusinessServed`, action property `NegotiatedOnce` | the two ends never change together: what is on the wire must be true of both (`Truthful`) and in order (`InTurn`), and what holds while it is missing is `Linked` and `Joined`; the same again between a core and its endpoint (`Told`, `Life`, `InStep`) |
| ServerProofs | connections, handlers, requests | `ServerTypeOK`, `EntriesAgree`, `LatestServes` | the whole history told of a connection has four shapes (`ToldOf`); a replaced handler is registered nowhere (`RegisteredOnce`) |
| StreamsProofs | calls, ids, chunks | `TypeOK`, `RegistryAgrees`, `ChunksArrive` | a request is under way once and starts its handler once; what was sent and not consumed is an interval, first CoreEvents, then wire (`ChunksInStep`) |
| LinkProofs: Framing | ids, limits, sizes, frame counts, messages, pieces, damage | `TypeOK`, `ChunkingIrrelevant`, `MessagesArrive` | there is a story of the stream that explains all that decoder and reassembler hold (`Story`): the decoder is never inside a whole frame (`Outside`), assemblies and what is to come do not mix (`Unmixed`, `Collecting`), a whole frame it has passed is accounted for (`Accounted`) |
| LinkProofs: Transport | messages | `TransportDelivers`, type correctness | network, readable and outbox each go on where the next one stops (`Inbound`, `Outbound`); the readable ends after the last message or with a WebSocket that was cut (`CleanAfter`); a cut keeps a start of what is underway (`CarriesStart`) |
| LinkProofs: Keepalive | intervals, floor of the timeout, widths of the ids, delays | `HeartbeatTells`, type correctness | the answer to the oldest probe is due before the timeout (`AnswerDue`); what is left of the timeout shrinks while the peer is dead (`DeathTold`) |
| PartsProofs: EventStream | listeners, values, nesting of emits | `DeliveredOnce`, type correctness | a value waits once and nobody has it yet while it waits (`EachOnce`), the one underway has reached those who were called (`Called`), and what is due is due to somebody who will be called (`WantedRegistered`) |
| PartsProofs: Debug | capacity, level, entries, followers, servers | `TelemetryComplete`, type correctness | followers were sent only what was logged (`SeenSoFar`); the ring is always the numbers after some number up to the last (`NumbersAfter`), whatever was dropped before (`KeptNext`) |
| PartsProofs: Definitions | names, items, meta files, edits | `DefinitionsServe`, type correctness | none is needed beyond the shape of a definition (`IsSource`): the two validations imply the rest. A field keeps its name through the build (`FieldKept`), so a discriminator found in the sources is the one found in the built schema, and a request describes the same fields (`RequestsDescribed`) |
| PartsProofs: the parts of MCParts | all constants of the parts | MCSpec implements the specification of each part, `PartsTypeOK` | none: a part that does not move stutters |

The invariants' states, as TLC checked them: 9.5 k (AxtpClient), 1 080 k
(ClientDelivery), 114 k (PendingCalls), 72 167 (Session), 184 872 (Server),
457 123 (Streams), 41 k (Transport), 3 493 (Keepalive), 44 016 (EventStream),
315 161 (Debug, without its symmetry). Framing's invariant says that a story
exists, which TLC cannot look for; its parts were checked with the story
recorded in a history variable.

How the three longest go. *Session*: `Steps` first brings every action into a form
without the branches that the invariant rules out (an Identified that is
turned down, a request at a closed gate, a message beyond the limit that is
neither OPEN nor ACCEPT); each part of the invariant is then kept step by step. The agreement of
both sids follows from `Joined`: the one that sent Identified stored what it
wrote, and the other takes it unchanged. *Streams*: a chunk goes to the context
its id names; while no id is given out twice at one time (`NamesUnique`) this is
the context of its own Stream, and its number is the next one because the
interval from there has no gap. `ChunksArrive` states that condition itself:
with colliding ids only `RegistryAgrees` holds. *Framing*: parsing and
reassembly are recursive functions, whose values are known by well-founded
induction over the place in the buffer. What parseLoop finds from one
place on in the buffer is what it finds from there in the whole stream
(`ChunkingNeverMatters` is the case of the whole). The invariant then follows
the decoder through the story: where no frame begins nothing whole is skipped;
at a whole frame, the reassembler gets just that frame; anything it takes for
a frame in a damaged place is the frame inside a payload. For the count of losses,
each message that is due and missing has a frame that is not whole
(`LostIsHit`), a frame that is not whole has a damaged element (`NotWhole`), and
an element is in one frame, so that choosing one for every lost message is an
injection (`LossesBounded`).

Assumptions: the named ASSUMEs of the modules, which TLC evaluates in the runs
as well. Those that are more than the type of a constant: `Opens` of Streams is
finite (openStream is called a finite number of times); in Keepalive a round
trip fits between a tick and the timeout (`KeepaliveAssumption`; a slower
network does drop live peers); in Session an OPEN and an ACCEPT are shorter than
65536 bytes (their length field has 16 bits); in Definitions the items that may
be put into a file have the shape the loaders give them, and the identifier made
of `Empty` is `Empty`.

Only model-checked:

* all liveness properties: fairness and ENABLED are beyond the prover;
* `MessagesUnderstood`: that a message means to its receiver what its sender meant is about what
  functions compute that recurse over the bytes of any message;
* `MasksExact`: bytes of a mask are sums of powers of two over the bits
  subscribed; neither the sum, which recurses over a set, nor `^` is known to
  the provers.

## 6. Findings

1. `closed_queue` - without reconnect a lost connection closes the client and
   leaves queued calls pending (`sdk/client.ts` 303; `docs/usage.md` 342).
2. `wait_ready` - connect() sets `ready` after its `await` without looking at
   the endpoint; a connection lost in between leaves a client whose wait-ready
   calls are never woken (`sdk/client.ts` 171; `docs/usage.md` 278).
3. `connect_timeout` - connect() is rejected by a timer although reconnect is
   enabled, and the client stays `connecting` on a ready endpoint
   (`sdk/client.ts` 152 against the comment of line 151).
4. `closed_dials` - a listener of onDisconnect, onError or onStateChange that
   calls close() is followed by `coordinator.start()`, which arms a retry timer
   on the closed client; it dials again (`sdk/client.ts` 194, 301 against the
   comment of line 621).
5. `stream_teardown` - an openStream or a stream handler that continues after
   its endpoint has closed adopts a context that abortAll never sees
   (`endpoint/streamManager.ts` 28, 40 against `endpoint/streamRegistry.ts` 3).
   The counterexample closes the endpoint between the request and its handler,
   one microtask later: a handler of an event, or the continuation of another
   call, that was decoded in the same turn and closes the endpoint does this.
6. `late_message` - after a local close() the readable of a WebSocket is
   cancelled while the closing handshake is underway; a text message that still
   comes makes `controller.enqueue` throw inside the listener of ws
   (`transport/ws/nodeWsTransport.ts` 41; its siblings at 43-56 catch this),
   an uncaught exception (`docs/usage.md` 373).

Seen while modelling, without a run:

* Calls and events. A call on a ready client overtakes an older queued call
  with its coalesceKey while the flush loop awaits an answer, so the older
  value is written last (`sdk/client.ts` 407). emit() followed by close() loses
  the event: the pipe is asynchronous and close() aborts it. Events subscribed
  after the handshake are told to the peer at the next connection only, and
  disposed ones stay in the masks (`sdk/client.ts` 589).
* Connections. After a close() inside onStateChange("connecting") of a spawn
  the handshake timer is armed for a closed endpoint and fires for nothing
  (`sdk/client.ts` 224); after one inside connect()'s, connect() ends only by
  its own timer (156-170). A WebSocket that is reset ends like one that was
  closed: the endpoint reports "closed by peer" though messages underway were
  lost (`transport/ws/nodeWsTransport.ts` 43). A message that cannot be encoded stops the outbound pipe
  (`core/core.ts` 151, `endpoint/endpoint.ts` 121); a framed endpoint times out,
  a WebSocket one goes on pinging past the pipe and stays open. A heartbeat
  timer that fires late (a blocked event loop) may drop a live peer.
* Server. Endpoints that are still connecting when close() runs are neither
  closed nor registered, and serve requests later; the server side has no
  handshake timeout of its own, so such a peer keeps close() waiting. An
  onConnect listener that closes its endpoint makes the listeners after it see
  the disconnect first. Retrying a failed listen() subscribes `adopt` twice. A
  filter of emitRaw that closes an endpoint makes its `emit` throw, and the
  targets after it are skipped. dispatchEvent iterates the router's live Set
  when only one scope has handlers, though `broker/router.ts` 45 speaks of a
  snapshot: a handler added by a handler is called for the same event.
* Streams. Data that reaches the opener before its openStream has adopted the
  id is dropped (`endpoint/streamRegistry.ts` 61). The handler in
  `docs/usage.md` 202-207 returns no streamId, which `wrapStreamHandler`
  answers with an error, and calls `server.onStream`, which does not exist.
* EventStream. A listener that unsubscribes and subscribes again inside one
  emit ends up unsubscribed; nested emits are flushed depth first.
* Debug server. A failed listen() leaves `server` set, so that the next one
  does nothing; `/api/events` on an entry JSON cannot express is an unhandled
  rejection.
* Generators. The category of an error is unchecked when its high byte has no
  method or event; two schemas whose names become one identifier lose an
  interface; vendor ids from 0x7000 share a domain byte in masks; a mask longer
  than 255 bytes overflows its length byte; schemas without fields are
  dropped, but only references of methods and events are rewritten. The second
  validation looks into objects only (`protocolValidator.ts` 220), so a variant
  in a schema of another kind may select a schema that was dropped:
  `DefinitionsServe` is about objects for that reason.
  maxFrameSize above 65535 is written modulo 2^16 (`protocol/codec/control.ts` 86).

## 7. Not modelled, and why

* Generated definitions, and the emitters of C++ and Markdown, the loaders and
  the command line of the generators: data without behaviour, or one pass that
  keeps no state.
* Conformance tests, playground, release scripts: not part of the runtime.
* Authorization and the page of the debug server: wording and layout, and a
  request that is turned down changes nothing.
* UTF-8, hexadecimal, base64 and JSON syntax, and HTTP: of the platform.
* CLOSE of the control session, which this runtime answers but never sends;
  `reset()` of the handshake, which nothing calls; setMaxFrameSize while frames
  are underway; backpressure (a pipe may read at any moment).
* No module composes the server with the client's reconnects, or streams with
  the handshake: each takes the other's promise (an endpoint becomes ready or
  ends; a session stays in session until the connection ends).

## 8. Plan

Models: the fan-out of one event over the handlers of both scopes
(`broker/router.ts` 46), backoff delays, and Session with more than one
connection in a row.
