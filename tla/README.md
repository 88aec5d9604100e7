# meshcore-go in TLA+

A verification project for meshcore-go: a Go client library for MeshCore
companion radios, a backend daemon that owns radios on behalf of many
processes, and the `mc` command line. The modules translate the Go code; TLC
checks them on small instances and TLAPS proves what holds for every instance.

## Inventory

| Component | State | Operations | Talks to |
|---|---|---|---|
| Request queue (`internal/queue`) | `sendMu`, registered waiter, its buffer | `Do`, `DoStream`, `Deliver` | read loop, transport |
| Client (`client.go`, `messages.go`, `contacts.go`) | transport, dispatchers, channels `acks` (16), `traces` (8), `discoveries` (32), `syncReq` | `Connect`, `request`, `requestStream`, `readLoop`, `handleAsync`, `Close` | queue, dispatcher, radio |
| Handshake (`protocol/companion/protocol.go`) | attempts, what they left on the line | `handshake`, `deviceQueryWithRetry` | transport |
| Transports (`transport/...`) | connection, packet channel, frame reader, deadlines | open, read, write, close | client, bridges |
| Codec (`protocol/companion`) | none | encode, decode | client |
| Paths and traces (`protocol/pathhash`, `paths.go`) | `traces` channel | plan, trace | client, mesh |
| Dispatcher (`internal/dispatcher`) | subscriber channels, closed flag | `Subscribe`, `Emit`, `Close` | read loop, watchers |
| Messages (`backend/messages.go`, `sqlite_store.go`) | `drainReq`, table `messages` | send_text, wait_ack, record acks, drain, inbox | client, store |
| Repeaters, discovery (`repeaters.go`, `node_discover.go`) | event and discovery channels, sessions in store, files and radio | login, status, exec, discover | client, inbox, store |
| Contacts (`backend/contact_sync.go`, `contacts.go`) | `contactSyncing`, cancel function, `last_mod`, replica | initial, background and forced refresh, interrupt, lookup, listing | radio lock, store |
| Channels (`channels.go`) | the radio's slots, replica | add, remove, send, list | radio, store |
| Device session (`backend/server.go`) | state, client, radio lock, caches | stats poll, reconnect, requests, stop | client, store, bridges |
| Bridges (`backend/bridge.go`) | state `bridge`, own connection | enter, pump, leave | session, host programs |
| IPC (`backend/client.go`, `server.go`, `radio_activity.go`) | connections, waiters, activity | requests, streams, status | session, front ends |
| Daemon (`backend/daemon.go`) | session map, start locks, listener | start, stop, restart, serve, stop all | sessions, IPC clients |
| Chat (`cmd/mc/.../chat*.go`) | shown messages, keys seen, stream | load, stream, send | backend or client |
| Command line (`cmd/mc`) | configuration file, session files | connect, use, backend, session, repeater, contacts, shell | daemon, radios |

What is hard in this system: requests carry no identifier, so correlation rests
on exclusion and order; every push goes through a bounded channel that
overflows and outlives its waiters; a session's client is replaced by polls,
bridges and reconnects that hold different locks or none; messages are taken
off the radio before they are stored; confirmations race the statement that
stores their code; the replicas of the radio's tables are emptied, filled and
overtaken; the daemon may stop while a device is being dialled; invocations of
the command line share files, a socket and radios without a lock.
`PROJECT.json` lists each hazard at its line.

What makes each part correct: the queue hands a request the answer to its own
command, whole and in order, and every call returns; frames and packets keep
their order and damage stays local; no decoder reads outside its frame; the
dispatcher never blocks, never sends on a closed channel and loses only the
oldest events; a message shown as delivered was confirmed, and stays delivered;
an incoming message is stored before anybody sees it and a stored one is handed
out once; an answer over the mesh is taken by the request it belongs to; the
replicas agree with the radio; the session leaks no client, serialises radio use
and recovers; the daemon keeps at most one session per device and loses none;
the front ends show and report what is true.

## Modules

| Module | Models | Run | Proofs |
|---|---|---|---|
| `RequestQueue` | `internal/queue`, `request`, `requestStream`, `readLoop`, the radio's answers | `link` | `RequestQueueProofs` |
| `Handshake` | `Connect`: APP_START and DEVICE_QUERY with retries, TCP read deadlines, the first requests after it | `link` | `LinkProofs` |
| `PacketConn` | serial and BLE connections: open, scan, reader goroutine or callback, writes, close | `link` | `LinkProofs` |
| `StreamFrame` | the frame reader over byte streams with noise and damage | `link` | `LinkProofs` |
| `CompanionCodec` | decoders and encoders: which bytes of a frame are read, pushes and answers | `link` | `LinkProofs` |
| `LossyChannel` | abstract: what a subscriber is promised | `messages` | `DispatcherProofs` |
| `Dispatcher` | `internal/dispatcher`, consumers | `messages` | `DispatcherProofs` |
| `Inbox` | radio inbox, MSG_WAITING, drain loop, repeater_exec, inbox request | `messages` | `MessagesProofs` |
| `MessageDelivery` | send_text, SendConfirmed, recordAck, wait_ack, their SQL | `messages` | `MessagesProofs` |
| `ContactSync` | initial, background and waited contact syncs, interrupts, rescheduling, the watermark, observed contacts | `contacts` | `ContactsProofs` |
| `ContactBook` | contact lookup, filters and sort orders, names of hops | `contacts` | `ContactsProofs` |
| `TracePath` | path hashes, trace plans, traces and their bounded channel | `contacts` | `ContactsProofs` |
| `Channels` | channel slots read one by one, the replica, channel messages | `contacts` | `ContactsProofs` |
| `DeviceSession` | session state, client, radio lock, poll, reconnect, bridges, drain, requests, stop | `session` | `DeviceSessionProofs` |
| `Ipc` | IPC connections, prompt, cached, radio and streaming methods, radio activity | `session` | `DeviceSessionProofs` |
| `Daemon` | start, stop, restart, autostart, Stop and stopAllSessions | `backend` | `DaemonProofs` |
| `Repeaters` | login, status, exec, node discovery, the three kinds of sessions | `backend` | `BackendProofs` |
| `Chat` | history load, live stream, sends and echoes of the chat program | `backend` | `BackendProofs` |
| `CommandLine` | concurrent invocations of `mc`: configuration, daemon, socket, radios | `backend` | `BackendProofs` |

The five modules `MCLink`, `MCMessages`, `MCContacts`, `MCSession` and
`MCBackend` each put several components into one run: they extend one
component, instantiate the others, and a variable `which`, chosen in the
initial state, says which of them a behaviour is about; the others keep their
initial state. The set of behaviours is the union of the components', so a
property of a component is checked on all of that component's behaviours and on
nothing else. It is not a product: components in one run share no variable. In
the code they meet through a packet, a request or a row, and what one promises
is what the other one's environment does; each module header says which. A
fairness condition that an initial state could owe is guarded by `which`. The
remaining `MC` modules give one component to a run that expects a violation.

**RequestQueue.** A request is named by the order in which it obtained
`sendMu`, which is also the identity of its `streamWaiter`. `Acquire`, `Send` /
`SendErr`, `Collect`, `OverflowReturn` and `CtxReturn` are the stages of
`Queue.run`; `Return` is its deferred part. `Deliver` is two steps
(`DeliverLookup`, `DeliverPush`), because the code unlocks `mu` between them. A
frame's `req` field says which command the radio is answering; the code has no
such field and the model uses it in properties only.

**Handshake.** The line is two bounded queues. The device loses commands while
it boots and answers the others in order, however late. On TCP, `TakePacket`
distinguishes packets the buffered reader already holds from those that need
the socket, because only the latter meet the deadline that a given-up attempt
left in the past. `late` and `wrong` are history variables.

**PacketConn.** One module for both transports, since they share their shape: a
bounded channel between a goroutine (serial: waits for room or for `done`; BLE:
drops the oldest in two channel operations) and `ReadPacket`. A BLE write runs
in a goroutine that goes on when its caller has given up, with the mutex free.
BLE's Open is a scan, a connect and two discoveries, each of which may fail. The
scan runs in a goroutine of its own (`ScanStarts`), so `StopScan` may come
before it has begun, and then stops nothing (`late`, `left`).

**StreamFrame.** Bytes are small numbers, one of them the marker; the two bytes
of a length are taken as one. Write refuses a payload that is too long. A stream
begins with noise, frames are written behind it, and one byte may be changed or
lost anywhere that has not been read. The reader of the serial package
resynchronises, the one of the TCP package does not: `resync`.

**CompanionCodec.** A packet is its code, its length and the bytes that decoders
use as lengths or kinds; a decoder is the set of byte ranges it reads. The same
ranges, computed for a longer frame, tell whether a field moves when a frame is
cut. The values of fields are not modelled.

**Dispatcher.** `Emit` holds `mu` but each channel operation is a step, because
consumers receive without the lock: push, or find full, drop the oldest, retry.
Critical sections of `mu` other than `Emit` are single steps and wait for
`emitting` to be false. The refinement maps a subscriber's buffer, history and
phase to `LossyChannel`.

**MessageDelivery.** One caller per message runs send_text, then possibly
wait_ack. `AppendAck` is its two statements. `early` remembers the
confirmations handled before the ack code was stored: the code cannot record
them, and `LateAckDelivers` speaks of the others.

**Inbox.** The three users of the inbox hold the radio lock. `hand` is the
message between `syncNext` and its callback. A row is a message with the peer
its sender resolves to when it is stored, because the duplicate check compares
that too; `peer` may change (`Peers`, `MaxRelabels`). A drain that returns at
once, since the session is not ready or has no client, is `DrainSkip` and counts
as a failure. `execTook` marks what `repeater_exec` fetched, which the code does
not persist; the properties of the drain loop exclude it.

**ContactSync.** A job is a goroutine that runs one sync or one radio request;
its stages are the statements of `runContactRefresh` and `syncContacts` that
touch shared state, each use of the store being one. An interactive request
that succeeds goes on as the refresh it schedules. A contact is abstracted to
the modification marker the radio gave it, so that a stored record that is out
of date is a smaller number. Adverts run as goroutines without a lock: read,
write back, read the watermark, move it. `trust` is a history variable: it is
`no` once an advert has moved the watermark or put an older record back,
`rebuilding` from the moment a full refresh empties the table until a full
refresh completes. The radio is taken to answer from one snapshot, with markers
that grow at every change.

**ContactBook, TracePath.** Mostly operators, checked over all lists, queries and
encoded routes of the instance. Names, keys and times are ranks; a query is the
sets of contacts it matches exactly and in part. The contacts there are are a
constant, `Book`; those of the run (`TiedBook`) tie in every column a listing
sorts by, or lack it, name and key included. `TracePath` adds the traces
under way, their tags and the channel that keeps answers nobody waits for.

**Channels.** Every slot request of a scan is a step and may be misread (the
late answer to another slot) or fail. `clean` and `mirrored` are history
variables: no answer of this operation was misread; the replica was copied from
the radio and nothing has changed since. The slots that are probed (`N`, the
code's `maxChannels`) and those the radio has (`RadioSlots`) are two constants.
A name is a base (equal when folded), a hash mark and whether it is a number.

**DeviceSession.** A critical section of `s.mu` is a step. `radio` is the holder
of the radio lock; `rpc[0]` is the reconnect the poll runs itself, `rpc[k]` the
goroutine `leaveBridge` number k starts. A client stays in `open` until `Close`
is called on it. `Workers` stand for requests and contact syncs, which use the
lock in the same way, and for the requests that ask the radio without it because
their cache is empty (`unlocked`); the refresh after a reconnect is unlocked as
well when it follows a bridge. The look at the state, the snapshot of the client
and markDegraded are steps of their own. `robbed` is a history variable: a
bridge, or the reconnect after one, has closed the client of the lock's holder.
The choice between success and failure of a radio operation is free, except that
an operation on a closed client cannot succeed.

**Ipc.** A handler runs one request; methods are represented by one of each kind
that `serve` treats differently. Taking the lock, leaving the count of waiters
and showing the activity are three steps (`Lock`, `NoLongerWaits`,
`StartActivity`). A caller may leave at any time, which the
handler notices only when it writes.

**Daemon.** `startSession` in its stages: fast path, start lock, second look,
dial, install, launch. `stopSession` and `stopAllSessions` take sessions out of
the map and close them later.

**Repeaters.** Every answer carries the number of the request it answers, which
the code does not see. The event and discovery channels outlive requests. A
request may fail after its command has reached the radio (`SendFails`: the SENT
was lost), and its answer is then still on its way; `ConnectionCloses` ends
whoever waits. `givenUp` are the requests that reached the radio and ended
without an answer. Names and keys are texts of one kind, since a query and a
match may take a name for a key; a discovered node may lack a key (`NoKey`).
`rows` are the store's sessions by name, `files` those of the command line by
key, `table` the radio's own.

**Chat.** `Update` handles one program message at a time; the load, the stream,
the sends and the listener are steps between. A received message reaches the
screen as a stored and as a streamed copy, which the code converts in different
ways: `Record` and `chatMessageFromRecord`, `incomingMessage`. A text is a body
with or without a sender's name before it and white space around it; a packet
may carry no time (`NoTime`), and a row without one gets the time of storing.
`raw` is what was received, which the program does not see; it tells messages
apart by `Key`.

**CommandLine.** A command is the sequence of steps that touch shared state
(`Program`). `Save` truncates and writes in two steps; of two that have both
truncated, the second text lies over the beginning of the first (`Overlaid`), so
the file reads as one of them, as a mixture, or not at all (`file`). A status
call may fail although the daemon is there, which the code takes for "not
running" (`misled`). A daemon process is booting, loaded (its configuration
read, its socket not yet bound), serving, asked to stop, closing its listener,
stopping its sessions or dead; closing unlinks the socket's path whoever is
bound to it.

## Runs

`PROJECT.json` names every run with its properties.

| Run | Instance | Shows |
|---|---|---|
| `link` | two callers, two requests, buffers of one frame; a boot loss of two commands and lines of three packets; connections with a channel of two, four packets and three writes; three frames of up to two bytes with one damaged byte; all codes with frames cut anywhere up to 160 bytes | one request at a time (`SingleActiveRequest`), answers causal (`NoFutureResponse`), matched and complete until a request is abandoned (`AnswersAreOwn`), every call returns (`CallReturns`); over a serial port the handshake ends (`SerialHandshakeEnds`), and a wrong answer needs something given up before (`StaleOnlyAfterTimeout`); packets and writes in order, no device left connected and no scan that had begun left on (`LinkIsOrderly`), Close ends (`CloseEnds`); frames whole, damage local (`FramesArrive`); fields inside their frames (`FieldsAreSound`), pushes never answer (`PushesNeverAnswer`) |
| `messages` | two subscribers with buffers 1 and 2 and three events; two chat messages, one heard twice, a sender that becomes known, a repeater command, two inbox requests, one failure; two messages with two confirmations each, an ack channel of one slot, one failing statement | no send on a closed channel (`NoSendOnClosed`), bounded loss of the oldest (`LossIsBounded`), `LossyChannel` implemented (`ImplementsLossyChannel`), Emit returns (`EmitReturns`); mail of the drain loop kept, stored first, its rows handed out once (`MailIsKept`), no MSG_WAITING lost (`InboxEmptied`), repeater_exec returns (`ExecReturns`); delivered means confirmed (`DeliveryIsTrue`) and is final (`DeliveredIsFinal`), callers return (`CallerReturns`) |
| `contacts` | two jobs, an advert, two contacts, two changes, one failure; all lists of up to three contacts; all kinds of encoded routes, three traces over a channel of two; two probed slots of three, three operations, one misread and one fault | an interrupt hits the refresh it is meant for (`HolderOnly`), the watermark covers the table (`WatermarkCovers`), a refresh brings all (`RefreshBringsAll`), every job ends (`JobEnds`); listings and lookups do not depend on the radio's order, and the names of hops and neighbours do not contradict each other (`OrderFree`); plans follow the stored route (`PlanFollowsRoute`), traces are answered by their own (`TraceIsOwn`); slots agree (`SlotsAgree`), only the slot asked for is changed (`OnlyAsked`) |
| `session` | one bridge and one connection of it, one message, one request, one failure; two IPC connections and two radio clients | requests of a session (`RequestReturns`) and of IPC clients (`RequestsReturn`) return, the session recovers (`Recovers`), the lock has one holder, no client is leaked, and none is closed under the holder but by a bridge or the reconnect after one (`RadioIsOwned`), status is true (`StatusIsTrue`) |
| `backend` | two handlers, two devices, three sessions; two repeaters of one name, a node without a key and two requests; two messages in a chat over four kinds of session; two invocations, two profiles, two daemons | every session in the map or on its way out, one per device (`SessionsAreTracked`); a repeater's answer belongs to its request unless one before it got none (`AnswerIsOwn`), sessions are of repeaters that accepted a login, failed logins leave none, nodes with a key are listed once (`RemotesAreReal`); the chat shows no received message twice whose two copies agree, and none as delivered that was not confirmed (`ScreenIsHonest`); the selection is a saved profile, and a daemon reported stopped is stopped, unless the status calls had failed (`CommandsTellTruth`) |

The bounds are the smallest with which the cases named in the hazards happen:
one buffer slot overflows with the second frame; two requests are needed for an
answer to come too late; a channel of two shows that the oldest and not the
newest packet is dropped; one bridge connection for its reconnect goroutine and
the poll to meet (`session_bridges` has two, and `RadioOwned` is proved for any
number); two contacts for an advert of one to overtake the other; three traces
for an answer to find the channel full; two repeaters of one name for a lookup
to be ambiguous; two invocations and two daemons for one to stop what the other
started; one change of a sender's peer for a repeat to become a second row; one
slot more than is probed for one to be out of sight. A cancelled refresh needs
no failure of its own, so that one failure in `contacts` can hit another stage.
Calls are guarded by their bounds, so no caller waits for a request the model
cannot number. `backend`, which checks invariants only, takes the two
invocations as interchangeable; no other run uses symmetry.

Deadlock checking is off: behaviours end when a bound is used up, and every
component may be idle for ever.

The type invariants of `Inbox`, `MessageDelivery`, `DeviceSession` and `Daemon`
are conjuncts of `MailIsKept`, `DeliveryIsTrue`, `RadioIsOwned` and
`SessionsAreTracked`, and proved with them; those of `RequestQueue`,
`Dispatcher` and `ContactSync` are theorems of their own. The other modules'
types are the first conjuncts of the inductive invariants below.

Seven runs expect a violation: they state what a comment or an error text says
and the code does not do.

| Run | Statement | What the code does |
|---|---|---|
| `queue_matching` | `MatchingResponse`: a request waits for the matching response | a late answer to an abandoned request completes the next one |
| `handshake_tcp` | `ReplyIsTaken`: APP_START is repeated until a SelfInfo arrives | over TCP nothing is read from the socket after the first attempt that was given up |
| `session_bridges` | `OneActiveBridge`: another bridge is already active | a poll or reconnect overwrites `bridge`, a second bridge enters |
| `delivery_accumulate` | `AcksAccumulate`: repeated acks accumulate | two recordings at once lose one reception |
| `repeater_exec` | `ExecAnswersCommand`: a command waits for its text response | a reply fetched by the ticker is also an event, which answers the next command |
| `chat_shown` | `ReceivedIsShown`: a message that arrives twice is shown once | one that the stream delivered before the history was applied is not shown |
| `daemon_stop` | `StopStopsSessions`: Stop stops every session | a start in flight installs a session afterwards |

Behaviour a reader of the models should know of, which no run is spent on:

- no drain follows a reconnect, so mail the radio announced to a bridge waits
  for the next MSG_WAITING;
- a reconnect that is dialling while the session stops installs a client that
  nobody closes;
- a confirmation handled before its code is stored is forgotten: `early` and
  `LateAckDelivers` in `MessageDelivery`;
- `repeater_exec` drains the inbox and broadcasts without persisting
  (`execTook`);
- a message that is heard again after its sender or channel has become known is
  stored a second time, unread, since the duplicate check compares the peer
  (`relabels` in `HandedOutOnce`); so is one without a timestamp whenever it is
  heard;
- a drain that finds the session not ready gives up and nobody asks again until
  the next MSG_WAITING (`DrainSkip`);
- a BLE scan whose goroutine begins after Open has given up stays on until it
  meets a device that matches (`left` in `PacketConn`);
- the radio lock does not keep everybody apart: the caches are refreshed without
  it by the reconnect that follows a bridge, and device_info and stats ask
  without it when their cache is empty; a bridge closes the client of whoever
  holds the lock (`unlocked`, `robbed` in `DeviceSession`);
- an advert with a modification marker moves `contact_last_mod` over contacts
  that were changed earlier and not fetched yet; incremental refreshes then never
  bring them, only `--full` does. A full refresh that fails after emptying the
  table leaves the old watermark, with the same effect. `WatermarkCovers` and
  `RefreshBringsAll` fail if `trust` is dropped from them;
- `startContactRefresh` cannot answer "already running": the flag is down
  whenever `contactSyncMu` is free (`SyncUnderLock` proves it), and the request
  blocks for the length of the running sync instead;
- a channel query that is a number above 255 asks for the slot of its low byte,
  and a misread slot may be taken for free: `OnlyAsked` excludes both;
- channels in slots that are not probed are neither listed nor kept in the
  replica (`RadioSlots`), though a number still names them;
- a neighbour is given the name of the first contact with its key prefix: which
  one depends on the radio's order, and a contact without a name leaves it
  nameless although a trace would name it (`NamesAgree`);
- once a login or status request has reached the radio and ended without an
  answer (it timed out, its SENT was lost, the connection was closed), every
  later answer of that kind from that repeater may be the one to the request
  before: `AnswerIsOwn` says that it takes such a request;
- a repeater whose name reads like another one's key is taken for it (`Plain` and
  `Vouched` in `Repeaters`);
- a discovered node without a key is listed every time it is heard;
- a received message whose stored and streamed copies differ is on the screen
  twice: one without a time, and a channel text with white space around it and no
  sender's name (`Plain` in `Chat`);
- the chat's send goroutine echoes onto the session's stream, and panics when
  the stream was closed meanwhile (`crashed` in `Chat`);
- an old daemon that is still stopping removes the socket of its successor, and
  reset may remove databases while the daemon that was stopped is still closing
  its sessions: stopping is taken for done when nothing answers
  (`CommandLine`);
- two invocations that edit the configuration at the same time lose one edit, or
  leave the shorter text with the tail of the longer one, which may not parse
  and then fails every later command; one that reads it while it is being
  written finds it empty;
- any error of the status calls is taken for a daemon that is not running: stop
  then reports success, and a second daemon may be started over the first
  (`misled`).

### Fairness

Liveness assumes only what Go's runtime and the code's deadlines give: a
goroutine that can run does (weak fairness of its steps); a free lock is taken
by somebody who waits for it (weak fairness of the acquisitions together:
requests are bounded, so everybody gets his turn); `RadioExecutor`'s lock goes
to each waiting handler in the end (strong fairness per handler in `Ipc`, and
of the users of the radio in `DeviceSession`, whose poll comes back for ever:
`sync.Mutex` hands the lock to a starving waiter); a context with a deadline
expires. A wait that may tick any number of times before its deadline is
strongly fair in the timeout. The device is assumed to answer only in
`Handshake`, whose claim is about a device that does; users, hosts and
consumers need not do anything.

## Proofs

TLAPS checks the theorems below for every value of the constants under the
modules' named assumptions: free markers are not members of the sets they stand
beside, the capacities of channels are positive (or natural, where the code
would work with none), the bounds are naturals, the handlers of `Ipc` are
finitely many, `out_path_len` is a byte, a radio has at least one channel slot,
the stream's marker is a byte and a length of two is plausible, the lengths of
packets and of a command's arguments are naturals, and a contact has, in the
columns a listing sorts by, numbers or nothing, and differs from every other in
name or key (`BookAssumption`; a radio's contacts have distinct keys; name or
key may be missing).
A theorem about a component that a run reaches through an `MC` module is
stated of that module's `MCSpec`, so that it names the very property the run
checks; its proof uses nothing of the other components. What an `MC` module
fixes by definition stays fixed in the theorem: the five channel names of
`MCContacts`, and in `MCLink` the five payloads
and the noise of at most one byte in front of the first frame.

All proofs have the same shape: the property, with the types, is strengthened to
an inductive invariant; one lemma or step per action; a last step by temporal
logic. Where a proof needs an induction over a list, the induction is on the set
of prefix lengths with the property: `SetInduction` derives it from the least
element of a set of naturals, since the library's induction theorems take an
operator as a parameter and cannot be used. The invariants, and why the
properties need them:

**`RequestQueueProofs`.** `TypeCorrect`, `OneRequestAtATime`, `Causality`: who is
inside `run` holds `sendMu` and owns the registered waiter (`LockInv`); a held
frame and a held waiter exist exactly in the phases that use them (`ReaderInv`);
commands are pending in the order they were sent, and none has sent its last
frame (`RadioInv`); commands, wire, held frame and buffers hold no frame of the
future (`CausalInv`). An answer's request must be bounded while it is still on
its way: when `Deliver` looks a waiter up, every frame read so far belongs to a
request not younger than that waiter. `OwnAnswers` (`AnswersAreOwn`) adds, on
top of these, that as long as nothing was abandoned everything on its way
belongs to the request under way (`FlowInv`), that behind the frame that ends
an answer there is nothing (`LastInv`), that between requests the line is empty
(`QuietInv`), and that the frames seen, buffered, held and on the wire are
numbered without a gap (`CountInv`). Only the count shows that an answer is
complete: a frame that was overtaken or dropped would leave a gap.

**`DispatcherProofs`.** `TypeCorrect`, `NeverSendsOnClosed`,
`RefinesLossyChannel`: subscribers are exactly the open channels while Emit
runs, `todo` is a subset of them, and what was put last is older than the event
being emitted wherever it has not been served. The simulation lemma maps each
action to one step of the abstract channel of each subscriber, or to a stutter.
`LossBounded` (`LossIsBounded`) is a balance: events since the subscription are
received, waiting or paid for by a full channel, but for the one of an Emit that
has not come to this subscriber yet (`DebtInv`); whoever was served has the
newest event at the end of its stream (`ServedInv`); and after the drop there
is room (`RoomInv`), because between drop and retry only the consumer touches
the channel.

**`LinkProofs`.** `StaleIsLate` (`StaleOnlyAfterTimeout`): until something was
given up, either nothing is outstanding, or the one command that is waited for
is on its way, or exactly one answer of its kind is, among pushes
(`OutstandingInv`). `Orderly` (`LinkIsOrderly`): the goroutine that feeds the
channel holds the newest packet or none (`HandInv`), the BLE callback has made
room before its last attempt (`RoomInv`), over serial the channel goes on where
the read loop is (`SerialInv`), packets rise in and behind the channel
(`RisingInv`) and stay below the one in hand (`BelowInv`), the newest is
somewhere (`NewestInv`), and the write whose caller waits is the newest one
(`OutInv`); a scan that had begun is on in the stage that waits for it only.
`PushesApart` (`PushesNeverAnswer`): a code below 128 decodes to an answer or
stays raw, one above to a push or stays raw (`AnswersDecoded`, `PushesDecoded`,
one case per code). `FieldsSound` (`FieldsAreSound`) rests on the same small
invariant, that packets and commands are of the instance's kinds (`CodecInv`);
the rest is about operators. A decoder is a table of rows, a field with the
length from which on it is read and its two ends (`Take`). What has to be shown
of a packet is reduced to its table: the rows taken lie in the body and apart,
and those taken of a body one byte shorter are still taken, at the same place
(`RowsGood`, with `FixedGood`, `TextGood` and `RawGood` for the three shapes of
decoders). One lemma per code names its rows. Two decoders are no tables: a
trace, whose hashes end where the packet says or where it is cut (`TraceSound`,
`TraceKept`), and a repeater's statistics, whose offsets add up the widths
before them: a closed form satisfies that recursion at each of its 18 arguments
(`Offsets`). Frames of the third version are the older ones moved by three bytes
(`MessagesShifted`), and each part of a command begins where the part before it
ends (`PartsFollow`). `FramesKept` (`FramesArrive`): behind the damaged byte
every frame lies where it says, byte by byte (`PlaceInv`), frames do not overlap
(`ApartInv`), and, if all frames are calm, a marker is always the front of a
frame (`MarkerInv`). A reader that was led astray is therefore put right by the
first marker it meets behind the damage: a frame that begins more than a frame's
length behind it is returned once the reader is past its marker (`FarInv`),
because a payload that would swallow that marker would have to begin at a marker
behind the damage, and that one is the front of a whole frame. Without damage
frames lie side by side (`ChainInv`), and the reader has returned the first of
them and is at the end of the last it returned or in the next one (`CleanInv`),
whatever bytes the payloads hold. The proof needs no parse of the stream: the
invariant speaks of single positions of it only.

**`MessagesProofs`.** `DeliveryTrue` (`DeliveryIsTrue`) and `DeliveredFinal`
(`DeliveredIsFinal`): a message is delivered and found by a `recordAck` only
after its code was stored (`CodeInv`); a `recordAck` is about confirmations that
have come (`RecordInv`); one that came once the code was stored is being
recorded or its message is delivered (`LateInv`), which is what survives any
order of the two statements of several recordings. `MailKept` (`MailIsKept`): a
message is in one hand from its fetch to its emit, and stored in between
(`HandInv`); a row that was handed out is marked read, and until a sender resolves
to another peer all rows have the first one, so that a repeat finds its row
(`ReadInv`).

**`ContactsProofs`.** `TypeCorrect`, `InterruptsHolder`, `SyncUnderLock`,
`StateIsHolders`, `WatermarkSafe`, `RefreshComplete`: `WatermarkCovers` is not
inductive: a sync between its fetch and its last statement must know that its
marker still equals the watermark (`SinceInv`), that what it holds is exactly
what lies between that marker and the new one (`ResultInv`), and, so that a
contact that changes meanwhile falls behind neither, that no copy of a contact
is newer than the radio's (`AgeInv`) and no marker newer than its clock
(`ClockInv`). `LockInv` supplies that only one sync is in that stretch.
`PlansFollow` (`PlanFollowsRoute`) is about operators: every way to a plan (a
given path, a stored route with its hop size cut from three bytes to two, a key
prefix) ends in whole hops of the route's nodes (`WholeHops`), for each
`out_path_len` byte. `OwnTrace` (`TraceIsOwn`): answers in the channel are all to
the one plan (`TraceInv`), since a retry takes a new tag and never a new plan.
`SlotsKept` (`SlotsAgree`) and `AskedOnly` (`OnlyAsked`): as long as an operation
has met no misread, the slots it has listed are the radio's named slots below
the one it reads next (`ListInv`), the slots AddChannel found are a match and a
free one (`AddInv`), the slot a query was resolved to is the one it names
(`QueryInv`), and what a message was stored under is what the replica says
(`RecordedInv`). `UpsertChannels` keeps one row per slot; that it keeps all of a
clean list needs that entries are indexed by slot (`KeptIsAll`).
`ListingsOrderFree` (`OrderFree`): what is shown and what was matched are those of
the list that is held (`ListingInv`); filtering keeps exactly the contacts wanted,
each once, by induction over the list (`WantedKept`); every
sort order is total up to contacts that are equal, because all of them fall
back on name and key; so two lists of the same contacts are sorted alike.
It is this fallback that a stable sort cannot do without: ties would keep the
radio's order.

**`DeviceSessionProofs`.** `RadioOwned` (`RadioIsOwned`): every bridge
connection that has begun has ended or is under way (`CountInv`), so that
reconnect goroutine k does not run before the k-th `leaveBridge` (`SpareInv`)
and two goroutines never share a number; every open client has an owner
(`LeakInv`); a client about to be installed is open and nobody else's, one about
to be closed is no longer the session's (`FreshInv`); and the client the drain
holds when it looks at the state is open or was taken from it (`CheckInv`). The
holder's client is therefore closed by those only who do not take the lock.
`StatusTrue` (`StatusIsTrue`): the counters are the cardinalities of the
handlers that are served and that wait, one that has just got the lock included
(`LoadInv`), and what is shown as active is what the holder of the lock does
(`HolderInv`, `ActiveInv`).

**`DaemonProofs`.** `SessionsTracked` (`SessionsAreTracked`): a dial lock has one
holder, which dials that device (`LockInv`); from a start's second look to the
installation nothing is in the map for its device, and what it dialled is its
own (`StartInv`); sessions that somebody names were dialled (`DialledInv`).

**`BackendProofs`.** `CommandsTrue` (`CommandsTellTruth`): the file and every
copy an invocation holds are sound (`ConfigInv`), because a copy is written back
long after it was read, and stay so when one text is laid over another: the
selections come from its front, and a tail only adds profiles; in a command a
stop request is followed by the wait for its effect (`ProgramInv`); a daemon
that was asked to stop goes on ending (`AskedInv`), and one that is out of reach
stays so (`UnreachedInv`). `OwnAnswer` (`AnswerIsOwn`): an answer in the air or
in the event channel is of the request that waits, or an earlier request of its
kind to that repeater was given up (`LateInv`), and there is one answer to the
request that waits (`OwnInv`). `RealRemotes` (`RemotesAreReal`): rows, files,
the radio's table and the logins still in the channel are of repeaters that
accepted one (`AdmitInv`), and every way in which a login by name fails has
cleared its row (`ClearedInv`). `HonestScreen` (`ScreenIsHonest`): what was
heard are copies without a status (`HeardInv`); the events in the stream are
messages heard, echoes of ours as sent, or confirmations the mesh has made
(`StreamInv`); what is stored and was loaded are ours, or rows that hold what
was received (`StoreInv`); and what the send goroutine holds is ours and not
delivered (`OutInv`). Two copies of one plain message, however converted, have
one key; so the screen, whose received messages have distinct keys that have all
been seen (`ScreenOk`), shows it once. Each operation on the screen keeps that,
the loaded history message by message. An echo gives the line it is merged into
its code together with the status sent, and only a line that was queued or
failed; so delivered is only ever set for the code that was confirmed.

Only model-checked: the liveness properties (`CallReturns`,
`SerialHandshakeEnds`, `CloseEnds`, `EmitReturns`, `InboxEmptied`, `ExecReturns`,
`CallerReturns`, `JobEnds`, `RequestReturns`, `Recovers`, `RequestsReturn`), since
TLAPS proves nothing about fairness or ENABLED; and the seven statements that the
code does not keep, which are counterexamples of TLC.

## Plan

Done: every component of the inventory has its module, except the parts below,
and every invariant and action property of the passing runs is proved for every
value of the constants. A TCP connection with both deadlines, and a product of
`DeviceSession` and `Ipc` over one radio lock, are the compositions worth adding.

## Not modelled

- a configuration file read halfway through a write, and the places of a watch
  subscription (64), which a slow front end fills;
- TCP's write deadline (`tcp.go:83`), which is left in the past in the same way
  as the read deadline, and TCP's Open and Close;
- the values of decoded fields, text and JSON: no property depends on them;
- hardware enumeration, registries and URI parsing, which are tables or calls
  of the operating system;
- statistics, capabilities, diagnostics and logs: requests whose answer is
  returned as it is, and reads for display;
- database migrations, pruning of old rows and queries for display;
- flags, prompts, completion, output and layout of the command line, the shell's
  line editing, and the web dashboard with its generated frontend;
- service files for systemd and launchd;
- the bytes a bridge pumps between its endpoint and the radio, and its
  listeners.
