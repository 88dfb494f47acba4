# A verification project for nxfr

TLA+ models of nxfr, TLC configurations that check them on small instances, and
TLAPS proofs of what matters most for every instance. `PROJECT.json` maps every
definition to the lines it models and lists runs, hazards and theorems.

## The system and its parts

nxfr sends files between devices on one network. A daemon (`nxfr-daemon`) runs
on each desktop. It listens for TLS connections, asks its user over a local IPC
socket, receives files into `.part` files, and renames them once verified. It
also sends files and retries interrupted sends. Phones use the FFI library
(`nxfr-ffi`); browsers use the web server (`nxfr-web`). All but the browsers
speak one protocol, whose messages and state machines are in `nxfr-core`.

| Part | Source | Module |
| --- | --- | --- |
| Send, receive, resume, publish; resume journal | `nxfr-daemon/src/{handler,sender,receiver}.rs`, `nxfr-storage/src/resume.rs` | `DaemonTransfer` |
| What a transfer promises | the above | `FileDelivery` (abstract) |
| Consent, watchers, expiry | `nxfr-daemon/src/{handler,ipc,main,lib}.rs` | `Consent` |
| Pairing, paired devices | `handler.rs`, `ipc.rs`, `nxfr-ffi/src/lib.rs`, `nxfr-storage/src/db.rs` | `Pairing` |
| Start, receiving switch, advertisement, listener | `main.rs`, `ipc.rs`, `listener.rs`, `nxfr-discovery/src/manager.rs`, `nxfr-storage/src/config.rs` | `Receiving` |
| Session and transfer state machines | `nxfr-core/src/{session,transfer}.rs` | `ProtocolFsm` |
| Frames and control messages | `nxfr-core/src/{frame,codec,messages,error_code}.rs`, `nxfr-transport/src/{framing,connection}.rs` | `Wire`, `ControlCodec` |
| FFI sessions and transfers | `nxfr-ffi/src/lib.rs` | `FfiSession` |
| Web server | `nxfr-web/src/lib.rs` | `WebShare` |

How the models meet: `DaemonTransfer` takes the verdict of `Consent` as a free
choice; `Pairing` repeats the part of `Consent` that pairings use, with what the
user saw and what follows an answer; `Wire` shows that a connection delivers
whole messages in order, which the other models take for granted until it is
cut. The state machines of `nxfr-core` are a library: the daemon and the FFI
library do not call them, so `ProtocolFsm` stands by itself.

In every model an action is what the code does between two points at which
another task, a crash or the network can intervene: an `await`, the release of a
lock, or two calls of the file system.

Two things hold for every liveness property. A connection that is cut is noticed
by the next read of it, as TCP does once it resets or gives up: the code has no
timer of its own on most reads, and a peer that vanishes without a word is noticed
only then. And where the code waits for a client or a host without a timer, that
they move on is a premise of the property and not a fairness assumption, so that
the property itself says on whom it depends.

`MC*` modules hold the instances. Deadlock is not checked in any run, because
every system here comes to rest when its requests are used up; that it does not
rest too early is what the liveness properties say.

| Run | Distinct states | Instance |
| --- | --- | --- |
| `transfer_faults`, `transfer_resume`, `transfer_ends`, `transfer_resume_hangs` | see below | `DaemonTransfer` |
| `consent_safety` | 4.2 million | 2 pairings of one peer, 2 watchers, 1 confirm |
| `consent_ends` | 664,000 | 2 transfers, 1 watcher, 2 confirms |
| `pairing` | 662,000 | 2 sessions, each side a daemon or an FFI host |
| `receiving` | 242,000 | 2 processes, 3 clients, 1 permit |
| `protocol_fsm` | 83,000 | both machines at both peers, 2 pauses |
| `wire` | 564,000 | 2 frames, every kind of message |
| `ffi_session` | 300,000 | 3 manifests, window 1, event channels of 1 |
| `web_share` | 57,000 | 2 connections, both modes |

## DaemonTransfer

One sender task and one receiver handler, joined by two FIFO channels.

- `tx` is the sender's task. Its `pc` names the `await` it is at.
- `rx` is the receiver's handler. `rx.mem` is its `ResumeState`; `rx.hashed` is
  what its hasher has seen.
- `part`, `journal`, `published` and `expired` are the receiver's disk. They are
  all that survives a crash or a new connection.
- `outbound` is the sender's `outbound-*` journals. The code writes and deletes
  them and never reads them.

Writing a chunk, saving the journal and acknowledging are three actions, because
a crash between them matters.

Abstractions and assumptions:

- Byte `i` of content `v` is `<<v, i>>`. SHA-256 is injective.
- Creating, truncating, renaming and removing files is durable in order. A crash
  may lose bytes of the `.part` that were not synced.
- All attempts use one destination name, so they share one `.part`.
- A new attempt is dialled after the previous handler has ended. The fallback of
  a resume is the one dial that the code makes with the old connection still open;
  nothing more is said on that one, and here it is hung up before.
- A fresh request carries a new id. The handler would load the journal of a
  request that reuses one without comparing the peer (`handler.rs:701`), as only
  `RESUME_QUERY` compares it; this sender makes an id from content and time and does
  not reuse one.
- A failing save of the journal is modelled, also where the code ignores it
  (`handler.rs:798`). A failing removal of a file is not. The choice of a free
  final name (`resolve_collision`) is left out.
- A frame written to a dead connection is lost, and the next read notices. Where
  the failing write itself matters there is an action for it.
- Consent, the sanitiser and the path jail give a nondeterministic verdict.
- `TxAbort` stands for other implementations: this sender never sends
  `TRANSFER_CANCEL`.

`Faults` selects what the environment may do: `loss`, `io`, `edit`, `corrupt`,
`sanitize`, `jail`, `cancel`, `close`, `expiry`. Crashes are bounded by
`MaxCrashes`, and sends and retries by `MaxAttempts`.

Every run uses chunks of 2 bytes and a window of 2. The contents have 3 and 5
bytes: both end in a short chunk, and three chunks are more than the window
holds, so the sender has to wait for acknowledgments.

| Run | Bounds | Checks |
| --- | --- | --- |
| `transfer_faults` | 2 attempts, 1 crash, every fault | `PublishedIsVerified`, `AckedIsDurable`, `WindowRespected`, `ProgressKept` |
| `transfer_resume` | 3 attempts, 2 peers, 1 crash, loss | `StateIsPeersOwn`, `RefinesDelivery`, `JournalNeverAhead` |
| `transfer_ends` | 1 attempt, 1 crash, every fault but `jail` | `AttemptEnds` |
| `transfer_resume_hangs` | 2 attempts, loss | `AttemptEnds`, violated |

Two attempts are enough for an interrupted send and its resume under any fault.
Three let another content, or another peer, come in between. `RefinesDelivery`
says that the transfer implements `FileDelivery`, under the mapping that forgets
everything but what is published and what the sender reported; a success that is
reported without a published file would be no step of it.

`AttemptEnds` assumes weak fairness of the sender's steps, of the receiver's
steps and of the fallback dial. The tasks run on tokio, which polls every ready
task, and both consent waits have 120 s timers. Nothing is assumed of the user,
and of the network only that a dead connection is noticed by the next read.

`JournalNeverAhead` and `AckedIsDurable` check the order of sync, save and
acknowledgment. That a resume goes on from the length of the `.part` and not from
the journal is checked by `PublishedIsVerified`: with the hasher seeded up to the
journal's count, TLC finds a published file that was not verified.

`transfer_resume_hangs` is a disagreement of code and document. The connection
is lost after the rename, then the transfer is retried: the sender skips every
chunk, the receiver waits for one and drops `TRANSFER_COMPLETE`, and neither has
a timer, although `PROTOCOL.md:1549` gives the sender 60 s.

Proofs, from `ConstantsAssumption` alone: any number of peers, contents, attempts
and crashes, any sizes, window and faults. `DaemonTransferProofs` has what one
side guarantees by itself:

- `TypeCorrect`: `TypeOK` is inductive by itself.
- `Integrity`: `PublishedIsVerified` is not inductive, because the code hashes
  what it receives and renames what is on disk. `HashedIsOnDisk` says the two
  agree while a file is received. Together with `TypeOK` it makes the invariant
  inductive. `HashCoversDisk` states it as a result of its own.
- `JournalIsMemory`: `MemIsJournaled`, inductive with `TypeOK`. While a file is
  received, memory and journal are the same. Between files they differ in one case:
  the entry of a modified file was dropped and the save of that failed.
- `JournalSafe`: only `RxSave` advances a journal, and it does so to the length
  of the hasher's input. `HashedIsOnDisk` makes that the length of the synced
  file. `MemIsJournaled` rules out the other actions that save.

`DaemonTransferSessionProofs` has what depends on both sides. It rests on
`Session`: for each phase of the sender, which frames may be on their way and
where the handler may be. Without it no step of one side can be related to what
the other side did.

- `PeersOwn` (`StateIsPeersOwn`): a request on the wire carries an id that is not
  in the journal yet (`Fresh`), so only `RESUME_QUERY` can meet a state, and its
  handler compares the peer.
- `ProgressTheorem` (`ProgressKept`): the sender's skip point and every chunk on
  its way are at or past the progress on record, unless the `.part` is past it
  already (`Progress`). The property excepts an entry dropped because the file was
  modified, also when only the handler's memory knows of that.
- `WindowTheorem` (`WindowRespected`): chunks, acknowledgments and the chunk in
  hand are together no more than the sender's count (`Window`). Frames are counted
  by the slots they can fill (`AtMost`), which needs no induction over a channel.
- `DeliveryRefined` (`RefinesDelivery`): a sender that is about to report success
  has a handler that has published its file (`Delivered`), or misses an
  acknowledgment and cannot get there. It assumes `"jail" \notin Faults`: the jail
  refuses a path after its metadata is accepted, and the sender of an empty file
  takes that `ERROR` for the `TRANSFER_ACK` (see below). `FileDelivery` has no
  fairness, so this is the safety part and all of it.
- `AckedDurable` (`AckedIsDurable`): in a fresh send, the chunks on their way
  continue the `.part` without a gap, and the acknowledgments, read and unread,
  add up to bytes that are synced (`Durable`). The sum is a running total with a
  witness for each frame, again to avoid induction.

Model-checked only: `AttemptEnds`, a liveness property.

## Consent

How the daemon asks its user. Connection handlers, `transfer_confirm` commands,
`watch` commands and the expiry task share `pending_offers` and the list of
watchers.

- `pc`, `chan` and `outcome` are the handlers: where each one is, its oneshot
  channel, and its decision.
- `offers` is `pending_offers`. An offer is `open` while `respond_to` is in it.
  Removing or replacing an open offer drops the responder, which the handler
  sees as `connection_lost`.
- `registered`, `client`, `queue` and `seen` are the watchers. A client that has
  gone stays registered until the next broadcast, as in the code. A watch command
  that writes (its replay, an answer, an event) waits until the client reads, and
  during the replay it holds the lock of `pending_offers`, which stops handlers,
  confirms and the expiry task (`OffersFree`).
- `confirm` is the confirm commands: take the responder, send, remove the offer.

Assumptions: transfers have ids of their own, while two pairings of one peer
share a key. The expiry task may fire at any time after an offer was inserted.
A write may wait at any line: no size of socket buffer is assumed.

`consent_safety` checks `ConsentGiven` and `NoOfferMissed`. `ConsentGiven` says
that a request put to a user is accepted only by a confirm that said so, and
names who is not asked: a transfer of a peer set to auto-accept, and a pairing
that comes while nobody watches. `NoOfferMissed` needs two watchers: with a
single one there is an offer only if that watcher had registered before it, so
the replay would never matter. Channels of 1 event make the pruning of a full
watcher happen. Two pairings with one key do all that two transfers do, and also
replace and remove each other's offers. Watchers are symmetric in this run.

`consent_ends` checks `WinnerDecides`, `RequestEnds` and `PrunedWatcherEnds`. It
assumes weak fairness of each handler, whose timers fire (120 s for a transfer,
60 s for a pairing), and strong fairness of each watch command: `select!` polls
its branches in random order, so a client that sends line after line does not keep
the command from its channel. Nobody has to confirm, to watch, to read or to
leave. Two premises take the place of that. `RequestEnds` holds if
`pending_offers` is free again and again, that is if no client stays in the middle
of its replay for ever. `PrunedWatcherEnds` holds if clients read, sooner or
later, what is being written to them: until then `write_event` waits.

`WinnerDecides` allows one exception: a confirm that takes the responder after
the handler's timer has fired and before the handler removes the offer is told
that it decided, although the request was rejected. The result of `send` is
ignored.

Proofs (`ConsentProofs`), for any number of handlers, keys, watchers and confirms
and any channel capacity: the three safety properties of the runs, and
`OneWinner` (one confirm decides), `NoOfferLeft` (no offer outlives its request),
`LostOnlyToRival` (only a rival offer makes a request lose its responder). The
invariant `IInv` adds to them what a handler's channel and verdict are at each
point (`HandlerState`), that an offer is under its owner's key and is the one the
owner waits for (`OfferState`), what a confirm holds (`ConfirmState`,
`SoleWinner`, `AcceptSent`), and that a responder is dropped only by a rival
(`DroppedByRival`). `NoOfferMissed` is inductive with `TypeOK` alone. The two
liveness properties are model-checked only.

## Pairing

Two devices A and B, each a daemon or an FFI host, and `N` sessions between
them. `ini` and `resp` are where each side is in a session, `net` and `up` its
connection, `offer` the entry under `pair-<peer>` in B's `pending_offers`, `rx`
the oneshot channel of each handler, `prompt` and `meant` what the user had seen
when they answered, `db` the entries in `paired.db`, `pins` the sessions in which
a side wrote one and `failed` those in which that write failed. The code logs such
a failure and goes on as if paired; one write may fail in a run.

The `pairing` run checks:

- `PinMeansAgreed`: an entry comes from a session this side accepted and, at a
  daemon, the peer accepted too. An FFI host writes it on its own user's word and
  does not read the peer's answer.
- `BothOrNeither`: two daemons that ended a session whose connection was not cut
  both have written the entry, or neither has, unless the write of one failed. A
  failed write, and a cut between the two acceptances, do leave one device paired
  alone.
- `AnswerMatchesPrompt`: sessions share a key, so an answer may reach one whose
  code the user has not seen, but only when the one they saw is over.
- `PairingEnds`: command and responder end between daemons, although the answer of the
  peer is awaited without a timer. Fair are the tasks, the 60 s timers and the
  removal by a confirm. No user is made to answer. The wait for the peer's answer
  ends by the peer, whose own timers are fair, or by a cut, which is noticed.

Two sessions are the least that meet under one key. The codes that users compare
agree when both ends belong to one TLS session and are not modelled.

Proofs (`PairingProofs`), for any number of sessions: `TypeOK`, `PinMeansAgreed`,
`AnswerMatchesPrompt`, `RefusedOnlyToRival` (a request nobody answered is refused
early only if another session of the peer was about) and `NoStalePrompt` (a
prompt that can be answered has a handler that waits). `PinInv` adds what a
message under way says about its sender (`Spoken`), that `PAIR_REQUEST` comes
first and once, and that a side that has not been asked has said nothing (`Asks`,
`Silent`). `PromptInv` adds that only the prompt under the key can be answered
and that its handler waits (`Keyed`), and that what a user has seen was requested
(`Shown`). `BothOrNeither` rests on `TalkInv`: a session of two daemons that was
not cut is in one of five phases, each with the frames under way and the word
each side has given, and a side that has ended left the other a frame from which
it will conclude the same; what it then writes may fail. `PairingEnds` is
model-checked only.

## Receiving

The life of the daemon around its receiving switch. A process pings the socket,
loads `config.toml`, advertises, binds socket and port, serves, and ends by a
signal or a crash; a restart is another process. A process that stops removes the
socket path and ends a step later. `file` is what a process reads of
`config.toml`, `disk` what a power cut would leave: the code does not sync it.
Requests `status`, `set_receiving` and `watch` of concurrent clients take the
locks of configuration, pending offers and discovery in the order of the code.
Connections queue for the permits of the listener. The variables named "history"
record what the properties except.

The `receiving` run checks:

- `AdvertisesAsSet`: a process without a request in flight advertises exactly
  when its switch is on, unless three requests overlapped in a chain, or the
  first advertisement failed and nothing has changed the switch since. Both
  exceptions are real: the switch is read, the advertisement changed and the
  switch written under three separate locks, and a request that finds the switch
  as asked does nothing.
- `SwitchSurvives`: the setting last answered is in force across restarts, crashes
  and power cuts, unless its save failed or was cut (`std::fs::write` truncates
  first), or the power failed before the kernel had written the file.
- `OneDaemon`: one process runs, and socket and port lead to it until it removes
  the path itself, unless a start went past a process that could not be reached:
  its socket not bound yet or removed already, or its answer slower than 2 s.
- `NoneStarves`: where clients read the replay of `watch` they asked for, every
  request is answered or cut by the end of its process, so no two commands wait for
  each other's lock; and a connection waits for ever only behind open sessions,
  never behind handshakes, which have a timer.

Three requests are what it takes for switch and advertisement to part; two
processes are a restart or a race. `MaxLoad` bounds both together. Fair are the
tasks of requests and connections and the handshake timer. Nobody has to start or
stop a process, to ask, to read or to end a session.

Proofs (`ReceivingProofs`), for any number of processes, clients and permits:
`TypeOK` and the three safety properties of the run. `DaemonInv` says that unless
a start raced at most one process is active and whoever serves owns the port, and
the socket until it has removed the path. `SwitchInv` says who saves (one
request, at a live process) and that otherwise file and memory hold the last
answer. `AdvertInv` is the argument for `AdvertisesAsSet`: of two requests that
overlap, the second read the switch before the first wrote it, so both want the
same; whoever has changed the advertisement made it what all of them want, and
before the first and after the last it agrees with the switch. A third request in
the chain breaks this. `NoneStarves` is model-checked only.

## ProtocolFsm

`session_handle_event` and `transfer_handle_event` as sets of rules, one for each
arm: state, event, next state, timers stopped and started, messages sent, and
whether resources are released, the user notified or the resume state kept. The
machines run at a sender and a receiver with a caller that carries out the
actions and ignores an event that is an `InvalidTransition`. Of the chunks, which
the caller carries, only the last one is modelled: `AllChunksReceived` comes with
it or with `TRANSFER_COMPLETE`, as the comment at `transfer.rs:97` leaves open.

The `protocol_fsm` run checks that a machine runs exactly the timer of its state
(`TimersMatch`), that no peer is ahead of what the other agreed to or sent
(`LedByPeer`; a receiver may be completing while the sender still streams, but
only when the last chunk is out), and that transfers and handshakes end
(`TransferEnds`, `SessionSettles`). Only timers are fair: nothing is assumed of
peer, user or network. An established or active session may last, since no arm
starts the keepalive timer; of a close, `SessionSettles` catches the side that
closes, and the side that is told of it stays in `Active` until its connection is
lost. Pauses are bounded, because a user may pause for ever.

Proofs (`ProtocolFsmProofs`), for any number of pauses: `TypeOK`, `TimersMatch`,
`LedByPeer`, and that a timer outlives a transfer only after cancel, fatal error
or loss (`LeftoverOnlyOnAbort`), that every end is told the user except a bad
checksum and a full disk while streaming (`EndIsTold`), and that resources are
released once (`ReleasedOnce`). Each is reduced to a fact about every rule
(`SessionRuleOK`, `TransferRuleOK`), which is checked rule by rule. `LedByPeer`
needs in addition what a message under way says about its sender
(`MessagesLead`).

## Wire and ControlCodec

`ControlCodec` has `encode_to_map`, the decoders of every control message and the
validation of nesting and manifest as operators. A CBOR value is a tagged tuple,
a map is a function from keys, the result of a decoder is a set with at most one
member. Text is abstract; integers are cut with `% U32` where the code casts.

`Wire` runs them over one direction of a connection. Bytes carry the frame and
the position they come from. The network delivers them in any pieces and may lose
a tail; the peer may be a newer program, which adds keys, or a deviant one, which
leaves a key out or makes a frame too long.

The `wire` run checks `TypeOK`, that frames arrive whole and in order
(`InOrder`), that a message decodes to the message itself (`RoundTrip`), up to
four kinds of value whose encoding is that of another (`Canonical` gives the one
decoded), is refused without a key unless the field is an `Option`, and is not
sent when its manifest is too large for a frame, and that everything sent is
delivered while the connection holds and the decoder gives up only on a frame no
correct peer sends (`Delivered`, under fairness of network and receiver). Two
frames are the least for a boundary inside one read; the second ranges over every
message with its options present and absent. Lengths are small but distinct:
below, at and above each limit.

The four kinds are: a known platform named under `Other`, a known error code named
under `Unknown`, the files of a status that is not resumable, and the details of an
error, which the encoder drops. `Recognised` looks names up without the decoder's
tables, so that a name the decoder misses is found. A manifest with a file that
has no size or hash is the only message that is sent and not understood.

The comment at `codec.rs:320` gives a nesting limit of 4; the code has 6, and
`RESUME_STATUS` needs more than 4. Nothing here is proved: what the codec does is
a finite table of cases, which TLC goes through, and framing is checked over every
way of cutting two frames into pieces.

## FfiSession

A host S that connects and sends, and a host R that listens and receives, with
the tasks the calls spawn. `conn` says who has the connection: the call, the
slot in the session, or the reader that took it out; `lock` is the mutex around
the slot; `events` are the bounded event channels; `send` and `recv` are where
`do_send_file` and `do_receive_file` are.

The `ffi_session` run checks `TypeOK` and:

- `CompleteIsStored`: a sender's `Complete` means that the receiver has renamed
  every file with the scanned content; a host gets one verdict for a call, or two
  errors after an offer that timed out.
- `ReceiveAllOrNothing`: a stored file is whole, and a temporary file exists only
  while its file is being received.
- `WindowExact`: `in_flight` is exact.
- `AnswerLostOnlyEarly`: a user's answer is lost only when given before the reader
  put the connection back or after a close.
- `TransferEnds`, `CloseReleases`: sends and receives end; a close releases the
  connection and wakes a blocked accept.

The manifests are: directories only, a file larger than the window followed by an
empty one, and an empty file before another. The last one stalls both sides: the
receiver waits for a chunk, the sender for the next acknowledgement, and neither
has a timer. `Stalls` names it, and the liveness properties except it.

Fair are the tasks, the timers of the code, and hosts that pump their session. No
user has to answer. `TransferEnds` has the premise that a host closes a session
after its verdict (`HostsClose`), as the Android service does
(`NxfrService.kt:1049-1054`): a receiver that failed tells its peer nothing, and
only its close ends the wait of the sender, which reads without a timer. A cut is
noticed by both sides at their next read. A send may fail in its scan, before it
has the connection, and a receive before its first file.

Proofs (`FfiSessionProofs`), from `FfiConstants` alone: any manifests, window and
event capacity. They are all the safety properties of the run.

- `TypeCorrect`: `TypeOK` with the capacity of the event channel and `in_flight`
  within the window, inductive by itself.
- `AnswerReaches` (`AnswerLostOnlyEarly`): `OwnInv` says who has the connection. A
  transfer that runs holds the mutex and the slot; the reader has the connection
  exactly while it reads and puts it back; what the host confirms, the reader had
  read.
- `StoredIsPrefix` (`ReceiveAllOrNothing`) and `VerdictsTrue`
  (`CompleteIsStored`): `FlowInv` says that sender and receiver are at the same
  file or the receiver is one behind, and that the one frame that decides it
  (`FILE_METADATA`, its acknowledgement, `TRANSFER_COMPLETE`) is under way at most
  once. So `TRANSFER_COMPLETE` meets a receiver that has stored everything.
  `SaidS` and `SaidR` say which events each task has issued and has yet to issue.
- `InFlightExact` (`WindowExact`): `WindowInv` says that no chunk or `CHUNK_ACK` is
  under way between files, that the offsets under way rise and lie between what
  the receiver has and what the sender has sent, and that a receiver that has left
  a file had all of its chunks. So no frame that `in_flight` counts is ever
  ignored. The frames are counted with the library's theorems on finite sets.

`TransferEnds` and `CloseReleases` are model-checked only.

## WebShare

The accept loop with expiry, quota, drain and stop; a handler task per connection
with its routes (approval, download, upload); the calls of the host. All clients
share one address and all uploads one file name, the worst case for the failure
count and for collisions.

The `web_share` run checks:

- `ShutdownSparesTransfers`: only a timed-out drain cuts a transfer.
- `LostOnlyToRace`: a stored upload is replaced only by one that had chosen the
  same name before. The check and the rename are two steps, although
  `IMPLEMENTATION_NOTES.md:170` says that final names avoid overwrites.
- `StopEnds`: a stop, and the quota once it is reached, end the server.
- `RespondEnds`: the host's answer to a request takes effect, provided that clients
  read the replies that are written with the mutex of the requests held, or leave.
  The writes have no timer and the list of requests may be of any length.

Only the server's own steps are fair, the one that notices a cancellation
strongly, since `select!` picks at random among the branches that are ready. The
top of the loop reads the time of the last activity and the counter of transfers
in two steps. No client has to send, read or leave. Two connections are the
least for a race on a name or a quota.

Proofs (`WebShareProofs`), for any finite number of connections, quota and limit:
the two safety properties of the run, and `ActiveExact` (the counter that defers
expiry is exact), `UploadAllOrNothing` and `DecisionFinal`. `ActiveExact` is
inductive with `TypeOK`. `UploadInv` adds
that a body about to be renamed is whole and that whoever is about to rename to a
stored name had chosen it before (`RacersKnown`). `DecisionFinal` needs that a
request belongs to a connection that has been served.

## What the code does that its documents do not say

Only `transfer_resume_hangs` is a run of its own. The others were found while
modelling, and the models contain them; where a property meets one, its
definition names the exception.

- An empty file sent by the daemon never ends (`receiver.rs:71`,
  `PROTOCOL.md:1192`).
- A retry may append to another content's `.part` (`receiver.rs:57`,
  `PROTOCOL.md:1345`). The final hash check catches it.
- `RESUME_STATUS` offers bytes whose `.part` was removed (`receiver.rs:202`,
  `PROTOCOL.md:1008`).
- Expiry deletes the journal and leaves the `.part` (`resume.rs:123`,
  `PROTOCOL.md:1552`).
- An `ERROR` in place of `TRANSFER_ACK` is reported as success
  (`handler.rs:1193`, `PROTOCOL.md:960`). `RefinesDelivery` is therefore
  checked without `jail`.
- A confirm that loses to the timer is told ok (`ipc.rs:477`; `lib.rs:75`: "First
  confirm wins").
- `SESSION_CLOSE` received in `Active` has no transition (`session.rs:306`).
- The web server reads the headers of an upload's part without a timeout
  (`nxfr-web/src/lib.rs:2635`, `IMPLEMENTATION_NOTES.md:166`).
- `nxfr_close` waits up to 3 s for a transfer that holds the connection and then
  leaves it running (`nxfr-ffi/src/lib.rs:2235`, `IMPLEMENTATION_NOTES.md:61`).
- A pairing that comes while nobody watches is accepted unasked (`handler.rs:528`;
  `PROTOCOL.md:621` has the user confirm on both devices). `ConsentGiven` names it.
- The `details` of an `ERROR` are not encoded (`PROTOCOL.md:691`,
  `PROTOCOL.md:1466`).
- The IPv6 listener is bound and dropped at once (`listener.rs:110`).

## How the proofs are laid out, and what is out of reach

Eight modules hold the proofs, each beside the model it extends. Every one starts
with `USE ZenonT(30), SMTT(30)`: a leaf goes to Zenon first, which takes most of
them quickly, and cites `SMTT(30)` where it needs arithmetic, sequences or
extensionality. Steps are first sorted into families by what they leave alone, so
that an invariant is disturbed in few places.

Each safety property of a run is proved, with the exception of those of `wire`:
a proof of `RoundTrip` would repeat the table of cases that TLC goes through, the
depth of a nested value is computed by recursion over data, which is beyond the
provers, and `TypeOK` and `InOrder` have not been attempted. Liveness under
fairness stays with TLC as well: `AttemptEnds`, `RequestEnds`,
`PrunedWatcherEnds`, `PairingEnds`, `NoneStarves`, `TransferEnds`,
`SessionSettles`, `Delivered`, `CloseReleases`, `StopEnds`, `RespondEnds`. These
are shown for the instances of their runs and no other.

## Not modelled

- Two handlers at once on one `.part` (`receiver.rs:65`). It takes inodes and
  file offsets, which path and handle no longer share after a rename.
- The path sanitiser, HTTP parsing, multipart, byte ranges and ZIP: conversions of
  text without state. ZIP sizes are cut to 32 bits (`nxfr-web/src/lib.rs:2233`).
- The layout of headers and chunk payloads in bytes; the keepalive payload.
- The browse cache, the transfer history, the identity: read by nothing that
  decides.
- The FFI calls around identity, paired devices, history and the web server, and
  their Java names: argument conversion around one call.
- TLS, certificates and key generation: library code.
- The command line, a client without state; the loopback harness and the fuzz
  targets, test programs.
- The Android app. Its service calls the FFI library in an order that
  `FfiSession` and `Pairing` leave open; its discovery reacts to callbacks of the
  platform, whose order no source here tells; the rest is presentation.
