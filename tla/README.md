# A TLA+ model of macvnc

macvnc is a Windows desktop client for macOS High Performance (HP) Screen
Sharing, written in Rust (`src/rust/crates/`). This directory holds TLA+ modules
translated from its source, TLC runs that check them on small instances, and
proofs that TLAPS checks for all values of the constants.

Paths below are relative to `src/rust/crates/`; `app/` stands for
`macvnc-app/src/`, `hp/` for `hp-protocol/src/` and `media/` for `hp-media/src/`.

## The system

### Parts, threads and how they meet

    user -> UI thread --commands (256, try_send)--> backend thread --TCP--> Mac
            (eframe)  <--events, newest picture---   run_session   <-UDP--
              |                                          |
              | Mutex<Shared>, jobs(1)                   | pump / reply
              v                                          v
            transfer Client          replies(8) -> transfer worker (one per
                                     <- outbound(2)    HP session, disk)

            Updater --thread--> download worker --process--> helper --process--> new app

* The **UI thread** runs `App::update` once per frame. It never blocks: commands
  go through `CommandSender`, a bounded queue; a full queue cancels the session
  instead of losing a key release.
* The **backend thread** waits for `Connect`, then runs `run_session`: commands,
  `poll_control`, `Session::pump`, UDP packets and publication, in one loop. It
  alone owns the connection. What it tells the UI goes through an event channel
  and a slot for the newest picture.
* A **transfer worker** per HP session does the disk work of one file at a time.
  It shares three channels and three atomics with the backend thread, and a
  mutex with both others. It may outlive its session.
* The **update helper** and the app that it starts are processes of their own;
  they share only the file system with the app that started the update. So do
  this start of the program and the next: what one saves of a connection, the
  other reads.
* The **Mac** and the **network** are external. Every message of the Mac is one
  of those the code can parse, in any order.

### Inventory

| Part | State | Operations | What is hard | Correct means |
|---|---|---|---|---|
| File transfer (`app/transfer.rs`) | `Shared`: generation, route, cancel flag, snapshot; per session jobs, replies and outbound channels, `closed`, `disconnect`, `active_id`; the worker's locals; the destination | submit, cancel; `Session::new`, `pump`, `reply`, drop; the worker's loop, `upload`, `download` | three threads, workers of several sessions, bounded channels, timeouts, cancellation at every step, another program at the destination | one transfer at a time; complete only if the Mac said so; nothing half written; no thread waits for ever |
| Desktop input (`app/main.rs`, `app/input.rs`) | connected, connecting, cancelling, texture, pressed keys, modifiers, buttons, pending paste, clipboard owner, panels | one frame: drain paste, events, toolbar, canvas; connect, disconnect, exit | frames interleave with the session; a paste takes many frames; focus and panels change with keys held | the Mac holds down nothing that the app does not know of; input stays in its session |
| Session lifecycle (`app/backend.rs`) | command queue, `cancelled`, event and frame channels, phase of `run_session` | recv, negotiate, loop, end, discard, report | the user cancels, quits or reconnects at any moment | a disconnect completes, a connection is answered, a cancelled view is not revived |
| Control channel (`hp/record.rs`, `hp/control_io.rs`, `hp/lib.rs`, `hp/file_transfer.rs`) | record sequence numbers, backlog with offset and count, `stalled_since`; receive buffer, the decoder's unfinished message, the messages that wait | send, bulk send, flush, poll, decrypt | partial writes, a blocked socket, a limit reached after a sequence number was used up; records cut by TCP, messages cut and joined by records | an ordered stream of whole messages; a stall is noticed, and only a stall |
| Connection and layout (`hp/lib.rs`, `hp/offer.rs`, `hp/metadata.rs`, `hp/network_stats.rs`) | stream size, `LayoutRecovery` (the size last offered for, the one that is due, since when), `connect`'s time limits | connect, inspect a message, observe, re-offer | the layout changes again before it is stable, or while an answer is under way | one update request at a time and never none; the client does not rest on another layout than the Mac's |
| SRTP receiver (`media/srtp.rs`) | per source the highest index and a 128-bit window | unprotect; protect | 16-bit numbers wrap, packets are lost, late, doubled, damaged | no replay, no wrong index, no fresh packet refused |
| Depacketizer (`media/depacketize.rs`) | observed and selected sources, open groups, loss epoch, generation, byte and count limits | push, poll | reordering across pictures and wraps, loss seen only later, limits, a source that takes over | only whole pictures leave, in order; none waits for ever |
| Recovery and publication (`app/backend.rs`, `media/compositor.rs`, `media/lib.rs`) | keyframe gate, tiles, geometry, published picture | decode, gate, compose, publish | loss inside a batch, geometry known on two channels | nothing is shown that was decoded before the last loss and the keyframe after it, no mixed configurations |
| Decoder (`media/decoder.rs`) | FFI handles | decode | none of its own | |
| Update download and installation (`app/updater/mod.rs`, `install.rs`) | update state, the release on offer, cancel and exit flags; helper phase; install folder, backup, package; marker files | check, download, verify, unpack, hand over, launch; run_helper with transaction, restart, rollback; acknowledge, clean up | five actors on one file system, any operation fails, any process dies, markers race time limits, the site replaces files between requests | the previous version is never lost; one version, whole, the one offered and verified; confirmed by the app that runs |
| Update package and UI (`app/updater/package.rs`, `ui.rs`) | none | parse the release, checksum, extract, verify; draw | what was checked is replaced before it is used | nothing is used that was not checked |
| Profiles (`app/profile.rs`, `app/main.rs`) | the own file and two of earlier clients; the form, Remember, the automatic connection | load, save, forget, connect by hand or on launch | a save fails or is cut short, files are edited or replaced between two starts, a password cannot be decrypted | the next start reads what was saved last; a password goes unasked only where the user took it |

The hazards of this code, each at its line and with the properties that watch it,
are in `PROJECT.json`.

## The modules

| Module | Models |
|---|---|
| `FileTransfer` | all of `transfer.rs`: UI client, session thread, a worker per session, external Mac and disk |
| `InputSession` | `App::update`, the command queue, the backend's lifecycle, what is down on the Mac |
| `ControlOutbound` | the sending half of the control channel, the socket and the Mac's record layer |
| `ControlInbound` | the receiving half, what it drives (update requests, file messages, layout recovery, `connect`'s loop), and the Mac |
| `MessageStream` | abstract: what a direction of the control channel promises |
| `SrtpReceiver` | `SrtpReceiver::unprotect` and `SrtpSender::protect` over a lossy, duplicating, reordering network |
| `Depacketizer` | the depacketizer as operators on a record: `Push`, `Poll` and their parts |
| `VideoPipeline` | the media part of `run_session`: packets, depacketizer, keyframe gate, decoder outcome, compositor, publication |
| `UpdateInstall` | release check, download worker, the site, helper, the app it starts, and the files |
| `Profiles` | the saved connection over several starts of the program, the form, others at the files |
| `FileTransferProofs`, `InputSessionProofs`, `ControlOutboundProofs`, `ControlInboundProofs`, `SrtpReceiverProofs`, `VideoPipelineProofs`, `ProfilesProofs`, `UpdateInstallProofs` | the theorems |
| `MC...` | definitions for the instances in the `.cfg` files |

`VideoPipeline` extends `Depacketizer`. Otherwise the parts meet in few places, and
each module has the actions of its neighbours that reach it (`SessionFails` in
`FileTransfer` stands for everything that ends `run_session`; `SessionOver` in
`InputSession` for a transfer that ends the session, among others;
`ControlOutbound`'s `SendBulk` is what `PumpSend` calls, and its refusal is
`PumpSend`'s `Yield`; what `SrtpReceiver` hands on, once each and in any order,
is what `VideoPipeline` receives; an answer of a new size in `ControlInbound` is
`VideoPipeline`'s `Reconfigure`; the file messages `ControlInbound` hands on are
`FileTransfer`'s `taken`). Both halves of the control channel implement
`MessageStream`, and each takes the other direction for what `MessageStream`
promises: a queue.

Some definitions stand before the real one with a name that tells what is wrong
with them (`MatchesAny`, `PushLossy`, `Slide...`): plausible mistakes in that
definition, listed under "mutants" in `PROJECT.json` with the property that finds
each. They are used nowhere in the specifications.

### FileTransfer

State: the fields of `Shared` (`gen`, `route`, `current`, `busy`, `status`), the
cancel flags, the session thread's place in `pump` (`spc`, `taken`, `pending`),
the channels and atomics by session, and a record `w[s]` with each worker's
place and locals. Steps are as fine as the threads can see each other: `reply`
is two steps (`ReplyMatch` compares the id, `ReplyDeliver` queues), a drop is
two (`DropClose` sets `closed`, `DropRelease` takes the mutex and then lets go of
the channels), and the worker has a step per lock, channel operation or atomic.
`Prepare` joins everything that is refused before the Mac hears of a transfer.
A job is a number, contents are counted in chunks, all downloads go to one path
(`dest`), a reply is its id, kind and size. A time limit may run out at any
moment (`ReceiveFails`, the second part of `Send`).

`Submit` models only the success: each refusal of `Client::submit` returns
before anything changes.

`MacRepeats` says whether the Mac may go on about a transfer it has ended. Only
without that do `CompletionConfirmed` and `RepliesBelongToTransfer` hold, see
"Known limits".

### InputSession

State: `App`'s flags and input, the user's hands (`held`, `cmdHeld`, `focused`),
the command queue, the two channels back, the backend's place, and what is down
on the Mac. `App::update` is four actions in a row (`phase`): the paste, the
events and the picture, the toolbar, the canvas; the backend runs between them.
A canvas action is a whole `remote_input`: it brings the modifiers in line,
handles one event and sends. `release_input` is `Releases` with `Forget`.
`SendAll` is `CommandSender::send` for a list: what does not fit is lost and
cancels the session.

Each command carries the number of the connection it was made for, as history.
The modifiers are one key, as are pasted characters and the letter of a
replayed shortcut. Pointer motion, the wheel, IME composition, zoom and
fullscreen are left out: they press nothing that stays down. `Acts` says what
the user does in an instance; "Findings" and "Known limits" say why not every
run has all of it.

### ControlOutbound

State: `RecordLayer.enc_seq`, the fields of `Outbound`, `flush`'s locals, the
fragments on the wire and the Mac's place in the stream. `Send` is
`encrypt` followed by `push`; it enters the flush, whose writes are single steps
(`Write` takes any number of units, `WriteBlocks`, `WriteInterrupted`,
`WriteFails`), so that the network and the Mac act between them. A refused
push, an exhausted sequence and every error end the session, because
`run_session` passes them on with `?`. A record is its sequence number, message
and length; the cipher and its chained IV are the rule that the Mac can only
read records in sequence. `stalled` and `sinceWrite` are ages, advanced by
`Tick`; the second is history, kept independently to judge the first.

### ControlInbound

State: `HpConnection`'s receive buffer, `dec_seq`, `Decoder.pending`,
`file_messages`, `stream_config`, `LayoutRecovery`, the locals of `poll_control`
and of `connect`'s loop. A poll is taken apart: `Poll`, up to `Reads` times
`Read`, `Drain` (all complete records are verified before any is looked at),
`Feed` and `Inspect` for each record, `TakeDue`, `AfterPoll`. `inSession` tells
whether the loop around it is `connect`'s, with its deadline and repeated offers,
or the session's, which takes the file messages. A record is two pieces of TCP
data, so that a read may end inside one; a file message is two units, so that a
record may end inside one; `Decoded` is `Decoder::feed` on units: messages off
the front while they are complete, then nothing, the start of a message, or
other control data. An answer is a usable size, one without a usable
configuration, or one that is refused. The Mac answers each request with one
update and each offer with one answer for the layout it has then; that it does
not put anything behind an update in one record is assumed, because
`inspect_control` would not see it.

`LayoutRecovery`'s time and `connect`'s are ages that `Tick` advances between
polls. `sentFiles`, `gotFiles`, `sentUpdates` and `gotUpdates` are history.
`MaxEvents` bounds how many things happen together; layouts alone (`Quiet`) may
change `MaxLayouts` times.

### SrtpReceiver

State: per source the sender's next index, and the receiver's `highest` and
`seen`. A datagram carries the low part of its index and, standing for the
authentication tag, the rollover counter it was protected under; noise has a
counter that nothing guesses. Every datagram ever sent may arrive at any time
and any number of times. The `u128` is the set of the positions of its bits;
`Slide` is its shift with the code's case for 128 and more. A guess beyond
`u32::MAX` is refused (`GuessFor(p) <= MaxRoc`), as in the code.

### Depacketizer and VideoPipeline

`Depacketizer` has no variables: the struct is a record `d`, and `push` and `poll`
return it with the access units they emit, so that a call is one step, as in the
code, with everything it does on the way: adoption or hand-off of a source, the
replay of a candidate's prefix with a poll for each packet, eviction, ageing. The
times of the code are kept as ages up to the largest they are compared with.
A packet is a unit of bytes and holds parameter sets, the beginning of a
picture's first slice, or more of its slices; whether fragments and aggregation
packets parse is thereby decided by which packets are there. `givenUp` and
the fields `pic`, `whole`, `slices` of packets and units are history.

`VideoPipeline` is the loop of `run_session`: `Reconfigure`, `Receive` for each
packet, `EndReceive` (the last poll), `DecodeUnit` for each unit, `Publish`. Its
variables are the loop's locals. All packets that the Mac will send are in `air`
from the beginning: they may arrive at any time, in any order, or never. FFmpeg
may return a picture, nothing or an error for anything, so no property leans
on its noticing a missing reference. What is composed carries the configuration,
generation and epoch it was made under (`Band`), to judge what is published.

### UpdateInstall

State: the app's update state and flags, the release on offer, the places of the
worker, the helper and the new app, the site's releases and files, the three
directories as functions of the managed entries, and the marker files. An archive
is a version, a length in chunks and whether its layout is sound; a checksum is
the archive it is of. `Check` and `Found` are `check` and `find_release` with
`parse_release`'s conditions; `Begin`, `FetchSums`, `OpenArchive`, `Chunk`,
`EndOfArchive`, `Extract` and `AcceptPackage` are `prepare`, each with the
cancellation it looks at; `Publish` changes the site between any two of them,
`Tamper` the unpacked package until `Open` (`Transaction::new`) has verified it
again. `at` walks through `Order` (`apply` forwards, `rollback` backwards).
Every file operation has a failing alternative, `HelperDies`, `Quit` and
`ChildEnds` stop a process anywhere. `RestoreFails` leaves the entry as it was or
without its new file, which is what `rollback` can leave behind. Markers are flags
of the staging directory and go with it.

### Profiles

State: the three files, what the program holds of the connection while it runs
(`form`, `remember`, `autoPending`, the attempt under way), whether it is in a
save, and as history what the user has granted (`granted`: destination and
password of a connection made by hand with Remember ticked, until forgotten) and
the last save that was taken for done (`kept`). `Load` is `load_from` for the
first of the paths that exists, with the binding of a password to its
destination (`Opened`) and the rule for an automatic connection (`Unasked`).
`Connect` has the early returns of `App::connect` as disjuncts; a save is two
steps (`BeginSave`, then `SaveDone` or `SaveFails`), between which the program
may be killed (`Stop`). That the password can be decrypted is chosen at each
load. `EditOwn` and `LegacyClient` are others at the files. A host, port and
account are one destination; cases are one without a host or account and one
with a bad port.

## The runs

`tlc -workers 2 -config X.cfg M` in this directory. Deadlock is not checked where
the bounds, or a finished session, let everything stop; `srtp_window` checks it.

| Run | Module and configuration | Distinct states |
|---|---|---|
| `transfer_jobs` | `MCFileTransfer`, `FileTransferJobs` | 2 920 000 |
| `transfer_sessions` | `MCFileTransfer`, `FileTransferSessions` | 112 000 |
| `input_keys` | `MCInputSession`, `InputSessionInput` | 2 492 000 |
| `input_reconnect` | `MCInputSession`, `InputSessionReconnect` | 246 000 |
| `input_panel` | `MCInputSession`, `InputSessionPanel` | a counterexample |
| `control_outbound` | `MCControlOutbound`, `ControlOutbound` | 89 000 |
| `control_inbound` | `MCControlInbound`, `ControlInbound` | 450 000 |
| `srtp_window` | `MCSrtpReceiver`, `SrtpReceiver` | 10 700 |
| `video_pipeline` | `MCVideoPipeline`, `VideoPipeline` | 352 000 |
| `video_earlier_key` | `MCVideoPipeline`, `VideoPipelineEarlierKey` | a counterexample |
| `update_install` | `MCUpdateInstall`, `UpdateInstall` | 444 000 |
| `profile_store` | `MCProfiles`, `Profiles` | 1 669 000 |

**transfer_jobs** - a download and then an upload in one session. A transfer is
complete only on the Mac's END for it, the worker takes replies about its own
transfer only, the Mac has an upload whole, nothing is requested after a partial
failure, and a file is published at once, complete and over nothing. Channels of
one place fill with the first message, so that both sides meet a full channel; a
chunk more would repeat the loop; three replies are an announcement, the data and
the end, or an overrun.

**transfer_sessions** - two sessions and two downloads. The first worker can be
anywhere, its report included, while the second session accepts its request: the
slot belongs to the newest session's job. With fairness (`TransfersSettle`), the
slot is freed, the worker of a closed session ends, a partial failure ends the
session. One answer of
the Mac, then silence, is the case that matters: everything else rests on time
limits. (That a transfer completes is in `transfer_jobs`; both at once is too large.)

**input_keys** - keys, mouse, Command, focus, panels, copy, cut and paste against a
queue of 2 (one release too many for it), the paste drained one command at a
time, so that everything else falls between the two halves of a character: what is down on
the Mac is known to the app, characters are typed with Command up and shortcuts with
it down. All three invariants are proved for every capacity, batch and text.

**input_reconnect** - two connections, a paste that spans frames, a queue of 2:
no input crosses sessions, a cancelled view stays cancelled, and (fairness) a
connection is answered and a disconnect completes, also when it did not fit the
queue (`SessionSettles`).

**control_outbound** - four sequence numbers (so that they run out), records of
1 or 2 units, a backlog of 5, bulk up to 2, a flush of 3 units or 2 writes, one
fragment on the wire: partial records, refusal by the backlog, a flush that ends
for each of its reasons. The Mac keeps its place, a stall is real, the messages
form a stream (`StreamSpec`, a refinement of
`MessageStream`), and (fairness) what was taken is written or the session ends.

**control_inbound** - pieces that arrive singly or in twos, so that a read ends
inside a record and a poll sees several; records of up to two units; two file
messages, one of which may wait, two sizes, three changes of the layout, one
fault of every kind (`damaged`, `malformed`, `closed`, `interrupted`, `send`,
`unusable`, `refused`). File messages and updates each form a stream
(`StreamsSpec`), and a session is broken off for a record or a message only if
the Mac sent such a one; there is always exactly one update request or answer
under way (`OneRequest`); once told everything, the client has offered for the
Mac's layout or is going to (`LayoutTracked`), also when the layout changes and
changes back within the stabilisation; and (fairness) every negotiation
settles. The safety properties
are proved for all values of the constants that `ConstantsAssumption` admits.

**srtp_window** - 12 indexes of 4 sequence numbers, so that the counter wraps
twice and runs out, a window of 2 out of half the space of 2, two sources for one
state.

**video_pipeline** - up to three pictures of a source, of every shape (a key, with
parameter sets in a packet of their own, two fragments, more than a group may have,
nothing but sets), one source, two that replace each other, or two bands; a
reconfiguration at any point. 8 sequence numbers and timestamps wrap within them;
two groups, two packets a group and three in all make every limit bite, and the
time limits keep their order. Whole pictures only leave, in order; what is
published comes from one configuration and generation, after a keyframe since the
last loss; and (fairness) no group stays.

**update_install** - an entry that only the new version has, two that both have,
the executable last; two attempts; releases of three versions, one a draft; four
archives that differ in one respect each; one publication and one tampering at
any moment. Failures and ends of processes are unbounded. A release of which both
the checksum and the archive are replaced takes two publications; for that, as
for longer bundles, the safety properties are proved.

**profile_store** - two destinations, two passwords, a file of an earlier client
in either of its places or none; two starts and one edit from outside, before or
after a failed or interrupted save, a forgotten connection or an older client's
file. Both properties are proved for every number of them. The next start reads what was saved
last or forgotten (`RestartReads`, a statement about what any start would read,
so that the second start is there for `AutoAsGranted`).

The bounds repeat each loop at least once and fill each queue; what they do not
show, values of the limits other than these, is what the proofs are for where
there are proofs.

### Fairness

* `FileTransfer!FairSpec`: the session thread and each worker go on. The backend
  loop never blocks for long, every wait of the worker has a time limit of at
  most 15 s (`transfer.rs`), so `ReceiveFails` and `Send`'s failure are part of
  the fair action. The user, the Mac, the disk's other users and `SessionFails`
  are not fair.
* `InputSession!FairSpec`: frames go on, because `update` requests a repaint every
  100 ms; the backend goes on. `Negotiate` is fair because the handshake has time
  limits, `Cancelled`, `Orphaned` and `GiveUp` because the loop looks at the flag,
  the queue and the 25 s limit in each turn. Input, publication and a failing
  connection are not fair.
* `ControlInbound!FairSpec`: the loop goes on, and sleeps between polls (20 ms in
  `connect`, 1 ms in the session), so that time passes in infinitely many of them
  (strong fairness of `Tick`, which is not enabled inside a poll). Nothing is
  assumed of the Mac; that it answers no offer is what the deadline is for.
* `ControlOutbound!FairSpec`: `run_session` polls in each turn, a flush runs to its
  end, time passes. The Mac and the network are not fair: that the session ends
  when they stop is part of what is checked.
* `VideoPipeline!FairSpec`: the loop goes on, and sleeps 1 ms in each turn, so that
  time passes in infinitely many of them (strong fairness of `Tick`, which is not
  enabled while units are decoded). No packet needs to arrive.
* `UpdateInstall!FairSpec`: the check and the worker, helper and the started app go on, since every
  wait has a limit (10 s for the helper's announcement, 120 s for the app's exit,
  20 s in `await_start`), and the app quits once `exit` is set, which
  `should_exit` is asked about in every frame. A request of the check or the
  download has a time limit of its own.

`Profiles` has no liveness: every step of it is the user's, or is over at once.

`SessionSettles` speaks of attempts the backend has in its hands (`Answerable`). A `Connect` that meets a full queue is lost without an
event; that needs a backend that has not run while the UI sent 256 commands.

## Proofs

Checked by `tlapm M.tla` for the eight modules `...Proofs`. They hold for all
values of the constants that satisfy the module's named assumptions, and need no
other.

**FileTransfer** (`ConstantsAssumption`). `TypeCorrect`, `BusyCovers`, `UploadsInFull`
and `FailedIsLast` hold of every Mac; `RepliesBelong`, `CompletesConfirmed` and
`PublishesWhole` have the assumption `~MacRepeats`, and the first entry of "Known
limits" shows that they need it. They cover any number of sessions, requests,
ids and chunks and channels of any capacity. The invariant `IInv` is built up
in the order in which its parts lean on one another. `Lives`: sessions follow one
another, only the live one is routed to. `Slots`: what is queued or worked on is
what the view shows, which contains `BusyCoversJob`. `Owned`: a job is in one place
and gets one id that no other job has. `Locals`: the worker's locals at each place
of its code. `MacHas` and `Stream` carry the upload: what the Mac holds, then the
messages still on their way through the worker, the channel and the session
thread (`Line`) have each a place in the transfer of a job, and the places follow
one another; the places are a function whose existence the invariant states,
instead of a recursive parse of the line. So an end that arrives has the whole
upload before it, whatever was cut off earlier. `Asked`: ids are requested in
order, none after one that failed. `Answers`: what a worker has not read yet,
in its channel or in the session thread's hands, is about its own transfer and
has at most one end, the last; this is what a comparison of ids made before the
queueing does not give, and what `~MacRepeats` does.

**InputSession** (`ConstantsAssumption`, and `KeysAssumption`: finitely many keys, and
Command, the typed character and the shortcut's letter are further ones).
`TypeCorrect`, `SessionsApart` and `ClosingStaysClosed` hold of every set `Acts`.
`NoKeyLatched` is for sets without `"repeat"` and `"panel in paste"`, `PasteMeetsCmd`
for sets without `"copy in paste"`: these are the acts under which the properties are
false (see Findings and Known limits), so the two theorems say that nothing else can
break them; the run has the same condition. `OnlyTrackedKeysDown` speaks of the moments
at which nothing is under way, and is far from inductive. `Turns`: the UI and the
backend take turns at the queue, and which of them may have put what there. `PasteOwn`
and `Blank`: what the paste holds is its own session's, and without a session nothing
is down. `Begun`: a session starts with an empty queue and nothing down. `Tracked`
speaks of the Mac as it will be: with the queue applied to what is down now (`Up`, by the
last command about a key), all that the app does not track is up; a character of a paste
may instead be released by what is still to be typed. It is kept by a step that sends, a
step that takes the head of the queue, and, since a command that does not fit ends the
session, by one that is refused. `ModsTracked` says the same of Command, in both
directions. `Meant` is about each place in the queue, not its end: what
is down there once all before it is applied.

**SrtpReceiver** (`SrtpAssumption`: the window is at most half the sequence
space). `TypeCorrect`, `HandedOnceAsSent`, `WindowIsHistory`,
`InReachIsAccepted`. `WindowExact` is the heart: the window alone does not say
that an index was not handed on, so the invariant ties it to the history, in both
directions, and adds that nothing above `highest` was handed on and that all of
it was sent. With it a replay is either too old or marked. That an authentic
packet has the sender's index needs only `roc` and `seq`; that a packet in reach
is accepted needs that the guess is right for it, which the lemma `GuessRight`
proves from |i - highest| < Half.

**ControlOutbound** (`ConstantsAssumption`). `TypeCorrect`, `MacKeepsPlace`,
`CountIsExact`, `StallsAreReal` and `ImplementsStream`, which says that the module
implements `MessageStream`: each send that is taken is a `Send`, a record that the
Mac completes a `Deliver`, an end a `Close`, all else stutters. `MacInStep` is not
inductive: the invariant `IInv` says that what the Mac has, then the wire, then
the backlog from its offset on, is one stream of records with consecutive numbers
and contiguous pieces (`Backlog`, `InOrder`), that no sequence number is missing
as long as the session goes on (`Going`), and that `bytes` is what is left of the
stream. The last needs the sum of the records' lengths; instead of a recursive
sum, `Counted` says that there are start positions, each a record's length after
the one before, from the first to the end (`Starts`). `Stalling` ties the code's
timer to the independent one.

**ControlInbound** (`ConstantsAssumption`: the limit on what waits is not below what
one poll reads, as in the code). `TypeCorrect`, `Blames`, `OneUnderWay`,
`TracksLayout` and `ImplementsStreams`, which says that file messages and updates
form a `MessageStream` each. A body that holds several file messages hands them
over in one step; that is why `Deliver` takes any number of next messages.
The invariant is about all that the Mac has said and the client not yet acted on.
`Line` states that there are a sequence of units (`all`), the places where it is cut
into records (`cut`), and for each place the numbers of file messages and updates
that begin before it (`nf`, `nu`), such that the units are the messages that were sent
(`Written`), the records follow one another and an update ends its record
(`Records`), no piece is missing between the buffer, the wire and what is not packed
(`Wire`), the bodies are the records decrypted last (`Decrypted`), and what was fed but
not acted on is the unit in front of the next body (`Kept`); then what the client has
got is the beginning of what was sent (`Seen`). Existence takes the place of a
recursive parse. `Decoded` takes the greatest number of whole messages; that one
exists, and that each of them is the next one sent, goes by induction in the form of
`Induct`: a set that has 0 and with each number the next one has all numbers.
`Reading` bounds the buffer in the course of a poll: only less than a record is left
from the one before. `OneAsked` counts requests and complete updates in their queues.
`Tracking` says what the last layout on its way is: the Mac's; if there is none, the
one the client offered for or will; and before it has a configuration, that of the
first usable answer behind which no layout follows.

**VideoPipeline** with the `Depacketizer` in it (`DepacketizerAssumption`: a
candidate keeps fewer packets than there may be groups, as in the code;
`PlansAssumption`). `TypeCorrect`, `UnitsAreSound` and
`PublicationIsSound`: all the safety properties of the run, for any sources, limits
and time limits and any size of the two spaces of numbers. `PlansAssumption` has a
source send pictures over less than half the timestamps (6.6 hours at 90 kHz), each of
no more packets than there are sequence numbers. In the model a packet may be delayed
as long as the session lasts, so without the first an old picture would pass for a
new one, and without the second two packets of a picture would look the same.
The invariant says that there is one plan such that all packets, wherever they are,
are packets of it (`Sound`). Then a group has packets of one picture, since timestamps
within half the space tell pictures apart (`TimesApart`), and the arithmetic of
reassembly can be compared with the plan: the lemma `GroupIs` shows that packets consecutive
from the marker back to the first slice, modulo the size of the space, are all slices
of the picture, and that something is missing where they are not.
`Waiting`, `Fits` and `Candidates` are the limits; an oversized group exists between
`Changed` and the poll that follows in the same call, hence `Fits` apart. `InLine`
keeps the units, the bands that are shown and the last timestamp of each source in the
order of its pictures: the units of a batch come before what is still to be emitted
(`Reached`), and after what is shown. `Decoded` ties the loop's `generation`,
`loss_epoch` and `needs_keyframe` to the stamps of the bands. `Poll` and the replay of a
candidate's packets are folds; `PollFold` and `ReplayFold` say that a sequence of
states exists of which each is one step after the one before, and properties go along
it by `Induct`, which is also how the sums of bytes that wait (`Pending`) are
compared when one group changes, goes or comes.

**UpdateInstall** (`InstallAssumption`: the entries are listed once each, and the
installed version has the executable; `Current`, `Tags` and `Archives` are
numbers and records). `TypeCorrect`, `NothingIsLost`, `OneVersionRemains`,
`InstalledIsVerified`, `CancellationHolds`, `ReplacedAfterExit`: all the safety
properties of the run, for every number of managed entries. None is inductive.
`Exclusion` says who may be where, so that the helper works only once the app is
gone and for a handover that was not cancelled; `Intact` that until then nothing
of the installation has been touched; `Offer` carries what `prepare` established
(the archive is that of the checksum and of the release on offer) to where it is
used; `Place` is the invariant of the two loops: where the helper is tells in which
of four states each entry before, at and behind `at` is; and `Started` says of
which app the helper may believe an acknowledgement.

**Profiles** (`DestsAssumption`, `PasswordsAssumption`, `LegacyAssumption`: earlier
clients leave no password bound to a destination, `BoundsAssumption`).
`TypeCorrect`, `WhatRestartReads`, `UnaskedAsGranted`. `Bound`: a bound password
in the own file, whatever the fields next to it now say, was granted for the
destination inside the secret. `Pending`: so was what the form holds while an
automatic connection, or the save it began, is still to come. `Kept`: unless
others changed it, the own file is what the last finished save wrote.

Model-checked only: the six liveness properties (temporal reasoning about fairness and
ENABLED is beyond the prover). Every safety property of a passing run is proved. What
the other two runs refute is false of the code in their instances (see Findings);
of `LossNotCleared` nothing is proved.

## Findings

**A key-up lost with a paste** (`input_panel`). Opening a panel clears
`pending_paste` (`main.rs:694`, 699). The paste begins with one clipboard command,
so its even batches of 128 end between a character's key-down and its key-up;
`release_input` does not know that key. `input_keys` opens panels only
when nothing is being pasted.

**A later loss cleared by an earlier keyframe** (`video_earlier_key`).
`backend.rs:431`-432 says "Loss after the last emitted picture must not be cleared
by an earlier keyframe in the same UDP batch", and a test of the depacketizer is
called `loss_epochs_preserve_drop_order`. Losses are counted in the order in which
groups are polled, that of their first arrivals (`depacketize.rs:296`). A picture
whose first packet overtakes the keyframe before it, and which then turns out
damaged, is given up first; the keyframe leaves after it with the new epoch and
opens the gate (`backend.rs:374`-408) for the pictures that need the lost one. Only
the decoder's own report of a missing reference can then stop them.
`PublishedSound` holds all the same: it counts keyframes and losses in the order of
reassembly, as the code does.

## Known limits

Where a property holds only under a condition, the run has the condition; these
are the cases outside. The first four were seen in runs of the modules without
the condition, the others are read from the code.

* **A late reply can complete the next transfer.** `Session::reply` compares the id
  of a message with `active_id` and queues it afterwards (`transfer.rs:179`-182).
  Between the two the worker can finish the transfer, take the next job and
  drain the channel; `upload` and `download` do not look at the id again, although
  `docs/FILE_TRANSFER_VALIDATION.md:41-42` says that replies for another transfer
  ID cannot complete the current job. It takes a Mac that says something more
  about a transfer after its END: with `MacRepeats = TRUE`, `CompletionConfirmed`
  is violated.
* **Autorepeat after a release.** An autorepeat is sent but not added to `pressed`
  (`main.rs:411`, 414). After the keys were released, with the key still held by
  the user, the repeat presses it again on the Mac, and the next loss of focus
  does not release it. With the act `"repeat"`, `OnlyTrackedKeysDown` is violated.
* **Copy while a paste drains.** While `pending_paste` is not empty the modifiers
  are not brought in line (`main.rs:313`), and a paste has let go of Command; a copy
  or cut in that time is queued behind it (`main.rs:446`) as a bare letter, which
  is typed. With the act `"copy in paste"`, `CmdAsMeant` is violated.
* **The answer to an offer may be for a layout that is over.**
  `StreamFollowsLayout` (defined in `ControlInbound`) says that the Mac encodes at
  its layout's size once nothing is under way. It is violated: the client
  re-offers for a layout B, the Mac is back at A when it takes the offer and at B
  again when it next tells; the client has offered for B and does not offer again
  (`hp/lib.rs:69`-75, 402-420), while the Mac encodes at A. A re-offer whose answer
  has no usable configuration is not repeated either, other than in `connect`.
  What holds is `LayoutTracked`.
* **Rollback without a package file.** `rollback` takes an entry with neither a
  backup nor a package file for one that was new (`install.rs:208`-218). If a
  package entry disappears after it was verified and before `apply` reaches it,
  the installed entry, not yet in the backup, is removed. `Tamper` therefore stops
  at the helper's verification.
* **Profiles.** The binding is one of the file: a password loaded into the form stays
  there when the user edits the host or account, and his Connect uses it. Unticking
  Remember, and Connect on launch with it, does not touch what is saved, so the
  next start connects as before. "Connect on launch" itself is not authenticated
  in the file. `EditOwn` does not bring an old file back after Forget.
* `SrtpReceiver`: after more than half the sequence space of lost packets in a row
  the guess is wrong for good. `InReachAccepted` does not claim otherwise.
* Video: a picture of which every packet is lost, or which is overtaken whole, makes
  no loss epoch, since nothing compares sequence numbers across pictures. Showing
  the next ones is left to the decoder's report. Bands are numbered by the order of
  the sources' SSRCs known when a unit is emitted; a source that appears after the
  750 ms of discovery shifts the numbers of the others.
* `UpdateInstall` does not model the error of `try_wait` in `await_start`, the zip
  format and paths inside a package (sound or not), and locks beyond their result.
* The transport of one part is not composed with another: that `SendBulk` yields
  while `FileTransfer` times out is an alternative in each module, not a joint run.

## Not modelled

* `media/decoder.rs`: FFI; its result only is of interest.
* `hp/offer.rs`, `hp/metadata.rs`, `hp/network_stats.rs`, the byte codecs of
  `hp/file_transfer.rs` and the zip and version syntax of `app/updater/package.rs`:
  sequential data handling, bounded and tested. What they accept and refuse is kept.
* The login and key exchange of `hp/lib.rs` before the first record: one exchange
  after the other, each of which succeeds or ends the attempt (`Negotiate` in
  `InputSession`).
* SRTCP, receiver reports and keyframe requests: sent on a timer, no answer is
  waited for.
* The keyboard setting of `app/profile.rs`, the daily schedule of the update check
  and the removal of staging directories that an earlier update left.
* `app/updater/ui.rs`, `app/transfer_ui.rs`: drawing, and calls of operations that are
  modelled.
* `src/scripts`, workflows: not part of the program.

## Plan

Done since the first plan: `ControlInbound` with the layout recovery, the update
check and download, `Profiles`, and proofs for `UpdateInstall`, `Profiles`,
`FileTransfer`, `InputSession`, `ControlInbound` and `VideoPipeline`.
What is left, in order of what can go wrong unnoticed:

1. Recovery: pictures again after a loss if keyframes arrive.
2. A joint run of `FileTransfer` and `ControlOutbound` over their common queue.
