# A verification project for nfcdoorz

nfcdoorz runs an NFC door lock: a manager daemon supervises child processes
(an HTTP/websocket API, authenticators that poll card readers), which call it
over a Unix socket; command-line tools prepare DESFire cards; two
microcontroller programs carry the serial lines of the readers. This directory
holds TLA+ modules translated from that code, TLC configurations that check
them on small instances, and TLAPS proofs for every value of the constants.
`PROJECT.json` maps each definition to the source lines it stands for.

## 1. Inventory

| component | source | state | operations | what is hard, what makes it correct |
|---|---|---|---|---|
| Process supervisor | `lib/procmanager.*` | `processes`, and per Proc `_handle`, `_running`, `_failures`, a queued one-shot idle listener | `create`, `run` (queues the spawn), the spawn listener, `exited`, `remove`, `~Proc` | a failed spawn runs `exited` nested in the listener; pids are reused; five lives. The pid registry is exact, each Proc has one future, lives are counted, creators hear once |
| IPC server and manager | `lib/ipc/server.*`, `lib/ipc/ipc.*`, `apps/nfcdoorz-manager.cpp` | `pid_map`, `handlers`, `idle_calls`, a pipe per connection | accept, route a packet by pid, the Config/Status/CreateAuthenticator handlers, idle calls with a timeout, end and error of a connection, exit notice | packets outlive their sender, pids change hands, pipes are held by reference and their memory is used again. A live child is served as itself and gets the mail it is owed, every call is settled |
| IPC client | `lib/ipc/client.*`, `lib/ipc/api.hpp` | `_next_id`, `call_returns`, `calls_out_queue`, `event_callbacks` | `getCall`, `makeCall`, `gen` (waits 5 s), the loop thread's listeners | two threads, no lock on the map and the queue, coalescing wake-ups, late replies. Each answer is this call's, no call is forgotten |
| API: tty sessions | `lib/apps/api/handlers.*` | `connections`, `fds`, `handles`, all under one device id | `onConnect`, `onData`, `onDisconnect`, `closeOut`, poll and exit events | web-server thread against loop thread; raw socket pointers; stale exit events |
| Authenticator | `apps/manager/auth.cpp` | none of its own | start-up, polling loop | a child like another |
| Policy | `apps/manager/policy.cpp` | none | none | never started |
| NFC wrappers | `lib/nfc.*` | an open device, the tags it lists | open/close by RAII, poll, select | what is closed on an early return |
| DESFire tag, keys, adapter | `lib/tag.*`, `lib/keys.*`, `lib/adapter.*` | the selected application, `_uid`, `_aid` | authenticate, change key, create and delete applications, create files | which UID keys are derived from; a failed read of the UID goes unnoticed |
| Card preconfiguration | `apps/nfcdoorz-preconfig.cpp` | the card | rekey, delete, create and rekey applications, create files | stops after any command; must cope with a half-written card when run again |
| Configuration | `lib/config.*` | a tree of nodes | decode, validate, backup-file paths | recursion over nodes, path decoding |
| Serial multiplexer | `microcontroller/arduino-mega-mux` | receiver state, `chans`, `chan_v24`, a buffer per UART | `charReceiver`, `frameDecode`, `handleControlUIH`, `sendBuffer`, the UART loops | resynchronising after a bad frame, lengths at their edges. Undisturbed frames arrive whole, the buffer is never left, channels are those the host opened |
| PN532 proxy | `microcontroller/adafruit-trinket-m0/code.py` | header state per direction, the bus lock | one byte from the host, one read of the reader | packet framing after noise, both directions share a lock. Only whole packets reach the reader, the reader is heard |
| the rest | logging, `indent.hpp`, generated flatbuffers, stubs, `old/`, `util/` | | | formatting, I/O, generated or unused code |

How they interact: the manager's `main` creates the API child and enters one
libuv loop. A child connects to the manager's socket, whose address it gets on
its command line; the manager learns its pid from the socket and routes each
packet through `pid_map`, which the supervisor's two hooks keep. The API asks
for an authenticator when a websocket connects; the manager creates a Proc,
queues its spawn, answers when the spawn was tried and sends an event when the
Proc is destroyed. `PROJECT.json` lists the hazards line by line.

## 2. Plan

Order of work, most important behaviour first:

1. `ProcSupervisor` with the abstract `Lifecycle` it implements; proofs of its
   registry, its accounts and the refinement. Done.
2. `IpcServer`, which composes `ProcSupervisor` with the connections; proofs of
   its routing, of its action properties, and that the whole manager still
   implements `Lifecycle`. Done.
3. `IpcClient` with the abstract `RequestReply` it implements; proofs of its
   call table, its queue and the refinement. Done.
4. `TtySession`: the API's sessions on two threads (`handlers.cpp`) with the
   event callbacks of the client; proofs of what a session releases and whom its
   tty is read for. Done.
5. `Pn532Proxy`, the serial proxy of a reader: the header decoder, the lock and
   both directions at once; proofs of its types, its lock, of what reaches the
   reader and of what must arrive. Done.
6. `GsmMux`: the receiver, the channel table and the UART loops of the
   multiplexer; proofs of the bound on its buffer, of what holds without a fault
   and of what a changed byte may cost. Done.
7. `Preconfig`, with what it uses of `Adapter`, the tag interface and the keys:
   the card tool against a card, stopped after any command and run again; proofs
   of what a half-prepared card may hold and that none is lost. Done.

Abstract specifications worth stating: the lifecycle of a supervised process,
request and reply (both done). Every safety invariant, every action property and
every refinement that a passing run checks is a theorem; liveness is left to the
runs, as the end of section 5 says.

## 3. Modules

**`ProcSupervisor`** models `lib/procmanager.cpp` and the registry hooks of the
manager. An action is one callback of the manager's loop run to its end, since
one thread runs them all. `processes`, `handle`, `running`, `failures` are the
fields of that name; `idle` is the set of Procs whose `once<IdleEvent>`
listener is registered; `pidMap` is `IpcServerMulti::pid_map`; `owner` and
`zombies` are the kernel's process table; `attempts` and `told` record spawns
and what creators were sent. `CreateAuthenticator` is `create` + `run`,
`SpawnOk`/`SpawnFails` the idle listener, `ChildExits` the kernel, `Reap` the
exit callback with the whole of `exited()` (`Rerun` or `Remove`). `SpawnFails`
has the ErrorEvent nested in the listener: a restarted Proc then has its
unspawned handle registered as pid 0, and a removed one is used after it was
destroyed, which is undefined: the manager aborts, or registers pid -1 under a
name read from freed memory.

**`Lifecycle`** is what the supervisor promises: a process is due, up or
absent, has a number of lives, and is given up when they are spent.

**`IpcServer`** extends it with the connections. `link`, `peerPid` and `calls`
are a connection's pipe, the pid captured by its DataEvent listener, and what
was sent on it; `asker` is the pipe an authenticator's exit listener holds.
`pipe` is the address its PipeHandle was made at: any that no open connection has,
so that a reply callback or an exit listener that kept a reference may write to
whatever is made there next (`Reaches`, `GoesAstray`; `astray` remembers whose mail
another peer got). `Accept` may find no SO_PEERCRED and close the socket;
`Refuse`, `Ignore`, `Drop`, `HandleNow` and `HandleCreate` are `handleCall` with each
of its outcomes, `Expire` and `Answer` are `runWithTimeout` and
`CallReplyCallback::run`, `End` and `ReadError` the socket's listeners. A write
to a peer that has exited raises SIGPIPE, which nothing in the program ignores,
or goes through a pipe that was destroyed: it is lost or ends the manager.
`ReadError` stands for the reset a peer causes that exits with replies unread. The
exception the create handler throws when a packet has no body is left out: the type
that chose the handler is the body's own, and every client packs one.

**`IpcClient`** models the application thread and the loop thread, one action per
access to what they share. `callReturns` holds the ids with a promise in
`call_returns`; `future` is the state a promise shares with its future. Where the
unlocked accesses of the two threads can overlap, the outcome is undefined: as
intended, the new promise lost, or the process aborted. The manager is external:
`Read`, `Reply`, `Drop` and `ManagerGone` are what `IpcServer` can do to a call.
`WrongType` is a reply of another type than was asked for, `Unverified` one whose
buffer does not verify and that is left unheard. Replies to calls of other clients,
which `IpcServer` shows to need a death, are not followed here. One application
thread makes calls, as in each daemon of the repository (`main`, then the web
server's thread in the API).

**`RequestReply`** is what a caller may expect: the answer the service gave to
this call, or a failure.

**`TtySession`** models the sessions of the API daemon: the web server's thread
runs `onConnect`, `onData`, `onDisconnect` and the tasks of `server.execute`, the
client's loop thread the poll listeners and the exit event. `connections`,
`fds` and `handles` are the maps of that name; since every session has the
device id "yes", each has one entry at most. `onConnect` takes four steps in the
order of the code (`OnConnect`: the tty and its poll handle, the maps, the event
callback, the call that asks for an authenticator), and the loop thread may run
between any two; where both are inside what no lock guards, the outcome is
undefined: as intended or an abort. `master`, `polling` and `tenant` say which
session a descriptor, a poll handle and a WebSocket's address belong to: the
code knows only the number, the handle and the raw pointer. Until its
authenticator has opened a tty, and after it has closed it, the tty reports a
hang-up, so `PollWakes` fires again and again, as in the program. A task of
`server.execute` holds the raw pointer of a WebSocket, and `RunTask` goes to whoever
is at it when it runs; `from` and `at` in a task record whose bytes they are and how
many sessions there had been when it was queued, for the property alone.

**`Pn532Proxy`** models `code.py`, the program between a host (UART) and a PN532
reader (I2C). `ser` and `i2c` are the two `PKTData` objects, records of their
fields with the names of the code (`len` is `len_pkt`, `index` is
`header_index`, `unit` is `unit_command`); `AddByte` is `addByte` with the whole
decoder below it. `locked` is the bus lock that `begin_write_fn` takes and
`end_write_fn` gives back; `turn` is where the main loop stands, `chunk` what
was read of the reader and is still to be followed. A byte is a number below
`Base`; the code's arithmetic is modulo 256, the model's modulo `Base`, and
0xff is `Top`, 0xee is `UnitMark`. The host sends packets one after the other,
of which one byte may be lost or changed; `delivered` holds what `i2c.writeto`
was given, and `answer` what the reader has to say. A write that raises OSError
is `RefusedWrite`, a read that does is `FailedRead`, which unlocks the bus and leaves
the answer where it is. `Read` is what one read yields of an answer, `Chunk` bytes:
behind the status byte 255 in the program, while a standard packet may have 262. So
an answer may be cut; `cut` is the one the decoder is left in, for the properties.

**`GsmMux`** models the multiplexer firmware. `rx` is `rx_msg` with
`sof_character` and `frame_position`; the checksum that the code stores behind
the payload is the last byte of `buffer`, so that `cur` is a difference of
lengths (`Cur`, with the wrap of an int16_t). `Received` is `charReceiver`, `Ends`
and `Decode` are where it calls `frameDecode`. `chans` is the bit set of that
name. A reply is put on the line (`Reply`) and heard later (`Hear`), in order, or lost
(`LoseReply`); `opened` is what the host takes for open by the replies, `unsure` the
channels it has asked about and not heard of. The host asks about one channel at a
time and again when a reply is overdue, by when none is on its way; a control byte
may set the P bit or not (`Unpolled`, `Controls`). `Data`
is a set of payloads, sequences of any bytes that the one byte of a length can
announce. `harm` is what the line has done to the frame on its way: nothing, one
changed byte that is neither the first flag nor the length ("bent"), or anything
else ("astray"); `strayed` remembers that some frame was astray. The checksum is a
sum, where the code has a CRC from a table; with both, changing one byte changes it,
since the table is a permutation of the bytes, and that is all the proofs ask of it.
Memory outside the buffer is not modelled but its use is: `overread` and
`overwrote` record it, and what is read there is any byte. `Collect` and `Flush`
are the loops of `mux.ino` around `sendBuffer`.

**`Preconfig`** models `nfcdoorz-preconfig` with the commands of `Adapter` and of a
DESFire card that it uses. `Plan` is the list of commands the options give, in the
order of `main`; `Does` is what the card does with one of them. A key is a record of
its base and of the UID it is derived from; deriving is injective, so two keys are
equal only if both agree. `End` stands for the normal end, for `errx` at a command
that failed and for a card taken away, before any command. `Final` is where a run
without a stop ends: `After` is the recursive function that does one command after
the other. The card may be new, or prepared with an older master key: without the
application, or with it and the configured keys, other ones or unchanged ones, and
any files (`Prepared`). It may hold another application, which `--delete-app` may
name as well as the configured one (`deleteApps`), or name in vain. The tool is run
any number of times with any options. The ids of the keys are their positions, as in
the example configuration, and a file is created with access by key 0.

The theorems about a module are in `<module>Proofs`; `PreconfigRecovery` adds the
one of `Preconfig` that needs an induction. `MC*` modules add symmetry sets and
say what the instance is chosen for.

## 4. Runs

| run | instance | what it shows |
|---|---|---|
| `supervisor` | one daemon with the code's five lives, two authenticator slots (used again and again), three pids, fairness | in every order of exits, reaps, creations and failing spawns: the registry is exact (`RegistryIsExact`), a listed Proc has exactly one future (`OneLifeline`), creators hear once, the supervisor implements `Lifecycle` (so lives are counted and never cut short), and dead children are replaced (`DeadChildIsReplaced`) |
| `ipc_server` | one daemon with two lives, one slot, two pids, two connections, two addresses of pipes, one call each | routing: live children are not refused and served as themselves; replies follow spawns; mail is lost or reaches another child only when its own has exited (`StrayMailNeedsADeath`) |
| `ipc_server_live` | one connection, two calls on it, fairness | every call is settled |
| `ipc_server_idle` | as above, safety only | a violation: see below |
| `ipc_client` | three calls, fairness | the call table, the queue and their races; implements `RequestReply`; calls return, the queue drains |
| `tty_session` | two sessions, two addresses, two descriptors, one waiting task when an authenticator writes | what is released, what closes a session, where its bytes go when the task that sends them runs, with sessions that overlap or follow each other at the same address and tty |
| `tty_session_live` | two sessions, one address, one descriptor, fairness | a session whose authenticator has gone is closed |
| `pn532_proxy` | six byte values, payloads of which the length is 1, the last that a standard header can tell and the one before, reads of eight bytes (less than two of the packets), one fault, reads that fail, fairness | whatever the line does the reader is written only whole packets (`OnlyWholePackets`) and the lock is held exactly while one is collected (`LockFollowsPacket`); a packet sent cleanly to an idle decoder is delivered, an answer that fits in a read is passed on, one that does not costs itself and the next, the reader is heard |
| `pn532_extended` | a host that sends extended packets, no fault | a violation: see below |
| `gsm_mux` | 24 byte values, channels 2 and 4, two payloads: the flag, and the image of a whole frame; requests with the P bit and without; one byte lost or changed, or one reply lost | undisturbed frames arrive whole (`FramesArriveWhole`), a changed byte costs no more than its frame (`AChangeCostsOneFrame`), memory outside the buffer is used only for a cause (`StraysHaveACause`), host and firmware agree on the channels, replies late and lost ones included (`ChannelsFollowTheHost`) |
| `gsm_uarts` | two UARTs, no fault | a violation: see below |
| `preconfig` | three keys (two diversified), two files, a diversified master key; 21 cards to begin with | keys and files of half-prepared cards, the UID keys are made with, and that some run always completes the card |

Why the bounds are enough. Two pids and one slot let a pid pass from a dead child
to a new child of the other service while the dead one's packet is still unread,
the only way `Service(c)` can be wrong; two connections let the old and the new
owner of a pid be connected at once, and a connection slot be reused; of two
addresses one can be dangling, or made anew, while the other is in use. Three calls
let a reply be late for the call that timed out, race with the next one, and leave
a third to be checked after it. Two sessions let the second overwrite the first
one's entries, or inherit its address, its descriptor or its close task; a third
can only do the same again (checked once by hand without a violation, 4 million
states, too long for a run). `MaxTasks` bounds only how many sends wait behind one
another; a close is always queued. Five lives are the code's own. In the server
instances two are used, since the limit is already covered.

For `pn532_proxy` six byte values are the fewest for which 0, 1, 0xff and the unit
mark differ and a length can be right or wrong by one; with 0xff being 5, payloads
of 3, 6 and 7 bytes have the lengths 1, 0xfe and 0xff of code.py:102, and with eight
bytes to a read an answer is shorter, or longer by one or by several; one fault, at
any byte of any of the packets, since a second one meets a decoder in the state the
first can leave it in. For `gsm_mux` 24 values are the fewest that hold the frame
types; the values a byte may be changed to (`Noise`) are the flag, an even length, a
length that makes `cur` negative, and zero. At most two replies are on their way
when the host begins a frame of data, and none when it asks. The second payload lets
a receiver that is out of step find a frame where none was sent. Two faults were
tried by hand: 17 million states without a violation, not all there are. Its 8-bit
counter wraps after 24 bytes, which one corrupted length reaches. For `preconfig`
three keys give a first, a last and a middle one, both diversified and not; other
choices of `PiccDiversify` and `AppDiversify` were checked by hand. Nothing bounds
the number of runs of the tool.

Bounds in guards: `MaxCalls` in `SendCall`, `MaxId` in `GetCall`, `MaxSessions` in
`OpenTty`, `MaxTasks` in `AuthWrites`, `MaxFaults` in the faults of the two serial
lines (`Lose`, `GarbledByte`, `CharReceived`, `LoseReply`), the replies on their way
in `Send`, and `SlotLeft` (a creation is sent
only when an authenticator slot is left, the code has no limit). `CHECK_DEADLOCK`
stays on everywhere: `Aborted`, `Deserted` and `Stopped` name the states in which
a process has ended or nothing is left to ask for.

Fairness. The manager's idle handles are started and never stopped, so its loop
never blocks: each turn polls every socket, reads SIGCHLD and runs idle
listeners and idle calls, hence weak fairness of `Spawn`, `Reap`, `Accept`,
`HandleCall`, `End` and `Answer`. `Expire` gets none: nothing relies on it. No
fairness is assumed of children (they need not exit or call), of clients or of
the kernel's scheduling of a peer. In the client both threads run and
`wait_for` ends after five seconds; the manager owes nothing. In the API a turn
of the loop handles every descriptor that is ready, so a tty that is always hung
up cannot keep an exit event waiting, and a turn of the web server runs the
queued tasks and sees the sockets that are shut: strong fairness of
`ExitEventBegins`, `RunTask` and `OnDisconnect`, which other steps of their
thread may disable for a while. Nothing is assumed of authenticators or
websocket clients. The proxy's loop is `while True` and never blocks, so it takes
turns for ever, and the host of the run goes on to send (`WF_vars(Begin)`):
without that, a packet that lost a byte keeps the bus locked and the reader
waits, which is what the code does.

Divergences found. `lib/ipc/ipc.hpp:64` says of an `Executable` that it "will be
rescheduled every event loop iteration until run() returns true".
`runWithTimeout` (`lib/ipc/ipc.cpp:40`) drops it unrun when its timeout is over;
`ipc_server_idle` shows a waiting call lost that way.

`code.py:102` tells an extended packet by `header_len == 0xff + 1`, where
`header_len` is the length byte plus 2, so the marker 0xff 0xff never matches, is
taken for a length with a wrong checksum, and `_decodeExtendedHeader` is never
reached; `pn532_extended` shows a clean extended packet lost.

`GSMMux.cpp:232` sends only fewer than 64 bytes, while the loops of `mux.ino`
collect up to `BUF_SIZE`, 64, and pass them on: a UART with that much to say is
dropped, against the promise of `src/microcontroller/arduino-mega-mux/README.md:2` to
break out four serial ports from one; `gsm_uarts`.

What else the models show of the code, by the properties' conditions: the exit
notice of an authenticator whose spawn failed precedes the reply that says it
was created (`CreatorHearsOnce`); what a dead child left unread may be read as
another service's call when its pid was reused (`ServedAsItself`); what was still to
be written to a child that has exited is lost, can take the manager with it, or
reaches the child whose pipe was made in the same place, as an answer or an exit
notice it never asked for (`StrayMailNeedsADeath`: nothing less leads there); ids
begin at 0 in every client, so such an answer may pass for its own; the two client threads can meet in the queue only
after a timeout, but in the call table at any time (`RacesNeedATimeout`);
sessions that join each other leave poll handles and ptys behind
(`OnlyJoinedSessionsLeak`, stated of those that do not); bytes of a reader that wait
in a task when their session goes are sent to the session that meanwhile connected at
the same address (`ReaderHearsItsOwn` allows for just that); an answer of a reader
that is longer than one read reaches the host with the beginning of the next answer
for its end, and the next is lost (`AnswerIsPassedOn`). In the multiplexer the
status of channel 4 is written behind the four entries of `chan_v24`
(`StraysHaveACause`), the length of a control command is never tested because
`msg.len < 3` compares a pointer (`At`), and a lost end flag delays the reply to a
frame until the next one begins. One lost byte is enough to open a channel the
host never asked for: the first flag of a data frame on channel 4 is lost, and its
payload `<<20, 11, 5, 1, 6, 20>>` is a request to open channel 2. The receiver
that missed the flag takes the payload for a frame, since the firmware's framing
hides no flags within payloads. So no property says that one fault opens nothing.
What holds is `AChangeCostsOneFrame`, and `ChannelsFollowTheHost` for any number
of frames with one such change each. On the cards, a run that ended between hiding
the UID and changing the master key makes all later runs derive keys from a UID
of zeros, since the random UID has four bytes and `setUID` refuses it unheard
(`ZeroKeysNeedACut`); such a card can still be prepared (`Recoverable`), but its
keys no longer depend on it. Seen while reading and not modelled:
`FileBackupData::create` (`lib/config.cpp:375`) creates a standard data file, and a
master key given by `--current-picc-key` is always taken for a diversified one
(`lib/adapter.cpp:189`).

## 5. Proofs

`ProcSupervisorProofs` proves, for any sets of daemons, authenticators and pids
and any limit of failures (under `SupervisorAssumption`: the kinds of Procs are
disjoint, pids are positive, the limit is positive, `Nobody` is no Proc):

- `TypeCorrect`, `RegistryStaysExact`, `EveryProcHasOneLifeline`,
  `CreatorsHearOnce`: the safety invariants of the `supervisor` run; and
  `LivesAreBounded`;
- `NobodyIsGivenUpEarly`: its action property;
- `SupervisorImplementsLifecycle`: the refinement, each step of the supervisor
  being a step of `Lifecycle` or a stutter.

The argument is one inductive invariant, `IInv`. `RegistryIsExact` is not inductive
alone: that `SpawnOk` may register its pid, and `Reap` unregister the one in the
handle, without cutting off another child needs that the handle of a Proc and
the kernel's idea of whose child a pid is agree. That is `Lifeline`, the
point-wise form of `OneLifeline`; `ZombiesAreChildren` says that only children
are reaped, and `LivesAreCounted` bounds `failures`, which `TypeOK` needs. One
lemma per action shows that it preserves `IInv`; what `exited()` does is shared
by `Reap` and `SpawnFails`, so `RerunPreserves` and `RemovePreserves` are stated
of it alone. The refinement uses the same invariant: `LivesAreCounted` turns the
test on `failures` into the abstract one on lives spent (`ExitedIsAfterLife`).
`CreatorsHearOnce` has an invariant of its own on top, `CreatorsHear`, which
enumerates what a creator may have been told at each point of a Proc's life, so
that the counting of messages is a fact about five short sequences.

`IpcServerProofs` proves, for any numbers of connections and calls besides, what the
`ipc_server` run checks of the composition:

- `ServerTypeCorrect`, `LiveCallsAreNotRefused`, `LiveCallsAreServedAsThemselves`:
  its invariants; `ServerRegistryIsExact`: those of the registry, which hold inside
  the server as well;
- `OnlyTheDeadMissTheirMail`: that replies and exit notices are lost or misdirected
  only when the child they were owed to has exited;
- `RepliesFollowTheSpawn`: its action property.

The supervisor's invariant is kept by the composition, because a step of the server
is a step of the supervisor or leaves its variables alone, but that an abort ends
it. What it lacks is the tie between a connection and a child: `LiveLinks` says that
as long as a peer is alive the pid kept with its connection is that child's and not
yet reaped, so nobody else can have it. With the registry that makes the name under
which a packet is handled the sender's own; `LiveCalls` carries it over to the calls
already taken.

`OnlyTheDeadMissTheirMail` needs the other direction, `MailInv`: an open connection
has its address to itself, so what is written through it goes astray only after that
connection was closed, which takes the peer's hang-up. The pipe that a reply
callback or an exit listener holds is therefore open, and no other is made at its
address, while its peer has not hung up (`HeldPipesAreOpen`); who missed mail has
hung up (`OnlyTheDeadMiss`); and the supervisor knows of the death of a daemon that
has hung up, which waits to be reaped, was counted as a failure or was the last it
was given (`TheDeadAreKnown`).

`ServerImplementsLifecycle` is the refinement for the manager as a whole: clients,
packets, timeouts and aborts only interleave with the lives of the children. It
takes `StepIsLifecycle`, which the supervisor's own refinement uses as well, for the
steps that are the supervisor's; the others leave its variables alone.

`TtySessionProofs` proves, for any numbers of sessions, addresses, descriptors and
tasks (under the assumptions of `TtySession` on its constants):

- `SessionTypeCorrect`, `SessionsThatWereAloneDoNotLeak`: the invariants of the
  `tty_session` run;
- `SessionsAreClosedForACause`, `ReadersHearTheirOwn`: its action properties.

The three maps of the daemon are keyed by one device id. `MapsInv` says that they
still always describe one session, the latest one, or the one before as long as the
latest is between opening its tty and entering itself; so `closeOut`, on whichever
thread, releases a poll handle and a pty of the same session. `PollInv` identifies a
session that polls with one that is the master of its own descriptor, and `AloneInv`
says what may be left of the sessions before one that began alone: at most a poll
handle on a pty of its own, which cannot close the new one or read for it.
`ReadersHearTheirOwn` is about what a task finds when it runs, long after it was
queued with a pointer. `HearInv` says of every queued task that at its pointer is the
session whose bytes it holds, or nobody, or a session that began after it was queued
(`OwnTask`); the poll listener queues none but for the session of its own descriptor
(`SendIsOwn`), and a websocket that connects is younger than all tasks.

`IpcClientProofs` proves, for any number of calls (`MaxId \in Nat`):

- `TypeCorrect`, `NoWakeupIsLost`, `TableIsExact`, `RacesComeAfterTimeouts`: the
  safety invariants of the `ipc_client` run;
- `NoPromiseIsSetTwice`: its action property;
- `ClientImplementsRequestReply`: the refinement; `GetCall` is `Ask`, what
  `gen()` gives its caller is `Return` or `Fail`, a reply of the manager is
  `Serve`, an abort is `Break`, and every other step is a stutter.

Here the inductive invariant follows one id along its path: the queue, the
packets to the manager, accepted, served, the replies, the loop thread's hands,
the future. `PathInv` says that it is in one place at a time, and before it is
queued in none; none of the checked properties implies that, and without it a
second reply to the same call could not be excluded. `CallerInv` ties outcomes to
futures, `TableInv` to the table. `WakeInv` is what the races need: as long as no
call has timed out, the loop thread empties the queue only while the caller
waits for the very call that is in it. Sequences are met only through `In` and
`Distinct` and the lemmas `AppendedIn`, `HeadTaken` and `EmptyIn`, so the lemmas
on actions (one for each) need no index.

`Pn532ProxyProofs` proves, for any `Base`, payloads, size of a read and number of
faults:

- `TypeCorrect`, `LockIsThePackets`, `WholePacketsOnly`: the first three
  invariants of the `pn532_proxy` run;
- `CleanPacketsArrive` and `AnswersArrive`: the other two, if no extended packets
  are sent (`ExtendedData = {}`; with them the property is false, see
  `pn532_extended`) and, for the answers, if two reads hold any packet
  (`2 * Chunk >= Base + 6`: in the program 510 bytes, and 262).

The types alone are not inductive: `HeaderSoFar` says which of a decoder's fields
are set at each `header_index`, so that a payload is expected only after a length
was read. `Announced` adds, for the host's decoder, that the header bytes read so
far are in `header`, and `Checked` that an announced length was checked against
them. `WholePacketsOnly` needs both because a packet is written long after its
length was checked. There is one lemma for each method of `PKTData` and each of
these predicates; the types of the two directions share theirs, since both are
the same class. That something does arrive needs an account of the decoder byte by
byte: `Follows(p, f, k)` says where a `PKTData` stands that has seen `k` bytes of the
frame `f`. `HostRun` and `ReaderRun` say that what is still to come of a clean packet,
or of a chunk, is the rest of the frame from the very byte that the decoder
expects; the two directions do not share state, so each is inductive by itself. An
answer longer than a read leaves the decoder inside it, so the frame that it follows
is then the beginning of that answer and of the next (`Joined`): its header is the
first one's, so it is a frame of the same form (`SplicedFrame`), and two reads are
enough for it, so that it ends inside the second.

`GsmMuxProofs` proves, for any `Base` of at least 24, channels, noise, number of
faults, and any payloads whose length one byte can announce (`DataAssumption`),
whatever bytes they hold:

- `TypeCorrect`, with the bound on what the receiver stores in its buffer,
  `FramesArrive`, `ChangeCostsOneFrame`, `StraysAreCaused`, `ChannelsAgree`: all the
  invariants of the `gsm_mux` run.

The bound is not inductive by itself, and it does not follow from the lengths of
the frames, which may be as large as 16 bits hold: `RxInv` says that within a
payload the 8-bit `frame_position` is at least three ahead of the bytes stored, so
that it wraps, and the receiver reads a header again, before the buffer is full.
The other variables only need what is decoded and sent to be a frame of bytes.

The other theorems follow a frame through the receiver. `Follows(m, s, n, k)` says
where it stands when it has seen `k` bytes of `s`, as they came and not as they
were sent: all that is asked of them is that the first is the flag and the length
true (`FrameOf`). There is one lemma for the header, one for the body, one for the
end of a frame, and `ByteHeard` puts them together for any byte but the last. The
receiver remembers only the bytes it heard; `Heard` says that up to one of them
(`Bent`) they are those of the host's frame, so `RunInv` can tie the bytes still
to come to the place of the receiver, bent or not. At the last byte (`LastByte`)
the checksum decides: it is a sum modulo `Base`, so two headers that differ in one
byte have different checksums (`FcsTells`), and a frame that passes has the
channel and the type that were sent. So as long as nothing strayed, only frames like
the host's own are decoded (`DecodesFrame`), and the table of line states is written
past its end by a status alone, one that came whole if and only if it is channel 4's
(`DecodesStatus`, `DecodesWhole`). `TalkInv` ties the two ends together while requests
and replies are on their way: a reply on the line to the channel the host waits for
says what its bit is now, since the host asks nothing else before it has gone, and a
channel that is asked about is unsure until such a reply is heard (`HearTalk`).

`PreconfigProofs` proves, for any numbers of keys and files and any choice of the
diversified keys (under the assumptions of `Preconfig`):

- `PreconfigTypeCorrect`, `FilesFollowTheKeys`, `OneUidForAllKeys`,
  `ZeroKeysComeOfACut`: the invariants of the `preconfig` run about what a card holds;
- `NoCardIsLost` (in `PreconfigRecovery`): its last one, that after any number of
  runs cut short anywhere some options prepare the card completely.

What a command may do to a card depends on the commands before it, some of which
were done in this run, some in an earlier one and some not at all. So the invariant
is about the commands still to come: they are in the order of `Stage`; before a key
is changed those after it are, unless they have been (`Rekeys`); before a file is
created key 0 is authenticated with (`Files`), both again after each reset of the
application still to come. `UidInv` says which UID the keys to come are made with,
and that a UID of zeros with the factory's PICC key, or a PICC key made with it,
comes of a run that was cut short. The cards there are to begin with satisfy it,
those prepared before included (`PreparedAreSound`): the keys of an earlier run were
made with the UID of the master key they came with.

`NoCardIsLost` is about whole runs, so it needs an induction. `Induction` states
it for a set of numbers, from the natural numbers being well founded, and
`AfterIs` proves with it that the recursive function `After` is what its
definition says. A run of two lists of commands is the run of the second after
that of the first (`RunJoin`), so a run is put together from its parts: the master
key from each state it can be in (new, done before, or another one:
`FactoryIsMastered`, `DoneIsMastered`, `PreparedIsMastered`), then the keys one by
one (`AllKeys`) and the files one by one (`AllFiles`), both by induction again.
The right options are found by cases on the PICC key of the card; that a key of
zeros is met only on a card whose UID is hidden, so that the next run derives the
same key again, is an invariant of its own, `HiddenInv`.

Only model-checked:

- liveness and everything that rests on fairness (`DeadChildIsReplaced`,
  `EveryCallIsSettled`, `CallReturns`, `QueueDrains`, `EndsWithItsAuthenticator`,
  `ReaderIsHeard`), which is out of the prover's reach;
- the divergences of section 4, each a violation that TLC finds.

## 6. Not modelled

`killall` and `setPreExec` have no caller; the policy service has no process;
the message encodings are generated code and carried as records; start-up
failures end the process before anything is shared. Of the tty sessions the
bytes of `onData` and the branch for a reply with status false, which the manager
never sends, are left out. Of the NFC stack the choice of a reader and a card is
left out: what it opens it closes in destructors, and the rest is libnfc. The
cryptography of the cards is external. The configuration is a recursion over a
YAML tree whose only state ends with the call. Of the multiplexer the v.24 octets
and the console are not followed; `util/mux.c` is one sequence of ioctls, and
`util/wsclient.js` connects two libraries whose events make all of its
behaviour. The JavaScript under `docs/` is generated by doxygen and is not part
of the program.
