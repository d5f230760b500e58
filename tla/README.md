# A verification project for netmark

netmark is a network load generator and measurement tool: one binary that is
client and server, a *run* that is one measured burst of traffic, a debrief at
the end of a run in which the two hosts compare their counters, an SQLite
database of runs, a REST API, a web CLI, a monitor and a library interface.
This directory holds TLA+ modules of its concurrent and distributed parts, TLC
configurations that check them on small instances, and proofs that TLAPS checks
for instances of any size.

`PROJECT.json` has the machine-readable half of this document: the components,
the runs with their properties, the lines of the source each definition stands
for, the hazards, the disagreements found, the listed theorems, and for every
checked property a plausible bug (an operator marked `Mutant` in the modules)
that breaks it.

## 1. Inventory

Line numbers are of the files under `src/src/`.

| Component | State | Operations | Hard about it |
|---|---|---|---|
| Run store (`core.rs` 733-900, `SqlState`) | tables `run_counter`, `runs`, `debriefs`, ...; one connection per process or executed profile | `enable`, `next_run_id`, `start_run`, `complete_run`, `clean`, `record_debrief` | several processes on one file, crashes between two statements, statements whose error is ignored |
| Session (`session.rs`) | `stopping`, `running`, `run_id`, `run_started`, `server_enabled` in separate atomics and a dozen mutexes | `start`, `stop`, `server enable/disable`, settings | the shell executes its commands one by one, but under `--serve` (the only mode that attaches a session to the web CLI, `main.rs` 321) every request executes its own in its own thread with no common lock; one flag is shared by all runs |
| Traffic threads (`core.rs` 1479-2142) | `StartGate`, sockets, `Metrics` | `spawn_client`, `spawn_server`, per-transport loops | they poll the flag, count after they send, and outlive the command that stopped them |
| Datagrams (`udp_client/server`, `ip_client/server`) | sequence number per client, expected number per client id | `send_datagrams`, `receive_datagram`, `udp_sequence` | loss, duplication, reordering; counters read while they change |
| Streams (`tcp_client/server`, `sctp_client/server`, `TcpFrameReader`) | bytes in a connection, the reader's state | `send_stream_packets`, `feed` | frames cut anywhere, one connection served at a time, writes that block |
| Debrief (`core.rs` 1230-1477) | responder thread, its port 9001, `stopped_at`, `debriefs` rows | `spawn_debrief_responder`, `serve_debrief`, `run_debrief` | timeouts on both sides, port shared by successive runs, both sides must record the same |
| Executed profiles (`lib.rs` 441-547, `restapi.rs` 507-552, `sdk.rs`) | `busy`, live status, per-run flag and gate | POST `/api/v1/runs`, auto mode, `TestRunner::run` | concurrent requests, error paths in the middle, the session's runs next to them |
| Run verdict (`lib.rs` 160-369, `core.rs` 460-630) | run-scoped counters, jitter (a total and one per slot, atomics of their own) and the timestamps it is computed from | `reset_run`, `record_jitter`, `evaluate_run`, `check_limits`, `record_final_metrics` | threads count while their stopped run is judged; a recording is two writes and a reset a store per counter; timestamps are shared by senders and survive resets |
| Monitor (`monitor.rs`) | `running`, `monitor_id`, counters, target | `start`, `stop`, worker loop | flag and id are published one after the other; an HTTP call under a mutex outlives stop and start |
| Settings (`cli.rs`, `configuration.rs`) | clients, limits, protocol switches, administrators; `netmark.config` | `client add/remove/...`, `configure`, `protocol`, `admin`, `configure save/reset` | read by runs in progress; the file is truncated before it is written |
| Selftest (`cli.rs` 439-612) | shares the session's `running` and `stopping` | `selftest` | a thread that a `stop` does not know of |
| WebRTC layer (`webrtc.rs`) | sequence per channel | `Sender::next`, `Receiver::accept` | wrap-around |
| REST acceptor (`restapi.rs` 185-240) | `running`, address | `enable`, `disable` | a new acceptor before the old one has looked |
| Sinks (`metrics.rs`, `smtp.rs`) | the connection of the external database | one insert, one SMTP conversation | held under a mutex that other commands wait for |
| Raw sockets (`rawip.rs`, `sctp.rs`), shell, texts, web page, scripts | - | I/O | not modelled |

Who talks to whom:

- `Session::dispatch` is called by the shell (`main.rs`) or, under `--serve`, by
  the threads of web CLI requests (`restapi.rs`), never by both in one process.
  `start` draws an id from the run store, spawns the traffic threads and the
  responder, inserts the row and opens the gate; `stop` sets the flag, debriefs,
  evaluates, completes the row and writes one external row.
- An executed profile does the same with a flag, metrics, gate and `SqlState`
  of its own, in the thread of its request, and counts 250 ms before it debriefs.
- Client and server hosts share nothing but the traffic port (9000) and the
  debrief port (9001). A server run's threads and a later run's compete for them.
- The live status is written by the main loop, by web CLI threads and by posted
  runs. All of them take the mutexes of the session that they read through, as do
  the monitor's worker and a selftest.

What makes each part correct:

- *Run store*: ids are not reused; a verdict, once stored, is never changed; the
  table is an implementation of a plain ledger of runs.
- *Run control*: traffic only for a run with a row; one verdict and one external
  row per run; a stop that lasts stops everything; a leg of a selftest gets its verdict.
- *Datagrams, streams*: a debrief that matches proves delivery; one that does not
  has a cause; a faultless network is never reported to lose or reorder; every
  client ends after `stop`.
- *Debrief*: what a client records the server has recorded, unless its statement
  failed; it always ends; a responder serves through its grace; the port is given
  back.
- *Profiles*: posted runs exclude one another; the status tells the truth in the
  end; the port comes back.
- *Verdict*: jitter is delay variation and nothing else; a failure is borne out
  by the numbers stored with it.
- *Commands*: none waits for ever at a mutex; administrators are not lost.
- *Services*: what is on answers where the status says; what is off falls silent;
  a start and a stop of the monitor each leave their row, if its statement succeeds.

## 2. Modules

| Module | What it is |
|---|---|
| `RunLedger` | abstract specification: ids issued in increasing order, a run opened and closed at most once |
| `RunStore` | `SqlState`: one step per SQL statement, sessions and runners, crashes, `clean`, `Esc`, failing statements. Implements `RunLedger` |
| `RunControl` | the `start` and `stop` commands statement by statement, by several operators; `Esc`, `server enable/disable`, `exit`; gate, flag, the threads of every run |
| `Selftest` | the legs of selftests next to `RunControl`, whose flags, counters and store they use |
| `Datagrams` | one UDP or raw IP run: senders, faulty network, receive loop, debrief |
| `Streams` | one TCP or SCTP run: clients, connections, the server's single loop, `TcpFrameReader`, debrief |
| `Debrief` | responders and sending hosts over successive runs of one server host, with time in ticks |
| `ProfileRuns` | posted runs, session runs, server threads on one port, publishers of the live status |
| `Evaluation` | the counters and the jitter clock of runs, limits and their commands, the steps of the verdict |
| `Commands` | every command, the worker, a selftest and the publisher as sequences of mutex steps; `netmark.config` |
| `Services` | the monitor and the REST acceptor: flags that commands set and threads poll |
| `MC*` | the same modules with the values TLC is given |
| `*Proofs` | theorems of `RunStore`, `RunControl` with `Selftest`, `Datagrams`, `Streams`, `Debrief`, `Evaluation`, `Services`; `RequestsProofs` has those of `Commands` and `ProfileRuns` |

### How state and actions correspond to the code

`RunStore`. `next_id` is `run_counter.next_id`, `rows[id]` is `runs.result`.
`EnableCounter` and `EnableAbort` are the two statements of `enable` that matter
after its `CREATE TABLE`s: the counter is raised above every row, and rows still
`running` become `aborted`. `NextRunId`, `StartRun`, `CompleteRun` and `Clean`
are one statement each, the update of a verdict has the code's
`WHERE result = 'running'`. `Fallback` is the id
`next_run_id` returns when its statement fails: one above the caller's last. `Crash` may come between any two.

`RunControl`. `pc[o]` names the next statement of the command an operator is
executing; the comments above `Starting` and `Stopping` give the lines.
`thread[r]` and `server[r]` are the traffic threads of run `r`; they read the
one `stopping` flag. `counted` is the set of runs whose threads have added to
`Metrics` since `reset_run`, which is all that the verdict's provenance needs.

`Selftest` extends `RunControl`. `BeginSelftest` is the command, which takes
`running` and returns; `leg[s]` is the next statement of the thread it leaves
behind, `leg_run[s]` the id of the run a leg makes, which the session never
learns of. `SessionStep` is any step of `RunControl` meanwhile. `legs` is history.

`Datagrams`. A datagram is its sender and its number. `sent` is counted after
the datagram is on the wire (`Send`, then `CountSent`); the server counts
`received` before it sequences (`Receive`, then `UdpSequence`), and
`serve_debrief` reads the counts before the sequence state (`ReadCounts`, then
`ReadStatus`). `Settled` says that the receive loop has ended when the debrief is
answered and `Waits` that 250 ms lie between the stop and the request.

`Streams`. Every byte of a connection is determined by its position, so a
connection is two numbers, `put` and `taken`. `Write` puts in what the socket
buffers have room for; `Read` takes any part of what is there; `FeedHeader` and
`FeedPayload` are one turn of `feed` each. What a byte ends follows from its
`Offset` in its packet (`HeaderEnds`, `DecodesAt`). Two histories: `asked.partial`,
was a packet written in part, or not yet counted, when the debrief was asked for;
`tail`, were bytes on their way to the reader when the packets were read.

`Debrief`. `responder[r]` walks through bind, poll, read, record and reply;
`client[h]` through traffic, connect, request, wait. A tick is
`DEBRIEF_TIMEOUT` (5 s); `DEBRIEF_GRACE` is two of them. `RecordDebrief` is
`record_debrief`, which does nothing while SQL is not enabled and ignores an
error (`core.rs` 869, 873): the row may be lost, and the reply leaves all the same.
`AcceptFails` is the return at 1396, `Clean` the command, which may come at any
time. `missing` and `broken` are history: the hosts whose row was not stored or was
cleaned, and the runs whose responder an error of accept has ended. With
`Interactive` the runs share one flag and one set of metrics, as a session's do;
without it each has its own, as executed profiles have.

`ProfileRuns`. `post[p]` is how far `start_run` is with a request; the steps of
`execute_profile` that other threads can see are actions. `publishing[q]` holds
what `publish_live` read before it updates the status.

`Evaluation`. A packet matters for its timestamp. `hand[t]` is what traffic
thread `t` is about to do with one: `Receive` reads the clock (`timestamp_jitter`
does so before it waits for its mutex), `Clock` takes the mutex of the packet's
*slot* (TCP with SCTP, UDP with raw IP) and the pair of the last packet as its
predecessor, and `record_jitter` is two steps, `RecordTotal` (`core.rs` 579) and
`RecordSlot` (581-587). `Send` is about to record how far a client missed its
pace, in the same two steps and without the mutex. `Start` begins `reset_run`,
whose stores are steps (`StoreSent`, `StoreTotal`, `StoreSlot`) that leave
`last` as it is; `Spawn` adds the run's threads. `Leg` is `selftest_leg` (`cli.rs`
537-538), which does the same on a thread of its own, at any time but while
`evaluate_run` holds the configuration. `pc` walks through `evaluate_run`:
`ReadTotals`, `CheckJitter`, `CheckLimits`, `TakeDetail`; `Record` is
`record_final_metrics`, which reads `jitter_millis`, the total, and not the slots
(`lib.rs` 369). Threads go on between all of them. `evaluate_run` holds the
configuration, so `outcome.limits` and `outcome.protocol` are those of its first
step. Histories: `transit` and `deviation`, what jitter is measured against;
`torn`, the slots with a recording between its two writes when `jitter_millis`
was last cleared; `disturbed`, did a leg's reset overlap the verdict.

`Commands`. `todo[t]` is the list of steps thread `t` has left: lock, unlock, a
use (a lock released at once), or a step on the file; one operator per command
gives its list in the order of the code, with the temporaries that keep a guard
to the end of a statement. `Dispatch` is the set of what a caller can be told to
do, each command followed by the publish the session ends it with. `file` is
`Torn`, which is no list of administrators, between the truncation and the write
of `std::fs::write`.

`Services`. `pc[o]` names the next statement of an operator's `monitor` or
`restapi` command. `worker` is the monitor's loop, `listener[i]` the address of
an open socket, `accepting` the sockets that have their thread. `MayBegin` lets
the shell execute one command at a time and requests any number. `RecordStarted`
and `RecordStopped` are `record_monitor_status`, which returns when SQL is not
enabled and ignores an error (`core.rs` 1154, 1166): each writes its row or loses
it, and `Clean` takes away those there are. `lost_started` and `lost_stopped`
count these, `broken` and `overlapped` say when `StatusIsTrue` promises nothing.

## 3. Runs

| Run | Checks | States | Shows |
|---|---|---|---|
| `MCRunStore` | `TypeOK`, `IdsUnique`, `ImplementsLedger` | 26 k | a session and a profile run on one file, with crashes, cleaning and rows older than the counter |
| `MCRunStoreFaults` | `FinishedIsFinal` | 49 k | the same with statements that fail: ids can collide then, verdicts still cannot be overwritten |
| `MCRunControl` | `TypeOK`, `TrafficHasRow`, `OneExternalRow`, `ClosedIsStopped`, `StopEndsTraffic` | 423 k | one operator, two runs, every mix of commands |
| `MCSelftest` | `LegsRecordedOnce`, `LegsGetVerdict` | 699 k | two legs, or a leg and a run of the session, with every command in between |
| `MCDatagrams` | `TypeOK`, `MatchIsSound`, `NoFalseAlarm`, `NoFalseFlags` | 163 k | two senders, a network that loses, copies and reorders |
| `MCStreams` | `TypeOK`, `ReaderInStep`, `MatchIsSound`, `NoFalseAlarm`, `StreamsDrain`, `StopEndsClients` | 313 k | two connections, frames cut anywhere, resets |
| `MCDebrief` | `TypeOK`, `BothSidesAgree`, `KeepsServing`, `DebriefEnds`, `PortIsFreed` | 408 k | two hosts, two executed profiles, timeouts, cuts and crashes, failing statements, `clean` and failing accepts |
| `MCProfileRuns` | `TypeOK`, `PostIsBusy`, `StatusSettles`, `PortComesBack` | 861 k | two posts, two session runs, two publishers |
| `MCEvaluation` | `TypeOK`, `JitterBounded`, `FailureIsExplained` | 2.9 M | two runs: two threads whose recordings interleave with each other and with `reset_run`, or one thread and settings changed at the prompt, or one thread and a selftest leg |
| `MCCommands` | `CommandsTypeOK`, `AdminUpdatesSerialise`, `CommandsReturn` | 110 k | the shell with its worker, or two requests under `--serve`, with a selftest and a publisher: no cycle of mutexes |
| `MCServices` | `TypeOK`, `StatusRowsBalance`, `StatusIsTrue`, `SwitchedOffStops` | 530 k | two requests, or the shell, switch the monitor and the acceptor on and off, with failing statements and `clean` |

One run shows where the code and what the repository says of it part.
`MCRunControlStaleThread` violates `OutcomeIsOwn`: `start` clears the flag before
the threads of the run just stopped have seen it; they go on and count into the
new run, although `core.rs` 491 says that the evaluation reflects only that run.

### Bounds

- Two of everything that can interfere with another of its kind (senders,
  hosts, posts, runs, connections): every property relates at most two.
- `Selftest`: two runs, both of them legs or one of them the session's, which in
  `MCSelftest` has no threads of its own (`SessionIsQuiet`: those are in
  `MCRunControl`). Two selftests at once, which a `stop` makes possible, are more
  than TLC does in minutes and left out.
- `MaxId = 4` with two older rows (`MaxLegacy`) leaves room for two runs of
  either owner above rows that were there before the counter.
- `MaxSeq = 2`, `MaxReceived = 4`: two packets per sender are the least that can
  be reordered, and four receptions the least in which a loss of one sender is
  made up for by a copy of another's.
- `Streams` scales the sizes: header, chunk and channel header 2 bytes, payload
  3, so that a packet has a full frame that carries a data-channel header and a
  short one that does not, and headers and channel heads are cut by reads of 1 to
  3 bytes. The buffers hold 8 bytes, a packet (7) and part of the next, so that a
  second packet blocks where it is and one being written can stand next to one
  not read. Two packets in all: two on one connection or one on each.
- `Debrief`: `MaxRuns = 2`, the run a host's traffic went to and the one whose
  responder answers; time is counted to the grace and no further.
- `Evaluation` is asked about one kind of interference at a time (the constraint
  `Interference`), each over two runs but the last. `ThreadsAndTime`: two threads,
  which TLC treats as alike (`SYMMETRY`; no property names a thread), over UDP, with a
  packet a unit late and one a unit ahead, so that transit times differ by 2, above
  `MaxJitter = 1`, while the clock goes on to 2. `SettingsAndLimits`: UDP and raw IP,
  which share the clock and not the limits, one thread at a time, one configure
  command. `LegBesideRun`: one leg at any moment of one run. A send misses its pace by
  2, so that a client's thread alone makes a run fail, and a recording that a reset
  catches does.
- `Commands`: three callers of which the shell or two requests are active, one
  of each other thread, one address. Commands nest three pairs of mutexes (webrtc
  over config and external, target over external), none deeper, and a cycle of
  two pairs needs two threads.
- `Services`: two addresses and two listeners, one being closed while another
  opens; two monitor ids, which two starts can have in hand at once, and a
  stopped row of each.
- `CHECK_DEADLOCK FALSE` is set where everything may come to rest: all runs
  done and nothing more allowed by the bounds.

### Fairness

Weak fairness of threads that the scheduler runs and that never wait without a
timeout: traffic loops poll their flag at least every 10 ms, the responder every
20 ms, the debrief sockets have read and write timeouts, a command once begun
goes on to its next statement, the main loop publishes on every turn, a posted
run's duration is finite. Time goes on (`Tick`). There is no fairness of users:
nobody has to start, stop, post or connect, so `StopEndsTraffic`,
`PortIsFreed`, `StatusSettles` and `PortComesBack` are about what follows when
things have come to rest. There is none of the network either: it need neither
lose nor deliver, and none of errors: accept need not fail, and `AcceptFails` is
no part of what `Responder` must do. `Streams` does not assume that a client's
runtime ends.

`Selftest` assumes weak fairness of the selftest's threads alone, whose sleeps
and debriefs end; the bound on ids may keep a leg from beginning.

`Commands` assumes strong fairness of every thread but the publisher: a mutex
that is free again and again is taken in the end, since every loop that takes one
sleeps between its rounds. What passes under a lock ends: HTTP and SMTP calls
have timeouts; the databases have none and are assumed to answer (section 6).

## 4. Proofs

TLAPS checks every theorem for all values of the constants that satisfy the
module's `ASSUME`, and the further assumptions a theorem states.

- `RunStoreProofs`. `TypeCorrect` and `FinishedStays` (a stored verdict is final)
  need no strengthening and hold with failing statements. `IdsAreUnique` and
  `StoreImplementsLedger` assume that statements succeed (`~StatementsMayFail`;
  with failures the fallback id does collide). `IdsUnique` is not inductive:
  `IInv` adds that a drawn id is below the counter, that an id drawn and not
  inserted has no row, and that as soon as one `SqlState` is open the counter is
  above every row. The refinement then has one step per action: `EnableCounter`
  is the ledger's `Retire`, `EnableAbort` its `AbortAll`, a crash a `Drop` or a
  stutter.
- `RunControlProofs`, about `Selftest`, whose steps include all of `RunControl`'s.
  `TrafficIsRecorded` holds for any number of operators at
  once: `GateInv` says that the gate opens, and a thread gets past it, only when
  the row is there. `OneRowPerRun` and `VerdictEndsRun` are proved for
  `Operators = {Shell}`, from `ShellInv`, which relates the four flags and the
  tables at every statement; with two operators they do not hold (section 6).
  `LegsAreRecorded` holds for any number of operators and of selftests at once.
  It needs the whole of `GateInv`, because a leg's run shares table and threads
  with the session's: `LegOwners` says that no operator and no other leg has a
  leg's id in hand, so that what they start, stop, count or record is another
  run (`SessionLeavesLegs`), and `LegRows` what the row and the gate of a leg are
  at each of its statements.
- `DatagramsProofs`, in three layers. `WireInv` relates the counters to the sets
  of datagrams sent and sequenced whatever the network does (`sent` is the
  number of datagrams logged, and as long as nothing came out of order
  `received` is the number sequenced, plus the one in hand). `DebriefInv`, given
  `Waits` and `Settled`, says that the request states what is on the wire;
  `MatchProvesDelivery` follows because a subset of equal cardinality is the
  whole. `OrderInv`, given client ids of their own, says that on a faultless
  network datagrams are sequenced in order; `NoFlagsWithoutFaults` and
  `AlarmsHaveACause` follow, the latter with `PacketSize <= BufferSize`.
- `StreamsProofs`, for any number of clients and any sizes of header, chunk,
  payload, read buffer and socket buffers. Counters are numbers of bytes: those up
  to a position in each connection (`Bytes`), and those of them that end a header
  (`Marked`). Under them lie the layout of a packet (`FrameEnds`, `FrameInPacket`:
  frames follow each other without a gap and the last ends with the packet),
  what the next bytes end (`InHeader`, `InPayload`), and what a connection that
  gets on by n bytes adds (`GetOn`). `InStepWithStreams` needs `InFrame`: the
  reader's state is the place of its position in some frame; and `Waiting`: a
  connection not served yet has not been read from, so that a fresh reader meets
  the start of a packet. For the verdicts, `SentCounted` says that a client's
  counters are those of the packets it has written whole, but the last one
  if that is not counted yet, and `Frozen` that the request is about all that was
  written when no packet is in part. `MatchProvesDelivery` follows since a position
  that is nowhere ahead and has as many bytes is the same (`SameBytes`);
  `MismatchHasCause` since frames and bytes are both a function of the position.
  Neither needs `Waits`.
- `DebriefProofs`. `Agreement` assumes `OwnRunIds`, that hosts' run ids differ:
  the server's row has no other key, and of two hosts with one id the second
  replaces what the first was told (section 6). `OneConnection` says that a host
  is in the backlog once or with one responder, never both; with `ServesPeer`
  a responder's reply goes to the host whose request it has read and either
  recorded or failed to record, and `RowKept` says that nobody but `clean` changes
  that row afterwards: a client's record is the only one only if the host is
  `missing`. `PortKept` assumes executed profiles (`~Interactive`; a session's
  shared flag does give a responder up early) and excepts failed accepts;
  `GraceFromStop` ties `stopped_at` to the time since the stop.
- `RequestsProofs`. `CommandsSerialise`, for any number of requests and
  addresses, needs what a thread has left of its script: `AdminInv` says that,
  while no command of `Foreign` has run, it is a rest without a step on the file
  or on the mutex of the configuration (`Harmless`), or an `admin` command at one of
  its positions (`AdminFrom`); the mutex is held exactly by the thread between
  its lock and its unlock, and at each position file, memory and the thread's
  copy agree as far as the command has come (`FileFollows`). `ScriptsHarmless`
  sorts the scripts, `HarmlessStep` and `AdminStep` say what a step leaves of them.
  `OnePostAtATime` is about `ProfileRuns`, which the module extends as well:
  mutual exclusion by `busy` for any number of posts and session runs, inductive
  together with the types.
- `EvaluationProofs`, for any number of threads, lags, limits, protocols, runs and
  legs. `JitterIsDelayVariation` needs `JInv`: the packet clocked last in a slot, of
  whatever sender and run, has a transit time within the history's span, so that
  the next one differs from it by at most the widened span; a slot not clocked yet
  holds only missed pace; and what a thread has in hand under the mutex was
  measured against that last packet (`Measured`), which a reset between its two
  writes does not change. `FailuresAreExplained` needs `TInv`, that the total is
  no smaller than any slot, but for a slot that is torn, about to be cleared by a
  reset on its way; and `VInv`, that between the first step of an undisturbed
  verdict and its last the counters only grow and nobody changes the transport, so
  that what is read later exceeds the same maximum.
- `ServicesProofs`, for any set of operators, all of whose commands may overlap.
  `StatusRows` counts: a start moves an operator into `At(Starting)`, its row
  moves it out and into `started`, which grows because the ids in hand differ
  and none is recorded or lost (`IdsInv`); rows whose statement failed or that were
  cleaned are counted with the others. `StatusTold` needs to know who owns a
  listener: `OwnersInv` says that an enable past its bind has an open one of its
  own, `AloneInv` that without overlap it found the API off and the status names
  its address. `TypeCorrect` includes that no listener is left without a thread
  or an enable that will give it one.

Every invariant the passing runs check is proved, and so are the action
properties `FinishedIsFinal`, `KeepsServing` and `FailureIsExplained`. Only
model-checked: all liveness
(`CommandsReturn`, `LegsGetVerdict`, `SwitchedOffStops`, `DebriefEnds`,
`PortIsFreed`, `StopEndsTraffic`, `StreamsDrain`, `StopEndsClients`,
`StatusSettles`, `PortComesBack`): fairness and `ENABLED` are out of TLAPS's
reach, and so is induction over recursive definitions, which no module that is
proved about uses.

TLC checked the parts of the invariant of `Streams` on its instance before they
were proved. Looking for them showed that a match proves nothing when a packet
was in part at the request (section 6), which buffers smaller than a packet
hide: `MatchIsSound` makes the exception, and the run has larger ones.

## 5. Abstractions

- Counters, flags and locks are sequentially consistent, although the code uses
  `Ordering::Relaxed`: a flag seen late is a thread that polls late, but two
  counters seen in the other order are not modelled.
- Data is abstracted to what the properties tell apart: packets are numbers,
  verdicts are chosen (`ok` or `fail`) except in `Evaluation`, texts and logs are
  left out, every datagram of a run has one size.
- SQL statements may fail in `RunStore` (`StatementsMayFail`), `Debrief` and
  `Services`. In `RunControl` and `Selftest` they do not, and nobody gives `clean`
  during a run, which deletes the rows of runs in progress: `TrafficHasRow` says
  where the code puts the row and the gate, and is not true of a table that loses
  or has lost the row.
- A connection whose path breaks is reset at once in `Streams`; a path that is
  cut without a reset, for which a write waits until TCP gives up, is not there.
- `RunControl` has one transport, `ProfileRuns` one traffic port; runs of
  different transports use different sockets and do not meet. `RunControl` lets
  any operators act together, the shell included: more than the program does.
- `Complete` in `ProfileRuns` always returns: that a debrief ends is `DebriefEnds`.
- In `Evaluation` a packet is one byte, one minimum and one maximum stand for all
  limits of their form (throughput is a minimum over a quotient), and all
  protocols are enabled. The bytes received, counted, reset and judged as the
  bytes sent are, are left out. Wall clocks do not jump. There is one operator,
  as in the shell; of a selftest there is what it does to the operator's run, its
  own verdicts being those of `Selftest`.
- `Commands` leaves out the mutexes that are only ever taken and released by one
  statement and so make nobody wait (`clients`, `run_started`, `live`, `smtp`,
  `restapi_config`, `address`, `session`), `backend`, which is taken under
  `external` alone, and the terminal's display. Writes of `netmark.config`
  succeed. A command is any sequence of its steps whatever its arguments.
- In `Services` a monitor's call is one step whose result and counters are left
  out. After a `restapi disable` given over the web only requests that were
  already accepted can still execute; the model lets any.

## 6. Known gaps in the code, not kept as runs

They follow from the models' actions or from reading and are listed so that
nobody takes the theorems for more than they say.

Runs:

- Under `--serve` two requests may both pass the check of `start`
  (`session.rs` 448) or of `stop` (509), so that two runs are active at once, or
  one run is evaluated, completed and recorded twice. `RunControl` has both, but
  `OneExternalRow` and `ClosedIsStopped` are checked and proved for one operator.
- `clean` during a run deletes its row; the verdict then updates nothing.
- `Esc` (`main.rs` 166) stops the traffic of a run and leaves its row `running`
  until some later `enable` marks it `aborted`.
- `enable` of a second `SqlState` (`core.rs` 791; a profile run does it) aborts
  the row of a run in progress, and the verdict reported later is not stored.
- A `selftest` sets the session's `running` and changes its settings in a thread
  of its own (`cli.rs` 448): a `stop` in between judges the session's last
  run again and writes its second row to the external database, although
  `doc/netmark.md` 690 says each run writes one (with `Selftest`, TLC refutes
  `OneExternalRow`); a `save` in between persists the settings of a leg, and a
  `start` after such a `stop` runs next to the legs that are left.
- `configure type` during a run changes what the run is judged by
  (`lib.rs` 177, 283), not what it sends.
- A posted run and a session's run exclude each other nowhere, though
  `doc/openapi.yaml` 193 says that one run is in progress at a time.
- A `start_at` that does not parse leaves the profile's threads at their gate,
  with the ports bound, for the life of the process (`lib.rs` 503). `ProfileRuns`
  has such a thread, and `PortComesBack` excepts it.

Measuring and judging:

- The pair of timestamps jitter is computed from is shared by all senders of a
  slot and survives `reset_run` (`core.rs` 490-517): what `JitterBounded` bounds is
  the spread over all of them, clock offsets between senders included.
- The external row shows the total (`jitter_millis`, `lib.rs` 369), a run fails by a
  slot. A thread of the run before that `reset_run` catches between its writes of
  the two (`core.rs` 579, 581-587, 509-511) leaves a slot above the maximum and a
  total of 0: the run fails for a jitter that its row does not show (`torn`).
- A selftest leg calls `reset_run` (`cli.rs` 538) on the session's metrics. Between
  the verdict of a `stop` and its external row (`session.rs` 554) it leaves a row
  of zeros, or a detail that does not bear out the verdict (`disturbed`).
- An instance that is only a server always fails, because it sent no bytes
  (`lib.rs` 237). A run judged `ok` may show a jitter above the maximum in its
  detail, read after the verdict.
- `stop` does not wait before it debriefs, as `execute_profile` does: a packet
  just sent may be missing from the request (`Waits = FALSE`).
- A debrief answered between the counting and the sequencing of a duplicate
  (`core.rs` 1415, `Settled = FALSE`) can match in spite of a loss.
- Datagrams above 1024 bytes are truncated on receipt and always mismatch on
  bytes (`PacketSize > BufferSize`).
- These three are cases of `Datagrams` that `MCDatagrams` and the theorems exclude by
  the constants named.
- Two sender hosts whose clients have the same id share a sequence on the server,
  and two hosts with the same run id share a `debriefs` row.

Debrief:

- The responder ends with its first debrief; a second sending host is refused.
- The last profile's responder may still hold the port and answer for the next
  run, with its own counters (`core.rs` 1375).
- The server's statement may fail, or its SQL not be enabled, and the client is
  answered all the same (`core.rs` 869, 873, 1431): its record is then the only one,
  and nobody is told.
- In a session the responder's `stopped_at` (`core.rs` 1383) survives a restart of
  the shared flag. After stop, start and stop again the first run's responder, which
  still holds the port that the second's found taken, gives up at once, and a host
  that asks within the grace is refused, although `core.rs` 1326 calls it how long
  the responder keeps serving after the run has been stopped. `KeepsServing` does
  not hold for `Interactive = TRUE`.
- An error of accept ends a responder without its grace (`core.rs` 1396). Nothing
  reports it: the hosts that ask later are refused.
- A packet that a client is still writing when it asks for the debrief is
  counted by the server and not by the client. On a stream it can also make up for
  one that the server has not read: the counts agree and the debrief matches
  although bytes are missing (`asked.partial`).

Settings and services:

- `configure save` and `admin smtp` write `netmark.config` outside the lock that `admin`
  holds, and `configure reset` reads it there: an administrator added in between is lost. A
  `reset` between the truncation and the write of another command finds no
  configuration and takes the defaults; a crash there loses the file.
- `configure save` while the external database is disabled drops its entry of the file.
- `netmark.md` 255 says that every transport is enabled by default; SCTP and raw
  IP are not. Disabling all protocols and enabling one leaves a disabled one
  selected (the comment at `cli.rs` 767).
- Two enables of the REST API that overlap may leave the status with the address
  of the one whose listener is closed; an accept that fails leaves it `enabled`.
- `monitor start` under `--serve` sets the flag and writes a row, and nothing is
  ever checked: only the shell starts the worker.
- A row of `monitor_status` whose statement fails, or that comes while SQL is not
  enabled, is lost without a word (`core.rs` 1154, 1166).
- A `stopped` row may name the id before the one just started, and a check that
  was under way when the monitor was stopped and started is stored for the new one.
- No timeout: the external database's insert (a hung one blocks `status`, which
  holds `webrtc` while it waits, and then `start`), `benchmark`'s write
  (`cli.rs` 637), the HTTP test server's read (`core.rs` 1543). SMTP has one per
  read, and not for the whole conversation.

## 7. Plan

Done: run store and ledger, run control, datagrams, debrief, streams, profiles,
in this order, because ids and verdicts, traffic that stops, and a debrief that
proves delivery are what a user relies on; then the verdict with its jitter
clock, the mutexes and the file, the monitor and the acceptor, and selftests.

Next, in this order:

1. A proof of the flag and thread relation behind `OutcomeIsOwn`, for runs far
   enough apart.
2. Posted runs composed with `RunControl`.
3. Clients and protocol switches, and the conversion of `netmark.config`.
4. The channels of `webrtc::Sender` and `Receiver`.

Not modelled, and not planned: the conversations of sinks and mail (one call
each, results ignored; their locks are in `Commands`), raw sockets (their
deliveries are `Datagrams`' and `Streams`' network), the read-only REST
resources, the shell's keys and texts, the web page, `netmarkctl`, the Kubernetes
and shell scripts.
