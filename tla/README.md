# Network Speaker in TLA+

Network Speaker streams the audio a PC is playing to a phone or to another PC.
`hostd` captures the audio, encodes frames of 10 ms with Opus and sends each in
one UDP datagram; a client receives, reorders, decodes and plays them. A desktop
program (Tauri, or WPF on Windows) starts and stops `hostd`. This directory holds
TLA+ models of that system, TLC configurations that check them on small instances,
and TLAPS proofs about them. Paths are relative to the repository.

    tlc -config PlayerPipeline_fastlock.cfg MCPlayerPipeline.tla
    tlc -config AudioPath_heard.cfg MCAudioPath.tla
    tlc -config HostdProcess_overlap.cfg MCHostdProcess.tla
    tlc -config MCReceivers.cfg MCReceivers.tla
    tlapm PlayerPipelineProofs.tla

`PROJECT.json` lists components, runs, the source lines of every definition
("map"), findings, hazards and theorems. Definitions marked as mutants are
variants of an action with a mistake a programmer could make; each property is
violated under one of them, so it does say something about the code.

## 1. The system

| Component | Source | State | Operations |
|---|---|---|---|
| Jitter buffer | `libs/transport/src/jitter_buffer.cpp` | packets by sequence number | `Push`, `PopNext`, `DiscardBefore`, `Reset` |
| Player pipeline | `client/core/src/player_pipeline.cpp` | current stream, playhead, priming, adaptive target, statistics | `PushPacket`, `DrainReady` |
| Client session, receiver | `client/core/src/client_session.cpp`, `receiver.cpp` | socket, worker thread, `running_` | `Start`, `Stop`, `Run`, `PollOne` |
| clientd | `client/core/src/main.cpp` | sink's counters, statistics thread | start, sleep, stop, report |
| UDP socket | `libs/transport/src/udp_socket.cpp` | descriptor, bound port | `Open`, `Bind`, `Send`, `Receive`, moves |
| Packet format | `libs/transport/src/audio_packet.cpp` | none | `SerializePacket`, `TryParsePacket` |
| hostd | `server/hostd/src/main.cpp`, `udp_audio_sender.cpp` | stop flag, stream id, next sequence number | capture, encode, send loop, signal handler |
| Capture on Linux | `platform/linux/pulse_monitor_capture.cpp` | main loop, context, stream, lock, pending samples | `Start`, `ReadFrame`, callbacks, lookup of the monitor |
| Capture on Windows | `platform/windows/wasapi_loopback_capture.cpp` | COM, endpoint, clients, pending samples | `Start`, `ReadFrame`, `Shutdown`, conversion |
| Device enumeration | `platform/*/…_device_enumerator.cpp` | the list | `EnumerateAudioRenderDevices` |
| Desktop process manager | `apps/desktop/src-tauri/src/hostd_process.rs`, `commands.rs`, `tray.rs` | `ProcessInner`, the child, what the window shows | `start`, `stop`, `on_process_exited`, `emit_state_changed` |
| Desktop front end | `apps/desktop/src/stores` | last status received, log | commands and event listeners |
| Windows launcher | `apps/windows-launcher` | `HostdProcessController`'s state, active process | `StartAsync`, `StopAsync`, `OnExited` |
| Android client | `client/android-app` | native bridge's globals, service state, `AudioTrack` | `nativeStart`, `nativeStop`, service commands |
| Harmony client | `client/harmony-app` | sample ring, audio renderer, session | `NativeStart`, `NativeStop`, audio callback |

**How they interact.** hostd and the client share nothing but datagrams: there
is no acknowledgement and no retransmission, so the client recovers from loss,
reordering, duplicates and restarts of hostd by itself. Within the client one
worker thread owns the pipeline and alternates `PollOne` and `DrainReady`; the
pipeline calls the jitter buffer, the decoder and the sink. The sink hands PCM to
another thread: through JNI to an `AudioTrack`, through a lock-free ring to an
audio callback on Harmony, to counters in clientd. hostd pulls frames from a
capture that waits for the sound server's main loop (Linux) or polls the device
(Windows) and paces itself by a clock. The desktop's window and tray issue
asynchronous commands to one process manager, which spawns hostd, waits for its
exit in a task of its own and reports its state by events; the Windows launcher
does the same with a window thread and events of the thread pool.

**What is hard.** In the player: a playhead that must advance exactly when the
missing packet is not going to come, while the buffer's window, the adaptive
target, refusals of the sink and catch-up all interfere; 32-bit wrap; a second
stream in flight. In the process managers: commands and exits overlap, the lock
is given up between every two steps, and a kill sender that is merely dropped
kills. In the bridges: threads that are joined while they call back, and a start
that fails half-way. In the captures: wake-ups between two threads, clocks that
drift apart, a chain of resources each of which may be refused.

**What makes each correct.** The player plays accepted packets in order, each at
most once, stays within its window, accounts for every sequence number, and never
falls silent for good; its depth follows the arrivals. A process manager never
loses a hostd it has started, tells the truth about it once things are quiet, and
ends it when told to. hostd ends by its own exit code, and 0 means success. A
capture is on time for ever, accumulates neither lateness nor sound, keeps the
channels apart and gives back what it took. The ring delivers samples in order,
none twice and none unwritten. A bridge leaves no thread, port, sink or playing
track behind.

## 2. The modules

| Module | Contents |
|---|---|
| `JitterBuffer` | the buffer as operators on the set of buffered sequence numbers |
| `PlayerPipeline` | `PushPacket` and `DrainReady` under an arbitrary single-threaded caller |
| `OrderedPlayout` | abstract specification: what the pipeline promises a listener |
| `AdaptiveTarget` | the statistics and timers that move the buffer's depth, with time |
| `AudioPath` | hostd, the network and the worker thread around `PlayerPipeline` |
| `UdpSocket`, `AudioPacket` | sockets over the system's descriptors; one datagram as bytes |
| `ClientSession` | `Start`, `Stop`, destructor and the worker's life |
| `ClientdMain` | clientd's three threads around a `ClientSession` |
| `AndroidReceiver` | service, JNI bridge, worker and `AudioTrack` around a `ClientSession` |
| `HarmonyReceiver` | bridge, worker and audio sink around a `ClientSession` |
| `SampleRing`, `SampleFifo` | the lock-free ring, load by load; the queue it implements |
| `HostdMain` | hostd from its arguments to its exit code, with signals |
| `PulseLookup`, `PulseCapture`, `PulsePacing` | capture on Linux: name of the monitor, threads and objects, time |
| `WasapiLifecycle`, `WasapiDevices`, `WasapiFormat`, `WasapiPacing` | capture on Windows: resources, list of devices, samples, time |
| `HostdProcess` | the desktop's process manager, hostd's process, the emitted status |
| `HostdController` | the launcher's controller, its threads and hostd's processes |
| `PlayerPipelineProofs`, `AudioPathProofs`, `HostdProcessProofs` | theorems about the module of that name |
| `ReceiversProofs`, `RingProofs`, `HostdProofs`, `WasapiProofs`, `TransportProofs` | theorems about the parts that `MCReceivers`, `MCHostd`, `MCWasapi`, `MCTransport` put together |
| `MC…` | instances for TLC |

### JitterBuffer and PlayerPipeline

`buffer` is the key set of `packets_`; payloads do not matter to any property.
`PushPacket(id, s, stale)` is the whole method: a stream change resets everything
(`ResetForStream`), a stale packet is dropped, arrivals are counted, the buffer's
`Push` refuses what is behind the playhead, more than `MaxWindow` ahead or already
there. `expected_sequence_ + max_window_` is a `size_t` sum: it does not wrap on the
64-bit targets the models assume.

`DrainReady` is a loop of up to hundreds of iterations that calls the decoder and
the sink, so it is one action per iteration, with `pc` telling whether control is
inside. `StartDrain` is the part before the loop: priming by FastLock (jump to
`newest - StartupLead`) or by the steady target, and the step of the adaptive
target. The loop's branches are `CatchUp` / `CatchUpGivesUp` (soft catch-up),
`SkipGap` (give the missing packets up), `DrainDry` (return), `DecodeFails`,
`SinkRefuses` (return, the packet is already popped) and `Submit`. Nothing else
may run between two of them: `PushPacket` requires `pc = "idle"`.

The playhead is a `uint32_t`: `Plus` and `Minus` work modulo `MaxSeq + 1`, and the
comparisons in `Push` are unsigned without wrap-around, as in the code.

Abstracted: the clock (whether a packet is stale and whether a played frame was
late are choices), the arrival statistics (the adaptive target may move by one per
drain once enough packets have arrived, within the configured bounds; this allows
every move the code makes), PCM, and counters that feed no decision.

`origin`, `baseline`, `played` and `wrapped` are history variables for `Accounting`
and the refinement; no guard reads them.

`OrderedPlayout` knows a stream, the packets that may still be played and how far
the play-out is. The refinement mapping is `pending <- buffer`,
`last <- expected - 1`; every step of the pipeline is a step of it or a stutter.

### AdaptiveTarget

The other half of the abstraction above: here time is modelled and packets are
not. A step is one round of the worker's loop, `Arrival(d)` or `Nothing(d)`, taking
`d` ticks. Times are kept as ages relative to now (`since`, `lowFor`,
`raised`), capped where the code no longer tells them apart, so time is unbounded.
`Variance` is the code's integer mean and sum of squares. `Raise`, `Track` and
`Hold` are the branches of `DrainReady`, with the rate limit (an increase that is
due too early leaves the low-variance timer running).

### AudioPath

Adds what surrounds the pipeline. `SendFrame` / `SendLost` are hostd's send loop
(sequence numbers from 0), `RestartHostd` starts it again with another stream id.
`net` holds datagrams in flight, delivered in any order; `MaxDelay` bounds how far
one may fall behind, `MaxBurst` how many in a row may be lost, `CleanTail` how many
frames at the end of a stream meet no fault. `PollPacket`, `PollNothing` and `Drain`
are the worker's loop in `ClientSession::Run`: one poll, then one drain, for ever. `heard`
and `skips` are history.

### UdpSocket and AudioPacket

`UdpSocket` has any number of places where a socket object lives; `fd_` and
`bound_port_` are the objects' fields, `open` and `bound` what the system holds.
Actions are construction, move construction and assignment, `Open`, `Bind`, `Send`'s
and `Receive`'s implicit opening, `Close` and destruction, with every system call
refused at will. Copies do not exist in the code (deleted), so moves are the only way
to share a descriptor by mistake. No object of the repository is moved today: here the
model says what the class promises to whoever does.

`AudioPacket` follows one datagram: `SerializePacket` with the code's writers of 2, 4
and 8 bytes, a stranger's or damaged datagram, the 2048-byte receive buffer that cuts a
longer one (what is kept of it, or an error on Windows), the filter by sender,
`TryParsePacket` with its readers at their offsets and its checks. A byte has `Base`
values; the widths of the fields in bytes are the code's.

### ClientSession and its owners

`ClientSession` is the object under one owner thread that calls `Start` and `Stop`
in any order: the socket (`none`, `open`, `bound`), `running`, and where the worker
is in its loop. The worker ends at once when the decoder cannot be created. `aborted`
records what C++ punishes with `std::terminate`: assigning to or destroying a
joinable thread. The three programs that own a session are composed with it by
`S == INSTANCE ClientSession` and use its steps:

* `ClientdMain`: `main`, the statistics thread and the worker. Time advances only
  while all of them wait. The sink's counters are atomics, the report reads them
  last.
* `AndroidReceiver`: the main looper's queue (`inbox`), the service's commands as
  sequences of steps (`todo`), the bridge under `g_mutex`, and the worker, whose
  drain calls back into `AudioOutput` under its monitor. `g_mutex` is only taken by
  the main thread.
* `HarmonyReceiver`: one call of `NativeStart` or `NativeStop` as a sequence of
  steps; `builders`, `renderers` and `sounding` count what the system holds, apart
  from what the sink's fields say.

`SampleRing` is `SpscRingBuffer` with a step for each atomic load, each sample copied
and each store, on both sides. `head` and `tail` are free-running counters modulo
`IndexMod` (2^64 in the code). It implements `SampleFifo`: a write appends a
prefix of the frame to a bounded queue at one instant, the publishing store; a read
removes a prefix at one instant.

### hostd and its captures

`HostdMain` is `main`: arguments, installation of the two handlers one after the
other, set-up steps that may fail, the announcement, and the loop. A signal may come at
any moment; before its handler is installed it kills. `--seconds` is multiplied by
the frames per second in `int` arithmetic modulo `IntMod`, which is 2^32 in the code,
and the product is compared as a `uint32_t`.

`PulseLookup` has the two conversations with the sound server: default sink, then that
sink (or all of them), on a main loop iterated by the caller. `PulseCapture` has the
threaded main loop: `lock` is its mutex, `waiting` the caller inside
`pa_threaded_mainloop_wait`, which gives the lock up; callbacks signal it. The
destructor stops the loop before it frees the objects. `PulsePacing` is
`ReadFrame`'s loop in time: fragments come with jitter, the thread may run late, and
`next_tick_` advances by one frame per frame. The server sends from when the stream is
ready, which is before `Start` reads the clock: `Ahead` bounds the sound there is by
then, thanks to which the thread sleeps until the schedule and not only for sound. `Late`
bounds the delay of the thread between two moments at which it has nothing to do (it
waits for sound, or sleeps); how often it is late is not bounded.

`WasapiLifecycle` is `Start`'s chain of acquisitions with every call refused at will,
`CoInitializeEx` with its three outcomes, and `Shutdown`. `WasapiDevices` is the
enumeration while devices come and go. `WasapiFormat` decodes one sample of every
width or mixes one frame of every speaker layout down to two channels; the channels of a
frame are the bits of the mask in their order, so which speaker a channel is depends on
all bits below it (`ChannelOf`, `BitOf`). A layout has a mask and `more`, the number of
channels for which the mask has no bit: `ChannelBitForIndex` finds none, and the mix
takes its default branch. `WasapiPacing`
is `ReadFrame` in time: periods with and without sound, packets late by up to
`Jitter`, the resampler's integer position, silence that fills a frame up when its
deadline has passed; `Late` is as in `PulsePacing`.

### HostdProcess

Every call of `start` and `stop`, and every task that waits for a child, is a task
with a control point in `pc`; an action is what a task does between two
acquisitions of the mutex. Two tasks therefore interleave wherever the code gives
the mutex up: between `start`'s check and its transition, between the spawn and the
registration, between the three critical sections of `on_process_exited`, and between
a transition, the reading of the status and its emission (`report`).

The child of call `c` is `c`, and so is its kill sender, which travels from `start`
to `ProcessInner.child_kill_tx` (`killTx`) and to a `stop` (`held`). The wait task
selects on the receiver with the pattern `_`, so a sender that is dropped kills as
well; `signalled` is the set of children whose sender is gone. That rule carries
much of the manager's correctness: it is what reaps the loser of two overlapping
starts.

`start` and `stop` may be called at any moment, any number of times up to the bound:
the window's buttons follow the last emitted status, the tray asks the manager, and
both are asynchronous.

### HostdController

The launcher's controller. `ui` is the window's thread inside `StartAsync`
(`Process.Start`, `BeginOutputReadLine`, the transition to Running, outside the
lock); a `StopAsync` that waits (`waits`) leaves that thread free. `exited` follows
the `Exited` event of each process on a thread of the pool: the locked part, the
transition, the cleanup. `Kills` says what `Process.Kill` may do.

## 3. The runs

| Run | Shows | Distinct states |
|---|---|---|
| `pipeline_fastlock` | `TypeOK`, `Window`, `Accounting`, `DrainExhausts` and the refinement of `OrderedPlayout`, with an arbitrary caller and the default switches | 205,061 |
| `path_heard` | `PathTypeOK`, `TailHeard`: once across a restart of hostd with stragglers, once with decoder and sink failures and the phones' switches | 564,264 |
| `path_clientd` | `BacklogBounded`, `FastLockNeverJumps` across a restart of hostd, clientd's switches | 1,948,504 |
| `hostd_overlap` | `TypeOK`, `ChildReachable`, `SettledStateIsTrue` with two starts and two stops | 1,850,983 |
| `hostd_stopping` | `StopKills`, `StoppingEnds` with two starts, one stop, failing spawns | 241,094 |
| `receivers` | the session, its three owners and the ring | 18,497 |
| `hostd_sides` | hostd's main, the Linux capture, the launcher's controller | 100,888 |
| `wasapi` | the Windows capture and its list of devices | 214,381 |
| `transport` | sockets, one datagram, the adaptive depth | 31,647 |
| `path_burst` | violation of `TailHeard` | |
| `path_catchup` | violation of `SmallCatchUp` | |
| `hostd_early_stop` | violation of `StopEndsStreaming` | |

`path_heard`, `receivers`, `hostd_sides`, `wasapi` and `transport` check several
models in one run: a variable `part`, chosen in the first state and never changed,
says which one moves, and the variables of the others stay at their initial values.
The state spaces are therefore added, not multiplied, and a property names the part it
is about (`part = "clientd" => …`). Properties of several parts with the same purpose are
conjoined: `CallsReturn` is the return of every call of each owner of a session.

What the properties say, and why they could fail:

* `Window` is enforced by `Push` only at the moment of the push. Everything that
  moves the playhead (jump, gap, catch-up, submit, decode failure, reset, wrap)
  has to keep it.
* `DrainExhausts` says a drain stops only because there is nothing left to do: its
  exits are scattered over the loop and a wrong one delays play-out by a packet for
  ever.
* `TailHeard` is the liveness property of the player: once hostd stays with a
  stream, its last frame is eventually heard, whatever happened before the clean
  tail.
* `BacklogBounded` bounds the latency the buffer adds by the largest jitter
  target; the code states no such bound, it follows from the alternation of one
  poll and one drain.
* `FastLockNeverJumps`: under `ClientSession` the FastLock jump, on by default, is
  dead code when the steady target (3) is below the start-up threshold (4).
* `SettledStateIsTrue`: when no task has anything left to do, the manager says
  Running exactly when one hostd runs, the one whose sender it holds. Nothing in
  the code says so; each interleaving gets there by another way.
* `NeverAborts`, `StoppedHoldsNothing`: a joinable thread is never overwritten although
  `Start` does not look for one (the bound port refuses it first); a bridge that is not
  running holds nothing. On
  Android this needs that the worker, which starts the track by itself, is joined
  before the track is released.
* `CallsReturn`: no owner waits for ever in a join, or on a monitor that the
  worker holds while it calls back; clientd ends whatever it receives.
* `ClientdEndsCleanly`: the report is read when no other thread is left, and not later
  than one poll or one interval after the time is over.
* `RingRefinesFifo`, `RingChannelsInStep`: no sample is lost, repeated or read before it
  is written, also where the counters wrap and where a full or an empty ring cuts a
  frame; left stays left.
* `HostdEndsTruly`: hostd that has announced its stream is never killed by a signal,
  and code 0 means that all frames asked for were sent, or a stop. `StopsEnd`: a handled
  signal ends hostd; the controller does not stay in Stopping even when hostd takes
  longer to die than it waits.
* `LookupReturnsTheAnswer`, `PulseCallsReturn`, `LockAndObjects`: the conversation with
  the sound server is not left early, and what it keeps is the server's answer; no
  wake-up is lost between caller and loop, and nothing is freed while the loop's thread
  may use it. When a request is refused or the connection lost, the lookup keeps the
  beginning of the answer. That is not always nothing: `ResolveMonitorSourceName` returns
  the name (`pulse_monitor_capture.cpp:310`) also when only the end of the answer is
  missing.
* `PulseKeepsPace`, `WasapiKeepsPace`: lateness does not add up over frames, however often
  the thread is late, nor does sound; on Windows what waits in `ReadFrame`, what the endpoint must buffer and, while a
  device plays, the silence filled in stay within one margin, that of two frames, period,
  wait, jitter and last delay of the thread.
* `OnlyActiveLives`: every hostd that lives is the one the controller can stop, though
  a start is accepted while older events are still on their way.
* `ComBalanced`, `FailureHoldsNothing`, `StartedIsComplete`: COM is left exactly as
  often as it was entered, on any failure path and across repeated starts.
* `ListIsTrue`: the list has each device once and at most one default; a default
  that changed or went in the meantime does no harm.
* `ConversionKeepsSound`: a PCM sample of each width, with 8 bits unsigned and any number
  of valid bits, comes out as the signal cut to those bits; the same sound with left and
  right exchanged is mixed to the two sides exchanged, whatever other speakers there are
  and however many channels have no bit in the mask.
* `OneOwner`, `PortIsOwn`: a descriptor has one owner through moves and failures, and
  the port an object reports is that of its descriptor.
* `PacketIsExact`: what is accepted from anybody are exactly the bytes, as far as
  `Receive` kept them, that `SerializePacket` writes for the packet that comes out; a
  packet of hostd that fits arrives field by field, and one that does not fit not at all.
* `ShrinksWhenCalm`, `Adapts`: the depth never shrinks in a storm, reaches its maximum
  if arrivals stay irregular and its minimum if they stay regular, and stops moving.

### Bounds

All bounds are constants named in the modules.

* Pipeline: window 3, thresholds 1 to 3, sequence numbers 0..5, six packets, two
  streams. A behaviour can prime either way, lose, jump, catch up, be refused, change
  the stream and wrap the playhead. The proofs cover the real values (window 64,
  2^32 sequence numbers). In this run the start-up threshold is the steady target, so
  FastLock always primes first; `PrimeSteady` is reached in the path runs.
* Path: window 6 with targets up to 3 keeps the code's order
  `StartupLead < SteadyTarget < StartupBuffer <= MaxWindow`; streams of 5 to 12
  frames are longer than the clean tail and what may be lost before it. `TailHeard`
  needs the window to be large against the bursts: with a maximal target T and bursts
  of B, losses can thin out what fits in the window, and about T(B+1)-1 sequence
  numbers are needed before T packets are certain to gather. With fault-free sinks and
  T=2, B=2 window 5 suffices and 4 does not; T=3, B=1 needs 4, or 5 with sink and decoder
  failures. The defaults (64, targets up to 8, 6 on phones) leave room for bursts of
  about seven frames, 70 ms, if they repeat, and for a single one of up to 64.
* `MaxReceived` never binds in the path runs (`PathAssumption`). In
  `pipeline_fastlock` it ends behaviours after six packets.
* Manager: two starts and two stops contain each pair of overlapping calls, a start
  during the cleanup of an earlier child, and the timer of one stop during another.
  The runs that check safety with symmetry check no temporal property that
  symmetry could spoil. The proofs cover any number of calls.
* Session and Harmony: six calls, which contain start, failure, start again, stop and
  destruction with each step of the worker. Android: four taps, enough for a stop and a
  start that overtake the end of the service. The theorems about the session and its
  owners are for any number of calls.
* Ring: a requested capacity of 3 (4 after rounding), frames of 4 samples, reads of
  2 and 4, counters modulo 8: every fill level at every counter value, several wraps.
* clientd: 7 ticks with an interval of 3 and a poll of 2, which do not divide each
  other; two frames.
* `HostdMain`: an `int` of 5 bits (`IntMod` 32) and 3 frames per second; 0 (unlimited), 1 and 5
  seconds. Numbers of seconds whose product exceeds 32 bits are excluded (see section 4).
* Linux capture: three sinks; a frame of 2 units with fragments of 1 and 3 and two
  fragments ahead; pacing with a frame of 4 ticks, fragments of 3, up to 6 ticks of sound
  at the start, jitter 3 and a thread up to 5 ticks late at a time. Times relative to now make these models unbounded in time.
* Controller: three starts, for an old, a current and a next process.
* Windows: three starts; three endpoints; bytes of two bits, widths of 1 to 4 bytes,
  eleven device masks from mono to 7.1, and 1, 2 or 6 channels more than the mask has bits;
  pacing with frame 4, period 2, sampling rates 2:3, jitter 2, thread up to 5 late at a time.
* Transport: three objects, three descriptors, ports 1 and 2; bytes of two values, payloads
  up to 3 bytes, any length up to one byte over the receive buffer. Depth: a window of 2
  intervals, a second of 6 ticks and ten seconds scaled to 12, depths 2 to 4, polls of 2.
  The order of the code's thresholds is kept (`TargetAssumption`).
* Deadlock is checked in the pipeline and path runs; the other runs have
  bounded numbers of calls, after which the system may rest (`CHECK_DEADLOCK FALSE`).
  What must not rest there is said by their liveness properties.

### Fairness

* `AudioPath`: weak fairness of `Drain` (a running thread goes on) and strong
  fairness of receiving: while datagrams are queued, `PollOne` may time out between
  two of them but not always. Nothing is assumed of hostd or of which datagram comes
  first. `TailHeard` itself is conditional on hostd having sent the whole stream.
* `HostdProcess`: weak fairness per task, which the tokio runtime provides for
  ready tasks; `KillChild` is among the wait task's steps because SIGKILL and
  TerminateProcess end a process. Calls of start and stop, and hostd's own exit, are
  not fair. The five-second sleep ends at any time; only its order with respect to
  other steps matters.
* `ClientSession` and its owners: weak fairness of each thread; the operating system
  schedules them and `poll_timeout` is finite. On Android also that a drain plays finitely
  many frames and that a thread that asks again and again for the track's monitor gets
  it once (strong fairness): Java's monitors are not fair, but the worker gives the monitor
  up for a network poll. Calls of the user are not fair. clientd: time passes as well.
* `HostdMain`: main goes on, and reading a frame returns as long as sound
  arrives. `PulseLookup`, `PulseCapture`: the caller and the loop run and the server
  answers what it accepted; the caller gets the lock sometime although the loop takes
  it again and again. libpulse reports a server that goes away as a failed context, which
  is an answer.
* `HostdController`: the window's thread and the pool run, `Task.Delay` fires, and a
  hostd that is dying ends. hostd's own exit and the user are not fair.
* `AdaptiveTarget`: time does not stand still. `PlayerPipeline`, `SampleRing`,
  `UdpSocket`, `AudioPacket`, `WasapiLifecycle`, `WasapiDevices`, `WasapiFormat` and both
  pacing modules assume no fairness: their properties are about safety, with bounded
  lateness in place of liveness.

## 4. What the code does not keep

Three runs check a statement of the repository and find it violated; `PROJECT.json`
quotes it under "findings".

* `path_burst` (`jitter_buffer.cpp:15`). After a loss longer than the window every
  later packet of the stream is too far ahead, the buffer stays empty, and the
  playhead, which only moves when something is buffered, never catches up. The
  documents promise that no loss silences the client for good.
* `path_catchup` (`player_pipeline.cpp:170`). Catch-up decides by the latency of the
  last frame played and discards without playing; the worker drains after every
  packet. Once above the threshold, one packet after another is discarded and the
  latency is never measured again. This is why the runs that check `TailHeard` have
  catch-up off (as on Android, Harmony and whenever the threshold is 0) or no tail to
  hear.
* `hostd_early_stop` (`hostd_process.rs:97`). The registration of the child overwrites
  a stop that was accepted while hostd was being spawned. `StopKills`, the same
  property for a registered child, holds.

Other statements one expects of the code do not hold either. They are kept as
definitions, marked "The code does otherwise", and no run depends on them. Each is
violated by TLC within seconds in its own module, with the bounds of section 3 unless
others are given:

| Definition | Where | What happens |
|---|---|---|
| `AudioPath!OnlyNewStreamResets` | `player_pipeline.cpp:59` | a straggler of the previous hostd resets the pipeline to the old stream, the next packet back again (2 streams of 4 frames, `MaxDelay` 2, no loss); `path_heard` shows that this ends with the stragglers |
| `AdaptiveTarget!ShrinksAfterTenSeconds` | `player_pipeline.cpp:143` | an increase that the rate limit refuses leaves the low-variance timer running, so the ten seconds may contain a storm; `ShrinksWhenCalm` says how old it is at least |
| `HostdProcess!SpawnFailureIsReported` | `hostd_process.rs:86` | a failed spawn leaves the manager in Starting (one start, one stop, `SpawnMayFail = TRUE`, `FairSpec`) |
| `HostdProcess!SettledViewIsTrue` | `hostd_process.rs:258` | statuses emitted outside the mutex overtake one another and the window keeps a stale one (one start, one stop) |
| `HostdController!RunningHasProcess` | `HostdProcessController.cs:102` | the exit of a short-lived hostd is handled before `StartAsync` says Running: no process, and no start is accepted any more |
| `HostdController!OnlyActiveLives` with "dying" in `Kills` | `HostdProcessController.cs:163` | after the timeout of a stop the state is Faulted, and a new start replaces the process that still lives |
| `AndroidReceiver!FailureStaysShown` | `SpeakerService.kt:50` | `onDestroy` publishes Stopped over the failure |
| `AndroidReceiver!StartSticks` | `SpeakerService.kt:69` | `stopSelf` races with a start that is on its way |
| `HarmonyReceiver!RunningIsTrue` | `napi_init.cpp:87` | the result of the sink's start is not looked at, and a worker without decoder is not noticed |
| `PulseCapture!RecordsMonitor` | `pulse_monitor_capture.cpp:164` | a lookup that fails records the default source, which may be a microphone |
| `PulsePacing!SteadyCadence` with `Gaps = TRUE` | `pulse_monitor_capture.cpp:246` | after a pause of the sound the schedule lies in the past, and frames leave without spacing until it has caught up |
| `WasapiFormat!MixKeepsSides` with a mask of one speaker and two channels | `wasapi_loopback_capture.cpp:333` | the second channel has no bit and is taken for the right one, the first is on both sides: the mix leans to the right (`FormatAssumption` excludes it) |
| `HostdMain!SignalEnds` with `MayStall = TRUE` | `pulse_monitor_capture.cpp:223` | a capture whose sound stalls waits without deadline, and the flag is not looked at |
| `HostdMain!SuccessIsTrue` with a large number of seconds | `hostd/src/main.cpp:175` | the number of frames wraps in 32 bits |
| `ClientdMain!RunsForSeconds` | `client/core/src/main.cpp:90` | the statistics thread is joined in the middle of its interval |

## 5. What is proved

Every theorem holds for all values of the constants that the named assumptions admit;
TLC evaluates the same assumptions in the runs. `PlayerPipelineProofs`,
`AudioPathProofs` and `HostdProcessProofs` are about the specifications of those names.
The other five modules are about the compositions `MCReceivers`, `MCHostd`, `MCWasapi`
and `MCTransport`, which keep the constants of their parts as constants and only add
`part`: a theorem about `part = "pacing" => …` is one about that component alone, with
its own constants.

| Assumption | Says |
|---|---|
| `JitterAssumption`, `PipelineAssumption`, `PathAssumption`, `TargetAssumption` | the order of the configured windows, depths and thresholds |
| `ManagerAssumption`, `ControllerAssumption`, `CallsAssumption`, `ClientdAssumption`, `HostdAssumption` | types of the bounds, and which outcomes a kill may have |
| `PacketAssumption` | a byte has at least two values; a datagram is shorter than a header and 2^16 bytes, as UDP demands |
| `FormatAssumption` | a byte has bits; the speakers of a mask stand on both sides alike, and those that the mix does not know (front left and right of centre, top centre, top back centre) come with the two front speakers; channels without a bit come with a mask of more than one speaker, or of none |
| `SocketAssumption`, `LookupAssumption`, `DevicesAssumption` | -1 is no descriptor and 0 no port; devices are finitely many, and their ids differ from the words of the conversation |
| `RingAssumption`, `PulsePacingAssumption`, `PacingAssumption` | sizes are positive, jitter, delay and what is there at the start any numbers; a period of the device is a whole number of samples |

Some theorems have hypotheses of their own. `Aligned` (`RingIsAQueue`,
`RingKeepsChannels`, `ReceiversTyped`): the ring's capacity divides the range of its
indices, as `NextPowerOfTwo` provides. `Paired` (`RingKeepsChannels`): frames, callbacks
and the capacity are whole pairs of samples; the bridge writes stereo frames, and
OHAudio asks for whole frames. `AskedFits` (`HostdEndsTrulyAlways`): the frames asked
for fit an `int`; section 4 says what happens otherwise. `SpawnMayFail = FALSE`
(`SettledStateHolds`) and a kill that takes effect at once (`OneHostdLives`, through the
instance `Prompt`): see section 4 as well.

**PlayerPipelineProofs.** `TypeCorrect`, `WindowHolds`, `AccountingHolds`,
`DrainExhaustsHolds` and `Refinement` (`Spec => Abstract!Spec`). The inductive invariant
is `TypeOK /\ Ahead /\ Accounting /\ Settling`. `Ahead` is the element-wise part of
`Window`; the bound on the buffer's size follows from it by counting an interval.
`Settling` bounds the run of successes that ends FastLock, without which the type of
`consecutive` is not inductive. `Accounting` is inductive by itself but needs the types
of every counter; the wrap of the playhead is where its `wrapped` term comes in. The
refinement and `DrainExhausts` are proved action by action from the invariant.

**AudioPathProofs.** `PathImplementsPipeline` (`PathSpec => Spec`) shows that hostd, the
network and the worker use the pipeline as `PlayerPipeline` allows, so that its theorems
carry over (`PathIsOrderedPlayout` is one of them). `PathTypes` is the type of the
composition. `BacklogBoundHolds` and `FastLockJumpUnreachable` rest on `Depth`: before a
drain the buffer holds one packet more than after the previous one at most, and a drain
that returns leaves fewer than the target. An unprimed pipeline is bounded by the steady
target, primed or not by the largest target; the first bound is what makes the jump
unreachable when the start-up threshold is higher.

**HostdProcessProofs.** For any number of calls of start and stop: `ManagerTypes`,
`ChildReachableHolds`, and, unless a spawn may fail, `SettledStateHolds`. What makes the
last one inductive is that every value of `state` has a task that answers for it:
Starting a start that will register its child (`StartingOwned`), Stopping a stop that
will give up (`StoppingOwned`), Running a registered child whose exit is yet to be
reported (`RunningOwned`); and that a registered sender outlives the state Running only
while another start is under way or a reported exit is about to drop it (`SenderOwned`).
`OneOwner` says that a sender is in one place, `StartPoints`, `WaitPoints` and
`StopPoints` tie control points to children and senders.

**RingProofs.** `RingIsAQueue`: the two threads, one load, sample or store at a time,
implement `SampleFifo`, for every capacity and wrap-around. The queue is the sequence of
the slots between the indices. `Writing` says what the writer has copied beyond them
(the frame it is about, as far as it got, and that the room it has seen can only grow),
`Reading` that what the reader has copied are the oldest samples. A step either leaves
the queue alone (`CopyIsOutside`: a copy goes to a slot the queue does not have), or
publishes (`PublishPuts`), or frees (`FreeTakes`). The lemmas about remainders make the
free-running indices, which wrap at their own modulus, agree with slots.
`RingKeepsChannels` adds `InStep`: the oldest sample is a left one and sides alternate.

**ReceiversProofs.** The session by itself: `SessionSafe`, for any number of calls. `NeverAborts` is not inductive: what keeps `Start` from overwriting a
joinable thread is `ThreadHasPort`, that whoever has one also has the bound port, which
a second bind refuses. Its owners: `StoppedReceiversHoldNothing`. On HarmonyOS
`HarmonyPoint` says what each remaining call of the bridge presupposes, and that the
sink's fields agree with what the system holds. On Android the main thread's remaining
steps are one of finitely many sequences: before its join the worker may still play;
between join and pause there is none but the track may play; after that both are gone
(`BeforeJoin`, `BeforePause`, `AfterPause`). `ClientdEndsWell`, for any time, interval
and poll: the statistics thread wakes at multiples of the interval (`Due`), the worker's
poll ends at most `Poll` after the time, and nothing else moves the clock.
`ReceiversTyped` is the types of all of them.

**HostdProofs.** `HostdEndsTrulyAlways`: handlers are installed before anything is
announced (`Handles`), fewer frames than asked for were sent inside the loop (`Counts`),
and the product of seconds and frames per second does not wrap (`FramesFit`).
`LookupReturnsTheAnswerAlways`, for any set of sinks: a conversation has asked and not
been answered, is being answered, with what was sent, what is under way and what was
found adding up to the list (`RestOf`), or is complete, and then the callbacks have kept
what was sent (`Answering`, `Complete`); one that is broken off has found the beginning. `LockAndObjectsAlways`: who holds the lock at
each step of the caller, and when the loop's thread runs (`Holds`, `Running`).
`PulseKeepsPaceAlways`, for any fragment, jitter, delay and start: what was sent, what
waits and what is on its way are all the sound there was (`Conserved`), so that the
distance to the schedule says how much waits; and a thread with nothing to do has either
sent all that has come or is ahead of the schedule, so that no earlier delay is left in
that distance. `OneHostdLives`: where a kill takes effect at once
every hostd that lives is the one the controller can stop. All processes but the newest
are settled (never launched, or their exit is reported), and the newest as well whenever
a start may be accepted or the field is null. That is why the event of an older process
never changes the state of a newer one.

**WasapiProofs.** `ComIsBalanced`, `FailureLeavesNothing` and `StartedHasEverything`,
for any number of starts: `Candidates` and `Taken` say what must be held at each step of
`Start`, `Idle` that nothing was held when it began. `ListIsTrueAlways`, for any finite
set of endpoints: an endpoint is yet to be visited or listed, exactly once, with its
mark (`Once`, `Listing`), unless the list was given up (`Unlisted`).
`WasapiKeepsPaceAlways`, for any frame, period, rates, jitter and delay: `Sound` weighs
a tick with `Rate` and a sample of output with `Sample`, both whole numbers, so that the
resampler's fractional position fits in without division. What waits, what is under way
and what is owed to the schedule then add up to an amount that a tick, a pump and a sent
frame leave alone; silence is the only addition, and it is filled in only when less than
a frame was there at the deadline (`Gathered`). `Balanced` turns this into the three
bounds. The proof showed that the bounds must count `wait_ms`: between two looks at the
device the thread sleeps for half a period, even when the deadline is nearer, and until
it wakes sound gathers and the schedule falls behind.
`SoundIsConverted`, for any width of a byte, any format and any admitted mask.
A sample: the powers of two exist and turn sums into products (`Pow2Exists`, `Pow2Sum`);
the bytes of a number add up to it (`UnsignedIs`: each is the difference of what is left
above two places); the container holds the top bits of the signal (`ContainerHolds`), the
sign comes back (`SignedIs`), and the scale undoes the shift (`SampleIsKept`). A frame:
the channel of a position is the count of positions up to it (`ChannelCounts`, `BitIs`),
so that the sum over the channels becomes one over the eighteen positions (`SumIs`), in
which left and right change places (`AddsMirror`, `SidesMirror`). The channels behind,
without a bit, are not among the first two (`PartsAre`) and add the same to both sides
(`SameTail`). The proof showed that
`FormatAssumption` had to name the top back centre too: the mix does not know it, and as
one of the first two channels it would count as a side.

**TransportProofs.** `SocketOwnership` and `SocketPorts`, for any objects, descriptors
and ports. `Owned` and `Unshared` say that what an object holds is open and held by no
other; `Empty`, that an object without life has neither descriptor nor port.
`ShrinksOnlyWhenCalm`: for every window, threshold and pattern of arrivals the depth
shrinks only when the variance has been low for the last ten seconds but for one. Needed
are `StartsAfterRaise` (a running timer is not older than the last increase) and
`TimerNearlyCalm` (a running timer is at most one second, the rate limit, ahead of the
calm): together they say how much an increase that was refused can hide.
`DepthMovesAsAllowed`: the statistics and timers move the depth only as `PlayerPipeline`,
which leaves them out, allows, so that its theorems hold with them. `PacketsAreExact`, for
any number of values of a byte, any payload and any receive buffer: each reader undoes its
writer (`Reads16`, `Reads32`, `Reads64`) and each writer its reader (`Same16`, `Same32`,
`Same64`), the fields stand where they are read (`SerializedIs`, `HeaderIsRead`), so what
is written is accepted (`WrittenIsAccepted`), what is accepted was written
(`AcceptedIsWritten`), and what was cut is refused (`CutIsRefused`). The proof showed that
the second can only be said of the bytes `Receive` kept: a datagram that the receive
buffer cuts may be a packet with something behind it.

Each invariant was checked with TLC on small instances before it was proved, the pace on
Windows with two dozen combinations of its constants.

**Only model-checked.** The liveness properties (`TailHeard`, `StopKills`,
`StoppingEnds`, `CallsReturn`, `StopsEnd`, `PulseCallsReturn`, `Adapts`): the prover
does not handle fairness. The library's induction theorems take an operator as a
parameter, which the installed provers cannot instantiate; where an induction over
numbers is needed (powers, sums, counting), it is done on sets, by `SetInduction`, which
follows from `WFMin`: what is not in the set would have a least member.

## 6. What is not modelled

* The clocks of sender and receiver. Whether a packet is stale and a frame late is a
  choice in `PlayerPipeline`; that clocks more than 500 ms apart make every packet stale
  is a hazard without a property.
* The local references that the list of devices gives back after it has left COM
  (`wasapi_device_enumerator.cpp:138`).
* The Opus coding and the values of resampled samples; both are seen as calls that may
  fail and as numbers of samples.
* Two copies of one datagram. `net` is a set and delivers a datagram once in `AudioPath`;
  `PlayerPipeline`'s arbitrary caller does push duplicates, so safety under duplication is
  covered there and by its proofs.
* A second sender beside a running one; `OnlyNewStreamResets` shows the mechanism.
* Name resolution and the texts of addresses in `UdpSocket`: a call that may fail.
* The parsing of command lines (hostd's beyond the number of seconds, clientd's), the
  device list as JSON, names of devices.
* In the desktop's manager: log lines, status texts, the end of the application, and the
  time a stop sleeps. Quitting leaves the process; what becomes of a child then is up to
  the runtime and the platform.
* The launcher's view model, settings and command builder; the desktop's front end, which
  keeps the last status it was sent.
* Audio focus, notifications and layout on Android; the ArkTS pages and the background
  task on Harmony.
* `third_party`, installers, CI, icons.

## 7. Plan

Done: the player and its path, the desktop's manager, the session with its three
owners, the ring, hostd with both captures, the launcher's controller, sockets, packet format,
adaptive depth, and eight modules of proofs that state every invariant, every action
property and both refinements of the runs. What remains, in the order of importance:

1. `AdaptiveTarget` composed with `PlayerPipeline` as one specification, with one clock for
   arrivals, staleness and catch-up; `DepthMovesAsAllowed` covers the depth only.
2. The manager's settled state with failing spawns, and the controller's with slow kills,
   once the code keeps them.
3. The end of the desktop application with a child alive.
