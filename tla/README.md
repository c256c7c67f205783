# A TLA+ verification of the Nearcade SDK

The Nearcade SDK lets a game engine stream H.264 video to browsers and take their gamepad
input. This directory holds TLA+ models of its core, the TLC configurations that check them,
and TLAPS proofs of what matters most. Paths below are relative to the repository.

## 1. The system

Threads: the **engine's** thread calls the public API; the **signaling** thread runs
libwebsockets and every handler of `callback_signaling`; **libdatachannel's** threads run
the callbacks of each `PeerConnection`. Two locks matter, `g_ws_lock` (connection table) and
`g_lock` (sessions); they are never nested, but both protect one idea, "viewer N".

| Component | State | Operations | What makes it correct |
|---|---|---|---|
| Signaling server, `src/signaling.c` | `g_wsi`, `g_host_ws`, `g_viewer_ws[]`, `g_num_viewers` | ESTABLISHED, CLOSED, RECEIVE, send, thread loop, shutdown | counter = table; one entry per connection; no entry outlives its connection; the right host is dropped; shutdown ends |
| WebRTC sessions, `src/webrtc.cpp` | `g_sessions`, `g_initialized`, `g_lock` | viewer_joined, viewer_left, handle_signaling, callbacks, send_h264, shutdown | one session per viewer; offer and answer belong to the same connection; no deadlock on `g_lock` |
| Orchestrator, `src/nearcade.c` | `g_state` flags, event callback | wiring of the two, events, shutdown | table, sessions and events stay in step |
| Life cycle, `src/nearcade.c` + `signaling_init` | everything initialised; the unjoined threads | init and its failure paths, shutdown, re-init | all or nothing; old threads end |
| Legacy capture, `src/capture.c` | `g_ff`, `capturing`, a child process | start, stop, shutdown | no child of a running SDK lost, no foreign process signalled, stop returns |
| Godot binding, `bindings/godot/src` | bounded `event_queue` | `_event_callback`, `poll_event`, `init` | the game sees the truth |
| Godot objects, `bindings/godot/src` | the singleton, the registered object | construct, `init`, `shutdown`, destruct, module load and unload | the SDK calls a live object |
| Linux input, `src/input_linux.c` | uinput descriptors, device state | alloc, free, submit, flush, shutdown | no descriptor leaks; no write to a closed one; device = last packet, up to the sticks' fuzz |
| Message text, `signaling.c`, `webrtc.cpp` | buffers | `json_escape`, relays, extraction | what is sent is JSON; what arrives is what was sent |
| Slot manager, `src/nearcade_internal.h` | `slot_map` | claim, release | never runs |
| Input stubs, portability headers, LAN address, PIN, bindings without code | none that matters | | not modelled |

Interactions: ESTABLISHED and CLOSED update the table under `g_ws_lock`, unlock, and then
call `on_signaling_viewer`, which creates or erases a session under `g_lock`. A session's
callbacks know only the viewer's *index*, captured by value; they send through the table.
Erasing a session destroys its `PeerConnection` with `g_lock` held, which waits for a
running callback and reports `Closed` on the destroying thread. `nearcade_shutdown` clears
the sessions, then the table, then calls `lws_context_destroy`, which runs CLOSED handlers on
the engine's thread while the signaling thread, never joined, may be in any handler.
A viewer's packet comes in on the data channel of its session: `onMessage`, on a library
thread, calls the input backend under `input_lock` and fires an event. The engine may call
the backend too. All `NearcadeSDK` objects of the Godot binding stand over one C library, which
calls back into the one that registered last.
What is hard to test here is listed line by line under `hazards` in `PROJECT.json`.

## 2. Modules

| Module | Models | Kind |
|---|---|---|
| `Base` | connections, viewer indices, threads | constants |
| `Signaling` | `signaling.c` | component |
| `WebRtc` | `webrtc.cpp` and what it assumes of libdatachannel | component (actions take the calling thread) |
| `Nearcade` | `nearcade.c` over both | composition |
| `ViewerSeats` | what table and sessions promise together | abstract specification |
| `EngineApi` | streaming flag, `send_h264`, `disconnect_viewer`, viewer settings, deprecated relays on top of `Nearcade` | composition |
| `Capture` | `capture.c` | component |
| `Lifecycle` | `nearcade_init`, `nearcade_shutdown`, successive lives, over `Capture` | composition |
| `GodotEvents` | the binding's event queue | component |
| `GodotObjects` | the binding's objects and the module's singleton over the one C library | component |
| `InputLinux` | `input_linux.c` against its own interface | component |
| `InputPath` | data channel, input backend and the running SDK (`Nearcade` over `InputLinux`) | composition |
| `JsonText` | the text of the messages, as functions beside a reference | functions |
| `MCSignaling`, `MCNearcade`, `MCInput` | TLC instances | |
| `SignalingProofs`, `NearcadeProofs` | theorems about the server; about the composed SDK, its sessions, the refinement and the engine's calls | |
| `InputProofs`, `PathProofs` | theorems about the input backend; about `InputPath`, from these and `NearcadeProofs` | |
| `LifecycleProofs`, `JsonProofs`, `GodotObjectsProofs`, `GodotEventsProofs` | theorems about the other components | |

**Signaling.** A critical section of `g_ws_lock` is one action; what a handler does after the
unlock is a later one, so another thread may come in between. A thread inside a handler has a
*frame* (`th[t]`): where it is, the connection, `viewer_idx`, and so on. The same `closed` action runs on
the signaling thread and on the engine's inside `lws_context_destroy`. Dispatching by
libwebsockets is external: any client may connect, send or go at any time. A `Wsi` is a
`struct lws *`, and a pointer is used again after its connection has closed. Message text is
abstracted to the only distinction the state depends on: an answer, or anything else.

**WebRtc.** `g_lock` is an explicit variable, held over several steps while a session is
destroyed. A `Session` keeps, beside the struct's fields, its peer connection's state, the
callback that is running, and as history the connection it was made for, the one its answer
came from and the one its offer went to. `connected` is kept although nothing sets it.
Assumed of libdatachannel v0.20.0 (pinned in `CMakeLists.txt`): callbacks of one
connection run one at a time; the destructor waits for a running one, then reports Closed if
it was not reported, and no callback follows; an answer is taken once, after an offer;
negotiation starts by itself. Also assumed: an offer fits the 8 KiB buffer, and a
write to an open connection succeeds.

**Nearcade** composes them: a step of `on_signaling_viewer` is one of `webrtc.cpp`'s, the last
of which returns to the signaling handler. `nearcade_shutdown` is webrtc first, signaling second; the capture
and input shutdowns between them touch neither and live in `Lifecycle`. One life: from the
return of `nearcade_init` to the end of `nearcade_shutdown`. Clearing `running`, `capturing` and
`streaming` and taking `g_lock` in `webrtc_shutdown` are one step: only the engine's own calls read
these flags (`nearcade.c:316`, `331`, `347`), never another thread.

**Lifecycle.** `nearcade_init` tries its steps in order; `Acquired` and `GivenBack`
transcribe what is held when each is tried and what its failure path releases. Life n has
context n and thread n; a thread tests the *global* `g_wsi`, then reads it again unlocked, as the code does.
`Capture` has one action between two system calls of `capture_stop`, and the child may exit
between any two. The capture calls test only `capturing`, so the engine makes them on an SDK that
runs or not: after an init that failed, or after a shutdown, they fork a child that `nearcade_shutdown`
does not stop and the next `capture_init` forgets. `waitpid` fails in two ways: ECHILD,
because the engine's process, which may ignore SIGCHLD or wait for any child, has reaped it
(`EngineReaps`, which leaves it "taken"), and EINTR in the blocking call (`StopInterrupted`; the WNOHANG calls do
not block); `capture_stop` clears `g_ff` in both. Two history variables name the children these paths
leave behind: `early`, ids last forked while the SDK was not running, and `unwaited`, ids
whose last wait was interrupted. The engine calls from one thread and initialises only an SDK that
is not running (a double init zeroes live mutexes; no document allows it).

**GodotEvents.** `fire_event` from any thread, `poll_event` from the game's. `told` is what
the SDK fired, `shown` what the signals said; `init` unregisters the callback and keeps the
queue, as the code does.

**GodotObjects.** One game thread, any number of SDK threads inside `fire_event`.
`fire_event` tests `event_cb` and then calls it with `event_cb_userdata`: the compiler may keep
the tested pointer or load it again, so both outcomes are steps (a call through NULL is the state
"crashed"), and the two plain stores of `nearcade_set_event_callback` are seen in either order.
`init` is called only while the SDK is not running, as in `Lifecycle`.

**InputLinux.** One action per system call: an allocation opens and then creates, each may fail; a
packet is nineteen writes and a SYN_REPORT, each may fail unnoticed. The open descriptors
and what each device shows are external state; a descriptor's number is used again after close. A
`Request` is what the caller means; `Pack` is the narrowing to the packet's 16-bit buttons;
`meant` and `torn` remember what the device should show and where the last write failed. The four
stick axes are declared with a fuzz of 16, so a write that succeeds makes the device show what the
kernel's filter makes of it (`Defuzz`, external): a move of less than 8 is dropped, one of less than 32
followed in part. `Near` is what is left of "shows the value": exact for everything else, within 16
for a stick.
`input_alloc_slot` has no caller in the repository, so it is modelled against its own contract;
allocating and freeing are assumed only between `input_init` and `input_shutdown`.
`EARLY_CALLS` lets the engine call before its first init.

**InputPath** has only the callers the repository has: gamepad descriptors stay -1.
Assumed of the library, besides the above: the destructor closes the data channel before it waits, so
no new `onMessage` starts in a session that is being destroyed, and it waits for a running one.

**JsonText.** A text is a sequence over six kinds of characters, all that `json_escape`, the
extraction and JSON itself tell apart (CR, LF and TAB are treated alike; the other control characters,
which JSON forbids in a string and `json_escape` copies as they are, are one kind). `Decode` puts a
mark in the place of what JSON does not allow, and `Marked` is a text whose control characters came raw. The only state is the text, which
grows; every property compares a function with a reference (`Decode`, `IsJson`) over every text
and every buffer size. `json_escape` leaves out a pair that does not fit and *goes on*, so a
character from the middle may be missing; the relays send a message that was cut all the same.

## 3. Runs

| Run | Instance | Shows |
|---|---|---|
| `signaling` | 3 connections, 2 entries | table invariants, host kept, closed connections forgotten, thread exits, shutdown closes all |
| `nearcade_safety` | 3 connections, 2 entries, symmetry | one session per viewer, sessions = table, offers and answers stay with their connection, events are true, at most one session outlives the shutdown, refinement of `ViewerSeats` |
| `nearcade_liveness` | 2 connections, 1 entry | lock released, offer sent, session removed, shutdown completes |
| `lifecycle` | 3 lives, 2 process ids, capture calls at any time, an engine that may reap | all or nothing, child of a running SDK tracked, no signal to an id capture.c has waited for, flags agree, calls return |
| `godot_events` | 2 viewers, queue of 3 | queue catches up, joined is signalled |
| `input_backend` | 2 callers, 2 slots, 3 descriptors, a button, a mapped key and an unmapped one | descriptors tracked, no write to a foreign or closed one, devices show the last packet, lock returns |
| `input_path` | 1 connection, which may come back, 1 entry, the engine's own calls | no deadlock over `g_lock`, `input_lock` and `onMessage`; no device left |
| `json_text` | texts up to 5 characters, every buffer size up to 14, receive buffers of 8 and 5 | `json_escape` fits and round trips, relays carry their text and are JSON but for raw control characters, candidates survive, cut messages included |
| `godot_objects` | 3 objects, 2 SDK threads | singleton live, running SDK calls a live object, terminated is down |

Bounds. Three connections for two entries make the table fill, leave one connection
unregistered, reuse an index for another connection, and replace a host while viewers are
there; two entries let a session be erased from the middle or the end of the vector. For
liveness one entry and two connections keep the reuse and the full table. Two process ids
allow reuse after reaping; three lives let two old threads survive. A queue of three holds JOINED, LEFT
and JOINED of one viewer behind each other. Three descriptors for a keyboard and
two gamepads make open fail when all are taken and reuse a number at once. Five characters
hold two escapes and a character before, between or behind them, and every cut of such a text. `MAX_LIVES` and
`MAX_LEN` are the only caps.
Symmetry is over connections (compared only for equality) and only in the run without
liveness properties. Packets of several writes and the sticks' fuzz are not in `input_backend`, whose
two slots and three descriptors leave no room for them: `InputInductive.cfg` (section 4) checks the same
`DeviceShowsRequests` for one slot with a stick and a button. There a stick is asked for 0, 20 or -32767:
from rest to 20 the device follows by half, the same packet again brings it nearer until the rest of
the way is dropped, and the end of its range it shows at once. Its symmetry is over callers and
descriptors.

Fairness. Weak for a thread's own steps (the OS schedules it); strong for `ServiceReturns`
(lws_service returns after the events of one poll) and for the two threads that destroy
sessions (the library runs finitely many callbacks before the waiting destructor's turn);
weak for the end of a running callback, strong for the queued first offer. A SIGKILLed child
dies; one that got SIGTERM need not. In `input_path` a thread that
waits for `input_lock` gets it although others take it again and again (strong fairness of
`received_input`: the engine's next call is its own choice, and a pthread mutex is not kept
from a waiter for ever). Nobody has to call the input backend, and a call under way goes on. The game polls every frame, as the binding's README tells
it to. Clients, the network and the engine's calls owe nothing.

### Disagreements found

Three are `violation` runs, whose property states what a document or comment says.

| Run | The code | The text |
|---|---|---|
| `frame_reaches_viewers` | `connected` is never set, so `send_h264` sends to nobody (`webrtc.cpp:312`) | README.md:118 |
| `old_thread_exits` | a quick re-init keeps the old thread alive (`signaling.c:204`) | signaling.c:275 |
| `no_call_into_freed` | callback kept, thread not joined: an event reaches a freed object (`nearcade.c:360`) | bindings/godot/README.md:50 |

Further disagreements the models show. Each has a configuration named after its property, to be
run with the module named (`tlc -config P.cfg M`); TLC refutes every one. The one about early calls
is `EarlyCalls.cfg`; `StopStopsCapture` and `ShutdownStopsCapture` share `StopsCapture.cfg`, to be run with
`-continue`.

| Property | Module | The code | The text |
|---|---|---|---|
| `AcceptsOnlyOnceStarted` | `EngineApi` | `streaming` is never read (`nearcade.c:282`) | README.md:117 |
| `AskedViewerIsDisconnected` | `EngineApi` | looks in a table nobody fills (`nearcade.c:436`) | bindings/godot/README.md:58 |
| `JoinedWhenPageOpens` | `EngineApi` | JOINED is fired on ICE success (`webrtc.cpp:86`) | bindings/godot/README.md:78 |
| `ShutdownReleasesSessions` | `EngineApi` | a join past the unlocked test outlives shutdown (`webrtc.cpp:195`) | bindings/godot/README.md:50 |
| `RelayIsNoOp` | `EngineApi` | answers and candidates are sent (`nearcade.c:493`) | include/nearcade.h:208 |
| `OnlyStrangersRefused` | `EngineApi` | settings refused to everybody (`nearcade.c:471`) | test/test_basic.c:131 |
| `StartStartsCapture` | `Lifecycle` | a dead child counts as capturing (`capture.c:65`) | bindings/godot/README.md:48 |
| `StopStopsCapture` | `Lifecycle` | a child forked after a failed init is forgotten by the next init (`capture.c:53`) | bindings/godot/README.md:49 |
| `ShutdownStopsCapture` | `Lifecycle` | on an SDK that is not running shutdown returns at once (`nearcade.c:347`) | bindings/godot/README.md:50 |
| `LeftIsSignalled` | `GodotEvents` | a full queue drops LEFT (`nearcade_godot.cpp:21`) | bindings/godot/README.md:79 |
| `NewFindsNoOther` | `GodotObjects` | the module has made one already (`register_types.cpp:14`) | bindings/godot/README.md:89 |
| `GuideReachesDevice` | `MCInput` | bit 16 of a 16-bit number (`input_linux.c:297`) | include/nearcade.h:44 |
| `WritesToOwnDevices` (early calls) | `MCInput` | zeroed descriptors before the first init (`input_linux.c:14`) | test/test_basic.c:94 |
| `ViewerInputIsInjected` | `InputPath` | nobody allocates a slot (`nearcade.c:142`) | README.md:41 |
| `InputEventNamesViewer` | `InputPath` | `viewer_id` stays zeroed (`nearcade.c:147`) | nearcade_godot.cpp:50, test_basic.c:21 |
| `InputStopsWithShutdown` | `InputPath` | a session that outlived shutdown still delivers (`webrtc.cpp:195`) | bindings/godot/README.md:50 |
| `OfferIsJson` | `JsonText` | SDP unescaped in its message (`webrtc.cpp:106`) | signaling.c:28 |
| `EscapeIsJson` | `JsonText` | other control characters pass raw (`signaling.c:39`) | signaling.c:28 |
| `AnswerSurvives` | `JsonText` | only `\"` is undone (`webrtc.cpp:272`) | webrtc.cpp:255 |
| `EventCarriesMessage` | `JsonText` | cut at 2047 bytes (`signaling.c:145`) | bindings/godot/README.md:80 |

`ThreadExits` (run `signaling`, one life) and `OldThreadExits` (several lives) are the same
comment of `signaling.c`: it holds until the SDK is initialised again.

## 4. Proofs

For every number of connections, table size, number of lives, set of process ids,
descriptors, callers, controls, keys, requests, objects, threads, viewers and queue limit, from
the assumptions named in the modules that declare the constants: positive sizes, null values
outside their sets (`NullAssumption` of `WebRtc`: NULL is neither a thread nor a session), for
the input backend that the controls are those `input_alloc_slot` declares and that a button is
released or pressed (`ControlAssumption`, `RequestAssumption`), and for `InputPath` that the
engine is one of the backend's callers (`PathAssumption`). `JsonProofs` holds for every length of
text and every size of buffer.

* `SignalingProofs`: `SignalingInvariant` (SigSafety => []SigInductive), and from it
  `SignalingTypes`, `TableIsConsistent`, `OneEntryEach`, `HandlersAreSound`, `EntriesStayLive` and
  the action property `HostKept`.
  The table invariants are not inductive alone: ESTABLISHED registers a connection chosen
  steps earlier, so one must know it is not registered yet (else two entries) and still
  open (else a dead entry); CLOSED must find its connection closed. `FramesAreSound` says this
  of the frames. `EnterCounts` and `LeaveCounts` carry the cardinality argument.
  `HandlersKnowTheirEntry` adds what the handlers' callers rely on: the index in a frame is the
  entry of the frame's connection until the handler gives it up (`FramesMatchTable`).
* `NearcadeProofs`: `ImplementsSignaling` (Safety => SigSafety): every step of the composed
  system is a server step or leaves the server's variables alone, so the table's invariants
  hold inside the running SDK (`ComposedTableIsConsistent`).
* Sessions, in the same module: `SessionsInvariant` (Safety => []NearcadeInductive), and from it every
  invariant of the run `nearcade_safety`: `ComposedTypes`, `OneSessionEach`,
  `SessionsAreTheTable`, `SessionsTalkToOwner`, `EngineIsToldTheTruth` and `OneLateJoin`.
  That sessions and table agree between handlers says nothing inside one, where the table has
  changed and the session has not yet, or the other way round, so the invariant
  says how far each thread is: `ThreadsSoFar` (a thread inside webrtc.cpp has the frame of the
  handler that called it, holds `g_lock` if it destroys, and the session under
  construction is that of its frame), `SessionsSoFar` (a session belongs to
  the connection in its entry or to the one whose leaving is being handled, an entry has a session
  unless one is about to be made, and after the shutdown there is at most one) and
  `EventsSoFar` (a callback that has not told the engine yet was run for the state it found).
  That `viewer_N`, looked up steps later, still means the same connection is
  `FramesMatchTable` of the server, which is why it was proved there. `Places`, `Removed` and `FoundSession` say
  what erasing from and searching the vector do; `SessionMade`, `SessionListed`, `SessionChanged` and
  `SessionGone` what each kind of step does to the sessions that exist.
* Seats, in the same module: `SdkImplementsSeats` (Safety => ImplementsSeats), the refinement of `ViewerSeats`.
  ESTABLISHED with a free entry is `Arrive` (`FreeSeat`: fewer holders than entries), the
  construction of a session is `Serve`, the erasure of a session is `Depart`, the engine's first step of the
  shutdown is `Close`, what follows it is `WindUp`, and every other step leaves all seats
  as they are. That a library callback or a message leaves a session with its viewer and
  connection is `LibraryAlters` and `MessageAlters`.
* The engine's calls, in the same module: `ApiImplementsSdk` (ApiSafety => Safety), so all of the
  above holds while the engine streams, relays and changes settings, and two general forms of
  the disagreements above: `FramesReachNobody` (no session ever has its `connected` flag set, hence
  no frame is sent, for any number of viewers) and `SettingsReachNobody` (no viewer is ever active).
* `LifecycleProofs`: `LifecycleInvariant`, hence `LifecycleTypes`, `NothingLeaks`,
  `ChildNeverLost` and `CaptureFlagsAgree`. The strengthening says what a call
  under way holds, place by place (`HeldSoFar`, `ContextSoFar`, `CaptureSoFar`). It must also say which
  child `g_ff` may stand for: one remembered while the SDK does not run is in `early`, so that the
  `memset` of the next init forgets no other, and one that is remembered is not in `unwaited`, so
  that only a child that was sent SIGKILL is. `SignalsOwnChild`, the second half of `ChildIsTracked`, is
  what remains of "signals only its child" where the engine's process may reap children: an id is
  never used after capture.c itself has waited for it. The theorems are about the calls as the code has them:
  that no child at all survives is false (`StopStopsCapture`, `ShutdownStopsCapture`).
* `InputProofs`: `InputTypes`, `DescriptorsAreTracked` and, unless `EARLY_CALLS`,
  `WritesStayOnDevices`, from `InputInductive`. That a descriptor in use is not closed rests on
  the mutex, so `CallsSoFar` says that whoever is inside a call holds it, that a slot being
  allocated has no entry, and that a descriptor being written to is still in the table;
  `TableSoFar` says the table is empty while the backend is down, without which the
  next `input_init` would forget open devices. `DevicesShowRequests` needs `DevicesSoFar`
  besides, which says of each device in the middle of a packet which writes are still to come and
  that they have the meant values, which codes are written or torn, and that readers are behind
  only until the SYN_REPORT. It rests on three lemmas about the packet: both
  orders of writes cover every control (`OrderOfPacket`, `OrderOfFlush`), and the bits of a packet
  decode to the request, the guide button apart (`BitsDiffer`, `PacketSaysRequest`). What the
  fuzz filter leaves of a write is near its value whatever was shown before (`DefuzzFacts`).
* `PathProofs`: `InputPath` implements both of its halves, `PathImplementsSdk` (PathSafety =>
  Safety) and, step by step, the backend (`StepOfBackend`), so that `PathKeepsSessions` and
  `PathKeepsBackend` carry their invariants over to the whole. What only the whole has is
  `PathInductive`: the engine is inside the backend only while it is not shutting down
  (`EngineSoFar`), the keyboard's device is there until webrtc.cpp is cleared and gone before
  `signaling_shutdown` (`DevicesInPath`), and a running `onMessage` keeps its session alive
  (`MessagesSoFar`). From it, the safety side of `PathShutdownCompletes`: `NoLockCycle` (the engine,
  which waits for `onMessage` with `g_lock` in hand, never has `input_lock` too) and
  `ShutdownClosesDevices`; further `BackendLastsLonger`, `PacketsComeFromViewers` (between handlers, the
  sender of a packet is in the server's table) and `PacketsAreRefused` (no slot ever has a device,
  which is why `received_input` need only refuse).
* `JsonProofs`: `EscapeIsReversible`, `RelayCarriesText` and `CandidateArrives`, each
  property of `JsonText` for texts and buffers of any length. The loops are recursive functions, and
  a recursive definition says nothing until some function satisfies its equation:
  `ForwardRecursion` and `BackwardRecursion` show that one exists, over the turns of a loop and from
  the end of a text, and `BackwardUnique` that there is one only. The library's induction theorems
  take an operator, which the provers cannot instantiate; `NumberInduction` is stated for a *set*
  of numbers instead, from the least number outside it. The argument then follows the loop: one turn
  of `json_escape` adds nothing, one character or one pair, and what is decoded afterwards is
  what was decoded before with the turn's character behind it, if it was kept (`DecodeTurn`,
  `DecodeLoop`); with room for the worst case every character is kept (`RoomForAll`), and something
  of it is unreadable exactly if the text has a control character (`ControlIsMarked`). For a
  candidate the extraction inverts the turns that lie before the cut (`ExtractTurn`), and the turn
  the cut goes through leaves at most a backslash (`ExtractTail`).
* `GodotObjectsProofs`: `SingletonStaysLive`, `RunningSdkCallsLive` and `TerminatedSdkIsDown`, from
  `GodotObjectsInductive`: `GameSoFar` says that the object a call works on is alive and that a
  destructor gives it back only once the SDK is down.
* `GodotEventsProofs`: `QueueIsBounded` and `QueueIsFaithful` (Safety => []QueueCatchesUp).
  `WillShow` says what the queue will have shown by its last event about a viewer, not by
  folding over it, and is then inductive together with the types:
  an appended event decides for its viewer alone (`AppendShows`), and a polled one goes from the
  head of the queue to what is shown (`PollCatchesUp`).

Each inductive invariant was checked by TLC before it was proved; for the three largest the
configurations are kept: `NearcadeInductive.cfg` (with `MCNearcade`), `InputInductive.cfg` (with
`MCInput`) and `PathInductive.cfg` (with `InputPath`).

A caution about the prover. Where an obligation mentions sequences, tlapm 1.4.5 gives Z3 an axiom
that makes the domain of *every* function 1 .. its Len, which is false of the functions on 0 .. n that
`json_escape` is defined by. All the proofs were checked a second time with that axiom weakened to
what is true (a function with domain 1 .. n, n a natural number, has length n), and they hold.

Only model-checked: liveness and fairness, which the prover does not reach (the temporal
properties of the runs `signaling`, `nearcade_liveness`, `lifecycle`, `godot_events`,
`input_backend` and `input_path`). Every invariant and every action property of the runs, and the
refinement, are proved.

## 5. Not modelled, and what is left

Not modelled: the input stubs of Windows and macOS, the portability headers, LAN address,
PIN and log level (no shared state); what libwebsockets does to freed memory when a context
is destroyed under `lws_service`; the encoder's command line; the capabilities declared for
a uinput device other than the fuzz of its axes. The slot manager and the controller tables of `nearcade_internal.h` never
run: `slot_claim` and `ctrl_*` have no caller, and `slot_release` one, behind a viewer table
that nobody fills. An engine that calls the SDK from inside its event callback, and a second
`nearcade_init` on a running SDK, are left out because nothing says what they should do.

Left: `EngineApi` and `InputPath` are each shown to implement the running SDK, not the two
together; and there is no model of several lives with viewers in each, in which the threads
of `Lifecycle` would run the handlers of `Nearcade`.
