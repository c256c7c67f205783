------------------------------- MODULE InputPath -------------------------------
(***************************************************************************)
(* The way of a gamepad packet: a connected viewer sends it on the data    *)
(* channel of its session, libdatachannel runs onMessage on a thread of    *)
(* its own, and webrtc_received_input hands it to the input backend and    *)
(* fires INPUT_PACKET, while the engine uses the backend itself and shuts  *)
(* everything down.  The whole running SDK (Nearcade) over the input       *)
(* backend, with the callers the repository has: nobody calls              *)
(* input_alloc_slot, so gp_fds stays as input_init left it.                *)
(***************************************************************************)
EXTENDS Nearcade, InputLinux

ASSUME PathAssumption == "eng" \in Caller

VARIABLES
    rx,      \* rx[w]: where onMessage is in the session made for connection w
    missed,  \* history: connections a packet of whom was refused
    fired    \* history: the last INPUT_PACKET, its sender's index and viewer_id

pathVars == <<inputVars, rx, missed, fired>>

\* After nearcade_init: the keyboard exists, no gamepad does.
PathInit ==
    /\ Init
    /\ \E f \in Fd : /\ kbm_fd = f
                     /\ dev = [g \in Desc |-> CASE g = Stdin -> "foreign"
                                                [] g = f     -> "kbm"
                                                [] OTHER     -> "closed"]
    /\ gp_fds = [s \in PadSlot |-> NoFd]
    /\ input_lock = NoCaller
    /\ inCall = [t \in Caller |-> Out]
    /\ written = [f \in Desc |-> Neutral]
    /\ seen = [f \in Desc |-> Neutral]
    /\ meant = [f \in Desc |-> Neutral]
    /\ torn = [f \in Desc |-> {}]
    /\ rx = [w \in Wsi |-> "idle"]
    /\ missed = {}
    /\ fired = [idx |-> NoSlot, viewer_id |-> NoSlot]

--------------------------------------------------------------------------------
(* The data channel *)

\* A thread is inside ~PeerConnection of session s.
BeingDestroyed(s) ==
    \E t \in Thread : \/ call[t] = "erasing" /\ th[t].idx = s.viewer_idx
                      \/ call[t] = "clearing" /\ s = Head(g_sessions)

\* External: a binary message of a packet's size arrives and onMessage is called.
\* Others are ignored by it.  The destructor closes the channel before it waits.
MessageArrives(w) ==
    /\ rx[w] = "idle"
    /\ \E s \in Live : s.owner = w /\ s.state = "connected" /\ ~BeingDestroyed(s)
    /\ rx' = [rx EXCEPT ![w] = "submit"]
    /\ UNCHANGED <<vars, inputVars, missed, fired>>

\* webrtc_received_input: input_submit_gamepad finds no device on the slot and
\* returns under the lock; its answer is dropped.
received_input(w) ==
    /\ rx[w] = "submit"
    /\ input_lock = NoCaller
    /\ \E s \in PadSlot : gp_fds[s] = NoFd
    /\ missed' = missed \cup {w}
    /\ rx' = [rx EXCEPT ![w] = "event"]
    /\ UNCHANGED <<vars, inputVars, fired>>

\* Mutant: the sender is looked up, to fill in viewer_id, under g_lock.
fire_input_packet_locked(w) ==
    /\ rx[w] = "event"
    /\ g_lock = NULL
    /\ \E s \in Live : /\ s.owner = w
                       /\ fired' = [idx |-> s.viewer_idx, viewer_id |-> s.viewer_idx]
    /\ rx' = [rx EXCEPT ![w] = "idle"]
    /\ UNCHANGED <<vars, inputVars, missed>>

\* fire_event(INPUT_PACKET) with the packet; viewer_id is left zeroed.
fire_input_packet(w) ==
    /\ rx[w] = "event"
    /\ \E s \in Live : /\ s.owner = w
                       /\ fired' = [idx |-> s.viewer_idx, viewer_id |-> NoSlot]
    /\ rx' = [rx EXCEPT ![w] = "idle"]
    /\ UNCHANGED <<vars, inputVars, missed>>

--------------------------------------------------------------------------------
(* The engine *)

\* nearcade_submit_kbm (a mouse move, which holds input_lock over its writes).
nearcade_submit_kbm ==
    /\ \/ Up /\ input_submit_mousemove("eng")
       \/ syn("eng")
    /\ UNCHANGED <<vars, rx, missed, fired>>

InInputShutdown == th["eng"].pc = "stopping" /\ call["eng"] = "none" /\ kbm_fd # NoFd

\* nearcade_shutdown: input_shutdown, after webrtc_shutdown.
shutdown_input ==
    /\ InInputShutdown
    /\ input_shutdown("eng")
    /\ UNCHANGED <<vars, rx, missed, fired>>

\* A step of the SDK below.  ~PeerConnection waits for a running onMessage too.
Below(A) ==
    /\ A
    /\ \A w \in Wsi : rx[w] # "idle" => \E s \in Live' : s.owner = w
    /\ UNCHANGED pathVars

EngineBelow == Below(Eng /\ inCall["eng"] = Out /\ ~InInputShutdown)

PathNext ==
    \/ Below(Sig \/ Library \/ Done)
    \/ EngineBelow
    \/ nearcade_submit_kbm
    \/ shutdown_input
    \/ \E w \in Wsi : MessageArrives(w) \/ received_input(w) \/ fire_input_packet(w)

allPath == <<vars, pathVars>>

PathSafety == PathInit /\ [][PathNext]_allPath

\* As in Nearcade; besides, a running onMessage and a call of the engine go on, and
\* a thread gets a mutex that is given back again and again.
PathSpec ==
    /\ PathSafety
    /\ WF_allPath(Below((Handlers /\ UNCHANGED rtcVars) \/ on_signaling_msg))
    /\ SF_allPath(Below(ServiceReturns /\ UNCHANGED rtcVars))
    /\ SF_allPath(Below(on_signaling_viewer("sig")))
    /\ SF_allPath(EngineBelow /\ ~Up)
    /\ WF_allPath(shutdown_input)
    /\ WF_allPath(nearcade_submit_kbm /\ inCall["eng"] # Out)
    /\ \A i \in Slot : WF_allPath(Below(CallbackEnds(i)))
    /\ \A w \in Wsi : SF_allPath(received_input(w)) /\ WF_allPath(fire_input_packet(w))

--------------------------------------------------------------------------------
(* Properties *)

\* nearcade_shutdown returns, whatever its threads wait for when it begins (g_lock,
\* held by a destructor that waits for an onMessage, which waits for input_lock),
\* and leaves no device behind.
PathShutdownCompletes ==
    ~Up ~> th["eng"].pc = "down" /\ \A f \in Fd : dev[f] = "closed"

\* Its safety part: input_shutdown has closed what input_init opened, wherever the
\* packets of viewers were when it ran.
DownIsDeviceless == th["eng"].pc = "down" => \A f \in Fd : dev[f] = "closed"

\* The engine never holds g_lock and input_lock together.  It waits with g_lock for a
\* running onMessage, which waits for input_lock: together they would be a deadlock.
LocksAreApart == input_lock # NoCaller => Up /\ g_lock # "eng"

\* The backend outlives webrtc.cpp: nearcade_shutdown takes them down in this order,
\* so while a session can be added or destroyed the keyboard's device is open.
BackendOutlivesRtc == g_initialized => kbm_fd \in Fd

\* A packet is handled only for a viewer in the server's table, save while the
\* signaling thread is telling webrtc.cpp of a change or the engine shuts down.
SenderIsRegistered ==
    Up /\ BetweenHandlers =>
        \A w \in Wsi : rx[w] # "idle" => \E i \in Slot : g_viewer_ws[i] = w

\* No slot ever has a device: input_submit_gamepad can only refuse, as in
\* received_input.
NoGamepad == \A s \in PadSlot : gp_fds[s] = NoFd

\* What makes these inductive.  The engine is inside at most one of the two calls; no
\* other thread is inside the backend; the keyboard's device is there until webrtc
\* is cleared, and gone before signaling_shutdown; a running onMessage keeps its
\* session alive.
EngineSoFar ==
    /\ input_lock # NoCaller => inCall["eng"] # Out
    /\ inCall["eng"] # Out => Up
    /\ \A t \in Caller : inCall[t].pc \in {"out", "write"}

DevicesInPath ==
    /\ NoGamepad
    /\ \A f \in Fd : dev[f] # "foreign"
    /\ Up \/ call["eng"] = "clearing" => kbm_fd # NoFd
    /\ th["eng"].pc \notin {"app", "stopping"} => kbm_fd = NoFd

MessagesSoFar ==
    /\ rx \in [Wsi -> {"idle", "submit", "event"}]
    /\ missed \subseteq Wsi
    /\ fired \in [idx : Slot \cup {NoSlot}, viewer_id : {NoSlot}]
    /\ \A w \in Wsi : rx[w] # "idle" => \E s \in Live : s.owner = w

PathInductive == EngineSoFar /\ DevicesInPath /\ MessagesSoFar

\* README.md: "Viewer gamepad input arrives via data channel and is injected into
\* the host system."
ViewerInputIsInjected == missed = {}

\* The Godot binding declares its signal input_packet(packet, viewer_id): an event
\* says who sent the packet.
InputEventNamesViewer == fired.viewer_id = fired.idx

\* bindings/godot/README.md: shutdown() "Shut down all subsystems".
InputStopsWithShutdown == th["eng"].pc = "down" => \A w \in Wsi : rx[w] = "idle"

================================================================================
