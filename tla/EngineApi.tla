------------------------------- MODULE EngineApi -------------------------------
(***************************************************************************)
(* The calls a running engine makes against live viewers: start and stop   *)
(* streaming, push a frame, disconnect a viewer or change its settings,    *)
(* relay an answer or a candidate.  The calls run on the engine's thread   *)
(* while it is not inside nearcade_shutdown.                               *)
(***************************************************************************)
EXTENDS Nearcade

VARIABLES
    streaming,  \* g_state.streaming
    active,     \* indices i with g_state.viewers[i].active, which nothing sets
    started,    \* history: nearcade_start_streaming has been called
    frame,      \* history: of the last frame, the connections whose session was
                \* connected (due) and those it was sent to (got)
    asked,      \* history: connections the engine asked to disconnect
    relayed,    \* history: the connection the last relay wrote to, or NULL
    denied      \* history: viewers the engine had been told of and whose settings
                \* it could not change

apiVars == <<streaming, active, started, frame, asked, relayed, denied>>
allVars == <<vars, apiVars>>

ApiInit ==
    /\ Init
    /\ streaming = FALSE
    /\ active = {}
    /\ started = FALSE
    /\ frame = [due |-> {}, got |-> {}]
    /\ asked = {}
    /\ relayed = NULL
    /\ denied = {}

--------------------------------------------------------------------------------
nearcade_start_streaming ==
    /\ Up
    /\ streaming' = TRUE
    /\ started' = TRUE
    /\ UNCHANGED <<vars, active, frame, asked, relayed, denied>>

nearcade_stop_streaming ==
    /\ Up
    /\ streaming' = FALSE
    /\ UNCHANGED <<vars, active, started, frame, asked, relayed, denied>>

\* webrtc_send_h264 under g_lock: to the sessions whose connected flag is set.
nearcade_send_h264 ==
    LET owners(S) == {s.owner : s \in S}
        sessions  == {g_sessions[k] : k \in DOMAIN g_sessions}
    IN  /\ Up
        /\ g_lock = NULL
        /\ frame' = [due |-> owners({s \in sessions : s.state = "connected"}),
                     got |-> owners({s \in sessions : s.connected})]
        /\ UNCHANGED <<vars, streaming, active, started, asked, relayed, denied>>

\* Looks for an active entry of g_state.viewers; answers OK either way.
nearcade_disconnect_viewer(i) ==
    /\ Up
    /\ active' = active \ {i}
    /\ asked' = asked \cup ({g_viewer_ws[i]} \ {NULL})
    /\ UNCHANGED <<vars, streaming, started, frame, relayed, denied>>

\* nearcade_set_viewer_input_mode and nearcade_set_controller_type: an active
\* entry takes the value, INVALID_ARG without one.
nearcade_set_viewer_settings(i) ==
    /\ Up
    /\ denied' = denied \cup (({i} \cap told) \ active)
    /\ UNCHANGED <<vars, streaming, active, started, frame, asked, relayed>>

\* signaling_send_answer and _ice: to the host if it is named, and in place of a
\* viewer that is not connected.
signaling_relay(i) ==
    IF i = NoSlot \/ viewer_ws_by_id(i) = NULL THEN g_host_ws ELSE viewer_ws_by_id(i)

\* nearcade_send_answer and nearcade_send_ice_candidate; nearcade_send_offer
\* returns at once.  NoSlot stands for the id "host".
nearcade_relay(i) ==
    /\ Up
    /\ relayed' = signaling_relay(i)
    /\ UNCHANGED <<vars, streaming, active, started, frame, asked, denied>>

ApiNext ==
    \/ Next /\ UNCHANGED apiVars
    \/ nearcade_start_streaming
    \/ nearcade_stop_streaming
    \/ nearcade_send_h264
    \/ \E i \in Slot : nearcade_disconnect_viewer(i) \/ nearcade_set_viewer_settings(i)
    \/ \E i \in Slot \cup {NoSlot} : nearcade_relay(i)

ApiSafety == ApiInit /\ [][ApiNext]_allVars
ApiSpec   == ApiSafety /\ Fairness

--------------------------------------------------------------------------------
(* What the documentation says of these calls *)

\* README.md: nearcade_send_h264 "Push encoded H.264 frame to all viewers".
FrameReachesViewers == frame.due \subseteq frame.got

\* What webrtc_send_h264 does instead: no frame is sent to anybody.
NoFrameIsSent == frame.got = {}

\* No entry of g_state.viewers is ever active, so that nearcade_disconnect_viewer and
\* the setters never find the viewer they are called for.
NobodyIsActive == active = {}

\* README.md: nearcade_start_streaming "Accept viewer connections".
AcceptsOnlyOnceStarted == Occupied # {} => started

\* bindings/godot/README.md: disconnect_viewer(viewer_id) "Disconnect a viewer".
AskedViewerIsDisconnected ==
    \A w \in Wsi : (Up /\ w \in asked) ~> (~Up \/ w \notin Registered)

\* bindings/godot/README.md: viewer_joined "Viewer connected via WebSocket",
\* when "Viewer opens the page".
JoinedWhenPageOpens ==
    \A i \in Slot, w \in Wsi :
        (Up /\ g_viewer_ws[i] = w) ~> (~Up \/ ~conn[w] \/ i \in told)

\* nearcade.h: "Deprecated signaling relay (no-op - WebRTC is internal now)".
RelayIsNoOp == relayed = NULL

\* test_basic.c: settings are refused to a "non-existent viewer", and to no viewer the
\* engine has been told of.
OnlyStrangersRefused == denied = {}

\* bindings/godot/README.md: shutdown() "Shut down all subsystems".
ShutdownReleasesSessions ==
    th["eng"].pc = "down" /\ th["sig"].pc = "exited" => Live = {}

================================================================================
