------------------------------ MODULE PathProofs -------------------------------
(***************************************************************************)
(* Proofs about the way of a packet through the running SDK.  InputPath    *)
(* implements both the SDK without data channels and the input backend, so *)
(* what NearcadeProofs and InputProofs prove holds of it; PathInductive    *)
(* says how the two depend on each other.                                  *)
(***************************************************************************)
EXTENDS InputPath, NearcadeProofs, InputProofs

USE DEF Thread, PadSlot, Desc

--------------------------------------------------------------------------------
(* The two specifications that InputPath implements *)

\* A step is one of the SDK below, or leaves it alone.
LEMMA StepOfSdk == [PathNext]_allPath => [Next]_vars
<1> SUFFICES ASSUME [PathNext]_allPath PROVE Next \/ UNCHANGED vars
  OBVIOUS
<1>1. CASE Below(Sig \/ Library \/ Done) \/ EngineBelow
  BY <1>1 DEF Below, EngineBelow, Next
<1>2. CASE nearcade_submit_kbm \/ shutdown_input
  BY <1>2 DEF nearcade_submit_kbm, shutdown_input
<1>3. CASE \E w \in Wsi : MessageArrives(w) \/ received_input(w) \/ fire_input_packet(w)
  BY <1>3 DEF MessageArrives, received_input, fire_input_packet
<1>4. CASE UNCHANGED allPath
  BY <1>4 DEF allPath
<1> QED
  BY <1>1, <1>2, <1>3, <1>4 DEF PathNext

\* A step is one of the input backend, called by the engine, or leaves it alone.
LEMMA StepOfBackend == [PathNext]_allPath => [InputNext]_inputVars
<1> SUFFICES ASSUME [PathNext]_allPath PROVE InputNext \/ UNCHANGED inputVars
  OBVIOUS
<1>1. CASE Below(Sig \/ Library \/ Done) \/ EngineBelow
  BY <1>1 DEF Below, EngineBelow, pathVars
<1>2. CASE nearcade_submit_kbm
  BY <1>2, PathAssumption DEF nearcade_submit_kbm, InputNext, Goes
<1>3. CASE shutdown_input
  BY <1>3, PathAssumption DEF shutdown_input, InputNext
<1>4. CASE \E w \in Wsi : MessageArrives(w) \/ received_input(w) \/ fire_input_packet(w)
  BY <1>4 DEF MessageArrives, received_input, fire_input_packet
<1>5. CASE UNCHANGED allPath
  BY <1>5 DEF allPath, pathVars
<1> QED
  BY <1>1, <1>2, <1>3, <1>4, <1>5 DEF PathNext

--------------------------------------------------------------------------------
(* The engine's thread *)

\* Only the engine's own steps move it.
LEMMA EngineRests ==
    ASSUME Known, Sig \/ Library \/ Done
    PROVE  th'["eng"] = th["eng"] /\ call'["eng"] = call["eng"]
<1>t. th \in [Thread -> Frame] /\ call \in [Thread -> {"none", "creating", "erasing", "clearing"}]
  BY InductiveParts DEF RtcTypeOK
<1>1. CASE Library
  BY <1>1 DEF Library, CallbackEnds, send_via_signaling, Send, onStateChange,
              LocalDescription, StateChange, sigVars
<1>2. CASE Done
  BY <1>2 DEF Done, SigDone, sigVars, rtcVars
<1>3. CASE (Handlers \/ Service) /\ UNCHANGED rtcVars
  BY <1>t, <1>3 DEF Handlers, Service, signaling_thread, established, closed,
       receive, received, event, ServiceReturns, DispatchEstablished, DispatchClosed,
       DispatchReceive, Goto, rtcVars
<1>4. CASE on_signaling_viewer("sig")
  <2>1. th'["eng"] = th["eng"]
    BY <1>t, <1>4 DEF on_signaling_viewer, viewer_joined, viewer_leaves, ViewerCbReturns,
                      Goto, sigVars
  <2>2. call'["eng"] = call["eng"]
    BY <1>t, <1>4 DEF on_signaling_viewer, viewer_joined, viewer_leaves, JoinBegins,
         JoinRefused, create_session, LeaveBegins, LeaveUnknown, viewer_left, Enters,
         Returns, rtcVars
  <2> QED
    BY <2>1, <2>2
<1>5. CASE on_signaling_msg
  BY <1>t, <1>5 DEF on_signaling_msg, handle_signaling, MsgCbReturns, Goto, rtcVars
<1> QED
  BY <1>1, <1>2, <1>3, <1>4, <1>5 DEF Sig

\* The engine enters webrtc_shutdown as it begins to shut down, and signaling_shutdown
\* only from there, once webrtc_shutdown has returned.
LEMMA EngineGoes ==
    ASSUME Known, Eng
    PROVE  /\ Up' \/ call'["eng"] = "clearing" => Up \/ call["eng"] = "clearing"
           /\ th'["eng"].pc \notin {"app", "stopping"} =>
                  \/ th["eng"].pc \notin {"app", "stopping"}
                  \/ th["eng"].pc = "stopping" /\ call["eng"] = "none"
<1>t. th \in [Thread -> Frame] /\ call \in [Thread -> {"none", "creating", "erasing", "clearing"}]
  BY InductiveParts DEF RtcTypeOK
<1>1. CASE BeginShutdown /\ ShutdownBegins("eng")
  BY <1>t, <1>1 DEF BeginShutdown, Goto, At, Up
<1>2. CASE ShutdownDestroys("eng") /\ UNCHANGED sigVars
  BY <1>2 DEF ShutdownDestroys, sigVars, Up
<1>3. CASE ShutdownEnds("eng") /\ UNCHANGED sigVars
  BY <1>t, <1>3 DEF ShutdownEnds, Returns, sigVars, Up
<1>4. CASE call["eng"] = "none" /\ Shutdown /\ UNCHANGED rtcVars
  <2>1. th["eng"].pc # "app"
    BY <1>4 DEF Shutdown, signaling_shutdown, DestroyBegins, DestroyCloses, closed,
                DestroyReturns
  <2>2. ~Up' /\ call'["eng"] = "none"
    BY <1>4, <2>1, DownStays DEF Up, Next, Eng, nearcade_shutdown, rtcVars
  <2> QED
    BY <1>4, <2>1, <2>2
<1>5. CASE on_signaling_viewer("eng")
  <2>1. th["eng"].pc = "viewer_cb"
    BY <1>5 DEF on_signaling_viewer, viewer_joined, viewer_leaves
  <2>2. ~Up'
    BY <1>5, <2>1, DownStays DEF Up, Next, Eng
  <2>3. call'["eng"] # "clearing" \/ call'["eng"] = call["eng"]
    BY <1>t, <1>5 DEF on_signaling_viewer, viewer_joined, viewer_leaves, JoinBegins,
         JoinRefused, create_session, LeaveBegins, LeaveUnknown, viewer_left, Enters,
         Returns, rtcVars
  <2> QED
    BY <2>1, <2>2, <2>3
<1> QED
  BY <1>1, <1>2, <1>3, <1>4, <1>5 DEF Eng, nearcade_shutdown

--------------------------------------------------------------------------------
(* The invariant *)

PathKnown == Known /\ InputInductive /\ DevicesSoFar /\ PathInductive

LEMMA PathInitially == PathInit => PathKnown
<1> SUFFICES ASSUME PathInit PROVE PathKnown
  OBVIOUS
<1>1. Known
  BY SessionsInitially DEF PathInit
<1>2. PICK f \in Fd : /\ kbm_fd = f
                      /\ dev = [g \in Desc |-> CASE g = Stdin -> "foreign"
                                                 [] g = f     -> "kbm"
                                                 [] OTHER     -> "closed"]
  BY DEF PathInit
<1>3. \A g \in Fd : dev[g] = IF g = f THEN "kbm" ELSE "closed"
  BY <1>2, InputAssumption
<1>4. dev \in [Desc -> {"closed", "setup", "kbm", "pad", "foreign"}]
  <2>1. dev[Stdin] = "foreign"
    BY <1>2, InputAssumption
  <2> QED
    BY <1>2, <1>3, <2>1
<1>5. \A t \in Caller : inCall[t] = Out /\ inCall[t].pc = "out"
  BY FieldsOfCalls DEF PathInit
<1>6. NoGamepad /\ input_lock = NoCaller
  BY DEF PathInit, NoGamepad
<1>7. th["eng"].pc = "app"
  BY DEF PathInit, Init, SigInit, At
<1>8. InputInductive
  <2>1. InputTypeOK
    <3>1. inCall \in [Caller -> Frames]
      BY <1>5, FramesOfCalls DEF PathInit
    <3>2. Neutral \in [Code -> Int]
      BY DEF Neutral
    <3>3. gp_fds \in [PadSlot -> Fd \cup {NoFd, Stdin}]
      BY DEF PathInit
    <3> QED
      BY <1>2, <1>4, <1>6, <3>1, <3>2, <3>3 DEF InputTypeOK, PathInit
  <2>2. DescriptorsTracked
    <3>1. {g \in Fd : dev[g] = "kbm"} = {kbm_fd} \ {NoFd}
      BY <1>2, <1>3, InputAssumption
    <3>2. {g \in Fd : dev[g] = "pad"} = {gp_fds[s] : s \in PadSlot} \ {NoFd, Stdin}
      BY <1>3, <1>6 DEF NoGamepad
    <3>3. {g \in Fd : dev[g] = "setup"} =
             {inCall[t].fd : t \in {u \in Caller : inCall[u].pc = "create"}}
      BY <1>3, <1>5
    <3>4. \A s, u \in PadSlot : gp_fds[s] = gp_fds[u] /\ gp_fds[s] \in Fd => s = u
      BY <1>6, InputAssumption DEF NoGamepad
    <3> QED
      BY <3>1, <3>2, <3>3, <3>4 DEF DescriptorsTracked
  <2>3. CallsSoFar
    BY <1>5 DEF CallsSoFar
  <2>4. TableSoFar
    BY <1>2, <1>6, InputAssumption DEF TableSoFar, NoGamepad
  <2> QED
    BY <2>1, <2>2, <2>3, <2>4 DEF InputInductive
<1>9. DevicesSoFar
  <2> SUFFICES ASSUME NEW g \in Fd PROVE DeviceSoFar(g)
    BY DEF DevicesSoFar
  <2>1. \A t \in Caller : ~WritesTo(t, g)
    BY <1>5 DEF WritesTo
  <2>2. /\ written[g] = Neutral /\ seen[g] = Neutral /\ meant[g] = Neutral
        /\ torn[g] = {}
    BY DEF PathInit
  <2>3. DoneIsWritten(g)
    BY <2>2, NeutralIsNear DEF DoneIsWritten
  <2> QED
    BY <2>1, <2>2, <2>3 DEF DeviceSoFar, TodoIsMeant, WrittenIsSeen, PadHasNoKeys,
                            OthersAreBlank, Neutral
<1>10. EngineSoFar
  BY <1>5, <1>6, PathAssumption DEF EngineSoFar
<1>11. DevicesInPath
  BY <1>2, <1>3, <1>6, <1>7, InputAssumption DEF DevicesInPath
<1>12. MessagesSoFar
  BY DEF MessagesSoFar, PathInit
<1> QED
  BY <1>1, <1>8, <1>9, <1>10, <1>11, <1>12 DEF PathKnown, PathInductive

\* A step of the SDK below: the engine does not leave webrtc_shutdown for
\* signaling_shutdown past input_shutdown, and no session goes under its onMessage.
LEMMA BelowKeeps ==
    ASSUME PathKnown, Below(Sig \/ Library \/ Done) \/ EngineBelow
    PROVE  PathInductive'
<1>1. /\ UNCHANGED pathVars
      /\ \A w \in Wsi : rx[w] # "idle" => \E s \in Live' : s.owner = w
  BY DEF Below, EngineBelow
<1>2. MessagesSoFar'
  BY <1>1 DEF PathKnown, PathInductive, MessagesSoFar, pathVars
<1>3. CASE Sig \/ Library \/ Done
  <2>1. th'["eng"] = th["eng"] /\ call'["eng"] = call["eng"]
    BY <1>3, EngineRests DEF PathKnown
  <2>2. EngineSoFar' /\ DevicesInPath'
    BY <1>1, <2>1 DEF PathKnown, PathInductive, EngineSoFar, DevicesInPath, NoGamepad,
                      pathVars, inputVars, Up
  <2> QED
    BY <1>2, <2>2 DEF PathInductive
<1>4. CASE Eng /\ inCall["eng"] = Out /\ ~InInputShutdown
  <2>1. EngineSoFar'
    BY <1>1, <1>4 DEF PathKnown, PathInductive, EngineSoFar, pathVars, inputVars
  <2>2. Up' \/ call'["eng"] = "clearing" => kbm_fd' # NoFd
    BY <1>1, <1>4, EngineGoes DEF PathKnown, PathInductive, DevicesInPath, pathVars,
                                  inputVars
  <2>3. th'["eng"].pc \notin {"app", "stopping"} => kbm_fd' = NoFd
    BY <1>1, <1>4, EngineGoes DEF PathKnown, PathInductive, DevicesInPath,
                                  InInputShutdown, pathVars, inputVars
  <2>4. DevicesInPath'
    BY <1>1, <2>2, <2>3 DEF PathKnown, PathInductive, DevicesInPath, NoGamepad, pathVars,
                            inputVars
  <2> QED
    BY <1>2, <2>1, <2>4 DEF PathInductive
<1> QED
  BY <1>3, <1>4 DEF Below, EngineBelow

\* What the rest of the path leaves alone in the SDK.
LEMMA AboveLeaves ==
    ASSUME PathKnown, UNCHANGED vars
    PROVE  UNCHANGED <<th, call>> /\ Live' = Live
<1>1. UNCHANGED rtcVars /\ UNCHANGED th
  BY DEF vars, rtcVars
<1> QED
  BY <1>1, RtcUnchanged DEF PathKnown, rtcVars

\* nearcade_submit_kbm, which a running engine calls.
LEMMA SubmitKbmKeeps ==
    ASSUME PathKnown, nearcade_submit_kbm
    PROVE  PathInductive'
<1>1. UNCHANGED <<th, call, rx, missed, fired>> /\ Live' = Live
  BY AboveLeaves DEF nearcade_submit_kbm
<1>2. MessagesSoFar'
  BY <1>1 DEF PathKnown, PathInductive, MessagesSoFar
<1>3. UNCHANGED <<kbm_fd, gp_fds, dev>>
  BY DEF nearcade_submit_kbm, input_submit_mousemove, syn
<1>4. DevicesInPath'
  BY <1>1, <1>3 DEF PathKnown, PathInductive, DevicesInPath, NoGamepad, Up
<1>5. inCall \in [Caller -> Frames]
  BY DEF PathKnown, InputInductive, InputTypeOK
<1>6. CASE Up /\ input_submit_mousemove("eng")
  <2>1. inCall' = [inCall EXCEPT !["eng"] = Writing(kbm_fd, {})]
    BY <1>6 DEF input_submit_mousemove, Locked
  <2>2. \A t \in Caller : inCall'[t].pc \in {"out", "write"}
    BY <1>5, <2>1, FieldsOfCalls DEF PathKnown, PathInductive, EngineSoFar
  <2>3. inCall'["eng"].pc = "write"
    BY <1>5, <2>1, FieldsOfCalls, PathAssumption
  <2>4. inCall'["eng"] # Out /\ Up'
    BY <1>1, <1>6, <2>3, FieldsOfCalls DEF Up
  <2> QED
    BY <1>2, <1>4, <2>2, <2>4 DEF PathInductive, EngineSoFar
<1>7. CASE syn("eng")
  <2>1. input_lock' = NoCaller /\ inCall' = [inCall EXCEPT !["eng"] = Out]
    BY <1>7 DEF syn, Unlocked
  <2>2. \A t \in Caller : inCall'[t].pc \in {"out", "write"}
    BY <1>5, <2>1, FieldsOfCalls DEF PathKnown, PathInductive, EngineSoFar
  <2>3. inCall'["eng"] = Out
    BY <1>5, <2>1, PathAssumption
  <2> QED
    BY <1>2, <1>4, <2>1, <2>2, <2>3 DEF PathInductive, EngineSoFar
<1> QED
  BY <1>6, <1>7 DEF nearcade_submit_kbm

\* input_shutdown: nothing needs the device any more.
LEMMA InputShutdownInPath ==
    ASSUME PathKnown, shutdown_input
    PROVE  PathInductive'
<1>1. UNCHANGED <<th, call, rx, missed, fired>> /\ Live' = Live
  BY AboveLeaves DEF shutdown_input
<1>2. MessagesSoFar'
  BY <1>1 DEF PathKnown, PathInductive, MessagesSoFar
<1>3. EngineSoFar'
  BY <1>1 DEF PathKnown, PathInductive, EngineSoFar, shutdown_input, input_shutdown, Up
<1>4. NoGamepad' /\ kbm_fd' = NoFd
  BY DEF shutdown_input, input_shutdown, NoGamepad
<1>5. \A f \in Fd : dev'[f] # "foreign"
  BY DEF PathKnown, PathInductive, DevicesInPath, shutdown_input, input_shutdown, Close
<1>6. ~Up' /\ call'["eng"] = "none"
  BY <1>1 DEF shutdown_input, InInputShutdown, Up
<1> QED
  BY <1>2, <1>3, <1>4, <1>5, <1>6 DEF PathInductive, DevicesInPath

\* onMessage, which begins and ends inside the life of its session.
LEMMA MessageStepKeeps ==
    ASSUME PathKnown, NEW w \in Wsi,
           MessageArrives(w) \/ received_input(w) \/ fire_input_packet(w)
    PROVE  PathInductive'
<1>1. UNCHANGED <<th, call, inputVars>> /\ Live' = Live
  BY AboveLeaves DEF MessageArrives, received_input, fire_input_packet
<1>2. EngineSoFar' /\ DevicesInPath'
  BY <1>1 DEF PathKnown, PathInductive, EngineSoFar, DevicesInPath, NoGamepad, inputVars, Up
<1>3. /\ rx \in [Wsi -> {"idle", "submit", "event"}]
      /\ missed \subseteq Wsi
      /\ fired \in [idx : Slot \cup {NoSlot}, viewer_id : {NoSlot}]
      /\ \A v \in Wsi : rx[v] # "idle" => \E s \in Live : s.owner = v
  BY DEF PathKnown, PathInductive, MessagesSoFar
<1>4. MessageArrives(w) => MessagesSoFar'
  BY <1>1, <1>3 DEF MessageArrives, MessagesSoFar
<1>5. received_input(w) => MessagesSoFar'
  BY <1>1, <1>3 DEF received_input, MessagesSoFar
<1>6. fire_input_packet(w) => MessagesSoFar'
  <2> HAVE fire_input_packet(w)
  <2>1. \A s \in Live : s.viewer_idx \in Slot
    BY InductiveParts, Places DEF PathKnown, Session
  <2>2. fired' \in [idx : Slot \cup {NoSlot}, viewer_id : {NoSlot}]
    BY <2>1 DEF fire_input_packet
  <2> QED
    BY <1>1, <1>3, <2>2 DEF fire_input_packet, MessagesSoFar
<1> QED
  BY <1>2, <1>4, <1>5, <1>6 DEF PathInductive

LEMMA PathStep == PathKnown /\ [PathNext]_allPath => PathKnown'
<1> SUFFICES ASSUME PathKnown, [PathNext]_allPath
             PROVE  PathKnown'
  OBVIOUS
<1>1. Known'
  BY StepOfSdk, SessionsStep DEF PathKnown
<1>2. InputInductive' /\ DevicesSoFar'
  BY StepOfBackend, InputStep, DevicesStep DEF PathKnown
<1>3. CASE Below(Sig \/ Library \/ Done) \/ EngineBelow
  BY <1>1, <1>2, <1>3, BelowKeeps DEF PathKnown
<1>4. CASE nearcade_submit_kbm \/ shutdown_input
  BY <1>1, <1>2, <1>4, SubmitKbmKeeps, InputShutdownInPath DEF PathKnown
<1>5. CASE \E w \in Wsi : MessageArrives(w) \/ received_input(w) \/ fire_input_packet(w)
  BY <1>1, <1>2, <1>5, MessageStepKeeps DEF PathKnown
<1>6. CASE UNCHANGED allPath
  <2>1. UNCHANGED <<th, call, inputVars, rx, missed, fired>> /\ Live' = Live
    BY <1>6, AboveLeaves DEF allPath, pathVars
  <2>2. EngineSoFar' /\ DevicesInPath' /\ MessagesSoFar'
    BY <2>1 DEF PathKnown, PathInductive, EngineSoFar, DevicesInPath, MessagesSoFar,
                NoGamepad, inputVars, Up
  <2> QED
    BY <1>1, <1>2, <2>2 DEF PathKnown, PathInductive
<1> QED
  BY <1>3, <1>4, <1>5, <1>6 DEF PathNext

LEMMA PathInvariance == PathSafety => []PathKnown
BY PathInitially, PathStep, PTL DEF PathSafety

--------------------------------------------------------------------------------
(* Theorems *)

\* The SDK with its data channels and its input backend implements the SDK of module
\* Nearcade: packets that arrive while sessions come and go add no behaviour to
\* signaling.c and webrtc.cpp, so every safety theorem about Safety holds here.
THEOREM PathImplementsSdk == PathSafety => Safety
<1>1. PathInit => Init
  BY DEF PathInit
<1> QED
  BY <1>1, StepOfSdk, PTL DEF PathSafety, Safety

\* Inside the running SDK, too, the sessions are the server's table, each talks to its
\* own connection, and the seat protocol is kept.
THEOREM PathKeepsSessions ==
    PathSafety => [](SessionsMatchTable /\ TalksToOwner /\ EventsTellTheTruth)
                    /\ ImplementsSeats
BY PathImplementsSdk, SessionsAreTheTable, SessionsTalkToOwner, EngineIsToldTheTruth,
   SdkImplementsSeats, PTL

\* input_linux.c under the callers the repository has: every open descriptor is
\* accounted for, and a device at rest shows what was asked for.
THEOREM PathKeepsBackend ==
    PathSafety => [](InputTypeOK /\ DescriptorsTracked /\ DeviceShowsRequests)
<1>1. PathKnown => InputTypeOK /\ DescriptorsTracked
  BY DEF PathKnown, InputInductive
<1>2. PathKnown => DeviceShowsRequests
  BY DEF PathKnown, DevicesSoFar, DeviceSoFar, DoneIsWritten, WrittenIsSeen, Awaited,
         WritesTo, DeviceShowsRequests, ShowsWhatIsMeant
<1> QED
  BY <1>1, <1>2, PathInvariance, PTL

\* nearcade_shutdown: when it has returned, every device that input_init opened is
\* closed, whichever packets and calls it raced with.
THEOREM ShutdownClosesDevices == PathSafety => []DownIsDeviceless
<1>1. ASSUME PathKnown
      PROVE  DownIsDeviceless
  <2> SUFFICES ASSUME th["eng"].pc = "down", NEW f \in Fd
               PROVE  dev[f] = "closed"
    BY DEF DownIsDeviceless
  <2>1. kbm_fd = NoFd /\ NoGamepad /\ dev[f] # "foreign"
    BY <1>1 DEF PathKnown, PathInductive, DevicesInPath
  <2>2. dev[f] # "kbm"
    BY <1>1, <2>1 DEF PathKnown, InputInductive, DescriptorsTracked
  <2>3. dev[f] # "pad"
    BY <1>1, <2>1 DEF PathKnown, InputInductive, DescriptorsTracked, NoGamepad
  <2>4. dev[f] # "setup"
    BY <1>1 DEF PathKnown, InputInductive, DescriptorsTracked, PathInductive, EngineSoFar
  <2>5. dev[f] \in {"closed", "setup", "kbm", "pad", "foreign"}
    BY <1>1 DEF PathKnown, InputInductive, InputTypeOK
  <2> QED
    BY <2>1, <2>2, <2>3, <2>4, <2>5
<1> QED
  BY <1>1, PathInvariance, PTL

\* webrtc_shutdown holds g_lock while it waits for onMessage, which takes input_lock:
\* the engine never does so with input_lock in hand.
THEOREM NoLockCycle == PathSafety => []LocksAreApart
<1>1. ASSUME PathKnown
      PROVE  LocksAreApart
  <2> SUFFICES ASSUME input_lock # NoCaller
               PROVE  Up /\ g_lock # "eng"
    BY DEF LocksAreApart
  <2>1. Up
    BY <1>1 DEF PathKnown, PathInductive, EngineSoFar
  <2>2. call["eng"] \notin {"erasing", "clearing"}
    BY <1>1, <2>1 DEF PathKnown, Known, NearcadeInductive, ThreadsSoFar, Up
  <2>3. g_lock # "eng"
    BY <1>1, <2>2 DEF PathKnown, Known, NearcadeInductive, ThreadsSoFar
  <2> QED
    BY <2>1, <2>3
<1> QED
  BY <1>1, PathInvariance, PTL

\* nearcade_shutdown takes webrtc.cpp down before the input backend.
THEOREM BackendLastsLonger == PathSafety => []BackendOutlivesRtc
<1>1. PathKnown => BackendOutlivesRtc
  BY DEF PathKnown, Known, NearcadeInductive, ThreadsSoFar, PathInductive, DevicesInPath,
         InputInductive, InputTypeOK, BackendOutlivesRtc
<1> QED
  BY <1>1, PathInvariance, PTL

\* webrtc_received_input never gets a packet of a connection that the server has
\* dropped, although onMessage takes neither g_ws_lock nor g_lock.
THEOREM PacketsComeFromViewers == PathSafety => []SenderIsRegistered
<1>1. ASSUME PathKnown, SessionsMatchTable
      PROVE  SenderIsRegistered
  <2> SUFFICES ASSUME Up, BetweenHandlers, NEW w \in Wsi, rx[w] # "idle"
               PROVE  \E i \in Slot : g_viewer_ws[i] = w
    BY DEF SenderIsRegistered
  <2>1. PICK s \in Live : s.owner = w
    BY <1>1 DEF PathKnown, PathInductive, MessagesSoFar
  <2>2. <<s.viewer_idx, s.owner>> \in {<<i, g_viewer_ws[i]>> : i \in Occupied}
    BY <1>1 DEF SessionsMatchTable
  <2>3. PICK i \in Occupied : <<s.viewer_idx, s.owner>> = <<i, g_viewer_ws[i]>>
    BY <2>2
  <2> QED
    BY <2>1, <2>3 DEF Occupied
<1> QED
  BY <1>1, PathInvariance, PathImplementsSdk, SessionsAreTheTable, PTL

\* With the callers the repository has, no gamepad slot ever gets a device: every
\* packet of a viewer is refused, for any number of viewers and slots.
THEOREM PacketsAreRefused == PathSafety => []NoGamepad
<1>1. PathKnown => NoGamepad
  BY DEF PathKnown, PathInductive, DevicesInPath
<1> QED
  BY <1>1, PathInvariance, PTL

================================================================================
