-------------------------------- MODULE WebRtc ---------------------------------
(***************************************************************************)
(* The peer sessions (webrtc.cpp): g_sessions under g_lock, and the        *)
(* callbacks that libdatachannel runs on its own threads.                  *)
(*                                                                         *)
(* g_lock is an explicit variable because it is held while a session is    *)
(* destroyed, and destroying a PeerConnection waits for a callback of it   *)
(* that is running.  The actions here take the calling thread and are      *)
(* composed with the callers in module Nearcade.                           *)
(*                                                                         *)
(* External (libdatachannel v0.20.0, as webrtc.cpp uses it): callbacks of  *)
(* one PeerConnection run one at a time; the destructor waits for a        *)
(* running one and reports Closed on the destroying thread unless it has   *)
(* been reported; no callback runs afterwards.                             *)
(***************************************************************************)
EXTENDS Base, Sequences, SequencesExt

VARIABLES
    g_initialized, \* set by webrtc_init, read without the lock
    g_lock,        \* the thread that holds g_lock, or NULL
    g_sessions,    \* the vector of sessions
    making,        \* the session a thread is constructing, or NULL
    call,          \* call[t]: the operation thread t is inside of
    told           \* viewers the engine was told of: JOINED and not LEFT since

rtcVars == <<g_initialized, g_lock, g_sessions, making, call, told>>

\* owner is history: the connection the session was made for.  remote and sdpTo
\* are the connections its answer came from and its local SDP/ICE last went to.
Session ==
    [viewer_idx : Slot,
     connected  : BOOLEAN,
     owner      : Wsi,
     remote     : Wsi \cup {NULL},
     sdpTo      : Wsi \cup {NULL},
     state      : {"new", "connected", "down", "closed"},
     busy       : {"no", "send", "joined", "left"}]   \* the running callback

ASSUME NullAssumption == NULL \notin Thread \cup Session

NewSession(i, w) ==
    [viewer_idx |-> i, connected |-> FALSE, owner |-> w, remote |-> NULL,
     sdpTo |-> NULL, state |-> "new", busy |-> "no"]

RtcInit ==
    /\ g_initialized = TRUE
    /\ g_lock = NULL
    /\ g_sessions = <<>>
    /\ making = NULL
    /\ call = [t \in Thread |-> "none"]
    /\ told = {}

--------------------------------------------------------------------------------
(* Sessions wherever they are: place 0 is the one under construction. *)

Place   == DOMAIN g_sessions \cup (IF making = NULL THEN {} ELSE {0})
Sess(p) == IF p = 0 THEN making ELSE g_sessions[p]
Live    == {Sess(p) : p \in Place}

Put(p, s) ==
    IF p = 0 THEN making' = s /\ UNCHANGED g_sessions
             ELSE g_sessions' = [g_sessions EXCEPT ![p] = s] /\ UNCHANGED making

\* Mutant: the first session, whoever it belongs to.
session_idx_for_anyone(i) == IF g_sessions = <<>> THEN 0 ELSE 1

\* session_idx_for_viewer: the first match, or 0.
session_idx_for_viewer(i) ==
    SelectInSeq(g_sessions, LAMBDA s : s.viewer_idx = i)

Enters(t, op) == call[t] = "none" /\ call' = [call EXCEPT ![t] = op]
Returns(t)    == call' = [call EXCEPT ![t] = "none"]

\* webrtc_viewer_state: fire VIEWER_JOINED or VIEWER_LEFT.
viewer_state(i, connected) ==
    told' = IF connected THEN told \cup {i} ELSE told \ {i}

--------------------------------------------------------------------------------
(* webrtc_viewer_joined(i), for the viewer on connection w *)

\* Mutant: g_initialized is not tested.
JoinBegins_unchecked(t, i, w) ==
    /\ Enters(t, "creating")
    /\ making' = NewSession(i, w)
    /\ UNCHANGED <<g_initialized, g_lock, g_sessions, told>>

\* The unlocked test of g_initialized; the PeerConnection exists from here on.
JoinBegins(t, i, w) ==
    /\ g_initialized
    /\ Enters(t, "creating")
    /\ making' = NewSession(i, w)
    /\ UNCHANGED <<g_initialized, g_lock, g_sessions, told>>

JoinRefused(t) ==
    /\ call[t] = "none"
    /\ ~g_initialized
    /\ UNCHANGED rtcVars

\* The end of create_session: push_back under g_lock.
create_session(t) ==
    /\ call[t] = "creating"
    /\ g_lock = NULL
    /\ g_sessions' = Append(g_sessions, making)
    /\ making' = NULL
    /\ Returns(t)
    /\ UNCHANGED <<g_initialized, g_lock, told>>

--------------------------------------------------------------------------------
(* webrtc_viewer_left(i) *)

LeaveBegins(t, i) ==
    /\ g_lock = NULL
    /\ session_idx_for_viewer(i) # 0
    /\ Enters(t, "erasing")
    /\ g_lock' = t
    /\ UNCHANGED <<g_initialized, g_sessions, making, told>>

LeaveUnknown(t, i) ==
    /\ call[t] = "none"
    /\ g_lock = NULL
    /\ session_idx_for_viewer(i) = 0
    /\ UNCHANGED rtcVars

\* Mutants: the last session goes instead of session k;  Closed is not reported.
Destroy_last(k) ==
    /\ g_sessions[k].busy = "no"
    /\ g_sessions' = Front(g_sessions)
    /\ viewer_state(g_sessions[k].viewer_idx, FALSE)
Destroy_silent(k) ==
    /\ g_sessions[k].busy = "no"
    /\ g_sessions' = RemoveAt(g_sessions, k)
    /\ UNCHANGED told

\* ~PeerConnection of session k, with g_lock held.
Destroy(k) ==
    /\ g_sessions[k].busy = "no"
    /\ g_sessions' = RemoveAt(g_sessions, k)
    /\ IF g_sessions[k].state = "closed" THEN UNCHANGED told
       ELSE viewer_state(g_sessions[k].viewer_idx, FALSE)

\* Mutant: the session is found but not erased.
viewer_left_no_erase(t, i) ==
    /\ call[t] = "erasing"
    /\ g_lock' = NULL
    /\ Returns(t)
    /\ UNCHANGED <<g_initialized, g_sessions, making, told>>

\* g_sessions.erase(it), then the lock_guard goes out of scope.
viewer_left(t, i) ==
    /\ call[t] = "erasing"
    /\ Destroy(session_idx_for_viewer(i))
    /\ g_lock' = NULL
    /\ Returns(t)
    /\ UNCHANGED <<g_initialized, making>>

--------------------------------------------------------------------------------
(* webrtc_shutdown *)

ShutdownBegins(t) ==
    /\ g_lock = NULL
    /\ Enters(t, "clearing")
    /\ g_lock' = t
    /\ UNCHANGED <<g_initialized, g_sessions, making, told>>

\* g_sessions.clear() destroys the sessions in order.
ShutdownDestroys(t) ==
    /\ call[t] = "clearing"
    /\ g_sessions # <<>>
    /\ Destroy(1)
    /\ UNCHANGED <<g_initialized, g_lock, making, call>>

ShutdownEnds(t) ==
    /\ call[t] = "clearing"
    /\ g_sessions = <<>>
    /\ g_initialized' = FALSE
    /\ g_lock' = NULL
    /\ Returns(t)
    /\ UNCHANGED <<g_sessions, making, told>>

--------------------------------------------------------------------------------
(* webrtc_handle_signaling(viewer_i, m), received on connection w.  A message  *)
(* labelled "host" has i = NoSlot: its id does not parse and it is refused.    *)

handle_signaling(i, w, m) ==
    \/ /\ i = NoSlot
       /\ UNCHANGED rtcVars
    \/ /\ i # NoSlot
       /\ g_lock = NULL
       /\ LET k == session_idx_for_viewer(i)
          IN  \/ /\ k # 0
                 /\ m = "answer"       \* setRemoteDescription, to our offer, once
                 /\ g_sessions[k].busy = "send" \/ g_sessions[k].sdpTo # NULL
                 /\ g_sessions[k].remote = NULL
                 /\ g_sessions[k].state # "closed"
                 /\ g_sessions' = [g_sessions EXCEPT ![k].remote = w]
                 /\ UNCHANGED <<g_initialized, g_lock, making, call, told>>
              \/ UNCHANGED rtcVars     \* no session, no usable field, an offer,
                                       \* a candidate, or the library throws

--------------------------------------------------------------------------------
(* libdatachannel's threads: a PeerConnection changes state or has something
   to send, and a callback of create_session runs.                            *)

\* Negotiation, triggered by createDataChannel, or a gathered candidate.
LocalDescription(p) ==
    LET s == Sess(p)
    IN  /\ s.busy = "no"
        /\ s.state # "closed"
        /\ Put(p, [s EXCEPT !.busy = "send"])
        /\ UNCHANGED <<g_initialized, g_lock, call, told>>

\* The lambdas of onLocalDescription and onLocalCandidate: send_to_viewer writes
\* to target, the connection the viewer table holds for the session's index.
Send(p, target) ==
    LET s == Sess(p)
    IN  /\ s.busy = "send"
        /\ Put(p, [s EXCEPT !.busy = "no",
                            !.sdpTo = IF target = NULL THEN @ ELSE target])
        /\ UNCHANGED <<g_initialized, g_lock, call, told>>

\* External: ICE and DTLS succeed (which takes an answer), fail or end.  "down"
\* is both Disconnected, which may recover, and Failed: one test covers them.
StateChange(p) ==
    LET s == Sess(p)
    IN  /\ s.busy = "no"
        /\ \/ /\ s.state \in {"new", "down"}
              /\ s.remote # NULL
              /\ Put(p, [s EXCEPT !.state = "connected", !.busy = "joined"])
           \/ /\ s.state \in {"new", "connected"}
              /\ Put(p, [s EXCEPT !.state = "down", !.busy = "left"])
           \/ /\ s.state # "closed"
              /\ s.remote # NULL
              /\ Put(p, [s EXCEPT !.state = "closed", !.busy = "left"])
        /\ UNCHANGED <<g_initialized, g_lock, call, told>>

\* Mutant: the lambda takes g_lock, say to set the session's connected flag.
onStateChange_locked(p) ==
    LET s == Sess(p)
    IN  /\ g_lock = NULL
        /\ s.busy \in {"joined", "left"}
        /\ viewer_state(s.viewer_idx, s.busy = "joined")
        /\ Put(p, [s EXCEPT !.busy = "no"])
        /\ UNCHANGED <<g_initialized, g_lock, call>>

\* The lambda of onStateChange, which calls g_viewer_cb without g_lock.
onStateChange(p) ==
    LET s == Sess(p)
    IN  /\ s.busy \in {"joined", "left"}
        /\ viewer_state(s.viewer_idx, s.busy = "joined")
        /\ Put(p, [s EXCEPT !.busy = "no"])
        /\ UNCHANGED <<g_initialized, g_lock, call>>

================================================================================
