------------------------------- MODULE Nearcade --------------------------------
(***************************************************************************)
(* The orchestrator (nearcade.c) over the signaling server and the peer    *)
(* sessions: signaling's callbacks call into webrtc.cpp on the thread that *)
(* runs libwebsockets, webrtc.cpp's callbacks send through signaling.c and *)
(* fire events on libdatachannel's threads, and nearcade_shutdown takes    *)
(* both down from the engine's thread.  One life of the SDK: from the      *)
(* return of nearcade_init to the end of nearcade_shutdown.                *)
(***************************************************************************)
EXTENDS Signaling, WebRtc

vars == <<lws, conn, g_wsi, g_host_ws, g_viewer_ws, g_num_viewers, th,
          g_initialized, g_lock, g_sessions, making, call, told>>

Init == SigInit /\ RtcInit

--------------------------------------------------------------------------------
\* Mutant: "if (viewer_idx > 0 && g_viewer_cb)" in place of >= 0.
viewer_joined_positive(t) ==
    /\ th[t].pc = "viewer_cb"
    /\ th[t].joined
    /\ \/ JoinBegins(t, th[t].idx, th[t].wsi) /\ th[t].idx > 0 /\ UNCHANGED sigVars
       \/ UNCHANGED rtcVars /\ th[t].idx = 0 /\ ViewerCbReturns(t)
       \/ create_session(t) /\ ViewerCbReturns(t)

\* on_signaling_viewer(idx, 1): webrtc_viewer_joined.
viewer_joined(t) ==
    /\ th[t].pc = "viewer_cb"
    /\ th[t].joined
    /\ \/ JoinBegins(t, th[t].idx, th[t].wsi) /\ UNCHANGED sigVars
       \/ JoinRefused(t) /\ ViewerCbReturns(t)
       \/ create_session(t) /\ ViewerCbReturns(t)

\* on_signaling_viewer(idx, 0): webrtc_viewer_left.
viewer_leaves(t) ==
    /\ th[t].pc = "viewer_cb"
    /\ ~th[t].joined
    /\ \/ LeaveBegins(t, th[t].idx) /\ UNCHANGED sigVars
       \/ LeaveUnknown(t, th[t].idx) /\ ViewerCbReturns(t)
       \/ viewer_left(t, th[t].idx) /\ ViewerCbReturns(t)

on_signaling_viewer(t) == viewer_joined(t) \/ viewer_leaves(t)

\* on_signaling_msg: webrtc_handle_signaling.
on_signaling_msg ==
    /\ th["sig"].pc = "msg_cb"
    /\ handle_signaling(th["sig"].idx, th["sig"].wsi, th["sig"].arg)
    /\ MsgCbReturns

\* nearcade_shutdown: webrtc_shutdown first, then signaling_shutdown.
nearcade_shutdown ==
    \/ BeginShutdown /\ ShutdownBegins("eng")
    \/ ShutdownDestroys("eng") /\ UNCHANGED sigVars
    \/ ShutdownEnds("eng") /\ UNCHANGED sigVars
    \/ call["eng"] = "none" /\ Shutdown /\ UNCHANGED rtcVars

\* webrtc_send_via_signaling: signaling_send_to_viewer looks the viewer up by its
\* index, which the callback captured when the session was made.
send_via_signaling(p) == Send(p, signaling_send_to_viewer(Sess(p).viewer_idx))

\* A running callback of the session at index i ends.
CallbackEnds(i) ==
    /\ \E p \in Place : /\ Sess(p).viewer_idx = i
                        /\ send_via_signaling(p) \/ onStateChange(p)
    /\ UNCHANGED sigVars

\* libdatachannel makes the first offer of the session at index i.
Offer(i) ==
    /\ \E p \in Place : /\ Sess(p).viewer_idx = i
                        /\ Sess(p).sdpTo = NULL
                        /\ LocalDescription(p)
    /\ UNCHANGED sigVars

Library ==
    \/ \E i \in Slot : CallbackEnds(i)
    \/ /\ \E p \in Place : LocalDescription(p) \/ StateChange(p)
       /\ UNCHANGED sigVars

Sig == \/ (Handlers \/ Service) /\ UNCHANGED rtcVars
       \/ on_signaling_viewer("sig")
       \/ on_signaling_msg

Eng == nearcade_shutdown \/ on_signaling_viewer("eng")

Done == SigDone /\ UNCHANGED rtcVars

Next == Sig \/ Eng \/ Library \/ Done

Safety == Init /\ [][Next]_vars

\* The OS schedules the two threads; callbacks that the library runs end, it has
\* finitely many to run before a waiting destructor gets its turn (the strong
\* fairness of the two threads that destroy sessions), and the negotiation it
\* has queued is run.  Clients and the network owe nothing, and the engine need
\* not shut down.
Fairness ==
    /\ WF_vars((Handlers /\ UNCHANGED rtcVars) \/ on_signaling_msg)
    /\ SF_vars(ServiceReturns /\ UNCHANGED rtcVars)
    /\ SF_vars(on_signaling_viewer("sig"))
    /\ SF_vars(Eng /\ th["eng"].pc # "app")
    /\ \A i \in Slot : WF_vars(CallbackEnds(i)) /\ SF_vars(Offer(i))

Spec == Safety /\ Fairness

--------------------------------------------------------------------------------
(* Properties *)

Up == th["eng"].pc = "app"
BetweenHandlers == th["sig"].pc # "viewer_cb"

TypeOK ==
    /\ SigTypeOK
    /\ g_initialized \in BOOLEAN
    /\ g_lock \in Thread \cup {NULL}
    /\ g_sessions \in Seq(Session)
    /\ making \in Session \cup {NULL}
    /\ call \in [Thread -> {"none", "creating", "erasing", "clearing"}]
    /\ told \subseteq Slot

\* At most one session has a viewer's index, the one under construction counted:
\* the first match that erase and handle_signaling take is the only one.
OneSessionPerViewer ==
    \A p, q \in Place : Sess(p).viewer_idx = Sess(q).viewer_idx => p = q

\* Whenever the signaling thread is not inside on_signaling_viewer, the sessions
\* are exactly the registered viewers, each made for the connection that holds
\* its index now.
SessionsMatchTable ==
    Up /\ BetweenHandlers =>
        {<<s.viewer_idx, s.owner>> : s \in Live} = {<<i, g_viewer_ws[i]>> : i \in Occupied}

\* A session takes its answer from, and sends its offer and candidates to, the
\* connection it was made for, although both sides know only "viewer_N" and the
\* index is reused.
TalksToOwner ==
    Up => \A s \in Live : s.remote \in {NULL, s.owner} /\ s.sdpTo \in {NULL, s.owner}

\* What the engine was told by JOINED and LEFT events is the truth: a viewer it
\* counts has a session, and when no callback of a session is running it is
\* counted exactly if it is connected.
EventsTellTheTruth ==
    /\ told \subseteq {s.viewer_idx : s \in Live}
    /\ \A s \in Live : s.busy = "no" => (s.viewer_idx \in told <=> s.state = "connected")

\* webrtc_viewer_joined tests g_initialized without g_lock, so a join that has
\* passed the test adds its session after webrtc_shutdown has cleared the list.  It
\* is alone: every later join is refused, however long the connections live on.
LateJoinIsAlone ==
    ~g_initialized => Cardinality(Place) =< 1

\* What makes these inductive.  A thread inside webrtc.cpp was called by the handler
\* whose frame it has, holds g_lock if it destroys sessions, and has found the
\* session it erases; webrtc is up until the engine has cleared it.
Listed(i) == \E k \in DOMAIN g_sessions : g_sessions[k].viewer_idx = i

ThreadsSoFar ==
    /\ \A t \in Thread :
          /\ call[t] \in {"erasing", "clearing"} <=> g_lock = t
          /\ call[t] = "erasing" => /\ th[t].pc = "viewer_cb" /\ ~th[t].joined
                                   /\ Listed(th[t].idx)
    /\ call["sig"] # "clearing" /\ call["eng"] # "creating"
    /\ call["eng"] = "clearing" => th["eng"].pc = "stopping"
    /\ g_initialized <=> Up \/ call["eng"] = "clearing"
    /\ making # NULL <=> call["sig"] = "creating"
    /\ making # NULL => /\ th["sig"].pc = "viewer_cb" /\ th["sig"].joined
                       /\ making.viewer_idx = th["sig"].idx
                       /\ making.owner = th["sig"].wsi

\* A session belongs to the connection in its table entry, or to the one that the
\* signaling thread is telling webrtc.cpp has left; an entry has a session unless
\* the thread is about to make it.
Joining(i)    == /\ th["sig"].pc = "viewer_cb" /\ th["sig"].joined
                 /\ call["sig"] = "none" /\ th["sig"].idx = i
Leaving(i, w) == /\ th["sig"].pc = "viewer_cb" /\ ~th["sig"].joined
                 /\ th["sig"].idx = i /\ th["sig"].wsi = w

SessionsSoFar ==
    /\ g_initialized => \A s \in Live :
          /\ g_viewer_ws[s.viewer_idx] = s.owner \/ Leaving(s.viewer_idx, s.owner)
          /\ ~Joining(s.viewer_idx)
    /\ Up => \A i \in Occupied : Joining(i) \/ \E s \in Live : s.viewer_idx = i
    /\ ~g_initialized => \A p, q \in Place : p = q

\* A callback that has not yet told the engine was run for the state it found.
EventsSoFar ==
    /\ told \subseteq {s.viewer_idx : s \in Live}
    /\ \A s \in Live :
          /\ s.busy \in {"no", "send"} => (s.viewer_idx \in told <=> s.state = "connected")
          /\ s.busy = "joined" => s.state = "connected"
          /\ s.busy = "left" => s.state \in {"down", "closed"}

NearcadeInductive ==
    /\ TypeOK
    /\ OneSessionPerViewer
    /\ ThreadsSoFar
    /\ SessionsSoFar
    /\ TalksToOwner
    /\ EventsSoFar

\* The abstract view of module ViewerSeats: a connection is served while a
\* session made for it exists, seated while it waits for one in the table.
SeatOf(w) ==
    IF \E s \in Live : s.owner = w THEN "served"
    ELSE IF \E i \in Slot : g_viewer_ws[i] = w THEN "seated"
    ELSE "absent"

Seats == INSTANCE ViewerSeats
             WITH Capacity <- MAX_VIEWERS, Guest <- Wsi,
                  open <- Up, seat <- [w \in Wsi |-> SeatOf(w)]

\* Table, sessions and the threads between them implement the seat protocol: the
\* two are updated in different critical sections of different locks, and still
\* no connection is served unseated, jumps the queue or overfills the house.
ImplementsSeats == Seats!Spec

\* g_lock is held over the destruction of a session, which waits for a running
\* callback: no such callback may wait for the lock.
LockIsReleased == g_lock # NULL ~> g_lock = NULL

\* Every registered viewer is sent an offer, unless it or the engine goes away.
ViewerGetsOffer ==
    \A i \in Slot, w \in Wsi :
        (Up /\ g_viewer_ws[i] = w)
            ~> (~Up \/ ~conn[w] \/ \E s \in Live : s.owner = w /\ s.sdpTo = w)

\* The session of a connection that has closed goes away.
LeaverLosesSession ==
    \A w \in Wsi : (Up /\ ~conn[w] /\ \E s \in Live : s.owner = w)
                     ~> (~Up \/ conn[w] \/ ~\E s \in Live : s.owner = w)

\* nearcade_shutdown returns and the signaling thread exits.
ShutdownCompletes == ~Up ~> th["eng"].pc = "down" /\ th["sig"].pc = "exited"

================================================================================
