------------------------------- MODULE Signaling -------------------------------
(***************************************************************************)
(* The embedded WebSocket signaling server (signaling.c): the connection   *)
(* table shared by the signaling thread, the engine thread (shutdown) and  *)
(* the WebRTC library's threads (outgoing SDP and ICE).                    *)
(*                                                                         *)
(* Every critical section of g_ws_lock is one step; what a handler does    *)
(* after pthread_mutex_unlock is a later step.  A thread inside a handler  *)
(* keeps its local variables in its frame th[t].                           *)
(***************************************************************************)
EXTENDS Base

Role   == {"host", "viewer"}      \* an unknown URI is routed as a viewer
Msg    == {"answer", "other"}     \* "other": ice, offer or unknown, which change
                                  \* nothing in the state kept here

VARIABLES
    lws,           \* external: the lws context, "alive", "destroying" or "gone"
    conn,          \* external: conn[w] iff connection w is open
    g_wsi,         \* TRUE iff the global context pointer is not NULL
    g_host_ws,     \* the host's connection, or NULL
    g_viewer_ws,   \* g_viewer_ws[i]: connection of viewer_i, or NULL
    g_num_viewers, \* the counter kept beside the table
    th             \* frames of the two threads

tables  == <<g_host_ws, g_viewer_ws, g_num_viewers>>
sigVars == <<lws, conn, g_wsi, g_host_ws, g_viewer_ws, g_num_viewers, th>>

--------------------------------------------------------------------------------
(* Frames.  pc names where the thread is:
     "check"       before the locked test of g_wsi in signaling_thread
     "service"     inside lws_service, no handler running
     "established", "closed", "receive"  a handler that has not locked yet
     "viewer_cb"   calling g_viewer_cb(idx, joined)
     "received"    RECEIVE after its unlock, before the test of g_host_ws
     "msg_cb"      calling g_msg_cb(idx, msg);  "event" fire_event
     "exited"      signaling_thread has returned
     "app"         the engine is not shutting down;  "stopping": it is, but has
                   not entered signaling_shutdown;  "cleared": its critical
                   section is over;  "destroy": in lws_context_destroy;
                   "down": signaling_shutdown has returned                    *)
SigPc == {"check", "service", "established", "closed", "receive", "viewer_cb",
          "received", "msg_cb", "event", "exited"}
EngPc == {"app", "stopping", "cleared", "destroy", "closed", "viewer_cb", "down"}

Frame == [pc     : SigPc \cup EngPc,
          wsi    : Wsi \cup {NULL},
          idx    : Slot \cup {NoSlot},
          joined : BOOLEAN,
          arg    : Role \cup Msg \cup {NULL}]

At(p) == [pc |-> p, wsi |-> NULL, idx |-> NoSlot, joined |-> FALSE, arg |-> NULL]

\* Where a thread goes on when the handler it runs returns to libwebsockets.
Resume(t) == At(IF t = "sig" THEN "service" ELSE "destroy")

Goto(t, f) == th' = [th EXCEPT ![t] = f]

SigInit ==
    /\ lws = "alive"
    /\ conn = [w \in Wsi |-> FALSE]
    /\ g_wsi = TRUE
    /\ g_host_ws = NULL
    /\ g_viewer_ws = [i \in Slot |-> NULL]
    /\ g_num_viewers = 0
    /\ th = [t \in Thread |-> At(IF t = "sig" THEN "check" ELSE "app")]

--------------------------------------------------------------------------------
(* signaling_thread *)

\* Mutant: while (1) without the test of g_wsi.
signaling_thread_unchecked ==
    /\ th["sig"].pc = "check"
    /\ Goto("sig", At("service"))
    /\ UNCHANGED <<lws, conn, g_wsi, tables>>

\* Locked read of g_wsi; leave the loop or call lws_service.
signaling_thread ==
    /\ th["sig"].pc = "check"
    /\ Goto("sig", At(IF g_wsi THEN "service" ELSE "exited"))
    /\ UNCHANGED <<lws, conn, g_wsi, tables>>

\* lws_service returns (its 50 ms timeout, or no context left to serve).
ServiceReturns ==
    /\ th["sig"].pc = "service"
    /\ Goto("sig", At("check"))
    /\ UNCHANGED <<lws, conn, g_wsi, tables>>

\* External: a client connects and lws_service runs the ESTABLISHED callback.
DispatchEstablished(w, role) ==
    /\ th["sig"].pc = "service"
    /\ lws = "alive"
    /\ ~conn[w]
    /\ conn' = [conn EXCEPT ![w] = TRUE]
    /\ Goto("sig", [At("established") EXCEPT !.wsi = w, !.arg = role])
    /\ UNCHANGED <<lws, g_wsi, tables>>

\* External: a client goes away and lws_service runs the CLOSED callback.
DispatchClosed(w) ==
    /\ th["sig"].pc = "service"
    /\ conn[w]
    /\ conn' = [conn EXCEPT ![w] = FALSE]
    /\ Goto("sig", [At("closed") EXCEPT !.wsi = w])
    /\ UNCHANGED <<lws, g_wsi, tables>>

\* External: a frame arrives and lws_service runs the RECEIVE callback.
DispatchReceive(w, m) ==
    /\ th["sig"].pc = "service"
    /\ conn[w]
    /\ Goto("sig", [At("receive") EXCEPT !.wsi = w, !.arg = m])
    /\ UNCHANGED <<lws, conn, g_wsi, tables>>

--------------------------------------------------------------------------------
(* callback_signaling *)

FreeSlots   == {i \in Slot : g_viewer_ws[i] = NULL}
SlotsOf(w)  == {i \in Slot : g_viewer_ws[i] = w}
First(S)    == CHOOSE i \in S : \A j \in S : i =< j

\* Mutant: whoever is not in the viewer table must be the host.
IsHost_not_a_viewer(w) == g_host_ws # NULL /\ SlotsOf(w) = {}
IsHost(w) == w = g_host_ws

\* Mutants: no g_num_viewers++;  no break out of the search for a free entry.
Enter_uncounted(i, w) ==
    /\ g_viewer_ws' = [g_viewer_ws EXCEPT ![i] = w]
    /\ UNCHANGED g_num_viewers
Enter_no_break(i, w) ==
    /\ g_viewer_ws' = [j \in Slot |-> IF j \in FreeSlots THEN w ELSE g_viewer_ws[j]]
    /\ g_num_viewers' = g_num_viewers + Cardinality(FreeSlots)
Enter(i, w) ==
    /\ g_viewer_ws' = [g_viewer_ws EXCEPT ![i] = w]
    /\ g_num_viewers' = g_num_viewers + 1

\* Mutants: no g_num_viewers--;  the entry is not set to NULL.
Leave_uncounted(i) ==
    /\ g_viewer_ws' = [g_viewer_ws EXCEPT ![i] = NULL]
    /\ UNCHANGED g_num_viewers
Leave_keeps_entry(i) ==
    /\ UNCHANGED g_viewer_ws
    /\ g_num_viewers' = g_num_viewers - 1
Leave(i) ==
    /\ g_viewer_ws' = [g_viewer_ws EXCEPT ![i] = NULL]
    /\ g_num_viewers' = g_num_viewers - 1

\* LWS_CALLBACK_ESTABLISHED, its critical section.
established ==
    LET w == th["sig"].wsi
    IN  /\ th["sig"].pc = "established"
        /\ \/ /\ th["sig"].arg = "host"
              /\ g_host_ws' = w
              /\ Goto("sig", Resume("sig"))
              /\ UNCHANGED <<g_viewer_ws, g_num_viewers>>
           \/ /\ th["sig"].arg = "viewer"
              /\ FreeSlots # {}
              /\ LET i == First(FreeSlots)
                 IN  /\ Enter(i, w)
                     /\ Goto("sig", [At("viewer_cb") EXCEPT
                                        !.wsi = w, !.idx = i, !.joined = TRUE])
              /\ UNCHANGED g_host_ws
           \/ /\ th["sig"].arg = "viewer"    \* table full: left open, unregistered
              /\ FreeSlots = {}
              /\ Goto("sig", Resume("sig"))
              /\ UNCHANGED tables
        /\ UNCHANGED <<lws, conn, g_wsi>>

\* LWS_CALLBACK_CLOSED, its critical section, on the thread that runs lws.
closed(t) ==
    LET w == th[t].wsi
    IN  /\ th[t].pc = "closed"
        /\ \/ /\ IsHost(w)
              /\ g_host_ws' = NULL
              /\ Goto(t, Resume(t))
              /\ UNCHANGED <<g_viewer_ws, g_num_viewers>>
           \/ /\ ~IsHost(w)
              /\ SlotsOf(w) # {}
              /\ LET i == First(SlotsOf(w))
                 IN  /\ Leave(i)
                     /\ Goto(t, [At("viewer_cb") EXCEPT !.wsi = w, !.idx = i])
              /\ UNCHANGED g_host_ws
           \/ /\ ~IsHost(w)
              /\ SlotsOf(w) = {}
              /\ Goto(t, Resume(t))
              /\ UNCHANGED tables
        /\ UNCHANGED <<lws, conn, g_wsi>>

\* LWS_CALLBACK_RECEIVE, its critical section: who is the sender?
receive ==
    LET f == th["sig"]
    IN  /\ f.pc = "receive"
        /\ \/ /\ IsHost(f.wsi)
              /\ Goto("sig", [f EXCEPT !.pc = "received"])
           \/ /\ ~IsHost(f.wsi)
              /\ SlotsOf(f.wsi) # {}
              /\ Goto("sig", [f EXCEPT !.pc = "received",
                                       !.idx = First(SlotsOf(f.wsi))])
           \/ /\ ~IsHost(f.wsi)           \* unknown connection: dropped
              /\ SlotsOf(f.wsi) = {}
              /\ Goto("sig", Resume("sig"))
        /\ UNCHANGED <<lws, conn, g_wsi, tables>>

\* The unlocked test "wsi != g_host_ws" that decides whether g_msg_cb is called.
received ==
    /\ th["sig"].pc = "received"
    /\ Goto("sig", IF th["sig"].wsi # g_host_ws
                     THEN [th["sig"] EXCEPT !.pc = "msg_cb"]
                     ELSE At("event"))
    /\ UNCHANGED <<lws, conn, g_wsi, tables>>

\* fire_event(SIGNALING), then back to libwebsockets.
event ==
    /\ th["sig"].pc = "event"
    /\ Goto("sig", Resume("sig"))
    /\ UNCHANGED <<lws, conn, g_wsi, tables>>

\* The routed callbacks return to their handler.
ViewerCbReturns(t) ==
    /\ th[t].pc = "viewer_cb"
    /\ Goto(t, Resume(t))
    /\ UNCHANGED <<lws, conn, g_wsi, tables>>

MsgCbReturns ==
    /\ th["sig"].pc = "msg_cb"
    /\ Goto("sig", At("event"))
    /\ UNCHANGED <<lws, conn, g_wsi, tables>>

--------------------------------------------------------------------------------
(* Outgoing messages, under g_ws_lock *)

\* viewer_ws_by_id("viewer_i").
viewer_ws_by_id(i) == g_viewer_ws[i]

\* signaling_send_to_viewer: the connection that send_to_lws writes to, NULL when
\* the viewer is not connected and nothing is sent.
signaling_send_to_viewer(i) == viewer_ws_by_id(i)

--------------------------------------------------------------------------------
(* signaling_shutdown, on the engine's thread *)

\* The engine calls nearcade_shutdown, which stops the other subsystems first.
BeginShutdown ==
    /\ th["eng"].pc = "app"
    /\ Goto("eng", At("stopping"))
    /\ UNCHANGED <<lws, conn, g_wsi, tables>>

\* Mutant: g_wsi is cleared before it is copied, so there is no ctx to destroy.
signaling_shutdown_swapped ==
    /\ th["eng"].pc = "stopping"
    /\ g_wsi' = FALSE
    /\ g_host_ws' = NULL
    /\ g_viewer_ws' = [i \in Slot |-> NULL]
    /\ g_num_viewers' = 0
    /\ Goto("eng", At("down"))
    /\ UNCHANGED <<lws, conn>>

\* The critical section: take the context away and forget every connection.
signaling_shutdown ==
    /\ th["eng"].pc = "stopping"
    /\ g_wsi' = FALSE
    /\ g_host_ws' = NULL
    /\ g_viewer_ws' = [i \in Slot |-> NULL]
    /\ g_num_viewers' = 0
    /\ Goto("eng", At("cleared"))
    /\ UNCHANGED <<lws, conn>>

\* lws_context_destroy(ctx) is entered: no connection is accepted any more.
DestroyBegins ==
    /\ th["eng"].pc = "cleared"
    /\ lws' = "destroying"
    /\ Goto("eng", At("destroy"))
    /\ UNCHANGED <<conn, g_wsi, tables>>

\* lws_context_destroy closes the open connections one by one, running the
\* CLOSED callback of each on the calling thread.
DestroyCloses(w) ==
    /\ th["eng"].pc = "destroy"
    /\ conn[w]
    /\ conn' = [conn EXCEPT ![w] = FALSE]
    /\ Goto("eng", [At("closed") EXCEPT !.wsi = w])
    /\ UNCHANGED <<lws, g_wsi, tables>>

DestroyReturns ==
    /\ th["eng"].pc = "destroy"
    /\ \A w \in Wsi : ~conn[w]
    /\ lws' = "gone"
    /\ Goto("eng", At("down"))
    /\ UNCHANGED <<conn, g_wsi, tables>>

--------------------------------------------------------------------------------
(* The server on its own: what its callbacks call is left to the environment,
   which may take any time but returns.                                       *)

\* Both threads have finished; nothing is left to happen.
SigDone ==
    /\ th["sig"].pc = "exited"
    /\ th["eng"].pc = "down"
    /\ UNCHANGED sigVars

\* Steps of the signaling thread outside lws_service's own waiting.
Handlers ==
    \/ signaling_thread
    \/ established
    \/ closed("sig")
    \/ receive
    \/ received
    \/ event

\* What lws_service does between two handlers.
Service ==
    \/ ServiceReturns
    \/ \E w \in Wsi :
          \/ \E role \in Role : DispatchEstablished(w, role)
          \/ DispatchClosed(w)
          \/ \E m \in Msg : DispatchReceive(w, m)

\* Steps of signaling_shutdown on the engine's thread.
Shutdown ==
    \/ signaling_shutdown
    \/ DestroyBegins
    \/ \E w \in Wsi : DestroyCloses(w)
    \/ closed("eng")
    \/ DestroyReturns

SigNext ==
    \/ Handlers
    \/ Service
    \/ BeginShutdown
    \/ Shutdown
    \/ \E t \in Thread : ViewerCbReturns(t)
    \/ MsgCbReturns
    \/ SigDone

SigSafety == SigInit /\ [][SigNext]_sigVars

\* The OS schedules both threads, handlers return, lws_service returns after the
\* events of one poll, and a shutdown that has begun goes on.  Clients owe nothing.
SigFairness ==
    /\ WF_sigVars(Handlers \/ ViewerCbReturns("sig") \/ MsgCbReturns)
    /\ SF_sigVars(ServiceReturns)
    /\ WF_sigVars(Shutdown \/ ViewerCbReturns("eng"))

SigSpec == SigSafety /\ SigFairness

--------------------------------------------------------------------------------
(* Properties *)

Occupied == {i \in Slot : g_viewer_ws[i] # NULL}

SigTypeOK ==
    /\ lws \in {"alive", "destroying", "gone"}
    /\ conn \in [Wsi -> BOOLEAN]
    /\ g_wsi \in BOOLEAN
    /\ g_host_ws \in Wsi \cup {NULL}
    /\ g_viewer_ws \in [Slot -> Wsi \cup {NULL}]
    /\ g_num_viewers \in 0 .. MAX_VIEWERS
    /\ th \in [Thread -> Frame]

\* g_num_viewers, adjusted on every path of ESTABLISHED, CLOSED and shutdown,
\* is the number of occupied table entries, whatever races with shutdown.
CountMatchesTable == g_num_viewers = Cardinality(Occupied)

\* No connection holds two table entries, and none is host and viewer at once:
\* CLOSED clears only one entry and never looks at the table for the host.
OneEntryPerConnection ==
    /\ \A i, j \in Slot : g_viewer_ws[i] = g_viewer_ws[j] /\ i # j
                          => g_viewer_ws[i] = NULL
    /\ g_host_ws # NULL => g_host_ws \notin {g_viewer_ws[i] : i \in Slot}

\* Until the context is being destroyed, an entry is a connection that is still
\* open, or whose CLOSED callback the signaling thread has just entered: what
\* send_to_lws writes to is never a freed struct lws.
Registered == ({g_host_ws} \cup {g_viewer_ws[i] : i \in Slot}) \ {NULL}

EntriesAreLive ==
    lws = "alive" =>
        \A w \in Registered :
            conn[w] \/ (th["sig"].pc = "closed" /\ th["sig"].wsi = w)

\* The strengthening that makes these invariants inductive: a connection whose
\* ESTABLISHED callback is on its way to the lock is not registered yet, and it
\* is open as long as the context is alive; one whose CLOSED callback is on its
\* way is not reopened meanwhile.
FramesAreSound ==
    /\ th["sig"].pc \in SigPc
    /\ th["eng"].pc \in EngPc
    /\ lws = "alive" <=> th["eng"].pc \in {"app", "stopping", "cleared"}
    /\ \A t \in Thread : th[t].pc = "closed" => th[t].wsi \in Wsi /\ ~conn[th[t].wsi]
    /\ th["sig"].pc = "established" =>
           /\ th["sig"].wsi \in Wsi \ Registered
           /\ lws = "alive" => conn[th["sig"].wsi]

SigInductive ==
    /\ SigTypeOK
    /\ CountMatchesTable
    /\ OneEntryPerConnection
    /\ EntriesAreLive
    /\ FramesAreSound

\* What a handler remembers of the table after its unlock stays true until the
\* engine clears the table: a joining viewer has its entry, a leaving one none, and
\* a message comes from the connection that holds the index it is labelled with.
FramesMatchTable ==
    /\ \A t \in Thread : th[t].pc = "viewer_cb" => th[t].idx \in Slot /\ th[t].wsi \in Wsi
    /\ th["eng"].pc = "viewer_cb" => ~th["eng"].joined
    /\ th["sig"].pc = "receive" => th["sig"].idx = NoSlot
    /\ th["eng"].pc \in {"app", "stopping"} =>
           LET f == th["sig"]
           IN  /\ f.pc = "viewer_cb" /\ ~f.joined =>
                      g_viewer_ws[f.idx] = NULL /\ SlotsOf(f.wsi) = {}
               /\ \/ f.pc = "viewer_cb" /\ f.joined
                  \/ f.pc \in {"received", "msg_cb"} /\ f.idx # NoSlot
                  => f.idx \in Slot /\ g_viewer_ws[f.idx] = f.wsi

\* The current host is dropped only when its own connection closes or the
\* engine shuts the server down: the late CLOSED of a replaced host is ignored.
HostLostOnlyByOwnClose ==
    [][g_host_ws # NULL /\ g_host_ws' = NULL
         => ~conn[g_host_ws] \/ th["eng"].pc = "stopping"]_sigVars

\* A closed connection does not stay in the table.
ClosedIsForgotten ==
    \A w \in Wsi : (w \in Registered /\ ~conn[w] /\ th["eng"].pc = "app")
                     ~> (w \notin Registered \/ th["eng"].pc # "app")

\* signaling.c: "The signaling thread will exit when g_wsi becomes NULL".
ThreadExits == ~g_wsi ~> th["sig"].pc = "exited"

\* A shutdown that has begun returns, with the context destroyed and every
\* connection closed, although the signaling thread was never joined.
ShutdownClosesAll ==
    th["eng"].pc = "stopping"
        ~> th["eng"].pc = "down" /\ lws = "gone" /\ \A w \in Wsi : ~conn[w]

================================================================================
