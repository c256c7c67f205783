------------------------------ MODULE GodotEvents ------------------------------
(***************************************************************************)
(* The Godot binding's event queue (nearcade_godot.cpp): the SDK's threads *)
(* push events into it from fire_event, the game's thread polls it once a  *)
(* frame and turns each event into a signal.  The queue is bounded and     *)
(* drops what does not fit.                                                *)
(***************************************************************************)
EXTENDS Naturals, Sequences

CONSTANTS Viewer,       \* viewer indices
          QUEUE_LIMIT   \* 256 in the source

ASSUME GodotAssumption == QUEUE_LIMIT \in Nat \ {0}

VARIABLES
    event_cb,     \* TRUE iff g_state.event_cb is set
    event_queue,  \* the queue, oldest event first
    told,         \* viewers that JOINED was fired for and LEFT was not, since
    shown,        \* the same as the signals have told the game
    lost          \* history: viewers an event of whom was dropped

vars == <<event_cb, event_queue, told, shown, lost>>

\* "other" stands for input packets, signaling messages, errors and streaming.
Event == [type : {"joined", "left"}, viewer : Viewer] \cup {[type |-> "other"]}

\* A viewer set after an event, as a listener of the events keeps it.
After(V, e) ==
    CASE e.type = "joined" -> V \cup {e.viewer}
      [] e.type = "left"   -> V \ {e.viewer}
      [] OTHER             -> V

About(e) == IF e.type = "other" THEN {} ELSE {e.viewer}

Init ==
    /\ event_cb = FALSE
    /\ event_queue = <<>>
    /\ told = {}
    /\ shown = {}
    /\ lost = {}

--------------------------------------------------------------------------------
\* Mutant: "<=" in the test of the queue's size.
event_callback_one_more(e) ==
    IF Len(event_queue) =< QUEUE_LIMIT
      THEN event_queue' = Append(event_queue, e) /\ UNCHANGED lost
      ELSE UNCHANGED event_queue /\ lost' = lost \cup About(e)

\* _event_callback, under queue_mutex.
event_callback(e) ==
    IF Len(event_queue) < QUEUE_LIMIT
      THEN event_queue' = Append(event_queue, e) /\ UNCHANGED lost
      ELSE UNCHANGED event_queue /\ lost' = lost \cup About(e)

\* fire_event on a thread of the SDK.  A viewer joins once before it leaves;
\* LEFT may be fired again, by Disconnected and then Closed.
fire_event(e) ==
    /\ e.type = "joined" => e.viewer \notin told
    /\ told' = After(told, e)
    /\ \/ event_cb /\ event_callback(e)
       \/ ~event_cb /\ UNCHANGED event_queue /\ lost' = lost \cup About(e)
    /\ UNCHANGED <<event_cb, shown>>

\* NearcadeSDK::init: nearcade_init zeroes g_state, the callback in it included;
\* every viewer of an earlier life has LEFT, the queue keeps what it holds.
init ==
    /\ told = {}
    /\ event_cb' = FALSE
    /\ UNCHANGED <<event_queue, told, shown, lost>>

\* NearcadeSDK::init, once nearcade_init has returned.
set_event_callback ==
    /\ ~event_cb
    /\ event_cb' = TRUE
    /\ UNCHANGED <<event_queue, told, shown, lost>>

\* Mutants: the newest event is read;  the event is read and not popped.
poll_event_back ==
    /\ event_queue # <<>>
    /\ event_queue' = SubSeq(event_queue, 1, Len(event_queue) - 1)
    /\ shown' = After(shown, event_queue[Len(event_queue)])
    /\ UNCHANGED <<event_cb, told, lost>>
poll_event_no_pop ==
    /\ event_queue # <<>>
    /\ shown' = After(shown, Head(event_queue))
    /\ UNCHANGED <<event_cb, event_queue, told, lost>>

\* poll_event: pop under queue_mutex, then emit the signal.
poll_event ==
    /\ event_queue # <<>>
    /\ event_queue' = Tail(event_queue)
    /\ shown' = After(shown, Head(event_queue))
    /\ UNCHANGED <<event_cb, told, lost>>

Next ==
    \/ init
    \/ set_event_callback
    \/ poll_event
    \/ \E e \in Event : fire_event(e)

\* The game polls every frame, as the binding's documentation tells it to; the
\* SDK need not fire anything.
Safety == Init /\ [][Next]_vars
Spec   == Safety /\ WF_vars(poll_event)

--------------------------------------------------------------------------------
(* Properties *)

GodotTypeOK ==
    /\ event_cb \in BOOLEAN
    /\ event_queue \in Seq(Event)
    /\ Len(event_queue) =< QUEUE_LIMIT
    /\ told \subseteq Viewer
    /\ shown \subseteq Viewer
    /\ lost \subseteq Viewer

\* The game will have shown viewer i once it has polled all that is queued: the
\* last queued event about i, if there is one, says so, and else it is shown now.
WillShow(i) ==
    \/ \E n \in DOMAIN event_queue :
          /\ event_queue[n] = [type |-> "joined", viewer |-> i]
          /\ \A m \in DOMAIN event_queue : m > n => i \notin About(event_queue[m])
    \/ /\ i \in shown
       /\ \A n \in DOMAIN event_queue : i \notin About(event_queue[n])

\* What the game has been shown, brought up to date with what is still queued,
\* is the truth about every viewer none of whose events was dropped: nothing is
\* reordered, duplicated or withheld on the way from the SDK's threads.
QueueCatchesUp == \A i \in Viewer \ lost : WillShow(i) <=> i \in told

\* A viewer that stays is shown to the game, unless an event of it was dropped.
JoinedIsSignalled ==
    \A i \in Viewer : i \in told ~> (i \in shown \/ i \notin told \/ i \in lost)

\* bindings/godot/README.md: viewer_left(viewer_id), "Viewer disconnected".
LeftIsSignalled ==
    \A i \in Viewer : (i \in shown /\ i \notin told) ~> (i \notin shown \/ i \in told)

================================================================================
