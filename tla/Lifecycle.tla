------------------------------- MODULE Lifecycle -------------------------------
(***************************************************************************)
(* The lives of the SDK: nearcade_init with the failure of each of its     *)
(* steps, the capture calls, nearcade_shutdown, and the signaling threads  *)
(* of successive lives, which nobody joins.                                *)
(*                                                                         *)
(* The engine calls from one thread and initialises only an SDK that is    *)
(* not running; the capture calls it makes whether the SDK runs or not.    *)
(* Life n has context n and, once created, thread n.                       *)
(***************************************************************************)
EXTENDS Capture

CONSTANT MAX_LIVES     \* bound: calls of nearcade_init

ASSUME LifecycleAssumption == MAX_LIVES \in Nat \ {0}

VARIABLES
    eng,      \* where the engine's thread is, "app" outside the SDK
    life,     \* calls of nearcade_init so far
    running,  \* g_state.running
    held,     \* what is initialised: mutexes, the KBM device, webrtc.cpp
    g_wsi,    \* the context the global pointer points to, 0 for NULL
    ctx,      \* contexts created and not destroyed
    thread,   \* thread[n]: the signaling thread of life n
    serving,  \* serving[n]: the context it passed to lws_service
    early     \* history: ids last forked while the SDK was not running

lifeVars == <<eng, life, running, held, g_wsi, ctx, thread, serving, early>>
vars     == <<capturing, g_ff, proc, stage, unwaited,
              eng, life, running, held, g_wsi, ctx, thread, serving, early>>

Life     == 1 .. MAX_LIVES
Resource == {"viewer_lock", "slots_lock", "kbm", "webrtc"}
EngPc    == {"app", "create_context", "create_thread", "unwind", "stop_capture",
             "shutdown", "capture_stopped", "signaling_shutdown", "destroy"}

Init ==
    /\ CaptureInit
    /\ eng = "app"
    /\ life = 0
    /\ running = FALSE
    /\ held = {}
    /\ g_wsi = 0
    /\ ctx = {}
    /\ thread = [n \in Life |-> "none"]
    /\ serving = [n \in Life |-> 0]
    /\ early = {}

--------------------------------------------------------------------------------
(* nearcade_init *)

\* The steps that can fail before signaling_init, what is held when one is
\* tried, and what its failure path gives back.  capture_init and webrtc_init
\* never fail.
Fallible == {"viewer_lock", "slots_lock", "kbm"}

Acquired(step) ==
    CASE step = "viewer_lock" -> {}
      [] step = "slots_lock"  -> {"viewer_lock"}
      [] step = "kbm"         -> {"viewer_lock", "slots_lock"}

GivenBack(step) ==
    CASE step = "viewer_lock" -> {}
      [] step = "slots_lock"  -> {"viewer_lock"}
      [] step = "kbm"         -> {"slots_lock", "viewer_lock"}

\* g_state is zeroed; then the two mutexes, the KBM device, capture (which zeroes
\* g_ff, whatever it remembers), webrtc.cpp.  A step that fails undoes the earlier
\* ones and the call returns.
nearcade_init ==
    /\ eng = "app"
    /\ ~running
    /\ life < MAX_LIVES
    /\ life' = life + 1
    /\ capturing' = FALSE
    /\ \/ /\ eng' = "create_context"
          /\ held' = held \cup Resource
          /\ g_ff' = Zeroed
       \/ /\ UNCHANGED <<eng, g_ff>>
          /\ \E step \in Fallible : held' = held \cup (Acquired(step) \ GivenBack(step))
    /\ UNCHANGED <<running, g_wsi, ctx, thread, serving, early, proc, stage, unwaited>>

\* signaling_init: lws_create_context.
create_context ==
    /\ eng = "create_context"
    /\ \/ /\ g_wsi' = life
          /\ ctx' = ctx \cup {life}
          /\ eng' = "create_thread"
       \/ /\ g_wsi' = 0
          /\ eng' = "unwind"
          /\ UNCHANGED ctx
    /\ UNCHANGED <<life, running, held, thread, serving, early, capVars>>

\* signaling_init: pthread_create, after which nearcade_init succeeds.
create_thread ==
    /\ eng = "create_thread"
    /\ \/ /\ thread' = [thread EXCEPT ![life] = "check"]
          /\ running' = TRUE
          /\ eng' = "app"
          /\ UNCHANGED <<g_wsi, ctx>>
       \/ /\ ctx' = ctx \ {g_wsi}
          /\ g_wsi' = 0
          /\ eng' = "unwind"
          /\ UNCHANGED <<thread, running>>
    /\ UNCHANGED <<life, held, serving, early, capVars>>

\* Mutant: the unwinding forgets input_shutdown.
unwind_keeps_kbm ==
    /\ eng = "unwind"
    /\ StopNothing
    /\ held' = held \ {"webrtc", "slots_lock", "viewer_lock"}
    /\ eng' = "app"
    /\ UNCHANGED <<capturing, life, running, g_wsi, ctx, thread, serving, early>>

\* signaling_init failed: webrtc_shutdown, capture_shutdown (which finds nothing
\* to stop), input_shutdown and the two mutexes.
unwind ==
    /\ eng = "unwind"
    /\ StopNothing
    /\ held' = held \ {"webrtc", "kbm", "slots_lock", "viewer_lock"}
    /\ eng' = "app"
    /\ UNCHANGED <<capturing, life, running, g_wsi, ctx, thread, serving, early>>

--------------------------------------------------------------------------------
(* The capture calls, on an SDK that runs or not *)

start_capture ==
    /\ eng = "app"
    /\ nearcade_start_capture
    /\ early' = IF UNCHANGED proc THEN early
                ELSE IF running THEN early \ {g_ff'.pid}
                ELSE early \cup {g_ff'.pid}
    /\ UNCHANGED <<eng, life, running, held, g_wsi, ctx, thread, serving>>

\* nearcade_stop_capture, up to capture_stop and its SIGTERM.  It asks the flag.
stop_capture ==
    /\ eng = "app"
    /\ \/ ~capturing /\ UNCHANGED vars
       \/ /\ capturing
          /\ StopTerm
          /\ eng' = "stop_capture"
          /\ UNCHANGED <<capturing, life, running, held, g_wsi, ctx, thread, serving, early>>

\* capture_stop returns to nearcade_stop_capture.
stop_capture_returns ==
    /\ eng = "stop_capture"
    /\ StopClear
    /\ capturing' = FALSE
    /\ eng' = "app"
    /\ UNCHANGED <<life, running, held, g_wsi, ctx, thread, serving, early>>

--------------------------------------------------------------------------------
(* nearcade_shutdown *)

\* On an SDK that is not running it returns at once, whatever is being captured.
\* Otherwise it clears the flags and runs webrtc_shutdown.
nearcade_shutdown ==
    /\ eng = "app"
    /\ \/ ~running /\ UNCHANGED vars
       \/ /\ running
          /\ running' = FALSE
          /\ capturing' = FALSE
          /\ held' = held \ {"webrtc"}
          /\ eng' = "shutdown"
          /\ UNCHANGED <<life, g_wsi, ctx, thread, serving, early, g_ff, proc, stage, unwaited>>

\* Mutant: stop through nearcade_stop_capture, whose flag is already cleared.
capture_shutdown_by_flag ==
    /\ eng = "shutdown"
    /\ ~capturing
    /\ eng' = "capture_stopped"
    /\ UNCHANGED <<life, running, held, g_wsi, ctx, thread, serving, early, capVars>>

\* capture_shutdown: capture_stop whatever the flag says.
capture_shutdown ==
    /\ \/ eng = "shutdown" /\ StopTerm /\ UNCHANGED eng
       \/ eng = "shutdown" /\ StopNothing /\ eng' = "capture_stopped"
       \/ eng = "shutdown" /\ StopClear /\ eng' = "capture_stopped"
    /\ UNCHANGED <<capturing, life, running, held, g_wsi, ctx, thread, serving, early>>

\* input_shutdown.
input_shutdown ==
    /\ eng = "capture_stopped"
    /\ held' = held \ {"kbm"}
    /\ eng' = "signaling_shutdown"
    /\ UNCHANGED <<life, running, g_wsi, ctx, thread, serving, early, capVars>>

\* signaling_shutdown: its critical section takes the context away.
signaling_shutdown ==
    /\ eng = "signaling_shutdown"
    /\ g_wsi' = 0
    /\ eng' = "destroy"
    /\ UNCHANGED <<life, running, held, ctx, thread, serving, early, capVars>>

\* lws_context_destroy, then the mutexes.
destroy ==
    /\ eng = "destroy"
    /\ ctx' = ctx \ {life}
    /\ held' = held \ {"viewer_lock", "slots_lock"}
    /\ eng' = "app"
    /\ UNCHANGED <<life, running, g_wsi, thread, serving, early, capVars>>

--------------------------------------------------------------------------------
(* signaling_thread of life n *)

\* The locked test of g_wsi.
thread_check(n) ==
    /\ thread[n] = "check"
    /\ thread' = [thread EXCEPT ![n] = IF g_wsi # 0 THEN "call" ELSE "exited"]
    /\ UNCHANGED <<eng, life, running, held, g_wsi, ctx, serving, early, capVars>>

\* The call of lws_service reads g_wsi again, without the lock.
thread_call(n) ==
    /\ thread[n] = "call"
    /\ thread' = [thread EXCEPT ![n] = "service"]
    /\ serving' = [serving EXCEPT ![n] = g_wsi]
    /\ UNCHANGED <<eng, life, running, held, g_wsi, ctx, early, capVars>>

\* lws_service returns: its timeout, a NULL context or a destroyed one.
thread_returns(n) ==
    /\ thread[n] = "service"
    /\ thread' = [thread EXCEPT ![n] = "check"]
    /\ serving' = [serving EXCEPT ![n] = 0]
    /\ UNCHANGED <<eng, life, running, held, g_wsi, ctx, early, capVars>>

ThreadSteps(n) == thread_check(n) \/ thread_call(n) \/ thread_returns(n)

\* Steps of a call that is under way.
CallSteps ==
    \/ create_context
    \/ create_thread
    \/ unwind
    \/ stop_capture_returns
    \/ capture_shutdown
    \/ input_shutdown
    \/ signaling_shutdown
    \/ destroy
    \/ StopSteps /\ UNCHANGED lifeVars

\* What the children, the engine's process and the signals it gets do of themselves.
Processes ==
    /\ (\E p \in Pid : ChildExits(p) \/ EngineReaps(p)) \/ StopInterrupted
    /\ UNCHANGED lifeVars

Next ==
    \/ nearcade_init
    \/ start_capture
    \/ stop_capture
    \/ nearcade_shutdown
    \/ CallSteps
    \/ Processes
    \/ \E n \in Life : ThreadSteps(n)

\* The OS schedules the threads, and a process that got SIGKILL dies.  One that
\* got SIGTERM need not, no waitpid need be interrupted, and the engine need not call
\* anything.
Fairness ==
    /\ WF_vars(CallSteps)
    /\ \A p \in Pid :
          WF_vars(proc[p] = "killed" /\ ChildExits(p) /\ UNCHANGED lifeVars)
    /\ \A n \in Life : WF_vars(ThreadSteps(n))

Safety == Init /\ [][Next]_vars
Spec   == Safety /\ Fairness

--------------------------------------------------------------------------------
(* Properties *)

LifecycleTypeOK ==
    /\ CaptureTypeOK
    /\ eng \in EngPc
    /\ life \in 0 .. MAX_LIVES
    /\ running \in BOOLEAN
    /\ held \subseteq Resource
    /\ g_wsi \in 0 .. MAX_LIVES
    /\ ctx \subseteq Life
    /\ thread \in [Life -> {"none", "check", "call", "service", "exited"}]
    /\ serving \in [Life -> 0 .. MAX_LIVES]
    /\ early \subseteq Pid

\* A child forked by a running SDK is remembered until capture_stop has reaped it
\* or its last waitpid was interrupted; then it has been sent SIGKILL.  No FFmpeg of
\* such a child is left behind running, across stops, shutdowns and later lives,
\* and no zombie either unless a signal came at that moment.
NoChildLost ==
    /\ Ours \ (early \cup unwaited) \subseteq Remembered
    /\ \A p \in unwaited \cap Ours : proc[p] \in {"killed", "zombie"}

\* capture.c and the system agree about the children: none of a running SDK is lost,
\* and nothing is done to an id after capture_stop has waited for it, across any
\* sequence of starts, stops, failing inits and shutdowns.
ChildIsTracked == NoChildLost /\ SignalsOwnChild

\* Between two calls of the engine everything is held if the SDK runs and
\* nothing if it does not, whichever step of nearcade_init failed and whatever
\* was being captured when it was shut down: of an SDK that does not run only
\* children are left that were forked while it did not, or were killed and missed
\* by an interrupted waitpid.
AllOrNothing ==
    eng = "app" =>
        /\ held = IF running THEN Resource ELSE {}
        /\ ctx  = IF running THEN {life} ELSE {}
        /\ g_wsi = IF running THEN life ELSE 0
        /\ ~running => Ours \subseteq early \cup unwaited

\* The two records of a capture between two calls: a set flag has a child to stop,
\* and while the SDK runs a remembered child has its flag set, so that a stop finds
\* it.  Neither says that the child lives.
CapturingAgrees ==
    eng = "app" => /\ capturing => g_ff.active
                   /\ running /\ g_ff.active => capturing

\* The strengthening that makes these invariants inductive: what a call under
\* way has acquired or given back so far, place by place.
HeldSoFar ==
    /\ eng \in {"app", "stop_capture"} => held = IF running THEN Resource ELSE {}
    /\ eng \in {"create_context", "create_thread", "unwind"} => held = Resource
    /\ eng \in {"shutdown", "capture_stopped"} => held = Resource \ {"webrtc"}
    /\ eng \in {"signaling_shutdown", "destroy"} =>
           held = {"viewer_lock", "slots_lock"}

\* The call runs with its flag set or cleared, and with life's context or none.
InLife == running \/ eng \in {"create_thread", "shutdown", "capture_stopped",
                              "signaling_shutdown", "destroy"}

ContextSoFar ==
    /\ running => eng \in {"app", "stop_capture"}
    /\ running \/ eng \notin {"app", "stop_capture"} => life \in Life
    /\ ctx = IF InLife THEN {life} ELSE {}
    /\ g_wsi = IF InLife /\ eng # "destroy" THEN life ELSE 0

\* Only the capture calls and capture_shutdown have a child; a child remembered
\* while the SDK does not run was forked so.
CaptureSoFar ==
    /\ stage # "out" => g_ff.active /\ eng \in {"stop_capture", "shutdown"}
    /\ eng = "stop_capture" => stage # "out"
    /\ g_ff.active => eng \in {"app", "stop_capture", "shutdown"}
    /\ capturing => g_ff.active /\ eng # "shutdown"
    /\ running /\ g_ff.active => capturing
    /\ g_ff.active /\ ~running /\ eng # "shutdown" => g_ff.pid \in early
    /\ stage = "waited" => g_ff.pid \in unwaited \/ proc[g_ff.pid] \in Reaped
    /\ Remembered \cap unwaited = {}
    /\ stage = "killed" => proc[g_ff.pid] \in {"killed", "zombie"} \cup Reaped

LifecycleInductive ==
    /\ LifecycleTypeOK
    /\ NoChildLost
    /\ SignalsOwnChild
    /\ HeldSoFar
    /\ ContextSoFar
    /\ CaptureSoFar

\* Every call returns, a stop included that meets an FFmpeg deaf to SIGTERM.
CallsReturn == eng # "app" ~> eng = "app"

\* bindings/godot/README.md: start_capture() "Start screen capture (FFmpeg)".  A
\* running SDK that has no living FFmpeg can start one.
StartStartsCapture ==
    (eng = "app" /\ running /\ \A p \in Pid : proc[p] \notin Alive) =>
        ENABLED (start_capture /\ \E p \in Pid : proc'[p] \in Alive)

\* bindings/godot/README.md: stop_capture() "Stop screen capture".  When
\* nearcade_stop_capture returns at once, there is no FFmpeg to stop.
StopStopsCapture ==
    (eng = "app" /\ ~capturing) => \A p \in Pid : proc[p] \notin Alive

\* bindings/godot/README.md: shutdown() "Shut down all subsystems".  When
\* nearcade_shutdown returns at once, there is no FFmpeg to stop.
ShutdownStopsCapture ==
    (eng = "app" /\ ~running) => \A p \in Pid : proc[p] \notin Alive

\* signaling.c: "The signaling thread will exit when g_wsi becomes NULL".
OldThreadExits ==
    \A n \in Life : (thread[n] # "none" /\ g_wsi = 0) ~> thread[n] = "exited"

================================================================================
