------------------------------ MODULE GodotObjects -----------------------------
(***************************************************************************)
(* The NearcadeSDK objects of the Godot binding: the one the module makes  *)
(* when it is loaded, the ones scripts make, and the single C library      *)
(* under all of them, whose threads call back into the object that         *)
(* registered last.  The game's thread constructs, initialises, shuts down *)
(* and frees; a thread of the SDK may be inside fire_event meanwhile, and  *)
(* nearcade_shutdown does not wait for it.                                 *)
(*                                                                         *)
(* As everywhere, init is called on an SDK that is not running only.       *)
(***************************************************************************)
CONSTANTS Object,   \* NearcadeSDK objects
          Thread,   \* threads of the SDK: signaling's and libdatachannel's
          NULL

ASSUME GodotObjectsAssumption == NULL \notin Object

VARIABLES
    obj,        \* obj[o]: "none", "live" or "freed"
    singleton,  \* NearcadeSDK::singleton
    module,     \* the extension: "unloaded", "loaded" or "terminated"
    running,    \* g_state.running
    serving,    \* the SDK's threads take up new work
    event_cb,   \* g_state.event_cb is set
    userdata,   \* g_state.event_cb_userdata
    game,       \* the game's thread: pc "playing" outside the SDK, "register" and
                \* "half" in init, "stop" in shutdown(), "stop_free" and "free" in
                \* the destructor of self
    thread,     \* thread[t]: "idle", "checked", "inside" or "crashed"
    self,       \* self[t]: the userdata the callback on t was called with
    clash       \* history: a constructor found a singleton

cbVars  == <<event_cb, userdata>>
objVars == <<obj, singleton, module, clash>>
vars    == <<objVars, running, serving, cbVars, game, thread, self>>

Playing == [pc |-> "playing", self |-> NULL]

Init ==
    /\ obj = [o \in Object |-> "none"]
    /\ singleton = NULL
    /\ module = "unloaded"
    /\ running = FALSE
    /\ serving = FALSE
    /\ event_cb = FALSE
    /\ userdata = NULL
    /\ game = Playing
    /\ thread = [t \in Thread |-> "idle"]
    /\ self = [t \in Thread |-> NULL]
    /\ clash = FALSE

--------------------------------------------------------------------------------
(* Objects *)

\* NearcadeSDK(): an object that is not the first reports an error and stays an
\* object.
construct(o) ==
    /\ obj[o] = "none"
    /\ obj' = [obj EXCEPT ![o] = "live"]
    /\ singleton' = IF singleton = NULL THEN o ELSE singleton
    /\ clash' = (clash \/ singleton # NULL)

\* initialize_nearcade_module: memnew(NearcadeSDK).
initialize_nearcade_module(o) ==
    /\ game.pc = "playing"
    /\ module = "unloaded"
    /\ module' = "loaded"
    /\ construct(o)
    /\ UNCHANGED <<running, serving, cbVars, game, thread, self>>

\* NearcadeSDK.new() of a script.
new(o) ==
    /\ game.pc = "playing"
    /\ module = "loaded"
    /\ construct(o)
    /\ UNCHANGED <<module, running, serving, cbVars, game, thread, self>>

\* Mutants: the destructor shuts down the SDK only for the singleton;  only for
\* the object that the SDK calls.
destructor_singleton(o) ==
    game' = [pc |-> IF running /\ o = singleton THEN "stop_free" ELSE "free", self |-> o]
destructor_own(o) ==
    game' = [pc |-> IF running /\ o = userdata THEN "stop_free" ELSE "free", self |-> o]

\* ~NearcadeSDK(): nearcade_shutdown first, whoever initialised the SDK.
destructor(o) ==
    game' = [pc |-> IF running THEN "stop_free" ELSE "free", self |-> o]

\* A script frees an object it made, or uninitialize_nearcade_module deletes the
\* singleton.
delete(o) ==
    /\ game.pc = "playing"
    /\ module = "loaded"
    /\ obj[o] = "live"
    /\ o # singleton
    /\ destructor(o)
    /\ UNCHANGED <<objVars, running, serving, cbVars, thread, self>>

uninitialize_nearcade_module ==
    /\ game.pc = "playing"
    /\ module = "loaded"
    /\ module' = "terminated"
    /\ singleton # NULL
    /\ destructor(singleton)
    /\ UNCHANGED <<obj, singleton, clash, running, serving, cbVars, thread, self>>

\* Mutant: the destructor leaves singleton as it is.
freed_keeps_singleton ==
    /\ game.pc = "free"
    /\ obj' = [obj EXCEPT ![game.self] = "freed"]
    /\ game' = Playing
    /\ UNCHANGED <<singleton, module, clash, running, serving, cbVars, thread, self>>

\* The rest of the destructor, and the memory is given back.
freed ==
    /\ game.pc = "free"
    /\ obj' = [obj EXCEPT ![game.self] = "freed"]
    /\ singleton' = IF singleton = game.self THEN NULL ELSE singleton
    /\ game' = Playing
    /\ UNCHANGED <<module, clash, running, serving, cbVars, thread, self>>

--------------------------------------------------------------------------------
(* init and shutdown *)

\* nearcade_init zeroes g_state, callback included, and starts the SDK's threads
\* unless one of its steps fails.
init(o) ==
    /\ game.pc = "playing"
    /\ module = "loaded"
    /\ obj[o] = "live"
    /\ ~running
    /\ event_cb' = FALSE
    /\ userdata' = NULL
    /\ \/ /\ running' = TRUE
          /\ serving' = TRUE
          /\ game' = [pc |-> "register", self |-> o]
       \/ UNCHANGED <<running, serving, game>>
    /\ UNCHANGED <<objVars, thread, self>>

\* nearcade_set_event_callback: two plain stores while the SDK's threads run,
\* seen by them in either order.
set_event_callback ==
    /\ game.pc \in {"register", "half"}
    /\ \/ event_cb' = TRUE /\ UNCHANGED userdata
       \/ userdata' = game.self /\ UNCHANGED event_cb
    /\ cbVars' # cbVars
    /\ game' = IF game.pc = "register" THEN [game EXCEPT !.pc = "half"] ELSE Playing
    /\ UNCHANGED <<objVars, running, serving, thread, self>>

\* shutdown() on an object, which returns at once unless the SDK runs.
shutdown(o) ==
    /\ game.pc = "playing"
    /\ module = "loaded"
    /\ obj[o] = "live"
    /\ running
    /\ game' = [pc |-> "stop", self |-> o]
    /\ UNCHANGED <<objVars, running, serving, cbVars, thread, self>>

\* nearcade_shutdown: running is cleared first, the threads get no new work at
\* its end.  The callback stays registered.
nearcade_shutdown ==
    /\ game.pc \in {"stop", "stop_free"}
    /\ \/ running /\ running' = FALSE /\ UNCHANGED <<serving, game>>
       \/ /\ ~running
          /\ serving' = FALSE
          /\ game' = IF game.pc = "stop" THEN Playing ELSE [game EXCEPT !.pc = "free"]
          /\ UNCHANGED running
    /\ UNCHANGED <<objVars, cbVars, thread, self>>

--------------------------------------------------------------------------------
(* fire_event on thread t *)

\* A handler has something to report while the SDK serves; fire_event tests
\* event_cb and drops the event if it is not set.
fire_event(t) ==
    /\ thread[t] = "idle"
    /\ serving
    /\ event_cb
    /\ thread' = [thread EXCEPT ![t] = "checked"]
    /\ UNCHANGED <<objVars, running, serving, cbVars, game, self>>

\* _event_callback returns at once without a self, else locks its queue.
Enters(t) ==
    /\ thread' = [thread EXCEPT ![t] = IF userdata = NULL THEN "idle" ELSE "inside"]
    /\ self' = [self EXCEPT ![t] = userdata]

\* The call.  It uses the pointer that was tested or loads it again, as the
\* compiler pleases, and loads userdata.
event_callback(t) ==
    /\ thread[t] = "checked"
    /\ \/ Enters(t)
       \/ /\ ~event_cb
          /\ thread' = [thread EXCEPT ![t] = "crashed"]
          /\ UNCHANGED self
    /\ UNCHANGED <<objVars, running, serving, cbVars, game>>

\* The callback has pushed its event and returns.
callback_returns(t) ==
    /\ thread[t] = "inside"
    /\ thread' = [thread EXCEPT ![t] = "idle"]
    /\ self' = [self EXCEPT ![t] = NULL]
    /\ UNCHANGED <<objVars, running, serving, cbVars, game>>

Next ==
    \/ \E o \in Object : \/ initialize_nearcade_module(o)
                         \/ new(o)
                         \/ delete(o)
                         \/ init(o)
                         \/ shutdown(o)
    \/ uninitialize_nearcade_module
    \/ freed
    \/ set_event_callback
    \/ nearcade_shutdown
    \/ \E t \in Thread : fire_event(t) \/ event_callback(t) \/ callback_returns(t)

Spec == Init /\ [][Next]_vars

--------------------------------------------------------------------------------
(* Properties *)

\* get_singleton never returns an object whose memory was given back, whichever
\* objects scripts make and free beside it.
SingletonIsLive == singleton # NULL => obj[singleton] = "live"

\* A running SDK calls a live object: whichever object is freed, the SDK it leaves
\* behind is not running with the freed one registered.
RunningCallsLive == running /\ userdata # NULL => obj[userdata] = "live"

\* Once the module is gone and its destructor has run, the SDK is down, even if a
\* script's object initialised it and was never freed.
TerminatedIsDown == module = "terminated" /\ game = Playing => ~running /\ ~serving

\* What makes these inductive: the object under way is alive, and a destructor
\* frees it only once the SDK is down.
GameSoFar ==
    /\ obj \in [Object -> {"none", "live", "freed"}]
    /\ self \in [Thread -> Object \cup {NULL}]
    /\ thread \in [Thread -> {"idle", "checked", "inside", "crashed"}]
    /\ singleton \in Object \cup {NULL}
    /\ userdata \in Object \cup {NULL}
    /\ game = Playing \/ game \in [pc : {"register", "half", "stop", "stop_free", "free"},
                                  self : {o \in Object : obj[o] = "live"}]
    /\ game.pc \in {"register", "half"} => module = "loaded"
    /\ game.pc = "free" => ~running
    /\ serving => running \/ game.pc \in {"stop", "stop_free"}
    /\ module = "terminated" => game.pc # "stop"

GodotObjectsInductive ==
    GameSoFar /\ SingletonIsLive /\ RunningCallsLive /\ TerminatedIsDown

\* bindings/godot/README.md: shutdown() "Shut down all subsystems".  What is
\* freed after it is not called into any more.
NoCallIntoFreed ==
    \A t \in Thread : thread[t] = "inside" => obj[self[t]] = "live"

\* README.md and bindings/godot/README.md begin with "var sdk = NearcadeSDK.new()".
NewFindsNoOther == ~clash

================================================================================
