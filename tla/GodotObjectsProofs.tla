--------------------------- MODULE GodotObjectsProofs --------------------------
(***************************************************************************)
(* The objects of the Godot binding, for any set of objects and threads:   *)
(* whichever objects scripts make, initialise and free, the singleton is   *)
(* alive, a running SDK calls a live object, and it is down once the       *)
(* module is gone.                                                         *)
(***************************************************************************)
EXTENDS GodotObjects, TLAPS

\* The state before the module is loaded.
LEMMA GodotObjectsInit == Init => GodotObjectsInductive
BY GodotObjectsAssumption
   DEF Init, GodotObjectsInductive, GameSoFar, SingletonIsLive, RunningCallsLive,
       TerminatedIsDown, Playing

\* Constructors: an object that was none becomes live, the others stay as they are.
LEMMA ConstructKeeps ==
    ASSUME GodotObjectsInductive, NEW o \in Object, game.pc = "playing", construct(o),
           module # "terminated", module' # "terminated",
           UNCHANGED <<running, serving, userdata, game, thread, self>>
    PROVE  GodotObjectsInductive'
<1> USE GodotObjectsAssumption DEF GodotObjectsInductive, construct
<1>1. game = Playing
  BY DEF GameSoFar
<1>2. \A p \in Object : obj'[p] = IF p = o THEN "live" ELSE obj[p]
  BY DEF GameSoFar
<1>3. GameSoFar'
  BY <1>1, <1>2 DEF GameSoFar, Playing
<1>4. SingletonIsLive' /\ RunningCallsLive'
  BY <1>2 DEF GameSoFar, SingletonIsLive, RunningCallsLive
<1>5. TerminatedIsDown'
  BY DEF TerminatedIsDown
<1> QED
  BY <1>3, <1>4, <1>5

\* Destructors, up to nearcade_shutdown.
LEMMA DestructorKeeps ==
    ASSUME GodotObjectsInductive, NEW o \in Object, obj[o] = "live", game.pc = "playing",
           destructor(o), UNCHANGED <<obj, singleton, running, serving, userdata, thread, self>>
    PROVE  GodotObjectsInductive'
<1> USE GodotObjectsAssumption DEF GodotObjectsInductive, destructor
<1>1. game'.pc = (IF running THEN "stop_free" ELSE "free") /\ game'.self = o
      /\ game' # Playing
  BY DEF Playing
<1>2. GameSoFar'
  BY <1>1 DEF GameSoFar, Playing
<1>3. SingletonIsLive' /\ RunningCallsLive' /\ TerminatedIsDown'
  BY <1>1 DEF SingletonIsLive, RunningCallsLive, TerminatedIsDown
<1> QED
  BY <1>2, <1>3

\* The end of a destructor: the SDK is down, and nothing else is freed.
LEMMA FreedKeeps == GodotObjectsInductive /\ freed => GodotObjectsInductive'
<1> SUFFICES ASSUME GodotObjectsInductive, freed PROVE GodotObjectsInductive'
  OBVIOUS
<1> USE GodotObjectsAssumption DEF GodotObjectsInductive, freed, cbVars
<1>1. game.self \in Object /\ ~running /\ ~serving
  BY DEF GameSoFar, Playing
<1>2. \A p \in Object : obj'[p] = IF p = game.self THEN "freed" ELSE obj[p]
  BY DEF GameSoFar
<1>3. GameSoFar'
  <2>1. obj' \in [Object -> {"none", "live", "freed"}] /\ singleton' \in Object \cup {NULL}
    BY <1>1 DEF GameSoFar
  <2>2. game' = Playing /\ game'.pc = "playing"
    BY DEF Playing
  <2>3. ~running' /\ ~serving'
    BY <1>1
  <2> QED
    BY <2>1, <2>2, <2>3 DEF GameSoFar
<1>4. SingletonIsLive' /\ RunningCallsLive'
  BY <1>1, <1>2 DEF SingletonIsLive, RunningCallsLive, GameSoFar
<1>5. TerminatedIsDown'
  BY <1>1 DEF TerminatedIsDown
<1> QED
  BY <1>3, <1>4, <1>5

LEMMA InitKeeps ==
    ASSUME GodotObjectsInductive, NEW o \in Object, init(o)
    PROVE  GodotObjectsInductive'
<1> USE GodotObjectsAssumption DEF GodotObjectsInductive, init, objVars
<1>1. GameSoFar'
  BY DEF GameSoFar, Playing
<1>2. SingletonIsLive' /\ RunningCallsLive' /\ TerminatedIsDown'
  BY DEF SingletonIsLive, RunningCallsLive, TerminatedIsDown
<1> QED
  BY <1>1, <1>2

\* Both stores of the registration name the object under way, which is alive.
LEMMA SetEventCallbackKeeps ==
    GodotObjectsInductive /\ set_event_callback => GodotObjectsInductive'
<1> SUFFICES ASSUME GodotObjectsInductive, set_event_callback PROVE GodotObjectsInductive'
  OBVIOUS
<1> USE GodotObjectsAssumption DEF GodotObjectsInductive, set_event_callback, objVars
<1>1. game.self \in Object /\ obj[game.self] = "live" /\ module = "loaded"
  BY DEF GameSoFar, Playing
<1>2. userdata' = userdata \/ userdata' = game.self
  OBVIOUS
<1>3. game' = Playing \/ game' = [game EXCEPT !.pc = "half"]
  OBVIOUS
<1>4. GameSoFar'
  BY <1>1, <1>2, <1>3 DEF GameSoFar, Playing
<1>5. SingletonIsLive' /\ RunningCallsLive' /\ TerminatedIsDown'
  BY <1>1, <1>2 DEF SingletonIsLive, RunningCallsLive, TerminatedIsDown
<1> QED
  BY <1>4, <1>5

LEMMA ShutdownKeeps ==
    ASSUME GodotObjectsInductive, (\E o \in Object : shutdown(o)) \/ nearcade_shutdown
    PROVE  GodotObjectsInductive'
<1> USE GodotObjectsAssumption DEF GodotObjectsInductive, objVars, cbVars
<1>1. CASE \E o \in Object : shutdown(o)
  <2>1. GameSoFar'
    BY <1>1 DEF shutdown, GameSoFar, Playing
  <2>2. SingletonIsLive' /\ RunningCallsLive' /\ TerminatedIsDown'
    BY <1>1 DEF shutdown, SingletonIsLive, RunningCallsLive, TerminatedIsDown
  <2> QED
    BY <2>1, <2>2
<1>2. CASE nearcade_shutdown
  <2>1. GameSoFar'
    BY <1>2 DEF nearcade_shutdown, GameSoFar, Playing
  <2>2. SingletonIsLive' /\ RunningCallsLive'
    BY <1>2 DEF nearcade_shutdown, SingletonIsLive, RunningCallsLive
  <2>3. TerminatedIsDown'
    BY <1>2 DEF nearcade_shutdown, TerminatedIsDown, GameSoFar, Playing
  <2> QED
    BY <2>1, <2>2, <2>3
<1> QED
  BY <1>1, <1>2

LEMMA ThreadsKeep ==
    ASSUME GodotObjectsInductive, NEW t \in Thread,
           fire_event(t) \/ event_callback(t) \/ callback_returns(t)
    PROVE  GodotObjectsInductive'
<1> USE GodotObjectsAssumption
    DEF GodotObjectsInductive, fire_event, event_callback, callback_returns, objVars, cbVars
<1>1. UNCHANGED <<obj, singleton, module, running, serving, userdata, game>>
  OBVIOUS
<1>2. GameSoFar'
  BY <1>1 DEF GameSoFar, Enters
<1>3. SingletonIsLive' /\ RunningCallsLive' /\ TerminatedIsDown'
  BY <1>1 DEF SingletonIsLive, RunningCallsLive, TerminatedIsDown
<1> QED
  BY <1>2, <1>3

LEMMA GodotObjectsStep ==
    GodotObjectsInductive /\ [Next]_vars => GodotObjectsInductive'
<1> SUFFICES ASSUME GodotObjectsInductive, [Next]_vars PROVE GodotObjectsInductive'
  OBVIOUS
<1>1. CASE UNCHANGED vars
  BY <1>1 DEF vars, objVars, cbVars, GodotObjectsInductive, GameSoFar, SingletonIsLive,
              RunningCallsLive, TerminatedIsDown
<1>2. ASSUME NEW o \in Object, initialize_nearcade_module(o) \/ new(o)
      PROVE  GodotObjectsInductive'
  BY <1>2, ConstructKeeps DEF initialize_nearcade_module, new, cbVars
<1>3. ASSUME NEW o \in Object, delete(o)
      PROVE  GodotObjectsInductive'
  BY <1>3, DestructorKeeps DEF delete, objVars, cbVars
<1>4. CASE uninitialize_nearcade_module
  <2>1. singleton \in Object /\ obj[singleton] = "live"
    BY <1>4 DEF uninitialize_nearcade_module, GodotObjectsInductive, GameSoFar,
                SingletonIsLive
  <2> QED
    BY <1>4, <2>1, DestructorKeeps DEF uninitialize_nearcade_module, cbVars
<1> QED
  BY <1>1, <1>2, <1>3, <1>4, FreedKeeps, InitKeeps, SetEventCallbackKeeps, ShutdownKeeps,
     ThreadsKeep DEF Next

LEMMA GodotObjectsInvariance == Spec => []GodotObjectsInductive
BY GodotObjectsInit, GodotObjectsStep, PTL DEF Spec

\* ~NearcadeSDK resets the singleton exactly when it is the one that goes.
THEOREM SingletonStaysLive == Spec => []SingletonIsLive
<1>1. GodotObjectsInductive => SingletonIsLive
  BY DEF GodotObjectsInductive
<1> QED
  BY <1>1, GodotObjectsInvariance, PTL

\* The destructor of any object takes the SDK down before its memory goes, so a
\* running SDK never has a freed object registered.
THEOREM RunningSdkCallsLive == Spec => []RunningCallsLive
<1>1. GodotObjectsInductive => RunningCallsLive
  BY DEF GodotObjectsInductive
<1> QED
  BY <1>1, GodotObjectsInvariance, PTL

\* uninitialize_nearcade_module leaves no running SDK behind.
THEOREM TerminatedSdkIsDown == Spec => []TerminatedIsDown
<1>1. GodotObjectsInductive => TerminatedIsDown
  BY DEF GodotObjectsInductive
<1> QED
  BY <1>1, GodotObjectsInvariance, PTL

================================================================================
