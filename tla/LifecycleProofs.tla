---------------------------- MODULE LifecycleProofs ----------------------------
(***************************************************************************)
(* The lives of the SDK, for any number of them and any set of process     *)
(* ids: LifecycleInductive is an inductive invariant, so between two calls *)
(* of the engine everything is held or nothing is, the two records of a    *)
(* capture agree, and no child that a running SDK forked is lost.          *)
(***************************************************************************)
EXTENDS Lifecycle, TLAPS

\* The state before the first nearcade_init satisfies the invariant.
LEMMA LifecycleInit == Init => LifecycleInductive
<1> SUFFICES ASSUME Init PROVE LifecycleInductive
  OBVIOUS
<1>f. ~capturing /\ ~running /\ ~g_ff.active
  BY Zenon DEF Init, CaptureInit, Zeroed
<1>1. LifecycleTypeOK
  <2>1. capturing \in BOOLEAN /\ running \in BOOLEAN /\ g_ff \in {Zeroed}
    BY Zenon DEF Init, CaptureInit
  <2> QED
    BY <2>1, LifecycleAssumption
       DEF Init, CaptureInit, LifecycleTypeOK, CaptureTypeOK, Reaped, Stage, EngPc, Life
<1>2. NoChildLost /\ SignalsOwnChild
  BY <1>f DEF Init, CaptureInit, NoChildLost, SignalsOwnChild, Remembered, Ours, Reaped
<1>3. HeldSoFar /\ ContextSoFar /\ CaptureSoFar
  BY <1>f DEF Init, CaptureInit, HeldSoFar, ContextSoFar, CaptureSoFar, InLife
<1> QED
  BY <1>1, <1>2, <1>3 DEF LifecycleInductive

\* A step that leaves the child and its record alone keeps what is said of them.
LEMMA CaptureLeftAlone ==
    ASSUME CaptureTypeOK, NoChildLost, SignalsOwnChild,
           UNCHANGED <<capturing, g_ff, proc, stage, unwaited, early>>
    PROVE  CaptureTypeOK' /\ NoChildLost' /\ SignalsOwnChild'
<1>1. CaptureTypeOK'
  BY DEF CaptureTypeOK
<1>2. NoChildLost' /\ SignalsOwnChild'
  BY DEF NoChildLost, SignalsOwnChild, Remembered, Ours, Reaped
<1> QED
  BY <1>1, <1>2

\* lws_create_context succeeds or fails.
LEMMA CreateContextKeeps == LifecycleInductive /\ create_context => LifecycleInductive'
<1> SUFFICES ASSUME LifecycleInductive, create_context PROVE LifecycleInductive'
  OBVIOUS
<1> USE DEF LifecycleInductive
<1>u. UNCHANGED <<capturing, g_ff, proc, stage, unwaited, early>>
  BY DEF create_context, capVars
<1>b. running' <=> running
  BY Zenon DEF create_context
<1>c. CaptureTypeOK' /\ NoChildLost' /\ SignalsOwnChild'
  BY <1>u, CaptureLeftAlone DEF LifecycleTypeOK
<1>1. LifecycleTypeOK'
  BY <1>c, LifecycleAssumption
     DEF create_context, LifecycleTypeOK, EngPc, Life, ContextSoFar
<1>2. HeldSoFar'
  BY <1>b DEF create_context, HeldSoFar, Resource
<1>3. ContextSoFar'
  BY <1>b DEF create_context, ContextSoFar, InLife
<1>4. CaptureSoFar'
  BY <1>b, <1>u DEF create_context, CaptureSoFar, Remembered, ContextSoFar
<1> QED
  BY <1>c, <1>1, <1>2, <1>3, <1>4

\* A failed signaling_init gives everything back.
LEMMA UnwindKeeps == LifecycleInductive /\ unwind => LifecycleInductive'
<1> SUFFICES ASSUME LifecycleInductive, unwind PROVE LifecycleInductive'
  OBVIOUS
<1> USE DEF LifecycleInductive
<1>u. UNCHANGED <<capturing, g_ff, proc, stage, unwaited, early>>
  BY DEF unwind, capVars, StopNothing
<1>b. running' <=> running
  BY Zenon DEF unwind
<1>c. CaptureTypeOK' /\ NoChildLost' /\ SignalsOwnChild'
  BY <1>u, CaptureLeftAlone DEF LifecycleTypeOK
<1>1. LifecycleTypeOK'
  BY <1>c, LifecycleAssumption
     DEF unwind, LifecycleTypeOK, EngPc, Life, ContextSoFar
<1>2. HeldSoFar'
  BY <1>b DEF unwind, HeldSoFar, ContextSoFar, Resource
<1>3. ContextSoFar'
  BY <1>b DEF unwind, ContextSoFar, InLife
<1>4. CaptureSoFar'
  BY <1>b, <1>u DEF unwind, CaptureSoFar, Remembered, ContextSoFar
<1> QED
  BY <1>c, <1>1, <1>2, <1>3, <1>4

\* input_shutdown gives the KBM device back.
LEMMA InputShutdownKeeps == LifecycleInductive /\ input_shutdown => LifecycleInductive'
<1> SUFFICES ASSUME LifecycleInductive, input_shutdown PROVE LifecycleInductive'
  OBVIOUS
<1> USE DEF LifecycleInductive
<1>u. UNCHANGED <<capturing, g_ff, proc, stage, unwaited, early>>
  BY DEF input_shutdown, capVars
<1>b. running' <=> running
  BY Zenon DEF input_shutdown
<1>c. CaptureTypeOK' /\ NoChildLost' /\ SignalsOwnChild'
  BY <1>u, CaptureLeftAlone DEF LifecycleTypeOK
<1>1. LifecycleTypeOK'
  BY <1>c, LifecycleAssumption
     DEF input_shutdown, LifecycleTypeOK, EngPc, Life, ContextSoFar
<1>2. HeldSoFar'
  BY <1>b DEF input_shutdown, HeldSoFar, Resource
<1>3. ContextSoFar'
  BY <1>b DEF input_shutdown, ContextSoFar, InLife
<1>4. CaptureSoFar'
  BY <1>b, <1>u DEF input_shutdown, CaptureSoFar, Remembered, ContextSoFar
<1> QED
  BY <1>c, <1>1, <1>2, <1>3, <1>4

\* signaling_shutdown's critical section clears g_wsi.
LEMMA SignalingShutdownKeeps == LifecycleInductive /\ signaling_shutdown => LifecycleInductive'
<1> SUFFICES ASSUME LifecycleInductive, signaling_shutdown PROVE LifecycleInductive'
  OBVIOUS
<1> USE DEF LifecycleInductive
<1>u. UNCHANGED <<capturing, g_ff, proc, stage, unwaited, early>>
  BY DEF signaling_shutdown, capVars
<1>b. running' <=> running
  BY Zenon DEF signaling_shutdown
<1>c. CaptureTypeOK' /\ NoChildLost' /\ SignalsOwnChild'
  BY <1>u, CaptureLeftAlone DEF LifecycleTypeOK
<1>1. LifecycleTypeOK'
  BY <1>c, LifecycleAssumption
     DEF signaling_shutdown, LifecycleTypeOK, EngPc, Life, ContextSoFar
<1>2. HeldSoFar'
  BY <1>b DEF signaling_shutdown, HeldSoFar, Resource
<1>3. ContextSoFar'
  BY <1>b DEF signaling_shutdown, ContextSoFar, InLife
<1>4. CaptureSoFar'
  BY <1>b, <1>u DEF signaling_shutdown, CaptureSoFar, Remembered, ContextSoFar
<1> QED
  BY <1>c, <1>1, <1>2, <1>3, <1>4

\* The context and the mutexes go last.
LEMMA DestroyKeeps == LifecycleInductive /\ destroy => LifecycleInductive'
<1> SUFFICES ASSUME LifecycleInductive, destroy PROVE LifecycleInductive'
  OBVIOUS
<1> USE DEF LifecycleInductive
<1>u. UNCHANGED <<capturing, g_ff, proc, stage, unwaited, early>>
  BY DEF destroy, capVars
<1>b. running' <=> running
  BY Zenon DEF destroy
<1>c. CaptureTypeOK' /\ NoChildLost' /\ SignalsOwnChild'
  BY <1>u, CaptureLeftAlone DEF LifecycleTypeOK
<1>1. LifecycleTypeOK'
  BY <1>c, LifecycleAssumption
     DEF destroy, LifecycleTypeOK, EngPc, Life, ContextSoFar
<1>2. HeldSoFar'
  BY <1>b DEF destroy, HeldSoFar, ContextSoFar, Resource
<1>3. ContextSoFar'
  BY <1>b DEF destroy, ContextSoFar, InLife
<1>4. CaptureSoFar'
  BY <1>b, <1>u DEF destroy, CaptureSoFar, Remembered, ContextSoFar
<1> QED
  BY <1>c, <1>1, <1>2, <1>3, <1>4

\* No signaling thread, of this life or an earlier one, touches what is held.
LEMMA ThreadKeeps ==
    ASSUME NEW n \in Life, LifecycleInductive, ThreadSteps(n)
    PROVE  LifecycleInductive'
<1> USE DEF LifecycleInductive
<1>u. UNCHANGED <<capturing, g_ff, proc, stage, unwaited, early>>
  BY DEF ThreadSteps, thread_check, thread_call, thread_returns, capVars
<1>v. UNCHANGED <<eng, life, running, held, g_wsi, ctx, early>>
  BY DEF ThreadSteps, thread_check, thread_call, thread_returns
<1>c. CaptureTypeOK' /\ NoChildLost' /\ SignalsOwnChild'
  BY <1>u, CaptureLeftAlone DEF LifecycleTypeOK
<1>1. thread' \in [Life -> {"none", "check", "call", "service", "exited"}]
  BY DEF ThreadSteps, thread_check, thread_call, thread_returns, LifecycleTypeOK
<1>2. serving' \in [Life -> 0 .. MAX_LIVES]
  BY LifecycleAssumption
     DEF ThreadSteps, thread_check, thread_call, thread_returns, LifecycleTypeOK
<1>3. LifecycleTypeOK'
  BY <1>c, <1>v, <1>1, <1>2 DEF LifecycleTypeOK
<1>4. HeldSoFar' /\ ContextSoFar'
  BY <1>v DEF HeldSoFar, ContextSoFar, InLife
<1>5. CaptureSoFar'
  BY <1>u, <1>v DEF CaptureSoFar, Remembered
<1> QED
  BY <1>c, <1>3, <1>4, <1>5

\* nearcade_init up to signaling_init, whichever step fails.
LEMMA InitKeeps == LifecycleInductive /\ nearcade_init => LifecycleInductive'
<1> SUFFICES ASSUME LifecycleInductive, nearcade_init PROVE LifecycleInductive'
  OBVIOUS
<1> USE DEF LifecycleInductive
<1>b. ~running /\ ~running' /\ ~capturing' /\ eng = "app"
  BY Zenon DEF nearcade_init
<1>p. UNCHANGED <<proc, stage, unwaited, early>> /\ stage = "out"
  BY <1>b DEF nearcade_init, CaptureSoFar, LifecycleTypeOK, CaptureTypeOK
<1>z. ~Zeroed.active
  BY Zenon DEF Zeroed
<1>g. \/ g_ff' = Zeroed /\ ~g_ff'.active /\ eng' = "create_context"
      \/ g_ff' = g_ff /\ eng' = "app"
  BY <1>z DEF nearcade_init
<1>1. CaptureTypeOK'
  <2>1. capturing' \in BOOLEAN
    BY Zenon DEF nearcade_init
  <2> QED
    BY <2>1, <1>p DEF nearcade_init, CaptureTypeOK, LifecycleTypeOK
<1>2. NoChildLost' /\ SignalsOwnChild'
  <2>1. Ours' = Ours /\ Remembered' \subseteq Remembered
    BY <1>p, <1>g DEF Ours, Reaped, Remembered
  <2>2. Remembered \subseteq early
    BY <1>b DEF Remembered, CaptureSoFar
  <2> QED
    BY <2>1, <2>2, <1>p DEF NoChildLost, SignalsOwnChild
<1>3. LifecycleTypeOK'
  <2>1. \A step \in Fallible : Acquired(step) \ GivenBack(step) \subseteq Resource
    BY DEF Fallible, Acquired, GivenBack, Resource
  <2> QED
    BY <1>1, <2>1, LifecycleAssumption DEF nearcade_init, LifecycleTypeOK, EngPc
<1>4. HeldSoFar'
  <2>1. \A step \in Fallible : Acquired(step) \ GivenBack(step) = {}
    BY DEF Fallible, Acquired, GivenBack
  <2>2. held = {}
    BY <1>b DEF nearcade_init, HeldSoFar
  <2> QED
    BY <2>1, <2>2, <1>b DEF nearcade_init, HeldSoFar
<1>5. ContextSoFar'
  <2>1. life' \in Life
    BY LifecycleAssumption DEF nearcade_init, LifecycleTypeOK, Life
  <2> QED
    BY <2>1, <1>b DEF nearcade_init, ContextSoFar, InLife
<1>6. CaptureSoFar'
  BY <1>b, <1>p, <1>g DEF CaptureSoFar, Remembered
<1> QED
  BY <1>2, <1>3, <1>4, <1>5, <1>6

\* pthread_create succeeds, or the context is destroyed again.
LEMMA CreateThreadKeeps == LifecycleInductive /\ create_thread => LifecycleInductive'
<1> SUFFICES ASSUME LifecycleInductive, create_thread PROVE LifecycleInductive'
  OBVIOUS
<1> USE DEF LifecycleInductive
<1>u. UNCHANGED <<capturing, g_ff, proc, stage, unwaited, early>>
  BY DEF create_thread, capVars
<1>n. ~running /\ ~capturing /\ ~g_ff.active /\ life \in Life /\ held = Resource
      /\ g_wsi = life /\ ctx = {life} /\ stage = "out"
  BY DEF create_thread, ContextSoFar, CaptureSoFar, HeldSoFar, InLife, LifecycleTypeOK,
     CaptureTypeOK
<1>c. CaptureTypeOK' /\ NoChildLost' /\ SignalsOwnChild'
  BY <1>u, CaptureLeftAlone DEF LifecycleTypeOK
<1>1. (running' /\ eng' = "app" /\ UNCHANGED <<g_wsi, ctx>>)
      \/ (~running' /\ eng' = "unwind" /\ ctx' = {} /\ g_wsi' = 0)
  BY <1>n DEF create_thread
<1>2. LifecycleTypeOK'
  <2>1. running' \in BOOLEAN
    BY Zenon DEF create_thread, LifecycleTypeOK
  <2> QED
    BY <1>c, <1>n, <2>1, LifecycleAssumption DEF create_thread, LifecycleTypeOK, EngPc, Life
<1>3. HeldSoFar'
  BY <1>1, <1>n DEF create_thread, HeldSoFar
<1>4. ContextSoFar'
  BY <1>1, <1>n DEF create_thread, ContextSoFar, InLife
<1>5. CaptureSoFar'
  BY <1>1, <1>n, <1>u DEF CaptureSoFar, Remembered
<1> QED
  BY <1>c, <1>2, <1>3, <1>4, <1>5

\* While only the child, its record and capture_stop move, the rest stays true.
LEMMA LifeLeftAlone ==
    ASSUME LifecycleInductive, CaptureTypeOK', early' \subseteq Pid,
           UNCHANGED <<eng, life, running, held, g_wsi, ctx, thread, serving>>
    PROVE  LifecycleTypeOK' /\ HeldSoFar' /\ ContextSoFar'
<1> USE DEF LifecycleInductive
<1>1. LifecycleTypeOK'
  BY DEF LifecycleTypeOK
<1>2. HeldSoFar'
  BY DEF HeldSoFar
<1>3. ContextSoFar'
  BY DEF ContextSoFar, InLife
<1> QED
  BY <1>1, <1>2, <1>3

\* A call that changes nothing, such as a second nearcade_shutdown.
LEMMA StutterKeeps == LifecycleInductive /\ UNCHANGED vars => LifecycleInductive'
<1> SUFFICES ASSUME LifecycleInductive, UNCHANGED vars PROVE LifecycleInductive'
  OBVIOUS
<1> USE DEF LifecycleInductive
<1>1. CaptureTypeOK' /\ NoChildLost' /\ SignalsOwnChild'
  BY CaptureLeftAlone DEF vars, LifecycleTypeOK
<1>2. LifecycleTypeOK' /\ HeldSoFar' /\ ContextSoFar'
  BY <1>1, LifeLeftAlone DEF vars, LifecycleTypeOK
<1>3. CaptureSoFar'
  BY DEF vars, CaptureSoFar, Remembered
<1> QED
  BY <1>1, <1>2, <1>3

\* While capture_stop runs there is a child's id in g_ff.
LEMMA Stopping ==
    ASSUME LifecycleInductive, stage # "out"
    PROVE  g_ff.active /\ g_ff.pid \in Pid
<1>1. g_ff.active
  BY DEF LifecycleInductive, CaptureSoFar
<1>2. ~Zeroed.active
  BY Zenon DEF Zeroed
<1>3. g_ff \in [pid : Pid, active : {TRUE}] \cup {Zeroed}
  BY DEF LifecycleInductive, LifecycleTypeOK, CaptureTypeOK
<1> QED
  BY <1>1, <1>2, <1>3

\* The id that is remembered is a process id.
LEMMA RememberedIsChild ==
    ASSUME LifecycleInductive
    PROVE  Remembered \subseteq Pid
<1>1. ~Zeroed.active
  BY Zenon DEF Zeroed
<1>2. g_ff \in [pid : Pid, active : {TRUE}] \cup {Zeroed}
  BY DEF LifecycleInductive, LifecycleTypeOK, CaptureTypeOK
<1> QED
  BY <1>1, <1>2 DEF Remembered

\* The child dies at any moment, and the engine may reap it.
LEMMA ChildKeeps ==
    ASSUME NEW p \in Pid, LifecycleInductive, ChildExits(p) \/ EngineReaps(p),
           UNCHANGED lifeVars
    PROVE  LifecycleInductive'
<1> USE DEF LifecycleInductive
<1>v. UNCHANGED <<eng, life, running, held, g_wsi, ctx, thread, serving, early>>
  BY DEF lifeVars
<1>u. UNCHANGED <<capturing, g_ff, stage, unwaited>>
  BY DEF ChildExits, EngineReaps
<1>t. proc \in [Pid -> Alive \cup {"zombie"} \cup Reaped]
  BY DEF LifecycleTypeOK, CaptureTypeOK
<1>p. \/ proc[p] \in Alive /\ proc' = [proc EXCEPT ![p] = "zombie"]
      \/ proc[p] = "zombie" /\ proc' = [proc EXCEPT ![p] = "taken"]
  BY DEF ChildExits, EngineReaps
<1>1. CaptureTypeOK'
  <2>1. proc' \in [Pid -> Alive \cup {"zombie"} \cup Reaped]
    BY <1>p, <1>t DEF Reaped
  <2> QED
    BY <1>u, <2>1 DEF CaptureTypeOK, LifecycleTypeOK
<1>o. Ours' \subseteq Ours /\ \A q \in Pid : proc'[q] = "free" => proc[q] = "free"
  BY <1>p, <1>t DEF Ours, Alive, Reaped
<1>2. NoChildLost'
  <2>1. Remembered' = Remembered
    BY <1>u DEF Remembered
  <2>2. \A q \in unwaited' \cap Ours' : proc'[q] \in {"killed", "zombie"}
    BY <1>p, <1>t, <1>u, <1>o DEF NoChildLost, Ours, Reaped, Alive
  <2> QED
    BY <1>o, <1>u, <1>v, <2>1, <2>2 DEF NoChildLost
<1>3. SignalsOwnChild'
  <2>1. Remembered' = Remembered /\ Remembered \subseteq Pid
    BY <1>u, RememberedIsChild DEF Remembered
  <2> QED
    BY <1>o, <2>1 DEF SignalsOwnChild
<1>4. CaptureSoFar'
  <2>1. stage' = "waited" => g_ff'.pid \in unwaited' \/ proc'[g_ff'.pid] \in Reaped
    BY <1>p, <1>t, <1>u, Stopping DEF CaptureSoFar, Alive, Reaped
  <2>2. stage' = "killed" => proc'[g_ff'.pid] \in {"killed", "zombie"} \cup Reaped
    BY <1>p, <1>t, <1>u, Stopping DEF CaptureSoFar, Alive, Reaped
  <2> QED
    BY <1>u, <1>v, <2>1, <2>2 DEF CaptureSoFar, Remembered
<1>5. early' \subseteq Pid
  BY <1>v DEF LifecycleTypeOK
<1> QED
  BY <1>v, <1>1, <1>2, <1>3, <1>4, <1>5, LifeLeftAlone

\* waitpid comes back with the child, or finds it gone.
LEMMA WaitedKeeps ==
    ASSUME LifecycleInductive, Waited, stage \notin {"out", "waited"},
           UNCHANGED <<capturing, g_ff>>, UNCHANGED lifeVars
    PROVE  LifecycleInductive'
<1> USE DEF LifecycleInductive
<1>v. UNCHANGED <<eng, life, running, held, g_wsi, ctx, thread, serving, early>>
  BY DEF lifeVars
<1>g. g_ff.active /\ g_ff.pid \in Pid
  BY Stopping
<1>w. /\ stage' = "waited" /\ unwaited' = unwaited
      /\ proc' = [proc EXCEPT ![g_ff.pid] = "free"]
  BY DEF Waited
<1>t. proc \in [Pid -> Alive \cup {"zombie"} \cup Reaped]
  BY DEF LifecycleTypeOK, CaptureTypeOK
<1>1. CaptureTypeOK'
  <2>1. proc' \in [Pid -> Alive \cup {"zombie"} \cup Reaped]
    BY <1>w, <1>t DEF Reaped
  <2> QED
    BY <1>w, <2>1 DEF CaptureTypeOK, LifecycleTypeOK, Stage
<1>o. Ours' = Ours \ {g_ff.pid}
  BY <1>w, <1>g, <1>t DEF Ours, Reaped
<1>r. Remembered = {g_ff.pid} /\ Remembered' = {}
  BY <1>g, <1>w DEF Remembered
<1>2. NoChildLost' /\ SignalsOwnChild'
  <2>1. \A q \in Ours' : proc'[q] = proc[q]
    BY <1>o, <1>w, <1>t DEF Ours, Reaped
  <2> QED
    BY <1>o, <1>r, <1>w, <1>v, <2>1 DEF NoChildLost, SignalsOwnChild
<1>3. proc'[g_ff'.pid] = "free"
  BY <1>w, <1>g, <1>t
<1>4. CaptureSoFar'
  BY <1>w, <1>v, <1>3 DEF CaptureSoFar, Remembered, Reaped
<1>5. early' \subseteq Pid
  BY <1>v DEF LifecycleTypeOK
<1> QED
  BY <1>v, <1>1, <1>2, <1>4, <1>5, LifeLeftAlone

\* capture_stop polls again, or sends SIGKILL: the child is still the same.
LEMMA StillStopping ==
    ASSUME LifecycleInductive, UNCHANGED <<capturing, g_ff, unwaited>>, UNCHANGED lifeVars,
           stage \in {"termed", "slept", "stubborn"},
           \/ stage' \in {"slept", "stubborn"} /\ UNCHANGED proc
           \/ stage' = "killed" /\ Kill("killed")
    PROVE  LifecycleInductive'
<1> USE DEF LifecycleInductive
<1>v. UNCHANGED <<eng, life, running, held, g_wsi, ctx, thread, serving, early>>
  BY DEF lifeVars
<1>g. g_ff.active /\ g_ff.pid \in Pid
  BY Stopping
<1>t. proc \in [Pid -> Alive \cup {"zombie"} \cup Reaped]
  BY DEF LifecycleTypeOK, CaptureTypeOK
<1>p. proc' = proc \/ proc' = [proc EXCEPT ![g_ff.pid] = IF @ \in Alive THEN "killed" ELSE @]
  BY DEF Kill
<1>q. \A q \in Pid : \/ proc'[q] = proc[q]
                     \/ proc'[q] = "killed" /\ proc[q] \in Alive
  BY <1>p, <1>t
<1>1. CaptureTypeOK'
  <2>1. proc' \in [Pid -> Alive \cup {"zombie"} \cup Reaped]
    BY <1>p, <1>t, <1>g DEF Alive
  <2> QED
    BY <2>1 DEF CaptureTypeOK, LifecycleTypeOK, Stage
<1>o. Ours' = Ours /\ Remembered' = Remembered
  BY <1>q DEF Ours, Reaped, Alive, Remembered
<1>2. NoChildLost' /\ SignalsOwnChild'
  <2>1. \A q \in unwaited' \cap Ours' : proc'[q] \in {"killed", "zombie"}
    BY <1>o, <1>q DEF NoChildLost, Ours, Reaped
  <2> QED
    BY <1>o, <1>q, <1>v, <2>1, RememberedIsChild DEF NoChildLost, SignalsOwnChild
<1>3. stage' = "killed" => proc'[g_ff'.pid] \in {"killed", "zombie"} \cup Reaped
  BY <1>t, <1>g DEF Kill, Alive
<1>4. CaptureSoFar'
  BY <1>v, <1>3, <1>g DEF CaptureSoFar, Remembered
<1>5. early' \subseteq Pid
  BY <1>v DEF LifecycleTypeOK
<1> QED
  BY <1>v, <1>1, <1>2, <1>4, <1>5, LifeLeftAlone

\* capture_stop between its system calls.
LEMMA StopKeeps ==
    ASSUME LifecycleInductive, StopSteps, UNCHANGED lifeVars
    PROVE  LifecycleInductive'
<1>1. CASE StopPoll
  <2>1. CASE Waited
    BY <1>1, <2>1, WaitedKeeps DEF StopPoll
  <2>2. CASE UNCHANGED <<proc, unwaited>>
             /\ stage' = IF stage = "termed" THEN "slept" ELSE "stubborn"
    BY <1>1, <2>2, StillStopping DEF StopPoll
  <2> QED
    BY <1>1, <2>1, <2>2 DEF StopPoll
<1>2. CASE StopKill
  BY <1>2, StillStopping DEF StopKill
<1>3. CASE StopWait
  BY <1>3, WaitedKeeps DEF StopWait
<1> QED
  BY <1>1, <1>2, <1>3 DEF StopSteps

\* The blocking waitpid is interrupted: the child has been killed.
LEMMA InterruptedKeeps ==
    ASSUME LifecycleInductive, StopInterrupted, UNCHANGED lifeVars
    PROVE  LifecycleInductive'
<1> USE DEF LifecycleInductive
<1>v. UNCHANGED <<eng, life, running, held, g_wsi, ctx, thread, serving, early>>
  BY DEF lifeVars
<1>u. /\ stage = "killed" /\ stage' = "waited" /\ unwaited' = unwaited \cup {g_ff.pid}
      /\ UNCHANGED <<capturing, g_ff, proc>>
  BY DEF StopInterrupted
<1>g. g_ff.active /\ g_ff.pid \in Pid
  BY <1>u, Stopping
<1>1. CaptureTypeOK'
  BY <1>u, <1>g DEF CaptureTypeOK, LifecycleTypeOK, Stage
<1>o. Ours' = Ours /\ Remembered = {g_ff.pid} /\ Remembered' = {}
  BY <1>u, <1>g DEF Ours, Reaped, Remembered
<1>2. NoChildLost' /\ SignalsOwnChild'
  <2>1. g_ff.pid \in Ours => proc[g_ff.pid] \in {"killed", "zombie"}
    BY <1>u DEF CaptureSoFar, Ours, Reaped
  <2> QED
    BY <1>o, <1>u, <1>v, <2>1 DEF NoChildLost, SignalsOwnChild
<1>4. CaptureSoFar'
  BY <1>u, <1>v DEF CaptureSoFar, Remembered
<1>5. early' \subseteq Pid
  BY <1>v DEF LifecycleTypeOK
<1> QED
  BY <1>v, <1>1, <1>2, <1>4, <1>5, LifeLeftAlone

\* capture_stop is entered with a child to stop.
LEMMA StopTermKeeps ==
    ASSUME LifecycleInductive, StopTerm, early' = early
    PROVE  /\ NoChildLost' /\ SignalsOwnChild' /\ g_ff.active
           /\ stage = "out" /\ stage' = "termed" /\ UNCHANGED <<g_ff, unwaited>>
           /\ proc' \in [Pid -> Alive \cup {"zombie"} \cup Reaped]
<1> USE DEF LifecycleInductive
<1>a. /\ stage = "out" /\ stage' = "termed" /\ g_ff.active /\ UNCHANGED <<g_ff, unwaited>>
      /\ Kill("termed")
  BY DEF StopTerm
<1>t. proc \in [Pid -> Alive \cup {"zombie"} \cup Reaped]
  BY DEF LifecycleTypeOK, CaptureTypeOK
<1>g. g_ff.pid \in Pid
  <2>1. ~Zeroed.active
    BY Zenon DEF Zeroed
  <2> QED
    BY <1>a, <2>1 DEF LifecycleTypeOK, CaptureTypeOK
<1>1. Ours' = Ours
  BY <1>a, <1>g, <1>t DEF Ours, Reaped, Kill, Alive
<1>2. Remembered' = Remembered /\ Remembered = {g_ff.pid}
  BY <1>a DEF Remembered
<1>3. g_ff.pid \notin unwaited
  BY <1>2 DEF CaptureSoFar
<1>4. NoChildLost' /\ SignalsOwnChild'
  <2>1. \A q \in Pid : q # g_ff.pid => proc'[q] = proc[q]
    BY <1>a, <1>t DEF Kill
  <2>2. \A q \in unwaited' \cap Ours' : proc'[q] \in {"killed", "zombie"}
    BY <1>a, <1>1, <1>3, <2>1 DEF NoChildLost, Ours, Reaped
  <2> QED
    BY <1>a, <1>g, <1>t, <1>1, <1>2, <2>2 DEF NoChildLost, SignalsOwnChild, Kill
<1>5. proc' \in [Pid -> Alive \cup {"zombie"} \cup Reaped]
  BY <1>a, <1>g, <1>t DEF Kill, Alive
<1> QED
  BY <1>a, <1>4, <1>5

\* capture_stop returns: the child is gone, or killed and not waited for.
LEMMA StopClearKeeps ==
    ASSUME LifecycleInductive, StopClear, early' = early
    PROVE  /\ NoChildLost' /\ SignalsOwnChild' /\ ~g_ff'.active /\ g_ff' = Zeroed
           /\ stage' = "out" /\ UNCHANGED <<proc, unwaited>>
<1> USE DEF LifecycleInductive
<1>1. /\ g_ff' = Zeroed /\ stage = "waited" /\ stage' = "out"
      /\ UNCHANGED <<proc, unwaited>>
  BY DEF StopClear
<1>2. ~Zeroed.active
  BY Zenon DEF Zeroed
<1>3. Remembered = {} /\ Remembered' = {} /\ Ours' = Ours
  BY <1>1, <1>2 DEF Remembered, Ours, Reaped
<1> QED
  BY <1>1, <1>2, <1>3 DEF NoChildLost, SignalsOwnChild

\* nearcade_stop_capture sends SIGTERM, or finds its flag cleared.
LEMMA StopCaptureKeeps == LifecycleInductive /\ stop_capture => LifecycleInductive'
<1> SUFFICES ASSUME LifecycleInductive, stop_capture, capturing PROVE LifecycleInductive'
  BY StutterKeeps DEF stop_capture
<1> USE DEF LifecycleInductive
<1>d. /\ eng = "app" /\ StopTerm /\ eng' = "stop_capture"
      /\ UNCHANGED <<capturing, life, running, held, g_wsi, ctx, thread, serving, early>>
  BY Zenon DEF stop_capture
<1>b. (running' <=> running) /\ capturing' /\ eng = "app" /\ eng' = "stop_capture"
  BY <1>d, Zenon
<1>v. UNCHANGED <<life, held, g_wsi, ctx, thread, serving, early>> /\ StopTerm
  BY <1>d
<1>s. /\ NoChildLost' /\ SignalsOwnChild' /\ g_ff.active
      /\ stage' = "termed" /\ UNCHANGED <<g_ff, unwaited>>
      /\ proc' \in [Pid -> Alive \cup {"zombie"} \cup Reaped]
  BY <1>v, StopTermKeeps
<1>1. CaptureTypeOK'
  <2>1. capturing' \in BOOLEAN
    BY <1>d, Zenon DEF LifecycleTypeOK, CaptureTypeOK
  <2> QED
    BY <1>s, <2>1 DEF LifecycleTypeOK, CaptureTypeOK, Stage
<1>2. LifecycleTypeOK'
  <2>1. running' \in BOOLEAN
    BY <1>d, Zenon DEF LifecycleTypeOK
  <2> QED
    BY <1>1, <1>b, <1>v, <2>1 DEF LifecycleTypeOK, EngPc
<1>3. HeldSoFar'
  BY <1>b, <1>v DEF HeldSoFar
<1>4. ContextSoFar'
  BY <1>b, <1>v DEF ContextSoFar, InLife
<1>5. CaptureSoFar'
  BY <1>s, <1>b, <1>v DEF CaptureSoFar, Remembered
<1> QED
  BY <1>s, <1>2, <1>3, <1>4, <1>5

\* nearcade_stop_capture returns.
LEMMA StopCaptureReturnsKeeps ==
    LifecycleInductive /\ stop_capture_returns => LifecycleInductive'
<1> SUFFICES ASSUME LifecycleInductive, stop_capture_returns PROVE LifecycleInductive'
  OBVIOUS
<1> USE DEF LifecycleInductive
<1>v. UNCHANGED <<life, held, g_wsi, ctx, thread, serving, early>> /\ StopClear
  BY DEF stop_capture_returns
<1>s. /\ NoChildLost' /\ SignalsOwnChild' /\ ~g_ff'.active /\ g_ff' = Zeroed
      /\ stage' = "out" /\ UNCHANGED <<proc, unwaited>>
  BY <1>v, StopClearKeeps
<1>b. (running' <=> running) /\ ~capturing' /\ eng = "stop_capture" /\ eng' = "app"
  BY Zenon DEF stop_capture_returns
<1>1. CaptureTypeOK'
  <2>1. capturing' \in BOOLEAN
    BY Zenon DEF stop_capture_returns
  <2> QED
    BY <1>s, <2>1 DEF LifecycleTypeOK, CaptureTypeOK, Stage
<1>2. LifecycleTypeOK'
  <2>1. running' \in BOOLEAN
    BY Zenon DEF stop_capture_returns, LifecycleTypeOK
  <2> QED
    BY <1>1, <1>b, <1>v, <2>1 DEF LifecycleTypeOK, EngPc
<1>3. HeldSoFar'
  BY <1>b, <1>v DEF HeldSoFar
<1>4. ContextSoFar'
  BY <1>b, <1>v DEF ContextSoFar, InLife
<1>5. CaptureSoFar'
  BY <1>s, <1>b DEF CaptureSoFar, Remembered
<1> QED
  BY <1>s, <1>2, <1>3, <1>4, <1>5

\* nearcade_shutdown clears the flags and shuts webrtc.cpp down.
LEMMA ShutdownBeginsKeeps ==
    LifecycleInductive /\ nearcade_shutdown => LifecycleInductive'
<1> SUFFICES ASSUME LifecycleInductive, nearcade_shutdown, running PROVE LifecycleInductive'
  BY StutterKeeps DEF nearcade_shutdown
<1> USE DEF LifecycleInductive
<1>b. ~running' /\ ~capturing' /\ eng = "app" /\ eng' = "shutdown"
  BY Zenon DEF nearcade_shutdown
<1>v. UNCHANGED <<life, g_wsi, ctx, thread, serving, early, g_ff, proc, stage, unwaited>>
      /\ held' = held \ {"webrtc"}
  BY DEF nearcade_shutdown
<1>1. CaptureTypeOK'
  <2>1. capturing' \in BOOLEAN
    BY Zenon DEF nearcade_shutdown
  <2> QED
    BY <1>v, <2>1 DEF LifecycleTypeOK, CaptureTypeOK
<1>2. LifecycleTypeOK'
  <2>1. running' \in BOOLEAN
    BY Zenon DEF nearcade_shutdown
  <2> QED
    BY <1>1, <1>b, <1>v, <2>1 DEF LifecycleTypeOK, EngPc
<1>3. NoChildLost' /\ SignalsOwnChild'
  BY <1>v DEF NoChildLost, SignalsOwnChild, Remembered, Ours, Reaped
<1>4. HeldSoFar'
  BY <1>b, <1>v DEF HeldSoFar
<1>5. ContextSoFar'
  BY <1>b, <1>v DEF ContextSoFar, InLife
<1>6. CaptureSoFar'
  BY <1>b, <1>v DEF CaptureSoFar, Remembered
<1> QED
  BY <1>2, <1>3, <1>4, <1>5, <1>6

\* capture_shutdown inside nearcade_shutdown, with a child to stop or none.
LEMMA CaptureShutdownKeeps ==
    LifecycleInductive /\ capture_shutdown => LifecycleInductive'
<1> SUFFICES ASSUME LifecycleInductive, capture_shutdown PROVE LifecycleInductive'
  OBVIOUS
<1> USE DEF LifecycleInductive
<1>b. (running' <=> running) /\ (capturing' <=> capturing) /\ eng = "shutdown"
  BY Zenon DEF capture_shutdown
<1>t. running' \in BOOLEAN /\ capturing' \in BOOLEAN
  BY Zenon DEF capture_shutdown, LifecycleTypeOK, CaptureTypeOK
<1>v. UNCHANGED <<life, held, g_wsi, ctx, thread, serving, early>>
  BY DEF capture_shutdown
<1>n. ~running /\ ~capturing
  BY <1>b DEF ContextSoFar, CaptureSoFar
<1>e. eng' \in {"shutdown", "capture_stopped"}
  BY <1>b DEF capture_shutdown
<1>3. HeldSoFar'
  BY <1>b, <1>v, <1>e DEF HeldSoFar
<1>4. ContextSoFar'
  BY <1>b, <1>v, <1>e, <1>n DEF ContextSoFar, InLife
<1>c. CaptureTypeOK' /\ NoChildLost' /\ SignalsOwnChild' /\ CaptureSoFar'
  <2>1. CASE StopTerm /\ UNCHANGED eng
    <3>1. /\ NoChildLost' /\ SignalsOwnChild' /\ g_ff.active
          /\ stage = "out" /\ stage' = "termed" /\ UNCHANGED <<g_ff, unwaited>>
          /\ proc' \in [Pid -> Alive \cup {"zombie"} \cup Reaped]
      BY <2>1, <1>v, StopTermKeeps
    <3>2. CaptureTypeOK'
      BY <1>t, <3>1 DEF LifecycleTypeOK, CaptureTypeOK, Stage
    <3>3. CaptureSoFar'
      BY <1>b, <1>n, <1>v, <2>1, <3>1 DEF CaptureSoFar, Remembered
    <3> QED
      BY <3>1, <3>2, <3>3
  <2>2. CASE StopNothing /\ eng' = "capture_stopped"
    <3>1. stage = "out" /\ ~g_ff.active /\ UNCHANGED <<g_ff, proc, stage, unwaited>>
      BY <2>2 DEF StopNothing
    <3>2. CaptureTypeOK' /\ NoChildLost' /\ SignalsOwnChild'
      BY <1>t, <1>v, <3>1 DEF LifecycleTypeOK, CaptureTypeOK, NoChildLost,
         SignalsOwnChild, Remembered, Ours
    <3>3. CaptureSoFar'
      BY <1>b, <1>n, <1>v, <2>2, <3>1 DEF CaptureSoFar, Remembered
    <3> QED
      BY <3>2, <3>3
  <2>3. CASE StopClear /\ eng' = "capture_stopped"
    <3>1. /\ NoChildLost' /\ SignalsOwnChild' /\ ~g_ff'.active /\ g_ff' = Zeroed
          /\ stage' = "out" /\ UNCHANGED <<proc, unwaited>>
      BY <2>3, <1>v, StopClearKeeps
    <3>2. CaptureTypeOK'
      BY <1>t, <3>1 DEF LifecycleTypeOK, CaptureTypeOK, Stage
    <3>3. CaptureSoFar'
      BY <1>b, <1>n, <2>3, <3>1 DEF CaptureSoFar, Remembered
    <3> QED
      BY <3>1, <3>2, <3>3
  <2> QED
    BY <2>1, <2>2, <2>3 DEF capture_shutdown
<1>2. LifecycleTypeOK'
  BY <1>c, <1>v, <1>e, <1>t DEF LifecycleTypeOK, EngPc
<1> QED
  BY <1>c, <1>2, <1>3, <1>4

\* nearcade_start_capture forks, fails to, or finds a capture running.
LEMMA StartCaptureKeeps == LifecycleInductive /\ start_capture => LifecycleInductive'
<1> SUFFICES ASSUME LifecycleInductive, start_capture PROVE LifecycleInductive'
  OBVIOUS
<1> USE DEF LifecycleInductive
<1>v. UNCHANGED <<eng, life, running, held, g_wsi, ctx, thread, serving>> /\ eng = "app"
  BY DEF start_capture
<1>s. stage = "out" /\ UNCHANGED stage
  BY DEF start_capture, nearcade_start_capture
<1>t. proc \in [Pid -> Alive \cup {"zombie"} \cup Reaped] /\ unwaited \subseteq Pid
      /\ early \subseteq Pid
  BY DEF LifecycleTypeOK, CaptureTypeOK
<1>1. CASE UNCHANGED <<capturing, g_ff, proc, unwaited>>
  <2>1. early' = early
    BY <1>1 DEF start_capture
  <2>2. CaptureTypeOK' /\ NoChildLost' /\ SignalsOwnChild'
    BY <1>1, <1>s, <2>1, CaptureLeftAlone DEF LifecycleTypeOK
  <2>3. CaptureSoFar'
    BY <1>1, <1>s, <1>v, <2>1 DEF CaptureSoFar, Remembered
  <2> QED
    BY <2>1, <2>2, <2>3, <1>t, <1>v, LifeLeftAlone
<1>2. CASE g_ff.active /\ capturing' = TRUE /\ UNCHANGED <<g_ff, proc, unwaited>>
  <2>1. early' = early
    BY <1>2 DEF start_capture
  <2>2. capturing' /\ capturing' \in BOOLEAN
    BY <1>2, Zenon
  <2>3. CaptureTypeOK'
    BY <1>2, <1>s, <2>2 DEF LifecycleTypeOK, CaptureTypeOK
  <2>4. NoChildLost' /\ SignalsOwnChild'
    BY <1>2, <1>s, <2>1 DEF NoChildLost, SignalsOwnChild, Remembered, Ours, Reaped
  <2>5. CaptureSoFar'
    BY <1>2, <1>s, <1>v, <2>1, <2>2 DEF CaptureSoFar, Remembered
  <2> QED
    BY <2>1, <2>3, <2>4, <2>5, <1>t, <1>v, LifeLeftAlone
<1>3. CASE ~g_ff.active /\ capturing' = TRUE /\ \E p \in Pid : Fork(p)
  <2> PICK p \in Pid : Fork(p)
    BY <1>3
  <2>f. /\ proc[p] \in Reaped /\ proc' = [proc EXCEPT ![p] = "running"]
        /\ g_ff' = [pid |-> p, active |-> TRUE] /\ unwaited' = unwaited \ {p}
    BY DEF Fork
  <2>1. capturing' /\ g_ff'.active /\ g_ff'.pid = p
    BY <1>3, <2>f
  <2>e. early' = IF running THEN early \ {p} ELSE early \cup {p}
    <3>1. proc'[p] = "running" /\ proc' # proc
      BY <2>f, <1>t DEF Reaped
    <3> QED
      BY <3>1, <2>1 DEF start_capture
  <2>2. CaptureTypeOK'
    <3>1. capturing' \in BOOLEAN
      BY <1>3, Zenon
    <3>2. g_ff' \in [pid : Pid, active : {TRUE}]
      BY <2>f
    <3>3. proc' \in [Pid -> Alive \cup {"zombie"} \cup Reaped]
      BY <2>f, <1>t DEF Alive
    <3> QED
      BY <3>1, <3>2, <3>3, <2>f, <1>s, <1>t DEF LifecycleTypeOK, CaptureTypeOK
  <2>3. NoChildLost' /\ SignalsOwnChild'
    <3>1. Ours' = Ours \cup {p} /\ p \notin Ours /\ \A q \in Ours : proc'[q] = proc[q]
      BY <2>f, <1>t DEF Ours, Reaped
    <3>2. Remembered = {} /\ Remembered' = {p}
      BY <1>3, <2>1, <1>s DEF Remembered
    <3>3. Ours' \ (early' \cup unwaited') \subseteq Remembered'
      BY <2>f, <2>e, <3>1, <3>2 DEF NoChildLost
    <3>4. \A q \in unwaited' \cap Ours' : proc'[q] \in {"killed", "zombie"}
      BY <2>f, <3>1 DEF NoChildLost
    <3> QED
      BY <2>f, <1>t, <3>1, <3>2, <3>3, <3>4 DEF NoChildLost, SignalsOwnChild
  <2>4. CaptureSoFar'
    BY <2>1, <2>e, <2>f, <1>s, <1>v DEF CaptureSoFar, Remembered
  <2>5. early' \subseteq Pid
    BY <2>e, <1>t
  <2> QED
    BY <2>2, <2>3, <2>4, <2>5, <1>v, LifeLeftAlone
<1> QED
  BY <1>1, <1>2, <1>3 DEF start_capture, nearcade_start_capture, capture_start

\* Every step preserves the invariant.
LEMMA LifecycleStep == LifecycleInductive /\ [Next]_vars => LifecycleInductive'
<1> SUFFICES ASSUME LifecycleInductive, [Next]_vars PROVE LifecycleInductive'
  OBVIOUS
<1>1. CASE nearcade_init
  BY <1>1, InitKeeps
<1>2. CASE start_capture
  BY <1>2, StartCaptureKeeps
<1>3. CASE stop_capture
  BY <1>3, StopCaptureKeeps
<1>4. CASE nearcade_shutdown
  BY <1>4, ShutdownBeginsKeeps
<1>5. CASE CallSteps
  BY <1>5, CreateContextKeeps, CreateThreadKeeps, UnwindKeeps, StopCaptureReturnsKeeps,
     CaptureShutdownKeeps, InputShutdownKeeps, SignalingShutdownKeeps, DestroyKeeps,
     StopKeeps DEF CallSteps
<1>6. CASE Processes
  BY <1>6, ChildKeeps, InterruptedKeeps DEF Processes
<1>7. CASE \E n \in Life : ThreadSteps(n)
  BY <1>7, ThreadKeeps
<1>8. CASE UNCHANGED vars
  BY <1>8, StutterKeeps
<1> QED
  BY <1>1, <1>2, <1>3, <1>4, <1>5, <1>6, <1>7, <1>8 DEF Next

\* The invariant of the lives of the SDK, whatever their number and however the
\* steps of nearcade_init, the child process and the old threads behave.
THEOREM LifecycleInvariant == Safety => []LifecycleInductive
BY LifecycleInit, LifecycleStep, PTL DEF Safety

\* The state of all lives keeps its types: the capture record is a child's or
\* zeroed, a context or a thread belongs to a life that has begun.
THEOREM LifecycleTypes == Safety => []LifecycleTypeOK
<1>1. LifecycleInductive => LifecycleTypeOK
  BY DEF LifecycleInductive
<1> QED
  BY <1>1, LifecycleInvariant, PTL

\* Between two calls of the engine everything is initialised or nothing is: no
\* failed nearcade_init and no nearcade_shutdown leaves a mutex, the KBM device, a
\* context or an FFmpeg of the running SDK behind.
THEOREM NothingLeaks == Safety => []AllOrNothing
<1>1. LifecycleInductive => AllOrNothing
  <2> SUFFICES ASSUME LifecycleInductive, eng = "app" PROVE AllOrNothing
    BY DEF AllOrNothing
  <2> USE DEF LifecycleInductive
  <2>1. held = (IF running THEN Resource ELSE {})
    BY DEF HeldSoFar
  <2>2. ctx = (IF running THEN {life} ELSE {}) /\ g_wsi = (IF running THEN life ELSE 0)
    BY DEF ContextSoFar, InLife
  <2>3. ~running => Remembered \subseteq early
    BY DEF CaptureSoFar, Remembered
  <2>4. ~running => Ours \subseteq early \cup unwaited
    BY <2>3 DEF NoChildLost
  <2> QED
    BY <2>1, <2>2, <2>4 DEF AllOrNothing
<1> QED
  BY <1>1, LifecycleInvariant, PTL

\* Whatever the lives, the failures and the deaths, capture.c never loses a child
\* that a running SDK forked, before it has reaped it or sent it SIGKILL, and never
\* signals an id that it has waited for.
THEOREM ChildNeverLost == Safety => []ChildIsTracked
<1>1. LifecycleInductive => ChildIsTracked
  BY DEF LifecycleInductive, ChildIsTracked
<1> QED
  BY <1>1, LifecycleInvariant, PTL

\* g_state.capturing is set only with a child to stop, and is set for the child of
\* a running SDK.
THEOREM CaptureFlagsAgree == Safety => []CapturingAgrees
<1>1. LifecycleInductive => CapturingAgrees
  BY DEF LifecycleInductive, CaptureSoFar, CapturingAgrees
<1> QED
  BY <1>1, LifecycleInvariant, PTL

================================================================================
