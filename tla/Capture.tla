-------------------------------- MODULE Capture --------------------------------
(***************************************************************************)
(* The legacy screen capture (capture.c): one FFmpeg child process and the *)
(* record g_ff that remembers it.  The engine's thread starts and stops    *)
(* it; the child may die at any moment, of an execlp that failed or later. *)
(* A waitpid may fail: interrupted by a signal, or because the engine's    *)
(* own process has reaped the child already.                               *)
(***************************************************************************)
EXTENDS Naturals

CONSTANTS Pid,     \* process ids; the system reuses an id once it is reaped
          NoPid    \* g_ff.pid of a zeroed g_ff

ASSUME CaptureAssumption == Pid # {} /\ NoPid \notin Pid

VARIABLES
    capturing,   \* g_state.capturing
    g_ff,        \* the record kept of the child
    proc,        \* external: proc[p], the child with that id; "free": not ours,
                 \* "taken": not ours any more, as the engine reaped it
    stage,       \* where capture_stop is, "out" when it is not running
    unwaited     \* history: ids whose blocking waitpid was interrupted, since the fork

capVars == <<capturing, g_ff, proc, stage, unwaited>>

Zeroed  == [pid |-> NoPid, active |-> FALSE]
Stage   == {"out", "termed", "slept", "stubborn", "killed", "waited"}
Alive   == {"running", "termed", "killed"}
Reaped  == {"free", "taken"}
Ours    == {p \in Pid : proc[p] \notin Reaped}

CaptureInit ==
    /\ capturing = FALSE
    /\ g_ff = Zeroed
    /\ proc = [p \in Pid |-> "free"]
    /\ stage = "out"
    /\ unwaited = {}

--------------------------------------------------------------------------------
\* External: the child exits, on a signal or by itself, and waits to be reaped.
ChildExits(p) ==
    /\ proc[p] \in Alive
    /\ proc' = [proc EXCEPT ![p] = "zombie"]
    /\ UNCHANGED <<capturing, g_ff, stage, unwaited>>

\* External: the engine's process, which ignores SIGCHLD or waits for any child,
\* reaps one that is not its own business.
EngineReaps(p) ==
    /\ proc[p] = "zombie"
    /\ proc' = [proc EXCEPT ![p] = "taken"]
    /\ UNCHANGED <<capturing, g_ff, stage, unwaited>>

Fork(p) ==
    /\ proc[p] \in Reaped
    /\ proc' = [proc EXCEPT ![p] = "running"]
    /\ g_ff' = [pid |-> p, active |-> TRUE]
    /\ unwaited' = unwaited \ {p}

\* Mutant: the result of fork is not tested.
capture_start_unchecked ==
    \/ /\ ~g_ff.active
       /\ capturing' = TRUE
       /\ \E p \in Pid : Fork(p)
    \/ /\ ~g_ff.active
       /\ capturing' = TRUE
       /\ g_ff' = [pid |-> NoPid, active |-> TRUE]
       /\ UNCHANGED <<proc, unwaited>>

\* capture_start: a child that is remembered already is left alone; otherwise
\* fork, and remember the child unless fork fails.
capture_start ==
    \/ /\ g_ff.active
       /\ capturing' = TRUE
       /\ UNCHANGED <<g_ff, proc, unwaited>>
    \/ /\ ~g_ff.active
       /\ capturing' = TRUE
       /\ \E p \in Pid : Fork(p)
    \/ /\ ~g_ff.active
       /\ UNCHANGED <<capturing, g_ff, proc, unwaited>>

\* nearcade_start_capture, which does not ask whether the SDK runs.
nearcade_start_capture ==
    /\ stage = "out"
    /\ \/ ~capturing /\ capture_start
       \/ capturing /\ UNCHANGED <<capturing, g_ff, proc, unwaited>>
    /\ UNCHANGED stage

--------------------------------------------------------------------------------
(* capture_stop, one step between two of its system calls *)

\* kill and waitpid act on the process that has the id, whosever it is.
Kill(sig) ==
    proc' = [proc EXCEPT ![g_ff.pid] = IF @ \in Alive THEN sig ELSE @]

\* waitpid returns other than 0: the child is reaped, or -1 as it is nobody's child
\* any more (ECHILD).  capture_stop makes no difference.
Waited == /\ proc[g_ff.pid] \in {"zombie"} \cup Reaped
          /\ proc' = [proc EXCEPT ![g_ff.pid] = "free"]
          /\ stage' = "waited"
          /\ UNCHANGED unwaited

\* SIGTERM.
StopTerm ==
    /\ stage = "out"
    /\ g_ff.active
    /\ Kill("termed")
    /\ stage' = "termed"
    /\ UNCHANGED <<g_ff, unwaited>>

\* Nothing to stop.
StopNothing ==
    /\ stage = "out"
    /\ ~g_ff.active
    /\ UNCHANGED <<g_ff, proc, stage, unwaited>>

\* waitpid(WNOHANG): before usleep, and once more after it.
StopPoll ==
    /\ stage \in {"termed", "slept"}
    /\ \/ Waited
       \/ /\ proc[g_ff.pid] \in Alive
          /\ stage' = IF stage = "termed" THEN "slept" ELSE "stubborn"
          /\ UNCHANGED <<proc, unwaited>>
    /\ UNCHANGED <<capturing, g_ff>>

\* Mutant: another SIGTERM.
StopKill_term ==
    /\ stage = "stubborn"
    /\ Kill("termed")
    /\ stage' = "killed"
    /\ UNCHANGED <<capturing, g_ff, unwaited>>

\* SIGKILL to a child that outlived the second poll.
StopKill ==
    /\ stage = "stubborn"
    /\ Kill("killed")
    /\ stage' = "killed"
    /\ UNCHANGED <<capturing, g_ff, unwaited>>

\* The blocking waitpid.
StopWait ==
    /\ stage = "killed"
    /\ Waited
    /\ UNCHANGED <<capturing, g_ff>>

\* A signal interrupts it: -1 (EINTR), with the child not reaped.
StopInterrupted ==
    /\ stage = "killed"
    /\ stage' = "waited"
    /\ unwaited' = unwaited \cup {g_ff.pid}
    /\ UNCHANGED <<capturing, g_ff, proc>>

\* Mutant: capture_stop returns without forgetting the child.
StopClear_keeps_child ==
    /\ stage = "waited"
    /\ stage' = "out"
    /\ UNCHANGED <<g_ff, proc, unwaited>>

StopClear ==
    /\ stage = "waited"
    /\ g_ff' = Zeroed
    /\ stage' = "out"
    /\ UNCHANGED <<proc, unwaited>>

StopSteps == StopPoll \/ StopKill \/ StopWait

--------------------------------------------------------------------------------
CaptureTypeOK ==
    /\ capturing \in BOOLEAN
    /\ g_ff \in [pid : Pid, active : {TRUE}] \cup {Zeroed}
    /\ proc \in [Pid -> Alive \cup {"zombie"} \cup Reaped]
    /\ stage \in Stage
    /\ unwaited \subseteq Pid

\* The child that g_ff stands for: not any more once capture_stop has waited.
Remembered == IF g_ff.active /\ stage # "waited" THEN {g_ff.pid} ELSE {}

\* No signal and no waitpid goes to an id that capture.c gave back to the system
\* itself.  If the engine took the child away, capture.c cannot know.
SignalsOwnChild == \A p \in Remembered : proc[p] # "free"

================================================================================
