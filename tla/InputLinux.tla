------------------------------ MODULE InputLinux -------------------------------
(***************************************************************************)
(* The Linux input backend (input_linux.c): one virtual keyboard and mouse *)
(* and a virtual gamepad per slot, made through /dev/uinput.  The engine's *)
(* thread and libdatachannel's threads call it; a call is a series of      *)
(* system calls under input_lock, each of which may fail.                  *)
(*                                                                         *)
(* It is modelled against its own interface (nearcade_internal.h):         *)
(* input_alloc_slot has no caller in the repository, see InputPath.        *)
(***************************************************************************)
EXTENDS Integers, Sequences, FiniteSets

CONSTANTS
    MAX_SLOTS,    \* gamepad slots
    Fd,           \* descriptors the system can give; an id is reused after close
    NoFd,         \* -1
    Stdin,        \* 0: what a static array of descriptors holds before input_init
    Caller,       \* the threads that call
    NoCaller,     \* the owner of a free input_lock
    Control,      \* the controls of the gamepad that the instance looks at
    Key,          \* the key names it passes, their optional "KEY_" stripped
    EARLY_CALLS   \* whether the engine calls before its first nearcade_init

PadSlot == 0 .. MAX_SLOTS - 1

\* The order of the nineteen writes of a packet, and of those of a flush.
Axes        == <<"ABS_X", "ABS_Y", "ABS_RX", "ABS_RY", "ABS_Z", "ABS_RZ",
                 "ABS_HAT0X", "ABS_HAT0Y">>
PacketOrder == Axes \o <<"BTN_SOUTH", "BTN_EAST", "BTN_WEST", "BTN_NORTH",
                         "BTN_TL", "BTN_TR", "BTN_SELECT", "BTN_START",
                         "BTN_THUMBL", "BTN_THUMBR", "BTN_MODE">>
FlushOrder  == Axes \o <<"BTN_SOUTH", "BTN_EAST", "BTN_WEST", "BTN_NORTH",
                         "BTN_TL", "BTN_TR", "BTN_SELECT", "BTN_START",
                         "BTN_MODE", "BTN_THUMBL", "BTN_THUMBR">>

\* NEARCADE_BTN_x, and W3C_x: the bit of each button in a packet.
Bit == [BTN_SOUTH  |-> 0,  BTN_EAST   |-> 1,  BTN_WEST   |-> 2,  BTN_NORTH |-> 3,
        BTN_TL     |-> 4,  BTN_TR     |-> 5,  BTN_SELECT |-> 8,  BTN_START |-> 9,
        BTN_THUMBL |-> 10, BTN_THUMBR |-> 11, BTN_MODE   |-> 16]

Button == Control \cap DOMAIN Bit
Axis   == Control \ Button

\* input_alloc_slot: the fuzz of each axis, as set_abs declares it.
Fuzz(c) == IF c \in {"ABS_X", "ABS_Y", "ABS_RX", "ABS_RY"} THEN 16 ELSE 0

\* key_name_to_code: the code, called by its canonical name, or none.
key_name_to_code(k) ==
    CASE k \in {"A", "B", "C", "D", "W", "S", "SPACE", "LEFTSHIFT", "LEFTCTRL", "ESC",
               "TAB", "E", "R", "F", "G", "UP", "DOWN", "LEFT", "RIGHT", "ENTER"} -> {k}
      [] k = "LSHIFT" -> {"LEFTSHIFT"}
      [] k = "LCTRL"  -> {"LEFTCTRL"}
      [] OTHER        -> {}

ASSUME InputAssumption ==
    /\ MAX_SLOTS \in Nat \ {0}
    /\ NoFd \notin Fd /\ Stdin \notin Fd /\ NoFd # Stdin
    /\ NoCaller \notin Caller
    /\ EARLY_CALLS \in BOOLEAN

\* They are controls that input_alloc_slot declares to uinput.
ASSUME ControlAssumption ==
    Control \subseteq {Axes[i] : i \in 1 .. 8} \cup DOMAIN Bit

VARIABLES
    kbm_fd,      \* descriptor of the keyboard and mouse
    gp_fds,      \* descriptors of the gamepads
    input_lock,  \* the caller that holds the mutex
    inCall,      \* inCall[t]: where caller t is inside a call
    dev,         \* external: dev[f], what descriptor f is open for
    written,     \* external: values written to f, and seen: those a reader of the
    seen,        \*           device has been shown by the last SYN_REPORT
    meant,       \* history: what the requests so far want the device to show
    torn         \* history: the codes whose last write failed

inputVars == <<kbm_fd, gp_fds, input_lock, inCall, dev, written, seen, meant, torn>>

\* A caller outside, opening a device for slot, setting up fd, or with writes to
\* do on fd, each with its place among them, before the SYN_REPORT.
Out == [pc |-> "out", slot |-> 0, fd |-> NoFd, todo |-> {}]
Opening(s)     == [Out EXCEPT !.pc = "open", !.slot = s]
Creating(s, f) == [Out EXCEPT !.pc = "create", !.slot = s, !.fd = f]
Writing(f, w)  == [Out EXCEPT !.pc = "write", !.fd = f, !.todo = w]

\* What a device can show: the controls of a gamepad and the keys of a keyboard.
Code    == Control \cup UNION {key_name_to_code(k) : k \in Key}
Neutral == [c \in Code |-> 0]
Desc    == Fd \cup {Stdin}

InputInit ==
    /\ kbm_fd = NoFd
    /\ gp_fds = [s \in PadSlot |-> Stdin]
    /\ input_lock = NoCaller
    /\ inCall = [t \in Caller |-> Out]
    /\ dev = [f \in Desc |-> IF f = Stdin THEN "foreign" ELSE "closed"]
    /\ written = [f \in Desc |-> Neutral]
    /\ seen = [f \in Desc |-> Neutral]
    /\ meant = [f \in Desc |-> Neutral]
    /\ torn = [f \in Desc |-> {}]

--------------------------------------------------------------------------------
(* Descriptors *)

Initialised == \A s \in PadSlot : gp_fds[s] # Stdin

Unused == {f \in Fd : dev[f] = "closed"}

deviceState == <<written, seen, meant, torn>>

\* open, and UI_DEV_CREATE: the new device shows nothing pressed.
Open(f, kind) == dev' = [dev EXCEPT ![f] = kind] /\ UNCHANGED deviceState

\* UI_DEV_DESTROY and close of the descriptors in F; what they showed is gone.
Close(F) ==
    /\ dev' = [f \in Desc |-> IF f \in F THEN "closed" ELSE dev[f]]
    /\ written' = [f \in Desc |-> IF f \in F THEN Neutral ELSE written[f]]
    /\ seen' = [f \in Desc |-> IF f \in F THEN Neutral ELSE seen[f]]
    /\ meant' = [f \in Desc |-> IF f \in F THEN Neutral ELSE meant[f]]
    /\ torn' = [f \in Desc |-> IF f \in F THEN {} ELSE torn[f]]

\* input_init: the table is reset, then create_kbm_device, which gives its
\* descriptor back if a step after open fails.  It takes no lock: nearcade_init
\* runs it before anybody else can call.
input_init ==
    /\ kbm_fd = NoFd
    /\ \A t \in Caller : inCall[t] = Out
    /\ gp_fds' = [s \in PadSlot |-> NoFd]
    /\ \/ \E f \in Unused : kbm_fd' = f /\ Open(f, "kbm")
       \/ kbm_fd' = NoFd /\ UNCHANGED <<dev, deviceState>>
    /\ UNCHANGED <<input_lock, inCall>>

\* A call may begin: the caller is outside, and the mutex is free.
MayCall(t) ==
    /\ inCall[t] = Out
    /\ input_lock = NoCaller
    /\ EARLY_CALLS \/ Initialised

\* A call goes on and keeps the mutex;  a call returns.
Locked(t, f) == input_lock' = t /\ inCall' = [inCall EXCEPT ![t] = f]
Unlocked(t)  == input_lock' = NoCaller /\ inCall' = [inCall EXCEPT ![t] = Out]

input_shutdown(t) ==
    /\ MayCall(t)
    /\ kbm_fd # NoFd
    /\ Close({kbm_fd} \cup {gp_fds[s] : s \in PadSlot})
    /\ gp_fds' = [s \in PadSlot |-> NoFd]
    /\ kbm_fd' = NoFd
    /\ UNCHANGED <<input_lock, inCall>>

\* input_alloc_slot for a slot in range: the old device goes first.
input_alloc_slot(t, s) ==
    /\ MayCall(t)
    /\ kbm_fd # NoFd
    /\ Close({gp_fds[s]})
    /\ gp_fds' = [gp_fds EXCEPT ![s] = NoFd]
    /\ Locked(t, Opening(s))
    /\ UNCHANGED kbm_fd

\* Mutants: the failure of open leaves the mutex locked, or is not noticed.
alloc_opens_no_unlock(t) ==
    LET s == inCall[t].slot
    IN  /\ inCall[t].pc = "open"
        /\ \/ \E f \in Unused : Open(f, "setup") /\ Locked(t, Creating(s, f))
           \/ /\ inCall' = [inCall EXCEPT ![t] = Out]
              /\ UNCHANGED <<dev, deviceState, input_lock>>
        /\ UNCHANGED <<kbm_fd, gp_fds>>
alloc_opens_unchecked(t) ==
    LET s == inCall[t].slot
    IN  /\ inCall[t].pc = "open"
        /\ \/ \E f \in Unused : Open(f, "setup") /\ Locked(t, Creating(s, f))
           \/ Locked(t, Creating(s, NoFd)) /\ UNCHANGED <<dev, deviceState>>
        /\ UNCHANGED <<kbm_fd, gp_fds>>

\* input_alloc_slot: open, which may fail.
alloc_opens(t) ==
    LET s == inCall[t].slot
    IN  /\ inCall[t].pc = "open"
        /\ \/ \E f \in Unused : Open(f, "setup") /\ Locked(t, Creating(s, f))
           \/ Unlocked(t) /\ UNCHANGED <<dev, deviceState>>
        /\ UNCHANGED <<kbm_fd, gp_fds>>

\* Mutant: the failure path returns without close(fd).
alloc_creates_leaks(t) ==
    LET s == inCall[t].slot
        f == inCall[t].fd
    IN  /\ inCall[t].pc = "create"
        /\ \/ Open(f, "pad") /\ gp_fds' = [gp_fds EXCEPT ![s] = f]
           \/ UNCHANGED <<gp_fds, dev, deviceState>>
        /\ Unlocked(t)
        /\ UNCHANGED kbm_fd

\* input_alloc_slot: the write of uinput_user_dev and UI_DEV_CREATE; if either
\* fails the descriptor is closed.
alloc_creates(t) ==
    LET s == inCall[t].slot
        f == inCall[t].fd
    IN  /\ inCall[t].pc = "create"
        /\ \/ Open(f, "pad") /\ gp_fds' = [gp_fds EXCEPT ![s] = f]
           \/ Close({f}) /\ UNCHANGED gp_fds
        /\ Unlocked(t)
        /\ UNCHANGED kbm_fd

\* input_free_slot for a slot in range.
input_free_slot(t, s) ==
    /\ MayCall(t)
    /\ kbm_fd # NoFd
    /\ Close({gp_fds[s]})
    /\ gp_fds' = [gp_fds EXCEPT ![s] = NoFd]
    /\ UNCHANGED <<kbm_fd, input_lock, inCall>>

--------------------------------------------------------------------------------
(* Writes *)

\* A request is what a caller wants a gamepad to show.  In the packet the buttons
\* become bits of an unsigned 16-bit number, of which these are the bits that are
\* set; sticks, triggers and D-pad are passed in the ranges the documentation
\* gives, which their fields can hold.
Pack(r) ==
    [axes    |-> [c \in Axis |-> r[c]],
     buttons |-> {Bit[c] : c \in {b \in Button : r[b] = 1}} \cap 0 .. 15]

Shown(r) == [c \in Code |-> IF c \in Control THEN r[c] ELSE 0]

\* Mutant: W3C_B is tested for BTN_SOUTH.
Emitted_swapped(pkt, c) ==
    IF c \in Axis THEN pkt.axes[c]
    ELSE IF Bit[IF c = "BTN_SOUTH" THEN "BTN_EAST" ELSE c] \in pkt.buttons THEN 1 ELSE 0

\* The value written for control c.
Emitted(pkt, c) ==
    IF c \in Axis THEN pkt.axes[c]
    ELSE IF Bit[c] \in pkt.buttons THEN 1 ELSE 0

\* The places among the nineteen writes that the instance looks at.
Looked(order) == {i \in 1 .. 19 : order[i] \in Control}

PacketWrites(pkt) ==
    {[at |-> i, code |-> PacketOrder[i], val |-> Emitted(pkt, PacketOrder[i])] :
        i \in Looked(PacketOrder)}

FlushWrites ==
    {[at |-> i, code |-> FlushOrder[i], val |-> 0] : i \in Looked(FlushOrder)}

\* Writes w to the device on f begin, which shall make it show what m says.
Begin(t, f, w, m) ==
    /\ Locked(t, Writing(f, w))
    /\ meant' = [meant EXCEPT ![f] = m]
    /\ UNCHANGED <<kbm_fd, gp_fds, dev, written, seen, torn>>

\* Mutant: the mutex is given up before the writes.
submit_gamepad_unlocked(t, s, r) ==
    /\ MayCall(t)
    /\ gp_fds[s] # NoFd
    /\ inCall' = [inCall EXCEPT ![t] = Writing(gp_fds[s], PacketWrites(Pack(r)))]
    /\ meant' = [meant EXCEPT ![gp_fds[s]] = Shown(r)]
    /\ UNCHANGED <<kbm_fd, gp_fds, dev, written, seen, torn, input_lock>>

\* input_submit_gamepad.  A slot out of range or without a device is refused.
input_submit_gamepad(t, s, r) ==
    /\ MayCall(t)
    /\ gp_fds[s] # NoFd
    /\ Begin(t, gp_fds[s], PacketWrites(Pack(r)), Shown(r))

\* input_flush_slot; other slots are left alone and the answer is OK.
input_flush_slot(t, s) ==
    /\ MayCall(t)
    /\ gp_fds[s] # NoFd
    /\ Begin(t, gp_fds[s], FlushWrites, Neutral)

\* input_submit_kbm, "keydown" and "keyup".  An unknown key is ignored.
input_submit_key(t, k, val) ==
    /\ MayCall(t)
    /\ kbm_fd # NoFd
    /\ \E code \in key_name_to_code(k) :
          Begin(t, kbm_fd, {[at |-> 1, code |-> code, val |-> val]},
                [meant[kbm_fd] EXCEPT ![code] = val])

\* input_submit_kbm, "mousemove": relative motion leaves no state in the device.
input_submit_mousemove(t) ==
    /\ MayCall(t)
    /\ kbm_fd # NoFd
    /\ Locked(t, Writing(kbm_fd, {}))
    /\ UNCHANGED <<kbm_fd, gp_fds, dev, deviceState>>

\* Division in C, which rounds towards zero.
Quotient(n, d) == IF n >= 0 THEN n \div d ELSE -((-n) \div d)

\* External: the value a device takes over.  The kernel (input_defuzz_abs_event)
\* drops a move of an axis by less than half its fuzz, and follows one by less than
\* twice its fuzz in part.
Defuzz(fuzz, old, val) ==
    LET by == IF val >= old THEN val - old ELSE old - val
    IN  CASE by < fuzz \div 2                   -> old
          [] by >= fuzz \div 2 /\ by < fuzz     -> Quotient(3 * old + val, 4)
          [] by >= fuzz /\ by < 2 * fuzz        -> Quotient(old + val, 2)
          [] OTHER                              -> val

\* emit: a write that fails is noticed by nobody.
emit(t) ==
    LET f == inCall[t].fd
    IN  /\ inCall[t].pc = "write"
        /\ \E w \in inCall[t].todo :
              /\ \A v \in inCall[t].todo : w.at =< v.at
              /\ inCall' = [inCall EXCEPT ![t].todo = @ \ {w}]
              /\ \/ /\ written' = [written EXCEPT
                                      ![f][w.code] = Defuzz(Fuzz(w.code), @, w.val)]
                    /\ torn' = [torn EXCEPT ![f] = @ \ {w.code}]
                 \/ /\ torn' = [torn EXCEPT ![f] = @ \cup {w.code}]
                    /\ UNCHANGED written
        /\ UNCHANGED <<kbm_fd, gp_fds, input_lock, dev, seen, meant>>

\* syn, and the end of the call.
syn(t) ==
    LET f == inCall[t].fd
    IN  /\ inCall[t].pc = "write"
        /\ inCall[t].todo = {}
        /\ Unlocked(t)
        /\ \/ /\ seen' = [seen EXCEPT ![f] = written[f]]
              /\ torn' = [torn EXCEPT ![f] = @ \ {"SYN"}]
           \/ /\ torn' = [torn EXCEPT ![f] = @ \cup {"SYN"}]
              /\ UNCHANGED seen
        /\ UNCHANGED <<kbm_fd, gp_fds, dev, written, meant>>

--------------------------------------------------------------------------------
\* A slot out of range is refused before the lock.  The refusals under it (no
\* device, an unknown key or event type) change nothing either.
refused(t) == inCall[t] = Out /\ UNCHANGED inputVars

CONSTANT Request       \* the requests the callers make

\* A button is released or pressed.
ASSUME RequestAssumption ==
    /\ Request \subseteq [Control -> Int]
    /\ \A r \in Request, b \in Button : r[b] \in {0, 1}

Goes(t) == alloc_opens(t) \/ alloc_creates(t) \/ emit(t) \/ syn(t)

InputNext ==
    \/ input_init
    \/ \E t \in Caller :
          \/ Goes(t)
          \/ refused(t)
          \/ input_shutdown(t)
          \/ input_submit_mousemove(t)
          \/ \E k \in Key, val \in {0, 1} : input_submit_key(t, k, val)
          \/ \E s \in PadSlot : \/ input_alloc_slot(t, s)
                               \/ input_free_slot(t, s)
                               \/ input_flush_slot(t, s)
                               \/ \E r \in Request : input_submit_gamepad(t, s, r)

\* The OS schedules a thread that is inside a call; nobody has to call.
InputSafety == InputInit /\ [][InputNext]_inputVars
InputSpec   == InputSafety /\ \A t \in Caller : WF_inputVars(Goes(t))

--------------------------------------------------------------------------------
(* Properties *)

Writes == SUBSET [at : Nat, code : Code, val : Int]
Frames ==
    [pc : {"out", "open"}, slot : PadSlot, fd : {NoFd}, todo : {{}}]
        \cup [pc : {"create"}, slot : PadSlot, fd : Fd, todo : {{}}]
        \cup [pc : {"write"}, slot : PadSlot, fd : Desc, todo : Writes]

\* The descriptors, the frames of the callers and the devices have their types: a
\* device is set up only through a descriptor that open gave.
InputTypeOK ==
    /\ kbm_fd \in Fd \cup {NoFd}
    /\ gp_fds \in [PadSlot -> Fd \cup {NoFd, Stdin}]
    /\ input_lock \in Caller \cup {NoCaller}
    /\ inCall \in [Caller -> Frames]
    /\ dev \in [Desc -> {"closed", "setup", "kbm", "pad", "foreign"}]
    /\ written \in [Desc -> [Code -> Int]]
    /\ seen \in [Desc -> [Code -> Int]]
    /\ meant \in [Desc -> [Code -> Int]]
    /\ torn \in [Desc -> SUBSET (Code \cup {"SYN"})]

\* The descriptors that are open are exactly those that kbm_fd, gp_fds and a call
\* under way know of, each known once: whichever step of an allocation fails and
\* whoever calls meanwhile, none leaks and none is closed under its owner.
DescriptorsTracked ==
    /\ {f \in Fd : dev[f] = "kbm"} = {kbm_fd} \ {NoFd}
    /\ {f \in Fd : dev[f] = "pad"} = {gp_fds[s] : s \in PadSlot} \ {NoFd, Stdin}
    /\ {f \in Fd : dev[f] = "setup"} =
           {inCall[t].fd : t \in {u \in Caller : inCall[u].pc = "create"}}
    /\ \A s, u \in PadSlot : gp_fds[s] = gp_fds[u] /\ gp_fds[s] \in Fd => s = u

\* A call that took a descriptor from the table writes to a device of the SDK up
\* to its last write: the descriptor was not closed, and given to some other file,
\* in between.  test_basic.c asserts of a slot without a device that a packet for
\* it is refused with NEARCADE_ERR_NO_DEVICE.
WritesToOwnDevices ==
    \A t \in Caller : inCall[t].pc = "write" => dev[inCall[t].fd] \in {"pad", "kbm"}

\* What makes these inductive.  Whoever is inside a call holds the mutex; a device
\* that is being made has no entry yet; a descriptor being written to is still the
\* one in the table; and the table is empty while the backend is down.
CallsSoFar ==
    \A t \in Caller :
        /\ inCall[t] # Out => input_lock = t
        /\ inCall[t].pc \in {"open", "create"} =>
               kbm_fd # NoFd /\ gp_fds[inCall[t].slot] = NoFd
        /\ inCall[t].pc = "write" =>
               /\ inCall[t].fd \in {kbm_fd} \cup {gp_fds[s] : s \in PadSlot}
               /\ EARLY_CALLS \/ inCall[t].fd \in Fd

TableSoFar ==
    \A s \in PadSlot : /\ kbm_fd = NoFd => gp_fds[s] \notin Fd
                       /\ kbm_fd # NoFd => gp_fds[s] # Stdin

InputInductive == InputTypeOK /\ DescriptorsTracked /\ CallsSoFar /\ TableSoFar

\* What a device shows for a code against what is meant: the same, but for a stick,
\* of whose moves the kernel may leave out as much as the fuzz declared for it.
Near(c, shown, val) == shown - val \in -Fuzz(c) .. Fuzz(c)

\* Whenever no call writes to a device, its readers see what the requests mean,
\* whole packets of one caller each and the last event of each key, except where
\* a write has failed; the next packet repairs that.  Buttons, triggers, the D-pad
\* and keys are exact; a stick is within its fuzz, and stays there however many
\* small moves follow each other.
ShowsWhatIsMeant(codes) ==
    \A f \in Fd :
        /\ dev[f] \in {"pad", "kbm"}
        /\ "SYN" \notin torn[f]
        /\ \A t \in Caller : inCall[t].pc = "write" => inCall[t].fd # f
        => \A c \in codes \ torn[f] : Near(c, seen[f][c], meant[f][c])

\* ... for every control but the guide button.
DeviceShowsRequests == ShowsWhatIsMeant(Code \ {"BTN_MODE"})

\* What makes this inductive: on a device, a write that a call still has to do has
\* the value that is meant; a code with no such write has it already, unless its
\* last write failed; readers are behind only until the call's SYN_REPORT; a
\* gamepad has no keys; and a descriptor that is no device shows nothing.
WritesTo(t, f) == inCall[t].pc = "write" /\ inCall[t].fd = f
Awaited(f, c)  == \E t \in Caller : /\ WritesTo(t, f)
                                    /\ \E w \in inCall[t].todo : w.code = c

TodoIsMeant(f) ==
    \A t \in Caller : WritesTo(t, f) =>
        \A w \in inCall[t].todo :
            /\ w.code # "BTN_MODE" => w.val = meant[f][w.code]
            /\ dev[f] = "pad" => w.code \in Control
DoneIsWritten(f) ==
    \A c \in Code \ {"BTN_MODE"} :
        c \in torn[f] \/ Awaited(f, c) \/ Near(c, written[f][c], meant[f][c])
WrittenIsSeen(f) ==
    \/ "SYN" \in torn[f]
    \/ \E t \in Caller : WritesTo(t, f)
    \/ seen[f] = written[f]
PadHasNoKeys(f) ==
    dev[f] = "pad" => \A c \in Code \ Control : written[f][c] = 0 /\ meant[f][c] = 0
OthersAreBlank(f) ==
    dev[f] \notin {"pad", "kbm"} =>
        /\ written[f] = Neutral /\ seen[f] = Neutral /\ meant[f] = Neutral
        /\ torn[f] = {}

DeviceSoFar(f) ==
    /\ TodoIsMeant(f) /\ DoneIsWritten(f) /\ WrittenIsSeen(f)
    /\ PadHasNoKeys(f) /\ OthersAreBlank(f)
DevicesSoFar == \A f \in Fd : DeviceSoFar(f)

\* nearcade.h lists NEARCADE_BTN_GUIDE among the buttons of a packet.
GuideReachesDevice == ShowsWhatIsMeant(Code)

\* Every call gives input_lock back, whichever way it ends.
InputLockReturns == input_lock # NoCaller ~> input_lock = NoCaller

================================================================================
