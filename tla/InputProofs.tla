------------------------------ MODULE InputProofs ------------------------------
(***************************************************************************)
(* Proofs about the Linux input backend, for any number of slots, callers, *)
(* descriptors, controls, keys and requests: InputInductive is an          *)
(* inductive invariant, so no descriptor leaks, none is closed under its   *)
(* owner, and after initialisation every write goes to a device of the     *)
(* SDK; with DevicesSoFar, the devices show what was asked for.            *)
(***************************************************************************)
EXTENDS InputLinux, TLAPS

USE DEF PadSlot, Desc

--------------------------------------------------------------------------------
(* Frames *)

\* The places a call can be at are frames.
LEMMA FramesOfCalls ==
    /\ Out \in Frames
    /\ \A s \in PadSlot : Opening(s) \in Frames
    /\ \A s \in PadSlot, f \in Fd : Creating(s, f) \in Frames
    /\ \A f \in Desc, w \in Writes : Writing(f, w) \in Frames
<1>1. 0 \in PadSlot
  BY InputAssumption
<1> QED
  BY <1>1 DEF Frames, Out, Opening, Creating, Writing

\* What they say of the call.
LEMMA FieldsOfCalls ==
    /\ Out.pc = "out"
    /\ \A s : Opening(s).pc = "open" /\ Opening(s).slot = s
    /\ \A s, f : /\ Creating(s, f).pc = "create" /\ Creating(s, f).slot = s
                 /\ Creating(s, f).fd = f
    /\ \A f, w : Writing(f, w).pc = "write" /\ Writing(f, w).fd = f
BY DEF Out, Opening, Creating, Writing

\* The values a packet writes are numbers.
LEMMA PacketWritesType ==
    ASSUME NEW r \in Request
    PROVE  PacketWrites(Pack(r)) \in Writes
<1>1. r \in [Control -> Int]
  BY RequestAssumption
<1>2. \A c \in Control : Emitted(Pack(r), c) \in Int
  BY <1>1 DEF Emitted, Pack, Axis, Button
<1>3. \A i \in Looked(PacketOrder) : i \in Nat /\ PacketOrder[i] \in Control
  BY DEF Looked
<1>4. Control \subseteq Code
  BY DEF Code
<1> QED
  BY <1>2, <1>3, <1>4 DEF PacketWrites, Writes

LEMMA FlushWritesType == FlushWrites \in Writes
<1>1. \A i \in Looked(FlushOrder) : i \in Nat /\ FlushOrder[i] \in Control
  BY DEF Looked
<1>2. Control \subseteq Code
  BY DEF Code
<1> QED
  BY <1>1, <1>2 DEF FlushWrites, Writes

\* The bits of two buttons differ, and all but the guide button's fit the packet.
LEMMA BitsDiffer ==
    /\ \A b, c \in DOMAIN Bit : Bit[b] = Bit[c] => b = c
    /\ \A b \in DOMAIN Bit \ {"BTN_MODE"} : Bit[b] \in 0 .. 15
BY DEF Bit

\* A packet and a flush write every control.
LEMMA OrderOfPacket ==
    \A c \in Control : \E i \in Looked(PacketOrder) : PacketOrder[i] = c
<1> SUFFICES ASSUME NEW c \in Control PROVE \E i \in 1 .. 19 : PacketOrder[i] = c
  BY DEF Looked
<1> QED
  BY ControlAssumption DEF PacketOrder, Axes, Bit

LEMMA OrderOfFlush ==
    \A c \in Control : \E i \in Looked(FlushOrder) : FlushOrder[i] = c
<1> SUFFICES ASSUME NEW c \in Control PROVE \E i \in 1 .. 19 : FlushOrder[i] = c
  BY DEF Looked
<1> QED
  BY ControlAssumption DEF FlushOrder, Axes, Bit

\* The sixteen bits carry a request, but for its guide button.
LEMMA PacketSaysRequest ==
    ASSUME NEW r \in Request, NEW c \in Control \ {"BTN_MODE"}
    PROVE  Emitted(Pack(r), c) = r[c]
<1>1. CASE c \in Axis
  BY <1>1 DEF Emitted, Pack
<1>2. CASE c \in Button
  <2> DEFINE bits == {Bit[b] : b \in {b \in Button : r[b] = 1}} \cap 0 .. 15
  <2>1. c \in DOMAIN Bit /\ Button \subseteq DOMAIN Bit /\ r[c] \in {0, 1}
    BY <1>2, RequestAssumption DEF Button
  <2>2. Bit[c] \in bits <=> r[c] = 1
    BY <1>2, <2>1, BitsDiffer
  <2>3. Pack(r).buttons = bits
    BY DEF Pack
  <2>4. c \notin Axis
    BY <1>2 DEF Axis
  <2> HIDE DEF bits
  <2> QED
    BY <2>1, <2>2, <2>3, <2>4 DEF Emitted
<1> QED
  BY <1>1, <1>2 DEF Axis

\* The history of torn writes does not confuse a report with a code.
LEMMA NoSynCode == "SYN" \notin Code
<1>1. "SYN" \notin Control
  BY ControlAssumption DEF Axes, Bit
<1>2. \A k \in Key : "SYN" \notin key_name_to_code(k)
  BY DEF key_name_to_code
<1> QED
  BY <1>1, <1>2 DEF Code

--------------------------------------------------------------------------------
(* The initial state *)

LEMMA InputInitially == InputInit => InputInductive
<1> SUFFICES ASSUME InputInit PROVE InputInductive
  OBVIOUS
<1> USE InputAssumption DEF InputInit
<1>1. InputTypeOK
  <2>1. Neutral \in [Code -> Int]
    BY DEF Neutral
  <2> QED
    BY <2>1, FramesOfCalls DEF InputTypeOK
<1>2. DescriptorsTracked
  BY FieldsOfCalls DEF DescriptorsTracked
<1>3. CallsSoFar /\ TableSoFar
  BY FieldsOfCalls DEF CallsSoFar, TableSoFar
<1> QED
  BY <1>1, <1>2, <1>3 DEF InputInductive

--------------------------------------------------------------------------------
(* What the steps have in common *)

\* A device's state is typed after open and after close.
DeviceTypeOK ==
    /\ dev \in [Desc -> {"closed", "setup", "kbm", "pad", "foreign"}]
    /\ written \in [Desc -> [Code -> Int]]
    /\ seen \in [Desc -> [Code -> Int]]
    /\ meant \in [Desc -> [Code -> Int]]
    /\ torn \in [Desc -> SUBSET (Code \cup {"SYN"})]

LEMMA OpenType ==
    ASSUME DeviceTypeOK, NEW f \in Fd, NEW kind \in {"setup", "kbm", "pad"}, Open(f, kind)
    PROVE  DeviceTypeOK'
BY DEF DeviceTypeOK, Open, deviceState

LEMMA CloseType ==
    ASSUME DeviceTypeOK, NEW F, Close(F)
    PROVE  DeviceTypeOK'
BY DEF DeviceTypeOK, Close, Neutral

\* A caller that is not outside is the only one.
LEMMA Alone ==
    ASSUME InputInductive, NEW t \in Caller, inCall[t].pc # "out",
           NEW u \in Caller, u # t
    PROVE  inCall[u] = Out
BY FieldsOfCalls DEF InputInductive, CallsSoFar

\* Nobody is inside a call when one begins.
LEMMA NobodyInside ==
    ASSUME InputInductive, NEW t \in Caller, MayCall(t), NEW u \in Caller
    PROVE  inCall[u] = Out
BY InputAssumption DEF InputInductive, CallsSoFar, MayCall

--------------------------------------------------------------------------------
(* Writes: the table and the descriptors stay as they are *)

\* A call that begins to write to a descriptor of the table.
LEMMA BeginsToWrite ==
    ASSUME InputInductive, NEW t \in Caller, MayCall(t),
           NEW f \in Desc, f \in {kbm_fd} \cup {gp_fds[s] : s \in PadSlot},
           NEW w \in Writes, Locked(t, Writing(f, w)),
           DeviceTypeOK', UNCHANGED <<kbm_fd, gp_fds, dev>>
    PROVE  InputInductive'
<1> USE FieldsOfCalls, NobodyInside DEF InputInductive, Locked
<1>1. InputTypeOK'
  BY FramesOfCalls DEF InputTypeOK, DeviceTypeOK
<1>2. \A u \in Caller : inCall'[u] = IF u = t THEN Writing(f, w) ELSE Out
  BY DEF InputTypeOK
<1>3. DescriptorsTracked'
  <2>1. \A u \in Caller : inCall[u].pc # "create" /\ inCall'[u].pc # "create"
    BY <1>2
  <2> QED
    BY <2>1 DEF DescriptorsTracked
<1>4. CallsSoFar'
  <2>1. EARLY_CALLS \/ f \in Fd
    BY InputAssumption DEF MayCall, Initialised, InputTypeOK
  <2> QED
    BY <1>2, <2>1 DEF CallsSoFar
<1>5. TableSoFar'
  BY DEF TableSoFar
<1> QED
  BY <1>1, <1>3, <1>4, <1>5

\* What the kernel makes of a move is a whole number, and as near to it as the fuzz.
LEMMA DefuzzFacts ==
    ASSUME NEW c, NEW old \in Int, NEW val \in Int
    PROVE  Defuzz(Fuzz(c), old, val) \in Int /\ Near(c, Defuzz(Fuzz(c), old, val), val)
<1>1. CASE Fuzz(c) = 0
  <2>1. Defuzz(0, old, val) = val
    BY DEF Defuzz
  <2> QED
    BY <1>1, <2>1 DEF Near
<1>2. CASE Fuzz(c) = 16
  <2> DEFINE d == Defuzz(16, old, val)
             by == IF val >= old THEN val - old ELSE old - val
  <2>0. 16 \div 2 = 8 /\ by \in Nat
    OBVIOUS
  <2>1. d = CASE by < 8              -> old
              [] by >= 8 /\ by < 16  -> Quotient(3 * old + val, 4)
              [] by >= 16 /\ by < 32 -> Quotient(old + val, 2)
              [] OTHER               -> val
    BY <2>0 DEF Defuzz
  <2>2. \A n \in Int : /\ Quotient(n, 4) \in Int
                       /\ 4 * Quotient(n, 4) - n \in -3 .. 3
    BY DEF Quotient
  <2>3. \A n \in Int : /\ Quotient(n, 2) \in Int
                       /\ 2 * Quotient(n, 2) - n \in -1 .. 1
    BY DEF Quotient
  <2> HIDE DEF d
  <2>4. CASE by < 8
    <3>1. d = old
      BY <2>1, <2>4
    <3> QED
      BY <1>2, <2>4, <3>1 DEF Near, d
  <2>5. CASE by >= 8 /\ by < 16
    <3> DEFINE n == 3 * old + val
    <3>1. n \in Int /\ d = Quotient(n, 4)
      BY <2>0, <2>1, <2>5
    <3>2. d \in Int /\ 4 * d - n \in -3 .. 3
      BY <2>2, <3>1
    <3>3. d - val \in -16 .. 16
      BY <2>5, <3>2
    <3> QED
      BY <1>2, <3>2, <3>3 DEF Near, d
  <2>6. CASE by >= 16 /\ by < 32
    <3> DEFINE n == old + val
    <3>1. n \in Int /\ d = Quotient(n, 2)
      BY <2>0, <2>1, <2>6
    <3>2. d \in Int /\ 2 * d - n \in -1 .. 1
      BY <2>3, <3>1
    <3>3. d - val \in -16 .. 16
      BY <2>6, <3>2
    <3> QED
      BY <1>2, <3>2, <3>3 DEF Near, d
  <2>7. CASE by >= 32
    <3>1. d = val
      BY <2>0, <2>1, <2>7
    <3> QED
      BY <1>2, <3>1 DEF Near, d
  <2> QED
    BY <2>0, <2>4, <2>5, <2>6, <2>7
<1> QED
  BY <1>1, <1>2 DEF Fuzz

\* Two values of zero are near each other.
LEMMA NeutralIsNear == \A c \in Code : Near(c, Neutral[c], Neutral[c])
BY DEF Near, Fuzz, Neutral

\* emit: the call goes on.
LEMMA EmitKeeps ==
    ASSUME InputInductive, NEW t \in Caller, emit(t)
    PROVE  InputInductive'
<1> USE FieldsOfCalls DEF InputInductive
<1>1. PICK w \in inCall[t].todo :
           /\ inCall' = [inCall EXCEPT ![t].todo = @ \ {w}]
           /\ \/ /\ written' = [written EXCEPT
                                   ![inCall[t].fd][w.code] = Defuzz(Fuzz(w.code), @, w.val)]
                 /\ torn' = [torn EXCEPT ![inCall[t].fd] = @ \ {w.code}]
              \/ /\ torn' = [torn EXCEPT ![inCall[t].fd] = @ \cup {w.code}]
                 /\ UNCHANGED written
  BY DEF emit
<1>2. inCall[t] \in [pc : {"write"}, slot : PadSlot, fd : Desc, todo : Writes]
  BY DEF emit, InputTypeOK, Frames
<1>3. w.code \in Code /\ w.val \in Int
  BY <1>1, <1>2 DEF Writes
<1>4. InputTypeOK'
  <2>1. inCall' \in [Caller -> Frames]
    <3>1. [inCall[t] EXCEPT !.todo = @ \ {w}] \in Frames
      BY <1>2 DEF Frames, Writes
    <3> QED
      BY <3>1, <1>1 DEF InputTypeOK
  <2>2. written' \in [Desc -> [Code -> Int]]
    <3> DEFINE f == inCall[t].fd
    <3>1. f \in Desc /\ written \in [Desc -> [Code -> Int]]
      BY <1>2 DEF InputTypeOK
    <3> DEFINE d == Defuzz(Fuzz(w.code), written[f][w.code], w.val)
    <3>2. d \in Int
      BY <1>3, <3>1, DefuzzFacts
    <3>3. \/ written' = [written EXCEPT ![f] = [written[f] EXCEPT ![w.code] = d]]
          \/ written' = written
      BY <1>1
    <3> HIDE DEF d, f
    <3>4. [written[f] EXCEPT ![w.code] = d] \in [Code -> Int]
      BY <1>3, <3>1, <3>2
    <3> QED
      BY <3>1, <3>3, <3>4
  <2>3. torn' \in [Desc -> SUBSET (Code \cup {"SYN"})]
    <3> DEFINE f == inCall[t].fd
    <3>1. f \in Desc /\ torn \in [Desc -> SUBSET (Code \cup {"SYN"})]
      BY <1>2 DEF InputTypeOK
    <3>2. /\ torn[f] \ {w.code} \in SUBSET (Code \cup {"SYN"})
          /\ torn[f] \cup {w.code} \in SUBSET (Code \cup {"SYN"})
      BY <1>3, <3>1
    <3>3. \/ torn' = [torn EXCEPT ![f] = torn[f] \ {w.code}]
          \/ torn' = [torn EXCEPT ![f] = torn[f] \cup {w.code}]
      BY <1>1
    <3> HIDE DEF f
    <3> QED
      BY <3>1, <3>2, <3>3
  <2> QED
    BY <2>1, <2>2, <2>3 DEF InputTypeOK, emit
<1>5. \A u \in Caller : inCall'[u].pc = inCall[u].pc /\ inCall'[u].fd = inCall[u].fd
                        /\ inCall'[u].slot = inCall[u].slot
                        /\ u # t => inCall'[u] = inCall[u]
  BY <1>1, <1>2 DEF InputTypeOK
<1>6. DescriptorsTracked'
  BY <1>5 DEF DescriptorsTracked, emit
<1>7. CallsSoFar' /\ TableSoFar'
  BY <1>2, <1>5 DEF CallsSoFar, TableSoFar, emit
<1> QED
  BY <1>4, <1>6, <1>7

\* syn: the call returns.
LEMMA SynKeeps ==
    ASSUME InputInductive, NEW t \in Caller, syn(t)
    PROVE  InputInductive'
<1> USE FieldsOfCalls DEF InputInductive, Unlocked
<1>1. inCall[t].pc = "write" /\ inCall[t].fd \in Desc
  BY DEF syn, InputTypeOK, Frames
<1>2. \A u \in Caller : inCall'[u] = Out
  BY <1>1, Alone DEF syn, InputTypeOK
<1>3. InputTypeOK'
  <2>1. inCall' \in [Caller -> Frames]
    BY FramesOfCalls DEF syn, InputTypeOK
  <2>2. seen' \in [Desc -> [Code -> Int]]
    <3>1. written[inCall[t].fd] \in [Code -> Int] /\ seen \in [Desc -> [Code -> Int]]
      BY <1>1 DEF InputTypeOK
    <3> QED
      BY <1>1, <3>1 DEF syn
  <2>3. torn' \in [Desc -> SUBSET (Code \cup {"SYN"})]
    BY <1>1 DEF syn, InputTypeOK
  <2> QED
    BY <2>1, <2>2, <2>3 DEF InputTypeOK, syn
<1>4. DescriptorsTracked'
  <2>1. \A u \in Caller : inCall[u].pc # "create" /\ inCall'[u].pc # "create"
    BY <1>1, <1>2, Alone
  <2> QED
    BY <2>1 DEF DescriptorsTracked, syn
<1>5. CallsSoFar' /\ TableSoFar'
  BY <1>2 DEF CallsSoFar, TableSoFar, syn
<1> QED
  BY <1>3, <1>4, <1>5

\* The four calls that write, by BeginsToWrite.
LEMMA SubmitGamepadKeeps ==
    ASSUME InputInductive, NEW t \in Caller, NEW s \in PadSlot, NEW r \in Request,
           input_submit_gamepad(t, s, r)
    PROVE  InputInductive'
<1>1. gp_fds[s] \in Desc
  BY DEF input_submit_gamepad, InputInductive, InputTypeOK
<1>2. Shown(r) \in [Code -> Int]
  BY RequestAssumption DEF Shown
<1>3. DeviceTypeOK'
  BY <1>1, <1>2 DEF input_submit_gamepad, Begin, InputInductive, InputTypeOK, DeviceTypeOK
<1> QED
  BY <1>1, <1>3, PacketWritesType, BeginsToWrite DEF input_submit_gamepad, Begin

LEMMA FlushSlotKeeps ==
    ASSUME InputInductive, NEW t \in Caller, NEW s \in PadSlot, input_flush_slot(t, s)
    PROVE  InputInductive'
<1>1. gp_fds[s] \in Desc
  BY DEF input_flush_slot, InputInductive, InputTypeOK
<1>2. Neutral \in [Code -> Int]
  BY DEF Neutral
<1>3. DeviceTypeOK'
  BY <1>1, <1>2 DEF input_flush_slot, Begin, InputInductive, InputTypeOK, DeviceTypeOK
<1> QED
  BY <1>1, <1>3, FlushWritesType, BeginsToWrite DEF input_flush_slot, Begin

LEMMA SubmitKeyKeeps ==
    ASSUME InputInductive, NEW t \in Caller, NEW k \in Key, NEW val \in {0, 1},
           input_submit_key(t, k, val)
    PROVE  InputInductive'
<1>1. kbm_fd \in Desc
  BY DEF input_submit_key, InputInductive, InputTypeOK
<1>2. PICK code \in key_name_to_code(k) :
          Begin(t, kbm_fd, {[at |-> 1, code |-> code, val |-> val]},
                [meant[kbm_fd] EXCEPT ![code] = val])
  BY DEF input_submit_key
<1>3. code \in Code
  BY <1>2 DEF Code
<1>4. {[at |-> 1, code |-> code, val |-> val]} \in Writes
  BY <1>3 DEF Writes
<1>5. [meant[kbm_fd] EXCEPT ![code] = val] \in [Code -> Int]
  BY <1>1, <1>3 DEF InputInductive, InputTypeOK
<1>6. DeviceTypeOK'
  BY <1>1, <1>2, <1>5 DEF Begin, InputInductive, InputTypeOK, DeviceTypeOK
<1> QED
  BY <1>1, <1>2, <1>4, <1>6, BeginsToWrite DEF input_submit_key, Begin

LEMMA MousemoveKeeps ==
    ASSUME InputInductive, NEW t \in Caller, input_submit_mousemove(t)
    PROVE  InputInductive'
<1>1. kbm_fd \in Desc
  BY DEF input_submit_mousemove, InputInductive, InputTypeOK
<1>2. {} \in Writes
  BY DEF Writes
<1>3. DeviceTypeOK'
  BY DEF input_submit_mousemove, deviceState, InputInductive, InputTypeOK, DeviceTypeOK
<1> QED
  BY <1>1, <1>2, <1>3, BeginsToWrite DEF input_submit_mousemove

--------------------------------------------------------------------------------
(* Descriptors are opened and closed *)

LEMMA InitKeeps == ASSUME InputInductive, input_init PROVE InputInductive'
<1> USE InputAssumption, FieldsOfCalls DEF InputInductive, input_init
<1>1. DeviceTypeOK
  BY DEF InputTypeOK, DeviceTypeOK
<1>2. \A s \in PadSlot : gp_fds[s] \notin Fd /\ gp_fds'[s] = NoFd
  BY DEF TableSoFar
<1>3. CASE \E f \in Unused : kbm_fd' = f /\ Open(f, "kbm")
  <2>1. PICK f \in Unused : kbm_fd' = f /\ Open(f, "kbm")
    BY <1>3
  <2>2. f \in Fd /\ dev[f] = "closed" /\ dev' = [dev EXCEPT ![f] = "kbm"]
    BY <2>1 DEF Unused, Open
  <2>3. InputTypeOK'
    BY <1>1, <2>1, <2>2, OpenType DEF InputTypeOK, DeviceTypeOK
  <2>4. DescriptorsTracked'
    BY <1>2, <2>1, <2>2 DEF DescriptorsTracked, InputTypeOK
  <2>5. CallsSoFar' /\ TableSoFar'
    BY <1>2, <2>1, <2>2 DEF CallsSoFar, TableSoFar
  <2> QED
    BY <2>3, <2>4, <2>5
<1>4. CASE kbm_fd' = NoFd /\ UNCHANGED <<dev, deviceState>>
  <2>1. InputTypeOK'
    BY <1>4 DEF InputTypeOK, deviceState
  <2>2. DescriptorsTracked'
    BY <1>2, <1>4 DEF DescriptorsTracked
  <2>3. CallsSoFar' /\ TableSoFar'
    BY <1>2, <1>4 DEF CallsSoFar, TableSoFar
  <2> QED
    BY <2>1, <2>2, <2>3
<1> QED
  BY <1>3, <1>4

LEMMA InputShutdownKeeps ==
    ASSUME InputInductive, NEW t \in Caller, input_shutdown(t)
    PROVE  InputInductive'
<1> USE InputAssumption, FieldsOfCalls DEF InputInductive
<1>1. DeviceTypeOK'
  BY CloseType DEF InputTypeOK, DeviceTypeOK, input_shutdown
<1>2. \A u \in Caller : inCall[u] = Out /\ inCall'[u] = Out
  BY NobodyInside DEF input_shutdown
<1>3. InputTypeOK'
  BY <1>1 DEF InputTypeOK, DeviceTypeOK, input_shutdown
<1>4. \A f \in Fd : dev'[f] \notin {"kbm", "pad", "setup"}
  BY <1>2 DEF DescriptorsTracked, input_shutdown, Close, InputTypeOK
<1>5. DescriptorsTracked'
  BY <1>2, <1>4 DEF DescriptorsTracked, input_shutdown
<1>6. CallsSoFar' /\ TableSoFar'
  BY <1>2 DEF CallsSoFar, TableSoFar, input_shutdown
<1> QED
  BY <1>3, <1>5, <1>6

\* The old device of slot s is closed and forgotten: what alloc and free share.
LEMMA SlotForgotten ==
    ASSUME InputInductive, NEW s \in PadSlot, kbm_fd # NoFd, UNCHANGED kbm_fd,
           Close({gp_fds[s]}), gp_fds' = [gp_fds EXCEPT ![s] = NoFd]
    PROVE  /\ {f \in Fd : dev'[f] = "kbm"} = {kbm_fd'} \ {NoFd}
           /\ {f \in Fd : dev'[f] = "pad"} = {gp_fds'[u] : u \in PadSlot} \ {NoFd, Stdin}
           /\ {f \in Fd : dev'[f] = "setup"} = {f \in Fd : dev[f] = "setup"}
           /\ \A v, u \in PadSlot : gp_fds'[v] = gp_fds'[u] /\ gp_fds'[v] \in Fd => v = u
           /\ TableSoFar'
           /\ DeviceTypeOK'
           /\ gp_fds' \in [PadSlot -> Fd \cup {NoFd, Stdin}]
<1> USE InputAssumption DEF InputInductive
<1>1. DeviceTypeOK'
  BY CloseType DEF InputTypeOK, DeviceTypeOK
<1>2. gp_fds' \in [PadSlot -> Fd \cup {NoFd, Stdin}]
  BY DEF InputTypeOK
<1>3. TableSoFar'
  BY DEF TableSoFar, InputTypeOK
<1>4. gp_fds[s] \in Fd => dev[gp_fds[s]] = "pad"
  <2> SUFFICES ASSUME gp_fds[s] \in Fd PROVE gp_fds[s] \in {f \in Fd : dev[f] = "pad"}
    OBVIOUS
  <2>1. gp_fds[s] \in {gp_fds[u] : u \in PadSlot} \ {NoFd, Stdin}
    OBVIOUS
  <2> QED
    BY <2>1 DEF DescriptorsTracked
<1>5. \A f \in Fd : dev'[f] = IF f = gp_fds[s] THEN "closed" ELSE dev[f]
  BY DEF Close
<1>6. \A v \in PadSlot : gp_fds'[v] = IF v = s THEN NoFd ELSE gp_fds[v]
  BY DEF InputTypeOK
<1>7. {f \in Fd : dev'[f] = "kbm"} = {kbm_fd'} \ {NoFd}
  BY <1>4, <1>5 DEF DescriptorsTracked
<1>8. {f \in Fd : dev'[f] = "setup"} = {f \in Fd : dev[f] = "setup"}
  BY <1>4, <1>5
<1>9. \A v, u \in PadSlot : gp_fds'[v] = gp_fds'[u] /\ gp_fds'[v] \in Fd => v = u
  BY <1>6 DEF DescriptorsTracked
<1>10. {f \in Fd : dev'[f] = "pad"} = {gp_fds'[u] : u \in PadSlot} \ {NoFd, Stdin}
  <2>1. ASSUME NEW f \in Fd, dev'[f] = "pad"
        PROVE  \E u \in PadSlot : gp_fds'[u] = f
    <3>1. f # gp_fds[s] /\ dev[f] = "pad"
      BY <1>5, <2>1
    <3>2. PICK u \in PadSlot : gp_fds[u] = f
      BY <3>1 DEF DescriptorsTracked
    <3> QED
      BY <3>1, <3>2, <1>6
  <2>2. ASSUME NEW u \in PadSlot, gp_fds'[u] \notin {NoFd, Stdin}
        PROVE  gp_fds'[u] \in Fd /\ dev'[gp_fds'[u]] = "pad"
    <3>1. u # s /\ gp_fds'[u] = gp_fds[u] /\ gp_fds[u] \in Fd
      BY <1>2, <1>6, <2>2
    <3>2. dev[gp_fds[u]] = "pad" /\ gp_fds[u] # gp_fds[s]
      BY <3>1, <2>2 DEF DescriptorsTracked
    <3> QED
      BY <3>1, <3>2, <1>5
  <2> QED
    BY <2>1, <2>2
<1> QED
  BY <1>1, <1>2, <1>3, <1>7, <1>8, <1>9, <1>10

LEMMA AllocSlotKeeps ==
    ASSUME InputInductive, NEW t \in Caller, NEW s \in PadSlot, input_alloc_slot(t, s)
    PROVE  InputInductive'
<1> USE InputAssumption, FieldsOfCalls, SlotForgotten DEF input_alloc_slot, Locked
<1>1. \A u \in Caller : /\ inCall[u] = Out
                        /\ inCall'[u] = IF u = t THEN Opening(s) ELSE Out
  BY NobodyInside DEF InputInductive, InputTypeOK
<1>2. InputTypeOK'
  BY FramesOfCalls DEF InputInductive, InputTypeOK, DeviceTypeOK
<1>3. DescriptorsTracked'
  <2>1. {f \in Fd : dev[f] = "setup"} = {}
    BY <1>1 DEF DescriptorsTracked, InputInductive
  <2>2. {inCall'[v].fd : v \in {u \in Caller : inCall'[u].pc = "create"}} = {}
    BY <1>1
  <2> QED
    BY <2>1, <2>2 DEF DescriptorsTracked
<1>4. CallsSoFar'
  BY <1>1 DEF CallsSoFar, InputInductive, InputTypeOK
<1> QED
  BY <1>2, <1>3, <1>4 DEF InputInductive

LEMMA FreeSlotKeeps ==
    ASSUME InputInductive, NEW t \in Caller, NEW s \in PadSlot, input_free_slot(t, s)
    PROVE  InputInductive'
<1> USE InputAssumption, FieldsOfCalls, SlotForgotten DEF input_free_slot
<1>1. \A u \in Caller : inCall[u] = Out /\ inCall'[u] = Out
  BY NobodyInside
<1>2. InputTypeOK'
  BY DEF InputInductive, InputTypeOK, DeviceTypeOK
<1>3. DescriptorsTracked'
  <2>1. {f \in Fd : dev[f] = "setup"} = {}
    BY <1>1 DEF DescriptorsTracked, InputInductive
  <2>2. {inCall'[v].fd : v \in {u \in Caller : inCall'[u].pc = "create"}} = {}
    BY <1>1
  <2> QED
    BY <2>1, <2>2 DEF DescriptorsTracked
<1>4. CallsSoFar'
  BY <1>1 DEF CallsSoFar
<1> QED
  BY <1>2, <1>3, <1>4 DEF InputInductive

LEMMA AllocOpensKeeps ==
    ASSUME InputInductive, NEW t \in Caller, alloc_opens(t)
    PROVE  InputInductive'
<1> DEFINE s == inCall[t].slot
<1> USE InputAssumption, FieldsOfCalls
<1>1. /\ inCall[t].pc = "open" /\ s \in PadSlot
      /\ kbm_fd # NoFd /\ gp_fds[s] = NoFd
      /\ UNCHANGED <<kbm_fd, gp_fds>>
  BY DEF alloc_opens, InputInductive, InputTypeOK, Frames, CallsSoFar
<1>2. \A u \in Caller : u # t => inCall[u] = Out
  BY <1>1, Alone
<1>3. {f \in Fd : dev[f] = "setup"} = {}
  BY <1>1, <1>2 DEF InputInductive, DescriptorsTracked
<1>4. CASE \E f \in Unused : Open(f, "setup") /\ Locked(t, Creating(s, f))
  <2>1. PICK f \in Unused : Open(f, "setup") /\ Locked(t, Creating(s, f))
    BY <1>4
  <2>2. f \in Fd /\ dev[f] = "closed" /\ dev' = [dev EXCEPT ![f] = "setup"]
    BY <2>1 DEF Unused, Open
  <2>3. \A u \in Caller : inCall'[u] = IF u = t THEN Creating(s, f) ELSE Out
    BY <1>2, <2>1 DEF Locked, InputInductive, InputTypeOK
  <2>4. DeviceTypeOK'
    BY <2>1, <2>2, OpenType DEF InputInductive, InputTypeOK, DeviceTypeOK
  <2>5. InputTypeOK'
    BY <1>1, <2>1, <2>2, <2>4, FramesOfCalls
       DEF InputInductive, InputTypeOK, DeviceTypeOK, Locked
  <2>6. DescriptorsTracked'
    <3>1. \A g \in Fd : dev'[g] = IF g = f THEN "setup" ELSE dev[g]
      BY <2>2 DEF InputInductive, InputTypeOK
    <3>2. {inCall'[v].fd : v \in {u \in Caller : inCall'[u].pc = "create"}} = {f}
      BY <2>3
    <3>3. {g \in Fd : dev'[g] = "setup"} = {f}
      BY <1>3, <3>1, <2>2
    <3>4. /\ {g \in Fd : dev'[g] = "kbm"} = {g \in Fd : dev[g] = "kbm"}
          /\ {g \in Fd : dev'[g] = "pad"} = {g \in Fd : dev[g] = "pad"}
      BY <2>2, <3>1
    <3> QED
      BY <1>1, <3>2, <3>3, <3>4 DEF InputInductive, DescriptorsTracked
  <2>7. CallsSoFar' /\ TableSoFar'
    BY <1>1, <2>1, <2>3 DEF CallsSoFar, TableSoFar, Locked, InputInductive
  <2> QED
    BY <2>5, <2>6, <2>7 DEF InputInductive
<1>5. CASE Unlocked(t) /\ UNCHANGED <<dev, deviceState>>
  <2>1. \A u \in Caller : inCall'[u] = Out
    BY <1>2, <1>5 DEF Unlocked, InputInductive, InputTypeOK
  <2>2. InputTypeOK'
    BY <1>1, <1>5, FramesOfCalls DEF InputInductive, InputTypeOK, Unlocked, deviceState
  <2>3. DescriptorsTracked'
    <3>1. {inCall'[v].fd : v \in {u \in Caller : inCall'[u].pc = "create"}} = {}
      BY <2>1
    <3> QED
      <4>1. kbm_fd' = kbm_fd /\ gp_fds' = gp_fds /\ dev' = dev
        BY <1>1, <1>5
      <4>2. DescriptorsTracked
        BY DEF InputInductive
      <4>3. \A c \in {"kbm", "pad", "setup"} :
               {f \in Fd : dev'[f] = c} = {f \in Fd : dev[f] = c}
        BY <4>1, Zenon
      <4>4. {f \in Fd : dev'[f] = "setup"} =
               {inCall'[v].fd : v \in {u \in Caller : inCall'[u].pc = "create"}}
        <5>1. {f \in Fd : dev'[f] = "setup"} = {}
          BY <1>3, <4>3
        <5> QED
          BY <3>1, <5>1, Zenon
      <4>5. {f \in Fd : dev'[f] = "kbm"} = {kbm_fd'} \ {NoFd}
        BY <4>1, <4>2, <4>3 DEF DescriptorsTracked
      <4>6. {f \in Fd : dev'[f] = "pad"} = {gp_fds'[v] : v \in PadSlot} \ {NoFd, Stdin}
        BY <4>1, <4>2, <4>3 DEF DescriptorsTracked
      <4>7. \A v, u \in PadSlot : gp_fds'[v] = gp_fds'[u] /\ gp_fds'[v] \in Fd => v = u
        BY <4>1, <4>2 DEF DescriptorsTracked
      <4> QED
        BY <4>4, <4>5, <4>6, <4>7, Zenon DEF DescriptorsTracked
  <2>4. CallsSoFar' /\ TableSoFar'
    BY <1>1, <2>1 DEF CallsSoFar, TableSoFar, InputInductive
  <2> QED
    BY <2>2, <2>3, <2>4 DEF InputInductive
<1> QED
  BY <1>4, <1>5 DEF alloc_opens

LEMMA AllocCreatesKeeps ==
    ASSUME InputInductive, NEW t \in Caller, alloc_creates(t)
    PROVE  InputInductive'
<1> DEFINE s == inCall[t].slot
           f == inCall[t].fd
<1> USE InputAssumption, FieldsOfCalls
<1>1. /\ inCall[t].pc = "create" /\ s \in PadSlot /\ f \in Fd
      /\ kbm_fd # NoFd /\ gp_fds[s] = NoFd
      /\ UNCHANGED kbm_fd /\ Unlocked(t)
  BY DEF alloc_creates, InputInductive, InputTypeOK, Frames, CallsSoFar
<1>2. \A u \in Caller : u # t => inCall[u] = Out
  BY <1>1, Alone
<1>3. {g \in Fd : dev[g] = "setup"} = {f}
  BY <1>1, <1>2 DEF InputInductive, DescriptorsTracked
<1>4. \A u \in Caller : inCall'[u] = Out
  BY <1>1, <1>2 DEF Unlocked, InputInductive, InputTypeOK
<1>5. {inCall'[v].fd : v \in {u \in Caller : inCall'[u].pc = "create"}} = {}
  BY <1>4
<1>6. \A u \in PadSlot : gp_fds[u] # f
  <2> SUFFICES ASSUME NEW u \in PadSlot, gp_fds[u] = f PROVE FALSE
    OBVIOUS
  <2>1. f \in {gp_fds[v] : v \in PadSlot} \ {NoFd, Stdin}
    BY <1>1
  <2> QED
    BY <2>1, <1>3 DEF InputInductive, DescriptorsTracked
<1>7. CASE Open(f, "pad") /\ gp_fds' = [gp_fds EXCEPT ![s] = f]
  <2>1. \A g \in Fd : dev'[g] = IF g = f THEN "pad" ELSE dev[g]
    BY <1>1, <1>7 DEF Open, InputInductive, InputTypeOK
  <2>2. \A u \in PadSlot : gp_fds'[u] = IF u = s THEN f ELSE gp_fds[u]
    BY <1>1, <1>7 DEF InputInductive, InputTypeOK
  <2>3. DeviceTypeOK'
    BY <1>1, <1>7, OpenType DEF InputInductive, InputTypeOK, DeviceTypeOK
  <2>4. InputTypeOK'
    BY <1>1, <1>7, <2>3, FramesOfCalls
       DEF InputInductive, InputTypeOK, DeviceTypeOK, Unlocked
  <2>5. DescriptorsTracked'
    <3>1. {g \in Fd : dev'[g] = "setup"} = {}
      BY <1>3, <2>1
    <3>2. {g \in Fd : dev'[g] = "kbm"} = {g \in Fd : dev[g] = "kbm"}
      BY <1>3, <2>1
    <3>3. {g \in Fd : dev'[g] = "pad"} = {g \in Fd : dev[g] = "pad"} \cup {f}
      BY <1>1, <2>1
    <3>4. {gp_fds'[u] : u \in PadSlot} \ {NoFd, Stdin}
              = ({gp_fds[u] : u \in PadSlot} \ {NoFd, Stdin}) \cup {f}
      BY <1>1, <2>2
    <3>5. \A v, u \in PadSlot : gp_fds'[v] = gp_fds'[u] /\ gp_fds'[v] \in Fd => v = u
      BY <1>6, <2>2 DEF InputInductive, DescriptorsTracked
    <3> QED
      BY <1>1, <1>5, <3>1, <3>2, <3>3, <3>4, <3>5 DEF InputInductive, DescriptorsTracked
  <2>6. CallsSoFar' /\ TableSoFar'
    BY <1>1, <1>4, <2>2 DEF CallsSoFar, TableSoFar, InputInductive
  <2> QED
    BY <2>4, <2>5, <2>6 DEF InputInductive
<1>8. CASE Close({f}) /\ UNCHANGED gp_fds
  <2>1. \A g \in Fd : dev'[g] = IF g = f THEN "closed" ELSE dev[g]
    BY <1>8 DEF Close
  <2>2. DeviceTypeOK'
    BY <1>8, CloseType DEF InputInductive, InputTypeOK, DeviceTypeOK
  <2>3. InputTypeOK'
    BY <1>1, <1>8, <2>2, FramesOfCalls
       DEF InputInductive, InputTypeOK, DeviceTypeOK, Unlocked
  <2>4. DescriptorsTracked'
    <3>1. {g \in Fd : dev'[g] = "setup"} = {}
      BY <1>3, <2>1
    <3>2. /\ {g \in Fd : dev'[g] = "kbm"} = {g \in Fd : dev[g] = "kbm"}
          /\ {g \in Fd : dev'[g] = "pad"} = {g \in Fd : dev[g] = "pad"}
      BY <1>3, <2>1
    <3> QED
      <4>1. kbm_fd' = kbm_fd /\ gp_fds' = gp_fds
        BY <1>1, <1>8
      <4>2. DescriptorsTracked
        BY DEF InputInductive
      <4>3. {g \in Fd : dev'[g] = "kbm"} = {kbm_fd'} \ {NoFd}
        BY <3>2, <4>1, <4>2 DEF DescriptorsTracked
      <4>4. {g \in Fd : dev'[g] = "pad"} = {gp_fds'[u] : u \in PadSlot} \ {NoFd, Stdin}
        BY <3>2, <4>1, <4>2 DEF DescriptorsTracked
      <4>5. \A v, u \in PadSlot : gp_fds'[v] = gp_fds'[u] /\ gp_fds'[v] \in Fd => v = u
        BY <4>1, <4>2 DEF DescriptorsTracked
      <4> QED
        BY <1>5, <3>1, <4>3, <4>4, <4>5 DEF DescriptorsTracked
  <2>5. CallsSoFar' /\ TableSoFar'
    BY <1>1, <1>4, <1>8 DEF CallsSoFar, TableSoFar, InputInductive
  <2> QED
    BY <2>3, <2>4, <2>5 DEF InputInductive
<1> QED
  BY <1>1, <1>7, <1>8 DEF alloc_creates

--------------------------------------------------------------------------------
(* What the devices show *)

USE DEF WritesTo

\* A device whose state has just been reset shows what is meant.
LEMMA BlankDevice ==
    ASSUME NEW f \in Fd, \A t \in Caller : ~WritesTo(t, f)',
           written'[f] = Neutral, seen'[f] = Neutral, meant'[f] = Neutral, torn'[f] = {}
    PROVE  DeviceSoFar(f)'
<1>1. DoneIsWritten(f)'
  BY NeutralIsNear DEF DoneIsWritten
<1> QED
  BY <1>1 DEF DeviceSoFar, TodoIsMeant, WrittenIsSeen, PadHasNoKeys, OthersAreBlank,
              Neutral

\* A step that leaves alone what it says of a device.
LEMMA SameDevice ==
    ASSUME NEW f \in Fd, DeviceSoFar(f),
           \A t \in Caller : WritesTo(t, f)' <=> WritesTo(t, f),
           \A t \in Caller : WritesTo(t, f) => inCall'[t].todo = inCall[t].todo,
           dev'[f] = dev[f], written'[f] = written[f], seen'[f] = seen[f],
           meant'[f] = meant[f], torn'[f] = torn[f]
    PROVE  DeviceSoFar(f)'
<1> USE DEF DeviceSoFar
<1>1. TodoIsMeant(f)'
  BY DEF TodoIsMeant
<1>2. DoneIsWritten(f)'
  BY DEF DoneIsWritten, Awaited
<1>3. WrittenIsSeen(f)'
  BY DEF WrittenIsSeen
<1>4. PadHasNoKeys(f)' /\ OthersAreBlank(f)'
  BY DEF PadHasNoKeys, OthersAreBlank
<1> QED
  BY <1>1, <1>2, <1>3, <1>4

\* Nobody writes before the step or after it: devices are opened and closed.
Quiet == \A t \in Caller : inCall[t].pc # "write"

LEMMA OpenDevice ==
    ASSUME DevicesSoFar, Quiet, Quiet', DeviceTypeOK,
           NEW f \in Fd, NEW kind, Open(f, kind), dev[f] \in {"closed", "setup"}
    PROVE  DevicesSoFar'
<1> SUFFICES ASSUME NEW g \in Fd PROVE DeviceSoFar(g)'
  BY DEF DevicesSoFar
<1>1. DeviceSoFar(g)
  BY DEF DevicesSoFar
<1>2. /\ written' = written /\ seen' = seen /\ meant' = meant /\ torn' = torn
      /\ dev'[g] = IF g = f THEN kind ELSE dev[g]
  BY DEF Open, deviceState, DeviceTypeOK
<1>3. CASE g = f
  BY <1>1, <1>2, <1>3, BlankDevice DEF DeviceSoFar, OthersAreBlank, Quiet
<1>4. CASE g # f
  BY <1>1, <1>2, <1>4, SameDevice DEF Quiet
<1> QED
  BY <1>3, <1>4

LEMMA CloseDevices ==
    ASSUME DevicesSoFar, Quiet, Quiet', NEW F, Close(F)
    PROVE  DevicesSoFar'
<1> SUFFICES ASSUME NEW g \in Fd PROVE DeviceSoFar(g)'
  BY DEF DevicesSoFar
<1>1. CASE g \in F
  <2>1. /\ written'[g] = Neutral /\ seen'[g] = Neutral
        /\ meant'[g] = Neutral /\ torn'[g] = {}
    BY <1>1 DEF Close
  <2> QED
    BY <2>1, BlankDevice DEF Quiet
<1>2. CASE g \notin F
  BY <1>2, SameDevice DEF Close, Quiet, DevicesSoFar
<1> QED
  BY <1>1, <1>2

\* The writes w to the device on f make it show m.
Fits(f, w, m) ==
    /\ dev[f] \in {"pad", "kbm"}
    /\ \A x \in w : /\ x.code # "BTN_MODE" => x.val = m[x.code]
                    /\ dev[f] = "pad" => x.code \in Control
    /\ \A c \in Code \ {"BTN_MODE"} :
           (\E x \in w : x.code = c) \/ m[c] = meant[f][c]
    /\ dev[f] = "pad" => \A c \in Code \ Control : m[c] = 0

\* A call begins to write.
LEMMA BeginShows ==
    ASSUME InputInductive, DevicesSoFar, NEW t \in Caller, MayCall(t),
           NEW f \in Desc, NEW w, Locked(t, Writing(f, w)), NEW m,
           meant' = [meant EXCEPT ![f] = m], UNCHANGED <<dev, written, seen, torn>>,
           f \in Fd => Fits(f, w, m)
    PROVE  DevicesSoFar'
<1> SUFFICES ASSUME NEW g \in Fd PROVE DeviceSoFar(g)'
  BY DEF DevicesSoFar
<1>1. \A u \in Caller : /\ inCall[u] = Out
                        /\ inCall'[u] = IF u = t THEN Writing(f, w) ELSE Out
  BY NobodyInside DEF InputInductive, InputTypeOK, Locked
<1>2. /\ \A u \in Caller : ~WritesTo(u, g)
      /\ \A u \in Caller : WritesTo(u, g)' <=> u = t /\ g = f
      /\ inCall'[t].todo = w
  <2>1. Writing(f, w).todo = w
    BY DEF Writing, Out
  <2> QED
    BY <1>1, <2>1, FieldsOfCalls
<1>3. \A h \in Desc : meant'[h] = IF h = f THEN m ELSE meant[h]
  BY DEF InputInductive, InputTypeOK
<1>4. DeviceSoFar(g)
  BY DEF DevicesSoFar
<1>5. CASE g # f
  BY <1>2, <1>3, <1>4, <1>5, SameDevice
<1>6. CASE g = f
  <2>1. TodoIsMeant(g)'
    BY <1>2, <1>3, <1>6 DEF TodoIsMeant, Fits
  <2>2. DoneIsWritten(g)'
    <3> SUFFICES ASSUME NEW c \in Code \ {"BTN_MODE"}
                 PROVE  c \in torn'[g] \/ Awaited(g, c)' \/ Near(c, written'[g][c], meant'[g][c])
      BY DEF DoneIsWritten
    <3>1. ~Awaited(g, c)
      BY <1>2 DEF Awaited
    <3>2. c \in torn[g] \/ Near(c, written[g][c], meant[g][c])
      BY <1>4, <3>1 DEF DeviceSoFar, DoneIsWritten
    <3>3. CASE \E x \in w : x.code = c
      BY <1>2, <1>6, <3>3 DEF Awaited
    <3>4. CASE m[c] = meant[f][c]
      BY <1>3, <1>6, <3>2, <3>4
    <3> QED
      BY <1>6, <3>3, <3>4 DEF Fits
  <2>3. WrittenIsSeen(g)'
    BY <1>2, <1>6 DEF WrittenIsSeen
  <2>4. PadHasNoKeys(g)' /\ OthersAreBlank(g)'
    BY <1>3, <1>4, <1>6 DEF DeviceSoFar, PadHasNoKeys, OthersAreBlank, Fits
  <2> QED
    BY <2>1, <2>2, <2>3, <2>4 DEF DeviceSoFar
<1> QED
  BY <1>5, <1>6

\* A step that touches no device.
LEMMA NothingShown ==
    ASSUME DevicesSoFar, Quiet, Quiet', UNCHANGED <<dev, deviceState>>
    PROVE  DevicesSoFar'
<1> SUFFICES ASSUME NEW g \in Fd PROVE DeviceSoFar(g)'
  BY DEF DevicesSoFar
<1> QED
  BY SameDevice DEF DevicesSoFar, Quiet, deviceState

\* The descriptors in the table are devices, and so is one that is written to.
LEMMA PadsInTable ==
    ASSUME InputInductive, NEW s \in PadSlot, gp_fds[s] # NoFd
    PROVE  gp_fds[s] \in Desc /\ (gp_fds[s] \in Fd => dev[gp_fds[s]] = "pad")
<1>1. gp_fds[s] \in Desc
  BY DEF InputInductive, InputTypeOK
<1>2. ASSUME gp_fds[s] \in Fd PROVE dev[gp_fds[s]] = "pad"
  <2>1. gp_fds[s] \in {gp_fds[u] : u \in PadSlot} \ {NoFd, Stdin}
    BY <1>2, InputAssumption
  <2>2. gp_fds[s] \in {g \in Fd : dev[g] = "pad"}
    BY <2>1 DEF InputInductive, DescriptorsTracked
  <2> QED
    BY <2>2
<1> QED
  BY <1>1, <1>2

LEMMA KbmInTable ==
    ASSUME InputInductive, kbm_fd # NoFd
    PROVE  kbm_fd \in Fd /\ dev[kbm_fd] = "kbm"
<1>1. kbm_fd \in {g \in Fd : dev[g] = "kbm"}
  BY DEF InputInductive, DescriptorsTracked
<1> QED
  BY <1>1

LEMMA WrittenIsDevice ==
    ASSUME InputInductive, NEW t \in Caller, NEW f \in Fd, WritesTo(t, f)
    PROVE  dev[f] \in {"pad", "kbm"}
<1>1. f \in {kbm_fd} \cup {gp_fds[s] : s \in PadSlot}
  BY DEF InputInductive, CallsSoFar
<1>2. CASE f = kbm_fd
  BY <1>2, InputAssumption, KbmInTable
<1>3. CASE \E s \in PadSlot : f = gp_fds[s]
  BY <1>3, InputAssumption, PadsInTable
<1> QED
  BY <1>1, <1>2, <1>3

\* emit: one write less to do; it is done, or its code is torn.
LEMMA EmitShows ==
    ASSUME InputInductive, DevicesSoFar, NEW t \in Caller, emit(t)
    PROVE  DevicesSoFar'
<1> DEFINE f == inCall[t].fd
<1>1. PICK w \in inCall[t].todo :
           /\ inCall' = [inCall EXCEPT ![t].todo = @ \ {w}]
           /\ \/ /\ written' = [written EXCEPT
                                   ![f][w.code] = Defuzz(Fuzz(w.code), @, w.val)]
                 /\ torn' = [torn EXCEPT ![f] = @ \ {w.code}]
              \/ /\ torn' = [torn EXCEPT ![f] = @ \cup {w.code}]
                 /\ UNCHANGED written
  BY DEF emit
<1>2. inCall[t] \in [pc : {"write"}, slot : PadSlot, fd : Desc, todo : Writes]
  BY FieldsOfCalls DEF emit, InputInductive, InputTypeOK, Frames
<1>3. w.code \in Code /\ w.val \in Int /\ f \in Desc
  BY <1>1, <1>2 DEF Writes
<1>4. \A u \in Caller : /\ inCall'[u].pc = inCall[u].pc /\ inCall'[u].fd = inCall[u].fd
                        /\ inCall'[u].todo = IF u = t THEN inCall[u].todo \ {w}
                                                     ELSE inCall[u].todo
                        /\ u # t => inCall[u].pc # "write"
  <2>1. inCall' = [inCall EXCEPT ![t] = [inCall[t] EXCEPT !.todo = @ \ {w}]]
    BY <1>1
  <2>2. inCall \in [Caller -> Frames]
    BY DEF InputInductive, InputTypeOK
  <2>3. \A u \in Caller \ {t} : inCall'[u] = inCall[u] /\ inCall[u].pc # "write"
    BY <1>2, <2>1, <2>2, Alone, FieldsOfCalls
  <2>4. inCall'[t] = [inCall[t] EXCEPT !.todo = inCall[t].todo \ {w}]
    BY <2>1, <2>2
  <2>5. /\ inCall'[t].pc = inCall[t].pc /\ inCall'[t].fd = inCall[t].fd
        /\ inCall'[t].todo = inCall[t].todo \ {w}
    BY <1>2, <2>4
  <2> QED
    BY <2>3, <2>5
<1>5. dev' = dev /\ seen' = seen /\ meant' = meant
  BY DEF emit
<1>6. SUFFICES ASSUME NEW g \in Fd PROVE DeviceSoFar(g)'
  BY DEF DevicesSoFar
<1>7. DeviceSoFar(g)
  BY DEF DevicesSoFar
<1>8. \A u \in Caller : /\ WritesTo(u, g) <=> u = t /\ g = f
                        /\ WritesTo(u, g)' <=> u = t /\ g = f
  BY <1>2, <1>4
<1>9. /\ written \in [Desc -> [Code -> Int]]
      /\ torn \in [Desc -> SUBSET (Code \cup {"SYN"})]
  BY DEF InputInductive, InputTypeOK
<1> HIDE DEF f
<1>10. CASE g # f
  <2>1. written'[g] = written[g] /\ torn'[g] = torn[g]
    BY <1>1, <1>3, <1>9, <1>10
  <2> QED
    BY <1>5, <1>7, <1>8, <1>10, <2>1, SameDevice
<1>11. CASE g = f
  <2>1. TodoIsMeant(g)'
    BY <1>4, <1>5, <1>7, <1>8, <1>11 DEF DeviceSoFar, TodoIsMeant
  <2>2. DoneIsWritten(g)'
    <3> SUFFICES ASSUME NEW c \in Code \ {"BTN_MODE"}
                 PROVE  c \in torn'[g] \/ Awaited(g, c)' \/ Near(c, written'[g][c], meant'[g][c])
      BY DEF DoneIsWritten
    <3>1. CASE c = w.code
      <4>1. w.val = meant[g][c]
        BY <1>1, <1>7, <1>8, <1>11, <3>1 DEF DeviceSoFar, TodoIsMeant
      <4>2. \/ c \in torn'[g]
            \/ written'[g][c] = Defuzz(Fuzz(c), written[g][c], w.val)
        BY <1>1, <1>3, <1>9, <1>11, <3>1
      <4>3. written[g][c] \in Int
        BY <1>9
      <4>4. Near(c, Defuzz(Fuzz(c), written[g][c], w.val), w.val)
        BY <1>3, <4>3, DefuzzFacts
      <4> QED
        BY <1>5, <4>1, <4>2, <4>4
    <3>2. CASE c # w.code
      <4>1. written'[g][c] = written[g][c]
        BY <1>1, <1>3, <1>9, <1>11, <3>2
      <4>2. c \in torn'[g] <=> c \in torn[g]
        BY <1>1, <1>3, <1>9, <1>11, <3>2
      <4>3. Awaited(g, c) => Awaited(g, c)'
        BY <1>4, <1>8, <1>11, <3>2 DEF Awaited
      <4> QED
        BY <1>5, <1>7, <4>1, <4>2, <4>3 DEF DeviceSoFar, DoneIsWritten
    <3> QED
      BY <3>1, <3>2
  <2>3. WrittenIsSeen(g)'
    BY <1>8, <1>11 DEF WrittenIsSeen
  <2>4. PadHasNoKeys(g)'
    <3> SUFFICES ASSUME dev[g] = "pad", NEW c \in Code \ Control
                 PROVE  written'[g][c] = 0 /\ meant'[g][c] = 0
      BY <1>5 DEF PadHasNoKeys
    <3>1. w.code \in Control
      BY <1>1, <1>7, <1>8, <1>11 DEF DeviceSoFar, TodoIsMeant
    <3>2. written'[g][c] = written[g][c]
      BY <1>1, <1>3, <1>9, <1>11, <3>1
    <3> QED
      BY <1>5, <1>7, <3>2 DEF DeviceSoFar, PadHasNoKeys
  <2>5. OthersAreBlank(g)'
    <3>1. dev[g] \in {"pad", "kbm"}
      BY <1>8, <1>11, WrittenIsDevice
    <3> QED
      BY <1>5, <3>1 DEF OthersAreBlank
  <2> QED
    BY <2>1, <2>2, <2>3, <2>4, <2>5 DEF DeviceSoFar
<1> QED
  BY <1>10, <1>11

\* syn: readers see what is written, or the report itself is torn.
LEMMA SynShows ==
    ASSUME InputInductive, DevicesSoFar, NEW t \in Caller, syn(t)
    PROVE  DevicesSoFar'
<1> DEFINE f == inCall[t].fd
<1>1. inCall[t].pc = "write" /\ f \in Desc /\ inCall[t].todo = {}
  BY FieldsOfCalls DEF syn, InputInductive, InputTypeOK, Frames
<1>2. \A u \in Caller : /\ u # t => inCall[u] = Out
                        /\ inCall'[u] = Out
  BY <1>1, Alone DEF syn, Unlocked, InputInductive, InputTypeOK
<1>3. dev' = dev /\ written' = written /\ meant' = meant
  BY DEF syn
<1>4. \/ /\ seen' = [seen EXCEPT ![f] = written[f]]
         /\ torn' = [torn EXCEPT ![f] = @ \ {"SYN"}]
      \/ /\ torn' = [torn EXCEPT ![f] = @ \cup {"SYN"}]
         /\ UNCHANGED seen
  BY DEF syn
<1>5. SUFFICES ASSUME NEW g \in Fd PROVE DeviceSoFar(g)'
  BY DEF DevicesSoFar
<1>6. DeviceSoFar(g)
  BY DEF DevicesSoFar
<1>7. \A u \in Caller : /\ WritesTo(u, g) <=> u = t /\ g = f
                        /\ ~WritesTo(u, g)'
  BY <1>1, <1>2, FieldsOfCalls
<1>8. /\ seen \in [Desc -> [Code -> Int]]
      /\ torn \in [Desc -> SUBSET (Code \cup {"SYN"})]
  BY DEF InputInductive, InputTypeOK
<1> HIDE DEF f
<1>9. CASE g # f
  <2>1. seen'[g] = seen[g] /\ torn'[g] = torn[g]
    BY <1>1, <1>4, <1>8, <1>9
  <2> QED
    BY <1>3, <1>6, <1>7, <1>9, <2>1, SameDevice
<1>10. CASE g = f
  <2>1. TodoIsMeant(g)'
    BY <1>7 DEF TodoIsMeant
  <2>2. DoneIsWritten(g)'
    <3> SUFFICES ASSUME NEW c \in Code \ {"BTN_MODE"}
                 PROVE  c \in torn'[g] \/ Near(c, written'[g][c], meant'[g][c])
      BY DEF DoneIsWritten
    <3>1. c \in torn'[g] <=> c \in torn[g]
      BY <1>1, <1>4, <1>8, <1>10, NoSynCode
    <3>2. ~Awaited(g, c)
      BY <1>1, <1>7 DEF Awaited
    <3> QED
      BY <1>3, <1>6, <3>1, <3>2 DEF DeviceSoFar, DoneIsWritten
  <2>3. WrittenIsSeen(g)'
    <3>1. "SYN" \in torn'[g] \/ seen'[g] = written[g]
      BY <1>1, <1>4, <1>8, <1>10
    <3> QED
      BY <1>3, <3>1 DEF WrittenIsSeen
  <2>4. PadHasNoKeys(g)'
    BY <1>3, <1>6 DEF DeviceSoFar, PadHasNoKeys
  <2>5. OthersAreBlank(g)'
    <3>1. dev[g] \in {"pad", "kbm"}
      BY <1>7, <1>10, WrittenIsDevice
    <3> QED
      BY <1>3, <3>1 DEF OthersAreBlank
  <2> QED
    BY <2>1, <2>2, <2>3, <2>4, <2>5 DEF DeviceSoFar
<1> QED
  BY <1>9, <1>10

\* The four calls that write, by BeginShows.
LEMMA SubmitGamepadShows ==
    ASSUME InputInductive, DevicesSoFar, NEW t \in Caller, NEW s \in PadSlot,
           NEW r \in Request, input_submit_gamepad(t, s, r)
    PROVE  DevicesSoFar'
<1> DEFINE f == gp_fds[s]
           w == PacketWrites(Pack(r))
           m == Shown(r)
<1>1. f \in Desc /\ (f \in Fd => dev[f] = "pad")
  BY PadsInTable DEF input_submit_gamepad
<1>2. \A x \in w : x.code \in Control /\ (x.code # "BTN_MODE" => x.val = m[x.code])
  <2> SUFFICES ASSUME NEW i \in Looked(PacketOrder)
               PROVE  LET c == PacketOrder[i]
                      IN  /\ c \in Control
                          /\ c # "BTN_MODE" => Emitted(Pack(r), c) = m[c]
    BY DEF PacketWrites
  <2>1. PacketOrder[i] \in Control
    BY DEF Looked
  <2> QED
    BY <2>1, PacketSaysRequest DEF Shown, Code
<1>3. \A c \in Control : \E x \in w : x.code = c
  <2> SUFFICES ASSUME NEW c \in Control PROVE \E x \in w : x.code = c
    OBVIOUS
  <2>1. PICK i \in Looked(PacketOrder) : PacketOrder[i] = c
    BY OrderOfPacket
  <2> DEFINE x == [at |-> i, code |-> PacketOrder[i], val |-> Emitted(Pack(r), PacketOrder[i])]
  <2>2. x \in w /\ x.code = c
    BY <2>1 DEF PacketWrites
  <2> QED
    BY <2>2
<1>4. \A c \in Code \ Control : m[c] = 0
  BY DEF Shown
<1>5. f \in Fd => \A c \in Code \ Control : meant[f][c] = 0
  BY <1>1 DEF DevicesSoFar, DeviceSoFar, PadHasNoKeys
<1>6. /\ MayCall(t) /\ Locked(t, Writing(f, w)) /\ meant' = [meant EXCEPT ![f] = m]
      /\ UNCHANGED <<dev, written, seen, torn>>
  BY DEF input_submit_gamepad, Begin
<1> HIDE DEF f, w, m
<1>7. f \in Fd => Fits(f, w, m)
  BY <1>1, <1>2, <1>3, <1>4, <1>5 DEF Fits
<1> QED
  BY <1>1, <1>6, <1>7, BeginShows

LEMMA FlushSlotShows ==
    ASSUME InputInductive, DevicesSoFar, NEW t \in Caller, NEW s \in PadSlot,
           input_flush_slot(t, s)
    PROVE  DevicesSoFar'
<1> DEFINE f == gp_fds[s]
           w == FlushWrites
           m == Neutral
<1>1. f \in Desc /\ (f \in Fd => dev[f] = "pad")
  BY PadsInTable DEF input_flush_slot
<1>2. \A x \in w : x.code \in Control /\ x.val = m[x.code]
  BY DEF FlushWrites, Looked, Neutral, Code
<1>3. \A c \in Control : \E x \in w : x.code = c
  <2> SUFFICES ASSUME NEW c \in Control PROVE \E x \in w : x.code = c
    OBVIOUS
  <2>1. PICK i \in Looked(FlushOrder) : FlushOrder[i] = c
    BY OrderOfFlush
  <2> DEFINE x == [at |-> i, code |-> FlushOrder[i], val |-> 0]
  <2>2. x \in w /\ x.code = c
    BY <2>1 DEF FlushWrites
  <2> QED
    BY <2>2
<1>4. \A c \in Code \ Control : m[c] = 0
  BY DEF Neutral
<1>5. f \in Fd => \A c \in Code \ Control : meant[f][c] = 0
  BY <1>1 DEF DevicesSoFar, DeviceSoFar, PadHasNoKeys
<1>6. /\ MayCall(t) /\ Locked(t, Writing(f, w)) /\ meant' = [meant EXCEPT ![f] = m]
      /\ UNCHANGED <<dev, written, seen, torn>>
  BY DEF input_flush_slot, Begin
<1> HIDE DEF f, w, m
<1>7. f \in Fd => Fits(f, w, m)
  BY <1>1, <1>2, <1>3, <1>4, <1>5 DEF Fits
<1> QED
  BY <1>1, <1>6, <1>7, BeginShows

LEMMA SubmitKeyShows ==
    ASSUME InputInductive, DevicesSoFar, NEW t \in Caller, NEW k \in Key,
           NEW val \in {0, 1}, input_submit_key(t, k, val)
    PROVE  DevicesSoFar'
<1>1. kbm_fd \in Fd /\ dev[kbm_fd] = "kbm" /\ meant[kbm_fd] \in [Code -> Int]
  BY KbmInTable DEF input_submit_key, InputInductive, InputTypeOK
<1>2. PICK code \in key_name_to_code(k) :
          Begin(t, kbm_fd, {[at |-> 1, code |-> code, val |-> val]},
                [meant[kbm_fd] EXCEPT ![code] = val])
  BY DEF input_submit_key
<1> DEFINE w == {[at |-> 1, code |-> code, val |-> val]}
           m == [meant[kbm_fd] EXCEPT ![code] = val]
<1>3. code \in Code
  BY <1>2 DEF Code
<1>4. \A x \in w : x.code = code /\ x.val = val
  OBVIOUS
<1>5. \A c \in Code : m[c] = IF c = code THEN val ELSE meant[kbm_fd][c]
  BY <1>1, <1>3
<1>6. \A c \in Code : (\E x \in w : x.code = c) \/ m[c] = meant[kbm_fd][c]
  BY <1>4, <1>5
<1>7. /\ MayCall(t) /\ Locked(t, Writing(kbm_fd, w))
      /\ meant' = [meant EXCEPT ![kbm_fd] = m]
      /\ UNCHANGED <<dev, written, seen, torn>>
  BY <1>2 DEF input_submit_key, Begin
<1> HIDE DEF w, m
<1>8. Fits(kbm_fd, w, m)
  BY <1>1, <1>3, <1>4, <1>5, <1>6 DEF Fits
<1> QED
  BY <1>1, <1>7, <1>8, BeginShows

LEMMA MousemoveShows ==
    ASSUME InputInductive, DevicesSoFar, NEW t \in Caller, input_submit_mousemove(t)
    PROVE  DevicesSoFar'
<1>1. kbm_fd \in Fd /\ dev[kbm_fd] = "kbm"
  BY KbmInTable DEF input_submit_mousemove
<1>2. meant' = [meant EXCEPT ![kbm_fd] = meant[kbm_fd]]
  BY <1>1 DEF input_submit_mousemove, deviceState, InputInductive, InputTypeOK
<1>3. /\ MayCall(t) /\ Locked(t, Writing(kbm_fd, {}))
      /\ UNCHANGED <<dev, written, seen, torn>>
  BY DEF input_submit_mousemove, deviceState
<1>4. Fits(kbm_fd, {}, meant[kbm_fd])
  BY <1>1 DEF Fits
<1> QED
  BY <1>1, <1>2, <1>3, <1>4, BeginShows

\* The six steps that open and close descriptors.
LEMMA InitShows == ASSUME InputInductive, DevicesSoFar, input_init PROVE DevicesSoFar'
<1>1. Quiet /\ Quiet' /\ DeviceTypeOK
  BY FieldsOfCalls DEF input_init, Quiet, DeviceTypeOK, InputInductive, InputTypeOK
<1>2. CASE \E f \in Unused : Open(f, "kbm")
  BY <1>1, <1>2, OpenDevice DEF Unused
<1>3. CASE UNCHANGED <<dev, deviceState>>
  BY <1>1, <1>3, NothingShown
<1> QED
  BY <1>2, <1>3 DEF input_init

LEMMA ShutdownShows ==
    ASSUME InputInductive, DevicesSoFar, NEW t \in Caller, input_shutdown(t)
    PROVE  DevicesSoFar'
<1>1. Quiet /\ Quiet'
  BY NobodyInside, FieldsOfCalls DEF input_shutdown, Quiet
<1> QED
  BY <1>1, CloseDevices DEF input_shutdown

LEMMA SlotShows ==
    ASSUME InputInductive, DevicesSoFar, NEW t \in Caller, NEW s \in PadSlot,
           input_alloc_slot(t, s) \/ input_free_slot(t, s)
    PROVE  DevicesSoFar'
<1>1. MayCall(t) /\ Close({gp_fds[s]})
  BY DEF input_alloc_slot, input_free_slot
<1>2. \A u \in Caller : inCall[u] = Out /\ inCall'[u] \in {Out, Opening(s)}
  BY <1>1, NobodyInside
     DEF input_alloc_slot, input_free_slot, Locked, InputInductive, InputTypeOK
<1>3. Quiet /\ Quiet'
  BY <1>2, FieldsOfCalls DEF Quiet
<1> QED
  BY <1>1, <1>3, CloseDevices

LEMMA AllocShows ==
    ASSUME InputInductive, DevicesSoFar, NEW t \in Caller,
           alloc_opens(t) \/ alloc_creates(t)
    PROVE  DevicesSoFar'
<1>1. inCall[t].pc \in {"open", "create"}
  BY DEF alloc_opens, alloc_creates
<1>2. \A u \in Caller \ {t} : inCall[u] = Out
  BY <1>1, Alone
<1>3. inCall \in [Caller -> Frames] /\ DeviceTypeOK
  BY DEF DeviceTypeOK, InputInductive, InputTypeOK
<1>4. Quiet
  BY <1>1, <1>2, FieldsOfCalls DEF Quiet
<1>5. CASE \E f \in Unused : Open(f, "setup") /\ Locked(t, Creating(inCall[t].slot, f))
  <2>1. PICK f \in Unused : Open(f, "setup") /\ Locked(t, Creating(inCall[t].slot, f))
    BY <1>5
  <2>2. Quiet'
    BY <1>2, <1>3, <2>1, FieldsOfCalls DEF Locked, Quiet
  <2> QED
    BY <1>3, <1>4, <2>1, <2>2, OpenDevice DEF Unused
<1>6. CASE /\ Unlocked(t)
           /\ \/ UNCHANGED <<dev, deviceState>>
              \/ Close({inCall[t].fd})
              \/ inCall[t].pc = "create" /\ Open(inCall[t].fd, "pad")
  <2>1. Quiet'
    BY <1>2, <1>3, <1>6, FieldsOfCalls DEF Unlocked, Quiet
  <2>2. CASE UNCHANGED <<dev, deviceState>>
    BY <1>4, <2>1, <2>2, NothingShown
  <2>3. CASE Close({inCall[t].fd})
    BY <1>4, <2>1, <2>3, CloseDevices
  <2>4. CASE inCall[t].pc = "create" /\ Open(inCall[t].fd, "pad")
    <3>1. inCall[t].fd \in Fd /\ dev[inCall[t].fd] = "setup"
      <4>1. inCall[t].fd \in {g \in Fd : dev[g] = "setup"}
        BY <2>4 DEF InputInductive, DescriptorsTracked
      <4> QED
        BY <4>1
    <3> QED
      BY <1>3, <1>4, <2>1, <2>4, <3>1, OpenDevice
  <2> QED
    BY <1>6, <2>2, <2>3, <2>4
<1> QED
  BY <1>5, <1>6 DEF alloc_opens, alloc_creates

LEMMA DevicesInitially == InputInit => DevicesSoFar
<1> SUFFICES ASSUME InputInit, NEW f \in Fd PROVE DeviceSoFar(f)
  BY DEF DevicesSoFar
<1>1. \A t \in Caller : ~WritesTo(t, f)
  BY FieldsOfCalls DEF InputInit
<1>2. /\ written[f] = Neutral /\ seen[f] = Neutral /\ meant[f] = Neutral
      /\ torn[f] = {}
  BY DEF InputInit
<1>3. DoneIsWritten(f)
  BY <1>2, NeutralIsNear DEF DoneIsWritten
<1> QED
  BY <1>1, <1>2, <1>3 DEF DeviceSoFar, TodoIsMeant, WrittenIsSeen, PadHasNoKeys,
                          OthersAreBlank, Neutral

LEMMA DevicesStep ==
    InputInductive /\ DevicesSoFar /\ [InputNext]_inputVars => DevicesSoFar'
<1> SUFFICES ASSUME InputInductive, DevicesSoFar, [InputNext]_inputVars
             PROVE  DevicesSoFar'
  OBVIOUS
<1>1. CASE UNCHANGED inputVars
  <2> SUFFICES ASSUME NEW f \in Fd PROVE DeviceSoFar(f)'
    BY DEF DevicesSoFar
  <2> QED
    BY <1>1, SameDevice DEF inputVars, DevicesSoFar
<1>2. CASE input_init
  BY <1>2, InitShows
<1>3. ASSUME NEW t \in Caller, Goes(t)
      PROVE  DevicesSoFar'
  BY <1>3, AllocShows, EmitShows, SynShows DEF Goes
<1>4. ASSUME NEW t \in Caller,
             refused(t) \/ input_shutdown(t) \/ input_submit_mousemove(t)
      PROVE  DevicesSoFar'
  BY <1>1, <1>4, ShutdownShows, MousemoveShows DEF refused
<1>5. ASSUME NEW t \in Caller, NEW k \in Key, NEW val \in {0, 1},
             input_submit_key(t, k, val)
      PROVE  DevicesSoFar'
  BY <1>5, SubmitKeyShows
<1>6. ASSUME NEW t \in Caller, NEW s \in PadSlot,
             \/ input_alloc_slot(t, s) \/ input_free_slot(t, s) \/ input_flush_slot(t, s)
             \/ \E r \in Request : input_submit_gamepad(t, s, r)
      PROVE  DevicesSoFar'
  BY <1>6, SlotShows, FlushSlotShows, SubmitGamepadShows
<1> QED
  BY <1>1, <1>2, <1>3, <1>4, <1>5, <1>6 DEF InputNext

--------------------------------------------------------------------------------
(* The theorems *)

\* Every step keeps the invariant.
LEMMA InputStep == InputInductive /\ [InputNext]_inputVars => InputInductive'
<1> SUFFICES ASSUME InputInductive, [InputNext]_inputVars PROVE InputInductive'
  OBVIOUS
<1>1. CASE UNCHANGED inputVars
  BY <1>1 DEF inputVars, InputInductive, InputTypeOK, DescriptorsTracked, CallsSoFar,
              TableSoFar
<1>2. CASE input_init
  BY <1>2, InitKeeps
<1>3. ASSUME NEW t \in Caller, Goes(t)
      PROVE  InputInductive'
  BY <1>3, AllocOpensKeeps, AllocCreatesKeeps, EmitKeeps, SynKeeps DEF Goes
<1>4. ASSUME NEW t \in Caller,
             refused(t) \/ input_shutdown(t) \/ input_submit_mousemove(t)
      PROVE  InputInductive'
  BY <1>1, <1>4, InputShutdownKeeps, MousemoveKeeps DEF refused
<1>5. ASSUME NEW t \in Caller, NEW k \in Key, NEW val \in {0, 1},
             input_submit_key(t, k, val)
      PROVE  InputInductive'
  BY <1>5, SubmitKeyKeeps
<1>6. ASSUME NEW t \in Caller, NEW s \in PadSlot,
             \/ input_alloc_slot(t, s) \/ input_free_slot(t, s) \/ input_flush_slot(t, s)
             \/ \E r \in Request : input_submit_gamepad(t, s, r)
      PROVE  InputInductive'
  BY <1>6, AllocSlotKeeps, FreeSlotKeeps, FlushSlotKeeps, SubmitGamepadKeeps
<1> QED
  BY <1>1, <1>2, <1>3, <1>4, <1>5, <1>6 DEF InputNext

LEMMA InputInvariance == InputSafety => []InputInductive
<1> QED
  BY InputInitially, InputStep, PTL DEF InputSafety

\* input_linux.c keeps its types: in particular an allocation whose open failed
\* never goes on with a descriptor it does not have.
THEOREM InputTypes == InputSafety => []InputTypeOK
<1>1. InputInductive => InputTypeOK
  BY DEF InputInductive
<1> QED
  BY <1>1, InputInvariance, PTL

\* input_alloc_slot, input_free_slot, input_shutdown and input_init account for
\* every descriptor, on every failure path.
THEOREM DescriptorsAreTracked == InputSafety => []DescriptorsTracked
<1>1. InputInductive => DescriptorsTracked
  BY DEF InputInductive
<1> QED
  BY <1>1, InputInvariance, PTL

\* Once the SDK has been initialised before its first call, no write of a packet,
\* a flush or a key goes to a descriptor that is not a device of the SDK.
THEOREM WritesStayOnDevices ==
    ASSUME ~EARLY_CALLS
    PROVE  InputSafety => []WritesToOwnDevices
<1>1. InputInductive => WritesToOwnDevices
  <2> SUFFICES ASSUME InputInductive, NEW t \in Caller, inCall[t].pc = "write"
               PROVE  dev[inCall[t].fd] \in {"pad", "kbm"}
    BY DEF WritesToOwnDevices
  <2> DEFINE f == inCall[t].fd
  <2>1. f \in Fd /\ f \in {kbm_fd} \cup {gp_fds[s] : s \in PadSlot}
    BY DEF InputInductive, CallsSoFar
  <2>2. f \in ({kbm_fd} \ {NoFd}) \cup ({gp_fds[s] : s \in PadSlot} \ {NoFd, Stdin})
    BY <2>1, InputAssumption
  <2> QED
    BY <2>2 DEF InputInductive, DescriptorsTracked
<1> QED
  BY <1>1, InputInvariance, PTL

\* input_submit_gamepad, input_flush_slot and input_submit_kbm: whatever the callers
\* interleave and whichever writes fail, a device at rest shows the last packet
\* whole and the last event of each key, but for the codes whose write failed and
\* the guide button: exactly for what has no fuzz, and within 16 for a stick.
THEOREM DevicesShowRequests == InputSafety => []DeviceShowsRequests
<1>1. InputInductive /\ DevicesSoFar => DeviceShowsRequests
  BY DEF DevicesSoFar, DeviceSoFar, DoneIsWritten, WrittenIsSeen, Awaited,
         DeviceShowsRequests, ShowsWhatIsMeant
<1>2. InputSafety => [](InputInductive /\ DevicesSoFar)
  BY InputInitially, InputStep, DevicesInitially, DevicesStep, PTL DEF InputSafety
<1> QED
  BY <1>1, <1>2, PTL

================================================================================
