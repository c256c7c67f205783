---------------------------- MODULE SignalingProofs ----------------------------
(***************************************************************************)
(* Proofs about the signaling server, for any set of connections and any   *)
(* table length.                                                           *)
(***************************************************************************)
EXTENDS Signaling, FiniteSetTheorems, WellFoundedInduction, TLAPS

USE DEF Thread

--------------------------------------------------------------------------------
(* Lemmas about the table *)

\* The linear search of ESTABLISHED, CLOSED and RECEIVE finds an index whenever
\* there is one to find.
LEMMA FirstIsMember ==
    ASSUME NEW S \in SUBSET Slot, S # {}
    PROVE  First(S) \in S
<1> DEFINE Less == {ss \in Nat \X Nat : ss[1] < ss[2]}
<1>1. IsWellFoundedOn(Less, Nat)
  BY NatLessThanWellFounded DEF OpToRel
<1>2. S \subseteq Nat
  BY BaseAssumption DEF Slot
<1>3. PICK i \in S : \A j \in S : ~(<<j, i>> \in Less)
  <2> HIDE DEF Less
  <2> QED BY <1>1, <1>2, WFMin
<1>4. \A j \in S : ~(j < i)
  BY <1>2, <1>3
<1>5. \A j \in S : i =< j
  BY <1>2, <1>4
<1> QED
  BY <1>5 DEF First

\* The table has MAX_VIEWERS entries, so counting its entries is meaningful.
LEMMA OccupiedFinite ==
    /\ IsFiniteSet(Occupied)
    /\ Cardinality(Occupied) \in 0 .. MAX_VIEWERS
<1>1. IsFiniteSet(Slot) /\ Cardinality(Slot) = MAX_VIEWERS
  BY FS_Interval, BaseAssumption DEF Slot
<1>2. Occupied \in SUBSET Slot
  BY DEF Occupied
<1>3. IsFiniteSet(Occupied) /\ Cardinality(Occupied) =< Cardinality(Slot)
  BY <1>1, <1>2, FS_Subset
<1>4. Cardinality(Occupied) \in Nat
  BY <1>3, FS_CardinalityType
<1> QED
  BY <1>1, <1>3, <1>4, BaseAssumption

\* The same for the table after a step.
LEMMA OccupiedFiniteNext ==
    /\ IsFiniteSet(Occupied')
    /\ Cardinality(Occupied') \in 0 .. MAX_VIEWERS
<1>1. IsFiniteSet(Slot) /\ Cardinality(Slot) = MAX_VIEWERS
  BY FS_Interval, BaseAssumption DEF Slot
<1>2. Occupied' \in SUBSET Slot
  BY DEF Occupied
<1>3. IsFiniteSet(Occupied') /\ Cardinality(Occupied') =< Cardinality(Slot)
  BY <1>1, <1>2, FS_Subset
<1>4. Cardinality(Occupied') \in Nat
  BY <1>3, FS_CardinalityType
<1> QED
  BY <1>1, <1>3, <1>4, BaseAssumption

\* Filling a free entry keeps the counter equal to the number of entries.
LEMMA EnterCounts ==
    ASSUME SigTypeOK, CountMatchesTable, NEW i \in FreeSlots, NEW w \in Wsi,
           Enter(i, w)
    PROVE  CountMatchesTable'
<1>1. Occupied' = Occupied \cup {i} /\ i \notin Occupied
  BY BaseAssumption DEF SigTypeOK, FreeSlots, Enter, Occupied
<1>2. Cardinality(Occupied') = Cardinality(Occupied) + 1
  BY <1>1, OccupiedFinite, FS_AddElement
<1> QED
  BY <1>2 DEF CountMatchesTable, Enter

\* Emptying an entry does, too.
LEMMA LeaveCounts ==
    ASSUME SigTypeOK, CountMatchesTable, NEW i \in Occupied, Leave(i)
    PROVE  CountMatchesTable'
<1>1. Occupied' = Occupied \ {i}
  BY DEF SigTypeOK, Leave, Occupied
<1>2. Cardinality(Occupied') = Cardinality(Occupied) - 1
  BY <1>1, OccupiedFinite, FS_RemoveElement
<1> QED
  BY <1>2 DEF CountMatchesTable, Leave

--------------------------------------------------------------------------------
(* The inductive invariant *)

\* The state nearcade_init leaves behind satisfies it.
LEMMA InitInductive == SigInit => SigInductive
<1> SUFFICES ASSUME SigInit PROVE SigInductive
  OBVIOUS
<1>1. Occupied = {} /\ Registered = {}
  BY DEF SigInit, Occupied, Registered
<1>2. At("check") \in Frame /\ At("app") \in Frame
  BY DEF At, Frame, SigPc, EngPc, NoSlot
<1>3. SigTypeOK
  BY <1>2, BaseAssumption DEF SigInit, SigTypeOK
<1>4. CountMatchesTable
  BY <1>1, FS_EmptySet DEF SigInit, CountMatchesTable
<1>5. OneEntryPerConnection /\ EntriesAreLive
  BY <1>1 DEF SigInit, OneEntryPerConnection, EntriesAreLive
<1>6. FramesAreSound
  BY DEF SigInit, FramesAreSound, At, SigPc, EngPc
<1> QED
  BY <1>3, <1>4, <1>5, <1>6 DEF SigInductive

\* A step that leaves the three tables alone keeps what is said about them.
LEMMA TablesKept ==
    ASSUME CountMatchesTable, OneEntryPerConnection, UNCHANGED tables
    PROVE  /\ CountMatchesTable'
           /\ OneEntryPerConnection'
           /\ Registered' = Registered
BY DEF tables, CountMatchesTable, OneEntryPerConnection, Occupied, Registered

\* Steps of the signaling thread that only move it from one program point to
\* another.
LEMMA SigMoves ==
    ASSUME SigInductive, UNCHANGED <<lws, conn, g_wsi, tables>>,
           NEW f \in Frame, Goto("sig", f),
           f.pc \in SigPc \ {"closed", "established"},
           th["sig"].pc # "closed"
    PROVE  SigInductive'
<1>1. CountMatchesTable' /\ OneEntryPerConnection' /\ Registered' = Registered
  BY TablesKept DEF SigInductive
<1>2. SigTypeOK'
  BY DEF SigInductive, SigTypeOK, Goto, tables
<1>3. EntriesAreLive'
  BY <1>1 DEF SigInductive, EntriesAreLive
<1>4. FramesAreSound'
  BY <1>1 DEF SigInductive, SigTypeOK, FramesAreSound, Goto
<1> QED
  BY <1>1, <1>2, <1>3, <1>4 DEF SigInductive

\* Frames that the handlers write are frames.
LEMMA FrameTypes ==
    /\ \A p \in SigPc \cup EngPc : At(p) \in Frame /\ At(p).pc = p
    /\ \A t \in Thread : Resume(t) \in Frame
    /\ Resume("sig").pc = "service" /\ Resume("eng").pc = "destroy"
BY DEF At, Resume, Frame, SigPc, EngPc, NoSlot

\* A client connects.
LEMMA DispatchEstablishedKeeps ==
    ASSUME SigInductive, NEW w \in Wsi, NEW role \in Role, DispatchEstablished(w, role)
    PROVE  SigInductive'
<1> DEFINE f == [At("established") EXCEPT !.wsi = w, !.arg = role]
<1>1. CountMatchesTable' /\ OneEntryPerConnection' /\ Registered' = Registered
  BY TablesKept DEF SigInductive, DispatchEstablished
<1>2. f \in Frame /\ f.pc = "established" /\ f.wsi = w
  BY DEF At, Frame, SigPc, EngPc, NoSlot
<1>3. w \notin Registered
  BY DEF DispatchEstablished, SigInductive, EntriesAreLive
<1> HIDE DEF f
<1>4. th' = [th EXCEPT !["sig"] = f] /\ conn' = [conn EXCEPT ![w] = TRUE]
  BY DEF DispatchEstablished, Goto, f
<1>5. SigTypeOK'
  BY <1>2, <1>4 DEF SigInductive, SigTypeOK, DispatchEstablished, tables
<1>6. EntriesAreLive'
  BY <1>1, <1>2, <1>4 DEF SigInductive, SigTypeOK, EntriesAreLive, DispatchEstablished
<1>7. FramesAreSound'
  BY <1>1, <1>2, <1>3, <1>4
     DEF SigInductive, SigTypeOK, FramesAreSound, DispatchEstablished, SigPc
<1> QED
  BY <1>1, <1>5, <1>6, <1>7 DEF SigInductive

\* A client goes away.
LEMMA DispatchClosedKeeps ==
    ASSUME SigInductive, NEW w \in Wsi, DispatchClosed(w)
    PROVE  SigInductive'
<1> DEFINE f == [At("closed") EXCEPT !.wsi = w]
<1>1. CountMatchesTable' /\ OneEntryPerConnection' /\ Registered' = Registered
  BY TablesKept DEF SigInductive, DispatchClosed
<1>2. f \in Frame /\ f.pc = "closed" /\ f.wsi = w
  BY DEF At, Frame, SigPc, EngPc, NoSlot
<1> HIDE DEF f
<1>3. th' = [th EXCEPT !["sig"] = f] /\ conn' = [conn EXCEPT ![w] = FALSE]
  BY DEF DispatchClosed, Goto, f
<1>4. SigTypeOK'
  BY <1>2, <1>3 DEF SigInductive, SigTypeOK, DispatchClosed, tables
<1>5. Registered \subseteq Wsi
  BY DEF SigInductive, SigTypeOK, Registered
<1>6. EntriesAreLive'
  BY <1>1, <1>2, <1>3, <1>5 DEF SigInductive, SigTypeOK, EntriesAreLive, DispatchClosed
<1>7. FramesAreSound'
  BY <1>1, <1>2, <1>3 DEF SigInductive, SigTypeOK, FramesAreSound, DispatchClosed, SigPc
<1> QED
  BY <1>1, <1>4, <1>6, <1>7 DEF SigInductive

\* ESTABLISHED registers a host, a viewer, or nobody.
LEMMA EstablishedKeeps ==
    ASSUME SigInductive, established
    PROVE  SigInductive'
<1> DEFINE w == th["sig"].wsi
<1>1. /\ w \in Wsi /\ w \notin Registered
      /\ lws = "alive" => conn[w]
      /\ th["sig"].pc = "established"
      /\ UNCHANGED <<lws, conn, g_wsi>>
  BY DEF SigInductive, FramesAreSound, established
<1>2. FreeSlots \in SUBSET Slot
  BY DEF FreeSlots
<1>3. CASE /\ g_host_ws' = w
           /\ Goto("sig", Resume("sig"))
           /\ UNCHANGED <<g_viewer_ws, g_num_viewers>>
  <2>1. Registered' \subseteq Registered \cup {w}
    BY <1>3 DEF Registered
  <2>2. CountMatchesTable'
    BY <1>3 DEF SigInductive, CountMatchesTable, Occupied
  <2>3. OneEntryPerConnection'
    BY <1>1, <1>3 DEF SigInductive, OneEntryPerConnection, Registered
  <2>4. SigTypeOK'
    BY <1>1, <1>3, FrameTypes DEF SigInductive, SigTypeOK, Goto
  <2>5. EntriesAreLive'
    BY <1>1, <2>1 DEF SigInductive, EntriesAreLive
  <2>6. FramesAreSound'
    BY <1>1, <1>3, FrameTypes DEF SigInductive, SigTypeOK, FramesAreSound, Goto, SigPc
  <2> QED
    BY <2>2, <2>3, <2>4, <2>5, <2>6 DEF SigInductive
<1>4. CASE /\ FreeSlots # {}
           /\ Enter(First(FreeSlots), w)
           /\ Goto("sig", [At("viewer_cb") EXCEPT
                             !.wsi = w, !.idx = First(FreeSlots), !.joined = TRUE])
           /\ UNCHANGED g_host_ws
  <2> DEFINE i == First(FreeSlots)
             f == [At("viewer_cb") EXCEPT !.wsi = w, !.idx = i, !.joined = TRUE]
  <2>1. i \in FreeSlots /\ i \in Slot
    BY <1>2, <1>4, FirstIsMember
  <2>2. f \in Frame /\ f.pc = "viewer_cb"
    BY <1>1, <2>1 DEF At, Frame, SigPc, EngPc, NoSlot
  <2>3. th' = [th EXCEPT !["sig"] = f] /\ Enter(i, w)
    BY <1>4 DEF Goto
  <2> HIDE DEF i, f
  <2>4. Registered' \subseteq Registered \cup {w}
    BY <1>4, <2>1, <2>3 DEF Registered, Enter, SigInductive, SigTypeOK
  <2>5. CountMatchesTable'
    BY <1>1, <2>1, <2>3, EnterCounts DEF SigInductive
  <2>6. OneEntryPerConnection'
    BY <1>1, <1>4, <2>1, <2>3
       DEF SigInductive, SigTypeOK, OneEntryPerConnection, Registered, Enter
  <2>7. g_num_viewers' \in 0 .. MAX_VIEWERS
    BY <2>5, OccupiedFiniteNext DEF CountMatchesTable
  <2>8. SigTypeOK'
    BY <1>1, <1>4, <2>2, <2>3, <2>7 DEF SigInductive, SigTypeOK, Enter
  <2>9. EntriesAreLive'
    BY <1>1, <2>4 DEF SigInductive, EntriesAreLive
  <2>10. FramesAreSound'
    BY <1>1, <2>2, <2>3 DEF SigInductive, SigTypeOK, FramesAreSound, SigPc
  <2> QED
    BY <2>5, <2>6, <2>8, <2>9, <2>10 DEF SigInductive
<1>5. CASE Goto("sig", Resume("sig")) /\ UNCHANGED tables
  BY <1>1, <1>5, SigMoves, FrameTypes DEF SigPc
<1> QED
  BY <1>3, <1>4, <1>5 DEF established

\* CLOSED clears the host, one entry, or nothing; it runs on the signaling
\* thread, or on the engine's inside lws_context_destroy.
LEMMA ClosedKeeps ==
    ASSUME SigInductive, NEW t \in Thread, closed(t)
    PROVE  SigInductive'
<1> DEFINE w == th[t].wsi
<1>1. /\ w \in Wsi
      /\ th[t].pc = "closed"
      /\ UNCHANGED <<lws, conn, g_wsi>>
      /\ t = "eng" => lws # "alive"
  BY DEF SigInductive, FramesAreSound, closed
<1>2. SlotsOf(w) \in SUBSET Slot
  BY DEF SlotsOf
<1>3. Registered \subseteq Wsi
  BY DEF SigInductive, SigTypeOK, Registered
<1>4. ASSUME NEW f \in Frame, f.pc \in {"service", "destroy", "viewer_cb"},
             t = "sig" => f.pc # "destroy", t = "eng" => f.pc # "service",
             th' = [th EXCEPT ![t] = f],
             Registered' \subseteq Registered,
             w \notin Registered',
             g_host_ws' \in Wsi \cup {NULL},
             g_viewer_ws' \in [Slot -> Wsi \cup {NULL}],
             CountMatchesTable', OneEntryPerConnection'
      PROVE  SigInductive'
  <2>1. g_num_viewers' \in 0 .. MAX_VIEWERS
    BY <1>4, OccupiedFiniteNext DEF CountMatchesTable
  <2>2. SigTypeOK'
    BY <1>1, <1>4, <2>1 DEF SigInductive, SigTypeOK
  <2>3. EntriesAreLive'
    BY <1>1, <1>4 DEF SigInductive, SigTypeOK, EntriesAreLive
  <2>4. FramesAreSound'
    BY <1>1, <1>4 DEF SigInductive, SigTypeOK, FramesAreSound, SigPc, EngPc
  <2> QED
    BY <1>4, <2>2, <2>3, <2>4 DEF SigInductive
<1>5. CASE /\ IsHost(w)
           /\ g_host_ws' = NULL
           /\ Goto(t, Resume(t))
           /\ UNCHANGED <<g_viewer_ws, g_num_viewers>>
  <2>1. Registered' \subseteq Registered /\ w \notin Registered'
    BY <1>1, <1>5, BaseAssumption
       DEF Registered, IsHost, SigInductive, OneEntryPerConnection
  <2>2. CountMatchesTable' /\ OneEntryPerConnection'
    BY <1>5 DEF SigInductive, CountMatchesTable, OneEntryPerConnection, Occupied
  <2> QED
    BY <1>4, <1>5, <2>1, <2>2, FrameTypes DEF Goto, SigInductive, SigTypeOK
<1>6. CASE /\ ~IsHost(w)
           /\ SlotsOf(w) # {}
           /\ Leave(First(SlotsOf(w)))
           /\ Goto(t, [At("viewer_cb") EXCEPT !.wsi = w, !.idx = First(SlotsOf(w))])
           /\ UNCHANGED g_host_ws
  <2> DEFINE i == First(SlotsOf(w))
             f == [At("viewer_cb") EXCEPT !.wsi = w, !.idx = i]
  <2>1. i \in Slot /\ g_viewer_ws[i] = w
    BY <1>2, <1>6, FirstIsMember DEF SlotsOf
  <2>2. f \in Frame /\ f.pc = "viewer_cb"
    BY <1>1, <2>1 DEF At, Frame, SigPc, EngPc, NoSlot
  <2>3. th' = [th EXCEPT ![t] = f] /\ Leave(i)
    BY <1>6 DEF Goto
  <2> HIDE DEF i, f
  <2>4. i \in Occupied
    BY <1>1, <2>1, BaseAssumption DEF Occupied
  <2>5. CountMatchesTable'
    BY <2>3, <2>4, LeaveCounts DEF SigInductive
  <2>6. \A j \in Slot : g_viewer_ws'[j] = IF j = i THEN NULL ELSE g_viewer_ws[j]
    BY <2>3 DEF Leave, SigInductive, SigTypeOK
  <2>7. OneEntryPerConnection'
    BY <1>6, <2>6 DEF SigInductive, OneEntryPerConnection
  <2>8. Registered' \subseteq Registered /\ w \notin Registered'
    BY <1>1, <1>6, <2>1, <2>6, BaseAssumption
       DEF Registered, IsHost, SigInductive, OneEntryPerConnection
  <2>9. g_viewer_ws' \in [Slot -> Wsi \cup {NULL}]
    BY <2>3 DEF Leave, SigInductive, SigTypeOK
  <2> QED
    BY <1>4, <1>6, <2>2, <2>3, <2>5, <2>7, <2>8, <2>9 DEF SigInductive, SigTypeOK
<1>7. CASE ~IsHost(w) /\ SlotsOf(w) = {} /\ Goto(t, Resume(t)) /\ UNCHANGED tables
  <2>1. CountMatchesTable' /\ OneEntryPerConnection' /\ Registered' = Registered
    BY <1>7, TablesKept DEF SigInductive
  <2>2. w \notin Registered
    BY <1>1, <1>7 DEF Registered, IsHost, SlotsOf
  <2> QED
    BY <1>4, <1>7, <2>1, <2>2, FrameTypes DEF Goto, SigInductive, SigTypeOK, tables
<1> QED
  BY <1>5, <1>6, <1>7 DEF closed

\* RECEIVE and what follows it change no table: the thread moves on.
LEMMA ReceiveKeeps ==
    ASSUME SigInductive,
           \/ signaling_thread \/ ServiceReturns \/ receive \/ received \/ event
           \/ MsgCbReturns \/ ViewerCbReturns("sig")
           \/ \E w \in Wsi, m \in Msg : DispatchReceive(w, m)
    PROVE  SigInductive'
<1>1. th["sig"] \in Frame
  BY DEF SigInductive, SigTypeOK
<1>2. CASE \/ signaling_thread \/ ServiceReturns \/ event
           \/ MsgCbReturns \/ ViewerCbReturns("sig")
  <2>1. \E p \in {"check", "service", "exited", "event"} : Goto("sig", At(p))
    BY <1>2 DEF signaling_thread, ServiceReturns, event, MsgCbReturns,
                ViewerCbReturns, Resume
  <2>2. UNCHANGED <<lws, conn, g_wsi, tables>> /\ th["sig"].pc # "closed"
    BY <1>2 DEF signaling_thread, ServiceReturns, event, MsgCbReturns, ViewerCbReturns
  <2> QED
    BY <2>1, <2>2, SigMoves, FrameTypes DEF SigPc
<1>3. CASE receive
  <2> DEFINE f == th["sig"]
             g == [f EXCEPT !.pc = "received", !.idx = First(SlotsOf(f.wsi))]
             h == [f EXCEPT !.pc = "received"]
  <2>1. h \in Frame /\ h.pc = "received"
    BY <1>1 DEF Frame, SigPc
  <2>2. ASSUME SlotsOf(f.wsi) # {}
        PROVE  g \in Frame /\ g.pc = "received"
    <3>1. First(SlotsOf(f.wsi)) \in Slot
      BY <2>2, FirstIsMember DEF SlotsOf
    <3> QED
      BY <1>1, <3>1 DEF Frame, SigPc
  <2>3. UNCHANGED <<lws, conn, g_wsi, tables>> /\ th["sig"].pc # "closed"
    BY <1>3 DEF receive
  <2>4. \/ Goto("sig", h)
        \/ SlotsOf(f.wsi) # {} /\ Goto("sig", g)
        \/ Goto("sig", Resume("sig"))
    BY <1>3 DEF receive
  <2> HIDE DEF g, h
  <2> QED
    BY <2>1, <2>2, <2>3, <2>4, SigMoves, FrameTypes DEF SigPc
<1>4. CASE received
  <2> DEFINE f == [th["sig"] EXCEPT !.pc = "msg_cb"]
  <2>1. f \in Frame /\ f.pc = "msg_cb"
    BY <1>1 DEF Frame, SigPc
  <2>2. Goto("sig", f) \/ Goto("sig", At("event"))
    BY <1>4 DEF received
  <2>3. UNCHANGED <<lws, conn, g_wsi, tables>> /\ th["sig"].pc # "closed"
    BY <1>4 DEF received
  <2> HIDE DEF f
  <2> QED
    BY <2>1, <2>2, <2>3, SigMoves, FrameTypes DEF SigPc
<1>5. CASE \E w \in Wsi, m \in Msg : DispatchReceive(w, m)
  <2> PICK w \in Wsi, m \in Msg : DispatchReceive(w, m)
    BY <1>5
  <2> DEFINE f == [At("receive") EXCEPT !.wsi = w, !.arg = m]
  <2>1. f \in Frame /\ f.pc = "receive"
    BY DEF At, Frame, SigPc, EngPc, NoSlot
  <2>2. /\ Goto("sig", f)
        /\ UNCHANGED <<lws, conn, g_wsi, tables>>
        /\ th["sig"].pc # "closed"
    BY DEF DispatchReceive
  <2> HIDE DEF f
  <2> QED
    BY <2>1, <2>2, SigMoves DEF SigPc
<1> QED
  BY <1>2, <1>3, <1>4, <1>5

\* The engine's thread moves on without touching the table.
LEMMA EngineKeeps ==
    ASSUME SigInductive,
           \/ BeginShutdown \/ DestroyBegins \/ DestroyReturns \/ ViewerCbReturns("eng")
           \/ \E w \in Wsi : DestroyCloses(w)
    PROVE  SigInductive'
<1>1. CountMatchesTable' /\ OneEntryPerConnection' /\ Registered' = Registered
  BY TablesKept DEF SigInductive, BeginShutdown, DestroyBegins, DestroyReturns,
                    ViewerCbReturns, DestroyCloses
<1>2. CASE BeginShutdown \/ DestroyBegins \/ DestroyReturns \/ ViewerCbReturns("eng")
  <2>1. SigTypeOK'
    BY <1>2, FrameTypes DEF SigInductive, SigTypeOK, BeginShutdown, DestroyBegins,
       DestroyReturns, ViewerCbReturns, Goto, tables, EngPc
  <2>2. EntriesAreLive'
    BY <1>1, <1>2 DEF SigInductive, SigTypeOK, EntriesAreLive, BeginShutdown,
       DestroyBegins, DestroyReturns, ViewerCbReturns, Goto
  <2>3. FramesAreSound'
    BY <1>1, <1>2, FrameTypes DEF SigInductive, SigTypeOK, FramesAreSound,
       BeginShutdown, DestroyBegins, DestroyReturns, ViewerCbReturns, Goto, EngPc
  <2> QED
    BY <1>1, <2>1, <2>2, <2>3 DEF SigInductive
<1>3. CASE \E w \in Wsi : DestroyCloses(w)
  <2> PICK w \in Wsi : DestroyCloses(w)
    BY <1>3
  <2> DEFINE f == [At("closed") EXCEPT !.wsi = w]
  <2>1. f \in Frame /\ f.pc = "closed" /\ f.wsi = w
    BY DEF At, Frame, SigPc, EngPc, NoSlot
  <2>2. th' = [th EXCEPT !["eng"] = f] /\ conn' = [conn EXCEPT ![w] = FALSE]
    BY DEF DestroyCloses, Goto
  <2> HIDE DEF f
  <2>3. SigTypeOK'
    BY <2>1, <2>2 DEF SigInductive, SigTypeOK, DestroyCloses, tables
  <2>4. lws # "alive" /\ lws' = lws
    BY DEF DestroyCloses, SigInductive, FramesAreSound
  <2>5. FramesAreSound'
    BY <1>1, <2>1, <2>2, <2>4
       DEF SigInductive, SigTypeOK, FramesAreSound, DestroyCloses, EngPc
  <2> QED
    BY <1>1, <2>3, <2>4, <2>5 DEF SigInductive, EntriesAreLive
<1> QED
  BY <1>2, <1>3

\* signaling_shutdown empties the table.
LEMMA ShutdownKeeps ==
    ASSUME SigInductive, signaling_shutdown
    PROVE  SigInductive'
<1>1. Occupied' = {} /\ Registered' = {}
  BY DEF signaling_shutdown, Occupied, Registered
<1>2. CountMatchesTable'
  BY <1>1, FS_EmptySet DEF signaling_shutdown, CountMatchesTable
<1>3. OneEntryPerConnection' /\ EntriesAreLive'
  BY <1>1 DEF signaling_shutdown, OneEntryPerConnection, EntriesAreLive
<1>4. SigTypeOK'
  <2>1. g_wsi' \in BOOLEAN
    BY DEF signaling_shutdown
  <2>2. th' \in [Thread -> Frame]
    BY FrameTypes DEF SigInductive, SigTypeOK, signaling_shutdown, Goto, EngPc
  <2>3. /\ g_host_ws' \in Wsi \cup {NULL}
        /\ g_viewer_ws' \in [Slot -> Wsi \cup {NULL}]
        /\ g_num_viewers' \in 0 .. MAX_VIEWERS
    BY BaseAssumption DEF signaling_shutdown
  <2>4. lws' \in {"alive", "destroying", "gone"} /\ conn' \in [Wsi -> BOOLEAN]
    BY DEF SigInductive, SigTypeOK, signaling_shutdown
  <2> QED
    BY <2>1, <2>2, <2>3, <2>4, Zenon DEF SigTypeOK
<1>5. FramesAreSound'
  BY <1>1, FrameTypes DEF SigInductive, SigTypeOK, FramesAreSound, signaling_shutdown,
     Goto, EngPc
<1> QED
  BY <1>2, <1>3, <1>4, <1>5 DEF SigInductive

\* Every step of the server preserves the inductive invariant.
LEMMA NextKeeps ==
    ASSUME SigInductive, [SigNext]_sigVars
    PROVE  SigInductive'
<1>1. CASE Handlers \/ Service
  BY <1>1, DispatchEstablishedKeeps, DispatchClosedKeeps, EstablishedKeeps,
     ClosedKeeps, ReceiveKeeps DEF Handlers, Service
<1>2. CASE Shutdown
  BY <1>2, ShutdownKeeps, EngineKeeps, ClosedKeeps DEF Shutdown
<1>3. CASE BeginShutdown \/ MsgCbReturns \/ \E t \in Thread : ViewerCbReturns(t)
  BY <1>3, EngineKeeps, ReceiveKeeps
<1>4. CASE UNCHANGED sigVars
  BY <1>4 DEF sigVars, SigInductive, SigTypeOK, CountMatchesTable, Occupied,
     OneEntryPerConnection, EntriesAreLive, Registered, FramesAreSound
<1> QED
  BY <1>1, <1>2, <1>3, <1>4 DEF SigNext, SigDone

--------------------------------------------------------------------------------
(* What frames remember of the table *)

\* The signaling thread goes where it remembers nothing of the table.
LEMMA MatchAfterSig ==
    ASSUME SigInductive, FramesMatchTable, NEW f, Goto("sig", f), UNCHANGED g_viewer_ws,
           f.pc \notin {"viewer_cb", "received", "msg_cb"},
           f.pc = "receive" => f.idx = NoSlot
    PROVE  FramesMatchTable'
<1>1. th'["sig"] = f /\ th'["eng"] = th["eng"]
  BY DEF Goto, SigInductive, SigTypeOK
<1> QED
  BY <1>1 DEF FramesMatchTable, SlotsOf

\* The engine's thread is past the clearing of the table.
LEMMA MatchAfterEng ==
    ASSUME SigInductive, FramesMatchTable, NEW f, Goto("eng", f),
           f.pc \notin {"app", "stopping", "viewer_cb"}
    PROVE  FramesMatchTable'
<1>1. th'["eng"] = f /\ th'["sig"] = th["sig"]
  BY DEF Goto, SigInductive, SigTypeOK
<1> QED
  BY <1>1 DEF FramesMatchTable

\* ESTABLISHED enters the connection it then announces.
LEMMA MatchEstablished ==
    ASSUME SigInductive, FramesMatchTable, established
    PROVE  FramesMatchTable'
<1> DEFINE w == th["sig"].wsi
           i == First(FreeSlots)
           f == [At("viewer_cb") EXCEPT !.wsi = w, !.idx = i, !.joined = TRUE]
<1>1. w \in Wsi
  BY DEF SigInductive, FramesAreSound, established
<1>2. CASE Goto("sig", Resume("sig")) /\ UNCHANGED g_viewer_ws
  BY <1>2, MatchAfterSig, FrameTypes
<1>3. CASE FreeSlots # {} /\ Enter(i, w) /\ Goto("sig", f)
  <2>1. i \in Slot
    BY <1>3, FirstIsMember DEF FreeSlots
  <2>2. f.pc = "viewer_cb" /\ f.wsi = w /\ f.idx = i /\ f.joined
    BY DEF At
  <2> HIDE DEF f
  <2>3. th'["sig"] = f /\ th'["eng"] = th["eng"]
    BY <1>3 DEF Goto, SigInductive, SigTypeOK
  <2>4. g_viewer_ws'[i] = w
    BY <1>3, <2>1 DEF Enter, SigInductive, SigTypeOK
  <2> QED
    BY <1>1, <2>1, <2>2, <2>3, <2>4 DEF FramesMatchTable
<1> QED
  BY <1>2, <1>3 DEF established, tables

\* CLOSED takes out the only entry of the connection it then announces.
LEMMA MatchClosed ==
    ASSUME SigInductive, FramesMatchTable, NEW t \in Thread, closed(t)
    PROVE  FramesMatchTable'
<1> DEFINE w == th[t].wsi
           i == First(SlotsOf(w))
           f == [At("viewer_cb") EXCEPT !.wsi = w, !.idx = i]
<1>1. w \in Wsi
  BY DEF SigInductive, FramesAreSound, closed
<1>2. CASE Goto(t, Resume(t)) /\ UNCHANGED g_viewer_ws
  BY <1>2, MatchAfterSig, MatchAfterEng, FrameTypes
<1>3. CASE SlotsOf(w) # {} /\ Leave(i) /\ Goto(t, f)
  <2>1. i \in SlotsOf(w)
    BY <1>3, FirstIsMember DEF SlotsOf
  <2>2. i \in Slot /\ g_viewer_ws[i] = w
    BY <2>1 DEF SlotsOf
  <2>3. f.pc = "viewer_cb" /\ f.wsi = w /\ f.idx = i /\ ~f.joined
    BY DEF At
  <2> HIDE DEF f
  <2>4. th'[t] = f /\ \A u \in Thread \ {t} : th'[u] = th[u]
    BY <1>3 DEF Goto, SigInductive, SigTypeOK
  <2>5. g_viewer_ws' = [g_viewer_ws EXCEPT ![i] = NULL]
    BY <1>3 DEF Leave
  <2> HIDE DEF i
  <2>6. g_viewer_ws'[i] = NULL
    BY <2>2, <2>5 DEF SigInductive, SigTypeOK
  <2>7. \A j \in Slot : g_viewer_ws'[j] # w
    BY <1>1, <2>2, <2>5, BaseAssumption
       DEF SigInductive, SigTypeOK, OneEntryPerConnection
  <2>8. CASE t = "sig"
    BY <1>1, <2>2, <2>3, <2>4, <2>6, <2>7, <2>8 DEF FramesMatchTable, SlotsOf
  <2>9. CASE t = "eng"
    BY <1>1, <2>2, <2>3, <2>4, <2>9 DEF FramesMatchTable
  <2> QED
    BY <2>8, <2>9
<1> QED
  BY <1>2, <1>3 DEF closed, tables

\* RECEIVE labels the message with the index of its sender, and keeps the label.
LEMMA MatchReceive ==
    ASSUME SigInductive, FramesMatchTable, receive \/ received
    PROVE  FramesMatchTable'
<1> DEFINE f == th["sig"]
           i == First(SlotsOf(f.wsi))
           g == [f EXCEPT !.pc = "received", !.idx = i]
<1>1. f \in Frame /\ g_viewer_ws' = g_viewer_ws
  BY DEF SigInductive, SigTypeOK, receive, received, tables
<1>2. CASE receive
  <2>1. CASE Goto("sig", Resume("sig"))
    BY <1>1, <2>1, MatchAfterSig, FrameTypes
  <2>2. CASE Goto("sig", [f EXCEPT !.pc = "received"])
    <3>1. f.idx = NoSlot
      BY <1>2 DEF receive, FramesMatchTable
    <3> QED
      BY <1>1, <2>2, <3>1 DEF FramesMatchTable, Goto, SigInductive, SigTypeOK, Frame
  <2>3. CASE SlotsOf(f.wsi) # {} /\ Goto("sig", g)
    <3>1. i \in Slot /\ g_viewer_ws[i] = f.wsi
      <4>1. i \in SlotsOf(f.wsi)
        BY <2>3, FirstIsMember DEF SlotsOf
      <4> QED
        BY <4>1 DEF SlotsOf
    <3>2. g.pc = "received" /\ g.idx = i /\ g.wsi = f.wsi
      BY <1>1 DEF Frame
    <3> HIDE DEF g
    <3>3. th'["sig"] = g /\ th'["eng"] = th["eng"]
      BY <2>3 DEF Goto, SigInductive, SigTypeOK
    <3> HIDE DEF i
    <3> QED
      BY <1>1, <3>1, <3>2, <3>3 DEF FramesMatchTable
  <2> QED
    BY <1>2, <2>1, <2>2, <2>3 DEF receive
<1>3. CASE received
  <2>1. CASE Goto("sig", At("event"))
    BY <1>1, <2>1, MatchAfterSig, FrameTypes DEF SigPc
  <2>2. CASE Goto("sig", [f EXCEPT !.pc = "msg_cb"])
    <3>1. f.pc = "received"
      BY <1>3 DEF received
    <3>2. /\ th'["sig"].pc = "msg_cb" /\ th'["sig"].idx = f.idx /\ th'["sig"].wsi = f.wsi
          /\ th'["eng"] = th["eng"]
      BY <1>1, <2>2 DEF Goto, SigInductive, SigTypeOK, Frame
    <3> QED
      BY <1>1, <3>1, <3>2 DEF FramesMatchTable
  <2> QED
    BY <1>3, <2>1, <2>2 DEF received
<1> QED
  BY <1>2, <1>3

LEMMA MatchKept ==
    ASSUME SigInductive, FramesMatchTable, [SigNext]_sigVars
    PROVE  FramesMatchTable'
<1>1. CASE \/ signaling_thread \/ ServiceReturns \/ event \/ MsgCbReturns
           \/ ViewerCbReturns("sig")
  <2>1. \E p \in {"check", "service", "exited", "event"} : Goto("sig", At(p))
    BY <1>1 DEF signaling_thread, ServiceReturns, event, MsgCbReturns,
                ViewerCbReturns, Resume
  <2>2. UNCHANGED g_viewer_ws
    BY <1>1 DEF signaling_thread, ServiceReturns, event, MsgCbReturns,
                ViewerCbReturns, tables
  <2> QED
    BY <2>1, <2>2, MatchAfterSig, FrameTypes DEF SigPc
<1>2. ASSUME NEW w \in Wsi,
             \/ \E role \in Role : DispatchEstablished(w, role)
             \/ DispatchClosed(w)
             \/ \E m \in Msg : DispatchReceive(w, m)
      PROVE  FramesMatchTable'
  <2> DEFINE OnItsWay(f) == Goto("sig", f) /\ f.idx = NoSlot
                              /\ f.pc \in {"established", "closed", "receive"}
  <2>1. \E f : OnItsWay(f)
    <3>1. CASE \E role \in Role : DispatchEstablished(w, role)
      <4> PICK role \in Role : DispatchEstablished(w, role)
        BY <3>1
      <4> WITNESS [At("established") EXCEPT !.wsi = w, !.arg = role]
      <4> QED
        BY DEF DispatchEstablished, At
    <3>2. CASE DispatchClosed(w)
      <4> WITNESS [At("closed") EXCEPT !.wsi = w]
      <4> QED
        BY <3>2 DEF DispatchClosed, At
    <3>3. CASE \E m \in Msg : DispatchReceive(w, m)
      <4> PICK m \in Msg : DispatchReceive(w, m)
        BY <3>3
      <4> WITNESS [At("receive") EXCEPT !.wsi = w, !.arg = m]
      <4> QED
        BY DEF DispatchReceive, At
    <3> QED
      BY <1>2, <3>1, <3>2, <3>3
  <2>2. UNCHANGED g_viewer_ws
    BY <1>2 DEF DispatchEstablished, DispatchClosed, DispatchReceive, tables
  <2> QED
    BY <2>1, <2>2, MatchAfterSig
<1>3. CASE \/ signaling_shutdown \/ DestroyBegins \/ DestroyReturns
           \/ ViewerCbReturns("eng")
  <2>1. \E p \in {"cleared", "destroy", "down"} : Goto("eng", At(p))
    BY <1>3 DEF signaling_shutdown, DestroyBegins, DestroyReturns, ViewerCbReturns, Resume
  <2> QED
    BY <2>1, MatchAfterEng, FrameTypes DEF EngPc
<1>4. ASSUME NEW w \in Wsi, DestroyCloses(w)
      PROVE  FramesMatchTable'
  <2> DEFINE f == [At("closed") EXCEPT !.wsi = w]
  <2>1. Goto("eng", f) /\ f.pc = "closed"
    BY <1>4 DEF DestroyCloses, At
  <2> HIDE DEF f
  <2> QED
    BY <2>1, MatchAfterEng
<1>5. CASE BeginShutdown
  <2>1. /\ th["eng"].pc = "app" /\ th'["eng"].pc = "stopping"
        /\ th'["sig"] = th["sig"] /\ g_viewer_ws' = g_viewer_ws
    BY <1>5 DEF BeginShutdown, Goto, SigInductive, SigTypeOK, At, tables
  <2> QED
    BY <2>1 DEF FramesMatchTable, SlotsOf
<1>6. CASE UNCHANGED sigVars
  BY <1>6 DEF sigVars, FramesMatchTable, SlotsOf
<1> QED
  BY <1>1, <1>2, <1>3, <1>4, <1>5, <1>6, MatchEstablished, MatchClosed, MatchReceive
     DEF SigNext, Handlers, Service, Shutdown, SigDone

--------------------------------------------------------------------------------
(* Theorems *)

\* The inductive invariant holds throughout, through any race with shutdown.
THEOREM SignalingInvariant == SigSafety => []SigInductive
<1>1. SigInductive /\ [SigNext]_sigVars => SigInductive'
  BY NextKeeps
<1> QED
  BY <1>1, InitInductive, PTL DEF SigSafety

\* The types of the server's variables; in particular g_num_viewers never leaves
\* 0 .. MAX_VIEWERS.
THEOREM SignalingTypes == SigSafety => []SigTypeOK
<1>1. SigInductive => SigTypeOK
  BY DEF SigInductive
<1> QED
  BY <1>1, SignalingInvariant, PTL

\* g_num_viewers is the number of occupied entries, and no connection has two.
THEOREM TableIsConsistent == SigSafety => [](CountMatchesTable /\ OneEntryPerConnection)
<1>1. SigInductive => CountMatchesTable /\ OneEntryPerConnection
  BY DEF SigInductive
<1> QED
  BY <1>1, SignalingInvariant, PTL

\* No connection is in the table twice, or as host and as viewer: the CLOSED
\* handler, which clears one entry, clears all there are.
THEOREM OneEntryEach == SigSafety => []OneEntryPerConnection
<1>1. SigInductive => OneEntryPerConnection
  BY DEF SigInductive
<1> QED
  BY <1>1, SignalingInvariant, PTL

\* A connection is entered once at most, by the ESTABLISHED of a connection that is
\* open, and no CLOSED on its way to the lock is of a connection that is open.
THEOREM HandlersAreSound == SigSafety => []FramesAreSound
<1>1. SigInductive => FramesAreSound
  BY DEF SigInductive
<1> QED
  BY <1>1, SignalingInvariant, PTL

\* A handler that has unlocked still knows whose entry it works for, until the
\* engine clears the table: no other handler reuses the index meanwhile.
THEOREM HandlersKnowTheirEntry == SigSafety => []FramesMatchTable
<1>1. SigInit => FramesMatchTable
  BY DEF SigInit, FramesMatchTable, At
<1>2. SigInductive /\ FramesMatchTable /\ [SigNext]_sigVars => FramesMatchTable'
  BY MatchKept
<1> QED
  BY <1>1, <1>2, SignalingInvariant, PTL DEF SigSafety

\* While the context is alive, the server never writes to a freed connection.
THEOREM EntriesStayLive == SigSafety => []EntriesAreLive
<1>1. SigInductive => EntriesAreLive
  BY DEF SigInductive
<1> QED
  BY <1>1, SignalingInvariant, PTL

\* Only the host's own CLOSED, or shutdown, drops the host: of all steps, CLOSED
\* and signaling_shutdown alone set g_host_ws to NULL.
THEOREM HostKept == SigSafety => HostLostOnlyByOwnClose
<1> DEFINE Kept == g_host_ws # NULL /\ g_host_ws' = NULL
                     => ~conn[g_host_ws] \/ th["eng"].pc = "stopping"
<1>1. ASSUME SigInductive, [SigNext]_sigVars
      PROVE  Kept
  <2> SUFFICES ASSUME g_host_ws # NULL, g_host_ws' = NULL
               PROVE  ~conn[g_host_ws] \/ th["eng"].pc = "stopping"
    OBVIOUS
  <2>1. CASE \E t \in Thread : closed(t)
    <3> PICK t \in Thread : closed(t)
      BY <2>1
    <3>1. IsHost(th[t].wsi)
      BY DEF closed, tables
    <3>2. th[t].pc = "closed"
      BY DEF closed
    <3> QED
      BY <1>1, <3>1, <3>2 DEF IsHost, SigInductive, FramesAreSound
  <2>2. CASE established
    <3>1. th["sig"].pc = "established"
      BY <2>2 DEF established
    <3>2. th["sig"].wsi # NULL
      BY <1>1, <3>1, BaseAssumption DEF SigInductive, FramesAreSound
    <3>3. g_host_ws' = th["sig"].wsi \/ g_host_ws' = g_host_ws
      BY <2>2 DEF established, tables
    <3> QED
      BY <3>2, <3>3
  <2>3. CASE signaling_shutdown
    BY <2>3 DEF signaling_shutdown
  <2>4. CASE UNCHANGED g_host_ws
    BY <2>4
  <2> QED
    BY <1>1, <2>1, <2>2, <2>3, <2>4
       DEF SigNext, Handlers, Service, Shutdown, SigDone, sigVars, tables,
           signaling_thread, ServiceReturns, DispatchEstablished, DispatchClosed,
           DispatchReceive, receive, received, event, BeginShutdown, DestroyBegins,
           DestroyCloses, DestroyReturns, ViewerCbReturns, MsgCbReturns
<1>2. SigInductive /\ [SigNext]_sigVars => [Kept]_sigVars
  BY <1>1
<1> QED
  BY <1>2, SignalingInvariant, PTL DEF SigSafety, HostLostOnlyByOwnClose

================================================================================
