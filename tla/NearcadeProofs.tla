---------------------------- MODULE NearcadeProofs -----------------------------
(***************************************************************************)
(* Proofs about the running SDK, for any set of connections and any table  *)
(* length.  It implements the signaling server's specification, so what    *)
(* SignalingProofs proves of the server holds of the server at work inside *)
(* the SDK; NearcadeInductive is an invariant of it, where sessions are    *)
(* reasoned about as the set Live; and it implements ViewerSeats.  The     *)
(* engine's calls (EngineApi) change none of that.                         *)
(***************************************************************************)
EXTENDS EngineApi, SignalingProofs, SequenceTheorems

--------------------------------------------------------------------------------
(* The signaling server inside the SDK *)

\* Whatever webrtc.cpp does in between, on_signaling_viewer either has not yet
\* returned or returns to the handler that called it.
LEMMA ViewerCallbackIsSignaling ==
    \A t \in Thread : on_signaling_viewer(t) => ViewerCbReturns(t) \/ UNCHANGED sigVars
<1> SUFFICES ASSUME NEW t \in Thread, on_signaling_viewer(t)
             PROVE  ViewerCbReturns(t) \/ UNCHANGED sigVars
  OBVIOUS
<1>1. CASE viewer_joined(t)
  <2>1. CASE JoinBegins(t, th[t].idx, th[t].wsi) /\ UNCHANGED sigVars
    BY <2>1
  <2>2. CASE ViewerCbReturns(t)
    BY <2>2
  <2> QED
    BY <1>1, <2>1, <2>2 DEF viewer_joined
<1>2. CASE viewer_leaves(t)
  <2>1. CASE LeaveBegins(t, th[t].idx) /\ UNCHANGED sigVars
    BY <2>1
  <2>2. CASE ViewerCbReturns(t)
    BY <2>2
  <2> QED
    BY <1>2, <2>1, <2>2 DEF viewer_leaves
<1> QED
  BY <1>1, <1>2 DEF on_signaling_viewer

\* A step of the orchestrator is a step of the server or leaves its state alone:
\* nothing in nearcade.c or webrtc.cpp writes the connection table behind its back.
LEMMA StepOfServer == [Next]_vars => [SigNext]_sigVars
<1> SUFFICES ASSUME [Next]_vars PROVE SigNext \/ UNCHANGED sigVars
  OBVIOUS
<1>t. "sig" \in Thread /\ "eng" \in Thread
  BY DEF Thread
<1>1. CASE Sig
  <2>1. CASE Handlers \/ Service
    BY <2>1 DEF SigNext
  <2>2. CASE on_signaling_viewer("sig")
    BY <1>t, <2>2, ViewerCallbackIsSignaling DEF SigNext
  <2>3. CASE on_signaling_msg
    BY <2>3 DEF SigNext, on_signaling_msg
  <2> QED
    BY <1>1, <2>1, <2>2, <2>3 DEF Sig
<1>2. CASE Eng
  <2>1. CASE BeginShutdown \/ Shutdown
    BY <2>1 DEF SigNext
  <2>2. CASE on_signaling_viewer("eng")
    BY <1>t, <2>2, ViewerCallbackIsSignaling DEF SigNext
  <2>3. CASE UNCHANGED sigVars
    BY <2>3
  <2> QED
    BY <1>2, <2>1, <2>2, <2>3 DEF Eng, nearcade_shutdown
<1>3. CASE Library
  BY <1>3 DEF Library, CallbackEnds
<1>4. CASE Done
  BY <1>4 DEF Done, SigNext
<1>5. CASE UNCHANGED vars
  BY <1>5 DEF vars, sigVars
<1> QED
  BY <1>1, <1>2, <1>3, <1>4, <1>5 DEF Next

\* The SDK implements the signaling server.
THEOREM ImplementsSignaling == Safety => SigSafety
<1>1. Init => SigInit
  BY DEF Init
<1> QED
  BY <1>1, StepOfServer, PTL DEF Safety, SigSafety

\* In the running SDK, too, the counter and the table agree, no connection has
\* two entries, and no entry outlives its connection before shutdown.
THEOREM ComposedTableIsConsistent ==
    Safety => [](CountMatchesTable /\ OneEntryPerConnection /\ EntriesAreLive)
BY ImplementsSignaling, TableIsConsistent, EntriesStayLive, PTL

USE DEF Thread

--------------------------------------------------------------------------------
(* The vector of sessions *)

\* Any set of natural numbers that has a member has a least one.
LEMMA LeastNumber ==
    ASSUME NEW I \in SUBSET Nat, I # {}
    PROVE  \E m \in I : \A j \in I : m =< j
<1> DEFINE Less == {ss \in Nat \X Nat : ss[1] < ss[2]}
<1>1. IsWellFoundedOn(Less, Nat)
  BY NatLessThanWellFounded DEF OpToRel
<1>2. PICK m \in I : \A j \in I : ~(<<j, m>> \in Less)
  <2> HIDE DEF Less
  <2> QED BY <1>1, WFMin
<1>3. \A j \in I : ~(j < m)
  BY <1>2
<1> QED
  BY <1>3

\* session_idx_for_viewer finds a session of the viewer if there is one.
LEMMA FoundSession ==
    ASSUME g_sessions \in Seq(Session), NEW i
    PROVE  LET k == session_idx_for_viewer(i)
           IN  /\ k # 0 => k \in DOMAIN g_sessions /\ g_sessions[k].viewer_idx = i
               /\ k = 0 <=> ~Listed(i)
<1> DEFINE I == {j \in 1 .. Len(g_sessions) : g_sessions[j].viewer_idx = i}
           k == session_idx_for_viewer(i)
<1>1. k = IF I # {} THEN Min(I) ELSE 0
  BY DEF session_idx_for_viewer, SelectInSeq
<1>2. DOMAIN g_sessions = 1 .. Len(g_sessions) /\ Len(g_sessions) \in Nat
  OBVIOUS
<1>3. CASE I = {}
  BY <1>1, <1>2, <1>3 DEF Listed
<1>4. CASE I # {}
  <2>1. I \in SUBSET Nat
    OBVIOUS
  <2>2. PICK m \in I : \A j \in I : m =< j
    BY <1>4, <2>1, LeastNumber
  <2>3. Min(I) \in I
    BY <2>2 DEF Min
  <2>4. k \in I
    BY <1>1, <1>4, <2>3
  <2> HIDE DEF k
  <2>5. k \in 1 .. Len(g_sessions) /\ g_sessions[k].viewer_idx = i
    BY <2>4
  <2> QED
    BY <1>2, <2>5 DEF k, Listed
<1> QED
  BY <1>3, <1>4

\* RemoveAt: what comes after place k moves up by one.
LEMMA Removed ==
    ASSUME NEW S, NEW seq \in Seq(S), NEW k \in 1 .. Len(seq)
    PROVE  /\ RemoveAt(seq, k) \in Seq(S)
           /\ Len(RemoveAt(seq, k)) = Len(seq) - 1
           /\ \A q \in 1 .. Len(seq) - 1 :
                 RemoveAt(seq, k)[q] = seq[IF q < k THEN q ELSE q + 1]
<1> DEFINE a == SubSeq(seq, 1, k - 1)
           b == SubSeq(seq, k + 1, Len(seq))
<1>1. a \in Seq(S) /\ Len(a) = k - 1 /\ \A q \in 1 .. k - 1 : a[q] = seq[q]
  BY SubSeqProperties
<1>2. b \in Seq(S) /\ Len(b) = Len(seq) - k
        /\ \A q \in 1 .. Len(seq) - k : b[q] = seq[k + q]
  BY SubSeqProperties
<1>3. RemoveAt(seq, k) = a \o b
  BY DEF RemoveAt
<1> HIDE DEF a, b
<1>4. a \o b \in Seq(S) /\ Len(a \o b) = Len(a) + Len(b)
      /\ \A q \in 1 .. Len(a) + Len(b) : (a \o b)[q] = IF q =< Len(a) THEN a[q] ELSE b[q - Len(a)]
  BY <1>1, <1>2, ConcatProperties
<1>5. ASSUME NEW q \in 1 .. Len(seq) - 1
      PROVE  (a \o b)[q] = seq[IF q < k THEN q ELSE q + 1]
  BY <1>1, <1>2, <1>4, SMTT(30)
<1>6. Len(a \o b) = Len(seq) - 1
  <2>1. Len(seq) \in Nat /\ k \in Nat
    OBVIOUS
  <2> QED
    BY <1>1, <1>2, <1>4, <2>1
<1> QED
  BY <1>3, <1>4, <1>5, <1>6, Zenon

--------------------------------------------------------------------------------
(* What the operations do to the set of sessions *)

RtcTypes == g_sessions \in Seq(Session) /\ making \in Session \cup {NULL}

\* The places are the indices of the vector, and 0 while a session is being made.
LEMMA Places ==
    ASSUME RtcTypes
    PROVE  /\ Place = 1 .. Len(g_sessions) \cup (IF making = NULL THEN {} ELSE {0})
           /\ Len(g_sessions) \in Nat
           /\ \A k \in 1 .. Len(g_sessions) :
                 k \in Place /\ Sess(k) = g_sessions[k] /\ g_sessions[k] \in Session
           /\ \A p \in Place : Sess(p) \in Session
           /\ Live \subseteq Session
<1>1. DOMAIN g_sessions = 1 .. Len(g_sessions) /\ Len(g_sessions) \in Nat
  BY DEF RtcTypes
<1>2. Place = 1 .. Len(g_sessions) \cup (IF making = NULL THEN {} ELSE {0})
  BY <1>1 DEF Place
<1>3. \A k \in 1 .. Len(g_sessions) : Sess(k) = g_sessions[k] /\ g_sessions[k] \in Session
  BY <1>1 DEF Sess, RtcTypes
<1>4. \A p \in Place : Sess(p) \in Session
  BY <1>2, <1>3 DEF Sess, RtcTypes
<1> QED
  BY <1>1, <1>2, <1>3, <1>4 DEF Live

\* Sessions of different viewers are different, so a viewer has one.
LEMMA OneLive ==
    ASSUME OneSessionPerViewer, NEW s \in Live, NEW u \in Live,
           s.viewer_idx = u.viewer_idx
    PROVE  s = u
BY DEF OneSessionPerViewer, Live

\* A callback or a message changes the session at place p.
LEMMA SessionChanged ==
    ASSUME RtcTypes, OneSessionPerViewer, NEW p \in Place, NEW s \in Session,
           s.viewer_idx = Sess(p).viewer_idx, s.owner = Sess(p).owner, Put(p, s)
    PROVE  /\ RtcTypes'
           /\ OneSessionPerViewer'
           /\ Place' = Place
           /\ Live' = (Live \ {Sess(p)}) \cup {s}
           /\ making' = NULL <=> making = NULL
           /\ making # NULL => /\ making'.viewer_idx = making.viewer_idx
                               /\ making'.owner = making.owner
           /\ \A i : Listed(i) => Listed(i)'
<1>1. CASE p = 0
  <2>1. making # NULL /\ making' = s /\ g_sessions' = g_sessions
    BY <1>1, Places DEF Put
  <2>2. making' # NULL
    BY <2>1, NullAssumption
  <2>3. RtcTypes' /\ Place' = Place
    BY <2>1, <2>2 DEF RtcTypes, Place
  <2>4. Sess(p)' = s /\ \A q \in Place : q # p => Sess(q)' = Sess(q)
    BY <1>1, <2>1 DEF Sess
  <2>5. \A i : Listed(i) => Listed(i)'
    BY <2>1 DEF Listed
  <2>6. OneSessionPerViewer'
    BY <2>3, <2>4 DEF OneSessionPerViewer
  <2>7. \A q \in Place : q # p => Sess(q) # Sess(p)
    BY DEF OneSessionPerViewer
  <2>8. Live' = (Live \ {Sess(p)}) \cup {s}
    BY <2>3, <2>4, <2>7 DEF Live
  <2>9. making'.viewer_idx = making.viewer_idx /\ making'.owner = making.owner
    BY <1>1, <2>1 DEF Sess
  <2> QED
    BY <2>1, <2>2, <2>3, <2>5, <2>6, <2>8, <2>9
<1>2. CASE p # 0
  <2>1. p \in 1 .. Len(g_sessions)
    BY <1>2, Places
  <2>2. making' = making /\ g_sessions' = [g_sessions EXCEPT ![p] = s]
    BY <1>2 DEF Put
  <2>3. /\ g_sessions' \in Seq(Session) /\ Len(g_sessions') = Len(g_sessions)
        /\ \A j \in 1 .. Len(g_sessions) : g_sessions'[j] = IF j = p THEN s ELSE g_sessions[j]
    BY <2>1, <2>2, ExceptSeq DEF RtcTypes
  <2>4. DOMAIN g_sessions' = 1 .. Len(g_sessions) /\ DOMAIN g_sessions = 1 .. Len(g_sessions)
    BY <2>3 DEF RtcTypes
  <2>5. RtcTypes' /\ Place' = Place
    BY <2>2, <2>3, <2>4 DEF RtcTypes, Place
  <2>6. Sess(p)' = s /\ \A q \in Place : q # p => Sess(q)' = Sess(q)
    BY <1>2, <2>1, <2>2, <2>3, Places DEF Sess
  <2>7. \A i : Listed(i) => Listed(i)'
    BY <2>1, <2>3, <2>4, Places DEF Listed
  <2>8. OneSessionPerViewer'
    BY <2>5, <2>6 DEF OneSessionPerViewer
  <2>9. \A q \in Place : q # p => Sess(q) # Sess(p)
    BY DEF OneSessionPerViewer
  <2>10. Live' = (Live \ {Sess(p)}) \cup {s}
    BY <2>5, <2>6, <2>9 DEF Live
  <2> QED
    BY <2>2, <2>5, <2>7, <2>8, <2>10
<1> QED
  BY <1>1, <1>2

\* webrtc_viewer_joined begins to make session s.
LEMMA SessionMade ==
    ASSUME RtcTypes, OneSessionPerViewer, making = NULL, NEW s \in Session, making' = s,
           UNCHANGED g_sessions, \A u \in Live : u.viewer_idx # s.viewer_idx
    PROVE  /\ RtcTypes'
           /\ OneSessionPerViewer'
           /\ making' # NULL
           /\ Live' = Live \cup {s}
<1>1. making' # NULL /\ RtcTypes'
  BY NullAssumption DEF RtcTypes
<1>2. Place' = Place \cup {0} /\ 0 \notin Place
  BY <1>1, Places DEF Place
<1>3. Sess(0)' = s /\ \A q \in Place : Sess(q)' = Sess(q)
  BY <1>2 DEF Sess
<1>4. \A q \in Place : Sess(q).viewer_idx # s.viewer_idx
  BY DEF Live
<1>5. OneSessionPerViewer'
  BY <1>2, <1>3, <1>4 DEF OneSessionPerViewer
<1>6. Live' = Live \cup {s}
  BY <1>2, <1>3 DEF Live
<1> QED
  BY <1>1, <1>5, <1>6

\* create_session appends the session it has made.
LEMMA SessionListed ==
    ASSUME RtcTypes, OneSessionPerViewer, making # NULL,
           g_sessions' = Append(g_sessions, making), making' = NULL
    PROVE  /\ RtcTypes'
           /\ OneSessionPerViewer'
           /\ Live' = Live
           /\ (\A p, q \in Place : p = q) => \A p, q \in Place' : p = q
<1> DEFINE n == Len(g_sessions)
           Old(q) == IF q = n + 1 THEN 0 ELSE q
<1>1. n \in Nat /\ making \in Session
  BY DEF RtcTypes
<1>2. /\ g_sessions' \in Seq(Session) /\ Len(g_sessions') = n + 1
      /\ \A j \in 1 .. n : g_sessions'[j] = g_sessions[j]
      /\ g_sessions'[n + 1] = making
  BY <1>1, AppendProperties DEF RtcTypes
<1>3. RtcTypes' /\ Place' = 1 .. n + 1
  BY <1>2 DEF RtcTypes, Place
<1>4. Place = 0 .. n
  <2>1. Place = 1 .. n \cup {0}
    BY Places
  <2> QED
    BY <1>1, <2>1
<1>5. \A q \in 1 .. n + 1 : Old(q) \in Place /\ Sess(q)' = Sess(Old(q))
  BY <1>1, <1>2, <1>4 DEF Sess
<1>6. \A q, r \in 1 .. n + 1 : Old(q) = Old(r) => q = r
  BY <1>1
<1>7. \A p \in Place : \E q \in 1 .. n + 1 : Old(q) = p
  <2> TAKE p \in Place
  <2>1. CASE p = 0
    <3>1. n + 1 \in 1 .. n + 1 /\ Old(n + 1) = p
      BY <1>1, <2>1
    <3> QED
      BY <3>1
  <2>2. CASE p # 0
    <3>1. p \in 1 .. n + 1 /\ Old(p) = p
      BY <1>1, <1>4, <2>2
    <3> QED
      BY <3>1
  <2> QED
    BY <2>1, <2>2
<1> HIDE DEF Old, n
<1>8. OneSessionPerViewer'
  BY <1>3, <1>5, <1>6 DEF OneSessionPerViewer
<1>9. Live' = Live
  BY <1>3, <1>5, <1>7 DEF Live
<1>10. (\A p, q \in Place : p = q) => \A p, q \in Place' : p = q
  BY <1>3, <1>5, <1>6
<1> QED
  BY <1>3, <1>8, <1>9, <1>10

\* erase or clear takes session k out.
LEMMA SessionGone ==
    ASSUME RtcTypes, OneSessionPerViewer, NEW k \in 1 .. Len(g_sessions),
           g_sessions' = RemoveAt(g_sessions, k), making' = making
    PROVE  /\ RtcTypes'
           /\ OneSessionPerViewer'
           /\ Live' = Live \ {g_sessions[k]}
           /\ (\A p, q \in Place : p = q) => \A p, q \in Place' : p = q
<1> DEFINE n == Len(g_sessions)
           Old(q) == IF q < k THEN q ELSE q + 1
<1>1. n \in Nat
  BY Places
<1>2. /\ g_sessions' \in Seq(Session) /\ Len(g_sessions') = n - 1
      /\ \A q \in 1 .. n - 1 : g_sessions'[q] = g_sessions[Old(q)]
  BY Removed DEF RtcTypes
<1>3. RtcTypes' /\ Place' = 1 .. n - 1 \cup (IF making = NULL THEN {} ELSE {0})
  BY <1>1, <1>2 DEF RtcTypes, Place
<1>4. Place = 1 .. n \cup (IF making = NULL THEN {} ELSE {0})
  BY Places
<1>5. \A q \in Place' : Old(q) \in Place \ {k}
  BY <1>1, <1>3, <1>4
<1>6. \A q \in Place' : Sess(q)' = Sess(Old(q))
  BY <1>1, <1>2, <1>3 DEF Sess
<1>7. \A q, r \in Place' : Old(q) = Old(r) => q = r
  BY <1>1, <1>3
<1>8. \A p \in Place \ {k} : \E q \in Place' : Old(q) = p
  <2> TAKE p \in Place \ {k}
  <2>1. CASE p < k
    <3>1. p \in Place' /\ Old(p) = p
      BY <1>1, <1>3, <1>4, <2>1
    <3> QED
      BY <3>1
  <2>2. CASE ~(p < k)
    <3>1. p - 1 \in Place' /\ Old(p - 1) = p
      BY <1>1, <1>3, <1>4, <2>2
    <3> QED
      BY <3>1
  <2> QED
    BY <2>1, <2>2
<1>9. k \in Place /\ Sess(k) = g_sessions[k]
  BY Places
<1> HIDE DEF Old, n
<1>10. OneSessionPerViewer'
  BY <1>5, <1>6, <1>7 DEF OneSessionPerViewer
<1>11. \A p \in Place : p # k => Sess(p) # Sess(k)
  BY <1>9 DEF OneSessionPerViewer
<1>12. Live' = Live \ {g_sessions[k]}
  <2>1. Live' = {Sess(q)' : q \in Place'}
    BY DEF Live
  <2>2. Live' = {Sess(Old(q)) : q \in Place'}
    BY <1>6, <2>1
  <2>3. Live' = {Sess(p) : p \in Place \ {k}}
    BY <1>5, <1>8, <2>2
  <2> QED
    BY <1>9, <1>11, <2>3 DEF Live
<1>13. (\A p, q \in Place : p = q) => \A p, q \in Place' : p = q
  BY <1>5, <1>7
<1> QED
  BY <1>3, <1>10, <1>12, <1>13

--------------------------------------------------------------------------------
(* Steps keep the invariant *)

Known == SigInductive /\ FramesMatchTable /\ NearcadeInductive

\* What is said of the state of webrtc.cpp apart from its types.
Sound ==
    OneSessionPerViewer /\ ThreadsSoFar /\ SessionsSoFar /\ TalksToOwner /\ EventsSoFar

RtcTypeOK ==
    /\ g_initialized \in BOOLEAN
    /\ g_lock \in Thread \cup {NULL}
    /\ RtcTypes
    /\ call \in [Thread -> {"none", "creating", "erasing", "clearing"}]
    /\ told \subseteq Slot

LEMMA InductiveParts ==
    /\ Known => RtcTypeOK /\ RtcTypes /\ Sound /\ th \in [Thread -> Frame]
    /\ SigInductive' /\ RtcTypeOK' /\ Sound' => NearcadeInductive'
<1>1. Known => RtcTypeOK /\ RtcTypes /\ Sound /\ th \in [Thread -> Frame]
  BY DEF Known, NearcadeInductive, RtcTypeOK, RtcTypes, Sound, TypeOK, SigTypeOK
<1>2. SigInductive' /\ RtcTypeOK' /\ Sound' => NearcadeInductive'
  BY DEF SigInductive, NearcadeInductive, RtcTypeOK, RtcTypes, Sound, TypeOK
<1> QED
  BY <1>1, <1>2

\* A thread that runs no viewer callback is inside webrtc.cpp only to clear it.
LEMMA OutsideCallback ==
    ASSUME Known
    PROVE  /\ th["sig"].pc # "viewer_cb" => call["sig"] = "none" /\ making = NULL
           /\ th["eng"].pc \notin {"viewer_cb", "stopping"} => call["eng"] = "none"
           /\ call["sig"] = "none" => making = NULL
<1>1. /\ call["sig"] \in {"none", "creating", "erasing"}
      /\ call["eng"] \in {"none", "erasing", "clearing"}
  BY InductiveParts DEF Known, RtcTypeOK, NearcadeInductive, ThreadsSoFar
<1> QED
  BY <1>1 DEF Known, NearcadeInductive, ThreadsSoFar

\* Steps that leave webrtc.cpp alone.
LEMMA RtcUnchanged ==
    ASSUME Known, UNCHANGED rtcVars
    PROVE  /\ RtcTypeOK' /\ OneSessionPerViewer' /\ EventsSoFar'
           /\ Place' = Place /\ Live' = Live
           /\ \A i : Listed(i) => Listed(i)'
<1>1. Place' = Place /\ \A p \in Place : Sess(p)' = Sess(p)
  BY DEF rtcVars, Place, Sess
<1>2. Live' = Live
  BY <1>1 DEF Live
<1>3. RtcTypeOK' /\ \A i : Listed(i) => Listed(i)'
  BY InductiveParts DEF rtcVars, RtcTypeOK, RtcTypes, Listed
<1>4. OneSessionPerViewer'
  BY <1>1, InductiveParts DEF Sound, OneSessionPerViewer
<1>5. EventsSoFar'
  BY <1>2, InductiveParts DEF Sound, EventsSoFar, rtcVars
<1> QED
  BY <1>1, <1>2, <1>3, <1>4, <1>5

--------------------------------------------------------------------------------
(* The signaling thread outside webrtc.cpp *)

\* Its frame changes outside the viewer callback; only the sessions' relation to
\* the table is left to show.
LEMMA SigStepKeeps ==
    ASSUME Known, SigInductive', UNCHANGED rtcVars, th["sig"].pc # "viewer_cb",
           th'["eng"] = th["eng"], SessionsSoFar'
    PROVE  NearcadeInductive'
<1>1. call["sig"] = "none" /\ making = NULL
  BY OutsideCallback
<1>2. ThreadsSoFar'
  BY <1>1, RtcUnchanged DEF Known, NearcadeInductive, ThreadsSoFar, rtcVars, Up
<1>3. TalksToOwner'
  BY RtcUnchanged, InductiveParts DEF Sound, TalksToOwner, Up
<1> QED
  BY <1>2, <1>3, RtcUnchanged, InductiveParts DEF Sound

\* Steps that neither write the table nor begin a viewer callback.
LEMMA PlainStepKeeps ==
    ASSUME Known, SigInductive', UNCHANGED <<rtcVars, g_viewer_ws>>,
           th["sig"].pc # "viewer_cb", th'["sig"].pc # "viewer_cb",
           th'["eng"] = th["eng"]
    PROVE  NearcadeInductive'
<1>1. UNCHANGED <<g_initialized, call>> /\ Live' = Live /\ Place' = Place
  BY RtcUnchanged DEF rtcVars
<1>2. SessionsSoFar'
  BY <1>1 DEF Known, NearcadeInductive, SessionsSoFar, Joining, Leaving, Up, Occupied
<1> QED
  BY <1>2, SigStepKeeps

\* ESTABLISHED gives the viewer a free entry, which no session belongs to.
LEMMA EstablishedStep ==
    ASSUME Known, SigInductive', established, UNCHANGED rtcVars
    PROVE  NearcadeInductive'
<1> DEFINE w == th["sig"].wsi
           i == First(FreeSlots)
           f == [At("viewer_cb") EXCEPT !.wsi = w, !.idx = i, !.joined = TRUE]
<1>1. /\ th["sig"].pc = "established"
      /\ UNCHANGED <<g_initialized, call>> /\ Live' = Live /\ Place' = Place
      /\ call["sig"] = "none"
  BY RtcUnchanged, OutsideCallback DEF established, rtcVars
<1>2. CASE Goto("sig", Resume("sig")) /\ UNCHANGED g_viewer_ws
  <2>1. th'["sig"] = Resume("sig") /\ th'["eng"] = th["eng"]
    BY <1>2, InductiveParts DEF Goto
  <2> QED
    BY <1>1, <1>2, <2>1, FrameTypes, PlainStepKeeps
<1>3. CASE FreeSlots # {} /\ Enter(i, w) /\ Goto("sig", f)
  <2>1. i \in Slot /\ g_viewer_ws[i] = NULL
    <3>1. i \in FreeSlots
      BY <1>3, FirstIsMember DEF FreeSlots
    <3> QED
      BY <3>1 DEF FreeSlots
  <2>2. f.pc = "viewer_cb" /\ f.wsi = w /\ f.idx = i /\ f.joined
    BY DEF At
  <2>3. g_viewer_ws' = [g_viewer_ws EXCEPT ![i] = w]
    BY <1>3 DEF Enter
  <2> HIDE DEF f
  <2>4. th'["sig"] = f /\ th'["eng"] = th["eng"]
    BY <1>3, InductiveParts DEF Goto
  <2> HIDE DEF i, w
  <2>5. g_viewer_ws \in [Slot -> Wsi \cup {NULL}]
    BY DEF Known, SigInductive, SigTypeOK
  <2>6. ASSUME g_initialized', NEW s \in Live'
        PROVE  g_viewer_ws'[s.viewer_idx] = s.owner /\ ~Joining(s.viewer_idx)'
    <3>1. s \in Session
      BY <1>1, InductiveParts, Places
    <3>2. g_viewer_ws[s.viewer_idx] = s.owner
      BY <1>1, <2>6 DEF Known, NearcadeInductive, SessionsSoFar, Leaving
    <3>3. s.viewer_idx # i
      BY <2>1, <3>1, <3>2, BaseAssumption DEF Session
    <3> QED
      BY <2>2, <2>3, <2>4, <2>5, <3>1, <3>2, <3>3 DEF Joining, Session
  <2>7. ASSUME Up', NEW j \in Occupied'
        PROVE  Joining(j)' \/ \E s \in Live' : s.viewer_idx = j
    <3>1. CASE j = i
      BY <1>1, <2>2, <2>4, <3>1 DEF Joining
    <3>2. CASE j # i
      <4>1. j \in Occupied
        BY <2>3, <2>5, <3>2 DEF Occupied
      <4> QED
        BY <1>1, <2>4, <2>7, <4>1 DEF Known, NearcadeInductive, SessionsSoFar, Joining, Up
    <3> QED
      BY <3>1, <3>2
  <2>8. SessionsSoFar'
    BY <1>1, <2>6, <2>7 DEF Known, NearcadeInductive, SessionsSoFar
  <2> QED
    BY <1>1, <2>4, <2>8, SigStepKeeps
<1> QED
  BY <1>2, <1>3 DEF established, tables

\* CLOSED takes the entry away from the session it is about to have erased.
LEMMA ClosedStep ==
    ASSUME Known, SigInductive', closed("sig"), UNCHANGED rtcVars
    PROVE  NearcadeInductive'
<1> DEFINE w == th["sig"].wsi
           i == First(SlotsOf(w))
           f == [At("viewer_cb") EXCEPT !.wsi = w, !.idx = i]
<1>1. /\ th["sig"].pc = "closed"
      /\ UNCHANGED <<g_initialized, call>> /\ Live' = Live /\ Place' = Place
  BY RtcUnchanged DEF closed, rtcVars
<1>2. CASE Goto("sig", Resume("sig")) /\ UNCHANGED g_viewer_ws
  <2>1. th'["sig"] = Resume("sig") /\ th'["eng"] = th["eng"]
    BY <1>2, InductiveParts DEF Goto
  <2> QED
    BY <1>1, <1>2, <2>1, FrameTypes, PlainStepKeeps
<1>3. CASE SlotsOf(w) # {} /\ Leave(i) /\ Goto("sig", f)
  <2>1. i \in Slot /\ g_viewer_ws[i] = w
    <3>1. i \in SlotsOf(w)
      BY <1>3, FirstIsMember DEF SlotsOf
    <3> QED
      BY <3>1 DEF SlotsOf
  <2>2. f.pc = "viewer_cb" /\ f.wsi = w /\ f.idx = i /\ ~f.joined
    BY DEF At
  <2>3. g_viewer_ws' = [g_viewer_ws EXCEPT ![i] = NULL]
    BY <1>3 DEF Leave
  <2> HIDE DEF f
  <2>4. th'["sig"] = f /\ th'["eng"] = th["eng"]
    BY <1>3, InductiveParts DEF Goto
  <2> HIDE DEF i, w
  <2>5. g_viewer_ws \in [Slot -> Wsi \cup {NULL}]
    BY DEF Known, SigInductive, SigTypeOK
  <2>6. ASSUME g_initialized', NEW s \in Live'
        PROVE  /\ g_viewer_ws'[s.viewer_idx] = s.owner \/ Leaving(s.viewer_idx, s.owner)'
               /\ ~Joining(s.viewer_idx)'
    <3>1. s \in Session
      BY <1>1, InductiveParts, Places
    <3>2. g_viewer_ws[s.viewer_idx] = s.owner
      BY <1>1, <2>6 DEF Known, NearcadeInductive, SessionsSoFar, Leaving
    <3>3. CASE s.viewer_idx = i
      BY <2>1, <2>2, <2>4, <3>2, <3>3 DEF Leaving, Joining
    <3>4. CASE s.viewer_idx # i
      BY <2>2, <2>3, <2>4, <2>5, <3>1, <3>2, <3>4 DEF Joining, Session
    <3> QED
      BY <3>3, <3>4
  <2>7. ASSUME Up', NEW j \in Occupied'
        PROVE  \E s \in Live' : s.viewer_idx = j
    <3>1. j \in Occupied
      BY <2>1, <2>3, <2>5 DEF Occupied
    <3> QED
      BY <1>1, <2>4, <2>7, <3>1 DEF Known, NearcadeInductive, SessionsSoFar, Joining, Up
  <2>8. SessionsSoFar'
    BY <1>1, <2>6, <2>7 DEF Known, NearcadeInductive, SessionsSoFar
  <2> QED
    BY <1>1, <2>4, <2>8, SigStepKeeps
<1> QED
  BY <1>2, <1>3 DEF closed, tables

\* Every step of the signaling thread outside webrtc.cpp keeps the invariant.
LEMMA ServerStepKeeps ==
    ASSUME Known, SigInductive', Handlers \/ Service, UNCHANGED rtcVars
    PROVE  NearcadeInductive'
<1> DEFINE Plain == /\ th["sig"].pc # "viewer_cb" /\ th'["sig"].pc # "viewer_cb"
                    /\ th'["eng"] = th["eng"] /\ UNCHANGED g_viewer_ws
<1>0. th \in [Thread -> Frame] /\ th["sig"] \in Frame
  BY InductiveParts
<1>1. CASE signaling_thread \/ event \/ ServiceReturns
  <2>1. \E p \in {"check", "service", "exited"} : Goto("sig", At(p))
    BY <1>1 DEF signaling_thread, event, ServiceReturns, Resume
  <2>2. Plain
    BY <1>0, <1>1, <2>1 DEF signaling_thread, event, ServiceReturns, Goto, tables, At
  <2> QED
    BY <2>2, PlainStepKeeps
<1>2. CASE receive \/ received
  <2> DEFINE f == th["sig"]
             g == [f EXCEPT !.pc = "received", !.idx = First(SlotsOf(f.wsi))]
  <2>1. \/ Goto("sig", Resume("sig")) \/ Goto("sig", [f EXCEPT !.pc = "received"])
        \/ Goto("sig", g) \/ Goto("sig", At("event"))
        \/ Goto("sig", [f EXCEPT !.pc = "msg_cb"])
    BY <1>2 DEF receive, received
  <2>2. /\ Resume("sig").pc # "viewer_cb" /\ At("event").pc # "viewer_cb"
        /\ [f EXCEPT !.pc = "received"].pc # "viewer_cb"
        /\ g.pc # "viewer_cb" /\ [f EXCEPT !.pc = "msg_cb"].pc # "viewer_cb"
    BY <1>0 DEF Resume, At, Frame
  <2> HIDE DEF g
  <2>3. th'["sig"].pc # "viewer_cb" /\ th'["eng"] = th["eng"]
    BY <1>0, <2>1, <2>2 DEF Goto
  <2>4. th["sig"].pc # "viewer_cb" /\ UNCHANGED g_viewer_ws
    BY <1>2 DEF receive, received, tables
  <2> QED
    BY <2>3, <2>4, PlainStepKeeps
<1>3. ASSUME NEW w \in Wsi,
             \/ \E role \in Role : DispatchEstablished(w, role)
             \/ DispatchClosed(w)
             \/ \E m \in Msg : DispatchReceive(w, m)
      PROVE  NearcadeInductive'
  <2>1. Plain
    BY <1>0, <1>3 DEF DispatchEstablished, DispatchClosed, DispatchReceive, Goto, tables, At
  <2> QED
    BY <2>1, PlainStepKeeps
<1> QED
  BY <1>1, <1>2, <1>3, EstablishedStep, ClosedStep DEF Handlers, Service

--------------------------------------------------------------------------------
(* webrtc_viewer_joined *)

\* The frame of a thread whose viewer callback returns.
LEMMA CallbackReturns ==
    ASSUME Known, NEW t \in Thread, ViewerCbReturns(t)
    PROVE  /\ th'[t] = Resume(t) /\ \A u \in Thread \ {t} : th'[u] = th[u]
           /\ th'[t].pc \notin {"viewer_cb", "app", "stopping"}
           /\ UNCHANGED g_viewer_ws
BY InductiveParts, FrameTypes DEF ViewerCbReturns, Goto, tables

\* The session under construction is the joining viewer's.
LEMMA JoinBeginsKeeps ==
    ASSUME Known, SigInductive', th["sig"].pc = "viewer_cb", th["sig"].joined,
           JoinBegins("sig", th["sig"].idx, th["sig"].wsi), UNCHANGED sigVars
    PROVE  NearcadeInductive'
<1> DEFINE i == th["sig"].idx
           w == th["sig"].wsi
           n == NewSession(i, w)
<1>1. /\ g_initialized /\ call["sig"] = "none" /\ making = NULL
      /\ call' = [call EXCEPT !["sig"] = "creating"] /\ making' = n
      /\ UNCHANGED <<g_initialized, g_lock, g_sessions, told, th, g_viewer_ws>>
  BY OutsideCallback DEF JoinBegins, Enters, sigVars
<1>2. i \in Slot /\ w \in Wsi
  BY DEF Known, FramesMatchTable
<1>3. /\ n \in Session /\ n.viewer_idx = i /\ n.owner = w /\ n.busy = "no"
      /\ n.state = "new" /\ n.remote = NULL /\ n.sdpTo = NULL
  BY <1>2 DEF NewSession, Session
<1> HIDE DEF n
<1>4. g_viewer_ws[i] = w
  <2>1. th["eng"].pc \in {"app", "stopping"}
    BY <1>1 DEF Known, NearcadeInductive, ThreadsSoFar, Up
  <2> QED
    BY <2>1 DEF Known, FramesMatchTable
<1>5. \A u \in Live : u.viewer_idx # i
  BY <1>1 DEF Known, NearcadeInductive, SessionsSoFar, Joining
<1>6. /\ RtcTypes' /\ OneSessionPerViewer' /\ making' # NULL
      /\ Live' = Live \cup {n}
  BY <1>1, <1>3, <1>5, InductiveParts, SessionMade DEF Sound
<1>7. RtcTypeOK'
  BY <1>1, <1>6, InductiveParts DEF RtcTypeOK
<1>8. ThreadsSoFar'
  <2>1. \A j : Listed(j) => Listed(j)'
    BY <1>1 DEF Listed
  <2>2. call'["sig"] = "creating" /\ call'["eng"] = call["eng"]
    BY <1>1, InductiveParts DEF RtcTypeOK
  <2>3. g_lock # "sig"
    BY <1>1 DEF Known, NearcadeInductive, ThreadsSoFar
  <2> QED
    BY <1>1, <1>3, <1>6, <2>1, <2>2, <2>3 DEF Known, NearcadeInductive, ThreadsSoFar, Up
<1>9. SessionsSoFar'
  <2>1. \A j : ~Joining(j)'
    BY <1>1, InductiveParts DEF Joining, RtcTypeOK
  <2>2. \A s \in Live' : g_viewer_ws[s.viewer_idx] = s.owner
    BY <1>1, <1>3, <1>4, <1>6 DEF Known, NearcadeInductive, SessionsSoFar, Leaving
  <2>3. ASSUME Up', NEW j \in Occupied'
        PROVE  \E s \in Live' : s.viewer_idx = j
    <3>1. Joining(j) \/ \E s \in Live : s.viewer_idx = j
      BY <1>1, <2>3 DEF Known, NearcadeInductive, SessionsSoFar, Up, Occupied
    <3>2. Joining(j) => j = i
      BY DEF Joining
    <3> QED
      BY <1>3, <1>6, <3>1, <3>2
  <2> QED
    BY <1>1, <2>1, <2>2, <2>3 DEF SessionsSoFar
<1>10. TalksToOwner'
  BY <1>1, <1>3, <1>6 DEF Known, NearcadeInductive, TalksToOwner, Up
<1>11. EventsSoFar'
  <2>1. i \notin told
    BY <1>5 DEF Known, NearcadeInductive, EventsSoFar
  <2>2. told' \subseteq {s.viewer_idx : s \in Live'}
    BY <1>1, <1>6 DEF Known, NearcadeInductive, EventsSoFar
  <2> QED
    BY <1>1, <1>3, <1>6, <2>1, <2>2 DEF Known, NearcadeInductive, EventsSoFar
<1> QED
  BY <1>6, <1>7, <1>8, <1>9, <1>10, <1>11, InductiveParts DEF Sound

\* A refused join leaves an entry without a session, which webrtc no longer minds.
LEMMA JoinRefusedKeeps ==
    ASSUME Known, SigInductive', th["sig"].pc = "viewer_cb",
           JoinRefused("sig"), ViewerCbReturns("sig")
    PROVE  NearcadeInductive'
<1>1. UNCHANGED rtcVars /\ ~g_initialized /\ call["sig"] = "none" /\ making = NULL
  BY OutsideCallback DEF JoinRefused
<1>2. th'["eng"] = th["eng"] /\ th'["sig"].pc # "viewer_cb"
  BY CallbackReturns
<1>3. ~Up
  BY <1>1 DEF Known, NearcadeInductive, ThreadsSoFar
<1>4. SessionsSoFar' /\ TalksToOwner'
  BY <1>1, <1>2, <1>3, RtcUnchanged
     DEF Known, NearcadeInductive, SessionsSoFar, TalksToOwner, Up, rtcVars
<1>5. ThreadsSoFar'
  BY <1>1, <1>2, RtcUnchanged DEF Known, NearcadeInductive, ThreadsSoFar, Up, rtcVars
<1> QED
  BY <1>1, <1>4, <1>5, RtcUnchanged, InductiveParts DEF Sound

\* push_back moves the session into the vector.
LEMMA CreateKeeps ==
    ASSUME Known, SigInductive', th["sig"].pc = "viewer_cb", th["sig"].joined,
           create_session("sig"), ViewerCbReturns("sig")
    PROVE  NearcadeInductive'
<1>1. /\ call["sig"] = "creating" /\ g_lock = NULL /\ making # NULL
      /\ g_sessions' = Append(g_sessions, making) /\ making' = NULL
      /\ call' = [call EXCEPT !["sig"] = "none"]
      /\ UNCHANGED <<g_initialized, g_lock, told>>
  BY DEF create_session, Returns, Known, NearcadeInductive, ThreadsSoFar
<1>2. /\ th'["eng"] = th["eng"] /\ th'["sig"].pc # "viewer_cb"
      /\ UNCHANGED g_viewer_ws
  BY CallbackReturns
<1>3. /\ RtcTypes' /\ OneSessionPerViewer' /\ Live' = Live
      /\ (\A p, q \in Place : p = q) => \A p, q \in Place' : p = q
  BY <1>1, InductiveParts, SessionListed DEF Sound
<1>4. RtcTypeOK'
  BY <1>1, <1>3, InductiveParts DEF RtcTypeOK
<1>5. ThreadsSoFar'
  <2>1. call'["sig"] = "none" /\ call'["eng"] = call["eng"]
    BY <1>1, InductiveParts DEF RtcTypeOK
  <2>2. call["eng"] \notin {"erasing", "clearing"} /\ "sig" # NULL
    BY <1>1, NullAssumption DEF Known, NearcadeInductive, ThreadsSoFar
  <2> QED
    BY <1>1, <1>2, <2>1, <2>2 DEF Known, NearcadeInductive, ThreadsSoFar, Up
<1>6. SessionsSoFar'
  BY <1>1, <1>2, <1>3
     DEF Known, NearcadeInductive, SessionsSoFar, Joining, Leaving, Up, Occupied
<1>7. TalksToOwner' /\ EventsSoFar'
  BY <1>1, <1>2, <1>3 DEF Known, NearcadeInductive, TalksToOwner, EventsSoFar, Up
<1> QED
  BY <1>3, <1>4, <1>5, <1>6, <1>7, InductiveParts DEF Sound

LEMMA ViewerJoinedKeeps ==
    ASSUME Known, SigInductive', NEW t \in Thread, viewer_joined(t)
    PROVE  NearcadeInductive'
<1>1. t = "sig"
  BY DEF viewer_joined, Known, FramesMatchTable
<1> QED
  BY <1>1, JoinBeginsKeeps, JoinRefusedKeeps, CreateKeeps DEF viewer_joined

--------------------------------------------------------------------------------
(* Destroying sessions: webrtc_viewer_left and webrtc_shutdown *)

\* The destructor of session k leaves the others alone and takes back what the
\* engine was told of the viewer.
LEMMA DestroyTells ==
    ASSUME Known, NEW k \in 1 .. Len(g_sessions), Destroy(k), making' = making
    PROVE  /\ RtcTypes' /\ told' \subseteq Slot
           /\ OneSessionPerViewer'
           /\ EventsSoFar'
           /\ Live' = Live \ {g_sessions[k]}
           /\ (\A p, q \in Place : p = q) => \A p, q \in Place' : p = q
           /\ g_sessions[k] \in Live
<1> DEFINE d == g_sessions[k]
<1>1. RtcTypes /\ OneSessionPerViewer /\ EventsSoFar /\ told \subseteq Slot
  BY InductiveParts DEF Sound, RtcTypeOK
<1>2. d.busy = "no" /\ g_sessions' = RemoveAt(g_sessions, k)
  BY DEF Destroy
<1>3. /\ RtcTypes' /\ OneSessionPerViewer' /\ Live' = Live \ {d}
      /\ (\A p, q \in Place : p = q) => \A p, q \in Place' : p = q
  BY <1>1, <1>2, SessionGone
<1>4. d \in Live
  BY <1>1, Places DEF Live
<1>5. \A s \in Live' : s \in Live /\ s.viewer_idx # d.viewer_idx
  BY <1>1, <1>3, <1>4, OneLive
<1>6. told' = told \ {d.viewer_idx}
  <2>1. CASE d.state = "closed"
    <3>1. d.viewer_idx \notin told
      BY <1>1, <1>2, <1>4, <2>1 DEF EventsSoFar
    <3> QED
      BY <2>1, <3>1 DEF Destroy
  <2>2. CASE d.state # "closed"
    BY <2>2 DEF Destroy, viewer_state
  <2> QED
    BY <2>1, <2>2
<1> HIDE DEF d
<1>7. told' \subseteq {s.viewer_idx : s \in Live'}
  BY <1>1, <1>3, <1>6 DEF EventsSoFar
<1>8. EventsSoFar'
  BY <1>1, <1>5, <1>6, <1>7 DEF EventsSoFar
<1> QED
  BY <1>1, <1>3, <1>4, <1>6, <1>8 DEF d

LEMMA LeaveBeginsKeeps ==
    ASSUME Known, SigInductive', NEW t \in Thread, th[t].pc = "viewer_cb", ~th[t].joined,
           LeaveBegins(t, th[t].idx), UNCHANGED sigVars
    PROVE  NearcadeInductive'
<1>1. /\ g_lock = NULL /\ g_lock' = t /\ session_idx_for_viewer(th[t].idx) # 0
      /\ call[t] = "none" /\ call' = [call EXCEPT ![t] = "erasing"]
      /\ UNCHANGED <<g_initialized, g_sessions, making, told, th, g_viewer_ws>>
  BY DEF LeaveBegins, Enters, sigVars
<1>2. Place' = Place /\ Live' = Live /\ \A i : Listed(i) => Listed(i)'
  BY <1>1 DEF Place, Live, Sess, Listed
<1>3. Listed(th[t].idx)
  BY <1>1, InductiveParts, FoundSession DEF RtcTypes
<1>4. call \in [Thread -> {"none", "creating", "erasing", "clearing"}]
  BY InductiveParts DEF RtcTypeOK
<1>5. RtcTypeOK'
  BY <1>1, <1>4, InductiveParts DEF RtcTypeOK, RtcTypes
<1>6. ThreadsSoFar'
  <2>1. \A u \in Thread : call[u] \notin {"erasing", "clearing"}
    BY <1>1, NullAssumption DEF Known, NearcadeInductive, ThreadsSoFar
  <2>2. call'[t] = "erasing" /\ \A u \in Thread \ {t} : call'[u] = call[u]
    BY <1>1, <1>4
  <2>3. \A u \in Thread : call'[u] \in {"erasing", "clearing"} <=> g_lock' = u
    BY <1>1, <2>1, <2>2
  <2>4. \A u \in Thread : call'[u] = "erasing" => u = t
    BY <2>1, <2>2
  <2>5. /\ call'["sig"] = "creating" <=> call["sig"] = "creating"
        /\ call'["eng"] = "creating" <=> call["eng"] = "creating"
        /\ call'["eng"] # "clearing" /\ call["eng"] # "clearing"
        /\ call'["sig"] # "clearing"
    BY <1>1, <2>1, <2>2
  <2> QED
    BY <1>1, <1>2, <1>3, <2>3, <2>4, <2>5 DEF Known, NearcadeInductive, ThreadsSoFar, Up
<1>7. \A i : Joining(i)' => Joining(i)
  BY <1>1, <1>4 DEF Joining
<1>8. \A i : Joining(i) => Joining(i)'
  BY <1>1, <1>4 DEF Joining
<1>9. SessionsSoFar'
  BY <1>1, <1>2, <1>7, <1>8
     DEF Known, NearcadeInductive, SessionsSoFar, Leaving, Up, Occupied
<1>10. OneSessionPerViewer' /\ TalksToOwner' /\ EventsSoFar'
  BY <1>1, <1>2 DEF Known, NearcadeInductive, OneSessionPerViewer, TalksToOwner,
                    EventsSoFar, Up, Sess
<1> QED
  BY <1>5, <1>6, <1>9, <1>10, InductiveParts DEF Sound

\* The engine's thread runs viewer callbacks only when webrtc is down.
LEMMA EngineCallbackLate ==
    ASSUME Known, th["eng"].pc = "viewer_cb"
    PROVE  ~g_initialized /\ ~Up
BY DEF Known, NearcadeInductive, ThreadsSoFar, Up

\* The sessions left when a leaving viewer's callback returns without a session of
\* its index still match the table.
LEMMA LeaverGone ==
    ASSUME Known, SigInductive', NEW t \in Thread, th[t].pc = "viewer_cb", ~th[t].joined,
           ViewerCbReturns(t), UNCHANGED g_initialized,
           Live' \subseteq Live,
           \A s \in Live : s \in Live' \/ s.viewer_idx = th[t].idx,
           t = "sig" => \A s \in Live' : s.viewer_idx # th["sig"].idx,
           (\A p, q \in Place : p = q) => \A p, q \in Place' : p = q
    PROVE  SessionsSoFar' /\ TalksToOwner'
<1>1. /\ \A u \in Thread \ {t} : th'[u] = th[u]
      /\ th'[t].pc \notin {"viewer_cb", "app", "stopping"} /\ UNCHANGED g_viewer_ws
  BY CallbackReturns
<1>2. CASE t = "eng"
  <2>1. ~g_initialized /\ ~Up /\ ~Up'
    BY <1>1, <1>2, EngineCallbackLate DEF Up
  <2> QED
    BY <2>1 DEF Known, NearcadeInductive, SessionsSoFar, TalksToOwner
<1>3. CASE t = "sig"
  <2>1. Up' <=> Up
    BY <1>1, <1>3 DEF Up
  <2>2. TalksToOwner'
    BY <2>1 DEF Known, NearcadeInductive, TalksToOwner
  <2>3. \A i : ~Joining(i) /\ ~Joining(i)'
    BY <1>1, <1>3 DEF Joining
  <2>4. ASSUME g_initialized', NEW s \in Live'
        PROVE  g_viewer_ws'[s.viewer_idx] = s.owner
    BY <1>1, <1>3, <2>4 DEF Known, NearcadeInductive, SessionsSoFar, Leaving
  <2>5. ASSUME Up', NEW i \in Occupied'
        PROVE  \E s \in Live' : s.viewer_idx = i
    <3>1. PICK s \in Live : s.viewer_idx = i
      BY <1>1, <2>1, <2>3, <2>5 DEF Known, NearcadeInductive, SessionsSoFar, Occupied
    <3>2. g_viewer_ws[th["sig"].idx] = NULL
      BY <1>3, <2>1, <2>5 DEF Known, FramesMatchTable, Up
    <3>3. i # th["sig"].idx
      BY <1>1, <2>5, <3>2 DEF Occupied
    <3> QED
      BY <1>3, <3>1, <3>3
  <2>6. SessionsSoFar'
    BY <2>3, <2>4, <2>5 DEF Known, NearcadeInductive, SessionsSoFar
  <2> QED
    BY <2>2, <2>6
<1> QED
  BY <1>2, <1>3

LEMMA LeaveUnknownKeeps ==
    ASSUME Known, SigInductive', NEW t \in Thread, th[t].pc = "viewer_cb", ~th[t].joined,
           LeaveUnknown(t, th[t].idx), ViewerCbReturns(t)
    PROVE  NearcadeInductive'
<1>1. /\ UNCHANGED rtcVars /\ call[t] = "none"
      /\ session_idx_for_viewer(th[t].idx) = 0
  BY DEF LeaveUnknown
<1>2. ~Listed(th[t].idx)
  BY <1>1, InductiveParts, FoundSession DEF RtcTypes
<1>3. t = "sig" => \A s \in Live : s.viewer_idx # th["sig"].idx
  <2> SUFFICES ASSUME t = "sig", NEW p \in Place
               PROVE  Sess(p).viewer_idx # th["sig"].idx
    BY DEF Live
  <2>1. making = NULL
    BY <1>1, OutsideCallback
  <2>2. p \in DOMAIN g_sessions /\ Sess(p) = g_sessions[p]
    BY <2>1, InductiveParts, Places DEF Place
  <2> QED
    BY <1>2, <2>2 DEF Listed
<1>4. SessionsSoFar' /\ TalksToOwner'
  BY <1>1, <1>3, RtcUnchanged, LeaverGone DEF rtcVars
<1>5. ThreadsSoFar'
  <2>1. /\ \A u \in Thread \ {t} : th'[u] = th[u]
        /\ th'[t].pc \notin {"viewer_cb", "app", "stopping"}
    BY CallbackReturns
  <2>2. making # NULL => t = "eng"
    BY <1>1 DEF Known, NearcadeInductive, ThreadsSoFar
  <2>3. Up' <=> Up
    BY <2>1, EngineCallbackLate DEF Up
  <2> QED
    BY <1>1, <2>1, <2>2, <2>3, RtcUnchanged
       DEF Known, NearcadeInductive, ThreadsSoFar, rtcVars
<1> QED
  BY <1>1, <1>4, <1>5, RtcUnchanged, InductiveParts DEF Sound

\* erase takes out the leaving viewer's session and no other.
LEMMA ViewerLeftKeeps ==
    ASSUME Known, SigInductive', NEW t \in Thread, th[t].pc = "viewer_cb", ~th[t].joined,
           viewer_left(t, th[t].idx), ViewerCbReturns(t)
    PROVE  NearcadeInductive'
<1> DEFINE k == session_idx_for_viewer(th[t].idx)
<1>1. /\ call[t] = "erasing" /\ Destroy(k) /\ g_lock' = NULL
      /\ call' = [call EXCEPT ![t] = "none"]
      /\ UNCHANGED <<g_initialized, making>>
  BY DEF viewer_left, Returns
<1>2. k \in 1 .. Len(g_sessions) /\ g_sessions[k].viewer_idx = th[t].idx
  <2>1. Listed(th[t].idx)
    BY <1>1 DEF Known, NearcadeInductive, ThreadsSoFar
  <2> QED
    BY <2>1, InductiveParts, FoundSession DEF RtcTypes
<1> HIDE DEF k
<1>3. /\ RtcTypes' /\ told' \subseteq Slot /\ OneSessionPerViewer' /\ EventsSoFar'
      /\ Live' = Live \ {g_sessions[k]} /\ g_sessions[k] \in Live
      /\ (\A p, q \in Place : p = q) => \A p, q \in Place' : p = q
  BY <1>1, <1>2, DestroyTells
<1>4. \A s \in Live' : s.viewer_idx # th[t].idx
  BY <1>2, <1>3, InductiveParts, OneLive DEF Sound
<1>5. SessionsSoFar' /\ TalksToOwner'
  BY <1>1, <1>2, <1>3, <1>4, LeaverGone
<1>6. RtcTypeOK'
  BY <1>1, <1>3, InductiveParts DEF RtcTypeOK
<1>7. ThreadsSoFar'
  <2>1. /\ \A u \in Thread \ {t} : th'[u] = th[u]
        /\ th'[t].pc \notin {"viewer_cb", "app", "stopping"}
    BY CallbackReturns
  <2>2. g_lock = t /\ \A u \in Thread \ {t} : call[u] \notin {"erasing", "clearing"}
    BY <1>1 DEF Known, NearcadeInductive, ThreadsSoFar
  <2>3. call'[t] = "none" /\ \A u \in Thread \ {t} : call'[u] = call[u]
    BY <1>1, InductiveParts DEF RtcTypeOK
  <2>4. \A u \in Thread : call'[u] \notin {"erasing", "clearing"} /\ g_lock' # u
    BY <1>1, <2>2, <2>3, NullAssumption
  <2>5. making # NULL => t = "eng"
    BY DEF Known, NearcadeInductive, ThreadsSoFar
  <2>6. Up' <=> Up
    BY <2>1, EngineCallbackLate DEF Up
  <2>7. call["eng"] # "clearing"
    BY <1>1, <2>2
  <2> QED
    BY <1>1, <2>1, <2>3, <2>4, <2>5, <2>6, <2>7 DEF Known, NearcadeInductive, ThreadsSoFar
<1> QED
  BY <1>3, <1>5, <1>6, <1>7, InductiveParts DEF Sound

LEMMA ViewerLeavesKeeps ==
    ASSUME Known, SigInductive', NEW t \in Thread, viewer_leaves(t)
    PROVE  NearcadeInductive'
BY LeaveBeginsKeeps, LeaveUnknownKeeps, ViewerLeftKeeps DEF viewer_leaves

\* webrtc_shutdown takes the lock; the sessions are no longer promised to match.
LEMMA ShutdownBeginsKeeps ==
    ASSUME Known, SigInductive', BeginShutdown, ShutdownBegins("eng")
    PROVE  NearcadeInductive'
<1>1. /\ g_lock = NULL /\ g_lock' = "eng" /\ call' = [call EXCEPT !["eng"] = "clearing"]
      /\ UNCHANGED <<g_initialized, g_sessions, making, told, g_viewer_ws>>
  BY DEF ShutdownBegins, Enters, BeginShutdown, tables
<1>2. /\ th["eng"].pc = "app" /\ th'["eng"].pc = "stopping" /\ th'["sig"] = th["sig"]
  BY InductiveParts DEF BeginShutdown, Goto, At
<1>3. Place' = Place /\ Live' = Live
  BY <1>1 DEF Place, Live, Sess
<1>4. call \in [Thread -> {"none", "creating", "erasing", "clearing"}]
  BY InductiveParts DEF RtcTypeOK
<1>5. RtcTypeOK'
  BY <1>1, <1>4, InductiveParts DEF RtcTypeOK, RtcTypes
<1>6. ThreadsSoFar'
  <2>1. call["sig"] \notin {"erasing", "clearing"}
    BY <1>1, NullAssumption DEF Known, NearcadeInductive, ThreadsSoFar
  <2>2. call'["eng"] = "clearing" /\ call'["sig"] = call["sig"]
    BY <1>1, <1>4
  <2>3. g_initialized
    BY <1>2 DEF Known, NearcadeInductive, ThreadsSoFar, Up
  <2> QED
    BY <1>1, <1>2, <2>1, <2>2, <2>3 DEF Known, NearcadeInductive, ThreadsSoFar
<1>7. SessionsSoFar'
  BY <1>1, <1>2, <1>3, <1>4 DEF Known, NearcadeInductive, SessionsSoFar, Joining, Leaving, Up
<1>8. OneSessionPerViewer' /\ TalksToOwner' /\ EventsSoFar'
  BY <1>1, <1>2, <1>3 DEF Known, NearcadeInductive, OneSessionPerViewer, TalksToOwner,
                          EventsSoFar, Up, Sess
<1> QED
  BY <1>5, <1>6, <1>7, <1>8, InductiveParts DEF Sound

\* g_sessions.clear() destroys one session after the other.
LEMMA ShutdownDestroysKeeps ==
    ASSUME Known, SigInductive', ShutdownDestroys("eng"), UNCHANGED sigVars
    PROVE  NearcadeInductive'
<1>1. /\ call["eng"] = "clearing" /\ g_sessions # <<>> /\ Destroy(1)
      /\ UNCHANGED <<g_initialized, g_lock, making, call, th, g_viewer_ws>>
  BY DEF ShutdownDestroys, sigVars
<1>2. 1 \in 1 .. Len(g_sessions)
  BY <1>1, InductiveParts DEF RtcTypes
<1>3. /\ RtcTypes' /\ told' \subseteq Slot /\ OneSessionPerViewer' /\ EventsSoFar'
      /\ Live' = Live \ {g_sessions[1]}
  BY <1>1, <1>2, DestroyTells
<1>4. g_lock = "eng" /\ ~Up /\ g_initialized
  BY <1>1 DEF Known, NearcadeInductive, ThreadsSoFar, Up
<1>5. RtcTypeOK'
  BY <1>1, <1>3, InductiveParts DEF RtcTypeOK
<1>6. ThreadsSoFar'
  BY <1>1, <1>4 DEF Known, NearcadeInductive, ThreadsSoFar, Up
<1>7. SessionsSoFar' /\ TalksToOwner'
  BY <1>1, <1>3, <1>4
     DEF Known, NearcadeInductive, SessionsSoFar, TalksToOwner, Joining, Leaving, Up
<1> QED
  BY <1>3, <1>5, <1>6, <1>7, InductiveParts DEF Sound

\* webrtc is down: what is left is at most the session under construction.
LEMMA ShutdownEndsKeeps ==
    ASSUME Known, SigInductive', ShutdownEnds("eng"), UNCHANGED sigVars
    PROVE  NearcadeInductive'
<1>1. /\ call["eng"] = "clearing" /\ g_sessions = <<>> /\ ~g_initialized'
      /\ g_initialized' \in BOOLEAN
      /\ g_lock' = NULL /\ call' = [call EXCEPT !["eng"] = "none"]
      /\ UNCHANGED <<g_sessions, making, told, th, g_viewer_ws>>
  BY DEF ShutdownEnds, Returns, sigVars
<1>2. g_lock = "eng" /\ ~Up /\ ~Up'
  BY <1>1 DEF Known, NearcadeInductive, ThreadsSoFar, Up
<1>3. Place' = Place /\ Live' = Live /\ \A p, q \in Place : p = q
  BY <1>1 DEF Place, Live, Sess
<1>4. call \in [Thread -> {"none", "creating", "erasing", "clearing"}]
  BY InductiveParts DEF RtcTypeOK
<1>5. RtcTypeOK'
  BY <1>1, <1>4, InductiveParts DEF RtcTypeOK, RtcTypes
<1>6. ThreadsSoFar'
  <2>1. call["sig"] \notin {"erasing", "clearing"}
    BY <1>2 DEF Known, NearcadeInductive, ThreadsSoFar
  <2>2. call'["eng"] = "none" /\ call'["sig"] = call["sig"]
    BY <1>1, <1>4
  <2> QED
    BY <1>1, <1>2, <2>1, <2>2, NullAssumption DEF Known, NearcadeInductive, ThreadsSoFar
<1>7. SessionsSoFar' /\ TalksToOwner'
  BY <1>1, <1>2, <1>3 DEF SessionsSoFar, TalksToOwner
<1>8. OneSessionPerViewer' /\ EventsSoFar'
  BY <1>1, <1>3 DEF Known, NearcadeInductive, OneSessionPerViewer, EventsSoFar, Sess
<1> QED
  BY <1>5, <1>6, <1>7, <1>8, InductiveParts DEF Sound

\* signaling_shutdown runs when webrtc is down.
LEMMA SignalingShutdownKeeps ==
    ASSUME Known, SigInductive', call["eng"] = "none", Shutdown, UNCHANGED rtcVars
    PROVE  NearcadeInductive'
<1>1. th'["sig"] = th["sig"]
  BY InductiveParts DEF Shutdown, signaling_shutdown, DestroyBegins, DestroyCloses,
                        closed, DestroyReturns, Goto
<1>2. th["eng"].pc # "app" /\ th'["eng"].pc # "app"
  <2>1. CASE signaling_shutdown \/ DestroyBegins \/ DestroyReturns
    BY <2>1, InductiveParts DEF signaling_shutdown, DestroyBegins, DestroyReturns, Goto, At
  <2>2. CASE \E w \in Wsi : DestroyCloses(w)
    BY <2>2, InductiveParts DEF DestroyCloses, Goto, At
  <2>3. CASE closed("eng")
    <3> DEFINE w == th["eng"].wsi
               f == [At("viewer_cb") EXCEPT !.wsi = w, !.idx = First(SlotsOf(w))]
    <3>1. f.pc # "app" /\ Resume("eng").pc # "app"
      BY DEF At, Resume
    <3>2. th["eng"].pc = "closed" /\ (Goto("eng", f) \/ Goto("eng", Resume("eng")))
      BY <2>3 DEF closed
    <3> HIDE DEF f
    <3> QED
      BY <3>1, <3>2, InductiveParts DEF Goto
  <2> QED
    BY <2>1, <2>2, <2>3 DEF Shutdown
<1>3. ~g_initialized /\ ~Up'
  BY <1>2 DEF Known, NearcadeInductive, ThreadsSoFar, Up
<1>4. ThreadsSoFar'
  BY <1>1, <1>2, RtcUnchanged DEF Known, NearcadeInductive, ThreadsSoFar, Up, rtcVars
<1>5. SessionsSoFar' /\ TalksToOwner'
  BY <1>3, RtcUnchanged DEF Known, NearcadeInductive, SessionsSoFar, TalksToOwner, rtcVars
<1> QED
  BY <1>4, <1>5, RtcUnchanged, InductiveParts DEF Sound

LEMMA EngineStepKeeps ==
    ASSUME Known, SigInductive', nearcade_shutdown
    PROVE  NearcadeInductive'
BY ShutdownBeginsKeeps, ShutdownDestroysKeeps, ShutdownEndsKeeps, SignalingShutdownKeeps
   DEF nearcade_shutdown

--------------------------------------------------------------------------------
(* Messages and callbacks *)

\* A session changes in place, and whatever is said of it stays true.
LEMMA ChangeKeeps ==
    ASSUME Known, SigInductive', NEW p \in Place, NEW s \in Session,
           s.viewer_idx = Sess(p).viewer_idx, s.owner = Sess(p).owner, Put(p, s),
           UNCHANGED <<g_initialized, g_lock, call, g_viewer_ws>>,
           th'["eng"] = th["eng"],
           \/ th'["sig"] = th["sig"]
           \/ th["sig"].pc # "viewer_cb" /\ th'["sig"].pc # "viewer_cb",
           Up => s.remote \in {NULL, s.owner} /\ s.sdpTo \in {NULL, s.owner},
           told' \in {told, told \cup {s.viewer_idx}, told \ {s.viewer_idx}},
           s.busy \in {"no", "send"} => (s.viewer_idx \in told' <=> s.state = "connected"),
           s.busy = "joined" => s.state = "connected",
           s.busy = "left" => s.state \in {"down", "closed"}
    PROVE  NearcadeInductive'
<1>1. /\ RtcTypes' /\ OneSessionPerViewer' /\ Place' = Place
      /\ Live' = (Live \ {Sess(p)}) \cup {s}
      /\ making' = NULL <=> making = NULL
      /\ making # NULL => /\ making'.viewer_idx = making.viewer_idx
                          /\ making'.owner = making.owner
      /\ \A i : Listed(i) => Listed(i)'
  BY InductiveParts, SessionChanged DEF Sound
<1> DEFINE o == Sess(p)
<1>2. o \in Live /\ o.viewer_idx = s.viewer_idx /\ o.owner = s.owner
  BY DEF Live
<1>3. \A u \in Live : u # o => u.viewer_idx # s.viewer_idx
  BY <1>2, InductiveParts, OneLive DEF Sound
<1> HIDE DEF o
<1>4. Live' = (Live \ {o}) \cup {s}
  BY <1>1 DEF o
<1>5. s.viewer_idx \in Slot
  BY DEF Session
<1>6. RtcTypeOK'
  BY <1>1, <1>5, InductiveParts DEF RtcTypeOK
<1>7. ThreadsSoFar'
  <2>1. \A t \in Thread : call[t] = "erasing" => th'[t] = th[t]
    BY DEF Known, NearcadeInductive, ThreadsSoFar
  <2>2. making # NULL => th'["sig"] = th["sig"]
    BY DEF Known, NearcadeInductive, ThreadsSoFar
  <2> QED
    BY <1>1, <2>1, <2>2 DEF Known, NearcadeInductive, ThreadsSoFar, Up
<1>8. SessionsSoFar'
  <2>1. \A i, w : (Joining(i)' <=> Joining(i)) /\ (Leaving(i, w)' <=> Leaving(i, w))
    BY DEF Joining, Leaving
  <2>2. Up' <=> Up
    BY DEF Up
  <2>3. Occupied' = Occupied
    BY DEF Occupied
  <2>4. ASSUME g_initialized', NEW u \in Live'
        PROVE  /\ g_viewer_ws'[u.viewer_idx] = u.owner \/ Leaving(u.viewer_idx, u.owner)'
               /\ ~Joining(u.viewer_idx)'
    <3>1. PICK v \in Live : v.viewer_idx = u.viewer_idx /\ v.owner = u.owner
      BY <1>2, <1>4
    <3> QED
      BY <2>1, <2>4, <3>1 DEF Known, NearcadeInductive, SessionsSoFar
  <2>5. ASSUME Up', NEW i \in Occupied'
        PROVE  Joining(i)' \/ \E u \in Live' : u.viewer_idx = i
    <3>1. Joining(i) \/ \E u \in Live : u.viewer_idx = i
      BY <2>2, <2>3, <2>5 DEF Known, NearcadeInductive, SessionsSoFar
    <3> QED
      BY <1>2, <1>4, <2>1, <3>1
  <2> QED
    BY <1>1, <2>4, <2>5 DEF Known, NearcadeInductive, SessionsSoFar
<1>9. TalksToOwner'
  BY <1>4 DEF Known, NearcadeInductive, TalksToOwner, Up
<1>10. EventsSoFar'
  <2>1. told' \subseteq {u.viewer_idx : u \in Live'}
    BY <1>2, <1>4 DEF Known, NearcadeInductive, EventsSoFar
  <2>2. \A u \in Live \ {o} : u.viewer_idx \in told' <=> u.viewer_idx \in told
    BY <1>3
  <2> QED
    BY <1>4, <2>1, <2>2 DEF Known, NearcadeInductive, EventsSoFar
<1> QED
  BY <1>1, <1>6, <1>7, <1>8, <1>9, <1>10, InductiveParts DEF Sound

\* An answer is taken by the session of the connection that sent it.
LEMMA MessageKeeps ==
    ASSUME Known, SigInductive', on_signaling_msg
    PROVE  NearcadeInductive'
<1> DEFINE i == th["sig"].idx
           w == th["sig"].wsi
           k == session_idx_for_viewer(i)
           s == [g_sessions[k] EXCEPT !.remote = w]
<1>1. /\ th["sig"].pc = "msg_cb" /\ th'["sig"] = At("event") /\ th'["eng"] = th["eng"]
      /\ UNCHANGED g_viewer_ws
  BY InductiveParts DEF on_signaling_msg, MsgCbReturns, Goto, tables
<1>2. th'["sig"].pc # "viewer_cb"
  BY <1>1 DEF At
<1>3. CASE UNCHANGED rtcVars
  BY <1>1, <1>2, <1>3, PlainStepKeeps
<1>4. CASE /\ i # NoSlot /\ k # 0
           /\ g_sessions' = [g_sessions EXCEPT ![k].remote = w]
           /\ UNCHANGED <<g_initialized, g_lock, making, call, told>>
  <2>1. k \in DOMAIN g_sessions /\ g_sessions[k].viewer_idx = i
    BY <1>4, InductiveParts, FoundSession DEF RtcTypes
  <2> HIDE DEF k
  <2>2. /\ k \in Place /\ Sess(k) = g_sessions[k] /\ g_sessions[k] \in Session /\ k # 0
        /\ g_sessions[k] \in Live
    BY <2>1, InductiveParts, Places DEF RtcTypes, Live
  <2>3. w \in Wsi \cup {NULL}
    BY InductiveParts DEF Frame
  <2>4. /\ s \in Session /\ s.viewer_idx = i /\ s.owner = g_sessions[k].owner
        /\ s.remote = w /\ s.sdpTo = g_sessions[k].sdpTo
        /\ s.busy = g_sessions[k].busy /\ s.state = g_sessions[k].state
    BY <2>1, <2>2, <2>3 DEF Session
  <2>5. Put(k, s)
    BY <1>4, <2>2 DEF Put
  <2> HIDE DEF s
  <2>6. ASSUME Up
        PROVE  w = s.owner
    <3>1. g_viewer_ws[i] = w
      BY <1>1, <1>4, <2>6 DEF Known, FramesMatchTable, Up
    <3>2. g_initialized
      BY <2>6 DEF Known, NearcadeInductive, ThreadsSoFar
    <3>3. g_viewer_ws[i] = g_sessions[k].owner
      BY <1>1, <2>1, <2>2, <3>2 DEF Known, NearcadeInductive, SessionsSoFar, Leaving
    <3> QED
      BY <2>4, <3>1, <3>3
  <2>7. Up => s.remote \in {NULL, s.owner} /\ s.sdpTo \in {NULL, s.owner}
    BY <2>2, <2>4, <2>6 DEF Known, NearcadeInductive, TalksToOwner
  <2>8. /\ s.busy \in {"no", "send"} => (s.viewer_idx \in told <=> s.state = "connected")
        /\ s.busy = "joined" => s.state = "connected"
        /\ s.busy = "left" => s.state \in {"down", "closed"}
    BY <2>1, <2>2, <2>4 DEF Known, NearcadeInductive, EventsSoFar
  <2> QED
    BY <1>1, <1>2, <1>4, <2>1, <2>2, <2>4, <2>5, <2>7, <2>8, ChangeKeeps
<1> QED
  BY <1>3, <1>4 DEF on_signaling_msg, handle_signaling

\* What is known of the session at a place.
LEMMA SessionAt ==
    ASSUME Known, NEW p \in Place
    PROVE  /\ Sess(p) \in Session /\ Sess(p) \in Live
           /\ Up => /\ Sess(p).remote \in {NULL, Sess(p).owner}
                    /\ Sess(p).sdpTo \in {NULL, Sess(p).owner}
           /\ Sess(p).busy \in {"no", "send"} =>
                 (Sess(p).viewer_idx \in told <=> Sess(p).state = "connected")
           /\ Sess(p).busy = "joined" => Sess(p).state = "connected"
           /\ Sess(p).busy = "left" => Sess(p).state \in {"down", "closed"}
<1>1. Sess(p) \in Session /\ Sess(p) \in Live
  BY InductiveParts, Places DEF Live
<1> QED
  BY <1>1 DEF Known, NearcadeInductive, TalksToOwner, EventsSoFar

\* The SDP or candidate goes to the connection in the entry of the session's index:
\* the session's own, or none when its viewer is leaving.
LEMMA SendKeeps ==
    ASSUME Known, SigInductive', NEW p \in Place, send_via_signaling(p), UNCHANGED sigVars
    PROVE  NearcadeInductive'
<1> DEFINE o == Sess(p)
           target == g_viewer_ws[o.viewer_idx]
           s == [o EXCEPT !.busy = "no", !.sdpTo = IF target = NULL THEN @ ELSE target]
<1>1. /\ o.busy = "send" /\ Put(p, s)
      /\ UNCHANGED <<g_initialized, g_lock, call, told, th, g_viewer_ws>>
  BY DEF send_via_signaling, Send, signaling_send_to_viewer, viewer_ws_by_id, sigVars
<1>2. o \in Session /\ o \in Live
  BY SessionAt
<1>3. target \in Wsi \cup {NULL}
  BY <1>2 DEF Session, Known, SigInductive, SigTypeOK
<1>4. ASSUME Up
      PROVE  target \in {NULL, o.owner}
  <2>1. g_initialized
    BY <1>4 DEF Known, NearcadeInductive, ThreadsSoFar
  <2>2. g_viewer_ws[o.viewer_idx] = o.owner \/ Leaving(o.viewer_idx, o.owner)
    BY <1>2, <2>1 DEF Known, NearcadeInductive, SessionsSoFar
  <2>3. Leaving(o.viewer_idx, o.owner) => target = NULL
    BY <1>4 DEF Leaving, Known, FramesMatchTable, Up
  <2> QED
    BY <2>2, <2>3
<1> HIDE DEF target
<1>5. /\ s \in Session /\ s.viewer_idx = o.viewer_idx /\ s.owner = o.owner
      /\ s.remote = o.remote /\ s.sdpTo = (IF target = NULL THEN o.sdpTo ELSE target)
      /\ s.busy = "no" /\ s.state = o.state
  BY <1>2, <1>3 DEF Session
<1> HIDE DEF s
<1>6. Up => s.remote \in {NULL, s.owner} /\ s.sdpTo \in {NULL, s.owner}
  BY <1>4, <1>5, SessionAt
<1>7. s.viewer_idx \in told <=> s.state = "connected"
  BY <1>1, <1>5, SessionAt
<1> QED
  BY <1>1, <1>5, <1>6, <1>7, ChangeKeeps

LEMMA LocalDescriptionKeeps ==
    ASSUME Known, SigInductive', NEW p \in Place, LocalDescription(p), UNCHANGED sigVars
    PROVE  NearcadeInductive'
<1> DEFINE o == Sess(p)
           s == [o EXCEPT !.busy = "send"]
<1>1. /\ o.busy = "no" /\ Put(p, s)
      /\ UNCHANGED <<g_initialized, g_lock, call, told, th, g_viewer_ws>>
  BY DEF LocalDescription, sigVars
<1>2. /\ s \in Session /\ s.viewer_idx = o.viewer_idx /\ s.owner = o.owner
      /\ s.remote = o.remote /\ s.sdpTo = o.sdpTo /\ s.busy = "send" /\ s.state = o.state
  BY SessionAt DEF Session
<1> HIDE DEF s
<1>3. /\ Up => s.remote \in {NULL, s.owner} /\ s.sdpTo \in {NULL, s.owner}
      /\ s.viewer_idx \in told <=> s.state = "connected"
  BY <1>1, <1>2, SessionAt
<1> QED
  BY <1>1, <1>2, <1>3, ChangeKeeps

\* A change of state is not told yet.
LEMMA StateChangeKeeps ==
    ASSUME Known, SigInductive', NEW p \in Place, StateChange(p), UNCHANGED sigVars
    PROVE  NearcadeInductive'
<1> DEFINE o == Sess(p)
           s(st, b) == [o EXCEPT !.state = st, !.busy = b]
<1>1. /\ o.busy = "no"
      /\ \E x \in {<<"connected", "joined">>, <<"down", "left">>, <<"closed", "left">>} :
            Put(p, s(x[1], x[2]))
      /\ UNCHANGED <<g_initialized, g_lock, call, told, th, g_viewer_ws>>
  BY DEF StateChange, sigVars
<1>2. PICK x \in {<<"connected", "joined">>, <<"down", "left">>, <<"closed", "left">>} :
            Put(p, s(x[1], x[2]))
  BY <1>1
<1> DEFINE n == s(x[1], x[2])
<1>3. /\ n \in Session /\ n.viewer_idx = o.viewer_idx /\ n.owner = o.owner
      /\ n.remote = o.remote /\ n.sdpTo = o.sdpTo
      /\ n.busy = x[2] /\ n.state = x[1]
  <2>1. /\ x[1] \in {"new", "connected", "down", "closed"}
        /\ x[2] \in {"no", "send", "joined", "left"}
    OBVIOUS
  <2>2. o \in Session
    BY SessionAt
  <2> HIDE DEF o
  <2> QED
    BY <2>1, <2>2 DEF Session
<1>4. Put(p, n)
  BY <1>2
<1> HIDE DEF n
<1>5. Up => n.remote \in {NULL, n.owner} /\ n.sdpTo \in {NULL, n.owner}
  BY <1>3, SessionAt
<1>6. /\ n.busy \notin {"no", "send"}
      /\ n.busy = "joined" => n.state = "connected"
      /\ n.busy = "left" => n.state \in {"down", "closed"}
  BY <1>3
<1> QED
  BY <1>1, <1>3, <1>4, <1>5, <1>6, ChangeKeeps

\* The engine is told the state the callback was run for.
LEMMA onStateChangeKeeps ==
    ASSUME Known, SigInductive', NEW p \in Place, onStateChange(p), UNCHANGED sigVars
    PROVE  NearcadeInductive'
<1> DEFINE o == Sess(p)
           s == [o EXCEPT !.busy = "no"]
<1>1. /\ o.busy \in {"joined", "left"} /\ Put(p, s)
      /\ told' = IF o.busy = "joined" THEN told \cup {o.viewer_idx} ELSE told \ {o.viewer_idx}
      /\ UNCHANGED <<g_initialized, g_lock, call, th, g_viewer_ws>>
  BY DEF onStateChange, viewer_state, sigVars
<1>2. /\ s \in Session /\ s.viewer_idx = o.viewer_idx /\ s.owner = o.owner
      /\ s.remote = o.remote /\ s.sdpTo = o.sdpTo /\ s.busy = "no" /\ s.state = o.state
  BY SessionAt DEF Session
<1> HIDE DEF s
<1>3. Up => s.remote \in {NULL, s.owner} /\ s.sdpTo \in {NULL, s.owner}
  BY <1>2, SessionAt
<1>4. s.viewer_idx \in told' <=> s.state = "connected"
  BY <1>1, <1>2, SessionAt
<1> QED
  BY <1>1, <1>2, <1>3, <1>4, ChangeKeeps

LEMMA LibraryKeeps ==
    ASSUME Known, SigInductive', Library
    PROVE  NearcadeInductive'
BY SendKeeps, LocalDescriptionKeeps, StateChangeKeeps, onStateChangeKeeps
   DEF Library, CallbackEnds

--------------------------------------------------------------------------------
(* Theorems *)

LEMMA SessionsStep == Known /\ [Next]_vars => Known'
<1> SUFFICES ASSUME Known, [Next]_vars
             PROVE  Known'
  OBVIOUS
<1>1. SigInductive' /\ FramesMatchTable'
  BY StepOfServer, NextKeeps, MatchKept DEF Known
<1> SUFFICES NearcadeInductive'
  BY <1>1 DEF Known
<1>2. CASE Sig
  BY <1>1, <1>2, ServerStepKeeps, ViewerJoinedKeeps, ViewerLeavesKeeps, MessageKeeps
     DEF Sig, on_signaling_viewer
<1>3. CASE Eng
  BY <1>1, <1>3, EngineStepKeeps, ViewerJoinedKeeps, ViewerLeavesKeeps
     DEF Eng, on_signaling_viewer
<1>4. CASE Library
  BY <1>1, <1>4, LibraryKeeps
<1>5. CASE UNCHANGED vars
  <2>1. UNCHANGED <<th, g_viewer_ws>> /\ UNCHANGED rtcVars
    BY <1>5 DEF vars, rtcVars
  <2>2. ThreadsSoFar' /\ SessionsSoFar' /\ TalksToOwner'
    BY <2>1, RtcUnchanged DEF Known, NearcadeInductive, ThreadsSoFar, SessionsSoFar,
       TalksToOwner, Joining, Leaving, Up, Occupied, rtcVars
  <2> QED
    BY <1>1, <2>1, <2>2, RtcUnchanged, InductiveParts DEF Sound
<1>6. CASE Done
  BY <1>5, <1>6 DEF Done, SigDone, vars, sigVars, rtcVars
<1> QED
  BY <1>2, <1>3, <1>4, <1>5, <1>6 DEF Next

LEMMA SessionsInitially == Init => Known
<1> SUFFICES ASSUME Init
             PROVE  Known
  OBVIOUS
<1>1. SigInductive
  BY InitInductive DEF Init
<1>2. /\ g_initialized = TRUE /\ g_lock = NULL /\ g_sessions = <<>> /\ making = NULL
      /\ call = [t \in Thread |-> "none"] /\ told = {}
      /\ g_viewer_ws = [i \in Slot |-> NULL]
      /\ th["sig"].pc = "check" /\ th["eng"].pc = "app"
  BY DEF Init, RtcInit, SigInit, At
<1>3. Place = {} /\ Live = {}
  BY <1>2 DEF Place, Live
<1>4. FramesMatchTable
  BY <1>2 DEF FramesMatchTable
<1>5. TypeOK
  BY <1>1, <1>2 DEF TypeOK, SigInductive
<1>6. ThreadsSoFar
  BY <1>2, NullAssumption DEF ThreadsSoFar, Up
<1>7. OneSessionPerViewer /\ SessionsSoFar /\ TalksToOwner /\ EventsSoFar
  BY <1>2, <1>3 DEF OneSessionPerViewer, SessionsSoFar, TalksToOwner, EventsSoFar, Occupied
<1> QED
  BY <1>1, <1>4, <1>5, <1>6, <1>7 DEF Known, NearcadeInductive

\* The inductive invariant of the composed system.
THEOREM SessionsInvariant == Safety => []NearcadeInductive
<1>1. Known => NearcadeInductive
  BY DEF Known
<1> QED
  BY <1>1, SessionsStep, SessionsInitially, PTL DEF Safety

\* The types of all variables of the composed system.
THEOREM ComposedTypes == Safety => []TypeOK
<1>1. NearcadeInductive => TypeOK
  BY DEF NearcadeInductive
<1> QED
  BY <1>1, SessionsInvariant, PTL

\* However joins, leaves and shutdown interleave, a viewer's index never has two
\* sessions, so the first match of session_idx_for_viewer is the right one.
THEOREM OneSessionEach == Safety => []OneSessionPerViewer
<1>1. NearcadeInductive => OneSessionPerViewer
  BY DEF NearcadeInductive
<1> QED
  BY <1>1, SessionsInvariant, PTL

\* While the engine has not begun to shut down, the sessions are those of the
\* connections in the table, except while a viewer callback is running.
THEOREM SessionsAreTheTable == Safety => []SessionsMatchTable
<1>1. ASSUME Known
      PROVE  SessionsMatchTable
  <2> SUFFICES ASSUME Up, BetweenHandlers
               PROVE  {<<s.viewer_idx, s.owner>> : s \in Live}
                        = {<<i, g_viewer_ws[i]>> : i \in Occupied}
    BY DEF SessionsMatchTable
  <2>1. g_initialized
    BY <1>1 DEF Known, NearcadeInductive, ThreadsSoFar
  <2>2. \A s \in Live : g_viewer_ws[s.viewer_idx] = s.owner
    BY <1>1, <2>1 DEF Known, NearcadeInductive, SessionsSoFar, Leaving, BetweenHandlers
  <2>3. \A s \in Live : s.viewer_idx \in Occupied
    <3> TAKE s \in Live
    <3>1. s.viewer_idx \in Slot /\ s.owner \in Wsi
      BY <1>1, InductiveParts, Places DEF Session
    <3> QED
      BY <2>2, <3>1, BaseAssumption DEF Occupied
  <2>4. \A i \in Occupied : \E s \in Live : s.viewer_idx = i
    BY <1>1 DEF Known, NearcadeInductive, SessionsSoFar, Joining, BetweenHandlers
  <2>5. \A i \in Occupied : \E s \in Live : <<s.viewer_idx, s.owner>> = <<i, g_viewer_ws[i]>>
    BY <2>2, <2>4
  <2> QED
    BY <2>2, <2>3, <2>5
<1> QED
  BY <1>1, SessionsStep, SessionsInitially, PTL DEF Safety

\* No answer reaches, and no offer or candidate leaves for, another connection than
\* the session's, although the two sides name each other by a reused index.
THEOREM SessionsTalkToOwner == Safety => []TalksToOwner
<1>1. NearcadeInductive => TalksToOwner
  BY DEF NearcadeInductive
<1> QED
  BY <1>1, SessionsInvariant, PTL

\* The engine's view of who is connected is right whenever no callback is running.
THEOREM EngineIsToldTheTruth == Safety => []EventsTellTheTruth
<1>1. NearcadeInductive => EventsTellTheTruth
  BY DEF NearcadeInductive, EventsSoFar, EventsTellTheTruth
<1> QED
  BY <1>1, SessionsInvariant, PTL

\* Of the joins that race with webrtc_shutdown, one at most leaves a session behind.
THEOREM OneLateJoin == Safety => []LateJoinIsAlone
<1>1. ASSUME Known
      PROVE  LateJoinIsAlone
  <2> SUFFICES ASSUME ~g_initialized
               PROVE  Cardinality(Place) =< 1
    BY DEF LateJoinIsAlone
  <2>1. \A p, q \in Place : p = q
    BY <1>1 DEF Known, NearcadeInductive, SessionsSoFar
  <2>2. CASE Place = {}
    BY <2>2, FS_EmptySet
  <2>3. CASE Place # {}
    <3>1. PICK p \in Place : TRUE
      BY <2>3
    <3>2. Place = {p}
      BY <2>1, <3>1
    <3> QED
      BY <3>2, FS_Singleton
  <2> QED
    BY <2>2, <2>3
<1> QED
  BY <1>1, SessionsStep, SessionsInitially, PTL DEF Safety

--------------------------------------------------------------------------------
(* The seat protocol: every step of the SDK is a step of ViewerSeats, or leaves *)
(* seats and doors as they are.                                                *)

seats == [w \in Wsi |-> SeatOf(w)]

Owners  == {s.owner : s \in Live}
Holders == {g_viewer_ws[i] : i \in Slot}

--------------------------------------------------------------------------------
(* Seats in terms of sessions and entries *)

LEMMA SeatKinds ==
    \A w : /\ SeatOf(w) \in {"absent", "seated", "served"}
           /\ SeatOf(w) = "served" <=> w \in Owners
           /\ SeatOf(w) = "seated" <=> w \notin Owners /\ w \in Holders
           /\ SeatOf(w) = "absent" <=> w \notin Owners /\ w \notin Holders
BY DEF SeatOf, Owners, Holders

LEMMA SeatKindsNext ==
    \A w : /\ SeatOf(w)' \in {"absent", "seated", "served"}
           /\ SeatOf(w)' = "served" <=> w \in Owners'
           /\ SeatOf(w)' = "seated" <=> w \notin Owners' /\ w \in Holders'
           /\ SeatOf(w)' = "absent" <=> w \notin Owners' /\ w \notin Holders'
BY DEF SeatOf, Owners, Holders

\* Nothing moves if owners and holders stay the same.
LEMMA SeatsKept ==
    ASSUME Owners' = Owners, Holders' = Holders
    PROVE  seats' = seats
<1>1. \A w \in Wsi : SeatOf(w)' = SeatOf(w)
  BY SeatKinds, SeatKindsNext
<1> QED
  BY <1>1 DEF seats

\* One connection moves, the others keep their seats.
LEMMA SeatMoves ==
    ASSUME NEW w \in Wsi, NEW to, SeatOf(w)' = to,
           \A v \in Wsi \ {w} : SeatOf(v)' = SeatOf(v)
    PROVE  seats' = [seats EXCEPT ![w] = to]
BY DEF seats

\* The steps of the seat protocol, said of seats and Up.
LEMMA MoveIs ==
    ASSUME Up, Up', NEW w \in Wsi, NEW from, NEW to,
           SeatOf(w) = from, seats' = [seats EXCEPT ![w] = to]
    PROVE  Seats!Move(w, from, to)
<1>1. seats[w] = from
  BY DEF seats
<1>2. Up' = Up
  BY DEF Up
<1> QED
  BY <1>1, <1>2 DEF Seats!Move, seats

LEMMA CloseIs ==
    ASSUME Up, ~Up', seats' = seats
    PROVE  Seats!Close
<1>1. Up' = FALSE
  BY DEF Up
<1> QED
  BY <1>1 DEF Seats!Close, seats

LEMMA WindUpIs ==
    ASSUME ~Up, ~Up'
    PROVE  Seats!WindUp
<1>1. seats' \in [Wsi -> {"absent", "seated", "served"}]
  BY SeatKindsNext DEF seats
<1>2. Up' = Up
  BY DEF Up
<1> QED
  BY <1>1, <1>2 DEF Seats!WindUp, seats

--------------------------------------------------------------------------------
(* Sessions and entries while the SDK is up *)

LEMMA WhileUp ==
    ASSUME Known, Up
    PROVE  /\ g_initialized
           /\ Owners \subseteq Wsi
           /\ g_viewer_ws \in [Slot -> Wsi \cup {NULL}]
           /\ \A s \in Live : /\ s.viewer_idx \in Slot
                              /\ \/ g_viewer_ws[s.viewer_idx] = s.owner
                                 \/ Leaving(s.viewer_idx, s.owner)
<1>1. g_initialized
  BY DEF Known, NearcadeInductive, ThreadsSoFar
<1>2. Owners \subseteq Wsi /\ \A s \in Live : s.viewer_idx \in Slot
  BY InductiveParts, Places DEF Owners, Session
<1>3. g_viewer_ws \in [Slot -> Wsi \cup {NULL}]
  BY DEF Known, SigInductive, SigTypeOK
<1> QED
  BY <1>1, <1>2, <1>3 DEF Known, NearcadeInductive, SessionsSoFar

\* Unless a viewer is leaving, whoever has a session has an entry.
LEMMA OwnersHold ==
    ASSUME Known, Up, th["sig"].pc # "viewer_cb" \/ th["sig"].joined
    PROVE  Owners \subseteq Holders
BY WhileUp DEF Owners, Holders, Leaving

\* No more connections hold entries than there are entries, fewer if one is free.
LEMMA FreeSeat ==
    ASSUME g_viewer_ws \in [Slot -> Wsi \cup {NULL}],
           NEW i \in Slot, g_viewer_ws[i] = NULL, NEW S \in SUBSET Wsi, S \subseteq Holders
    PROVE  Cardinality(S) < MAX_VIEWERS
<1> DEFINE D == {j \in Slot : g_viewer_ws[j] \in S}
           f == [j \in D |-> g_viewer_ws[j]]
<1>1. IsFiniteSet(Slot) /\ Cardinality(Slot) = MAX_VIEWERS /\ MAX_VIEWERS \in Nat
  BY FS_Interval, BaseAssumption DEF Slot
<1>2. IsFiniteSet(Slot \ {i}) /\ Cardinality(Slot \ {i}) = MAX_VIEWERS - 1
  BY <1>1, FS_RemoveElement
<1>3. D \in SUBSET (Slot \ {i})
  BY BaseAssumption
<1>4. IsFiniteSet(D) /\ Cardinality(D) =< MAX_VIEWERS - 1
  BY <1>2, <1>3, FS_Subset
<1>5. f \in Surjection(D, S)
  <2>1. f \in [D -> S]
    OBVIOUS
  <2>2. \A v \in S : \E j \in D : f[j] = v
    <3> TAKE v \in S
    <3>1. PICK j \in Slot : g_viewer_ws[j] = v
      BY DEF Holders
    <3>2. j \in D /\ f[j] = v
      BY <3>1
    <3> QED
      BY <3>2
  <2> QED
    BY <2>1, <2>2, Zenon DEF Surjection
<1> HIDE DEF f, D
<1>6. IsFiniteSet(S) /\ Cardinality(S) =< Cardinality(D)
  BY <1>4, <1>5, FS_Surjection
<1>7. Cardinality(S) \in Nat /\ Cardinality(D) \in Nat
  BY <1>4, <1>6, FS_CardinalityType
<1> QED
  BY <1>1, <1>4, <1>6, <1>7

--------------------------------------------------------------------------------
(* Steps that move nobody *)

Stays == seats' = seats /\ Up' = Up

LEMMA StaysIf ==
    ASSUME Live' = Live, UNCHANGED g_viewer_ws, th'["eng"] = th["eng"]
    PROVE  Stays
<1>1. Owners' = Owners /\ Holders' = Holders
  BY DEF Owners, Holders
<1>2. Up' = Up
  BY DEF Up
<1> QED
  BY <1>1, <1>2, SeatsKept DEF Stays

\* A session that changes in place keeps its owner.
LEMMA StaysIfPut ==
    ASSUME Known, NEW p \in Place, NEW s \in Session,
           s.viewer_idx = Sess(p).viewer_idx, s.owner = Sess(p).owner, Put(p, s),
           UNCHANGED g_viewer_ws, th'["eng"] = th["eng"]
    PROVE  Stays
<1>1. Live' = (Live \ {Sess(p)}) \cup {s} /\ Sess(p) \in Live
  BY InductiveParts, SessionChanged DEF Sound, Live
<1>2. Owners' = Owners
  BY <1>1 DEF Owners
<1>3. Holders' = Holders /\ Up' = Up
  BY DEF Holders, Up
<1> QED
  BY <1>2, <1>3, SeatsKept DEF Stays

\* What a callback or a message may do to a session: it stays that of its viewer and
\* connection, and its connected flag stays as it is.
Alters(p, s) ==
    /\ s \in Session
    /\ s.viewer_idx = Sess(p).viewer_idx
    /\ s.owner = Sess(p).owner
    /\ s.connected = Sess(p).connected
    /\ Put(p, s)

\* What libdatachannel's threads do to a session.
LEMMA LibraryAlters ==
    ASSUME Known, Library
    PROVE  \E p \in Place : \E s : Alters(p, s)
<1>1. PICK p \in Place : \/ send_via_signaling(p) \/ onStateChange(p)
                         \/ LocalDescription(p) \/ StateChange(p)
  BY DEF Library, CallbackEnds
<1> DEFINE o == Sess(p)
           Same(s) == /\ s \in Session /\ s.viewer_idx = o.viewer_idx /\ s.owner = o.owner
                      /\ s.connected = o.connected
           target == g_viewer_ws[o.viewer_idx]
           sent == [o EXCEPT !.busy = "no", !.sdpTo = IF target = NULL THEN @ ELSE target]
           changed(st, b) == [o EXCEPT !.state = st, !.busy = b]
<1>2. o \in Session
  BY SessionAt
<1>3. target \in Wsi \cup {NULL}
  BY <1>2 DEF Session, Known, SigInductive, SigTypeOK
<1>4. ASSUME send_via_signaling(p)
      PROVE  Same(sent) /\ Put(p, sent)
  <2>1. Put(p, sent)
    BY <1>4 DEF send_via_signaling, Send, signaling_send_to_viewer, viewer_ws_by_id
  <2> HIDE DEF target, o
  <2>2. Same(sent)
    BY <1>2, <1>3 DEF Session
  <2> QED
    BY <2>1, <2>2
<1>5. \A b \in {"no", "send"} : Same([o EXCEPT !.busy = b])
  <2> HIDE DEF o
  <2> QED
    BY <1>2 DEF Session
<1>6. \A st \in {"connected", "down", "closed"}, b \in {"joined", "left"} : Same(changed(st, b))
  <2> HIDE DEF o
  <2> QED
    BY <1>2 DEF Session
<1>7. \E s : Same(s) /\ Put(p, s)
  <2>1. CASE send_via_signaling(p)
    BY <1>4, <2>1
  <2>2. CASE onStateChange(p)
    BY <1>5, <2>2 DEF onStateChange
  <2>3. CASE LocalDescription(p)
    BY <1>5, <2>3 DEF LocalDescription
  <2>4. CASE StateChange(p)
    <3>1. \/ Put(p, changed("connected", "joined"))
          \/ Put(p, changed("down", "left"))
          \/ Put(p, changed("closed", "left"))
      BY <2>4 DEF StateChange
    <3> HIDE DEF Same, changed
    <3> QED
      BY <1>6, <3>1
  <2> QED
    BY <1>1, <2>1, <2>2, <2>3, <2>4
<1> QED
  BY <1>7 DEF Alters

\* webrtc_handle_signaling gives a session its answer, or does nothing.
LEMMA MessageAlters ==
    ASSUME Known, on_signaling_msg
    PROVE  UNCHANGED rtcVars \/ \E p \in Place : \E s : Alters(p, s)
<1> DEFINE w == th["sig"].wsi
           k == session_idx_for_viewer(th["sig"].idx)
           s == [g_sessions[k] EXCEPT !.remote = w]
<1>1. CASE /\ k # 0 /\ UNCHANGED making
           /\ g_sessions' = [g_sessions EXCEPT ![k].remote = w]
  <2>1. k \in DOMAIN g_sessions
    BY <1>1, InductiveParts, FoundSession DEF RtcTypes
  <2> HIDE DEF k
  <2>2. k \in Place /\ Sess(k) = g_sessions[k] /\ g_sessions[k] \in Session /\ k # 0
    BY <2>1, InductiveParts, Places DEF RtcTypes
  <2>3. w \in Wsi \cup {NULL}
    BY InductiveParts DEF Frame
  <2>4. /\ s \in Session /\ s.viewer_idx = g_sessions[k].viewer_idx
        /\ s.owner = g_sessions[k].owner /\ s.connected = g_sessions[k].connected
    BY <2>2, <2>3 DEF Session
  <2>5. Put(k, s)
    BY <1>1, <2>2 DEF Put
  <2> HIDE DEF s
  <2> QED
    BY <2>2, <2>4, <2>5 DEF Alters
<1> QED
  BY <1>1 DEF on_signaling_msg, handle_signaling

LEMMA LibraryStays ==
    ASSUME Known, Library
    PROVE  Stays
<1>1. UNCHANGED <<g_viewer_ws, th>>
  BY DEF Library, CallbackEnds, sigVars
<1> QED
  BY <1>1, LibraryAlters, StaysIfPut DEF Alters

LEMMA MessageStays ==
    ASSUME Known, on_signaling_msg
    PROVE  Stays
<1>1. th'["eng"] = th["eng"] /\ UNCHANGED g_viewer_ws
  BY InductiveParts DEF on_signaling_msg, MsgCbReturns, Goto, tables
<1> QED
  BY <1>1, MessageAlters, RtcUnchanged, StaysIf, StaysIfPut DEF Alters

--------------------------------------------------------------------------------
(* Arrivals, service and departures *)

\* ESTABLISHED seats a viewer if there is a free entry.
LEMMA EstablishedSeats ==
    ASSUME Known, Up, established, UNCHANGED rtcVars
    PROVE  Stays \/ \E w \in Wsi : Seats!Arrive(w)
<1> DEFINE i == First(FreeSlots)
<1>0. PICK w \in Wsi : w = th["sig"].wsi /\ w \notin Registered
  BY DEF established, Known, SigInductive, FramesAreSound
<1>1. th["sig"].pc = "established" /\ Live' = Live
  BY RtcUnchanged DEF established
<1>2. th'["eng"] = th["eng"]
  BY InductiveParts DEF established, Goto
<1>3. CASE UNCHANGED g_viewer_ws
  BY <1>1, <1>2, <1>3, StaysIf
<1>4. CASE FreeSlots # {} /\ Enter(i, w)
  <2>1. i \in Slot /\ g_viewer_ws[i] = NULL
    <3>1. i \in FreeSlots
      BY <1>4, FirstIsMember DEF FreeSlots
    <3> QED
      BY <3>1 DEF FreeSlots
  <2>2. g_viewer_ws' = [g_viewer_ws EXCEPT ![i] = w]
    BY <1>4 DEF Enter
  <2> HIDE DEF i
  <2>3. Owners \subseteq Holders /\ g_viewer_ws \in [Slot -> Wsi \cup {NULL}] /\ Owners' = Owners
    BY <1>1, OwnersHold, WhileUp DEF Owners
  <2>4. w \notin Holders
    BY <1>0, BaseAssumption DEF Registered, Holders
  <2>5. w \in Holders' /\ \A v \in Wsi \ {w} : v \in Holders' <=> v \in Holders
    BY <1>1, <2>1, <2>2, <2>3, BaseAssumption DEF Holders
  <2>6. SeatOf(w) = "absent" /\ SeatOf(w)' = "seated"
    BY <2>3, <2>4, <2>5, SeatKinds, SeatKindsNext
  <2>7. \A v \in Wsi \ {w} : SeatOf(v)' = SeatOf(v)
    BY <2>3, <2>5, SeatKinds, SeatKindsNext
  <2>8. Seats!Move(w, "absent", "seated")
    BY <1>1, <1>2, <2>6, <2>7, SeatMoves, MoveIs DEF Up
  <2>9. Cardinality(Seats!Seated) < MAX_VIEWERS
    <3>1. \A v \in Wsi : seats[v] # "absent" => v \in Holders
      BY <2>3, SeatKinds DEF seats
    <3>2. Seats!Seated \in SUBSET Wsi /\ Seats!Seated \subseteq Holders
      BY <3>1 DEF Seats!Seated, seats
    <3> QED
      BY <2>1, <2>3, <3>2, FreeSeat
  <2>10. Seats!Arrive(w)
    <3>1. Seats!Cardinality(Seats!Seated) = Cardinality(Seats!Seated)
      BY Zenon DEF Seats!Cardinality, Cardinality
    <3> QED
      BY <2>8, <2>9, <3>1 DEF Seats!Arrive
  <2> QED
    BY <2>10
<1> QED
  BY <1>0, <1>3, <1>4 DEF established, tables

\* CLOSED takes the entry, but the connection is served until its session is gone.
LEMMA ClosedStays ==
    ASSUME Known, Up, closed("sig"), UNCHANGED rtcVars
    PROVE  Stays
<1> DEFINE w == th["sig"].wsi
           i == First(SlotsOf(w))
<1>1. th["sig"].pc = "closed" /\ Live' = Live /\ w \in Wsi
  BY RtcUnchanged DEF closed, Known, SigInductive, FramesAreSound
<1>2. th'["eng"] = th["eng"]
  BY InductiveParts DEF closed, Goto
<1>3. CASE UNCHANGED g_viewer_ws
  BY <1>1, <1>2, <1>3, StaysIf
<1>4. CASE SlotsOf(w) # {} /\ Leave(i)
  <2>1. i \in Slot /\ g_viewer_ws[i] = w
    <3>1. i \in SlotsOf(w)
      BY <1>4, FirstIsMember DEF SlotsOf
    <3> QED
      BY <3>1 DEF SlotsOf
  <2>2. g_viewer_ws' = [g_viewer_ws EXCEPT ![i] = NULL]
    BY <1>4 DEF Leave
  <2> HIDE DEF i, w
  <2>3. PICK s \in Live : s.viewer_idx = i
    <3>1. i \in Occupied
      BY <1>1, <2>1, BaseAssumption DEF Occupied
    <3> QED
      BY <1>1, <3>1 DEF Known, NearcadeInductive, SessionsSoFar, Joining
  <2>4. s.owner = w
    BY <1>1, <2>1, <2>3, WhileUp DEF Leaving
  <2>5. w \in Owners /\ Owners' = Owners
    BY <1>1, <2>4 DEF Owners
  <2>6. \A v \in Wsi \ {w} : v \in Holders' <=> v \in Holders
    BY <1>1, <2>1, <2>2, WhileUp, BaseAssumption DEF Holders
  <2>7. \A v \in Wsi : SeatOf(v)' = SeatOf(v)
    BY <2>5, <2>6, SeatKinds, SeatKindsNext
  <2>8. Up' = Up
    BY <1>2 DEF Up
  <2> QED
    BY <2>7, <2>8 DEF Stays, seats
<1> QED
  BY <1>3, <1>4 DEF closed, tables

\* webrtc_viewer_joined serves the viewer that was seated.
LEMMA JoinSeats ==
    ASSUME Known, Up, viewer_joined("sig")
    PROVE  Stays \/ \E w \in Wsi : Seats!Serve(w)
<1>0. /\ th["sig"].pc = "viewer_cb" /\ th["sig"].joined /\ g_initialized
      /\ OneSessionPerViewer /\ RtcTypes
  BY WhileUp, InductiveParts DEF viewer_joined, Sound
<1>1. CASE JoinRefused("sig")
  BY <1>0, <1>1 DEF JoinRefused
<1>2. CASE create_session("sig") /\ ViewerCbReturns("sig")
  <2>1. /\ making # NULL /\ g_sessions' = Append(g_sessions, making) /\ making' = NULL
    BY <1>2 DEF create_session, Known, NearcadeInductive, ThreadsSoFar
  <2>2. Live' = Live
    BY <1>0, <2>1, SessionListed
  <2> QED
    BY <1>2, <2>2, CallbackReturns, StaysIf
<1>3. CASE JoinBegins("sig", th["sig"].idx, th["sig"].wsi) /\ UNCHANGED sigVars
  <2>1. PICK w \in Wsi, i \in Slot : w = th["sig"].wsi /\ i = th["sig"].idx
    BY <1>0 DEF Known, FramesMatchTable
  <2> DEFINE n == NewSession(i, w)
  <2>2. /\ call["sig"] = "none" /\ making = NULL /\ making' = n
        /\ UNCHANGED <<g_sessions, th, g_viewer_ws>>
    BY <1>3, <2>1, OutsideCallback DEF JoinBegins, Enters, sigVars
  <2>3. n \in Session /\ n.viewer_idx = i /\ n.owner = w
    BY DEF NewSession, Session
  <2> HIDE DEF n
  <2>4. \A u \in Live : u.viewer_idx # i
    BY <1>0, <2>1, <2>2 DEF Known, NearcadeInductive, SessionsSoFar, Joining
  <2>5. Live' = Live \cup {n}
    BY <1>0, <2>2, <2>3, <2>4, SessionMade
  <2>6. Owners' = Owners \cup {w} /\ Holders' = Holders
    BY <2>2, <2>3, <2>5 DEF Owners, Holders
  <2>7. g_viewer_ws[i] = w
    BY <1>0, <2>1 DEF Known, FramesMatchTable, Up
  <2>8. w \notin Owners
    <3> SUFFICES ASSUME NEW u \in Live, u.owner = w
                 PROVE  FALSE
      BY DEF Owners
    <3>1. g_viewer_ws[u.viewer_idx] = w /\ u.viewer_idx \in Slot
      BY <1>0, WhileUp DEF Leaving
    <3>2. u.viewer_idx = i
      BY <2>7, <3>1, BaseAssumption DEF Known, SigInductive, OneEntryPerConnection
    <3> QED
      BY <2>4, <3>2
  <2>9. SeatOf(w) = "seated" /\ SeatOf(w)' = "served"
    BY <2>6, <2>7, <2>8, SeatKinds, SeatKindsNext DEF Holders
  <2>10. \A v \in Wsi \ {w} : SeatOf(v)' = SeatOf(v)
    BY <2>6, SeatKinds, SeatKindsNext
  <2>11. seats' = [seats EXCEPT ![w] = "served"]
    BY <2>9, <2>10, SeatMoves
  <2>12. Up'
    BY <2>2 DEF Up
  <2>13. Seats!Serve(w)
    BY <2>9, <2>11, <2>12, MoveIs DEF Seats!Serve
  <2> QED
    BY <2>13
<1> QED
  BY <1>1, <1>2, <1>3 DEF viewer_joined

\* webrtc_viewer_left ends the service of the viewer whose entry is gone.
LEMMA LeaveSeats ==
    ASSUME Known, Up, viewer_leaves("sig")
    PROVE  Stays \/ \E w \in Wsi : Seats!Depart(w)
<1>0. /\ th["sig"].pc = "viewer_cb" /\ ~th["sig"].joined
      /\ OneSessionPerViewer /\ RtcTypes
  BY InductiveParts DEF viewer_leaves, Sound
<1>1. CASE LeaveBegins("sig", th["sig"].idx) /\ UNCHANGED sigVars
  <2>1. UNCHANGED <<g_sessions, making, th, g_viewer_ws>>
    BY <1>1 DEF LeaveBegins, sigVars
  <2>2. Live' = Live
    BY <2>1 DEF Live, Place, Sess
  <2> QED
    BY <2>1, <2>2, StaysIf
<1>2. CASE LeaveUnknown("sig", th["sig"].idx) /\ ViewerCbReturns("sig")
  <2>1. Live' = Live
    BY <1>2, RtcUnchanged DEF LeaveUnknown
  <2> QED
    BY <1>2, <2>1, CallbackReturns, StaysIf
<1>3. CASE viewer_left("sig", th["sig"].idx) /\ ViewerCbReturns("sig")
  <2>1. PICK w \in Wsi, i \in Slot : w = th["sig"].wsi /\ i = th["sig"].idx
    BY <1>0 DEF Known, FramesMatchTable
  <2>2. PICK k : k = session_idx_for_viewer(i)
    OBVIOUS
  <2>3. Destroy(k) /\ making' = making /\ call["sig"] = "erasing"
    BY <1>3, <2>1, <2>2 DEF viewer_left
  <2>4. k \in 1 .. Len(g_sessions) /\ g_sessions[k].viewer_idx = i
    <3>1. Listed(i)
      BY <2>1, <2>3 DEF Known, NearcadeInductive, ThreadsSoFar
    <3> QED
      BY <1>0, <2>2, <3>1, FoundSession DEF RtcTypes
  <2>5. PICK d \in Live : d = g_sessions[k] /\ Live' = Live \ {d}
    BY <2>3, <2>4, DestroyTells
  <2>6. g_viewer_ws[i] = NULL /\ \A j \in Slot : g_viewer_ws[j] # w
    BY <1>0, <2>1 DEF Known, FramesMatchTable, Up, SlotsOf
  <2>7. d.owner = w
    <3>1. d.owner \in Wsi /\ d.viewer_idx = i
      BY <2>4, <2>5, WhileUp DEF Owners
    <3> QED
      BY <2>1, <2>5, <2>6, <3>1, WhileUp, BaseAssumption DEF Leaving
  <2>8. \A s \in Live' : s.owner # w
    <3> SUFFICES ASSUME NEW s \in Live, s # d, s.owner = w
                 PROVE  FALSE
      BY <2>5
    <3>1. s.viewer_idx # i
      BY <1>0, <2>4, <2>5, OneLive
    <3> QED
      BY <2>1, <2>6, <3>1, WhileUp DEF Leaving
  <2>9. Owners' = Owners \ {w} /\ w \in Owners
    BY <2>5, <2>7, <2>8 DEF Owners
  <2>10. UNCHANGED g_viewer_ws /\ th'["eng"] = th["eng"]
    BY <1>3, CallbackReturns
  <2>11. Holders' = Holders /\ w \notin Holders
    BY <2>6, <2>10 DEF Holders
  <2>12. SeatOf(w) = "served" /\ SeatOf(w)' = "absent"
    BY <2>9, <2>11, SeatKinds, SeatKindsNext
  <2>13. \A v \in Wsi \ {w} : SeatOf(v)' = SeatOf(v)
    BY <2>9, <2>11, SeatKinds, SeatKindsNext
  <2>14. seats' = [seats EXCEPT ![w] = "absent"]
    BY <2>12, <2>13, SeatMoves
  <2>15. Up'
    BY <2>10 DEF Up
  <2>16. Seats!Depart(w)
    BY <2>12, <2>14, <2>15, MoveIs DEF Seats!Depart
  <2> QED
    BY <2>16
<1> QED
  BY <1>1, <1>2, <1>3 DEF viewer_leaves

\* The signaling thread outside webrtc.cpp: only ESTABLISHED seats anybody.
LEMMA ServerSeats ==
    ASSUME Known, Up, Handlers \/ Service, UNCHANGED rtcVars
    PROVE  Stays \/ \E w \in Wsi : Seats!Arrive(w)
<1>1. CASE established
  BY <1>1, EstablishedSeats
<1>2. CASE closed("sig")
  BY <1>2, ClosedStays
<1>3. CASE ~established /\ ~closed("sig")
  <2>1. UNCHANGED g_viewer_ws
    BY <1>3 DEF Handlers, Service, signaling_thread, receive, received, event, ServiceReturns,
       DispatchEstablished, DispatchClosed, DispatchReceive, tables
  <2>2. th'["eng"] = th["eng"]
    BY <1>3, InductiveParts DEF Handlers, Service, signaling_thread, receive, received, event,
       ServiceReturns, DispatchEstablished, DispatchClosed, DispatchReceive, Goto
  <2> QED
    BY <2>1, <2>2, RtcUnchanged, StaysIf
<1> QED
  BY <1>1, <1>2, <1>3

--------------------------------------------------------------------------------
(* The refinement *)

\* Once the engine has begun to shut down it does not come back.
LEMMA DownStays ==
    ASSUME Known, ~Up, [Next]_vars
    PROVE  ~Up'
<1>1. th["eng"].pc # "app"
  BY DEF Up
<1>2. SigNext \/ UNCHANGED sigVars
  BY StepOfServer
<1>3. CASE Shutdown \/ BeginShutdown \/ \E t \in Thread : ViewerCbReturns(t)
  <2>1. CASE signaling_shutdown \/ DestroyBegins \/ DestroyReturns
    BY <2>1, InductiveParts DEF signaling_shutdown, DestroyBegins, DestroyReturns, Goto, At, Up
  <2>2. CASE \E w \in Wsi : DestroyCloses(w)
    BY <2>2, InductiveParts DEF DestroyCloses, Goto, At, Up
  <2>3. CASE closed("eng")
    <3> DEFINE w == th["eng"].wsi
               f == [At("viewer_cb") EXCEPT !.wsi = w, !.idx = First(SlotsOf(w))]
    <3>1. f.pc # "app" /\ Resume("eng").pc # "app"
      BY DEF At, Resume
    <3>2. Goto("eng", f) \/ Goto("eng", Resume("eng"))
      BY <2>3 DEF closed
    <3> HIDE DEF f
    <3> QED
      BY <3>1, <3>2, InductiveParts DEF Goto, Up
  <2>4. CASE \E t \in Thread : ViewerCbReturns(t)
    BY <1>1, <2>4, CallbackReturns DEF Up
  <2>5. CASE BeginShutdown
    BY <1>1, <2>5 DEF BeginShutdown
  <2> QED
    BY <1>3, <2>1, <2>2, <2>3, <2>4, <2>5 DEF Shutdown
<1>4. CASE Handlers \/ Service \/ MsgCbReturns \/ UNCHANGED sigVars
  <2>1. th'["eng"] = th["eng"]
    BY <1>4, InductiveParts DEF Handlers, Service, signaling_thread, established, closed,
       receive, received, event, ServiceReturns, DispatchEstablished, DispatchClosed,
       DispatchReceive, MsgCbReturns, Goto, sigVars
  <2> QED
    BY <1>1, <2>1 DEF Up
<1> QED
  BY <1>2, <1>3, <1>4 DEF SigNext, SigDone

\* A step of the SDK is a step of the seat protocol.
LEMMA SeatsStep ==
    ASSUME Known, [Next]_vars
    PROVE  Seats!Next \/ Stays
<1>1. CASE ~Up
  BY <1>1, DownStays, WindUpIs DEF Seats!Next
<1>2. CASE Up
  <2>1. CASE Sig
    <3>1. CASE (Handlers \/ Service) /\ UNCHANGED rtcVars
      BY <1>2, <3>1, ServerSeats DEF Seats!Next
    <3>2. CASE on_signaling_viewer("sig")
      BY <1>2, <3>2, JoinSeats, LeaveSeats DEF on_signaling_viewer, Seats!Next
    <3>3. CASE on_signaling_msg
      BY <3>3, MessageStays
    <3> QED
      BY <2>1, <3>1, <3>2, <3>3 DEF Sig
  <2>2. CASE Eng
    <3>1. th["eng"].pc = "app" /\ call["eng"] # "clearing"
      BY <1>2 DEF Up, Known, NearcadeInductive, ThreadsSoFar
    <3>2. ~on_signaling_viewer("eng") /\ ~ShutdownDestroys("eng") /\ ~ShutdownEnds("eng")
      BY <3>1 DEF on_signaling_viewer, viewer_joined, viewer_leaves, ShutdownDestroys,
                  ShutdownEnds
    <3>3. ~Shutdown
      BY <3>1 DEF Shutdown, signaling_shutdown, DestroyBegins, DestroyCloses, closed,
                  DestroyReturns
    <3>4. BeginShutdown /\ ShutdownBegins("eng")
      BY <2>2, <3>2, <3>3 DEF Eng, nearcade_shutdown
    <3>5. /\ UNCHANGED <<g_sessions, making, g_viewer_ws>>
          /\ th'["eng"].pc = "stopping"
      BY <3>4, InductiveParts DEF BeginShutdown, ShutdownBegins, Goto, At, tables
    <3>6. Owners' = Owners /\ Holders' = Holders
      BY <3>5 DEF Owners, Holders, Live, Place, Sess
    <3>7. ~Up' /\ seats' = seats
      BY <3>5, <3>6, SeatsKept DEF Up
    <3> QED
      BY <1>2, <3>7, CloseIs DEF Seats!Next
  <2>3. CASE Library
    BY <2>3, LibraryStays
  <2>4. CASE Done \/ UNCHANGED vars
    <3>1. UNCHANGED rtcVars /\ UNCHANGED <<g_viewer_ws, th>>
      BY <2>4 DEF Done, SigDone, vars, sigVars, rtcVars
    <3> QED
      BY <3>1, RtcUnchanged, StaysIf
  <2> QED
    BY <2>1, <2>2, <2>3, <2>4 DEF Next
<1> QED
  BY <1>1, <1>2

\* Nobody has a seat when the SDK comes up.
LEMMA SeatsInitially == Init => Seats!Init
<1> SUFFICES ASSUME Init
             PROVE  Seats!Init
  OBVIOUS
<1>1. Live = {} /\ g_viewer_ws = [i \in Slot |-> NULL] /\ th["eng"].pc = "app"
  BY DEF Init, RtcInit, SigInit, Live, Place, At
<1>2. Up = TRUE
  BY <1>1 DEF Up
<1>3. \A w \in Wsi : w \notin Owners /\ w \notin Holders
  BY <1>1, BaseAssumption DEF Owners, Holders
<1>4. seats = [w \in Wsi |-> "absent"]
  BY <1>3, SeatKinds DEF seats
<1> QED
  BY <1>2, <1>4 DEF Seats!Init, seats

\* The table, the sessions and the threads that update them in separate critical
\* sections implement the seat protocol: no connection is served that was not
\* seated, none leaves its seat while it is served, and the house is never overfull.
THEOREM SdkImplementsSeats == Safety => ImplementsSeats
<1>1. Known /\ [Next]_vars => [Seats!Next]_<<Up, [w \in Wsi |-> SeatOf(w)]>>
  BY SeatsStep DEF Stays, seats
<1>2. Safety => []Known
  BY SessionsStep, SessionsInitially, PTL DEF Safety
<1> QED
  BY <1>1, <1>2, SeatsInitially, PTL DEF Safety, ImplementsSeats, Seats!Spec

--------------------------------------------------------------------------------
(* The engine's calls *)

\* No session has its connected flag set.
NoneMarked == \A s \in Live : ~s.connected

\* Callbacks and messages keep the flag as it is.
LEMMA AlterMarksNone ==
    ASSUME Known, NoneMarked, NEW p \in Place, NEW s, Alters(p, s)
    PROVE  NoneMarked'
<1>1. Sess(p) \in Live
  BY DEF Live
<1>2. Live' = (Live \ {Sess(p)}) \cup {s}
  BY InductiveParts, SessionChanged DEF Sound, Alters
<1> QED
  BY <1>1, <1>2 DEF NoneMarked, Alters

\* A session is made without the flag, keeps it when it is listed, and goes with it.
LEMMA CallbackMarksNone ==
    ASSUME Known, NoneMarked, NEW t \in Thread, on_signaling_viewer(t)
    PROVE  NoneMarked'
<1>1. CASE JoinBegins(t, th[t].idx, th[t].wsi)
  <2>1. making' = NewSession(th[t].idx, th[t].wsi) /\ UNCHANGED g_sessions
    BY <1>1 DEF JoinBegins
  <2>2. ~making'.connected
    BY <2>1 DEF NewSession
  <2>3. \A k \in DOMAIN g_sessions : ~g_sessions[k].connected
    BY InductiveParts, Places DEF NoneMarked, Live, RtcTypes
  <2>4. \A p \in Place' : ~Sess(p)'.connected
    BY <2>1, <2>2, <2>3 DEF Place, Sess
  <2> QED
    BY <2>4 DEF NoneMarked, Live
<1>2. CASE create_session(t)
  <2>1. making # NULL
    BY <1>2 DEF create_session, Known, NearcadeInductive, ThreadsSoFar
  <2>2. Live' = Live
    BY <1>2, <2>1, InductiveParts, SessionListed DEF create_session, Sound
  <2> QED
    BY <2>2 DEF NoneMarked
<1>3. CASE viewer_left(t, th[t].idx)
  <2> DEFINE k == session_idx_for_viewer(th[t].idx)
  <2>1. k \in 1 .. Len(g_sessions)
    <3>1. Listed(th[t].idx)
      BY <1>3 DEF viewer_left, Known, NearcadeInductive, ThreadsSoFar
    <3>2. k # 0
      BY <3>1, InductiveParts, FoundSession DEF RtcTypes
    <3> QED
      BY <3>2, InductiveParts, FoundSession DEF RtcTypes
  <2>2. g_sessions' = RemoveAt(g_sessions, k) /\ making' = making
    BY <1>3 DEF viewer_left, Destroy
  <2> HIDE DEF k
  <2>3. Live' = Live \ {g_sessions[k]}
    BY <2>1, <2>2, InductiveParts, SessionGone DEF Sound
  <2> QED
    BY <2>3 DEF NoneMarked
<1>4. CASE UNCHANGED <<g_sessions, making>>
  BY <1>4 DEF NoneMarked, Live, Place, Sess
<1> QED
  BY <1>1, <1>2, <1>3, <1>4 DEF on_signaling_viewer, viewer_joined, viewer_leaves, JoinRefused,
     LeaveBegins, LeaveUnknown, rtcVars

LEMMA NoneMarkedStep == Known /\ NoneMarked /\ [Next]_vars => NoneMarked'
<1> SUFFICES ASSUME Known, NoneMarked, [Next]_vars
             PROVE  NoneMarked'
  OBVIOUS
<1>1. CASE UNCHANGED <<g_sessions, making>>
  BY <1>1 DEF NoneMarked, Live, Place, Sess
<1>2. CASE Sig
  BY <1>1, <1>2, CallbackMarksNone, MessageAlters, AlterMarksNone DEF Sig, rtcVars
<1>3. CASE Eng
  <2>1. CASE ShutdownDestroys("eng")
    <3>1. g_sessions # <<>> /\ g_sessions' = RemoveAt(g_sessions, 1) /\ making' = making
      BY <2>1 DEF ShutdownDestroys, Destroy
    <3>2. 1 \in 1 .. Len(g_sessions)
      BY <3>1, InductiveParts, EmptySeq DEF RtcTypes
    <3>3. Live' = Live \ {g_sessions[1]}
      BY <3>1, <3>2, InductiveParts, SessionGone DEF Sound
    <3> QED
      BY <3>3 DEF NoneMarked
  <2>2. CASE on_signaling_viewer("eng")
    BY <2>2, CallbackMarksNone
  <2>3. CASE ShutdownBegins("eng") \/ ShutdownEnds("eng") \/ UNCHANGED rtcVars
    BY <1>1, <2>3 DEF ShutdownBegins, ShutdownEnds, rtcVars
  <2> QED
    BY <1>3, <2>1, <2>2, <2>3 DEF Eng, nearcade_shutdown
<1>4. CASE Library
  BY <1>4, LibraryAlters, AlterMarksNone
<1>5. CASE Done \/ UNCHANGED vars
  BY <1>1, <1>5 DEF Done, vars, rtcVars
<1> QED
  BY <1>2, <1>3, <1>4, <1>5 DEF Next

\* A call of the engine is not a step of the SDK below.
LEMMA StepOfApi == [ApiNext]_allVars => [Next]_vars
BY DEF ApiNext, nearcade_start_streaming, nearcade_stop_streaming, nearcade_send_h264,
       nearcade_disconnect_viewer, nearcade_set_viewer_settings, nearcade_relay, allVars

ApiKnown == Known /\ NoneMarked /\ NobodyIsActive /\ NoFrameIsSent

LEMMA ApiStep == ApiKnown /\ [ApiNext]_allVars => ApiKnown'
<1> SUFFICES ASSUME ApiKnown, [ApiNext]_allVars
             PROVE  ApiKnown'
  OBVIOUS
<1>1. Known' /\ NoneMarked'
  BY StepOfApi, SessionsStep, NoneMarkedStep DEF ApiKnown
<1>2. NobodyIsActive'
  BY DEF ApiKnown, NobodyIsActive, ApiNext, nearcade_start_streaming,
         nearcade_stop_streaming, nearcade_send_h264, nearcade_disconnect_viewer,
         nearcade_set_viewer_settings, nearcade_relay, allVars, apiVars
<1>3. NoFrameIsSent'
  <2>1. CASE nearcade_send_h264
    <3>1. \A k \in DOMAIN g_sessions : ~g_sessions[k].connected
      BY InductiveParts, Places DEF ApiKnown, NoneMarked, Live, RtcTypes
    <3>2. frame'.got = {s.owner : s \in {u \in {g_sessions[k] : k \in DOMAIN g_sessions} :
                                            u.connected}}
      BY <2>1 DEF nearcade_send_h264
    <3> QED
      BY <3>1, <3>2 DEF NoFrameIsSent
  <2>2. CASE UNCHANGED frame
    BY <2>2 DEF ApiKnown, NoFrameIsSent
  <2> QED
    BY <2>1, <2>2 DEF ApiNext, nearcade_start_streaming, nearcade_stop_streaming,
       nearcade_disconnect_viewer, nearcade_set_viewer_settings, nearcade_relay, allVars,
       apiVars
<1> QED
  BY <1>1, <1>2, <1>3 DEF ApiKnown

LEMMA ApiInitially == ApiInit => ApiKnown
<1> SUFFICES ASSUME ApiInit PROVE ApiKnown
  OBVIOUS
<1>1. Known
  BY SessionsInitially DEF ApiInit
<1>2. Live = {}
  BY DEF ApiInit, Init, RtcInit, Live, Place
<1> QED
  BY <1>1, <1>2 DEF ApiKnown, NoneMarked, NobodyIsActive, NoFrameIsSent, ApiInit

\* The engine's calls add no behaviour to signaling.c and webrtc.cpp: what is proved of
\* Safety holds while the engine streams, relays and changes settings.
THEOREM ApiImplementsSdk == ApiSafety => Safety
<1>1. ApiInit => Init
  BY DEF ApiInit
<1> QED
  BY <1>1, StepOfApi, PTL DEF ApiSafety, Safety

\* webrtc_send_h264 sends to the sessions whose connected flag is set, and nothing in
\* webrtc.cpp sets it: for no number of viewers does a frame reach anybody.
THEOREM FramesReachNobody == ApiSafety => []NoFrameIsSent
<1>1. ApiKnown => NoFrameIsSent
  BY DEF ApiKnown
<1> QED
  BY <1>1, ApiStep, ApiInitially, PTL DEF ApiSafety

\* nearcade_disconnect_viewer and the setters look for an active entry of
\* g_state.viewers: there never is one.
THEOREM SettingsReachNobody == ApiSafety => []NobodyIsActive
<1>1. ApiKnown => NobodyIsActive
  BY DEF ApiKnown
<1> QED
  BY <1>1, ApiStep, ApiInitially, PTL DEF ApiSafety

================================================================================
