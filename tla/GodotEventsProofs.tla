--------------------------- MODULE GodotEventsProofs ---------------------------
(***************************************************************************)
(* Proofs about the Godot binding's event queue, for any set of viewers    *)
(* and any limit: the queue stays within its bound, and it neither         *)
(* reorders, repeats nor withholds what is told of a viewer.               *)
(***************************************************************************)
EXTENDS GodotEvents, SequenceTheorems, TLAPS

USE DEF Event

--------------------------------------------------------------------------------
(* Events *)

\* What an event says of the viewers, one by one.
LEMMA AfterEvent ==
    ASSUME NEW e \in Event, NEW V \in SUBSET Viewer
    PROVE  /\ After(V, e) \subseteq Viewer
           /\ About(e) \subseteq Viewer
           /\ \A i : i \notin About(e) => (i \in After(V, e) <=> i \in V)
           /\ \A i : i \in About(e) =>
                  /\ e.type # "other" /\ e.viewer = i
                  /\ i \in After(V, e) <=> e = [type |-> "joined", viewer |-> i]
<1>1. CASE e = [type |-> "other"]
  BY <1>1 DEF After, About
<1>2. CASE e \in [type : {"joined", "left"}, viewer : Viewer]
  <2>1. e = [type |-> e.type, viewer |-> e.viewer] /\ e.type \in {"joined", "left"}
        /\ e.viewer \in Viewer
    BY <1>2
  <2>2. About(e) = {e.viewer}
    BY <2>1 DEF About
  <2>3. After(V, e) = IF e.type = "joined" THEN V \cup {e.viewer} ELSE V \ {e.viewer}
    BY <2>1 DEF After
  <2> QED
    BY <2>1, <2>2, <2>3
<1> QED
  BY <1>1, <1>2

--------------------------------------------------------------------------------
(* Types, and the bound of the queue *)

LEMMA TypesInitially == Init => GodotTypeOK
<1>1. <<>> \in Seq(Event) /\ Len(<<>>) = 0
  BY EmptySeq
<1>2. 0 =< QUEUE_LIMIT
  BY GodotAssumption
<1> QED
  BY <1>1, <1>2 DEF Init, GodotTypeOK

LEMMA FireTypes ==
    ASSUME GodotTypeOK, NEW e \in Event, fire_event(e)
    PROVE  GodotTypeOK'
<1>1. told' \subseteq Viewer /\ About(e) \subseteq Viewer
  BY AfterEvent DEF fire_event, GodotTypeOK
<1>2. CASE event_queue' = event_queue /\ lost' \in {lost, lost \cup About(e)}
  BY <1>1, <1>2 DEF fire_event, GodotTypeOK
<1>3. CASE /\ Len(event_queue) < QUEUE_LIMIT
           /\ event_queue' = Append(event_queue, e) /\ lost' = lost
  <2>1. event_queue' \in Seq(Event) /\ Len(event_queue') = Len(event_queue) + 1
    BY <1>3, AppendProperties DEF GodotTypeOK
  <2>2. Len(event_queue') =< QUEUE_LIMIT
    BY <1>3, <2>1, LenProperties, GodotAssumption DEF GodotTypeOK
  <2> QED
    BY <1>1, <1>3, <2>1, <2>2 DEF fire_event, GodotTypeOK
<1> QED
  BY <1>2, <1>3 DEF fire_event, event_callback

LEMMA PollTypes == ASSUME GodotTypeOK, poll_event PROVE GodotTypeOK'
<1>1. event_queue \in Seq(Event) /\ event_queue # <<>>
  BY DEF poll_event, GodotTypeOK
<1>2. /\ Head(event_queue) \in Event /\ Tail(event_queue) \in Seq(Event)
      /\ Len(Tail(event_queue)) = Len(event_queue) - 1
  BY <1>1, HeadTailProperties
<1>3. Len(event_queue') =< QUEUE_LIMIT
  BY <1>1, <1>2, LenProperties, GodotAssumption DEF poll_event, GodotTypeOK
<1>4. shown' \subseteq Viewer
  BY <1>2, AfterEvent DEF poll_event, GodotTypeOK
<1> QED
  BY <1>2, <1>3, <1>4 DEF poll_event, GodotTypeOK

LEMMA TypesStep == GodotTypeOK /\ [Next]_vars => GodotTypeOK'
<1> SUFFICES ASSUME GodotTypeOK, [Next]_vars PROVE GodotTypeOK'
  OBVIOUS
<1>1. CASE UNCHANGED vars
  BY <1>1 DEF vars, GodotTypeOK
<1>2. CASE init \/ set_event_callback
  BY <1>2 DEF init, set_event_callback, GodotTypeOK
<1>3. CASE poll_event
  BY <1>3, PollTypes
<1>4. CASE \E e \in Event : fire_event(e)
  BY <1>4, FireTypes
<1> QED
  BY <1>1, <1>2, <1>3, <1>4 DEF Next

--------------------------------------------------------------------------------
(* What the game will have shown *)

\* Nothing changes for a viewer that the step does not concern.
LEMMA SameShow ==
    ASSUME NEW i, event_queue' = event_queue, i \in shown' <=> i \in shown
    PROVE  WillShow(i)' <=> WillShow(i)
BY DEF WillShow

\* An event that is appended decides for the viewer it is about, and for no other.
LEMMA AppendShows ==
    ASSUME GodotTypeOK, NEW e \in Event, event_queue' = Append(event_queue, e),
           shown' = shown, NEW i \in Viewer
    PROVE  WillShow(i)' <=> IF i \in About(e) THEN e = [type |-> "joined", viewer |-> i]
                                              ELSE WillShow(i)
<1> DEFINE k == Len(event_queue)
           joined == [type |-> "joined", viewer |-> i]
<1>1. /\ k \in Nat /\ DOMAIN event_queue = 1 .. k /\ DOMAIN event_queue' = 1 .. k + 1
      /\ event_queue'[k + 1] = e
      /\ \A n \in 1 .. k : event_queue'[n] = event_queue[n]
  BY LenProperties, AppendProperties DEF GodotTypeOK
<1>2. i \in About(joined)
  BY DEF About
<1> HIDE DEF k, joined
<1>3. CASE i \in About(e)
  <2>1. WillShow(i)' => e = joined
    BY <1>1, <1>3 DEF WillShow, joined
  <2>2. e = joined => WillShow(i)'
    BY <1>1 DEF WillShow, joined
  <2> QED
    BY <1>3, <2>1, <2>2 DEF joined
<1>4. CASE i \notin About(e)
  <2>1. e # joined
    BY <1>2, <1>4
  <2>2. WillShow(i)' => WillShow(i)
    BY <1>1, <1>4, <2>1 DEF WillShow, joined
  <2>3. WillShow(i) => WillShow(i)'
    BY <1>1, <1>4 DEF WillShow
  <2> QED
    BY <1>4, <2>2, <2>3
<1> QED
  BY <1>3, <1>4

LEMMA FireCatchesUp ==
    ASSUME GodotTypeOK, QueueCatchesUp, NEW e \in Event, fire_event(e)
    PROVE  QueueCatchesUp'
<1> SUFFICES ASSUME NEW i \in Viewer \ lost' PROVE WillShow(i)' <=> i \in told'
  BY DEF QueueCatchesUp
<1>1. i \notin lost
  BY DEF fire_event, event_callback
<1>2. WillShow(i) <=> i \in told
  BY <1>1 DEF QueueCatchesUp
<1>3. told' = After(told, e) /\ shown' = shown /\ told \in SUBSET Viewer
  BY DEF fire_event, GodotTypeOK
<1>4. CASE event_queue' = event_queue /\ lost' = lost \cup About(e)
  BY <1>2, <1>3, <1>4, SameShow, AfterEvent
<1>5. CASE event_queue' = Append(event_queue, e)
  BY <1>2, <1>3, <1>5, AppendShows, AfterEvent
<1> QED
  BY <1>4, <1>5 DEF fire_event, event_callback

\* Polling takes the oldest event from the queue to the game.
LEMMA PollCatchesUp ==
    ASSUME GodotTypeOK, QueueCatchesUp, poll_event
    PROVE  QueueCatchesUp'
<1> SUFFICES ASSUME NEW i \in Viewer \ lost' PROVE WillShow(i)' <=> WillShow(i)
  BY DEF QueueCatchesUp, poll_event
<1> DEFINE k == Len(event_queue)
           e == event_queue[1]
           joined == [type |-> "joined", viewer |-> i]
<1>1. event_queue \in Seq(Event) /\ event_queue # <<>> /\ shown \in SUBSET Viewer
  BY DEF poll_event, GodotTypeOK
<1>2. k \in Nat /\ k >= 1 /\ DOMAIN event_queue = 1 .. k /\ e \in Event
  BY <1>1, EmptySeq, LenProperties
<1>3. DOMAIN event_queue' = 1 .. k - 1 /\ \A n \in 1 .. k - 1 : event_queue'[n] = event_queue[n + 1]
  BY <1>1, <1>2, HeadTailProperties, LenProperties DEF poll_event
<1>4. shown' = After(shown, e)
  BY <1>1 DEF poll_event
<1>5. /\ i \notin About(e) => (i \in shown' <=> i \in shown)
      /\ i \in About(e) => (i \in shown' <=> e = joined)
  BY <1>1, <1>2, <1>4, AfterEvent
<1>6. i \in About(joined)
  BY DEF About
<1> HIDE DEF k, e, joined
<1>7. /\ \A m \in 2 .. k : m - 1 \in 1 .. k - 1 /\ event_queue'[m - 1] = event_queue[m]
      /\ \A m \in 1 .. k - 1 : m + 1 \in 2 .. k
      /\ 1 .. k = {1} \cup 2 .. k
  BY <1>2, <1>3
<1>8. ASSUME WillShow(i) PROVE WillShow(i)'
  <2>1. ASSUME NEW n \in 1 .. k, event_queue[n] = joined,
               \A m \in 1 .. k : m > n => i \notin About(event_queue[m])
        PROVE  WillShow(i)'
    <3>1. CASE n = 1
      <4>1. \A m \in 1 .. k - 1 : i \notin About(event_queue'[m])
        BY <1>2, <1>3, <2>1, <3>1
      <4>2. i \in shown'
        BY <1>5, <1>6, <2>1, <3>1 DEF e
      <4> QED
        BY <1>3, <4>1, <4>2 DEF WillShow
    <3>2. CASE n > 1
      <4>1. n - 1 \in 1 .. k - 1 /\ event_queue'[n - 1] = joined
        BY <1>2, <1>3, <2>1, <3>2
      <4>2. \A m \in 1 .. k - 1 : m > n - 1 => i \notin About(event_queue'[m])
        BY <1>2, <1>3, <2>1
      <4> QED
        BY <1>3, <4>1, <4>2 DEF WillShow, joined
    <3> QED
      BY <3>1, <3>2
  <2>2. ASSUME i \in shown, \A n \in 1 .. k : i \notin About(event_queue[n])
        PROVE  WillShow(i)'
    <3>1. i \in shown'
      BY <1>2, <1>5, <2>2 DEF e
    <3>2. \A m \in 1 .. k - 1 : i \notin About(event_queue'[m])
      BY <1>2, <1>3, <2>2
    <3> QED
      BY <1>3, <3>1, <3>2 DEF WillShow
  <2> QED
    BY <1>2, <1>8, <2>1, <2>2 DEF WillShow, joined
<1>9. ASSUME WillShow(i)' PROVE WillShow(i)
  <2>1. ASSUME NEW n \in 1 .. k - 1, event_queue'[n] = joined,
               \A m \in 1 .. k - 1 : m > n => i \notin About(event_queue'[m])
        PROVE  WillShow(i)
    <3>1. n + 1 \in 1 .. k /\ event_queue[n + 1] = joined
      BY <1>2, <1>3, <2>1
    <3>2. ASSUME NEW m \in 1 .. k, m > n + 1 PROVE i \notin About(event_queue[m])
      <4>1. m - 1 \in 1 .. k - 1 /\ m - 1 > n /\ event_queue'[m - 1] = event_queue[m]
        BY <1>2, <1>7, <3>2
      <4> QED
        BY <2>1, <4>1
    <3> QED
      BY <1>2, <3>1, <3>2 DEF WillShow, joined
  <2>2. ASSUME i \in shown', \A n \in 1 .. k - 1 : i \notin About(event_queue'[n])
        PROVE  WillShow(i)
    <3>1. \A m \in 2 .. k : i \notin About(event_queue[m])
      BY <1>7, <2>2
    <3>2. CASE i \in About(e)
      <4>1. event_queue[1] = joined /\ 1 \in 1 .. k
        BY <1>2, <1>5, <2>2, <3>2 DEF e
      <4>2. \A m \in 1 .. k : m > 1 => i \notin About(event_queue[m])
        BY <1>2, <3>1
      <4> QED
        BY <1>2, <4>1, <4>2 DEF WillShow, joined
    <3>3. CASE i \notin About(e)
      <4>1. \A m \in 1 .. k : i \notin About(event_queue[m])
        BY <1>7, <3>1, <3>3 DEF e
      <4> QED
        BY <1>2, <1>5, <2>2, <3>3, <4>1 DEF WillShow
    <3> QED
      BY <3>2, <3>3
  <2> QED
    BY <1>3, <1>9, <2>1, <2>2 DEF WillShow, joined
<1> QED
  BY <1>8, <1>9

LEMMA CatchesUpStep ==
    GodotTypeOK /\ QueueCatchesUp /\ [Next]_vars => QueueCatchesUp'
<1> SUFFICES ASSUME GodotTypeOK, QueueCatchesUp, [Next]_vars PROVE QueueCatchesUp'
  OBVIOUS
<1>1. CASE UNCHANGED <<event_queue, told, shown, lost>>
  BY <1>1, SameShow DEF QueueCatchesUp
<1>2. CASE poll_event
  BY <1>2, PollCatchesUp
<1>3. CASE \E e \in Event : fire_event(e)
  BY <1>3, FireCatchesUp
<1> QED
  BY <1>1, <1>2, <1>3 DEF Next, init, set_event_callback, vars

--------------------------------------------------------------------------------
(* The theorems *)

\* _event_callback keeps the queue within its limit, whoever fires and however
\* seldom the game polls.
THEOREM QueueIsBounded == Safety => []GodotTypeOK
<1> QED
  BY TypesInitially, TypesStep, PTL DEF Safety

\* fire_event, _event_callback and poll_event: a viewer none of whose events was
\* dropped is shown as the SDK told it, once the queue has been polled empty.
THEOREM QueueIsFaithful == Safety => []QueueCatchesUp
<1>1. Init => QueueCatchesUp
  BY DEF Init, QueueCatchesUp, WillShow
<1> QED
  BY <1>1, TypesInitially, TypesStep, CatchesUpStep, PTL DEF Safety

================================================================================
