------------------------------ MODULE ViewerSeats ------------------------------
(***************************************************************************)
(* What signaling and webrtc promise together while the SDK is up: a fixed *)
(* number of seats; a guest takes a free seat, is then served by one       *)
(* session of its own, and gives the seat back only when that session is   *)
(* gone.  Once the doors close no more is promised than that they stay so. *)
(***************************************************************************)
EXTENDS Naturals, FiniteSets

CONSTANTS Capacity, Guest

VARIABLES
    open,   \* the SDK has not begun to shut down
    seat    \* seat[g]: "absent", "seated" or "served"

Seated == {g \in Guest : seat[g] # "absent"}

Init ==
    /\ open = TRUE
    /\ seat = [g \in Guest |-> "absent"]

Move(g, from, to) ==
    /\ open
    /\ seat[g] = from
    /\ seat' = [seat EXCEPT ![g] = to]
    /\ UNCHANGED open

Arrive(g) == Cardinality(Seated) < Capacity /\ Move(g, "absent", "seated")
Serve(g)  == Move(g, "seated", "served")
Depart(g) == Move(g, "served", "absent")

Close ==
    /\ open
    /\ open' = FALSE
    /\ UNCHANGED seat

\* Winding up: guests leave, or a session that was on its way still appears.
WindUp ==
    /\ ~open
    /\ seat' \in [Guest -> {"absent", "seated", "served"}]
    /\ UNCHANGED open

Next ==
    \/ \E g \in Guest : Arrive(g) \/ Serve(g) \/ Depart(g)
    \/ Close
    \/ WindUp

Spec == Init /\ [][Next]_<<open, seat>>

================================================================================
