--------------------------------- MODULE Base ----------------------------------
(***************************************************************************)
(* What the subsystems share: connections, the viewer index ("viewer_N")   *)
(* that signaling.c hands out and webrtc.cpp keys its sessions by, and the *)
(* threads that run the SDK's own code.                                    *)
(***************************************************************************)
EXTENDS Integers, FiniteSets

CONSTANTS
    Wsi,          \* connections (struct lws *); a pointer is reused after close
    MAX_VIEWERS,  \* length of the viewer table
    NULL          \* the null pointer

ASSUME BaseAssumption ==
    /\ MAX_VIEWERS \in Nat \ {0}
    /\ NULL \notin Wsi

Slot   == 0 .. MAX_VIEWERS - 1
NoSlot == -1                      \* viewer_idx / closed_idx = -1
Thread == {"sig", "eng"}          \* signaling_thread, and the engine's own

================================================================================
