-------------------------------- MODULE MCInput --------------------------------
(***************************************************************************)
(* TLC instance of the input backend: the requests, in which the left      *)
(* stick is at rest, a little aside or at its end and a button is released *)
(* or pressed.  A little aside is more than the fuzz away from rest and    *)
(* less than twice that, so that the device follows in part.               *)
(***************************************************************************)
EXTENDS InputLinux, TLC

AskedFor ==
    {r \in [Control -> {-32767, 0, 1, 20}] :
        \A c \in Control : r[c] \in IF c = "ABS_X" THEN {-32767, 0, 20} ELSE {0, 1}}

\* Callers and descriptors are only compared.
Symmetry == Permutations(Caller) \cup Permutations(Fd)

================================================================================
