------------------------------ MODULE MCWarRoom ------------------------------
(* Small instances of WarRoom. *)
EXTENDS WarRoom, TLC

Symmetry == Permutations(Admins)

\* Every player has an alliance of his own: promoting one who has none changes nothing.
HousedInit == Init /\ housed = Players

HousedSpec == HousedInit /\ [][Next]_vars

\* The last call is a behaviour's end, but for its handler's second statement: only calls
\* change the attendance.
Unfinished == calls < MaxCalls \/ promoting # {} \/ disbanding # {}
=============================================================================
