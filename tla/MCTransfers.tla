----------------------------- MODULE MCTransfers -----------------------------
(* Small instances of Transfers. *)
EXTENDS Transfers

\* One invite of each kind, and a power cap below the power a user may enter.
SmallLimits == {[cap |-> 0, normals |-> 1, specials |-> 1]}

\* The candidates have an alliance to go to, and the players are on the roster of one.
SettledInit ==
  /\ Init
  /\ \A p \in Players : players[p].alliance \in Alliances
  /\ \A r \in Ids : records[r] # NoRecord => records[r].target \in Alliances

SettledSpec == SettledInit /\ [][Next]_vars

\* The last call is a behaviour's end.  What the invariants speak of changes by calls, and
\* by a fetch, which brings what the table holds.
Unfinished == calls < MaxCalls
=============================================================================
