----------------------------- MODULE RedeemCall -----------------------------
(***************************************************************************)
(* What a caller of redeemForPlayer may count on, without its attempts,    *)
(* its pauses or the game's messages: the call comes back with Success or  *)
(* Failed; it redeems nothing at the game but its own code for its own     *)
(* player; it answers Success only when the game has redeemed that code or *)
(* one of its type; and it records nothing but that code, and no sooner    *)
(* than it answers Success. That it records at all it does not promise.    *)
(* RedeemEngine takes such a call for one step.                            *)
(***************************************************************************)
CONSTANTS Players, Codes, TypeOf

VARIABLES
  game, roster, records,    \* of RedeemForPlayer, which other things change too
  calling, pair, result     \* whether a call runs, whose, and the last call's answer

stores == <<game, roster, records>>
callVars == <<stores, calling, pair, result>>

Used(q) ==
  \E r \in game : r[1] = q[1] /\ TypeOf[r[2]] = TypeOf[q[2]]

CallInit ==
  /\ game \in {g \in SUBSET (Players \X Codes) :
                 \A r, q \in g : r[1] = q[1] /\ TypeOf[r[2]] = TypeOf[q[2]] => r = q}
  /\ roster = Players /\ records = {}
  /\ calling = FALSE /\ pair \in Players \X Codes /\ result = "none"

Begin(q) ==
  /\ ~calling
  /\ calling' = TRUE /\ pair' = q /\ result' = "none"
  /\ UNCHANGED stores

\* In the middle of a call its code may be redeemed and its player be put in the roster.
Work ==
  /\ calling
  /\ game' = game \/ (~Used(pair) /\ game' = game \cup {pair})
  /\ roster' \in {roster, roster \cup {pair[1]}}
  /\ UNCHANGED <<records, calling, pair, result>>

\* The answer Success stands although the record is missing: a moderator has just deleted
\* the player, or the statement failed.
Succeed ==
  /\ calling /\ Used(pair)
  /\ \/ UNCHANGED records
     \/ pair[1] \in roster /\ records' = records \cup {pair}
  /\ calling' = FALSE /\ result' = "Success"
  /\ UNCHANGED <<game, roster, pair>>

Fail ==
  /\ calling
  /\ calling' = FALSE /\ result' = "Failed"
  /\ UNCHANGED <<stores, pair>>

\* The process dies.
Abort ==
  /\ calling
  /\ calling' = FALSE /\ result' = "none"
  /\ UNCHANGED <<stores, pair>>

\* Players claim codes, and moderators delete and add players.
Claim(q) ==
  /\ ~Used(q)
  /\ game' = game \cup {q}
  /\ UNCHANGED <<roster, records, calling, pair, result>>

Leave(p) ==
  /\ roster' = roster \ {p}
  /\ records' = {r \in records : r[1] # p}
  /\ UNCHANGED <<game, calling, pair, result>>

Join(p) ==
  /\ roster' = roster \cup {p}
  /\ UNCHANGED <<game, records, calling, pair, result>>

CallNext ==
  \/ \E q \in Players \X Codes : Begin(q) \/ Claim(q)
  \/ Work \/ Succeed \/ Fail \/ Abort
  \/ \E p \in Players : Leave(p) \/ Join(p)

CallSpec == CallInit /\ [][CallNext]_callVars
=============================================================================
