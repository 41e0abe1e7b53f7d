------------------------------- MODULE WarRoom -------------------------------
(***************************************************************************)
(* The war room: who is deployed to which fighting alliance, the locks,    *)
(* the session, the squads and the archive that writes them into history   *)
(* and empties the board; and the two pages, WarRoom and Squads, through   *)
(* which admins change them.  (A moderator's pages draw none of the        *)
(* controls below, or ignore them.)                                        *)
(***************************************************************************)
EXTENDS Naturals, FiniteSets

CONSTANTS
  Admins, Players,
  Fighting, NoAlliance,
  Sessions,            \* event types
  MaxTeams, MaxCalls   \* bounds: squads ever made, calls that write

ASSUME WarRoomAssumption ==
  /\ NoAlliance \notin Fighting
  /\ "none" \notin Sessions
  /\ MaxTeams \in Nat \ {0} /\ MaxCalls \in Nat

VARIABLES
  housed,           \* players with an alliance_id of their own
  deployed, squad,  \* players.fighting_alliance_id and team_id (0: NULL)
  teams,            \* teams, by id; an id is never used again
  locked, session,  \* alliances.is_locked, war_room_state
  attendance,       \* war_room_attendance; seen: the page's check had looked at him
  promoting,        \* promotions between INSERT and UPDATE
  disbanding,       \* squads between UPDATE and DELETE
  at,               \* at[u]: the page u has open
  roster,           \* roster[u]: AppContext's copy of the players
  board,            \* board[u]: the page's own copies
  map,              \* map[u]: attendanceMap
  modal,            \* modal[u]: the archive modal: {} or {players its check saw}
  selected,         \* selected[u]: selectedPlayer
  dropped,          \* dropped[u]: players whose deployment u awaits the answer of
  confirmed,        \* confirmed[u]: archives u awaits the answer of
  due,              \* due[u]: what u has yet to refetch
  calls             \* auxiliary: calls that wrote

tables == <<housed, deployed, squad, teams, locked, session, attendance, promoting, disbanding>>
local == <<map, modal, selected, dropped, confirmed>>
vars == <<tables, at, roster, board, local, due, calls>>

TeamIds == 1..MaxTeams
Chosen == {"Attended", "Missed"}    \* stand for the five statuses that resolve
Statuses == {"unset", "Pending"} \cup Chosen

Board == [loaded: BOOLEAN, session: Sessions \cup {"none"}, locked: SUBSET Fighting,
          teams: SUBSET TeamIds]
NoBoard == [loaded |-> FALSE, session |-> "none", locked |-> {}, teams |-> {}]
NoMap == [p \in Players |-> "unset"]

TypeOK ==
  /\ housed \subseteq Players
  /\ deployed \in [Players -> Fighting \cup {NoAlliance}]
  /\ squad \in [Players -> {0} \cup TeamIds]
  /\ teams \in [TeamIds -> {"free", "there", "deleted"}]
  /\ locked \subseteq Fighting /\ session \in Sessions \cup {"none"}
  /\ attendance \subseteq [fid: Players, event: Sessions \cup {"none"}, status: Statuses,
                           seen: BOOLEAN]
  /\ promoting \subseteq TeamIds \X Players /\ disbanding \subseteq TeamIds
  /\ at \in [Admins -> {"war-room", "squads"}]
  /\ roster \in [Admins -> [deployed: [Players -> Fighting \cup {NoAlliance}],
                            squad: [Players -> {0} \cup TeamIds]]]
  /\ board \in [Admins -> Board]
  /\ map \in [Admins -> [Players -> Statuses]]
  /\ modal \in [Admins -> {{}} \cup {{s} : s \in SUBSET Players}]
  /\ selected \in [Admins -> SUBSET Players] /\ dropped \in [Admins -> SUBSET Players]
  /\ confirmed \in [Admins -> 0..MaxCalls]
  /\ due \in [Admins -> SUBSET {"roster", "page"}]
  /\ calls \in 0..MaxCalls

-----------------------------------------------------------------------------
\* The server.  An UPDATE that names a squad that is not there breaks the foreign key and
\* changes nothing; the handlers of the squads do not look at errors.

There(t) == t \in {0} \cup {o \in TeamIds : teams[o] = "there"}

BulkAssignFightingAlliance(ps, a) ==
  /\ deployed' = [p \in Players |-> IF p \in ps THEN a ELSE deployed[p]]
  /\ UNCHANGED <<housed, squad, teams, locked, session, attendance, promoting, disbanding>>

ToggleAllianceLock(a, lock) ==
  /\ locked' = IF lock THEN locked \cup {a} ELSE locked \ {a}
  /\ UNCHANGED <<housed, deployed, squad, teams, session, attendance, promoting, disbanding>>

SetWarRoomSession(type) ==
  /\ session' = type
  /\ UNCHANGED <<housed, deployed, squad, teams, locked, attendance, promoting, disbanding>>

\* One transaction: the attendance sent, then the board is emptied.
ArchiveAndResetEvent(type, sent, seen) ==
  /\ attendance' = attendance \cup
       {[fid |-> p, event |-> type, status |-> sent[p], seen |-> p \in seen] : p \in DOMAIN sent}
  /\ locked' = {} /\ session' = "none"
  /\ deployed' = [p \in Players |-> NoAlliance] /\ squad' = [p \in Players |-> 0]
  /\ teams' = [t \in TeamIds |-> IF teams[t] = "there" THEN "deleted" ELSE teams[t]]
  /\ UNCHANGED <<housed, promoting, disbanding>>

\* The squad is made in his home alliance, which may not be NULL; he joins it in a
\* statement of its own.
PromoteCaptain(p) ==
  IF p \notin housed THEN UNCHANGED tables
  ELSE \E t \in TeamIds :
    /\ teams[t] = "free" /\ \A o \in 1..(t - 1) : teams[o] # "free"
    /\ teams' = [teams EXCEPT ![t] = "there"]
    /\ promoting' = promoting \cup {<<t, p>>}
    /\ UNCHANGED <<housed, deployed, squad, locked, session, attendance, disbanding>>

SetTeam(p, t) == squad' = IF There(t) THEN [squad EXCEPT ![p] = t] ELSE squad

\* The first of DemoteCaptain's statements.
DemoteCaptain(t) ==
  /\ squad' = [p \in Players |-> IF squad[p] = t THEN 0 ELSE squad[p]]
  /\ disbanding' = disbanding \cup {t}
  /\ UNCHANGED <<housed, deployed, teams, locked, session, attendance, promoting>>

AssignToSquad(p, t) ==
  /\ SetTeam(p, t)
  /\ UNCHANGED <<housed, deployed, teams, locked, session, attendance, promoting, disbanding>>

-----------------------------------------------------------------------------
\* The pages

\* A call of u; on event the admins with the page named open refetch all of it, those whom
\* it reaches (the broker drops it for a slow client, a broken stream is not opened again).
Call(event) ==
  /\ calls < MaxCalls
  /\ calls' = calls + 1
  /\ \E told \in SUBSET {v \in Admins : at[v] = event} :
       due' = [v \in Admins |-> IF v \in told THEN {"roster", "page"} ELSE due[v]]

\* The roster's copy stays; the page's own state is lost, with the answers on their way.
Navigate(u) ==
  /\ at' = [at EXCEPT ![u] = IF @ = "squads" THEN "war-room" ELSE "squads"]
  /\ board' = [board EXCEPT ![u] = NoBoard]
  /\ due' = [due EXCEPT ![u] = @ \cup {"page"}]
  /\ map' = [map EXCEPT ![u] = NoMap] /\ modal' = [modal EXCEPT ![u] = {}]
  /\ selected' = [selected EXCEPT ![u] = {}] /\ dropped' = [dropped EXCEPT ![u] = {}]
  /\ confirmed' = [confirmed EXCEPT ![u] = 0]
  /\ UNCHANGED <<tables, roster, calls>>

\* refreshGlobalData; a request that fails leaves the copy, and nothing asks again.  A page's
\* fetches are taken to be answered in the order it asks.
RefreshGlobalData(u) ==
  /\ "roster" \in due[u]
  /\ roster' \in {roster, [roster EXCEPT ![u] = [deployed |-> deployed, squad |-> squad]]}
  /\ due' = [due EXCEPT ![u] = @ \ {"roster"}]
  /\ UNCHANGED <<tables, at, board, local, calls>>

\* The same of the page's own copies.  (A page whose first fetch fails shows nothing of its
\* board; it is taken to stay idle until it is opened again.)
FetchPage(u, copy) ==
  /\ "page" \in due[u]
  /\ board' \in {board, [board EXCEPT ![u] = copy]}
  /\ due' = [due EXCEPT ![u] = @ \ {"page"}]
  /\ UNCHANGED <<tables, at, roster, local, calls>>

FetchData(u) ==
  /\ at[u] = "war-room"
  /\ FetchPage(u, [loaded |-> TRUE, session |-> session, locked |-> locked, teams |-> {}])

\* The squads of all the page's tabs.
FetchSquads(u) ==
  /\ at[u] = "squads"
  /\ FetchPage(u, [NoBoard EXCEPT !.loaded = TRUE,
                                  !.teams = {t \in TeamIds : teams[t] = "there"}])

Bench(u) == {p \in Players : roster[u].deployed[p] = NoAlliance}
Members(u, a) == {p \in Players : roster[u].deployed[p] = a}
OnBoard(u) == Players \ Bench(u)

\* What may be pressed: the overlay of a page without a session leaves only itself, the
\* modal only itself and the header.
HeaderControls(u) == IF board[u].session = "none" THEN {} ELSE {"archive"}

ModalControls(u) == IF modal[u] = {} THEN {} ELSE {"confirm", "cancel"}

OverlayControls(u) ==
  IF board[u].session = "none" /\ modal[u] = {} THEN {"start"} ELSE {}

Covered(u) == board[u].session = "none" \/ modal[u] # {}

BenchControls(u, p) == IF Covered(u) \/ p \notin Bench(u) THEN {} ELSE {"select", "drag"}

\* An alliance's card, and a member's line on it.
CardControls(u, a) ==
  IF Covered(u) THEN {}
  ELSE {"lock"} \cup (IF a \in board[u].locked THEN {"bulk"} ELSE {"drop"})

MemberControls(u, a, p) ==
  IF Covered(u) \/ p \notin Members(u, a) THEN {}
  ELSE IF a \in board[u].locked THEN {"attendance"} ELSE {"remove"}

InWarRoom(u) == at[u] = "war-room" /\ board[u].loaded

StartSession(u, type) ==
  /\ InWarRoom(u) /\ "start" \in OverlayControls(u)
  /\ SetWarRoomSession(type)
  /\ Call("war-room")
  /\ board' = [board EXCEPT ![u].session = type]
  /\ UNCHANGED <<at, roster, local>>

ToggleLock(u, a) ==
  /\ InWarRoom(u) /\ "lock" \in CardControls(u, a)
  /\ ToggleAllianceLock(a, a \notin board[u].locked)
  /\ Call("war-room")
  /\ UNCHANGED <<at, roster, board, local>>

\* A bench player dragged onto a card, or the one selected on a phone, who may have been
\* deployed by someone else meanwhile.
Deploy(u, p, a) ==
  /\ InWarRoom(u) /\ "drop" \in CardControls(u, a)
  /\ "drag" \in BenchControls(u, p) \/ p \in selected[u]
  /\ BulkAssignFightingAlliance({p}, a)
  /\ Call("war-room")
  /\ dropped' = [dropped EXCEPT ![u] = @ \cup {p}]
  /\ UNCHANGED <<at, roster, board, map, modal, selected, confirmed>>

\* handleDeploy after its await, if that throws.
DeployFailed(u, p) ==
  /\ p \in dropped[u]
  /\ dropped' = [dropped EXCEPT ![u] = @ \ {p}]
  /\ UNCHANGED <<tables, at, roster, board, map, modal, selected, confirmed, due, calls>>

\* handleDeploy after its await.
DeployAnswered(u, p) ==
  /\ p \in dropped[u]
  /\ dropped' = [dropped EXCEPT ![u] = @ \ {p}]
  /\ map' = [map EXCEPT ![u][p] = "Pending"]
  /\ due' = [due EXCEPT ![u] = {"roster", "page"}]
  /\ selected' = [selected EXCEPT ![u] = {}]
  /\ UNCHANGED <<tables, at, roster, board, modal, confirmed, calls>>

\* Mutation: 0 is sent for no alliance.
RemoveToZero(u, a, p) ==
  /\ InWarRoom(u) /\ "remove" \in MemberControls(u, a, p)
  /\ BulkAssignFightingAlliance({p}, 0)
  /\ Call("war-room")
  /\ selected' = [selected EXCEPT ![u] = {}]
  /\ UNCHANGED <<at, roster, board, map, modal, dropped, confirmed>>

\* handleDeploy to no alliance, with what follows its await.
Remove(u, a, p) ==
  /\ InWarRoom(u) /\ "remove" \in MemberControls(u, a, p)
  /\ BulkAssignFightingAlliance({p}, NoAlliance)
  /\ Call("war-room")
  /\ selected' = [selected EXCEPT ![u] = {}]
  /\ UNCHANGED <<at, roster, board, map, modal, dropped, confirmed>>

\* handleManualAttendance and handleBulkAttendance
MarkAttendance(u, ps, status) ==
  /\ map' = [map EXCEPT ![u] = [p \in Players |-> IF p \in ps THEN status ELSE @[p]]]
  /\ UNCHANGED <<tables, at, roster, board, modal, selected, dropped, confirmed, due, calls>>

ManualAttendance(u, a, p, status) ==
  /\ InWarRoom(u) /\ "attendance" \in MemberControls(u, a, p)
  /\ MarkAttendance(u, {p}, status)

BulkAttendance(u, a, status) ==
  /\ InWarRoom(u) /\ "bulk" \in CardControls(u, a)
  /\ MarkAttendance(u, Members(u, a), status)

\* Mutation: only the players marked Pending count as pending.
OpenArchiveUnlessMarked(u) ==
  /\ InWarRoom(u) /\ "archive" \in HeaderControls(u)
  /\ \A p \in OnBoard(u) : map[u][p] # "Pending"
  /\ modal' = [modal EXCEPT ![u] = {OnBoard(u) \ dropped[u]}]
  /\ UNCHANGED <<tables, at, roster, board, map, selected, dropped, confirmed, due, calls>>

\* validateAndOpenArchive; seen: the players checked, without those whose marks the answer
\* of a deployment of this very page is about to reset.
OpenArchive(u) ==
  /\ InWarRoom(u) /\ "archive" \in HeaderControls(u)
  /\ \A p \in OnBoard(u) : map[u][p] \in Chosen
  /\ modal' = [modal EXCEPT ![u] = {OnBoard(u) \ dropped[u]}]
  /\ UNCHANGED <<tables, at, roster, board, map, selected, dropped, confirmed, due, calls>>

CancelArchive(u) ==
  /\ "cancel" \in ModalControls(u)
  /\ modal' = [modal EXCEPT ![u] = {}]
  /\ UNCHANGED <<tables, at, roster, board, map, selected, dropped, confirmed, due, calls>>

\* confirmArchive: the payload is made of the copies of now, and the button stays until the
\* answer comes.
ConfirmArchive(u) ==
  /\ "confirm" \in ModalControls(u)
  /\ \E seen \in modal[u] :
       ArchiveAndResetEvent(board[u].session, [p \in OnBoard(u) |-> map[u][p]], seen)
  /\ Call("war-room")
  /\ confirmed' = [confirmed EXCEPT ![u] = @ + 1]
  /\ UNCHANGED <<at, roster, board, map, modal, selected, dropped>>

ArchiveAnswered(u) ==
  /\ confirmed[u] > 0
  /\ confirmed' = [confirmed EXCEPT ![u] = @ - 1]
  /\ map' = [map EXCEPT ![u] = NoMap]
  /\ modal' = [modal EXCEPT ![u] = {}]
  /\ due' = [due EXCEPT ![u] = {"roster", "page"}]
  /\ UNCHANGED <<tables, at, roster, board, selected, dropped, calls>>

\* The Squads page: the unassigned of its tab, and a squad's card.
Infantry(u, a) == {p \in Members(u, a) : roster[u].squad[p] = 0}

InfantryControls(u, a, p) ==
  IF p \notin Infantry(u, a) THEN {} ELSE {"promote", "select", "drag"}

\* The captain's line on the card has no button: he is not told from the others here.
SquadControls(u, t) == IF t \in board[u].teams THEN {"disband", "drop", "remove"} ELSE {}

\* squadRosters
SquadMembers(u, t) == {p \in Players : roster[u].squad[p] = t}

InSquads(u) == at[u] = "squads" /\ board[u].loaded

\* handleMobileSelect, of both pages.
Select(u, p) ==
  /\ \/ InWarRoom(u) /\ "select" \in BenchControls(u, p)
     \/ InSquads(u) /\ \E a \in Fighting : "select" \in InfantryControls(u, a, p)
  /\ selected' = [selected EXCEPT ![u] = {p}]
  /\ UNCHANGED <<tables, at, roster, board, map, modal, dropped, confirmed, due, calls>>

\* The bar at the bottom of a phone's war room.
Deselect(u) ==
  /\ InWarRoom(u) /\ selected[u] # {}
  /\ selected' = [selected EXCEPT ![u] = {}]
  /\ UNCHANGED <<tables, at, roster, board, map, modal, dropped, confirmed, due, calls>>

Promote(u, a, p) ==
  /\ InSquads(u) /\ "promote" \in InfantryControls(u, a, p)
  /\ PromoteCaptain(p)
  /\ Call("squads")
  /\ selected' = [selected EXCEPT ![u] = {}]
  /\ UNCHANGED <<at, roster, board, map, modal, dropped, confirmed>>

Demote(u, t) ==
  /\ InSquads(u) /\ "disband" \in SquadControls(u, t)
  /\ DemoteCaptain(t)
  /\ Call("squads")
  /\ UNCHANGED <<at, roster, board, local>>

\* handleAssign: onto a squad's card, or off it.
Assign(u, p, t) ==
  /\ InSquads(u)
  /\ \/ /\ t # 0 /\ "drop" \in SquadControls(u, t)
        /\ p \in selected[u] \/ \E a \in Fighting : "drag" \in InfantryControls(u, a, p)
     \/ /\ t = 0
        /\ \E o \in TeamIds : p \in SquadMembers(u, o) /\ "remove" \in SquadControls(u, o)
  /\ AssignToSquad(p, t)
  /\ Call("squads")
  /\ selected' = [selected EXCEPT ![u] = {}]
  /\ UNCHANGED <<at, roster, board, map, modal, dropped, confirmed>>

-----------------------------------------------------------------------------
\* The second statements, and what the Roster page sends of a player's whole row.

PromoteCaptainJoins ==
  /\ \E t \in TeamIds, p \in Players :
       /\ <<t, p>> \in promoting
       /\ SetTeam(p, t)
       /\ promoting' = promoting \ {<<t, p>>}
  /\ UNCHANGED <<housed, deployed, teams, locked, session, attendance, disbanding, at, roster,
                 board, local, due, calls>>

\* DELETE FROM teams; the key clears the players who are in it by now.
DemoteCaptainDeletes ==
  /\ \E t \in disbanding :
       /\ disbanding' = disbanding \ {t}
       /\ teams' = [teams EXCEPT ![t] = "deleted"]
       /\ squad' = [p \in Players |-> IF squad[p] = t THEN 0 ELSE squad[p]]
  /\ UNCHANGED <<housed, deployed, locked, session, attendance, promoting, at, roster, board,
                 local, due, calls>>

\* UpdatePlayerDetails; these pages are not told.
RosterSave(p, a, t) ==
  /\ There(t)
  /\ deployed' = [deployed EXCEPT ![p] = a] /\ squad' = [squad EXCEPT ![p] = t]
  /\ Call("roster")
  /\ UNCHANGED <<housed, teams, locked, session, attendance, promoting, disbanding, at, roster,
                 board, local>>

-----------------------------------------------------------------------------
Init ==
  /\ housed \in SUBSET Players
  /\ deployed = [p \in Players |-> NoAlliance] /\ squad = [p \in Players |-> 0]
  /\ teams = [t \in TeamIds |-> "free"]
  /\ locked = {} /\ session \in Sessions /\ attendance = {}
  /\ promoting = {} /\ disbanding = {}
  /\ at \in [Admins -> {"war-room", "squads"}]
  /\ roster = [u \in Admins |-> [deployed |-> deployed, squad |-> squad]]
  /\ board = [u \in Admins |-> NoBoard]
  /\ map = [u \in Admins |-> NoMap] /\ modal = [u \in Admins |-> {}]
  /\ selected = [u \in Admins |-> {}] /\ dropped = [u \in Admins |-> {}]
  /\ confirmed = [u \in Admins |-> 0]
  /\ due = [u \in Admins |-> {"page"}]
  /\ calls = 0

WarRoomStep(u) ==
  \/ \E type \in Sessions : StartSession(u, type)
  \/ OpenArchive(u) \/ CancelArchive(u) \/ ConfirmArchive(u) \/ ArchiveAnswered(u)
  \/ Deselect(u)
  \/ \E p \in Players : DeployAnswered(u, p) \/ DeployFailed(u, p) \/ Select(u, p)
  \/ \E a \in Fighting :
       \/ ToggleLock(u, a)
       \/ \E status \in Chosen : BulkAttendance(u, a, status)
       \/ \E p \in Players :
            \/ Deploy(u, p, a) \/ Remove(u, a, p)
            \/ \E status \in Statuses \ {"unset"} : ManualAttendance(u, a, p, status)

SquadsStep(u) ==
  \/ \E a \in Fighting, p \in Players : Promote(u, a, p)
  \/ \E t \in TeamIds : Demote(u, t)
  \/ \E p \in Players, t \in {0} \cup TeamIds : Assign(u, p, t)

Next ==
  \/ \E u \in Admins :
       \/ Navigate(u) \/ RefreshGlobalData(u) \/ FetchData(u) \/ FetchSquads(u)
       \/ WarRoomStep(u) \/ SquadsStep(u)
  \/ PromoteCaptainJoins \/ DemoteCaptainDeletes
  \/ \E p \in Players, a \in Fighting \cup {NoAlliance}, t \in {0} \cup TeamIds :
       RosterSave(p, a, t)

Spec == Init /\ [][Next]_vars

-----------------------------------------------------------------------------
\* "Please resolve all pending attendance records" (WarRoom.jsx) holds of the players the
\* check saw: whatever other admins deploy, remove, archive or assign between the check and
\* the confirmation, none of them goes into the reliability statistics unresolved.
\* (Players deployed behind the check's back do.)
SeenAreResolved == \A row \in attendance : row.seen => row.status \in Chosen
=============================================================================
