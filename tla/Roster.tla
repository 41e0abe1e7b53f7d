------------------------------- MODULE Roster -------------------------------
(***************************************************************************)
(* The roster: the players table, the handlers that write it, the copy of  *)
(* it that every dashboard holds (AppContext) and the Roster page, which   *)
(* edits a player by sending the whole row back as it was when the edit    *)
(* began.  Transfers adds the transfer seasons.                            *)
(***************************************************************************)
EXTENDS Naturals, FiniteSets

CONSTANTS
  Admins, Moderators,  \* dashboards, by the role of who is logged in
  Players,             \* ids (fid) that may be in the table
  Alliances, NoAlliance,
  OwnAlliance,         \* the alliance the moderators belong to
  MaxCalls             \* bound: calls that write

ASSUME RosterAssumption ==
  /\ Admins \cap Moderators = {}
  /\ OwnAlliance \in Alliances /\ NoAlliance \notin Alliances
  /\ MaxCalls \in Nat

VARIABLES
  players,  \* the table: status (absent: no row) and alliance_id; WarRoom has the
            \*   deployment and the squad
  at,       \* at[u]: the page u has open
  roster,   \* roster[u]: AppContext's copy of GET /players
  stale,    \* stale[u]: u has yet to refetch it (refreshGlobalData)
  form,     \* form[u]: editingId and editForm
  calls     \* auxiliary: calls that wrote

rosterVars == <<players, at, roster, stale, form, calls>>

Users == Admins \cup Moderators

Row == [status: {"absent", "Active", "Archived"},
        alliance: Alliances \cup {NoAlliance}]

Absent == [status |-> "absent", alliance |-> NoAlliance]

NoForm == {}

RosterTypeOK ==
  /\ players \in [Players -> Row]
  /\ at \in [Users -> {"roster", "transfers"}]
  /\ roster \in [Users -> [Players -> Row]]
  /\ stale \in [Users -> BOOLEAN]
  /\ form \in [Users -> SUBSET [fid: Players, row: Row]]
  /\ calls \in 0..MaxCalls

-----------------------------------------------------------------------------
\* The server

\* GetPlayerRoster: active players; a moderator gets those of his alliance.
Visible(u) ==
  [p \in Players |->
     IF /\ players[p].status = "Active"
        /\ u \in Moderators => players[p].alliance = OwnAlliance
     THEN players[p] ELSE Absent]

\* UPDATE players ... WHERE player_id: every column of the form, the status not among
\* them; no row, no effect.
UpdatePlayerDetails(p, row) ==
  players' = [players EXCEPT ![p] =
                IF @.status = "absent" THEN @
                ELSE [@ EXCEPT !.alliance = row.alliance]]

\* INSERT ... ON DUPLICATE KEY UPDATE: a row that is there keeps its status.
UpsertAdded(p, a) ==
  players' = [players EXCEPT ![p] =
                IF @.status = "absent"
                THEN [status |-> "Active", alliance |-> a]
                ELSE [@ EXCEPT !.alliance = a]]

Delete(p) == players' = [players EXCEPT ![p] = Absent]

OnRoster == {v \in Admins : at[v] = "roster"}

\* One call that writes; the dashboard that made it refetches after its answer, and
\* REFRESH_ROSTER makes the admins who have the page open refetch (LiveSyncManager serves
\* admins only).  An answer may be lost, and so may an event: the broker drops it for a
\* client whose channel is full, and a stream that broke is not opened again.
RosterCall(u) ==
  /\ calls < MaxCalls
  /\ calls' = calls + 1
  /\ \E told \in SUBSET ({u} \cup OnRoster) : stale' = [v \in Users |-> stale[v] \/ v \in told]

-----------------------------------------------------------------------------
\* The page

\* filteredPlayers, before search and tabs.
Listed(u) ==
  {p \in Players : /\ roster[u][p].status = "Active"
                   /\ u \in Moderators => roster[u][p].alliance = OwnAlliance}

Editing(u, p) == \E f \in form[u] : f.fid = p

\* What a row offers on a wide screen, and a player's card on a phone; live is whether the
\* page's copy of the season is Active.
DesktopControls(u, p, live) ==
  IF Editing(u, p)
  THEN {"save", "cancel"} \cup (IF u \in Admins THEN {"alliance"} ELSE {})
  ELSE {"edit", "delete"} \cup (IF live THEN {"archive"} ELSE {})

MobileControls(u, p, live) ==
  IF Editing(u, p)
  THEN {"save", "cancel"} \cup (IF u \in Admins THEN {"alliance"} ELSE {})
  ELSE {"edit"} \cup (IF u \in Admins THEN {"delete"} ELSE {})
                \cup (IF live THEN {"archive"} ELSE {})

Controls(u, p, live) ==
  IF at[u] = "roster" /\ p \in Listed(u)
  THEN DesktopControls(u, p, live) \cup MobileControls(u, p, live) ELSE {}

\* The rows a form may have become; its other fields tell nothing here.
Edited(row, controls) ==
  {row} \cup (IF "alliance" \in controls
             THEN {[row EXCEPT !.alliance = a] : a \in Alliances \cup {NoAlliance}} ELSE {})

\* setEditForm(p): the row as the page shows it now.
StartEdit(u, p) ==
  /\ "edit" \in Controls(u, p, FALSE)
  /\ form' = [form EXCEPT ![u] = {[fid |-> p, row |-> roster[u][p]]}]
  /\ UNCHANGED <<players, at, roster, stale, calls>>

CancelEdit(u) ==
  /\ form[u] # NoForm
  /\ form' = [form EXCEPT ![u] = NoForm]
  /\ UNCHANGED <<players, at, roster, stale, calls>>

\* handleSaveEdit: the row goes to the table whatever the table holds by now.  The form
\* stays open if the answer is lost.
SaveEdit(u) ==
  /\ RosterCall(u)
  /\ \E f \in form[u] : LET offered == Controls(u, f.fid, FALSE) IN
       /\ "save" \in offered
       /\ \E r \in Edited(f.row, offered) : UpdatePlayerDetails(f.fid, r)
  /\ form' \in {form, [form EXCEPT ![u] = NoForm]}
  /\ UNCHANGED <<at, roster>>

\* handleDelete returns at once for a moderator.
DeletePlayer(u, p) ==
  /\ u \in Admins /\ "delete" \in Controls(u, p, FALSE)
  /\ RosterCall(u)
  /\ Delete(p)
  /\ UNCHANGED <<at, roster, form>>

AddControls(u) == IF u \in Admins /\ at[u] = "roster" THEN {"add"} ELSE {}

AddPlayer(u, p, a) ==
  /\ "add" \in AddControls(u)
  /\ RosterCall(u)
  /\ UpsertAdded(p, a)
  /\ UNCHANGED <<at, roster, form>>

\* fetchGlobalData's answer replaces the copy; a form in progress stays as it was.  If one
\* of its requests fails, the copy stays, and nothing asks again.
RefreshGlobalData(u) ==
  /\ stale[u]
  /\ roster' \in {roster, [roster EXCEPT ![u] = Visible(u)]}
  /\ stale' = [stale EXCEPT ![u] = FALSE]
  /\ UNCHANGED <<players, at, form, calls>>

RosterInit ==
  /\ players \in [Players -> {Absent} \cup
       [status: {"Active"}, alliance: {OwnAlliance, NoAlliance}]]
  /\ at = [u \in Users |-> "roster"]
  /\ roster = [u \in Users |-> Visible(u)]
  /\ stale = [u \in Users |-> FALSE]
  /\ form = [u \in Users |-> NoForm]
  /\ calls = 0

RosterNext ==
  \E u \in Users :
    \/ CancelEdit(u) \/ SaveEdit(u) \/ RefreshGlobalData(u)
    \/ \E p \in Players :
         \/ StartEdit(u, p) \/ DeletePlayer(u, p)
         \/ \E a \in Alliances \cup {NoAlliance} : AddPlayer(u, p, a)
=============================================================================
