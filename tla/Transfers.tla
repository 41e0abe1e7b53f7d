------------------------------ MODULE Transfers ------------------------------
(***************************************************************************)
(* Transfer seasons: the transfer_seasons and transfer_records tables,     *)
(* their handlers, and the TransferManager page, whose every change of a   *)
(* record is a whole row sent back from the page's copy.  Confirming an    *)
(* inbound record puts its player on the roster; transferring a player out *)
(* from the Roster page archives him and files an outbound record.         *)
(***************************************************************************)
EXTENDS Roster

CONSTANTS
  MaxSeasons, MaxRecords,  \* bounds
  Powers,       \* powers a user may enter
  Limits        \* season parameters: [cap, normals, specials]

ASSUME TransfersAssumption ==
  /\ MaxSeasons \in Nat \ {0} /\ MaxRecords \in Nat \ {0}
  /\ Powers \subseteq Nat
  /\ Limits # {} /\ Limits \subseteq [cap: Nat, normals: Nat, specials: Nat]

VARIABLES
  seasons,   \* transfer_seasons, by id; creation order
  records,   \* transfer_records, by id
  season,    \* season[u]: the page's copy of the open season, or NoSeason
  view,      \* view[u]: TransferManager's copy of the records
  due,       \* due[u]: the page has yet to refetch both
  archive,   \* archive[u]: the history view: {}, or the seasons it lists and the one shown
  missed,    \* auxiliary: the admins whose ledger, since they opened it, an event passed
             \*   by or a fetch or an answer failed
  joined,    \* auxiliary: records whose player was put on the roster
  departed   \* auxiliary: <<player, alliance>> of the transfers out

transferVars == <<seasons, records, season, view, due, archive, missed, joined, departed>>
vars == <<rosterVars, transferVars>>

Seasons == 1..MaxSeasons
Ids == 1..MaxRecords
Targets == Alliances \cup {NoAlliance}

NoSeason == [id |-> 0, status |-> "none"]
NoRecord == [status |-> "none"]

Record == [season: Seasons, fid: Players, direction: {"Inbound", "Outbound"},
           status: {"Pending", "Confirmed", "Declined"}, target: Targets,
           invite: {"None", "Normal", "Special"}, power: Powers \cup {0}]

TypeOK ==
  /\ RosterTypeOK
  /\ seasons \in [Seasons -> [status: {"none", "Planning", "Active", "Closed"}, limits: Limits]]
  /\ records \in [Ids -> Record \cup {NoRecord}]
  /\ season \in [Users -> {NoSeason} \cup
       [id: Seasons, status: {"Planning", "Active"}, limits: Limits]]
  /\ view \in [Users -> [Ids -> Record \cup {NoRecord}]]
  /\ due \in [Users -> BOOLEAN]
  /\ archive \in [Users -> SUBSET [listed: SUBSET Seasons, shown: {0} \cup Seasons]]
  /\ missed \subseteq Admins
  /\ joined \subseteq Ids
  /\ departed \subseteq Players \X Targets

-----------------------------------------------------------------------------
\* The server

Open == {s \in Seasons : seasons[s].status \in {"Planning", "Active"}}

\* Mutation: the newest season, open or not.
GetNewestTransferSeason ==
  LET s == CHOOSE s \in Seasons : /\ seasons[s].status # "none"
                                  /\ \A o \in Seasons : seasons[o].status # "none" => o <= s
  IN [id |-> s, status |-> seasons[s].status, limits |-> seasons[s].limits]

\* The newest open season; nothing keeps two admins from opening one each.
GetActiveTransferSeason ==
  IF Open = {} THEN NoSeason
  ELSE LET s == CHOOSE s \in Open : \A o \in Open : o <= s
       IN [id |-> s, status |-> seasons[s].status, limits |-> seasons[s].limits]

GetClosedTransferSeasons == {s \in Seasons : seasons[s].status = "Closed"}

GetTransferRecords(s) ==
  [r \in Ids |-> IF records[r] # NoRecord /\ records[r].season = s THEN records[r] ELSE NoRecord]

Free == {r \in Ids : records[r] = NoRecord /\ \A q \in 1..(r - 1) : records[q] # NoRecord}

\* UPDATE transfer_records ... WHERE id, from the request: the row's season and status as
\* they are now play no part.
UpdateTransferRecord(id, row) ==
  records' = [records EXCEPT ![id] =
    [@ EXCEPT !.power = row.power, !.target = row.target,
              !.invite = row.invite, !.status = row.status]]

AddTransferRecord(r, s, p) ==
  records' = [records EXCEPT ![r] =
    [season |-> s, fid |-> p, direction |-> "Inbound", status |-> "Pending",
     target |-> NoAlliance, invite |-> "None", power |-> 0]]

\* Mutation: accepting does what declining does, and the player's upsert is left out.
ConfirmInboundRecord(id, p, a) ==
  /\ records' = [records EXCEPT ![id] = [@ EXCEPT !.status = "Confirmed"]]
  /\ UNCHANGED <<players, joined>>

\* One transaction: the record's status, whatever it was, and the player's upsert.
ConfirmInboundTransfer(id, p, a) ==
  /\ records' = [records EXCEPT ![id] = [@ EXCEPT !.status = "Confirmed"]]
  /\ players' = [players EXCEPT ![p] = [status |-> "Active", alliance |-> a]]
  /\ joined' = joined \cup {id}

\* Mutation: the alliance is read after the row has been cleared.
ConfirmOutboundCleared(r, p, s) ==
  /\ players[p].status # "absent"
  /\ players' = [players EXCEPT ![p] = [Absent EXCEPT !.status = "Archived"]]
  /\ records' = [records EXCEPT ![r] =
       [season |-> s, fid |-> p, direction |-> "Outbound", status |-> "Confirmed",
        target |-> players'[p].alliance, invite |-> "None", power |-> 0]]
  /\ departed' = departed \cup {<<p, players[p].alliance>>}

\* One transaction: what the player is, then his row, then the record.
ConfirmOutboundTransfer(r, p, s) ==
  /\ players[p].status # "absent"
  /\ players' = [players EXCEPT ![p] = [Absent EXCEPT !.status = "Archived"]]
  /\ records' = [records EXCEPT ![r] =
       [season |-> s, fid |-> p, direction |-> "Outbound", status |-> "Confirmed",
        target |-> players[p].alliance, invite |-> "None", power |-> 0]]
  /\ departed' = departed \cup {<<p, players[p].alliance>>}

\* Who is to refetch the ledger after a call of u: u if its handler does, and on
\* REFRESH_TRANSFERS the admins who have the page open.
Concerned(u, page, notify) ==
  {v \in Users : \/ v = u /\ page
                 \/ v \in Admins /\ at[v] = "transfers" /\ notify}

\* Those whom the answer or the event reaches refetch; u refetches the roster as well if
\* its handler asks for it and has got the answer.
Call(u, page, global, notify) ==
  /\ calls < MaxCalls
  /\ calls' = calls + 1
  /\ \E again \in {stale[u], stale[u] \/ global} : stale' = [stale EXCEPT ![u] = again]
  /\ \E told \in SUBSET Concerned(u, page, notify) :
       /\ due' = [v \in Users |-> due[v] \/ v \in told]
       /\ missed' = missed \cup ((Concerned(u, page, notify) \ told) \cap Admins)

-----------------------------------------------------------------------------
\* The page

Mine(u, r) == view[u][r] # NoRecord

\* A copy that the ledger lets a user change: neither outbound nor settled.  Admins and
\* moderators both have canManageInbound.
Editable(u, r) ==
  /\ Mine(u, r)
  /\ view[u][r].direction = "Inbound"
  /\ view[u][r].status \notin {"Confirmed", "Declined"}

Settling(u, r) ==
  IF season[u].status = "Active" THEN {"accept", "decline"} ELSE {"decline"}

\* A row of the ledger, and a record's card on a phone.
LedgerControls(u, r) ==
  IF ~Editable(u, r) THEN {}
  ELSE {"target", "power", "Special"} \cup Settling(u, r)
         \cup (IF view[u][r].power > season[u].limits.cap THEN {} ELSE {"Normal"})

CardControls(u, r) ==
  IF ~Editable(u, r) THEN {}
  ELSE {"target", "power", "Special"} \cup Settling(u, r)
         \cup (IF view[u][r].power > season[u].limits.cap THEN {} ELSE {"Normal"})

\* The page without a season.
NoSeasonControls(u) == IF u \in Admins THEN {"create"} ELSE {}

\* transferActions
SeasonControls(u) ==
  IF season[u] = NoSeason THEN NoSeasonControls(u)
  ELSE {"add"} \cup (IF u \notin Admins THEN {}
                     ELSE {"Closed"} \cup (IF season[u].status = "Planning"
                                           THEN {"Active", "edit"} ELSE {}))

\* The history view has no control on a record.
HistoryControls(u) == IF archive[u] = {} THEN {} ELSE {"select", "back"}

OnPage(u) == at[u] = "transfers" /\ archive[u] = {}

InviteLimit(u, type) ==
  IF type = "Normal" THEN season[u].limits.normals ELSE season[u].limits.specials

\* normalUsed, specialUsed: counted in the page's copy.
InvitesUsed(u, type) ==
  Cardinality({r \in Ids : Mine(u, r) /\ view[u][r].invite = type
                                      /\ view[u][r].status # "Declined"})

FetchSeason(u, answer) ==
  /\ due[u]
  /\ due' = [due EXCEPT ![u] = FALSE]
  /\ season' = [season EXCEPT ![u] = answer]
  /\ UNCHANGED <<rosterVars, seasons, records, archive, joined, departed>>

\* fetchData and handleSync: one answer brings both copies; a request that fails leaves both,
\* and nothing asks again.  A page's requests are taken to be answered in the order it asks.
FetchData(u) ==
  /\ at[u] = "transfers"
  /\ \/ /\ FetchSeason(u, GetActiveTransferSeason)
        /\ view' = [view EXCEPT ![u] = GetTransferRecords(GetActiveTransferSeason.id)]
        /\ UNCHANGED missed
     \/ /\ FetchSeason(u, season[u])
        /\ missed' = missed \cup ({u} \cap Admins)
        /\ UNCHANGED view

\* The Roster page asks for the season too, to know whether players may leave: it forgets
\* the season if that request fails, and keeps the one it has if the options' does.
FetchInitialData(u) ==
  /\ at[u] = "roster"
  /\ \E answer \in {GetActiveTransferSeason, NoSeason, season[u]} : FetchSeason(u, answer)
  /\ UNCHANGED <<view, missed>>

\* The router mounts the other page, which fetches before it shows any button.
Navigate(u) ==
  /\ at' = [at EXCEPT ![u] = IF @ = "roster" THEN "transfers" ELSE "roster"]
  /\ season' = [season EXCEPT ![u] = NoSeason]
  /\ view' = [view EXCEPT ![u] = [r \in Ids |-> NoRecord]]
  /\ due' = [due EXCEPT ![u] = TRUE]
  /\ archive' = [archive EXCEPT ![u] = {}]
  /\ missed' = missed \ {u}
  /\ form' = [form EXCEPT ![u] = NoForm]
  /\ UNCHANGED <<players, roster, stale, calls, seasons, records, joined, departed>>

CreateSeason(u, limits) ==
  /\ OnPage(u) /\ "create" \in SeasonControls(u)
  /\ \E s \in Seasons :
       /\ seasons[s].status = "none" /\ \A o \in 1..(s - 1) : seasons[o].status # "none"
       /\ seasons' = [seasons EXCEPT ![s] = [status |-> "Planning", limits |-> limits]]
  /\ Call(u, TRUE, FALSE, FALSE)
  /\ UNCHANGED <<players, at, roster, form, records, season, view, archive, joined, departed>>

\* handleUpdateSeasonStatus: the status is set whatever it is by now; answered that the
\* season is closed, the page empties itself and does not refetch.
UpdateSeasonStatus(u, status) ==
  /\ OnPage(u) /\ status \in SeasonControls(u)
  /\ seasons' = [seasons EXCEPT ![season[u].id] = [@ EXCEPT !.status = status]]
  /\ Call(u, status = "Active", FALSE, TRUE)
  /\ \/ /\ status = "Closed"
        /\ season' = [season EXCEPT ![u] = NoSeason]
        /\ view' = [view EXCEPT ![u] = [r \in Ids |-> NoRecord]]
     \/ UNCHANGED <<season, view>>
  /\ UNCHANGED <<players, at, roster, form, records, archive, joined, departed>>

\* handleEditSeasonSubmit; other pages are not told.
EditTransferSeason(u, limits) ==
  /\ OnPage(u) /\ "edit" \in SeasonControls(u)
  /\ seasons' = [seasons EXCEPT ![season[u].id] = [@ EXCEPT !.limits = limits]]
  /\ Call(u, TRUE, FALSE, FALSE)
  /\ UNCHANGED <<players, at, roster, form, records, season, view, archive, joined, departed>>

AddCandidate(u, p) ==
  /\ OnPage(u) /\ "add" \in SeasonControls(u)
  /\ \E r \in Free : AddTransferRecord(r, season[u].id, p)
  /\ Call(u, TRUE, FALSE, TRUE)
  /\ UNCHANGED <<players, at, roster, form, seasons, season, view, archive, joined, departed>>

RecordControls(u, r) == LedgerControls(u, r) \cup CardControls(u, r)

\* Mutation: the other pages are not told.
UpdateRecordQuietly(u, r, row) ==
  /\ UpdateTransferRecord(r, row)
  /\ Call(u, TRUE, FALSE, FALSE)
  /\ UNCHANGED <<players, at, roster, form, seasons, season, view, archive, joined, departed>>

\* handleUpdateRecord: the copy with one field changed.
UpdateRecord(u, r, row) ==
  /\ UpdateTransferRecord(r, row)
  /\ Call(u, TRUE, FALSE, TRUE)
  /\ UNCHANGED <<players, at, roster, form, seasons, season, view, archive, joined, departed>>

SetTarget(u, r, a) ==
  /\ OnPage(u) /\ "target" \in RecordControls(u, r)
  /\ UpdateRecord(u, r, [view[u][r] EXCEPT !.target = a])

SetPower(u, r, n) ==
  /\ OnPage(u) /\ "power" \in RecordControls(u, r)
  /\ n # view[u][r].power
  /\ UpdateRecord(u, r, [view[u][r] EXCEPT !.power = n])

\* handleToggleInvite: choosing the type the copy has takes the invite back.
ToggleInvite(u, r, type) ==
  /\ OnPage(u) /\ type \in RecordControls(u, r)
  /\ \/ /\ view[u][r].invite = type
        /\ UpdateRecord(u, r, [view[u][r] EXCEPT !.invite = "None"])
     \/ /\ view[u][r].invite # type
        /\ InvitesUsed(u, type) < InviteLimit(u, type)
        /\ UpdateRecord(u, r, [view[u][r] EXCEPT !.invite = type])

Decline(u, r) ==
  /\ OnPage(u) /\ "decline" \in RecordControls(u, r)
  /\ UpdateRecord(u, r, [view[u][r] EXCEPT !.status = "Declined"])

\* handleConfirmInbound: player and alliance are the copy's.
ConfirmInbound(u, r) ==
  /\ OnPage(u) /\ "accept" \in RecordControls(u, r)
  /\ view[u][r].target # NoAlliance
  /\ ConfirmInboundTransfer(r, view[u][r].fid, view[u][r].target)
  /\ Call(u, TRUE, TRUE, TRUE)
  /\ UNCHANGED <<at, roster, form, seasons, season, view, archive, departed>>

\* handleTransferOut, from the Roster page.  The handler refuses every moderator: it
\* compares the player's alliance with an integer its context does not hold.
TransferOut(u, p) ==
  /\ u \in Admins
  /\ "archive" \in Controls(u, p, season[u].status = "Active")
  /\ \E r \in Free : ConfirmOutboundTransfer(r, p, season[u].id)
  /\ Call(u, FALSE, TRUE, FALSE)
  /\ UNCHANGED <<at, roster, form, seasons, season, view, archive, joined>>

HistoryStep(u, h) ==
  /\ archive' = [archive EXCEPT ![u] = h]
  /\ UNCHANGED <<rosterVars, seasons, records, season, view, due, missed, joined, departed>>

\* handleViewHistory shows the first of the list, which is in no order: closed_at is never
\* set.
ViewHistory(u) ==
  /\ OnPage(u)
  /\ \E s \in IF GetClosedTransferSeasons = {} THEN {0} ELSE GetClosedTransferSeasons :
       HistoryStep(u, {[listed |-> GetClosedTransferSeasons, shown |-> s]})

SelectPastSeason(u, s) ==
  /\ "select" \in HistoryControls(u)
  /\ \E h \in archive[u] : s \in h.listed /\ HistoryStep(u, {[h EXCEPT !.shown = s]})

LeaveHistory(u) == "back" \in HistoryControls(u) /\ HistoryStep(u, {})

\* The roster's own steps; REFRESH_ROSTER has the admins' pages it reaches refetch the
\* season too.
RosterStep ==
  /\ RosterNext
  /\ \E told \in SUBSET {u \in OnRoster : calls' # calls} :
       due' = [u \in Users |-> due[u] \/ u \in told]
  /\ UNCHANGED <<seasons, records, season, view, archive, missed, joined, departed>>

-----------------------------------------------------------------------------
\* One season with a candidate in it.
Init ==
  /\ RosterInit
  /\ \E limits \in Limits, status \in {"Planning", "Active"}, p \in Players, a \in Targets :
       /\ seasons = [s \in Seasons |->
            [status |-> IF s = 1 THEN status ELSE "none", limits |-> limits]]
       /\ records = [r \in Ids |->
            IF r = 1 THEN [season |-> 1, fid |-> p, direction |-> "Inbound",
                           status |-> "Pending", target |-> a,
                           invite |-> "None", power |-> 0]
            ELSE NoRecord]
  /\ season = [u \in Users |-> NoSeason]
  /\ view = [u \in Users |-> [r \in Ids |-> NoRecord]]
  /\ due = [u \in Users |-> TRUE]
  /\ archive = [u \in Users |-> {}]
  /\ missed = {} /\ joined = {} /\ departed = {}

RecordStep(u, r) ==
  \/ \E a \in Targets : SetTarget(u, r, a)
  \/ \E n \in Powers : SetPower(u, r, n)
  \/ \E type \in {"Normal", "Special"} : ToggleInvite(u, r, type)
  \/ Decline(u, r) \/ ConfirmInbound(u, r)

SeasonStep(u) ==
  \/ \E limits \in Limits : CreateSeason(u, limits) \/ EditTransferSeason(u, limits)
  \/ \E status \in {"Active", "Closed"} : UpdateSeasonStatus(u, status)
  \/ \E p \in Players : AddCandidate(u, p) \/ TransferOut(u, p)

Next ==
  \/ RosterStep
  \/ \E u \in Users :
       \/ Navigate(u) \/ FetchData(u) \/ FetchInitialData(u) \/ SeasonStep(u)
       \/ ViewHistory(u) \/ LeaveHistory(u) \/ \E s \in Seasons : SelectPastSeason(u, s)
       \/ \E r \in Ids : RecordStep(u, r)

Spec == Init /\ [][Next]_vars

-----------------------------------------------------------------------------
\* An inbound record is Confirmed only if its player was put on the roster with it: no
\* row sent back from a stale page makes a record Confirmed (the ledger shows no control
\* for a copy that is settled, and the only other way is the transaction).
ConfirmedJoined ==
  \A r \in Ids : records[r] # NoRecord /\ records[r].direction = "Inbound"
                 /\ records[r].status = "Confirmed" => r \in joined

\* A player who was transferred out of an alliance stays on record as a departure from
\* it, through every later edit of the ledger and a second archiving (the alliance is read
\* before the row is cleared).
DeparturesOnRecord ==
  \A d \in departed : \E r \in Ids :
    /\ records[r] # NoRecord /\ records[r].direction = "Outbound"
    /\ records[r].status = "Confirmed" /\ records[r].fid = d[1] /\ records[r].target = d[2]

\* An admin whose ledger got every event and every answer since it was opened, and who has
\* no refetch outstanding, sees every candidate of the open season as he is: the handlers'
\* events are enough, since each one that writes an inbound record or moves the open season
\* notifies, or leaves no candidate to miss.  (Departures and season parameters are not
\* notified; a page that missed an event, or whose fetch failed, may stay behind until it
\* is opened again.)
AdminsLedgerCurrent ==
  \A u \in Admins, r \in Ids :
    LET now == GetTransferRecords(GetActiveTransferSeason.id)[r] IN
    at[u] = "transfers" /\ ~due[u] /\ u \notin missed /\ now # NoRecord
      => now.direction = "Outbound" \/ view[u][r] = now

\* TransferManager.jsx, on closing: "This action is permanent and freezes all records."
\* A page that still shows the season reopens it or changes its records.
ClosedIsFinal ==
  [][\A s \in Seasons : seasons[s].status = "Closed" =>
       /\ seasons'[s].status = "Closed"
       /\ \A r \in Ids : records[r] # NoRecord /\ records[r].season = s
                         => records'[r] = records[r]]_vars
=============================================================================
