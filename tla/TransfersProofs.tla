--------------------------- MODULE TransfersProofs ---------------------------
(***************************************************************************)
(* Proofs about the transfer ledger, for any numbers of pages, players,    *)
(* seasons and records, although each page writes whole rows back from its *)
(* own copy: a record is confirmed only together with the roster, types    *)
(* are kept, departures stay on record, and what an admin has open is the  *)
(* table or about to be refetched.                                         *)
(***************************************************************************)
EXTENDS Transfers, FiniteSetTheorems, TLAPS

\* A row as far as the argument looks at it.
IsRow(row) == "status" \in DOMAIN row /\ row = [f \in DOMAIN row |-> row[f]]

Shape ==
  /\ records = [r \in Ids |-> records[r]]
  /\ \A r \in Ids : IsRow(records[r])
  /\ \A u \in Users, r \in Ids : IsRow(view[u][r])
  /\ view = [u \in Users |-> view[u]]

LedgerInv == Shape /\ ConfirmedJoined

LEMMA LedgerStutters ==
  LedgerInv /\ UNCHANGED <<records, view, joined>> => LedgerInv'
BY DEF LedgerInv, Shape, ConfirmedJoined

\* What a page fetches is made of the table's rows.
LEMMA FetchedAreRows ==
  ASSUME Shape, NEW s
  PROVE \A r \in Ids : IsRow(GetTransferRecords(s)[r])
<1>1. IsRow(NoRecord) BY DEF IsRow, NoRecord
<1> QED BY <1>1 DEF Shape, GetTransferRecords

\* The page's copies change, the table does not.
LEMMA ViewKeepsInv ==
  ASSUME LedgerInv, NEW u \in Users, NEW rows, \A r \in Ids : IsRow(rows[r]),
         view' = [view EXCEPT ![u] = rows], UNCHANGED <<records, joined>>
  PROVE LedgerInv'
BY DEF LedgerInv, Shape, ConfirmedJoined

\* A row of the table is replaced by one that is not confirmed, or not a candidate.
LEMMA WriteKeepsInv ==
  ASSUME LedgerInv, NEW r \in Ids, NEW row, IsRow(row),
         row.status # "Confirmed" \/ row.direction = "Outbound" \/ r \in joined',
         records' = [records EXCEPT ![r] = row], view' = view, joined \subseteq joined'
  PROVE LedgerInv'
BY DEF LedgerInv, Shape, ConfirmedJoined

\* What a page sends back is not confirmed, whatever the table holds by now.
LEMMA UpdateKeepsInv ==
  ASSUME LedgerInv, NEW u \in Users, NEW r \in Ids, NEW row, UpdateRecord(u, r, row),
         row.status # "Confirmed"
  PROVE LedgerInv'
<1> DEFINE new == [records[r] EXCEPT !.power = row.power, !.target = row.target,
                                     !.invite = row.invite, !.status = row.status]
<1>1. records' = [records EXCEPT ![r] = new] /\ UNCHANGED <<view, joined>>
  BY DEF UpdateRecord, UpdateTransferRecord
<1>2. IsRow(records[r]) BY DEF LedgerInv, Shape
<1>3. IsRow(new) /\ new.status = row.status
  BY <1>2 DEF IsRow
<1> HIDE DEF new
<1> QED BY <1>1, <1>3, WriteKeepsInv

LEMMA RecordStepKeepsInv ==
  ASSUME LedgerInv, NEW u \in Users, NEW r \in Ids, RecordStep(u, r)
  PROVE LedgerInv'
<1> DEFINE c == view[u][r]
<1>1. RecordControls(u, r) # {} => c.status \notin {"Confirmed", "Declined"}
  BY DEF RecordControls, LedgerControls, CardControls, Editable
<1>2. IsRow(c) BY DEF LedgerInv, Shape
<1> HIDE DEF c
<1>3. ASSUME NEW a, SetTarget(u, r, a) PROVE LedgerInv'
  <2>1. UpdateRecord(u, r, [c EXCEPT !.target = a]) /\ RecordControls(u, r) # {}
    BY <1>3 DEF SetTarget, c
  <2>2. [c EXCEPT !.target = a].status = c.status
    BY <1>2 DEF IsRow
  <2> QED BY <1>1, <2>1, <2>2, UpdateKeepsInv
<1>4. ASSUME NEW n, SetPower(u, r, n) PROVE LedgerInv'
  <2>1. UpdateRecord(u, r, [c EXCEPT !.power = n]) /\ RecordControls(u, r) # {}
    BY <1>4 DEF SetPower, c
  <2>2. [c EXCEPT !.power = n].status = c.status
    BY <1>2 DEF IsRow
  <2> QED BY <1>1, <2>1, <2>2, UpdateKeepsInv
<1>5. ASSUME NEW type, ToggleInvite(u, r, type) PROVE LedgerInv'
  <2>1. PICK i \in {"None", type} : UpdateRecord(u, r, [c EXCEPT !.invite = i])
    BY <1>5 DEF ToggleInvite, c
  <2>2. RecordControls(u, r) # {} BY <1>5 DEF ToggleInvite
  <2>3. [c EXCEPT !.invite = i].status = c.status
    BY <1>2 DEF IsRow
  <2> QED BY <1>1, <2>1, <2>2, <2>3, UpdateKeepsInv
<1>6. CASE Decline(u, r)
  <2>1. UpdateRecord(u, r, [c EXCEPT !.status = "Declined"])
    BY <1>6 DEF Decline, c
  <2>2. [c EXCEPT !.status = "Declined"].status = "Declined"
    BY <1>2 DEF IsRow
  <2> QED BY <2>1, <2>2, UpdateKeepsInv
<1>7. CASE ConfirmInbound(u, r)
  <2> DEFINE new == [records[r] EXCEPT !.status = "Confirmed"]
  <2>1. /\ records' = [records EXCEPT ![r] = new]
        /\ joined' = joined \cup {r} /\ view' = view
    BY <1>7 DEF ConfirmInbound, ConfirmInboundTransfer
  <2>2. IsRow(records[r]) BY DEF LedgerInv, Shape
  <2>3. IsRow(new) BY <2>2 DEF IsRow
  <2> HIDE DEF new
  <2> QED BY <2>1, <2>3, WriteKeepsInv
<1> QED BY <1>3, <1>4, <1>5, <1>6, <1>7 DEF RecordStep

LEMMA SeasonStepKeepsInv ==
  ASSUME LedgerInv, NEW u \in Users, SeasonStep(u)
  PROVE LedgerInv'
<1>1. ASSUME NEW limits, CreateSeason(u, limits) \/ EditTransferSeason(u, limits)
      PROVE LedgerInv'
  BY <1>1, LedgerStutters DEF CreateSeason, EditTransferSeason
<1>2. ASSUME NEW status, UpdateSeasonStatus(u, status) PROVE LedgerInv'
  <2>1. UNCHANGED <<records, joined>>
    BY <1>2 DEF UpdateSeasonStatus
  <2>2. CASE view' = view
    BY <2>1, <2>2, LedgerStutters
  <2>3. CASE view' = [view EXCEPT ![u] = [r \in Ids |-> NoRecord]]
    <3>1. \A r \in Ids : IsRow([q \in Ids |-> NoRecord][r])
      BY DEF IsRow, NoRecord
    <3> QED BY <2>1, <2>3, <3>1, ViewKeepsInv
  <2> QED BY <1>2, <2>2, <2>3 DEF UpdateSeasonStatus
<1>3. ASSUME NEW p \in Players, AddCandidate(u, p) PROVE LedgerInv'
  <2>1. PICK r \in Free : AddTransferRecord(r, season[u].id, p)
    BY <1>3 DEF AddCandidate
  <2> DEFINE new == [season |-> season[u].id, fid |-> p, direction |-> "Inbound",
                     status |-> "Pending", target |-> NoAlliance, invite |-> "None",
                     power |-> 0]
  <2>2. /\ records' = [records EXCEPT ![r] = new] /\ UNCHANGED <<view, joined>> /\ r \in Ids
    BY <1>3, <2>1 DEF AddCandidate, AddTransferRecord, Free
  <2>3. IsRow(new) /\ new.status = "Pending" BY DEF IsRow
  <2> HIDE DEF new
  <2> QED BY <2>2, <2>3, WriteKeepsInv
<1>4. ASSUME NEW p \in Players, TransferOut(u, p) PROVE LedgerInv'
  <2>1. PICK r \in Free : ConfirmOutboundTransfer(r, p, season[u].id)
    BY <1>4 DEF TransferOut
  <2> DEFINE new == [season |-> season[u].id, fid |-> p, direction |-> "Outbound",
                     status |-> "Confirmed", target |-> players[p].alliance,
                     invite |-> "None", power |-> 0]
  <2>2. /\ records' = [records EXCEPT ![r] = new] /\ UNCHANGED <<view, joined>> /\ r \in Ids
    BY <1>4, <2>1 DEF TransferOut, ConfirmOutboundTransfer, Free
  <2>3. IsRow(new) /\ new.direction = "Outbound" BY DEF IsRow
  <2> HIDE DEF new
  <2> QED BY <2>2, <2>3, WriteKeepsInv
<1> QED BY <1>1, <1>2, <1>3, <1>4 DEF SeasonStep

LEMMA LedgerNext == LedgerInv /\ [Next]_vars => LedgerInv'
<1> SUFFICES ASSUME LedgerInv, [Next]_vars PROVE LedgerInv'
  OBVIOUS
<1>1. CASE RosterStep
  BY <1>1, LedgerStutters DEF RosterStep
<1>2. ASSUME NEW u \in Users, Navigate(u) PROVE LedgerInv'
  <2>1. /\ view' = [view EXCEPT ![u] = [r \in Ids |-> NoRecord]]
        /\ UNCHANGED <<records, joined>>
    BY <1>2 DEF Navigate
  <2>2. \A r \in Ids : IsRow([q \in Ids |-> NoRecord][r])
    BY DEF IsRow, NoRecord
  <2> QED BY <2>1, <2>2, ViewKeepsInv
<1>3. ASSUME NEW u \in Users, FetchData(u) PROVE LedgerInv'
  <2>1. /\ \/ view' = [view EXCEPT ![u] = GetTransferRecords(GetActiveTransferSeason.id)]
           \/ view' = view
        /\ UNCHANGED <<records, joined>>
    BY <1>3 DEF FetchData, FetchSeason
  <2>2. \A r \in Ids : IsRow(GetTransferRecords(GetActiveTransferSeason.id)[r])
    BY FetchedAreRows DEF LedgerInv
  <2>3. CASE view' = view BY <2>1, <2>3, LedgerStutters
  <2> QED BY <2>1, <2>2, <2>3, ViewKeepsInv
<1>4. ASSUME NEW u \in Users, FetchInitialData(u) PROVE LedgerInv'
  BY <1>4, LedgerStutters DEF FetchInitialData, FetchSeason
<1>5. ASSUME NEW u \in Users, ViewHistory(u) \/ LeaveHistory(u)
                               \/ \E s \in Seasons : SelectPastSeason(u, s)
      PROVE LedgerInv'
  BY <1>5, LedgerStutters DEF ViewHistory, LeaveHistory, SelectPastSeason, HistoryStep
<1>6. CASE UNCHANGED vars
  BY <1>6, LedgerStutters DEF vars, transferVars
<1> QED
  BY <1>1, <1>2, <1>3, <1>4, <1>5, <1>6, SeasonStepKeepsInv, RecordStepKeepsInv DEF Next

LEMMA LedgerInit == Init => LedgerInv
<1> SUFFICES ASSUME Init PROVE LedgerInv
  OBVIOUS
<1>1. PICK p \in Players, a \in Targets :
        records = [r \in Ids |->
          IF r = 1 THEN [season |-> 1, fid |-> p, direction |-> "Inbound",
                         status |-> "Pending", target |-> a,
                         invite |-> "None", power |-> 0]
          ELSE NoRecord]
  BY DEF Init
<1>2. \A r \in Ids : IsRow(records[r]) /\ records[r].status # "Confirmed"
  BY <1>1 DEF IsRow, NoRecord
<1>3. view = [u \in Users |-> [r \in Ids |-> NoRecord]]
  BY DEF Init
<1>4. \A u \in Users, r \in Ids : IsRow(view[u][r])
  BY <1>3 DEF IsRow, NoRecord
<1> QED BY <1>1, <1>2, <1>3, <1>4 DEF LedgerInv, Shape, ConfirmedJoined

\* An inbound record is Confirmed only by the transaction that puts its player on the
\* roster (ConfirmInboundTransfer): no page, however old its copy, sends a row back as
\* Confirmed, and what it sends as declined or pending does not confirm anything.
THEOREM ConfirmedJoinedHolds == Spec => []ConfirmedJoined
<1>1. LedgerInv => ConfirmedJoined BY DEF LedgerInv
<1> QED BY LedgerInit, LedgerNext, <1>1, PTL DEF Spec

-----------------------------------------------------------------------------
\* A page shows only records that are in the table, and none turns from a candidate into
\* a departure or back.
CopiesLead ==
  \A u \in Users, r \in Ids :
    view[u][r] # NoRecord => /\ records[r] # NoRecord
                             /\ records[r].direction = view[u][r].direction

\* Seasons are created one after the other and none is ever removed: what a page or a
\* record names is there.
SeasonsExist ==
  /\ \A s \in Seasons, o \in Seasons :
       o < s /\ seasons[s].status # "none" => seasons[o].status # "none"
  /\ \A u \in Users : season[u] # NoSeason => seasons[season[u].id].status # "none"
  /\ \A r \in Ids : records[r] # NoRecord => seasons[records[r].season].status # "none"

TypeInv == TypeOK /\ CopiesLead /\ SeasonsExist

\* A set of seasons has a newest.
LEMMA Newest ==
  ASSUME NEW S, S \subseteq Seasons, S # {}
  PROVE \E s \in S : \A o \in S : o <= s
<1> DEFINE Above(k) == {o \in S : o > k}
           Aboves == {Above(k) : k \in S}
<1>1. IsFiniteSet(S)
  <2>1. IsFiniteSet(1..MaxSeasons)
    BY TransfersAssumption, FS_Interval, 1 \in Int, MaxSeasons \in Int
  <2> QED BY <2>1, FS_Subset DEF Seasons
<1>2. \A T \in SUBSET S : T \in FiniteSubsetsOf(S)
  BY <1>1, FS_FiniteSubsetsOfFinite
<1>3. PICK T \in Aboves : \A O \in Aboves : <<O, T>> \notin StrictSubsetOrdering(S)
  <2>1. Aboves \subseteq FiniteSubsetsOf(S) /\ Aboves # {} BY <1>2
  <2> HIDE DEF Aboves
  <2> QED BY <2>1, FS_StrictSubsetOrderingWellFounded, WFMin
<1>4. PICK s \in S : T = Above(s) OBVIOUS
<1>5. \A k \in S : k \in Nat BY DEF Seasons
<1>6. ASSUME NEW o \in S, o > s PROVE FALSE
  <2>1. ASSUME NEW k \in Above(o) PROVE k \in Above(s)
    <3>1. k \in S /\ k \in Nat /\ k > o BY <1>5
    <3> HIDE DEF Aboves
    <3> QED BY <3>1, <1>5, <1>6
  <2>2. o \in Above(s) /\ o \notin Above(o) BY <1>5, <1>6
  <2>3. Above(o) \in Aboves /\ Above(o) \subseteq S /\ Above(s) \subseteq S OBVIOUS
  <2> HIDE DEF Above, Aboves
  <2>4. <<Above(o), Above(s)>> \in StrictSubsetOrdering(S)
    BY <2>1, <2>2, <2>3 DEF StrictSubsetOrdering
  <2> QED BY <2>3, <2>4, <1>3, <1>4
<1> QED BY <1>5, <1>6

\* What the server answers a page that asks for the open season.
LEMMA ActiveSeason ==
  ASSUME Open # {}
  PROVE \E s \in Open :
          /\ \A o \in Open : o <= s
          /\ GetActiveTransferSeason =
               [id |-> s, status |-> seasons[s].status, limits |-> seasons[s].limits]
<1>1. \E s \in Open : \A o \in Open : o <= s
  <2>1. Open \subseteq Seasons BY DEF Open
  <2> QED BY <2>1, Newest
<1> QED BY <1>1 DEF GetActiveTransferSeason

LEMMA ActiveSeasonTyped ==
  ASSUME TypeOK
  PROVE /\ GetActiveTransferSeason \in
             {NoSeason} \cup [id: Seasons, status: {"Planning", "Active"}, limits: Limits]
        /\ GetActiveTransferSeason # NoSeason =>
             seasons[GetActiveTransferSeason.id].status # "none"
<1>1. CASE Open = {}
  BY <1>1 DEF GetActiveTransferSeason
<1>2. CASE Open # {}
  <2>1. PICK s \in Open : GetActiveTransferSeason =
               [id |-> s, status |-> seasons[s].status, limits |-> seasons[s].limits]
    BY <1>2, ActiveSeason
  <2>2. s \in Seasons /\ seasons[s].status \in {"Planning", "Active"}
        /\ seasons[s].limits \in Limits
    BY DEF Open, TypeOK
  <2> QED BY <2>1, <2>2
<1> QED BY <1>1, <1>2

LEMMA NoRecordIsNone == NoRecord \notin Record
BY DEF NoRecord, Record

-----------------------------------------------------------------------------
\* The roster's part of the types.

LEMMA RosterCallTypes ==
  ASSUME RosterTypeOK, NEW u \in Users, RosterCall(u)
  PROVE calls' \in 0..MaxCalls /\ stale' \in [Users -> BOOLEAN]
<1>1. calls' \in 0..MaxCalls
  BY RosterAssumption DEF RosterTypeOK, RosterCall
<1>2. stale' \in [Users -> BOOLEAN]
  BY DEF RosterTypeOK, RosterCall
<1> QED BY <1>1, <1>2

\* A player's row replaced by another.
LEMMA PlayerWritten ==
  ASSUME RosterTypeOK, NEW p \in Players, NEW row \in Row,
         players' = [players EXCEPT ![p] = row]
  PROVE players' \in [Players -> Row]
BY DEF RosterTypeOK

\* Whatever the alliance, and whether or not the player is there.
LEMMA AllianceWritten ==
  ASSUME NEW old \in Row, NEW a \in Alliances \cup {NoAlliance}
  PROVE /\ Absent \in Row
        /\ [old EXCEPT !.alliance = a] \in Row
        /\ [status |-> "Active", alliance |-> a] \in Row
        /\ [Absent EXCEPT !.status = "Archived"] \in Row
BY DEF Row, Absent

LEMMA SaveEditTypes ==
  ASSUME RosterTypeOK, NEW u \in Users, SaveEdit(u)
  PROVE players' \in [Players -> Row]
<1>1. PICK f \in form[u] :
        \E r \in Edited(f.row, Controls(u, f.fid, FALSE)) : UpdatePlayerDetails(f.fid, r)
  BY DEF SaveEdit
<1>2. f.fid \in Players /\ f.row \in Row
  BY DEF RosterTypeOK
<1>3. PICK r \in Edited(f.row, Controls(u, f.fid, FALSE)) : UpdatePlayerDetails(f.fid, r)
  BY <1>1
<1>4. r.alliance \in Alliances \cup {NoAlliance}
  BY <1>2, <1>3 DEF Edited, Row
<1> DEFINE old == players[f.fid]
           new == IF old.status = "absent" THEN old ELSE [old EXCEPT !.alliance = r.alliance]
<1>5. old \in Row BY <1>2 DEF RosterTypeOK
<1> HIDE DEF old
<1>6. new \in Row BY <1>4, <1>5, AllianceWritten
<1>7. players' = [players EXCEPT ![f.fid] = new]
  BY <1>3 DEF UpdatePlayerDetails, old
<1> HIDE DEF new
<1> QED BY <1>2, <1>6, <1>7, PlayerWritten

LEMMA AddPlayerTypes ==
  ASSUME RosterTypeOK, NEW p \in Players, NEW a \in Alliances \cup {NoAlliance}, UpsertAdded(p, a)
  PROVE players' \in [Players -> Row]
<1> DEFINE old == players[p]
           new == IF old.status = "absent" THEN [status |-> "Active", alliance |-> a]
                  ELSE [old EXCEPT !.alliance = a]
<1>1. old \in Row BY DEF RosterTypeOK
<1>2. players' = [players EXCEPT ![p] = new] BY DEF UpsertAdded
<1> HIDE DEF old
<1>3. new \in Row BY <1>1, AllianceWritten
<1> HIDE DEF new
<1> QED BY <1>2, <1>3, PlayerWritten

LEMMA RosterStepTypes ==
  ASSUME RosterTypeOK, RosterNext
  PROVE RosterTypeOK' /\ at' = at
<1>1. ASSUME NEW u \in Users, CancelEdit(u) PROVE RosterTypeOK' /\ at' = at
  BY <1>1 DEF RosterTypeOK, CancelEdit, NoForm
<1>2. ASSUME NEW u \in Users, SaveEdit(u) PROVE RosterTypeOK' /\ at' = at
  <2>1. calls' \in 0..MaxCalls /\ stale' \in [Users -> BOOLEAN]
    BY <1>2, RosterCallTypes DEF SaveEdit
  <2>2. players' \in [Players -> Row] BY <1>2, SaveEditTypes
  <2>3. form' \in {form, [form EXCEPT ![u] = NoForm]} /\ UNCHANGED <<at, roster>>
    BY <1>2 DEF SaveEdit
  <2> QED BY <2>1, <2>2, <2>3 DEF RosterTypeOK, NoForm
<1>3. ASSUME NEW u \in Users, RefreshGlobalData(u) PROVE RosterTypeOK' /\ at' = at
  <2>1. Visible(u) \in [Players -> Row]
    BY DEF Visible, RosterTypeOK, Row, Absent
  <2> QED BY <1>3, <2>1 DEF RosterTypeOK, RefreshGlobalData
<1>4. ASSUME NEW u \in Users, NEW p \in Players, StartEdit(u, p)
      PROVE RosterTypeOK' /\ at' = at
  BY <1>4 DEF RosterTypeOK, StartEdit
<1>5. ASSUME NEW u \in Users, NEW p \in Players, DeletePlayer(u, p)
      PROVE RosterTypeOK' /\ at' = at
  <2>1. calls' \in 0..MaxCalls /\ stale' \in [Users -> BOOLEAN]
    BY <1>5, RosterCallTypes DEF DeletePlayer
  <2>2. Absent \in Row BY DEF Absent, Row
  <2>3. players' \in [Players -> Row]
    BY <1>5, <2>2, PlayerWritten DEF DeletePlayer, Delete
  <2> QED BY <1>5, <2>1, <2>3 DEF RosterTypeOK, DeletePlayer
<1>6. ASSUME NEW u \in Users, NEW p \in Players, NEW a \in Alliances \cup {NoAlliance},
             AddPlayer(u, p, a)
      PROVE RosterTypeOK' /\ at' = at
  <2>1. calls' \in 0..MaxCalls /\ stale' \in [Users -> BOOLEAN]
    BY <1>6, RosterCallTypes DEF AddPlayer
  <2>2. players' \in [Players -> Row]
    BY <1>6, AddPlayerTypes DEF AddPlayer
  <2> QED BY <1>6, <2>1, <2>2 DEF RosterTypeOK, AddPlayer
<1> QED BY <1>1, <1>2, <1>3, <1>4, <1>5, <1>6 DEF RosterNext
-----------------------------------------------------------------------------
\* The ledger's part.

LEMMA CallTypes ==
  ASSUME TypeOK, NEW u \in Users, NEW page \in BOOLEAN, NEW global \in BOOLEAN,
         NEW notify \in BOOLEAN, Call(u, page, global, notify)
  PROVE /\ calls' \in 0..MaxCalls
        /\ stale' \in [Users -> BOOLEAN]
        /\ due' \in [Users -> BOOLEAN] /\ missed' \subseteq Admins
<1>1. calls' \in 0..MaxCalls
  BY RosterAssumption DEF TypeOK, RosterTypeOK, Call
<1>2. stale' \in [Users -> BOOLEAN]
  <2>1. stale \in [Users -> BOOLEAN] BY DEF TypeOK, RosterTypeOK
  <2>2. stale[u] \in BOOLEAN /\ (stale[u] \/ global) \in BOOLEAN BY <2>1
  <2>3. \E again \in {stale[u], stale[u] \/ global} : stale' = [stale EXCEPT ![u] = again]
    BY DEF Call
  <2> QED BY <2>1, <2>2, <2>3
<1>3. due' \in [Users -> BOOLEAN]
  BY DEF TypeOK, Call
<1>4. missed' \subseteq Admins
  BY DEF TypeOK, Call
<1> QED BY <1>1, <1>2, <1>3, <1>4

\* A row of the table is written: a new one, or one that stays a candidate or a departure.
LEMMA RecordWritten ==
  ASSUME TypeInv, NEW r \in Ids, NEW row \in Record,
         records[r] # NoRecord => row.direction = records[r].direction,
         seasons[row.season].status # "none",
         records' = [records EXCEPT ![r] = row], UNCHANGED <<seasons, season, view>>
  PROVE records' \in [Ids -> Record \cup {NoRecord}] /\ CopiesLead' /\ SeasonsExist'
<1>1. records' \in [Ids -> Record \cup {NoRecord}]
  BY DEF TypeInv, TypeOK
<1>2. row # NoRecord BY NoRecordIsNone
<1>3. \A q \in Ids : records'[q] = IF q = r THEN row ELSE records[q]
  BY DEF TypeInv, TypeOK
<1>4. CopiesLead'
  BY <1>2, <1>3 DEF TypeInv, CopiesLead
<1>5. SeasonsExist'
  BY <1>2, <1>3 DEF TypeInv, SeasonsExist
<1> QED BY <1>1, <1>4, <1>5

\* A row, changed in the fields a page sends, is a row of the same season and direction.
LEMMA RowChanged ==
  ASSUME NEW old \in Record, NEW row \in Record
  PROVE LET new == [old EXCEPT !.power = row.power, !.target = row.target,
                               !.invite = row.invite, !.status = row.status]
        IN new \in Record /\ new.season = old.season /\ new.direction = old.direction
BY DEF Record

LEMMA CopyChanged ==
  ASSUME NEW c \in Record
  PROVE /\ \A a \in Targets : [c EXCEPT !.target = a] \in Record
        /\ \A n \in Powers : [c EXCEPT !.power = n] \in Record
        /\ \A i \in {"None", "Normal", "Special"} : [c EXCEPT !.invite = i] \in Record
        /\ \A s \in {"Confirmed", "Declined"} : [c EXCEPT !.status = s] \in Record
BY DEF Record

\* A copy with controls is of a record there is, a candidate.
LEMMA ControlledIsCandidate ==
  ASSUME TypeInv, NEW u \in Users, NEW r \in Ids, RecordControls(u, r) # {}
  PROVE /\ view[u][r] \in Record /\ records[r] \in Record
        /\ records[r].direction = "Inbound"
        /\ seasons[records[r].season].status # "none"
<1>1. view[u][r] # NoRecord /\ view[u][r].direction = "Inbound"
  BY DEF RecordControls, LedgerControls, CardControls, Editable, Mine
<1>2. view[u][r] \in Record \cup {NoRecord} /\ records[r] \in Record \cup {NoRecord}
  BY DEF TypeInv, TypeOK
<1>3. records[r] # NoRecord /\ records[r].direction = "Inbound"
  BY <1>1 DEF TypeInv, CopiesLead
<1> QED BY <1>1, <1>2, <1>3 DEF TypeInv, SeasonsExist

LEMMA UpdateKeepsTypes ==
  ASSUME TypeInv, NEW u \in Users, NEW r \in Ids, NEW row \in Record,
         RecordControls(u, r) # {}, UpdateRecord(u, r, row)
  PROVE TypeInv'
<1> DEFINE old == records[r]
           new == [old EXCEPT !.power = row.power, !.target = row.target,
                              !.invite = row.invite, !.status = row.status]
<1>1. old \in Record /\ seasons[old.season].status # "none"
  BY ControlledIsCandidate
<1>2. records' = [records EXCEPT ![r] = new]
  BY DEF UpdateRecord, UpdateTransferRecord
<1> HIDE DEF old
<1>3. new \in Record /\ new.season = old.season /\ new.direction = old.direction
  BY <1>1, RowChanged
<1> HIDE DEF new
<1>4. UNCHANGED <<players, at, roster, form, seasons, season, view, archive, joined, departed>>
  BY DEF UpdateRecord
<1>5. records' \in [Ids -> Record \cup {NoRecord}] /\ CopiesLead' /\ SeasonsExist'
  BY <1>1, <1>2, <1>3, <1>4, RecordWritten DEF old
<1>6. /\ calls' \in 0..MaxCalls /\ stale' \in [Users -> BOOLEAN]
      /\ due' \in [Users -> BOOLEAN] /\ missed' \subseteq Admins
  BY CallTypes DEF UpdateRecord, TypeInv
<1>7. TypeOK'
  BY <1>4, <1>5, <1>6 DEF TypeInv, TypeOK, RosterTypeOK
<1> QED BY <1>5, <1>7 DEF TypeInv

LEMMA ConfirmInboundKeepsTypes ==
  ASSUME TypeInv, NEW u \in Users, NEW r \in Ids, ConfirmInbound(u, r)
  PROVE TypeInv'
<1> DEFINE old == records[r]
           new == [old EXCEPT !.status = "Confirmed"]
           c == view[u][r]
<1>1. /\ c \in Record /\ old \in Record
      /\ seasons[old.season].status # "none"
  BY ControlledIsCandidate DEF ConfirmInbound
<1>2. c.fid \in Players /\ c.target \in Alliances
  BY <1>1 DEF ConfirmInbound, Record, Targets
<1>3. /\ records' = [records EXCEPT ![r] = new]
      /\ players' = [players EXCEPT ![c.fid] = [status |-> "Active", alliance |-> c.target]]
      /\ joined' = joined \cup {r}
      /\ UNCHANGED <<at, roster, form, seasons, season, view, archive, departed>>
  BY DEF ConfirmInbound, ConfirmInboundTransfer
<1> HIDE DEF old
<1>4. new \in Record /\ new.season = old.season /\ new.direction = old.direction
  BY <1>1 DEF Record
<1> HIDE DEF new
<1>5. records' \in [Ids -> Record \cup {NoRecord}] /\ CopiesLead' /\ SeasonsExist'
  BY <1>1, <1>3, <1>4, RecordWritten DEF old
<1>6. players' \in [Players -> Row]
  <2>1. RosterTypeOK /\ [status |-> "Active", alliance |-> c.target] \in Row
    BY <1>2 DEF TypeInv, TypeOK, Row
  <2> HIDE DEF c
  <2> QED BY <1>2, <1>3, <2>1, PlayerWritten
<1>7. /\ calls' \in 0..MaxCalls /\ stale' \in [Users -> BOOLEAN]
      /\ due' \in [Users -> BOOLEAN] /\ missed' \subseteq Admins
  BY CallTypes DEF ConfirmInbound, TypeInv
<1>8. TypeOK'
  BY <1>3, <1>5, <1>6, <1>7 DEF TypeInv, TypeOK, RosterTypeOK
<1> QED BY <1>5, <1>8 DEF TypeInv

LEMMA RecordStepKeepsTypes ==
  ASSUME TypeInv, NEW u \in Users, NEW r \in Ids, RecordStep(u, r)
  PROVE TypeInv'
<1> DEFINE c == view[u][r]
<1>1. RecordControls(u, r) # {} => c \in Record BY ControlledIsCandidate
<1>2. ASSUME NEW a \in Targets, SetTarget(u, r, a) PROVE TypeInv'
  <2>1. RecordControls(u, r) # {} /\ UpdateRecord(u, r, [c EXCEPT !.target = a])
    BY <1>2 DEF SetTarget
  <2> HIDE DEF c
  <2>2. [c EXCEPT !.target = a] \in Record BY <1>1, <2>1, CopyChanged
  <2> QED BY <2>1, <2>2, UpdateKeepsTypes
<1>3. ASSUME NEW n \in Powers, SetPower(u, r, n) PROVE TypeInv'
  <2>1. RecordControls(u, r) # {} /\ UpdateRecord(u, r, [c EXCEPT !.power = n])
    BY <1>3 DEF SetPower
  <2> HIDE DEF c
  <2>2. [c EXCEPT !.power = n] \in Record BY <1>1, <2>1, CopyChanged
  <2> QED BY <2>1, <2>2, UpdateKeepsTypes
<1>4. ASSUME NEW type \in {"Normal", "Special"}, ToggleInvite(u, r, type) PROVE TypeInv'
  <2>1. RecordControls(u, r) # {} BY <1>4 DEF ToggleInvite
  <2>2. PICK i \in {"None", "Normal", "Special"} : UpdateRecord(u, r, [c EXCEPT !.invite = i])
    BY <1>4 DEF ToggleInvite
  <2> HIDE DEF c
  <2>3. [c EXCEPT !.invite = i] \in Record BY <1>1, <2>1, CopyChanged
  <2> QED BY <2>1, <2>2, <2>3, UpdateKeepsTypes
<1>5. CASE Decline(u, r)
  <2>1. RecordControls(u, r) # {} /\ UpdateRecord(u, r, [c EXCEPT !.status = "Declined"])
    BY <1>5 DEF Decline
  <2> HIDE DEF c
  <2>2. [c EXCEPT !.status = "Declined"] \in Record BY <1>1, <2>1, CopyChanged
  <2> QED BY <2>1, <2>2, UpdateKeepsTypes
<1>6. CASE ConfirmInbound(u, r)
  BY <1>6, ConfirmInboundKeepsTypes
<1> QED BY <1>2, <1>3, <1>4, <1>5, <1>6 DEF RecordStep
\* A season is created, or one there is changed: no page and no record loses its season.
LEMMA SeasonWritten ==
  ASSUME TypeInv, NEW s \in Seasons,
         NEW row \in [status: {"Planning", "Active", "Closed"}, limits: Limits],
         \A o \in Seasons : o < s => seasons[o].status # "none",
         seasons' = [seasons EXCEPT ![s] = row], UNCHANGED records,
         \A v \in Users : season'[v] \in {season[v], NoSeason}
  PROVE /\ seasons' \in [Seasons -> [status: {"none", "Planning", "Active", "Closed"},
                                     limits: Limits]]
        /\ SeasonsExist'
<1>1. seasons' \in [Seasons -> [status: {"none", "Planning", "Active", "Closed"},
                                limits: Limits]]
  BY DEF TypeInv, TypeOK
<1>2. row.status # "none" OBVIOUS
<1>3. \A o \in Seasons : seasons'[o] = IF o = s THEN row ELSE seasons[o]
  BY DEF TypeInv, TypeOK
<1>4. \A o \in Seasons : seasons[o].status # "none" => seasons'[o].status # "none"
  BY <1>2, <1>3
<1>5. \A p \in Seasons, o \in Seasons :
        o < p /\ seasons'[p].status # "none" => seasons'[o].status # "none"
  <2> SUFFICES ASSUME NEW p \in Seasons, NEW o \in Seasons, o < p,
                      seasons'[p].status # "none"
               PROVE seasons'[o].status # "none"
    OBVIOUS
  <2>1. CASE p = s
    BY <2>1, <1>4
  <2>2. CASE p # s
    BY <2>2, <1>3, <1>4 DEF TypeInv, SeasonsExist
  <2> QED BY <2>1, <2>2
<1>6. ASSUME NEW v \in Users, season'[v] # NoSeason
      PROVE seasons'[season'[v].id].status # "none"
  <2>1. season'[v] = season[v] BY <1>6
  <2>2. season[v].id \in Seasons
    BY <1>6, <2>1 DEF TypeInv, TypeOK
  <2> QED BY <1>4, <1>6, <2>1, <2>2 DEF TypeInv, SeasonsExist
<1>7. ASSUME NEW r \in Ids, records'[r] # NoRecord
      PROVE seasons'[records'[r].season].status # "none"
  <2>1. records[r] \in Record /\ records'[r] = records[r]
    BY <1>7 DEF TypeInv, TypeOK
  <2>2. records[r].season \in Seasons BY <2>1 DEF Record
  <2> QED BY <1>4, <1>7, <2>1, <2>2 DEF TypeInv, SeasonsExist
<1> QED BY <1>1, <1>5, <1>6, <1>7 DEF SeasonsExist

\* A page that shows a season shows one there is, with all that came before it.
LEMMA ShownSeason ==
  ASSUME TypeInv, NEW u \in Users, season[u] # NoSeason
  PROVE /\ season[u].id \in Seasons
        /\ seasons[season[u].id].status # "none"
        /\ seasons[season[u].id].limits \in Limits
        /\ \A o \in Seasons : o < season[u].id => seasons[o].status # "none"
<1>1. season[u].id \in Seasons
  BY DEF TypeInv, TypeOK
<1> QED BY <1>1 DEF TypeInv, TypeOK, SeasonsExist

LEMMA CreateSeasonKeepsTypes ==
  ASSUME TypeInv, NEW u \in Users, NEW limits \in Limits, CreateSeason(u, limits)
  PROVE TypeInv'
<1>1. /\ calls' \in 0..MaxCalls /\ stale' \in [Users -> BOOLEAN]
      /\ due' \in [Users -> BOOLEAN] /\ missed' \subseteq Admins
  BY CallTypes DEF CreateSeason, TypeInv
<1>2. UNCHANGED <<players, at, roster, form, records, season, view, archive, joined, departed>>
  BY DEF CreateSeason
<1>3. PICK s \in Seasons :
        /\ \A o \in 1..(s - 1) : seasons[o].status # "none"
        /\ seasons' = [seasons EXCEPT ![s] = [status |-> "Planning", limits |-> limits]]
  BY DEF CreateSeason
<1>4. \A o \in Seasons : o < s => o \in 1..(s - 1)
  BY TransfersAssumption DEF Seasons
<1>5. [status |-> "Planning", limits |-> limits]
        \in [status: {"Planning", "Active", "Closed"}, limits: Limits]
  OBVIOUS
<1>6. /\ seasons' \in [Seasons -> [status: {"none", "Planning", "Active", "Closed"},
                                   limits: Limits]]
      /\ SeasonsExist'
  BY <1>2, <1>3, <1>4, <1>5, SeasonWritten
<1>7. TypeOK' BY <1>1, <1>2, <1>6 DEF TypeInv, TypeOK, RosterTypeOK
<1>8. CopiesLead' BY <1>2 DEF TypeInv, CopiesLead
<1> QED BY <1>6, <1>7, <1>8 DEF TypeInv

LEMMA EditSeasonKeepsTypes ==
  ASSUME TypeInv, NEW u \in Users, NEW limits \in Limits, EditTransferSeason(u, limits)
  PROVE TypeInv'
<1> DEFINE s == season[u].id
           new == [seasons[s] EXCEPT !.limits = limits]
<1>1. /\ calls' \in 0..MaxCalls /\ stale' \in [Users -> BOOLEAN]
      /\ due' \in [Users -> BOOLEAN] /\ missed' \subseteq Admins
  BY CallTypes DEF EditTransferSeason, TypeInv
<1>2. UNCHANGED <<players, at, roster, form, records, season, view, archive, joined, departed>>
  BY DEF EditTransferSeason
<1>3. season[u] # NoSeason
  BY DEF EditTransferSeason, SeasonControls, NoSeasonControls
<1>4. /\ s \in Seasons /\ seasons[s].status # "none"
      /\ \A o \in Seasons : o < s => seasons[o].status # "none"
  BY <1>3, ShownSeason
<1>5. seasons' = [seasons EXCEPT ![s] = new]
  BY DEF EditTransferSeason
<1>6. new \in [status: {"Planning", "Active", "Closed"}, limits: Limits]
  BY <1>4 DEF TypeInv, TypeOK
<1> HIDE DEF new, s
<1>7. /\ seasons' \in [Seasons -> [status: {"none", "Planning", "Active", "Closed"},
                                   limits: Limits]]
      /\ SeasonsExist'
  BY <1>2, <1>4, <1>5, <1>6, SeasonWritten
<1>8. TypeOK' BY <1>1, <1>2, <1>7 DEF TypeInv, TypeOK, RosterTypeOK
<1>9. CopiesLead' BY <1>2 DEF TypeInv, CopiesLead
<1> QED BY <1>7, <1>8, <1>9 DEF TypeInv

LEMMA SeasonStatusKeepsTypes ==
  ASSUME TypeInv, NEW u \in Users, NEW status \in {"Active", "Closed"},
         UpdateSeasonStatus(u, status)
  PROVE TypeInv'
<1> DEFINE s == season[u].id
           new == [seasons[s] EXCEPT !.status = status]
<1>1. /\ calls' \in 0..MaxCalls /\ stale' \in [Users -> BOOLEAN]
      /\ due' \in [Users -> BOOLEAN] /\ missed' \subseteq Admins
  <2>1. (status = "Active") \in BOOLEAN /\ Call(u, status = "Active", FALSE, TRUE)
    BY DEF UpdateSeasonStatus
  <2> QED BY <2>1, CallTypes DEF TypeInv
<1>2. UNCHANGED <<players, at, roster, form, records, archive, joined, departed>>
  BY DEF UpdateSeasonStatus
<1>3. \/ UNCHANGED <<season, view>>
      \/ /\ season' = [season EXCEPT ![u] = NoSeason]
         /\ view' = [view EXCEPT ![u] = [r \in Ids |-> NoRecord]]
  BY DEF UpdateSeasonStatus
<1>4. season[u] # NoSeason
  BY DEF UpdateSeasonStatus, SeasonControls, NoSeasonControls
<1>5. /\ s \in Seasons
      /\ \A o \in Seasons : o < s => seasons[o].status # "none"
  BY <1>4, ShownSeason
<1>6. seasons' = [seasons EXCEPT ![s] = new]
  BY DEF UpdateSeasonStatus
<1>7. new \in [status: {"Planning", "Active", "Closed"}, limits: Limits]
  <2>1. seasons[s] \in [status: {"none", "Planning", "Active", "Closed"}, limits: Limits]
    BY <1>5 DEF TypeInv, TypeOK
  <2> HIDE DEF s
  <2> QED BY <2>1
<1> HIDE DEF new, s
<1>8. \A v \in Users : season'[v] \in {season[v], NoSeason}
  BY <1>3 DEF TypeInv, TypeOK
<1>9. /\ seasons' \in [Seasons -> [status: {"none", "Planning", "Active", "Closed"},
                                   limits: Limits]]
      /\ SeasonsExist'
  BY <1>2, <1>5, <1>6, <1>7, <1>8, SeasonWritten
<1>10. /\ season' \in [Users -> {NoSeason} \cup
            [id: Seasons, status: {"Planning", "Active"}, limits: Limits]]
       /\ view' \in [Users -> [Ids -> Record \cup {NoRecord}]]
  <2>1. /\ season \in [Users -> {NoSeason} \cup
             [id: Seasons, status: {"Planning", "Active"}, limits: Limits]]
        /\ view \in [Users -> [Ids -> Record \cup {NoRecord}]]
    BY DEF TypeInv, TypeOK
  <2>2. [r \in Ids |-> NoRecord] \in [Ids -> Record \cup {NoRecord}] OBVIOUS
  <2> QED BY <1>3, <2>1, <2>2
<1>11. TypeOK' BY <1>1, <1>2, <1>9, <1>10 DEF TypeInv, TypeOK, RosterTypeOK
<1>12. CopiesLead'
  <2>1. \A v \in Users, r \in Ids : view'[v][r] \in {view[v][r], NoRecord}
    BY <1>3 DEF TypeInv, TypeOK
  <2> QED BY <1>2, <2>1 DEF TypeInv, CopiesLead
<1> QED BY <1>9, <1>11, <1>12 DEF TypeInv

LEMMA AddCandidateKeepsTypes ==
  ASSUME TypeInv, NEW u \in Users, NEW p \in Players, AddCandidate(u, p)
  PROVE TypeInv'
<1>1. /\ calls' \in 0..MaxCalls /\ stale' \in [Users -> BOOLEAN]
      /\ due' \in [Users -> BOOLEAN] /\ missed' \subseteq Admins
  BY CallTypes DEF AddCandidate, TypeInv
<1>2. UNCHANGED <<players, at, roster, form, seasons, season, view, archive, joined, departed>>
  BY DEF AddCandidate
<1>3. PICK r \in Free : AddTransferRecord(r, season[u].id, p)
  BY DEF AddCandidate
<1> DEFINE new == [season |-> season[u].id, fid |-> p, direction |-> "Inbound",
                   status |-> "Pending", target |-> NoAlliance, invite |-> "None",
                   power |-> 0]
<1>4. season[u] # NoSeason
  BY DEF AddCandidate, SeasonControls, NoSeasonControls
<1>5. new \in Record /\ seasons[new.season].status # "none"
  BY <1>4, ShownSeason DEF Record, Targets
<1>6. r \in Ids /\ records[r] = NoRecord /\ records' = [records EXCEPT ![r] = new]
  BY <1>3 DEF Free, AddTransferRecord
<1> HIDE DEF new
<1>7. records' \in [Ids -> Record \cup {NoRecord}] /\ CopiesLead' /\ SeasonsExist'
  BY <1>2, <1>5, <1>6, RecordWritten
<1>8. TypeOK' BY <1>1, <1>2, <1>7 DEF TypeInv, TypeOK, RosterTypeOK
<1> QED BY <1>7, <1>8 DEF TypeInv

LEMMA ArchiveWhenLive ==
  ASSUME NEW u, NEW p, NEW live \in BOOLEAN, "archive" \in Controls(u, p, live)
  PROVE live
<1> SUFFICES ASSUME live = FALSE PROVE FALSE OBVIOUS
<1>1. "archive" \in DesktopControls(u, p, FALSE) \/ "archive" \in MobileControls(u, p, FALSE)
  BY DEF Controls
<1>2. "archive" \notin DesktopControls(u, p, FALSE) BY DEF DesktopControls
<1>3. "archive" \notin MobileControls(u, p, FALSE) BY DEF MobileControls
<1> QED BY <1>1, <1>2, <1>3

\* A player leaves only while the page shows an active season.
LEMMA TransferOutRow ==
  ASSUME TypeInv, NEW u \in Users, NEW p \in Players, TransferOut(u, p)
  PROVE \E r \in Ids, row \in Record :
          /\ records[r] = NoRecord /\ records' = [records EXCEPT ![r] = row]
          /\ row.direction = "Outbound" /\ row.status = "Confirmed"
          /\ row.fid = p /\ row.target = players[p].alliance
          /\ seasons[row.season].status # "none"
          /\ players' = [players EXCEPT ![p] = [Absent EXCEPT !.status = "Archived"]]
          /\ departed' = departed \cup {<<p, players[p].alliance>>}
<1>1. PICK r \in Free : ConfirmOutboundTransfer(r, p, season[u].id)
  BY DEF TransferOut
<1> DEFINE new == [season |-> season[u].id, fid |-> p, direction |-> "Outbound",
                   status |-> "Confirmed", target |-> players[p].alliance,
                   invite |-> "None", power |-> 0]
<1>2. season[u] # NoSeason
  <2>1. season[u].status = "Active"
    BY ArchiveWhenLive DEF TransferOut
  <2> QED BY <2>1 DEF NoSeason
<1>3. players[p].alliance \in Targets
  BY DEF TypeInv, TypeOK, RosterTypeOK, Row, Targets
<1>4. new \in Record /\ seasons[new.season].status # "none"
  BY <1>2, <1>3, ShownSeason DEF Record
<1>5. /\ r \in Ids /\ records[r] = NoRecord /\ records' = [records EXCEPT ![r] = new]
      /\ players' = [players EXCEPT ![p] = [Absent EXCEPT !.status = "Archived"]]
      /\ departed' = departed \cup {<<p, players[p].alliance>>}
  BY <1>1 DEF Free, ConfirmOutboundTransfer
<1>6. /\ new.direction = "Outbound" /\ new.status = "Confirmed" /\ new.fid = p
      /\ new.target = players[p].alliance
  OBVIOUS
<1> HIDE DEF new
<1> QED BY <1>4, <1>5, <1>6

LEMMA TransferOutKeepsTypes ==
  ASSUME TypeInv, NEW u \in Users, NEW p \in Players, TransferOut(u, p)
  PROVE TypeInv'
<1>1. /\ calls' \in 0..MaxCalls /\ stale' \in [Users -> BOOLEAN]
      /\ due' \in [Users -> BOOLEAN] /\ missed' \subseteq Admins
  BY CallTypes DEF TransferOut, TypeInv
<1>2. UNCHANGED <<at, roster, form, seasons, season, view, archive, joined>>
  BY DEF TransferOut
<1>3. PICK r \in Ids, row \in Record :
          /\ records[r] = NoRecord /\ records' = [records EXCEPT ![r] = row]
          /\ seasons[row.season].status # "none"
          /\ players' = [players EXCEPT ![p] = [Absent EXCEPT !.status = "Archived"]]
          /\ departed' = departed \cup {<<p, players[p].alliance>>}
  BY TransferOutRow
<1>4. records' \in [Ids -> Record \cup {NoRecord}] /\ CopiesLead' /\ SeasonsExist'
  BY <1>2, <1>3, RecordWritten
<1>5. players' \in [Players -> Row]
  <2>1. RosterTypeOK /\ [Absent EXCEPT !.status = "Archived"] \in Row
    BY DEF TypeInv, TypeOK, Row, Absent
  <2> QED BY <1>3, <2>1, PlayerWritten
<1>6. departed' \subseteq Players \X Targets
  BY <1>3 DEF TypeInv, TypeOK, RosterTypeOK, Row, Targets
<1>7. TypeOK' BY <1>1, <1>2, <1>4, <1>5, <1>6 DEF TypeInv, TypeOK, RosterTypeOK
<1> QED BY <1>4, <1>7 DEF TypeInv
LEMMA SeasonStepKeepsTypes ==
  ASSUME TypeInv, NEW u \in Users, SeasonStep(u)
  PROVE TypeInv'
BY CreateSeasonKeepsTypes, EditSeasonKeepsTypes, SeasonStatusKeepsTypes,
   AddCandidateKeepsTypes, TransferOutKeepsTypes DEF SeasonStep

LEMMA RosterStepKeepsTypes ==
  ASSUME TypeInv, RosterStep
  PROVE TypeInv'
<1>1. RosterTypeOK' BY RosterStepTypes DEF RosterStep, TypeInv, TypeOK
<1>2. UNCHANGED <<seasons, records, season, view, archive, missed, joined, departed>>
  BY DEF RosterStep
<1>3. due' \in [Users -> BOOLEAN]
  BY DEF RosterStep, TypeInv, TypeOK
<1> QED BY <1>1, <1>2, <1>3 DEF TypeInv, TypeOK, CopiesLead, SeasonsExist

LEMMA NavigateKeepsTypes ==
  ASSUME TypeInv, NEW u \in Users, Navigate(u)
  PROVE TypeInv'
<1> USE DEF TypeInv, TypeOK, RosterTypeOK
<1>1. RosterTypeOK'
  <2>1. at' \in [Users -> {"roster", "transfers"}] BY DEF Navigate
  <2>2. form' \in [Users -> SUBSET [fid: Players, row: Row]] BY DEF Navigate, NoForm
  <2> QED BY <2>1, <2>2 DEF Navigate
<1>2. season' \in [Users -> {NoSeason} \cup
        [id: Seasons, status: {"Planning", "Active"}, limits: Limits]]
  BY DEF Navigate
<1>3. view' \in [Users -> [Ids -> Record \cup {NoRecord}]]
  <2>1. [r \in Ids |-> NoRecord] \in [Ids -> Record \cup {NoRecord}] OBVIOUS
  <2> QED BY <2>1 DEF Navigate
<1>4. due' \in [Users -> BOOLEAN] BY DEF Navigate
<1>5. archive' \in [Users -> SUBSET [listed: SUBSET Seasons, shown: {0} \cup Seasons]]
  BY DEF Navigate
<1>6. UNCHANGED <<seasons, records, joined, departed>> /\ missed' \subseteq Admins
  BY DEF Navigate
<1>7. /\ \A v \in Users, r \in Ids : view'[v][r] \in {view[v][r], NoRecord}
      /\ \A v \in Users : season'[v] \in {season[v], NoSeason}
  BY DEF Navigate
<1>8. CopiesLead' BY <1>6, <1>7 DEF CopiesLead
<1>9. SeasonsExist' BY <1>6, <1>7 DEF SeasonsExist
<1> QED BY <1>1, <1>2, <1>3, <1>4, <1>5, <1>6, <1>8, <1>9

\* What a page fetches is what the table holds.
LEMMA FetchedTyped ==
  ASSUME TypeInv, NEW s
  PROVE /\ GetTransferRecords(s) \in [Ids -> Record \cup {NoRecord}]
        /\ \A r \in Ids : GetTransferRecords(s)[r] \in {records[r], NoRecord}
BY DEF TypeInv, TypeOK, GetTransferRecords

\* Whatever season the page shows after a fetch, it is one it had or one that is open.
LEMMA FetchSeasonTypes ==
  ASSUME TypeInv, NEW u \in Users,
         NEW answer \in {GetActiveTransferSeason, NoSeason, season[u]},
         FetchSeason(u, answer)
  PROVE /\ due' \in [Users -> BOOLEAN]
        /\ season' \in [Users -> {NoSeason} \cup
             [id: Seasons, status: {"Planning", "Active"}, limits: Limits]]
        /\ SeasonsExist'
        /\ UNCHANGED <<rosterVars, seasons, records, archive, joined, departed>>
<1>1. /\ answer \in {NoSeason} \cup [id: Seasons, status: {"Planning", "Active"}, limits: Limits]
      /\ answer # NoSeason => seasons[answer.id].status # "none"
  <2>1. CASE answer = GetActiveTransferSeason BY <2>1, ActiveSeasonTyped DEF TypeInv
  <2>2. CASE answer = season[u] BY <2>2 DEF TypeInv, TypeOK, SeasonsExist
  <2> QED BY <2>1, <2>2
<1>2. /\ due' = [due EXCEPT ![u] = FALSE] /\ season' = [season EXCEPT ![u] = answer]
      /\ UNCHANGED <<rosterVars, seasons, records, archive, joined, departed>>
  BY DEF FetchSeason
<1>3. \A v \in Users : season'[v] = IF v = u THEN answer ELSE season[v]
  BY <1>2 DEF TypeInv, TypeOK
<1>4. SeasonsExist'
  BY <1>1, <1>2, <1>3 DEF TypeInv, SeasonsExist
<1> QED BY <1>1, <1>2, <1>4 DEF TypeInv, TypeOK

LEMMA FetchKeepsTypes ==
  ASSUME TypeInv, NEW u \in Users, FetchData(u) \/ FetchInitialData(u)
  PROVE TypeInv'
<1>1. /\ due' \in [Users -> BOOLEAN]
      /\ season' \in [Users -> {NoSeason} \cup
           [id: Seasons, status: {"Planning", "Active"}, limits: Limits]]
      /\ SeasonsExist'
      /\ UNCHANGED <<rosterVars, seasons, records, archive, joined, departed>>
  <2>1. PICK answer \in {GetActiveTransferSeason, NoSeason, season[u]} : FetchSeason(u, answer)
    BY DEF FetchData, FetchInitialData
  <2> QED BY <2>1, FetchSeasonTypes
<1>2. view' \in [Users -> [Ids -> Record \cup {NoRecord}]] /\ CopiesLead'
  <2>1. CASE view' = view
    BY <1>1, <2>1 DEF TypeInv, TypeOK, CopiesLead
  <2>2. CASE view' = [view EXCEPT ![u] = GetTransferRecords(GetActiveTransferSeason.id)]
    <3> DEFINE new == GetTransferRecords(GetActiveTransferSeason.id)
    <3>1. /\ new \in [Ids -> Record \cup {NoRecord}]
          /\ \A r \in Ids : new[r] \in {records[r], NoRecord}
      BY FetchedTyped
    <3>2. view' = [view EXCEPT ![u] = new] BY <2>2
    <3> HIDE DEF new
    <3>3. \A v \in Users : view'[v] = IF v = u THEN new ELSE view[v]
      BY <3>2 DEF TypeInv, TypeOK
    <3>4. CopiesLead' BY <1>1, <3>1, <3>3 DEF TypeInv, CopiesLead
    <3> QED BY <3>1, <3>2, <3>4 DEF TypeInv, TypeOK
  <2> QED BY <2>1, <2>2 DEF FetchData, FetchInitialData
<1>3. RosterTypeOK' BY <1>1 DEF TypeInv, TypeOK, RosterTypeOK, rosterVars
<1>4. missed' \subseteq Admins BY DEF FetchData, FetchInitialData, TypeInv, TypeOK
<1> QED BY <1>1, <1>2, <1>3, <1>4 DEF TypeInv, TypeOK

LEMMA HistoryKeepsTypes ==
  ASSUME TypeInv, NEW u \in Users,
         ViewHistory(u) \/ LeaveHistory(u) \/ \E s \in Seasons : SelectPastSeason(u, s)
  PROVE TypeInv'
<1> DEFINE Histories == SUBSET [listed: SUBSET Seasons, shown: {0} \cup Seasons]
<1>1. \E h \in Histories : HistoryStep(u, h)
  <2>1. CASE ViewHistory(u)
    BY <2>1 DEF ViewHistory, GetClosedTransferSeasons
  <2>2. CASE LeaveHistory(u)
    BY <2>2 DEF LeaveHistory
  <2>3. ASSUME NEW s \in Seasons, SelectPastSeason(u, s)
        PROVE \E h \in Histories : HistoryStep(u, h)
    <3>1. PICK h \in archive[u] : HistoryStep(u, {[h EXCEPT !.shown = s]})
      BY <2>3 DEF SelectPastSeason
    <3>2. {[h EXCEPT !.shown = s]} \in Histories
      BY DEF TypeInv, TypeOK
    <3> QED BY <3>1, <3>2
  <2> QED BY <2>1, <2>2, <2>3
<1>2. /\ archive' \in [Users -> Histories]
      /\ UNCHANGED <<rosterVars, seasons, records, season, view, due, missed, joined, departed>>
  BY <1>1 DEF HistoryStep, TypeInv, TypeOK
<1>3. RosterTypeOK' BY <1>2 DEF TypeInv, TypeOK, RosterTypeOK, rosterVars
<1> QED BY <1>2, <1>3 DEF TypeInv, TypeOK, CopiesLead, SeasonsExist

LEMMA TypesNext == TypeInv /\ [Next]_vars => TypeInv'
<1> SUFFICES ASSUME TypeInv, [Next]_vars PROVE TypeInv'
  OBVIOUS
<1>1. CASE UNCHANGED vars
  BY <1>1 DEF vars, rosterVars, transferVars, TypeInv, TypeOK, RosterTypeOK,
              CopiesLead, SeasonsExist
<1> QED
  BY <1>1, RosterStepKeepsTypes, NavigateKeepsTypes, FetchKeepsTypes, HistoryKeepsTypes,
     SeasonStepKeepsTypes, RecordStepKeepsTypes DEF Next

LEMMA TypesInit == Init => TypeInv
<1> SUFFICES ASSUME Init PROVE TypeInv
  OBVIOUS
<1>1. PICK limits \in Limits, status \in {"Planning", "Active"}, p \in Players, a \in Targets :
        /\ seasons = [s \in Seasons |->
             [status |-> IF s = 1 THEN status ELSE "none", limits |-> limits]]
        /\ records = [r \in Ids |->
             IF r = 1 THEN [season |-> 1, fid |-> p, direction |-> "Inbound",
                            status |-> "Pending", target |-> a,
                            invite |-> "None", power |-> 0]
             ELSE NoRecord]
  BY DEF Init
<1>2. 1 \in Seasons BY TransfersAssumption DEF Seasons
<1>3. RosterTypeOK
  <2>1. players \in [Players -> Row]
    BY RosterAssumption DEF Init, RosterInit, Row, Absent
  <2>2. roster \in [Users -> [Players -> Row]]
    <3>1. \A u \in Users : Visible(u) \in [Players -> Row]
      BY <2>1 DEF Visible, Absent, Row
    <3> QED BY <3>1 DEF Init, RosterInit
  <2> QED BY <2>1, <2>2, RosterAssumption DEF Init, RosterInit, RosterTypeOK, NoForm
<1>4. seasons \in [Seasons -> [status: {"none", "Planning", "Active", "Closed"}, limits: Limits]]
  BY <1>1
<1>5. records \in [Ids -> Record \cup {NoRecord}]
  <2>1. [season |-> 1, fid |-> p, direction |-> "Inbound", status |-> "Pending",
         target |-> a, invite |-> "None", power |-> 0] \in Record
    BY <1>2 DEF Record
  <2> QED BY <1>1, <2>1
<1>6. /\ view = [u \in Users |-> [r \in Ids |-> NoRecord]]
      /\ season = [u \in Users |-> NoSeason]
      /\ due = [u \in Users |-> TRUE] /\ archive = [u \in Users |-> {}]
      /\ missed = {} /\ joined = {} /\ departed = {}
  BY DEF Init
<1>7. TypeOK BY <1>3, <1>4, <1>5, <1>6 DEF TypeOK
<1>8. CopiesLead BY <1>6 DEF CopiesLead
<1>9. SeasonsExist
  <2>1. \A s \in Seasons, o \in Seasons :
          o < s /\ seasons[s].status # "none" => seasons[o].status # "none"
    BY <1>1 DEF Seasons
  <2>2. \A r \in Ids : records[r] # NoRecord => records[r].season = 1
    BY <1>1
  <2> QED BY <1>1, <1>2, <1>6, <2>1, <2>2 DEF SeasonsExist
<1> QED BY <1>7, <1>8, <1>9 DEF TypeInv

\* Every table and every page's copy keeps its type.  The part that could fail is the
\* page's: it writes to the season its own copy names, which must be one that is there
\* and was open when it was fetched (GetActiveTransferSeason), and it writes back rows
\* only of records there are.
THEOREM TransferTypes == Spec => []TypeOK
<1>1. TypeInv => TypeOK BY DEF TypeInv
<1> QED BY TypesInit, TypesNext, <1>1, PTL DEF Spec
-----------------------------------------------------------------------------
\* Departures: nothing the ledger offers writes a record that is one.

\* What a step does to the table: nothing, or it writes a record that is new or a
\* candidate's, and only a transfer out departs.
Departs(row) ==
  \E p \in Players :
    /\ row.direction = "Outbound" /\ row.status = "Confirmed"
    /\ row.fid = p /\ row.target = players[p].alliance
    /\ departed' = departed \cup {<<p, players[p].alliance>>}

WritesRecord ==
  \E r \in Ids, row \in Record :
    /\ records[r] = NoRecord \/ records[r].direction = "Inbound"
    /\ records' = [records EXCEPT ![r] = row]
    /\ departed' = departed \/ Departs(row)

LEMMA RecordsOfStep ==
  ASSUME TypeInv, [Next]_vars
  PROVE UNCHANGED <<records, departed>> \/ WritesRecord
<1>1. CASE RosterStep \/ UNCHANGED vars
  BY <1>1 DEF RosterStep, vars, transferVars
<1>2. ASSUME NEW u \in Users, \/ Navigate(u) \/ FetchData(u) \/ FetchInitialData(u)
                               \/ ViewHistory(u) \/ LeaveHistory(u)
                               \/ \E s \in Seasons : SelectPastSeason(u, s)
      PROVE UNCHANGED <<records, departed>>
  BY <1>2 DEF Navigate, FetchData, FetchInitialData, FetchSeason, ViewHistory, LeaveHistory,
              SelectPastSeason, HistoryStep
<1>3. ASSUME NEW u \in Users, SeasonStep(u)
      PROVE UNCHANGED <<records, departed>> \/ WritesRecord
  <2>1. ASSUME NEW l \in Limits, CreateSeason(u, l) \/ EditTransferSeason(u, l)
        PROVE UNCHANGED <<records, departed>>
    BY <2>1 DEF CreateSeason, EditTransferSeason
  <2>2. ASSUME NEW s, UpdateSeasonStatus(u, s) PROVE UNCHANGED <<records, departed>>
    BY <2>2 DEF UpdateSeasonStatus
  <2>3. ASSUME NEW p \in Players, AddCandidate(u, p) PROVE WritesRecord
    <3>1. PICK r \in Free : AddTransferRecord(r, season[u].id, p)
      BY <2>3 DEF AddCandidate
    <3>2. records[r] = NoRecord /\ r \in Ids BY DEF Free
    <3>3. season[u].id \in Seasons
      BY <2>3, ShownSeason DEF AddCandidate, SeasonControls, NoSeasonControls
    <3> DEFINE row == [season |-> season[u].id, fid |-> p, direction |-> "Inbound",
                       status |-> "Pending", target |-> NoAlliance, invite |-> "None",
                       power |-> 0]
    <3>4. row \in Record BY <3>3 DEF Record, Targets
    <3>5. records' = [records EXCEPT ![r] = row] /\ departed' = departed
      BY <2>3, <3>1 DEF AddTransferRecord, AddCandidate
    <3> HIDE DEF row
    <3> QED BY <3>2, <3>4, <3>5 DEF WritesRecord
  <2>4. ASSUME NEW p \in Players, TransferOut(u, p) PROVE WritesRecord
    <3>1. PICK r \in Ids, row \in Record :
          /\ records[r] = NoRecord /\ records' = [records EXCEPT ![r] = row]
          /\ row.direction = "Outbound" /\ row.status = "Confirmed"
          /\ row.fid = p /\ row.target = players[p].alliance
          /\ departed' = departed \cup {<<p, players[p].alliance>>}
      BY <2>4, TransferOutRow
    <3>2. Departs(row) BY <3>1 DEF Departs
    <3> QED BY <3>1, <3>2 DEF WritesRecord
  <2> QED BY <1>3, <2>1, <2>2, <2>3, <2>4 DEF SeasonStep
<1>4. ASSUME NEW u \in Users, NEW r \in Ids, RecordStep(u, r) PROVE WritesRecord
  <2>1. RecordControls(u, r) # {}
    BY <1>4 DEF RecordStep, SetTarget, SetPower, ToggleInvite, Decline, ConfirmInbound
  <2>2. records[r] \in Record /\ records[r].direction = "Inbound"
    BY <2>1, ControlledIsCandidate
  <2>3. TypeInv' BY <1>4, RecordStepKeepsTypes
  <2>4. departed' = departed
    BY <1>4 DEF RecordStep, SetTarget, SetPower, ToggleInvite, Decline, UpdateRecord,
                ConfirmInbound
  <2>5. \E row : records' = [records EXCEPT ![r] = row]
    BY <1>4 DEF RecordStep, SetTarget, SetPower, ToggleInvite, Decline, UpdateRecord,
                UpdateTransferRecord, ConfirmInbound, ConfirmInboundTransfer
  <2>6. PICK row : records' = [records EXCEPT ![r] = row] BY <2>5
  <2>7. records'[r] = row BY <2>6 DEF TypeInv, TypeOK
  <2>8. row \in Record \/ row = NoRecord BY <2>3, <2>7 DEF TypeInv, TypeOK
  <2>9. row # NoRecord
    <3>1. view' = view
      BY <1>4 DEF RecordStep, SetTarget, SetPower, ToggleInvite, Decline, UpdateRecord,
                  ConfirmInbound
    <3>2. view[u][r] # NoRecord
      BY <2>1, NoRecordIsNone, ControlledIsCandidate
    <3> QED BY <2>3, <2>7, <3>1, <3>2 DEF TypeInv, CopiesLead
  <2> QED BY <2>2, <2>4, <2>6, <2>8, <2>9 DEF WritesRecord
<1> QED BY <1>1, <1>2, <1>3, <1>4 DEF Next

LEMMA DeparturesNext == TypeInv /\ DeparturesOnRecord /\ [Next]_vars => DeparturesOnRecord'
<1> SUFFICES ASSUME TypeInv, DeparturesOnRecord, [Next]_vars PROVE DeparturesOnRecord'
  OBVIOUS
<1>1. CASE UNCHANGED <<records, departed>>
  BY <1>1 DEF DeparturesOnRecord
<1>2. ASSUME NEW r \in Ids, NEW row \in Record,
             records[r] = NoRecord \/ records[r].direction = "Inbound",
             records' = [records EXCEPT ![r] = row], departed' = departed \/ Departs(row)
      PROVE DeparturesOnRecord'
  <2>1. \A q \in Ids : records'[q] = IF q = r THEN row ELSE records[q]
    BY <1>2 DEF TypeInv, TypeOK
  <2>2. ASSUME NEW d \in departed
        PROVE \E q \in Ids : /\ records'[q] # NoRecord /\ records'[q].direction = "Outbound"
                             /\ records'[q].status = "Confirmed" /\ records'[q].fid = d[1]
                             /\ records'[q].target = d[2]
    <3>1. PICK q \in Ids : /\ records[q] # NoRecord /\ records[q].direction = "Outbound"
                           /\ records[q].status = "Confirmed" /\ records[q].fid = d[1]
                           /\ records[q].target = d[2]
      BY DEF DeparturesOnRecord
    <3>2. q # r BY <1>2, <3>1
    <3> QED BY <2>1, <3>1, <3>2
  <2>3. ASSUME NEW p \in Players, row.direction = "Outbound", row.status = "Confirmed",
               row.fid = p, row.target = players[p].alliance,
               NEW d, d = <<p, players[p].alliance>>
        PROVE \E q \in Ids : /\ records'[q] # NoRecord /\ records'[q].direction = "Outbound"
                             /\ records'[q].status = "Confirmed" /\ records'[q].fid = d[1]
                             /\ records'[q].target = d[2]
    <3>1. d[1] = p /\ d[2] = players[p].alliance BY <2>3
    <3>2. records'[r] = row /\ row # NoRecord BY <2>1, NoRecordIsNone
    <3> QED BY <2>3, <3>1, <3>2
  <2> QED BY <1>2, <2>2, <2>3 DEF DeparturesOnRecord, Departs
<1> QED BY <1>1, <1>2, RecordsOfStep DEF WritesRecord

\* A player who was transferred out of an alliance stays on record as a departure from it:
\* the record is written with the alliance he has in the same transaction
\* (ConfirmOutboundTransfer), and no later call of any page, however old its copy, writes
\* a record that is a departure, since a copy never shows one as a candidate.
THEOREM DeparturesStay == Spec => []DeparturesOnRecord
<1>1. Init => DeparturesOnRecord BY DEF Init, DeparturesOnRecord
<1>2. TypeInv /\ DeparturesOnRecord /\ [Next]_vars => TypeInv' /\ DeparturesOnRecord'
  BY TypesNext, DeparturesNext
<1> QED BY <1>1, <1>2, TypesInit, PTL DEF Spec
-----------------------------------------------------------------------------
\* The admins' ledger.

Current == GetTransferRecords(GetActiveTransferSeason.id)

LEMMA LedgerIsCurrent ==
  AdminsLedgerCurrent <=>
    \A u \in Admins, r \in Ids :
      at[u] = "transfers" /\ ~due[u] /\ u \notin missed /\ Current[r] # NoRecord
        => Current[r].direction = "Outbound" \/ view[u][r] = Current[r]
BY DEF AdminsLedgerCurrent, Current

\* Every admin's page that is open will be refetched, or has missed the event.
LEMMA NotifiedStaysCurrent ==
  ASSUME at' = at, \A u \in Admins : at[u] = "transfers" => due'[u] \/ u \in missed'
  PROVE AdminsLedgerCurrent'
BY DEF AdminsLedgerCurrent

LEMMA CallNotifies ==
  ASSUME NEW u, NEW page, NEW global, Call(u, page, global, TRUE)
  PROVE \A v \in Admins : at[v] = "transfers" => due'[v] \/ v \in missed'
<1>1. PICK told \in SUBSET Concerned(u, page, TRUE) :
        /\ due' = [v \in Users |-> due[v] \/ v \in told]
        /\ missed' = missed \cup ((Concerned(u, page, TRUE) \ told) \cap Admins)
  BY DEF Call
<1> QED BY <1>1 DEF Concerned, Users

\* A page vouches for its copy: it has got everything, and waits for nothing.
Vouches(u) == at[u] = "transfers" /\ ~due[u] /\ u \notin missed

\* No page is fetched, and what the server would answer loses records or gains departures.
LEMMA QuietStaysCurrent ==
  ASSUME AdminsLedgerCurrent,
         \A u \in Admins : Vouches(u)' => Vouches(u) /\ view'[u] = view[u],
         \A r \in Ids : \/ Current'[r] \in {NoRecord, Current[r]}
                        \/ Current'[r].direction = "Outbound"
  PROVE AdminsLedgerCurrent'
<1>1. ASSUME NEW u \in Admins, NEW r \in Ids, Vouches(u)', Current'[r] # NoRecord
      PROVE Current'[r].direction = "Outbound" \/ view'[u][r] = Current'[r]
  BY <1>1, LedgerIsCurrent DEF Vouches
<1> QED BY <1>1 DEF AdminsLedgerCurrent, Current, Vouches

\* The same season, the same records: the same answer.
LEMMA SameAnswer ==
  ASSUME UNCHANGED records, Open' = Open
  PROVE Current' = Current
<1>1. GetActiveTransferSeason'.id = GetActiveTransferSeason.id
  <2>1. CASE Open = {}
    BY <2>1 DEF GetActiveTransferSeason
  <2>2. CASE Open # {}
    BY <2>2 DEF GetActiveTransferSeason
  <2> QED BY <2>1, <2>2
<1> QED BY <1>1 DEF Current, GetTransferRecords

\* Some pages are told to refetch, at most; everything else stays where it is.
LEMMA DueGrows ==
  ASSUME NEW u, NEW page \in BOOLEAN, NEW global, NEW notify \in BOOLEAN,
         Call(u, page, global, notify), at' = at, view' = view
  PROVE \A v \in Admins : Vouches(v)' => Vouches(v) /\ view'[v] = view[v]
BY DEF Call, Users, Vouches

\* A season just created is the newest, and has no records yet.
LEMMA CreatedIsEmpty ==
  ASSUME TypeInv, NEW u \in Users, NEW limits \in Limits, CreateSeason(u, limits)
  PROVE \A r \in Ids : Current'[r] = NoRecord
<1>1. PICK s \in Seasons :
        /\ seasons[s].status = "none"
        /\ seasons' = [seasons EXCEPT ![s] = [status |-> "Planning", limits |-> limits]]
  BY DEF CreateSeason
<1>2. \A o \in Seasons : seasons'[o] =
        IF o = s THEN [status |-> "Planning", limits |-> limits] ELSE seasons[o]
  BY <1>1 DEF TypeInv, TypeOK
<1>3. s \in Open' /\ Open' \subseteq Seasons
  BY <1>2 DEF Open
<1>4. \A o \in Open' : o <= s
  <2> SUFFICES ASSUME NEW o \in Open', s < o PROVE FALSE
    BY <1>3, TransfersAssumption DEF Seasons
  <2>1. o \in Seasons /\ seasons[o].status # "none"
    BY <1>2 DEF Open, Seasons
  <2> QED BY <1>1, <2>1 DEF TypeInv, SeasonsExist
<1>5. GetActiveTransferSeason'.id = s
  <2> DEFINE m == CHOOSE m \in Open' : \A o \in Open' : o <= m
  <2>1. m \in Open' /\ \A o \in Open' : o <= m BY <1>3, <1>4
  <2> HIDE DEF m
  <2>2. m = s BY <1>3, <1>4, <2>1, TransfersAssumption DEF Seasons
  <2>3. Open' # {} BY <1>3
  <2> QED BY <2>2, <2>3 DEF GetActiveTransferSeason, m
<1>6. \A r \in Ids : records[r] # NoRecord => records[r].season # s
  BY <1>1 DEF TypeInv, SeasonsExist
<1>7. records' = records BY DEF CreateSeason
<1> QED BY <1>5, <1>6, <1>7 DEF Current, GetTransferRecords

LEMMA CurrentNext == TypeInv /\ AdminsLedgerCurrent /\ [Next]_vars => AdminsLedgerCurrent'
<1> SUFFICES ASSUME TypeInv, AdminsLedgerCurrent, [Next]_vars PROVE AdminsLedgerCurrent'
  OBVIOUS
<1>1. CASE RosterStep
  <2>1. at' = at BY <1>1, RosterStepTypes DEF RosterStep, TypeInv, TypeOK
  <2>2. \A u \in Admins : due[u] => due'[u] BY <1>1 DEF RosterStep, Users
  <2>3. UNCHANGED <<seasons, records, view, missed>> BY <1>1 DEF RosterStep
  <2>4. Current' = Current BY <2>3, SameAnswer DEF Open
  <2> QED BY <2>1, <2>2, <2>3, <2>4, QuietStaysCurrent DEF Vouches
<1>2. ASSUME NEW u \in Users, Navigate(u) PROVE AdminsLedgerCurrent'
  <2>1. /\ due' = [due EXCEPT ![u] = TRUE]
        /\ UNCHANGED <<seasons, records>> /\ missed' = missed \ {u}
        /\ view' = [view EXCEPT ![u] = [r \in Ids |-> NoRecord]]
        /\ at' = [at EXCEPT ![u] = IF @ = "roster" THEN "transfers" ELSE "roster"]
    BY <1>2 DEF Navigate
  <2>2. Current' = Current BY <2>1, SameAnswer DEF Open
  <2>3. \A v \in Admins : v = u => due'[v]
    BY <2>1 DEF TypeInv, TypeOK
  <2>4. \A v \in Admins : v # u => at'[v] = at[v] /\ (due'[v] = due[v]) /\ view'[v] = view[v]
    BY <2>1 DEF TypeInv, TypeOK, RosterTypeOK, Users
  <2> QED BY <2>1, <2>2, <2>3, <2>4, QuietStaysCurrent DEF Vouches
<1>3. ASSUME NEW u \in Users, FetchInitialData(u) PROVE AdminsLedgerCurrent'
  <2>1. /\ due' = [due EXCEPT ![u] = FALSE] /\ at[u] = "roster"
        /\ UNCHANGED <<at, seasons, records, view, missed>>
    BY <1>3 DEF FetchInitialData, FetchSeason, rosterVars
  <2>2. Current' = Current BY <2>1, SameAnswer DEF Open
  <2>3. \A v \in Admins : v # u => (due'[v] = due[v])
    BY <2>1 DEF TypeInv, TypeOK, Users
  <2> QED BY <2>1, <2>2, <2>3, QuietStaysCurrent DEF Vouches
<1>4. ASSUME NEW u \in Users, FetchData(u) PROVE AdminsLedgerCurrent'
  <2>1. /\ due' = [due EXCEPT ![u] = FALSE]
        /\ UNCHANGED <<at, seasons, records>>
        /\ \/ view' = [view EXCEPT ![u] = Current] /\ missed' = missed
           \/ view' = view /\ missed' = missed \cup ({u} \cap Admins)
    BY <1>4 DEF FetchData, FetchSeason, rosterVars, Current
  <2>2. Current' = Current BY <2>1, SameAnswer DEF Open
  <2>3. \A v \in Admins : v = u => view'[v] = Current \/ v \in missed'
    BY <2>1 DEF TypeInv, TypeOK
  <2>4. \A v \in Admins : v # u => (due'[v] = due[v]) /\ view'[v] = view[v]
                                 /\ (v \in missed => v \in missed')
    BY <2>1 DEF TypeInv, TypeOK, Users
  <2>5. ASSUME NEW v \in Admins, NEW r \in Ids, Vouches(v)', Current'[r] # NoRecord
        PROVE Current'[r].direction = "Outbound" \/ view'[v][r] = Current'[r]
    BY <2>1, <2>2, <2>3, <2>4, <2>5, LedgerIsCurrent DEF Vouches
  <2> QED BY <2>5 DEF AdminsLedgerCurrent, Current, Vouches
<1>5. ASSUME NEW u \in Users, ViewHistory(u) \/ LeaveHistory(u)
                               \/ \E s \in Seasons : SelectPastSeason(u, s)
      PROVE AdminsLedgerCurrent'
  <2>1. UNCHANGED <<at, seasons, records, view, due, missed>>
    BY <1>5 DEF ViewHistory, LeaveHistory, SelectPastSeason, HistoryStep, rosterVars
  <2>2. Current' = Current BY <2>1, SameAnswer DEF Open
  <2> QED BY <2>1, <2>2, QuietStaysCurrent DEF Vouches
<1>6. ASSUME NEW u \in Users, NEW r \in Ids, RecordStep(u, r) PROVE AdminsLedgerCurrent'
  <2>1. at' = at
    BY <1>6 DEF RecordStep, SetTarget, SetPower, ToggleInvite, Decline, UpdateRecord,
                ConfirmInbound
  <2>2. \E global : Call(u, TRUE, global, TRUE)
    BY <1>6 DEF RecordStep, SetTarget, SetPower, ToggleInvite, Decline, UpdateRecord,
                ConfirmInbound
  <2> QED BY <2>1, <2>2, CallNotifies, NotifiedStaysCurrent
<1>7. ASSUME NEW u \in Users, NEW l \in Limits, CreateSeason(u, l) PROVE AdminsLedgerCurrent'
  <2>1. Call(u, TRUE, FALSE, FALSE) /\ at' = at /\ view' = view
    BY <1>7 DEF CreateSeason
  <2>2. \A r \in Ids : Current'[r] = NoRecord BY <1>7, CreatedIsEmpty
  <2> QED BY <2>1, <2>2, DueGrows, QuietStaysCurrent
<1>8. ASSUME NEW u \in Users, NEW l \in Limits, EditTransferSeason(u, l)
      PROVE AdminsLedgerCurrent'
  <2>1. Call(u, TRUE, FALSE, FALSE) /\ at' = at /\ view' = view /\ records' = records
    BY <1>8 DEF EditTransferSeason
  <2>2. seasons' = [seasons EXCEPT ![season[u].id] = [@ EXCEPT !.limits = l]]
    BY <1>8 DEF EditTransferSeason
  <2>3. \A s \in Seasons : seasons'[s].status = seasons[s].status
    BY <2>2 DEF TypeInv, TypeOK
  <2>4. Open' = Open BY <2>3 DEF Open
  <2>5. Current' = Current BY <2>1, <2>4, SameAnswer
  <2> QED BY <2>1, <2>5, DueGrows, QuietStaysCurrent
<1>9. ASSUME NEW u \in Users, NEW s, UpdateSeasonStatus(u, s) PROVE AdminsLedgerCurrent'
  <2>1. Call(u, s = "Active", FALSE, TRUE) /\ at' = at
    BY <1>9 DEF UpdateSeasonStatus
  <2> QED BY <2>1, CallNotifies, NotifiedStaysCurrent
<1>10. ASSUME NEW u \in Users, NEW p \in Players, AddCandidate(u, p)
       PROVE AdminsLedgerCurrent'
  <2>1. Call(u, TRUE, FALSE, TRUE) /\ at' = at
    BY <1>10 DEF AddCandidate
  <2> QED BY <2>1, CallNotifies, NotifiedStaysCurrent
<1>11. ASSUME NEW u \in Users, NEW p \in Players, TransferOut(u, p)
       PROVE AdminsLedgerCurrent'
  <2>1. Call(u, FALSE, TRUE, FALSE) /\ at' = at /\ view' = view /\ seasons' = seasons
    BY <1>11 DEF TransferOut
  <2>2. PICK r \in Ids, row \in Record :
          /\ records' = [records EXCEPT ![r] = row] /\ row.direction = "Outbound"
    BY <1>11, TransferOutRow
  <2>3. \A q \in Ids : records'[q] = IF q = r THEN row ELSE records[q]
    BY <2>2 DEF TypeInv, TypeOK
  <2>4. GetActiveTransferSeason' = GetActiveTransferSeason
    BY <2>1 DEF GetActiveTransferSeason, Open
  <2>5. \A q \in Ids : \/ Current'[q] \in {NoRecord, Current[q]}
                       \/ Current'[q].direction = "Outbound"
    BY <2>2, <2>3, <2>4 DEF Current, GetTransferRecords
  <2> QED BY <2>1, <2>5, DueGrows, QuietStaysCurrent
<1>12. CASE UNCHANGED vars
  <2>1. UNCHANGED <<at, seasons, records, view, due, missed>>
    BY <1>12 DEF vars, rosterVars, transferVars
  <2>2. Current' = Current BY <2>1, SameAnswer DEF Open
  <2> QED BY <2>1, <2>2, QuietStaysCurrent DEF Vouches
<1>13. ASSUME NEW u \in Users, SeasonStep(u) PROVE AdminsLedgerCurrent'
  BY <1>13, <1>7, <1>8, <1>9, <1>10, <1>11 DEF SeasonStep
<1> QED
  BY <1>1, <1>2, <1>3, <1>4, <1>5, <1>6, <1>12, <1>13 DEF Next

\* An admin whose ledger got every event and answer since it was opened, and waits for
\* none, sees every candidate of the open season as he is, however the other pages' calls
\* interleave with his fetches: what the handlers announce is enough.  Each one that writes
\* a candidate or opens or closes a season announces it, and the quiet ones only add
\* departures, change parameters or open a season without records.  Events that are dropped
\* and fetches that fail are steps of the model, and such a page claims nothing.
THEOREM AdminsLedgerStaysCurrent == Spec => []AdminsLedgerCurrent
<1>1. Init => AdminsLedgerCurrent
  BY DEF Init, RosterInit, AdminsLedgerCurrent, Users
<1>2. TypeInv /\ AdminsLedgerCurrent /\ [Next]_vars => TypeInv' /\ AdminsLedgerCurrent'
  BY TypesNext, CurrentNext
<1> QED BY <1>1, <1>2, TypesInit, PTL DEF Spec
=============================================================================
