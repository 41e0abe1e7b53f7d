---------------------------- MODULE WarRoomProofs ----------------------------
(***************************************************************************)
(* Proofs about the tables behind the war room, for any numbers of admins, *)
(* players, alliances and squads: what the archive's check saw is archived *)
(* resolved; and the types of the tables and of the pages' copies of them. *)
(***************************************************************************)
EXTENDS WarRoom, TLAPS

\* SeenAreResolved needs to know of an open modal that nobody its check saw has lost his
\* mark, and that the answers still to come are about others.
ModalOK(u) ==
  \A seen \in modal[u] : \A p \in seen : map[u][p] \in Chosen /\ p \notin dropped[u]

SeenInv ==
  /\ map \in [Admins -> [Players -> Statuses]]
  /\ modal \in [Admins -> SUBSET SUBSET Players]
  /\ dropped \in [Admins -> SUBSET Players]
  /\ \A u \in Admins : ModalOK(u)
  /\ SeenAreResolved

LEMMA SeenInvInit == Init => SeenInv
BY DEF Init, SeenInv, ModalOK, SeenAreResolved, NoMap, Statuses

LEMMA SeenInvStutters ==
  SeenInv /\ UNCHANGED <<map, modal, dropped, attendance>> => SeenInv'
BY DEF SeenInv, ModalOK, SeenAreResolved

\* A page whose modal is closed may mark and deploy whom it likes.
LEMMA ClosedKeepsSeenInv ==
  ASSUME SeenInv, NEW u \in Admins, attendance' = attendance, modal'[u] = {},
         modal' \in [Admins -> SUBSET SUBSET Players],
         map' \in [Admins -> [Players -> Statuses]],
         dropped' \in [Admins -> SUBSET Players],
         \A v \in Admins \ {u} :
           map'[v] = map[v] /\ modal'[v] = modal[v] /\ dropped'[v] = dropped[v]
  PROVE SeenInv'
BY DEF SeenInv, ModalOK, SeenAreResolved

LEMMA PageStepKeepsSeenInv ==
  ASSUME SeenInv, NEW u \in Admins,
         Navigate(u) \/ RefreshGlobalData(u) \/ FetchData(u) \/ FetchSquads(u) \/ WarRoomStep(u) \/ SquadsStep(u)
  PROVE SeenInv'
<1> USE DEF SeenInv
<1>1. CASE Navigate(u)
  <2>1. NoMap \in [Players -> Statuses] BY DEF NoMap, Statuses
  <2> QED BY <1>1, <2>1, ClosedKeepsSeenInv DEF Navigate, tables
<1>2. CASE OpenArchive(u)
  <2>1. OnBoard(u) \ dropped[u] \in SUBSET Players BY DEF OnBoard
  <2>2. modal' \in [Admins -> SUBSET SUBSET Players] BY <1>2, <2>1 DEF OpenArchive
  <2>3. \A v \in Admins : ModalOK(v)' BY <1>2 DEF OpenArchive, ModalOK
  <2> QED BY <1>2, <2>2, <2>3 DEF OpenArchive, SeenAreResolved, tables
<1>3. CASE CancelArchive(u)
  BY <1>3, ClosedKeepsSeenInv DEF CancelArchive, tables
<1>4. CASE ConfirmArchive(u)
  <2>1. PICK seen \in modal[u] :
          ArchiveAndResetEvent(board[u].session, [p \in OnBoard(u) |-> map[u][p]], seen)
    BY <1>4 DEF ConfirmArchive
  <2>2. \A p \in seen : map[u][p] \in Chosen BY DEF ModalOK
  <2>3. ASSUME NEW row \in attendance', row.seen
        PROVE row.status \in Chosen
    <3>1. CASE row \in attendance BY <2>3, <3>1 DEF SeenAreResolved
    <3>2. ASSUME NEW p \in OnBoard(u),
                 row = [fid |-> p, event |-> board[u].session, status |-> map[u][p],
                        seen |-> p \in seen]
          PROVE row.status \in Chosen
      <4>1. p \in seen BY <2>3, <3>2, Zenon
      <4>2. row.status = map[u][p] BY <3>2
      <4> QED BY <2>2, <4>1, <4>2
    <3> QED BY <2>1, <3>1, <3>2 DEF ArchiveAndResetEvent
  <2>4. UNCHANGED <<map, modal, dropped>> BY <1>4 DEF ConfirmArchive
  <2> QED BY <2>3, <2>4 DEF ModalOK, SeenAreResolved
<1>5. CASE ArchiveAnswered(u)
  <2>1. NoMap \in [Players -> Statuses] BY DEF NoMap, Statuses
  <2> QED BY <1>5, <2>1, ClosedKeepsSeenInv DEF ArchiveAnswered, tables
<1>6. ASSUME NEW p \in Players, NEW a \in Fighting, Deploy(u, p, a)
      PROVE SeenInv'
  <2>1. modal[u] = {} BY <1>6 DEF Deploy, CardControls, Covered
  <2>2. /\ UNCHANGED <<map, modal, attendance>>
        /\ dropped' = [dropped EXCEPT ![u] = @ \cup {p}]
    BY <1>6 DEF Deploy, BulkAssignFightingAlliance
  <2> QED BY <2>1, <2>2, ClosedKeepsSeenInv
<1>7. ASSUME NEW p \in Players, DeployAnswered(u, p)
      PROVE SeenInv'
  <2>1. /\ p \in dropped[u] /\ UNCHANGED <<modal, attendance>>
        /\ dropped' = [dropped EXCEPT ![u] = @ \ {p}]
        /\ map' = [map EXCEPT ![u][p] = "Pending"]
    BY <1>7 DEF DeployAnswered, tables
  <2>2. map' \in [Admins -> [Players -> Statuses]] BY <2>1 DEF Statuses
  <2>3. \A v \in Admins : ModalOK(v)' BY <2>1 DEF ModalOK
  <2> QED BY <2>1, <2>2, <2>3 DEF SeenAreResolved
<1>8. ASSUME NEW ps \in SUBSET Players, NEW status \in Statuses, ~Covered(u),
             MarkAttendance(u, ps, status)
      PROVE SeenInv'
  <2>1. modal[u] = {} BY <1>8 DEF Covered
  <2>2. /\ UNCHANGED <<modal, dropped, attendance>>
        /\ map' = [map EXCEPT ![u] = [p \in Players |-> IF p \in ps THEN status ELSE @[p]]]
    BY <1>8 DEF MarkAttendance, tables
  <2>3. map' \in [Admins -> [Players -> Statuses]] BY <2>2
  <2> QED BY <2>1, <2>2, <2>3, ClosedKeepsSeenInv
<1>9. ASSUME NEW a \in Fighting, NEW status \in Chosen, BulkAttendance(u, a, status)
      PROVE SeenInv'
  BY <1>8, <1>9 DEF BulkAttendance, CardControls, Members, Statuses
<1>10. ASSUME NEW a \in Fighting, NEW p \in Players, NEW status \in Statuses \ {"unset"},
              ManualAttendance(u, a, p, status)
       PROVE SeenInv'
  <2>1. ~Covered(u) BY <1>10 DEF ManualAttendance, MemberControls
  <2> QED BY <1>8, <1>10, <2>1 DEF ManualAttendance
<1>11. CASE \/ RefreshGlobalData(u) \/ FetchData(u) \/ FetchSquads(u) \/ SquadsStep(u)
            \/ \E type \in Sessions : StartSession(u, type)
            \/ \E p \in Players : Select(u, p)
            \/ Deselect(u)
            \/ \E a \in Fighting : ToggleLock(u, a) \/ \E p \in Players : Remove(u, a, p)
  <2>1. UNCHANGED <<map, modal, dropped, attendance>>
    BY <1>11 DEF RefreshGlobalData, FetchData, FetchSquads, FetchPage, SquadsStep, Promote, PromoteCaptain, Demote,
                 DemoteCaptain, Assign, AssignToSquad, StartSession, SetWarRoomSession, Select,
                 Deselect, ToggleLock, ToggleAllianceLock, Remove, BulkAssignFightingAlliance, tables, local
  <2> QED BY <2>1, SeenInvStutters
<1>12. ASSUME NEW p \in Players, DeployFailed(u, p)
       PROVE SeenInv'
  <2>1. /\ dropped' = [dropped EXCEPT ![u] = @ \ {p}]
        /\ UNCHANGED <<map, modal, attendance>>
    BY <1>12 DEF DeployFailed, tables
  <2>2. \A v \in Admins : ModalOK(v)' BY <2>1 DEF ModalOK
  <2> QED BY <2>1, <2>2 DEF SeenAreResolved
<1> QED
  BY <1>1, <1>2, <1>3, <1>4, <1>5, <1>6, <1>7, <1>9, <1>10, <1>11, <1>12 DEF WarRoomStep

LEMMA SeenInvNext == SeenInv /\ [Next]_vars => SeenInv'
<1> SUFFICES ASSUME SeenInv, [Next]_vars PROVE SeenInv'
  OBVIOUS
<1>1. CASE \/ PromoteCaptainJoins \/ DemoteCaptainDeletes
           \/ \E p \in Players, a \in Fighting \cup {NoAlliance}, t \in {0} \cup TeamIds :
                RosterSave(p, a, t)
           \/ UNCHANGED vars
  <2>1. UNCHANGED <<map, modal, dropped, attendance>>
    BY <1>1 DEF PromoteCaptainJoins, DemoteCaptainDeletes, RosterSave, vars, tables, local
  <2> QED BY <2>1, SeenInvStutters
<1> QED BY <1>1, PageStepKeepsSeenInv DEF Next

\* Whom the check of an archive saw is archived with a mark that an admin chose, whatever
\* other pages do before the confirmation.
THEOREM SeenAreResolvedHolds == Spec => []SeenAreResolved
<1>1. Init => SeenInv BY SeenInvInit
<1>2. SeenInv /\ [Next]_vars => SeenInv' BY SeenInvNext
<1>3. SeenInv => SeenAreResolved BY DEF SeenInv
<1> QED BY <1>1, <1>2, <1>3, PTL DEF Spec
-----------------------------------------------------------------------------
\* Types: those of the tables, and those of the pages.  (SeenInv has the marks'.)  A page
\* awaits no more archives than calls were made.
TableTypes ==
  /\ housed \subseteq Players
  /\ deployed \in [Players -> Fighting \cup {NoAlliance}]
  /\ squad \in [Players -> {0} \cup TeamIds]
  /\ teams \in [TeamIds -> {"free", "there", "deleted"}]
  /\ locked \subseteq Fighting /\ session \in Sessions \cup {"none"}
  /\ attendance \subseteq [fid: Players, event: Sessions \cup {"none"}, status: Statuses,
                           seen: BOOLEAN]
  /\ promoting \subseteq TeamIds \X Players /\ disbanding \subseteq TeamIds

PageTypes ==
  /\ at \in [Admins -> {"war-room", "squads"}]
  /\ roster \in [Admins -> [deployed: [Players -> Fighting \cup {NoAlliance}],
                            squad: [Players -> {0} \cup TeamIds]]]
  /\ board \in [Admins -> Board]
  /\ modal \in [Admins -> {{}} \cup {{s} : s \in SUBSET Players}]
  /\ selected \in [Admins -> SUBSET Players]
  /\ due \in [Admins -> SUBSET {"roster", "page"}]

CallsCounted ==
  /\ calls \in 0..MaxCalls
  /\ confirmed \in [Admins -> Nat]
  /\ \A u \in Admins : confirmed[u] <= calls

TypeInv == SeenInv /\ TableTypes /\ PageTypes /\ CallsCounted

LEMMA TypeInvTypes == TypeInv => TypeOK
<1> SUFFICES ASSUME TypeInv PROVE TypeOK
  OBVIOUS
<1>1. confirmed \in [Admins -> 0..MaxCalls]
  BY WarRoomAssumption DEF TypeInv, CallsCounted
<1> QED BY <1>1 DEF TypeInv, SeenInv, TableTypes, PageTypes, CallsCounted, TypeOK

\* A bulk assignment, of one player here.
LEMMA DeployedTyped ==
  ASSUME TableTypes, NEW ps, NEW a \in Fighting \cup {NoAlliance},
         BulkAssignFightingAlliance(ps, a)
  PROVE TableTypes'
BY DEF TableTypes, BulkAssignFightingAlliance

\* The archive's rows are made of the page's own copies.
LEMMA ArchiveTyped ==
  ASSUME TypeInv, NEW u \in Admins, ConfirmArchive(u)
  PROVE TableTypes'
<1>1. PICK seen \in modal[u] :
        ArchiveAndResetEvent(board[u].session, [p \in OnBoard(u) |-> map[u][p]], seen)
  BY DEF ConfirmArchive
<1>2. board[u].session \in Sessions \cup {"none"}
  BY DEF TypeInv, PageTypes, Board
<1>3. ASSUME NEW p \in OnBoard(u)
      PROVE [fid |-> p, event |-> board[u].session, status |-> map[u][p], seen |-> p \in seen]
              \in [fid: Players, event: Sessions \cup {"none"}, status: Statuses, seen: BOOLEAN]
  <2>1. p \in Players BY DEF OnBoard
  <2>2. map[u][p] \in Statuses BY <2>1 DEF TypeInv, SeenInv
  <2>3. (p \in seen) \in BOOLEAN OBVIOUS
  <2> QED BY <1>2, <2>1, <2>2, <2>3
<1>4. attendance' \subseteq [fid: Players, event: Sessions \cup {"none"}, status: Statuses,
                             seen: BOOLEAN]
  <2>1. attendance' = attendance \cup
          {[fid |-> p, event |-> board[u].session, status |-> map[u][p], seen |-> p \in seen] :
             p \in OnBoard(u)}
    BY <1>1 DEF ArchiveAndResetEvent
  <2>2. attendance \subseteq [fid: Players, event: Sessions \cup {"none"}, status: Statuses,
                              seen: BOOLEAN]
    BY DEF TypeInv, TableTypes
  <2> QED BY <1>3, <2>1, <2>2
<1>5. /\ locked' = {} /\ session' = "none" /\ UNCHANGED <<housed, promoting, disbanding>>
      /\ deployed' = [p \in Players |-> NoAlliance] /\ squad' = [p \in Players |-> 0]
      /\ teams' = [t \in TeamIds |-> IF teams[t] = "there" THEN "deleted" ELSE teams[t]]
  BY <1>1 DEF ArchiveAndResetEvent
<1>6. teams' \in [TeamIds -> {"free", "there", "deleted"}]
  BY <1>5 DEF TypeInv, TableTypes
<1> QED BY <1>4, <1>5, <1>6 DEF TypeInv, TableTypes

LEMMA TablesKept ==
  ASSUME TypeInv, NEW u \in Admins, WarRoomStep(u) \/ SquadsStep(u)
  PROVE TableTypes'
<1>0. TableTypes BY DEF TypeInv
<1>1. CASE UNCHANGED tables
  BY <1>0, <1>1 DEF tables, TableTypes
<1>2. CASE ConfirmArchive(u)
  BY <1>2, ArchiveTyped
<1>3. ASSUME NEW type \in Sessions, StartSession(u, type) PROVE TableTypes'
  BY <1>0, <1>3 DEF StartSession, SetWarRoomSession, TableTypes
<1>4. ASSUME NEW a \in Fighting, ToggleLock(u, a) PROVE TableTypes'
  BY <1>0, <1>4 DEF ToggleLock, ToggleAllianceLock, TableTypes
<1>5. ASSUME NEW p \in Players, NEW a \in Fighting, Deploy(u, p, a) \/ Remove(u, a, p)
      PROVE TableTypes'
  BY <1>0, <1>5, DeployedTyped DEF Deploy, Remove
<1>6. ASSUME NEW a \in Fighting, NEW p \in Players, Promote(u, a, p) PROVE TableTypes'
  BY <1>0, <1>1, <1>6 DEF Promote, PromoteCaptain, TableTypes
<1>7. ASSUME NEW t \in TeamIds, Demote(u, t) PROVE TableTypes'
  BY <1>0, <1>7 DEF Demote, DemoteCaptain, TableTypes
<1>8. ASSUME NEW p \in Players, NEW t \in {0} \cup TeamIds, Assign(u, p, t)
      PROVE TableTypes'
  BY <1>0, <1>8 DEF Assign, AssignToSquad, SetTeam, TableTypes
<1>9. CASE SquadsStep(u)
  BY <1>9, <1>6, <1>7, <1>8 DEF SquadsStep
<1>10. CASE \/ OpenArchive(u) \/ CancelArchive(u) \/ ArchiveAnswered(u) \/ Deselect(u)
            \/ \E p \in Players : DeployAnswered(u, p) \/ DeployFailed(u, p) \/ Select(u, p)
            \/ \E a \in Fighting :
                 \/ \E status \in Chosen : BulkAttendance(u, a, status)
                 \/ \E p \in Players, status \in Statuses \ {"unset"} :
                      ManualAttendance(u, a, p, status)
  BY <1>1, <1>10 DEF OpenArchive, CancelArchive, ArchiveAnswered, Deselect, DeployAnswered,
                     DeployFailed, Select, BulkAttendance, ManualAttendance, MarkAttendance
<1> QED BY <1>2, <1>3, <1>4, <1>5, <1>9, <1>10 DEF WarRoomStep

\* What a call does to the pages that are told of it, and to the counts.
LEMMA CallTyped ==
  ASSUME PageTypes, NEW event, Call(event)
  PROVE due' \in [Admins -> SUBSET {"roster", "page"}]
BY DEF PageTypes, Call

LEMMA CallCounts ==
  ASSUME CallsCounted, NEW event, Call(event),
         confirmed' = confirmed \/ \E u \in Admins : confirmed' = [confirmed EXCEPT ![u] = @ + 1]
  PROVE CallsCounted'
<1>1. calls < MaxCalls /\ calls' = calls + 1 /\ calls \in 0..MaxCalls BY DEF Call, CallsCounted
<1>2. calls' \in 0..MaxCalls BY <1>1, WarRoomAssumption
<1>3. CASE confirmed' = confirmed
  BY <1>1, <1>2, <1>3 DEF CallsCounted
<1>4. ASSUME NEW u \in Admins, confirmed' = [confirmed EXCEPT ![u] = @ + 1]
      PROVE CallsCounted'
  <2>1. confirmed' \in [Admins -> Nat] BY <1>4 DEF CallsCounted
  <2>2. \A v \in Admins : confirmed'[v] <= calls'
    BY <1>1, <1>4 DEF CallsCounted
  <2> QED BY <1>2, <2>1, <2>2 DEF CallsCounted
<1> QED BY <1>3, <1>4

\* The archive's modal holds the one set of players its check saw.
LEMMA ModalTyped ==
  ASSUME PageTypes, NEW u \in Admins, NEW seen \in SUBSET Players,
         \/ modal' = [modal EXCEPT ![u] = {}]
         \/ modal' = [modal EXCEPT ![u] = {seen}]
  PROVE modal' \in [Admins -> {{}} \cup {{s} : s \in SUBSET Players}]
BY DEF PageTypes

\* The steps of an open page that make no call but change what it knows.
LEMMA NavigateTyped ==
  ASSUME TypeInv, NEW u \in Admins, Navigate(u)
  PROVE PageTypes' /\ CallsCounted'
<1>1. NoBoard \in Board BY DEF NoBoard, Board
<1>2. PageTypes BY DEF TypeInv
<1>3. at' \in [Admins -> {"war-room", "squads"}] BY <1>2 DEF PageTypes, Navigate
<1>4. board' \in [Admins -> Board] BY <1>1, <1>2 DEF PageTypes, Navigate
<1>5. modal' \in [Admins -> {{}} \cup {{s} : s \in SUBSET Players}]
  BY <1>2, ModalTyped DEF Navigate
<1>6. selected' \in [Admins -> SUBSET Players] /\ roster' = roster
  BY <1>2 DEF PageTypes, Navigate
<1>7. due' \in [Admins -> SUBSET {"roster", "page"}] BY <1>2 DEF PageTypes, Navigate
<1>8. PageTypes' BY <1>2, <1>3, <1>4, <1>5, <1>6, <1>7 DEF PageTypes
<1>9. CallsCounted'
  BY WarRoomAssumption DEF TypeInv, CallsCounted, Navigate
<1> QED BY <1>8, <1>9

LEMMA ChangedCopy ==
  ASSUME NEW D, NEW S, NEW f \in [D -> S], NEW u, NEW copy \in S
  PROVE [f EXCEPT ![u] = copy] \in [D -> S]
OBVIOUS

LEMMA RefreshTyped ==
  ASSUME TypeInv, NEW u \in Admins, RefreshGlobalData(u)
  PROVE PageTypes'
<1>1. [deployed |-> deployed, squad |-> squad] \in
        [deployed: [Players -> Fighting \cup {NoAlliance}], squad: [Players -> {0} \cup TeamIds]]
  BY DEF TypeInv, TableTypes
<1>2. PageTypes BY DEF TypeInv
<1>3. /\ roster' \in {roster, [roster EXCEPT ![u] = [deployed |-> deployed, squad |-> squad]]}
      /\ due' = [due EXCEPT ![u] = @ \ {"roster"}]
      /\ UNCHANGED <<at, board, modal, selected>>
  BY DEF RefreshGlobalData, local
<1>4. due' \in [Admins -> SUBSET {"roster", "page"}] BY <1>2, <1>3 DEF PageTypes
<1>5. roster' \in [Admins -> [deployed: [Players -> Fighting \cup {NoAlliance}],
                             squad: [Players -> {0} \cup TeamIds]]]
  <2>1. CASE roster' = roster BY <1>2, <2>1 DEF PageTypes
  <2>2. CASE roster' = [roster EXCEPT ![u] = [deployed |-> deployed, squad |-> squad]]
    BY <1>1, <1>2, <2>2, ChangedCopy DEF PageTypes
  <2> QED BY <1>3, <2>1, <2>2
<1> QED BY <1>2, <1>3, <1>4, <1>5 DEF PageTypes

LEMMA FetchTyped ==
  ASSUME TypeInv, NEW u \in Admins, FetchData(u) \/ FetchSquads(u)
  PROVE PageTypes'
<1>1. ASSUME NEW copy \in Board, FetchPage(u, copy) PROVE PageTypes'
  <2>0. PageTypes BY DEF TypeInv
  <2>1. board' \in [Admins -> Board] BY <1>1, <2>0, ChangedCopy DEF PageTypes, FetchPage
  <2>2. due' \in [Admins -> SUBSET {"roster", "page"}]
    BY <1>1, <2>0 DEF PageTypes, FetchPage
  <2>3. UNCHANGED <<at, roster, modal, selected>> BY <1>1 DEF FetchPage, local
  <2> QED BY <2>0, <2>1, <2>2, <2>3 DEF PageTypes
<1>2. [loaded |-> TRUE, session |-> session, locked |-> locked, teams |-> {}] \in Board
  BY DEF TypeInv, TableTypes, Board
<1>3. [NoBoard EXCEPT !.loaded = TRUE, !.teams = {t \in TeamIds : teams[t] = "there"}] \in Board
  BY DEF NoBoard, Board
<1> QED BY <1>1, <1>2, <1>3 DEF FetchData, FetchSquads

\* A call, and what goes with it on the caller's page.
LEMMA CallKeepsPages ==
  ASSUME PageTypes, NEW event, Call(event), UNCHANGED <<at, roster, modal>>,
         board' \in [Admins -> Board], selected' \in [Admins -> SUBSET Players]
  PROVE PageTypes'
BY CallTyped DEF PageTypes

LEMMA PagesKept ==
  ASSUME TypeInv, NEW u \in Admins, WarRoomStep(u) \/ SquadsStep(u)
  PROVE PageTypes'
<1>0. PageTypes BY DEF TypeInv
<1>1. ASSUME NEW type \in Sessions, StartSession(u, type) PROVE PageTypes'
  <2>1. board' \in [Admins -> Board] BY <1>0, <1>1 DEF StartSession, PageTypes, Board
  <2>2. Call("war-room") /\ UNCHANGED <<at, roster, modal, selected>>
    BY <1>1 DEF StartSession, local
  <2> QED BY <1>0, <2>1, <2>2, CallKeepsPages DEF PageTypes
<1>2. ASSUME NEW event, Call(event), UNCHANGED <<at, roster, board, modal>>,
             \/ selected' = selected
             \/ selected' = [selected EXCEPT ![u] = {}]
      PROVE PageTypes'
  <2>1. board' \in [Admins -> Board] /\ selected' \in [Admins -> SUBSET Players]
    BY <1>0, <1>2 DEF PageTypes
  <2> QED BY <1>0, <1>2, <2>1, CallKeepsPages
<1>3. CASE \/ ConfirmArchive(u)
           \/ \E a \in Fighting : \/ ToggleLock(u, a)
                                  \/ \E p \in Players : Deploy(u, p, a) \/ Remove(u, a, p)
  BY <1>2, <1>3 DEF ConfirmArchive, ToggleLock, Deploy, Remove, local
<1>4. CASE SquadsStep(u)
  BY <1>2, <1>4 DEF SquadsStep, Promote, Demote, Assign, local
<1>5. CASE OpenArchive(u) \/ CancelArchive(u)
  <2>1. OnBoard(u) \ dropped[u] \in SUBSET Players BY DEF OnBoard
  <2>2. modal' \in [Admins -> {{}} \cup {{s} : s \in SUBSET Players}]
    BY <1>0, <1>5, <2>1, ModalTyped DEF OpenArchive, CancelArchive
  <2> QED BY <1>0, <1>5, <2>2 DEF OpenArchive, CancelArchive, PageTypes
<1>6. CASE ArchiveAnswered(u)
  <2>1. modal' \in [Admins -> {{}} \cup {{s} : s \in SUBSET Players}]
    BY <1>0, <1>6, ModalTyped DEF ArchiveAnswered
  <2> QED BY <1>0, <1>6, <2>1 DEF ArchiveAnswered, PageTypes
<1>7. CASE \/ Deselect(u)
           \/ \E p \in Players : DeployAnswered(u, p) \/ DeployFailed(u, p) \/ Select(u, p)
  <2>1. selected' \in [Admins -> SUBSET Players]
    <3>1. PICK chosen \in SUBSET Players :
            selected' = selected \/ selected' = [selected EXCEPT ![u] = chosen]
      BY <1>7 DEF Deselect, DeployAnswered, DeployFailed, Select
    <3> QED BY <1>0, <3>1 DEF PageTypes
  <2>2. due' \in [Admins -> SUBSET {"roster", "page"}]
    BY <1>0, <1>7 DEF Deselect, DeployAnswered, DeployFailed, Select, PageTypes
  <2>3. UNCHANGED <<at, roster, board, modal>>
    BY <1>7 DEF Deselect, DeployAnswered, DeployFailed, Select
  <2> QED BY <1>0, <2>1, <2>2, <2>3 DEF PageTypes
<1>8. ASSUME NEW ps, NEW status, MarkAttendance(u, ps, status) PROVE PageTypes'
  BY <1>0, <1>8 DEF MarkAttendance, PageTypes
<1>9. CASE \E a \in Fighting :
             \/ \E status \in Chosen : BulkAttendance(u, a, status)
             \/ \E p \in Players, status \in Statuses \ {"unset"} :
                  ManualAttendance(u, a, p, status)
  BY <1>8, <1>9 DEF BulkAttendance, ManualAttendance
<1> QED BY <1>1, <1>3, <1>4, <1>5, <1>6, <1>7, <1>9 DEF WarRoomStep

\* A page that has sent an archive has made a call; its answer is awaited once.
LEMMA CountsKept ==
  ASSUME TypeInv, NEW u \in Admins, WarRoomStep(u) \/ SquadsStep(u)
  PROVE CallsCounted'
<1>0. CallsCounted BY DEF TypeInv
<1>1. CASE UNCHANGED <<confirmed, calls>>
  BY <1>0, <1>1 DEF CallsCounted
<1>2. ASSUME NEW event, Call(event), confirmed' = confirmed PROVE CallsCounted'
  BY <1>0, <1>2, CallCounts
<1>3. CASE ConfirmArchive(u)
  <2>1. Call("war-room") /\ confirmed' = [confirmed EXCEPT ![u] = @ + 1]
    BY <1>3 DEF ConfirmArchive
  <2> QED BY <1>0, <2>1, CallCounts
<1>4. CASE ArchiveAnswered(u)
  <2>1. /\ confirmed[u] > 0 /\ calls' = calls
        /\ confirmed' = [confirmed EXCEPT ![u] = @ - 1]
    BY <1>4 DEF ArchiveAnswered
  <2> QED BY <1>0, <2>1, WarRoomAssumption DEF CallsCounted
<1>5. CASE \/ \E type \in Sessions : StartSession(u, type)
           \/ \E a \in Fighting : \/ ToggleLock(u, a)
                                  \/ \E p \in Players : Deploy(u, p, a) \/ Remove(u, a, p)
  BY <1>2, <1>5 DEF StartSession, ToggleLock, Deploy, Remove, local
<1>6. CASE SquadsStep(u)
  BY <1>2, <1>6 DEF SquadsStep, Promote, Demote, Assign, local
<1>7. CASE \/ OpenArchive(u) \/ CancelArchive(u) \/ Deselect(u)
           \/ \E p \in Players : DeployAnswered(u, p) \/ DeployFailed(u, p) \/ Select(u, p)
           \/ \E a \in Fighting :
                \/ \E status \in Chosen : BulkAttendance(u, a, status)
                \/ \E p \in Players, status \in Statuses \ {"unset"} :
                     ManualAttendance(u, a, p, status)
  BY <1>1, <1>7 DEF OpenArchive, CancelArchive, Deselect, DeployAnswered, DeployFailed,
                    Select, BulkAttendance, ManualAttendance, MarkAttendance
<1> QED BY <1>3, <1>4, <1>5, <1>6, <1>7 DEF WarRoomStep

\* The statements that come after, and the Roster page.
LEMMA LaterStatementsTyped ==
  ASSUME TypeInv,
         \/ PromoteCaptainJoins \/ DemoteCaptainDeletes
         \/ \E p \in Players, a \in Fighting \cup {NoAlliance}, t \in {0} \cup TeamIds :
              RosterSave(p, a, t)
  PROVE TableTypes' /\ PageTypes' /\ CallsCounted'
<1>0. TableTypes /\ PageTypes /\ CallsCounted BY DEF TypeInv
<1>1. CASE PromoteCaptainJoins \/ DemoteCaptainDeletes
  <2>1. TableTypes'
    BY <1>0, <1>1 DEF PromoteCaptainJoins, DemoteCaptainDeletes, SetTeam, TableTypes
  <2>2. UNCHANGED <<at, roster, board, local, due, calls>>
    BY <1>1 DEF PromoteCaptainJoins, DemoteCaptainDeletes
  <2> QED BY <1>0, <2>1, <2>2 DEF PageTypes, CallsCounted, local
<1>2. ASSUME NEW p \in Players, NEW a \in Fighting \cup {NoAlliance},
             NEW t \in {0} \cup TeamIds, RosterSave(p, a, t)
      PROVE TableTypes' /\ PageTypes' /\ CallsCounted'
  <2>1. TableTypes' BY <1>0, <1>2 DEF RosterSave, TableTypes
  <2>2. Call("roster") /\ UNCHANGED <<at, roster, board, local>> BY <1>2 DEF RosterSave
  <2>3. PageTypes' BY <1>0, <2>2, CallKeepsPages DEF PageTypes, local
  <2>4. CallsCounted' BY <1>0, <2>2, CallCounts DEF local
  <2> QED BY <2>1, <2>3, <2>4
<1> QED BY <1>1, <1>2

LEMMA TypeInvInit == Init => TypeInv
<1> SUFFICES ASSUME Init PROVE TypeInv
  OBVIOUS
<1>1. TableTypes BY DEF Init, TableTypes
<1>2. NoBoard \in Board BY DEF NoBoard, Board
<1>3. PageTypes BY <1>2 DEF Init, PageTypes
<1>4. CallsCounted BY WarRoomAssumption DEF Init, CallsCounted
<1> QED BY <1>1, <1>3, <1>4, SeenInvInit DEF TypeInv

LEMMA TypeInvNext == TypeInv /\ [Next]_vars => TypeInv'
<1> SUFFICES ASSUME TypeInv, [Next]_vars PROVE TypeInv'
  OBVIOUS
<1>0. SeenInv' BY SeenInvNext DEF TypeInv
<1>1. SUFFICES TableTypes' /\ PageTypes' /\ CallsCounted'
  BY <1>0 DEF TypeInv
<1>2. ASSUME NEW u \in Admins, Navigate(u) \/ RefreshGlobalData(u) \/ FetchData(u) \/ FetchSquads(u)
      PROVE TableTypes' /\ PageTypes' /\ CallsCounted'
  <2>1. UNCHANGED tables
    BY <1>2 DEF Navigate, RefreshGlobalData, FetchData, FetchSquads, FetchPage
  <2>2. TableTypes' BY <2>1 DEF TypeInv, TableTypes, tables
  <2>3. PageTypes' BY <1>2, NavigateTyped, RefreshTyped, FetchTyped
  <2>4. CASE UNCHANGED <<confirmed, calls>> BY <2>2, <2>3, <2>4 DEF TypeInv, CallsCounted
  <2>5. Navigate(u) \/ UNCHANGED <<confirmed, calls>>
    BY <1>2 DEF RefreshGlobalData, FetchData, FetchSquads, FetchPage, local
  <2> QED BY <2>2, <2>3, <2>4, <2>5, NavigateTyped
<1>3. ASSUME NEW u \in Admins, WarRoomStep(u) \/ SquadsStep(u)
      PROVE TableTypes' /\ PageTypes' /\ CallsCounted'
  BY <1>3, TablesKept, PagesKept, CountsKept
<1>4. CASE UNCHANGED vars
  BY <1>4 DEF TypeInv, TableTypes, PageTypes, CallsCounted, vars, tables, local
<1> QED BY <1>2, <1>3, <1>4, LaterStatementsTyped DEF Next

\* The tables and what the pages hold of them stay of their types, whatever the order of
\* the pages' calls and the statements behind them: a page's copy is a state the tables
\* could be in, and no page awaits the answers of more archives than were sent.
THEOREM WarRoomTypes == Spec => []TypeOK
<1>1. Init => TypeInv BY TypeInvInit
<1>2. TypeInv /\ [Next]_vars => TypeInv' BY TypeInvNext
<1>3. TypeInv => TypeOK BY TypeInvTypes
<1> QED BY <1>1, <1>2, <1>3, PTL DEF Spec
=============================================================================
