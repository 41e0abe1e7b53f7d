----------------------------- MODULE CronManager -----------------------------
(***************************************************************************)
(* The custom reminder scheduler: the goroutine of CronManager, woken by a *)
(* one-minute ticker, that reads the reminders that are due, posts each to *)
(* Discord and then writes its next run back from the copy it has read;    *)
(* and the dashboard's handlers that create, edit, pause and delete        *)
(* reminders meanwhile.                                                    *)
(*                                                                         *)
(* Times are minutes from now: due[c] <= 0 is next_run_time <= now, and a  *)
(* minute's passing lowers them all.                                       *)
(***************************************************************************)
EXTENDS Integers

CONSTANTS
  Crons,       \* reminders; MySQL never gives an id twice
  NoCron,
  Delays,      \* the run times a user may ask for, in minutes from now
  Steps,       \* minutes from one run of a repeated reminder to the next
  MaxAhead,    \* bound: no run lies further ahead
  MaxLag,      \* bound: a run overdue by more counts as overdue by MaxLag
  MaxCrashes,  \* bound: restarts of the server
  Faults       \* {"db"}: a query of the scheduler may fail

\* The dashboard's form refuses an interval below one (DiscordCrons); the API does not.
\* With one, a weekly rule moves on too (WeeklyNext).
ASSUME CronAssumption ==
  /\ NoCron \notin Crons
  /\ MaxAhead \in Nat /\ MaxLag \in Nat /\ MaxCrashes \in Nat
  /\ Delays \subseteq (-MaxLag)..MaxAhead
  /\ Steps \subseteq 1..MaxAhead
  /\ Faults \subseteq {"db"}

VARIABLES
  \* discord_custom_crons
  row,         \* row[c]: "absent", "live" or "deleted"
  active,      \* is_active
  once,        \* recurrence_type ONCE, or a configuration that does not parse
  due,         \* next_run_time
  \* the goroutine
  ticked,      \* the ticker's channel holds a tick
  pc, job,     \* where processPendingCustomJobs is, and with which reminder
  batch,       \* the reminders it has read and not come to
  copy,        \* copy[c]: once and due as it read them
  \* auxiliary
  sent,        \* sent[c]: posts for the run the row names, up to MaxCrashes + 2; one
               \*   that Discord refuses counts, as the code does not repeat it
  asked,       \* asked[c]: a user has set the run, the scheduler not holding c, and
  wanted,      \*   nothing has been posted since; wanted[c]: the time he set
  touched,     \* reminders that a user changed while the scheduler held them
  crashes,
  lost         \* a query of the scheduler has failed

table == <<row, active, once, due>>
loop == <<ticked, pc, job, batch, copy>>
history == <<sent, asked, wanted, touched, crashes, lost>>
vars == <<table, loop, history>>

Times == (-MaxLag)..MaxAhead

NoCopy == [once |-> TRUE, due |-> 0]

TypeOK ==
  /\ row \in [Crons -> {"absent", "live", "deleted"}]
  /\ active \in [Crons -> BOOLEAN]
  /\ once \in [Crons -> BOOLEAN]
  /\ due \in [Crons -> Times]
  /\ ticked \in BOOLEAN
  /\ pc \in {"wait", "send", "update"}
  /\ job \in Crons \cup {NoCron}
  /\ batch \subseteq Crons
  /\ copy \in [Crons -> [once: BOOLEAN, due: Times]]
  /\ sent \in [Crons -> 0..(MaxCrashes + 2)]
  /\ asked \in [Crons -> BOOLEAN]
  /\ wanted \in [Crons -> Times]
  /\ touched \subseteq Crons
  /\ crashes \in 0..MaxCrashes
  /\ lost \in BOOLEAN

Init ==
  /\ row = [c \in Crons |-> "absent"]
  /\ active = [c \in Crons |-> FALSE]
  /\ once = [c \in Crons |-> TRUE]
  /\ due = [c \in Crons |-> 0]
  /\ ticked = FALSE /\ pc = "wait" /\ job = NoCron /\ batch = {}
  /\ copy = [c \in Crons |-> NoCopy]
  /\ sent = [c \in Crons |-> 0]
  /\ asked = [c \in Crons |-> FALSE]
  /\ wanted = [c \in Crons |-> 0]
  /\ touched = {} /\ crashes = 0 /\ lost = FALSE

-----------------------------------------------------------------------------
\* Time

\* Mutation: an overdue run's lateness is not bounded.
SoonerUnbounded(t) == t - 1

Sooner(t) == IF t > -MaxLag THEN t - 1 ELSE t

\* A minute passes.  The ticker's channel keeps one tick and drops the rest.
Tick ==
  /\ ticked' = TRUE
  /\ due' = [c \in Crons |-> IF row[c] = "live" THEN Sooner(due[c]) ELSE due[c]]
  /\ copy' = [c \in Crons |->
                IF c \in batch \cup {job} THEN [copy[c] EXCEPT !.due = Sooner(@)]
                ELSE copy[c]]
  /\ wanted' = [c \in Crons |-> IF asked[c] THEN Sooner(wanted[c]) ELSE wanted[c]]
  /\ UNCHANGED <<row, active, once, pc, job, batch, sent, asked, touched, crashes, lost>>

-----------------------------------------------------------------------------
\* processPendingCustomJobs

Due(c) == row[c] = "live" /\ active[c] /\ due[c] <= 0

\* The scheduler takes up the reminders of S, or waits for the next tick.
Hold(S) ==
  /\ batch' = S
  /\ job' = NoCron
  /\ pc' = IF S = {} THEN "wait" ELSE "send"

\* Mutation: the query does not look at is_active.
ReadDueInactive ==
  /\ pc = "wait" /\ ticked
  /\ ticked' = FALSE
  /\ LET S == {c \in Crons : row[c] = "live" /\ due[c] <= 0} IN
     /\ Hold(S)
     /\ copy' = [c \in Crons |->
                   IF c \in S THEN [once |-> once[c], due |-> due[c]] ELSE NoCopy]
  /\ touched' = {}
  /\ UNCHANGED <<table, sent, asked, wanted, crashes, lost>>

\* Mutation: next_run_time = now, so a run whose tick was dropped is passed over.
ReadDueExact ==
  /\ pc = "wait" /\ ticked
  /\ ticked' = FALSE
  /\ LET S == {c \in Crons : Due(c) /\ due[c] = 0} IN
     /\ Hold(S)
     /\ copy' = [c \in Crons |->
                   IF c \in S THEN [once |-> once[c], due |-> due[c]] ELSE NoCopy]
  /\ touched' = {}
  /\ UNCHANGED <<table, sent, asked, wanted, crashes, lost>>

\* Mutation: the reminders are put out of the way of the next tick before they are posted.
ReadDueClaiming ==
  /\ pc = "wait" /\ ticked
  /\ ticked' = FALSE
  /\ LET S == {c \in Crons : Due(c)} IN
     /\ Hold(S)
     /\ copy' = [c \in Crons |->
                   IF c \in S THEN [once |-> once[c], due |-> due[c]] ELSE NoCopy]
     /\ active' = [c \in Crons |-> active[c] /\ c \notin S]
  /\ touched' = {}
  /\ UNCHANGED <<row, once, due, sent, asked, wanted, crashes, lost>>

\* GetPendingCustomCrons
ReadDue ==
  /\ pc = "wait" /\ ticked
  /\ ticked' = FALSE
  /\ LET S == {c \in Crons : Due(c)} IN
     /\ Hold(S)
     /\ copy' = [c \in Crons |->
                   IF c \in S THEN [once |-> once[c], due |-> due[c]] ELSE NoCopy]
  /\ touched' = {}
  /\ UNCHANGED <<table, sent, asked, wanted, crashes, lost>>

\* The query fails: nothing is posted before the next tick.
ReadFails ==
  /\ pc = "wait" /\ ticked /\ "db" \in Faults
  /\ ticked' = FALSE
  /\ UNCHANGED <<table, pc, job, batch, copy, history>>

\* SendCustomDiscordEmbed from the copy; an error is logged and changes nothing.
Send(c) ==
  /\ pc = "send" /\ c \in batch
  /\ job' = c /\ batch' = batch \ {c} /\ pc' = "update"
  /\ sent' = [sent EXCEPT ![c] = IF @ < MaxCrashes + 2 THEN @ + 1 ELSE @]
  /\ asked' = [asked EXCEPT ![c] = FALSE]
  /\ wanted' = [wanted EXCEPT ![c] = 0]
  /\ UNCHANGED <<table, ticked, copy, touched, crashes, lost>>

\* Mutation: a reminder that does not repeat keeps is_active.
DeactivateNot(c) == UNCHANGED <<active, due, sent>>

\* UpdateCustomCronStatus(id, false)
Deactivate(c) ==
  /\ active' = [active EXCEPT ![c] = FALSE]
  /\ UNCHANGED <<due, sent>>

\* Mutation: the UPDATE has lost its WHERE clause.
AdvanceAll(c, step) ==
  /\ due' = [k \in Crons |-> IF row[k] = "live" THEN copy[c].due + step ELSE due[k]]
  /\ sent' = [sent EXCEPT ![c] = 0]
  /\ UNCHANGED active

\* UpdateCustomCronNextRun(id, CalculateNextRun()): counted from the time in the copy,
\* whatever the row holds by now.
Advance(c, step) ==
  /\ due' = [due EXCEPT ![c] = copy[c].due + step]
  /\ sent' = [sent EXCEPT ![c] = 0]
  /\ UNCHANGED active

\* The write after the post; its error is ignored, and a row that is gone stays gone.
Reschedule ==
  /\ pc = "update"
  /\ \/ /\ row[job] = "live"
        /\ \/ copy[job].once /\ Deactivate(job)
           \/ ~copy[job].once /\ \E step \in Steps : Advance(job, step)
        /\ UNCHANGED lost
     \/ /\ row[job] # "live"
        /\ UNCHANGED <<active, due, sent, lost>>
     \/ /\ "db" \in Faults
        /\ lost' = TRUE
        /\ UNCHANGED <<active, due, sent>>
  /\ Hold(batch)
  /\ copy' = [copy EXCEPT ![job] = NoCopy]
  /\ touched' = touched \ {job}
  /\ UNCHANGED <<row, once, ticked, asked, wanted, crashes>>

-----------------------------------------------------------------------------
\* The dashboard's handlers

Held(c) == c \in batch \cup {job}

\* What a user's change of c's run time leaves in the history.
Ask(c, t) ==
  /\ sent' = [sent EXCEPT ![c] = 0]
  /\ asked' = [asked EXCEPT ![c] = ~Held(c)]
  /\ wanted' = [wanted EXCEPT ![c] = IF Held(c) THEN 0 ELSE t]

Touch(c) == touched' = IF Held(c) THEN touched \cup {c} ELSE touched

CreateCustomCron(c, isOnce, t) ==
  /\ row[c] = "absent"
  /\ row' = [row EXCEPT ![c] = "live"]
  /\ active' = [active EXCEPT ![c] = TRUE]
  /\ once' = [once EXCEPT ![c] = isOnce]
  /\ due' = [due EXCEPT ![c] = t]
  /\ Ask(c, t)
  /\ UNCHANGED <<loop, touched, crashes, lost>>

\* Every column but is_active: a reminder that is done stays done.
EditCustomCron(c, isOnce, t) ==
  /\ row[c] = "live"
  /\ once' = [once EXCEPT ![c] = isOnce]
  /\ due' = [due EXCEPT ![c] = t]
  /\ Ask(c, t)
  /\ Touch(c)
  /\ UNCHANGED <<row, active, loop, crashes, lost>>

\* is_active = NOT is_active, whatever the user saw.  Resumed, a run in the past is due.
ToggleCustomCron(c) ==
  /\ row[c] = "live"
  /\ active' = [active EXCEPT ![c] = ~@]
  /\ sent' = [sent EXCEPT ![c] = IF active[c] THEN @ ELSE 0]
  /\ Touch(c)
  /\ UNCHANGED <<row, once, due, loop, asked, wanted, crashes, lost>>

DeleteCustomCron(c) ==
  /\ row[c] = "live"
  /\ row' = [row EXCEPT ![c] = "deleted"]
  /\ asked' = [asked EXCEPT ![c] = FALSE]
  /\ wanted' = [wanted EXCEPT ![c] = 0]
  /\ Touch(c)
  /\ UNCHANGED <<active, once, due, loop, sent, crashes, lost>>

\* The process ends, in the middle of the loop or not (Stop does not wait for the loop),
\* and starts again.
CrashRestart ==
  /\ crashes < MaxCrashes
  /\ crashes' = crashes + 1
  /\ ticked' = FALSE
  /\ Hold({})
  /\ copy' = [c \in Crons |-> NoCopy]
  /\ touched' = {}
  /\ UNCHANGED <<table, sent, asked, wanted, lost>>

-----------------------------------------------------------------------------
Handler(c) ==
  \/ \E isOnce \in BOOLEAN, t \in Delays :
       CreateCustomCron(c, isOnce, t) \/ EditCustomCron(c, isOnce, t)
  \/ ToggleCustomCron(c)
  \/ DeleteCustomCron(c)

Next ==
  \/ Tick
  \/ ReadDue \/ ReadFails \/ Reschedule
  \/ \E c \in Crons : Send(c) \/ Handler(c)
  \/ CrashRestart

Spec == Init /\ [][Next]_vars

\* Time passes, the goroutine runs, a post to Discord returns in the end, and the query
\* does not fail for ever.  Users do as they like.  Nothing orders the reminders of a
\* batch, but the loop comes to each of them.
FairSpec ==
  /\ Spec
  /\ WF_vars(Tick) /\ SF_vars(ReadDue) /\ WF_vars(Reschedule)
  /\ WF_vars(\E c \in Crons : Send(c))

-----------------------------------------------------------------------------
\* One run of a reminder is posted once, and once more for each restart that fell between
\* the post and the write that follows it, unless that write failed (the order of
\* processPendingCustomJobs, and CalculateNextRun's always moving on).
PostedOncePerRun == lost \/ \A c \in Crons : sent[c] <= 1 + crashes

\* A run time set while the scheduler was not holding the reminder stays as the user set
\* it until it has been posted: no write of the scheduler, which goes by an older copy,
\* overtakes it.  (An edit in the middle of a batch has no such luck.)
EditKept == \A c \in Crons : asked[c] => due[c] = wanted[c]

\* Only what is in the table, active and due is posted, unless a user has changed it
\* since the scheduler read it.
PostsAreCurrent == [][\A c \in Crons : Send(c) => Due(c) \/ c \in touched]_vars

\* The runs the scheduler owes a post: those due in the table and, of the reminders it
\* holds, those it has not posted yet.  Who changes a reminder while it is held is not
\* promised anything of the run he sets: the write that follows goes by the old copy.
Owed(c) == IF Held(c) THEN c \in batch \ touched ELSE Due(c)

\* A run that is owed stays owed until it is posted or a user changes the reminder: neither
\* a crash in the middle of a batch, nor a failing query, nor the write for another reminder
\* makes the scheduler pass it over (the row is written after the post, and only its own).
NothingSkipped ==
  [][\A c \in Crons : Owed(c) => Owed(c)' \/ Send(c) \/ Handler(c)]_vars

\* And no run is owed for ever, even when slow posts make the ticker drop ticks and through
\* restarts: by NothingSkipped it ends with the post, or with a user's change.
DueIsPosted == \A c \in Crons : Owed(c) ~> ~Owed(c)
=============================================================================
