-------------------------- MODULE CronManagerProofs --------------------------
(***************************************************************************)
(* Proofs about the reminder scheduler, for any number of reminders, of    *)
(* restarts and any schedules: a run is posted once but for crashes, no    *)
(* write of the scheduler overtakes a user's, and what is posted is        *)
(* current; and about the weekly rule, for every choice of days and weeks. *)
(***************************************************************************)
EXTENDS CronManager, WeeklyNext, TLAPS

Shape ==
  /\ row \in [Crons -> {"absent", "live", "deleted"}]
  /\ active \in [Crons -> BOOLEAN]
  /\ due = [c \in Crons |-> due[c]]
  /\ asked \in [Crons -> BOOLEAN]
  /\ wanted = [c \in Crons |-> wanted[c]]
  /\ sent \in [Crons -> Nat]
  /\ crashes \in Nat
  /\ lost \in BOOLEAN
  /\ batch \subseteq Crons
  /\ IF pc = "update" THEN job \in Crons \ batch ELSE job = NoCron

\* EditKept needs to know that what a user has asked for is of a live reminder, and that
\* the scheduler is not about to write to it.
EditInv ==
  /\ EditKept
  /\ \A c \in Crons : asked[c] => row[c] = "live" /\ c # job

\* PostedOncePerRun needs to know that whoever is in the batch, or can come into it, has
\* not been posted since the last restart.
PostInv ==
  lost \/ \A c \in Crons :
    /\ sent[c] <= 1 + crashes
    /\ c \in batch \/ (row[c] = "live" /\ active[c] /\ c # job) => sent[c] <= crashes

CronInv == Shape /\ EditInv /\ PostInv

LEMMA CronInit == Init => CronInv
<1> SUFFICES ASSUME Init PROVE CronInv
  OBVIOUS
<1>1. Shape BY DEF Init, Shape
<1>2. EditInv BY DEF Init, EditInv, EditKept
<1>3. PostInv BY DEF Init, PostInv
<1> QED BY <1>1, <1>2, <1>3 DEF CronInv

LEMMA CronStutters ==
  CronInv /\ UNCHANGED <<row, active, due, pc, job, batch, sent, asked, wanted, crashes, lost>>
    => CronInv'
BY DEF CronInv, Shape, EditInv, EditKept, PostInv

\* A user's change of the run time of c: sent starts anew, and the scheduler is not to
\* write to c if the change counts as asked.
LEMMA AskKeepsInv ==
  ASSUME CronInv, NEW c \in Crons, NEW t, Ask(c, t),
         due' = [due EXCEPT ![c] = t], row' \in [Crons -> {"absent", "live", "deleted"}],
         row'[c] = "live", \A k \in Crons \ {c} : row'[k] = row[k],
         active' \in [Crons -> BOOLEAN], \A k \in Crons \ {c} : active'[k] = active[k],
         UNCHANGED <<pc, job, batch, crashes, lost>>
  PROVE CronInv'
<1>1. /\ sent' = [sent EXCEPT ![c] = 0]
      /\ asked' = [asked EXCEPT ![c] = ~Held(c)]
      /\ wanted' = [wanted EXCEPT ![c] = IF Held(c) THEN 0 ELSE t]
  BY DEF Ask
<1>2. Shape'
  BY <1>1 DEF CronInv, Shape, Held
<1>3. EditInv'
  BY <1>1 DEF CronInv, Shape, EditInv, EditKept, Held
<1>4. PostInv'
  <2>1. sent'[c] = 0 /\ \A k \in Crons \ {c} : sent'[k] = sent[k]
    BY <1>1 DEF CronInv, Shape
  <2> QED BY <2>1 DEF CronInv, Shape, PostInv
<1> QED BY <1>2, <1>3, <1>4 DEF CronInv

LEMMA HandlerKeepsInv ==
  ASSUME CronInv, NEW c \in Crons, Handler(c)
  PROVE CronInv'
<1>1. ASSUME NEW isOnce \in BOOLEAN, NEW t \in Delays,
             CreateCustomCron(c, isOnce, t) \/ EditCustomCron(c, isOnce, t)
      PROVE CronInv'
  <2>1. /\ Ask(c, t) /\ due' = [due EXCEPT ![c] = t]
        /\ row' = [row EXCEPT ![c] = "live"] \/ (row[c] = "live" /\ row' = row)
        /\ active' = [active EXCEPT ![c] = TRUE] \/ active' = active
        /\ UNCHANGED <<pc, job, batch, crashes, lost>>
    BY <1>1 DEF CreateCustomCron, EditCustomCron, loop
  <2>2. /\ row' \in [Crons -> {"absent", "live", "deleted"}]
        /\ row'[c] = "live" /\ \A k \in Crons \ {c} : row'[k] = row[k]
        /\ active' \in [Crons -> BOOLEAN] /\ \A k \in Crons \ {c} : active'[k] = active[k]
    BY <2>1 DEF CronInv, Shape
  <2> QED BY <2>1, <2>2, AskKeepsInv
<1>2. CASE ToggleCustomCron(c)
  <2>1. /\ active' = [active EXCEPT ![c] = ~@]
        /\ sent' = [sent EXCEPT ![c] = IF active[c] THEN @ ELSE 0]
        /\ UNCHANGED <<row, due, pc, job, batch, asked, wanted, crashes, lost>>
    BY <1>2 DEF ToggleCustomCron, loop
  <2> QED BY <2>1 DEF CronInv, Shape, EditInv, EditKept, PostInv
<1>3. CASE DeleteCustomCron(c)
  <2>1. /\ row' = [row EXCEPT ![c] = "deleted"]
        /\ asked' = [asked EXCEPT ![c] = FALSE] /\ wanted' = [wanted EXCEPT ![c] = 0]
        /\ UNCHANGED <<active, due, pc, job, batch, sent, crashes, lost>>
    BY <1>3 DEF DeleteCustomCron, loop
  <2> QED BY <2>1 DEF CronInv, Shape, EditInv, EditKept, PostInv
<1> QED BY <1>1, <1>2, <1>3 DEF Handler

\* The write after the post touches only the reminder posted, for which nothing is asked.
LEMMA RescheduleKeepsInv ==
  ASSUME CronInv, Reschedule
  PROVE CronInv'
<1>1. /\ pc = "update" /\ job \in Crons \ batch /\ Hold(batch)
      /\ UNCHANGED <<row, asked, wanted, crashes>>
  BY DEF Reschedule, CronInv, Shape
<1>2. batch' = batch /\ job' = NoCron /\ pc' # "update" /\ NoCron \notin Crons
  BY <1>1, CronAssumption DEF Hold
<1>3. CASE lost' = TRUE /\ UNCHANGED <<active, due, sent>>
  BY <1>1, <1>2, <1>3 DEF CronInv, Shape, EditInv, EditKept, PostInv
<1>4. CASE row[job] # "live" /\ UNCHANGED <<active, due, sent, lost>>
  BY <1>1, <1>2, <1>4 DEF CronInv, Shape, EditInv, EditKept, PostInv
<1>5. CASE Deactivate(job) /\ lost' = lost
  <2>1. active' = [active EXCEPT ![job] = FALSE] /\ UNCHANGED <<due, sent, lost>>
    BY <1>5 DEF Deactivate
  <2> QED BY <1>1, <1>2, <2>1 DEF CronInv, Shape, EditInv, EditKept, PostInv
<1>6. ASSUME NEW step, Advance(job, step), lost' = lost
      PROVE CronInv'
  <2>1. /\ due' = [due EXCEPT ![job] = copy[job].due + step]
        /\ sent' = [sent EXCEPT ![job] = 0] /\ UNCHANGED <<active, lost>>
    BY <1>6 DEF Advance
  <2>2. Shape' BY <1>1, <1>2, <2>1 DEF CronInv, Shape
  <2>3. EditInv' BY <1>1, <1>2, <2>1 DEF CronInv, Shape, EditInv, EditKept
  <2>4. PostInv' BY <1>1, <1>2, <2>1 DEF CronInv, Shape, PostInv
  <2> QED BY <2>2, <2>3, <2>4 DEF CronInv
<1> QED BY <1>3, <1>4, <1>5, <1>6 DEF Reschedule

LEMMA CronNext == CronInv /\ [Next]_vars => CronInv'
<1> SUFFICES ASSUME CronInv, [Next]_vars PROVE CronInv'
  OBVIOUS
<1>1. CASE Tick
  <2>1. /\ due' = [c \in Crons |-> IF row[c] = "live" THEN Sooner(due[c]) ELSE due[c]]
        /\ wanted' = [c \in Crons |-> IF asked[c] THEN Sooner(wanted[c]) ELSE wanted[c]]
        /\ UNCHANGED <<row, active, pc, job, batch, sent, asked, crashes, lost>>
    BY <1>1 DEF Tick
  <2> QED BY <2>1 DEF CronInv, Shape, EditInv, EditKept, PostInv
<1>2. CASE ReadDue
  <2>1. /\ pc = "wait" /\ Hold({c \in Crons : Due(c)})
        /\ UNCHANGED <<row, active, due, sent, asked, wanted, crashes, lost>>
    BY <1>2 DEF ReadDue, table
  <2>2. batch' = {c \in Crons : Due(c)} /\ job' = NoCron /\ pc' # "update" /\ job = NoCron
    BY <2>1 DEF Hold, CronInv, Shape
  <2>3. \A c \in batch' : row[c] = "live" /\ active[c] /\ c # job
    BY <2>2, CronAssumption DEF Due
  <2> QED BY <2>1, <2>2, <2>3 DEF CronInv, Shape, EditInv, EditKept, PostInv
<1>3. CASE ReadFails
  BY <1>3, CronStutters DEF ReadFails, table, history
<1>4. CASE Reschedule
  BY <1>4, RescheduleKeepsInv
<1>5. ASSUME NEW c \in Crons, Send(c) PROVE CronInv'
  <2>1. /\ c \in batch /\ job' = c /\ batch' = batch \ {c} /\ pc' = "update" /\ job = NoCron
        /\ sent' = [sent EXCEPT ![c] = IF @ < MaxCrashes + 2 THEN @ + 1 ELSE @]
        /\ asked' = [asked EXCEPT ![c] = FALSE] /\ wanted' = [wanted EXCEPT ![c] = 0]
        /\ UNCHANGED <<row, active, due, crashes, lost>>
    BY <1>5 DEF Send, table, CronInv, Shape
  <2>2. Shape' BY <2>1 DEF CronInv, Shape
  <2>3. EditInv' BY <2>1, CronAssumption DEF CronInv, Shape, EditInv, EditKept
  <2>4. PostInv'
    <3>1. sent'[c] <= sent[c] + 1 /\ \A k \in Crons \ {c} : sent'[k] = sent[k]
      BY <2>1 DEF CronInv, Shape
    <3>2. sent'[c] \in Nat BY <2>2 DEF Shape
    <3> QED BY <2>1, <3>1, <3>2, CronAssumption DEF CronInv, Shape, PostInv
  <2> QED BY <2>2, <2>3, <2>4 DEF CronInv
<1>6. CASE CrashRestart
  <2>1. /\ crashes' = crashes + 1 /\ batch' = {} /\ job' = NoCron /\ pc' = "wait"
        /\ UNCHANGED <<row, active, due, sent, asked, wanted, lost>>
    BY <1>6 DEF CrashRestart, Hold, table
  <2> QED BY <2>1, CronAssumption DEF CronInv, Shape, EditInv, EditKept, PostInv
<1>7. CASE UNCHANGED vars
  BY <1>7, CronStutters DEF vars, table, loop, history
<1> QED BY <1>1, <1>2, <1>3, <1>4, <1>5, <1>6, <1>7, HandlerKeepsInv DEF Next

LEMMA CronHolds == Spec => []CronInv
BY CronInit, CronNext, PTL DEF Spec

\* A run is posted once, and once more at most for each restart in mid-batch, unless the
\* write after the post has failed, for any number of restarts and whatever users edit,
\* pause, resume or delete in the middle of a batch.
THEOREM PostedOncePerRunHolds == Spec => []PostedOncePerRun
<1>1. CronInv => PostedOncePerRun BY DEF CronInv, PostInv, PostedOncePerRun
<1> QED BY CronHolds, <1>1, PTL

\* A run time that a user sets while the scheduler does not hold the reminder is the one
\* it is posted at: UpdateCustomCronNextRun, which goes by an older copy, comes no later.
THEOREM EditKeptHolds == Spec => []EditKept
<1>1. CronInv => EditKept BY DEF CronInv, EditInv
<1> QED BY CronHolds, <1>1, PTL

-----------------------------------------------------------------------------
\* Types and currency

\* What the scheduler holds was due when it read it, and time only lowers it: so the next
\* run, counted from the copy, stays within the bounds.
HeldDue == \A c \in Crons : Held(c) => copy[c].due <= 0

TypeInv == TypeOK /\ HeldDue

\* What is still to be posted is due, or a user has touched it since.
BatchInv == \A c \in batch : Due(c) \/ c \in touched

LEMMA SoonerIsSooner ==
  ASSUME NEW t \in Times
  PROVE  Sooner(t) \in Times /\ Sooner(t) <= t
BY CronAssumption DEF Times, Sooner

LEMMA CopyBecomes ==
  ASSUME NEW r \in [once: BOOLEAN, due: Times], NEW t \in Times
  PROVE  /\ [r EXCEPT !.due = t] \in [once: BOOLEAN, due: Times]
         /\ [r EXCEPT !.due = t].due = t
OBVIOUS

\* A handler's step keeps the types, and the copies.
LEMMA HandlerKeepsTypes ==
  ASSUME TypeInv, NEW c \in Crons, Handler(c)
  PROVE  TypeInv'
<1>1. Delays \subseteq Times /\ 0 \in Times
  BY CronAssumption DEF Times
<1>2. ASSUME NEW t \in Times, Ask(c, t)
      PROVE  /\ sent' \in [Crons -> 0..(MaxCrashes + 2)]
             /\ asked' \in [Crons -> BOOLEAN]
             /\ wanted' \in [Crons -> Times]
  BY <1>1, <1>2, CronAssumption DEF Ask, TypeInv, TypeOK, Held
<1>3. Touch(c) => touched' \subseteq Crons
  BY DEF Touch, TypeInv, TypeOK
<1>4. ASSUME UNCHANGED <<batch, job, copy>>, TypeOK'
      PROVE  TypeInv'
  BY <1>4 DEF TypeInv, HeldDue, Held
<1>5. ASSUME NEW isOnce \in BOOLEAN, NEW t \in Delays,
             CreateCustomCron(c, isOnce, t) \/ EditCustomCron(c, isOnce, t)
      PROVE  TypeInv'
  <2>1. TypeOK'
    BY <1>1, <1>2, <1>3, <1>5 DEF CreateCustomCron, EditCustomCron, loop, TypeInv, TypeOK
  <2> QED
    BY <1>4, <1>5, <2>1 DEF CreateCustomCron, EditCustomCron, loop
<1>6. CASE ToggleCustomCron(c)
  <2>1. TypeOK'
    BY <1>3, <1>6, CronAssumption DEF ToggleCustomCron, loop, TypeInv, TypeOK
  <2> QED BY <1>4, <1>6, <2>1 DEF ToggleCustomCron, loop
<1>7. CASE DeleteCustomCron(c)
  <2>1. TypeOK'
    BY <1>1, <1>3, <1>7 DEF DeleteCustomCron, loop, TypeInv, TypeOK
  <2> QED BY <1>4, <1>7, <2>1 DEF DeleteCustomCron, loop
<1> QED BY <1>5, <1>6, <1>7 DEF Handler

LEMMA TypesNext == CronInv /\ TypeInv /\ [Next]_vars => TypeInv'
<1> SUFFICES ASSUME CronInv, TypeInv, [Next]_vars PROVE TypeInv'
  OBVIOUS
<1>1. NoCron \notin Crons /\ 0 \in Times /\ MaxCrashes \in Nat
  BY CronAssumption DEF Times
<1>2. CASE Tick
  <2>1. due' \in [Crons -> Times] /\ wanted' \in [Crons -> Times]
    BY <1>2, SoonerIsSooner DEF Tick, TypeInv, TypeOK
  <2>2. \A k \in Crons : copy'[k] = IF Held(k) THEN [copy[k] EXCEPT !.due = Sooner(@)] ELSE copy[k]
    BY <1>2 DEF Tick, Held
  <2>3. ASSUME NEW k \in Crons
        PROVE  /\ copy'[k] \in [once: BOOLEAN, due: Times]
               /\ copy'[k].due <= copy[k].due
    <3>1. copy[k] \in [once: BOOLEAN, due: Times]
      BY DEF TypeInv, TypeOK
    <3>2. copy[k].due \in Times /\ copy[k].due \in Int
      BY <3>1 DEF Times
    <3>3. CASE Held(k)
      <4>1. copy'[k] = [copy[k] EXCEPT !.due = Sooner(@)]
        BY <2>2, <3>3
      <4>2. Sooner(copy[k].due) \in Times /\ Sooner(copy[k].due) <= copy[k].due
        BY <3>2, SoonerIsSooner
      <4>3. /\ copy'[k] \in [once: BOOLEAN, due: Times]
            /\ copy'[k].due = Sooner(copy[k].due)
        <5>1. copy'[k] = [copy[k] EXCEPT !.due = Sooner(copy[k].due)]
          BY <4>1
        <5> QED BY <3>1, <4>2, <5>1, CopyBecomes
      <4> QED BY <4>2, <4>3
    <3>4. CASE ~Held(k)
      <4>1. copy'[k] = copy[k]
        BY <2>2, <3>4
      <4> QED BY <3>1, <3>2, <4>1
    <3> QED BY <3>3, <3>4
  <2>4. copy' \in [Crons -> [once: BOOLEAN, due: Times]]
    BY <1>2, <2>3 DEF Tick
  <2>5. UNCHANGED <<row, active, once, pc, job, batch, sent, asked, touched, crashes, lost>> /\ ticked'
    BY <1>2 DEF Tick
  <2>6. TypeOK'
    BY <2>1, <2>4, <2>5 DEF TypeInv, TypeOK
  <2>7. \A k \in Crons : copy[k].due \in Int /\ copy'[k].due \in Int
    BY <2>3 DEF TypeInv, TypeOK, Times
  <2> QED
    BY <2>3, <2>5, <2>6, <2>7 DEF TypeInv, HeldDue, Held
<1>3. CASE ReadDue
  <2> DEFINE S == {c \in Crons : Due(c)}
  <2>1. /\ batch' = S /\ job' = NoCron /\ pc' \in {"wait", "send"} /\ ticked' = FALSE
        /\ copy' = [c \in Crons |-> IF c \in S THEN [once |-> once[c], due |-> due[c]] ELSE NoCopy]
        /\ touched' = {} /\ UNCHANGED <<table, sent, asked, wanted, crashes, lost>>
    BY <1>3 DEF ReadDue, Hold
  <2>2. TypeOK'
    BY <1>1, <2>1 DEF TypeInv, TypeOK, NoCopy, table
  <2> QED
    BY <1>1, <2>1, <2>2 DEF TypeInv, HeldDue, Held, Due
<1>4. CASE ReadFails
  BY <1>4 DEF ReadFails, TypeInv, TypeOK, HeldDue, Held, table, history
<1>5. CASE Reschedule
  <2>1. /\ job \in Crons \ batch /\ batch' = batch /\ job' = NoCron /\ pc' \in {"wait", "send"}
        /\ copy' = [copy EXCEPT ![job] = NoCopy] /\ touched' = touched \ {job}
        /\ UNCHANGED <<row, once, ticked, asked, wanted, crashes>>
    BY <1>5 DEF Reschedule, Hold, CronInv, Shape
  <2>2. copy[job].due \in Times /\ copy[job].due <= 0
    BY <2>1 DEF TypeInv, TypeOK, HeldDue, Held
  <2>3. ASSUME NEW step \in Steps
        PROVE  copy[job].due + step \in Times
    <3>1. step \in 1..MaxAhead /\ MaxLag \in Nat /\ MaxAhead \in Nat
      BY CronAssumption
    <3> QED BY <2>2, <3>1 DEF Times
  <2>4. /\ active' \in [Crons -> BOOLEAN] /\ due' \in [Crons -> Times]
        /\ sent' \in [Crons -> 0..(MaxCrashes + 2)] /\ lost' \in BOOLEAN
    <3>1. CASE UNCHANGED <<active, due, sent>> /\ lost' \in {TRUE, lost}
      BY <3>1 DEF TypeInv, TypeOK
    <3>2. CASE Deactivate(job) /\ lost' = lost
      BY <3>2 DEF Deactivate, TypeInv, TypeOK
    <3>3. ASSUME NEW step \in Steps, Advance(job, step), lost' = lost
          PROVE  /\ active' \in [Crons -> BOOLEAN] /\ due' \in [Crons -> Times]
                 /\ sent' \in [Crons -> 0..(MaxCrashes + 2)] /\ lost' \in BOOLEAN
      <4>1. due \in [Crons -> Times] /\ copy[job].due + step \in Times
        BY <2>3 DEF TypeInv, TypeOK
      <4>2. due' \in [Crons -> Times]
        BY <3>3, <4>1 DEF Advance
      <4>3. 0 \in 0..(MaxCrashes + 2)
        BY <1>1
      <4>4. sent' \in [Crons -> 0..(MaxCrashes + 2)]
        BY <3>3, <4>3 DEF Advance, TypeInv, TypeOK
      <4> QED BY <3>3, <4>2, <4>4 DEF Advance, TypeInv, TypeOK
    <3> QED BY <1>5, <3>1, <3>2, <3>3 DEF Reschedule
  <2>5. copy' \in [Crons -> [once: BOOLEAN, due: Times]]
    BY <1>1, <2>1 DEF TypeInv, TypeOK, NoCopy
  <2>6. TypeOK'
    BY <2>1, <2>4, <2>5 DEF TypeInv, TypeOK
  <2> QED
    BY <1>1, <2>1, <2>6 DEF TypeInv, TypeOK, HeldDue, Held
<1>6. ASSUME NEW c \in Crons, Send(c) PROVE TypeInv'
  <2>1. sent' \in [Crons -> 0..(MaxCrashes + 2)]
    BY <1>1, <1>6 DEF Send, TypeInv, TypeOK
  <2>2. TypeOK'
    BY <1>1, <1>6, <2>1 DEF Send, TypeInv, TypeOK, table
  <2> QED
    BY <1>6, <2>2 DEF Send, TypeInv, HeldDue, Held
<1>7. CASE CrashRestart
  <2>1. crashes' \in 0..MaxCrashes
    BY <1>1, <1>7 DEF CrashRestart, TypeInv, TypeOK
  <2>2. TypeOK'
    BY <1>1, <1>7, <2>1 DEF CrashRestart, Hold, TypeInv, TypeOK, NoCopy, table
  <2> QED
    BY <1>1, <1>7, <2>2 DEF CrashRestart, Hold, TypeInv, HeldDue, Held
<1>8. CASE UNCHANGED vars
  BY <1>8 DEF vars, table, loop, history, TypeInv, TypeOK, HeldDue, Held
<1> QED BY <1>2, <1>3, <1>4, <1>5, <1>6, <1>7, <1>8, HandlerKeepsTypes DEF Next

LEMMA TypesInit == Init => TypeInv
<1> SUFFICES ASSUME Init PROVE TypeInv
  OBVIOUS
<1>1. NoCron \notin Crons /\ 0 \in Times /\ 0 \in 0..MaxCrashes /\ 0 \in 0..(MaxCrashes + 2)
  BY CronAssumption DEF Times
<1>2. NoCopy \in [once: BOOLEAN, due: Times]
  BY <1>1 DEF NoCopy
<1>3. TypeOK
  BY <1>1, <1>2 DEF Init, TypeOK
<1> QED BY <1>1, <1>3 DEF Init, TypeInv, HeldDue, Held

\* Every time that the table, the copies and the users name stays within the bounds: the
\* next run is counted from a copy that was due, however long ago.
THEOREM CronTypes == Spec => []TypeOK
<1>1. TypeInv => TypeOK BY DEF TypeInv
<1> QED BY <1>1, CronHolds, TypesInit, TypesNext, PTL DEF Spec

LEMMA BatchNext == CronInv /\ TypeInv /\ BatchInv /\ [Next]_vars => BatchInv'
<1> SUFFICES ASSUME CronInv, TypeInv, BatchInv, [Next]_vars, NEW c \in batch'
             PROVE  Due(c)' \/ c \in touched'
  BY DEF BatchInv
<1>0. c \in batch => c \in Crons /\ Held(c) /\ (Due(c) \/ c \in touched)
  BY DEF BatchInv, TypeInv, TypeOK, Held
<1>1. CASE Tick
  <2>1. c \in batch /\ c \in Crons /\ UNCHANGED <<row, active, touched>>
    BY <1>0, <1>1 DEF Tick
  <2>2. Due(c) => due'[c] = Sooner(due[c]) /\ due[c] \in Times
    BY <1>1, <2>1 DEF Tick, Due, TypeInv, TypeOK
  <2>3. Due(c) => due'[c] <= 0
    BY <2>2 DEF Due, Sooner, Times
  <2> QED BY <1>0, <2>1, <2>3 DEF Due
<1>2. CASE ReadDue
  BY <1>2 DEF ReadDue, Hold, table, Due
<1>3. CASE Reschedule
  <2>1. /\ job \in Crons \ batch /\ batch' = batch /\ touched' = touched \ {job}
        /\ UNCHANGED row
        /\ \A k \in Crons \ {job} : active'[k] = active[k] /\ due'[k] = due[k]
    BY <1>3 DEF Reschedule, Hold, Deactivate, Advance, CronInv, Shape
  <2> QED BY <1>0, <2>1 DEF Due
<1>4. ASSUME NEW k \in Crons, Send(k) PROVE Due(c)' \/ c \in touched'
  BY <1>0, <1>4 DEF Send, table, Due
<1>5. ASSUME NEW k \in Crons, Handler(k) PROVE Due(c)' \/ c \in touched'
  <2>1. UNCHANGED batch
    BY <1>5 DEF Handler, CreateCustomCron, EditCustomCron, ToggleCustomCron, DeleteCustomCron,
                loop
  <2>2. CASE c # k
    BY <1>0, <1>5, <2>1, <2>2
       DEF Handler, CreateCustomCron, EditCustomCron, ToggleCustomCron, DeleteCustomCron, Touch,
           Due, TypeInv, TypeOK
  <2>3. CASE c = k
    BY <1>0, <1>5, <2>1, <2>3
       DEF Handler, CreateCustomCron, EditCustomCron, ToggleCustomCron, DeleteCustomCron, Touch,
           Due
  <2> QED BY <2>2, <2>3
<1>6. CASE CrashRestart
  BY <1>6 DEF CrashRestart, Hold
<1>7. CASE ReadFails \/ UNCHANGED vars
  BY <1>0, <1>7 DEF ReadFails, vars, table, loop, history, Due
<1> QED BY <1>1, <1>2, <1>3, <1>4, <1>5, <1>6, <1>7 DEF Next

\* What is posted is in the table, active and due at that moment, or a user has changed it
\* since the batch was read: the posts before it, however slow, make nothing else stale.
THEOREM PostsAreCurrentHolds == Spec => PostsAreCurrent
<1>1. Init => BatchInv
  BY DEF Init, BatchInv
<1>2. BatchInv => [\A c \in Crons : Send(c) => Due(c) \/ c \in touched]_vars
  BY DEF BatchInv, Send
<1> QED
  BY <1>1, <1>2, CronHolds, TypesInit, TypesNext, BatchNext, PTL DEF Spec, PostsAreCurrent

LEMMA OwedStays ==
  ASSUME CronInv, TypeInv, BatchInv, [Next]_vars, NEW c \in Crons, Owed(c)
  PROVE  Owed(c)' \/ Send(c) \/ Handler(c)
<1>0. /\ Held(c) => c \in batch /\ c \notin touched /\ Due(c)
      /\ ~Held(c) => c \notin batch /\ c # job /\ Due(c)
  BY DEF Owed, Held, BatchInv
<1>1. CASE Tick
  <2>1. UNCHANGED <<row, active, job, batch, touched>>
    BY <1>1 DEF Tick
  <2>2. due'[c] = Sooner(due[c]) /\ due[c] \in Times /\ due[c] <= 0
    BY <1>0, <1>1 DEF Tick, Due, TypeInv, TypeOK
  <2>3. due'[c] <= 0
    BY <2>2 DEF Sooner, Times
  <2> QED BY <1>0, <2>1, <2>3 DEF Owed, Held, Due
<1>2. CASE ReadDue
  <2>1. /\ batch' = {k \in Crons : Due(k)} /\ touched' = {}
    BY <1>2 DEF ReadDue, Hold
  <2> QED BY <1>0, <2>1 DEF Owed, Held
<1>3. CASE Reschedule
  <2>1. /\ job \in Crons \ batch /\ batch' = batch /\ touched' = touched \ {job}
        /\ job' = NoCron /\ UNCHANGED row
        /\ \A k \in Crons \ {job} : active'[k] = active[k] /\ due'[k] = due[k]
    BY <1>3 DEF Reschedule, Hold, Deactivate, Advance, CronInv, Shape
  <2>2. c # job /\ Due(c)'
    BY <1>0, <2>1 DEF Due
  <2>3. c # job' BY <2>1, CronAssumption
  <2> QED BY <1>0, <2>1, <2>2, <2>3 DEF Owed, Held
<1>4. ASSUME NEW k \in Crons, Send(k), k # c PROVE Owed(c)'
  <2>1. /\ pc = "send" /\ job' = k /\ batch' = batch \ {k} /\ UNCHANGED <<table, touched>>
    BY <1>4 DEF Send
  <2> QED BY <1>0, <1>4, <2>1 DEF Owed, Held, Due, table
<1>5. ASSUME NEW k \in Crons, Handler(k), k # c PROVE Owed(c)'
  <2>1. UNCHANGED <<batch, job>> /\ touched' \subseteq touched \cup {k}
    BY <1>5 DEF Handler, CreateCustomCron, EditCustomCron, ToggleCustomCron, DeleteCustomCron,
                Touch, loop
  <2>2. Due(c)'
    BY <1>0, <1>5
       DEF Handler, CreateCustomCron, EditCustomCron, ToggleCustomCron, DeleteCustomCron,
           Due, TypeInv, TypeOK
  <2> QED BY <1>0, <1>5, <2>1, <2>2 DEF Owed, Held
<1>6. CASE CrashRestart
  <2>1. batch' = {} /\ job' = NoCron /\ UNCHANGED table
    BY <1>6 DEF CrashRestart, Hold
  <2> QED BY <1>0, <2>1, CronAssumption DEF Owed, Held, Due, table
<1>7. CASE ReadFails \/ UNCHANGED vars
  BY <1>7 DEF ReadFails, vars, table, loop, history, Owed, Held, Due
<1> QED BY <1>1, <1>2, <1>3, <1>4, <1>5, <1>6, <1>7 DEF Next

\* A run that is due, or held and not yet posted, is never passed over: not by a restart in
\* the middle of a batch, a failing query or the write for another reminder, for any number
\* of reminders and of restarts; it ends with its own post or a user's change.
THEOREM NothingSkippedHolds == Spec => NothingSkipped
<1>1. Init => BatchInv
  BY DEF Init, BatchInv
<1>2. CronInv /\ TypeInv /\ BatchInv /\ [Next]_vars =>
        [\A c \in Crons : Owed(c) => Owed(c)' \/ Send(c) \/ Handler(c)]_vars
  BY OwedStays
<1> QED
  BY <1>1, <1>2, CronHolds, TypesInit, TypesNext, BatchNext, PTL DEF Spec, NothingSkipped

-----------------------------------------------------------------------------
\* The weekly rule.

\* Min finds the first of some days of the week (sort.Ints and days[0]).
LEMMA FirstDay ==
  ASSUME NEW S \in SUBSET DaysOfWeek, S # {}
  PROVE Min(S) \in S /\ \A d \in S : Min(S) <= d
<1>1. S \subseteq 0..6 BY DEF DaysOfWeek
<1>2. \E least \in S : \A d \in S : least <= d
  <2>1. PICK some \in S : TRUE OBVIOUS
  <2>2. SUFFICES ASSUME \A least \in S : \E d \in S : d < least PROVE FALSE
    BY <1>1
  <2> QED BY <1>1, <2>1, <2>2
<1> QED BY <1>2 DEF Min

\* A day is its week and its weekday, and nothing else.
LEMMA WeekAndDay ==
  ASSUME NEW day \in Int
  PROVE /\ Weekday(day) \in DaysOfWeek /\ Week(day) \in Int
        /\ day = 7 * Week(day) + Weekday(day)
BY DEF Weekday, Week, DaysOfWeek

LEMMA WeekAndDayUnique ==
  ASSUME NEW week \in Int, NEW d \in DaysOfWeek
  PROVE Weekday(7 * week + d) = d /\ Week(7 * week + d) = week
BY DEF Weekday, Week, DaysOfWeek

\* The two ways the next run is found: in this week, and in the week weeks on.
LEMMA NextInThisWeek ==
  ASSUME NEW current \in Int, NEW days \in SUBSET DaysOfWeek, NEW weeks \in Nat \ {0},
         {d \in days : d > Weekday(current)} # {}
  PROVE LET next == calculateWeeklyNext(current, days, weeks) IN
          IsNextRun(current, days, weeks, next) /\ next - current \in 1..6
<1> DEFINE c == Weekday(current)
           w == Week(current)
           later == {d \in days : d > c}
           m == Min(later)
           next == calculateWeeklyNext(current, days, weeks)
<1>1. c \in DaysOfWeek /\ w \in Int /\ current = 7 * w + c BY WeekAndDay
<1>2. m \in later /\ \A d \in later : m <= d BY FirstDay
<1>3. m \in days /\ m \in DaysOfWeek /\ m > c BY <1>2
<1>4. next = 7 * w + m BY <1>1, <1>3 DEF calculateWeeklyNext, DaysOfWeek
<1>5. \A d \in days : d > c => m <= d BY <1>2
<1> HIDE DEF c, w, later, m, next
<1>6. Weekday(next) = m /\ Week(next) = w BY <1>1, <1>3, <1>4, WeekAndDayUnique
<1>7. next \in Int /\ next - current \in 1..6 BY <1>1, <1>3, <1>4 DEF DaysOfWeek
<1>8. ASSUME NEW other \in (current + 1)..(next - 1)
      PROVE ~RunsOn(current, days, weeks, other)
  <2>1. other \in Int /\ current < other /\ other < next BY <1>1, <1>7 DEF DaysOfWeek
  <2>2. /\ Weekday(other) \in DaysOfWeek /\ Week(other) \in Int
        /\ other = 7 * Week(other) + Weekday(other)
    BY <2>1, WeekAndDay
  <2>3. Week(other) = w /\ c < Weekday(other) /\ Weekday(other) < m
    BY <1>1, <1>3, <1>4, <2>1, <2>2 DEF DaysOfWeek
  <2>4. Weekday(other) \notin days BY <1>3, <1>5, <2>2, <2>3 DEF DaysOfWeek
  <2> QED BY <2>4 DEF RunsOn
<1>9. RunsOn(current, days, weeks, next)
  BY <1>1, <1>3, <1>6, <1>7 DEF RunsOn, w
<1> QED BY <1>7, <1>8, <1>9 DEF IsNextRun, next

LEMMA NextWeeksOn ==
  ASSUME NEW current \in Int, NEW days \in SUBSET DaysOfWeek, days # {}, NEW weeks \in Nat,
         {d \in days : d > Weekday(current)} = {}
  PROVE LET next == calculateWeeklyNext(current, days, weeks) IN
          /\ Weekday(next) = Min(days) /\ Week(next) = Week(current) + weeks
          /\ next \in Int /\ next - current \in (7 * weeks - 6)..(7 * weeks)
<1> DEFINE c == Weekday(current)
           w == Week(current)
           f == Min(days)
           next == calculateWeeklyNext(current, days, weeks)
<1>1. c \in DaysOfWeek /\ w \in Int /\ current = 7 * w + c BY WeekAndDay
<1>2. f \in days BY FirstDay
<1>3. f \in DaysOfWeek /\ f <= c
  <2>1. f \in DaysOfWeek /\ ~(f > c) BY <1>2
  <2> HIDE DEF f, c
  <2> QED BY <1>1, <2>1 DEF DaysOfWeek
<1>4. next = 7 * (w + weeks) + f
  BY <1>1, <1>3 DEF calculateWeeklyNext, DaysOfWeek
<1> HIDE DEF c, w, f, next
<1>5. Weekday(next) = f /\ Week(next) = w + weeks BY <1>1, <1>3, <1>4, WeekAndDayUnique
<1>6. next \in Int /\ next - current \in (7 * weeks - 6)..(7 * weeks)
  BY <1>1, <1>3, <1>4 DEF DaysOfWeek
<1> QED BY <1>5, <1>6 DEF next, w, f

\* A weekly reminder runs next on the first chosen weekday left in its week, or else on the
\* first in the week its interval names: calculateWeeklyNext's arithmetic is the rule.
THEOREM WeeklyNextIsNextRun ==
  ASSUME NEW current \in Int, NEW days \in SUBSET DaysOfWeek, days # {},
         NEW weeks \in Nat \ {0}
  PROVE IsNextRun(current, days, weeks, calculateWeeklyNext(current, days, weeks))
<1> DEFINE c == Weekday(current)
           w == Week(current)
           f == Min(days)
           next == calculateWeeklyNext(current, days, weeks)
<1>1. CASE {d \in days : d > c} # {} BY <1>1, NextInThisWeek
<1>2. CASE {d \in days : d > c} = {}
  <2>1. c \in DaysOfWeek /\ w \in Int /\ current = 7 * w + c BY WeekAndDay
  <2>2. f \in days /\ \A d \in days : f <= d BY FirstDay
  <2>3. /\ Weekday(next) = f /\ Week(next) = w + weeks
        /\ next \in Int /\ next - current \in (7 * weeks - 6)..(7 * weeks)
    BY <1>2, NextWeeksOn
  <2>4. \A d \in days : ~(d > c) BY <1>2
  <2> HIDE DEF c, w, f, next
  <2>5. next > current BY <2>1, <2>3 DEF DaysOfWeek
  <2>6. RunsOn(current, days, weeks, next)
    BY <2>1, <2>2, <2>3, <2>5 DEF RunsOn, w
  <2>7. ASSUME NEW other \in (current + 1)..(next - 1), RunsOn(current, days, weeks, other)
        PROVE FALSE
    <3>1. other \in Int /\ current < other /\ other < next BY <2>1, <2>3 DEF DaysOfWeek
    <3>2. /\ Weekday(other) \in DaysOfWeek /\ Week(other) \in Int
          /\ other = 7 * Week(other) + Weekday(other)
      BY <3>1, WeekAndDay
    <3>3. Weekday(other) \in days /\ Week(other) - w \in {0, weeks}
      BY <2>7 DEF RunsOn, w
    <3>4. f <= Weekday(other) /\ Weekday(other) <= c
      BY <2>1, <2>2, <2>4, <3>2, <3>3 DEF DaysOfWeek
    <3>5. next = 7 * (w + weeks) + f
      <4>1. next = 7 * Week(next) + Weekday(next) BY <2>3, WeekAndDay
      <4> QED BY <2>3, <4>1
    <3>6. CASE Week(other) = w BY <2>1, <3>1, <3>2, <3>4, <3>6 DEF DaysOfWeek
    <3>7. CASE Week(other) = w + weeks
      BY <2>1, <2>2, <3>1, <3>2, <3>4, <3>5, <3>7 DEF DaysOfWeek
    <3> QED BY <2>1, <3>2, <3>3, <3>6, <3>7
  <2> QED BY <2>6, <2>7 DEF IsNextRun, next
<1> QED BY <1>1, <1>2

\* A weekly rule the form lets through always moves on, by a day to the interval: what
\* CronAssumption asks of the Steps, and PostedOncePerRun rests on.
THEOREM WeeklyMovesOn ==
  ASSUME NEW current \in Int, NEW days \in SUBSET DaysOfWeek, days # {},
         NEW weeks \in Nat \ {0}
  PROVE calculateWeeklyNext(current, days, weeks) - current \in 1..(7 * weeks)
<1> DEFINE next == calculateWeeklyNext(current, days, weeks)
<1>1. CASE {d \in days : d > Weekday(current)} # {}
  <2>1. next - current \in 1..6 BY <1>1, NextInThisWeek
  <2> HIDE DEF next
  <2>2. next - current \in 1..(7 * weeks) BY <2>1
  <2> QED BY <2>2 DEF next
<1>2. CASE {d \in days : d > Weekday(current)} = {}
  <2>1. next - current \in (7 * weeks - 6)..(7 * weeks) BY <1>2, NextWeeksOn
  <2> HIDE DEF next
  <2>2. next - current \in 1..(7 * weeks) BY <2>1
  <2> QED BY <2>2 DEF next
<1> QED BY <1>1, <1>2

\* An interval of zero weeks, which the API accepts, does not: once its week has no chosen
\* day left the run stays where it is or falls back, and is due again at once.
THEOREM ZeroWeeksStandStill ==
  ASSUME NEW current \in Int, NEW days \in SUBSET DaysOfWeek, days # {},
         \A d \in days : d <= Weekday(current)
  PROVE calculateWeeklyNext(current, days, 0) <= current
<1>1. {d \in days : d > Weekday(current)} = {}
  <2>1. SUFFICES ASSUME NEW d \in days PROVE ~(d > Weekday(current))
    OBVIOUS
  <2>2. Weekday(current) \in DaysOfWeek /\ d \in DaysOfWeek /\ d <= Weekday(current)
    BY WeekAndDay
  <2> QED BY <2>2 DEF DaysOfWeek
<1> DEFINE next == calculateWeeklyNext(current, days, 0)
<1>2. next \in Int /\ next - current \in (7 * 0 - 6)..(7 * 0) BY <1>1, NextWeeksOn
<1> HIDE DEF next
<1>3. next <= current BY <1>2
<1> QED BY <1>3 DEF next
=============================================================================
