------------------------ MODULE RedeemForPlayerProofs ------------------------
(***************************************************************************)
(* Proofs about one redemption, for any players, codes, types, number of   *)
(* attempts and length of a pause: what a call reports and records follows *)
(* from what the game has done, as RedeemCall promises its caller.         *)
(***************************************************************************)
EXTENDS RedeemForPlayer, TLAPS

Pairs == Players \X Codes

\* What the game's answer says of the game and of this call, while the call looks at it.
ReplyInv ==
  call.pc = "handle" =>
    /\ call.reply \in {"SUCCESS", "USED"} => Redeemed(call.pair)
    /\ call.reply = "SAME TYPE" => SameTypeRedeemed(call.pair)
    /\ call.reply = "SUCCESS" => call.ours

\* Only an attempt that was counted leads past the first; a code that this call redeemed on
\* its first attempt was answered with success, or is about to be counted, or is hidden.
AttemptInv ==
  /\ call.pc # "idle" => call.attempt <= MaxAttempts
  /\ call.attempt > 1 => call.retried
  /\ call.ours => \/ call.attempt > 1 \/ call.hidden
                  \/ call.pc = "handle" /\ call.reply \in {"SUCCESS", "LOST", "OTHER"}
                  \/ call.pc \in {"ensure", "record"}
                  \/ call.pc = "idle" /\ call.result = "Success"
  /\ call.pc # "idle" => call.result = "none"

\* What is about to be recorded.
SuccessInv ==
  call.pc \in {"ensure", "record"} =>
    /\ Redeemed(call.pair) \/ SameTypeRedeemed(call.pair)
    /\ call.ours \/ call.retried

\* The pause is set between a block and the next look at it only, and makes up for the
\* time that is missing since the block.
PauseInv ==
  /\ isPaused => call.pc = "check" /\ quiet + pauseLeft >= PauseTicks
  /\ ~isPaused => quiet = PauseTicks \/ (call.pc = "handle" /\ Blocked)

CallInv ==
  /\ TypeOK /\ ReplyInv /\ AttemptInv /\ SuccessInv /\ PauseInv
  /\ RecordedMeansRedeemed /\ LostAnswerRecovered /\ NoGhostOutOfBlocks

LEMMA CallInit == Init => CallInv
<1> SUFFICES ASSUME Init PROVE CallInv
  OBVIOUS
<1>1. PICK pair \in Pairs : call = NewCall("idle", pair)
  BY DEF Init, Pairs
<1>2. TypeOK
  <2>1. call \in Calls
    BY <1>1, RedeemAssumption DEF NewCall, Calls, Replies, Blocks, Pairs
  <2>2. game \subseteq Players \X Codes
    BY DEF Init
  <2>3. roster \subseteq Players /\ records \subseteq roster \X Codes /\ isPaused \in BOOLEAN
    BY DEF Init
  <2>4. pauseLeft = 0 /\ quiet = PauseTicks
    BY DEF Init
  <2>5. 0 \in 0..PauseTicks /\ PauseTicks \in 0..PauseTicks
    BY RedeemAssumption
  <2> QED BY <2>1, <2>2, <2>3, <2>4, <2>5 DEF TypeOK
<1>3. ReplyInv /\ AttemptInv /\ SuccessInv /\ PauseInv
  BY <1>1, RedeemAssumption DEF Init, ReplyInv, AttemptInv, SuccessInv, PauseInv, NewCall
<1>4. RecordedMeansRedeemed /\ LostAnswerRecovered /\ NoGhostOutOfBlocks
  BY <1>1 DEF Init, RecordedMeansRedeemed, LostAnswerRecovered, NoGhostOutOfBlocks, NewCall
<1> QED BY <1>2, <1>3, <1>4 DEF CallInv

\* The game forgets nothing.
LEMMA GameGrows ==
  ASSUME game \subseteq game', NEW r
  PROVE (Redeemed(r) => Redeemed(r)') /\ (SameTypeRedeemed(r) => SameTypeRedeemed(r)')
BY DEF Redeemed, SameTypeRedeemed

\* A step that leaves the call and its pause alone, records nothing and unredeems nothing.
LEMMA WorldKeepsInv ==
  ASSUME CallInv, TypeOK', game \subseteq game', records' \subseteq records,
         UNCHANGED <<pause, call>>
  PROVE CallInv'
<1>1. ReplyInv' /\ SuccessInv' /\ RecordedMeansRedeemed'
  BY GameGrows DEF CallInv, ReplyInv, SuccessInv, RecordedMeansRedeemed, pause
<1>2. AttemptInv' /\ PauseInv' /\ LostAnswerRecovered' /\ NoGhostOutOfBlocks'
  BY DEF CallInv, AttemptInv, PauseInv, LostAnswerRecovered, NoGhostOutOfBlocks, Blocked, pause
<1> QED BY <1>1, <1>2 DEF CallInv

LEMMA SendKeepsInv ==
  ASSUME CallInv, NEW reply \in Replies, Send(reply)
  PROVE CallInv'
<1>1. PICK redeems \in BOOLEAN :
        /\ redeems => reply \in MayRedeem /\ "SUCCESS" \in Answers(call.pair)
        /\ reply = "SUCCESS" => redeems
        /\ game' = IF redeems THEN game \cup {call.pair} ELSE game
        /\ call' = [call EXCEPT !.pc = "handle", !.reply = reply, !.ours = @ \/ redeems,
                                !.hidden = @ \/ (redeems /\ reply = "WAF_BLOCK")]
  BY DEF Send
<1>2. /\ call.pc = "send" /\ reply \in Answers(call.pair)
      /\ quiet' = IF reply \in Blocks THEN 0 ELSE quiet
      /\ UNCHANGED <<db, isPaused, pauseLeft>>
  BY DEF Send
<1>3. call \in Calls /\ TypeOK BY DEF CallInv, TypeOK
<1>4. /\ call'.pc = "handle" /\ call'.reply = reply /\ call'.ours = (call.ours \/ redeems)
      /\ call'.hidden = (call.hidden \/ (redeems /\ reply = "WAF_BLOCK"))
      /\ call'.pair = call.pair /\ call'.attempt = call.attempt
      /\ call'.retried = call.retried /\ call'.result = call.result
      /\ call' \in Calls
  BY <1>1, <1>3 DEF Calls
<1>5. TypeOK'
  BY <1>1, <1>2, <1>3, <1>4, RedeemAssumption DEF TypeOK, Calls, db
<1>6. game \subseteq game' /\ (redeems => call.pair \in game')
  BY <1>1
<1>7. ReplyInv'
  <2>1. reply = "USED" => Redeemed(call.pair)
    BY <1>2 DEF Answers, Blocks
  <2>2. reply = "SAME TYPE" => SameTypeRedeemed(call.pair)
    BY <1>2 DEF Answers, Blocks
  <2>3. reply = "SUCCESS" => Redeemed(call.pair)'
    BY <1>1, <1>4, <1>6 DEF Redeemed
  <2>4. reply = "USED" => Redeemed(call.pair)'
    BY <1>4, <1>6, <2>1 DEF Redeemed
  <2>5. reply = "SAME TYPE" => SameTypeRedeemed(call.pair)'
    BY <1>4, <1>6, <2>2 DEF SameTypeRedeemed
  <2> QED BY <1>1, <1>4, <2>3, <2>4, <2>5 DEF ReplyInv
<1>8. AttemptInv' /\ SuccessInv'
  BY <1>1, <1>2, <1>4 DEF CallInv, AttemptInv, SuccessInv, MayRedeem
<1>9. PauseInv'
  BY <1>2, <1>4 DEF CallInv, PauseInv, Blocked
<1>10. RecordedMeansRedeemed'
  BY <1>2, <1>6, GameGrows DEF CallInv, RecordedMeansRedeemed, db
<1>11. LostAnswerRecovered' /\ NoGhostOutOfBlocks'
  BY <1>2, <1>4 DEF CallInv, AttemptInv, LostAnswerRecovered, NoGhostOutOfBlocks
<1> QED BY <1>5, <1>7, <1>8, <1>9, <1>10, <1>11 DEF CallInv

\* A step of the call itself, between answers: neither the game nor the tables change.
LEMMA LocalKeepsInv ==
  ASSUME CallInv, CheckPause \/ RetryBlocked \/ Retry \/ Succeed \/ Fail
  PROVE CallInv'
<1>1. call \in Calls /\ TypeOK /\ UNCHANGED <<game, db>>
  BY DEF CallInv, TypeOK, CheckPause, RetryBlocked, Retry, Succeed, Fail
<1>2. RecordedMeansRedeemed'
  BY <1>1 DEF CallInv, RecordedMeansRedeemed, Redeemed, SameTypeRedeemed, db
<1>3. CASE CheckPause
  <2>1. /\ call.pc = "check" /\ call' = [call EXCEPT !.pc = "send"]
        /\ isPaused => pauseLeft = 0
        /\ isPaused' = FALSE /\ UNCHANGED <<pauseLeft, quiet>>
    BY <1>3 DEF CheckPause
  <2>2. TypeOK' BY <1>1, <2>1 DEF TypeOK, Calls, db
  <2>3. ReplyInv' /\ AttemptInv' /\ SuccessInv'
    BY <1>1, <2>1 DEF CallInv, ReplyInv, AttemptInv, SuccessInv, Calls
  <2>4. PauseInv'
    BY <1>1, <2>1, RedeemAssumption DEF CallInv, PauseInv, TypeOK, Calls, Blocked, Blocks
  <2>5. LostAnswerRecovered' /\ NoGhostOutOfBlocks'
    BY <1>1, <2>1 DEF CallInv, LostAnswerRecovered, NoGhostOutOfBlocks, AttemptInv, Calls
  <2> QED BY <1>2, <2>2, <2>3, <2>4, <2>5 DEF CallInv
<1>4. CASE RetryBlocked
  <2>1. /\ call.pc = "handle" /\ Blocked /\ Trigger /\ call' = [call EXCEPT !.pc = "check"]
        /\ quiet' = quiet
    BY <1>4 DEF RetryBlocked
  <2>2. isPaused = FALSE /\ isPaused' = TRUE /\ pauseLeft' = PauseTicks
    BY <1>1, <2>1 DEF CallInv, PauseInv, Trigger, TypeOK
  <2>3. TypeOK' BY <1>1, <2>1, <2>2, RedeemAssumption DEF TypeOK, Calls, db
  <2>4. ReplyInv' /\ AttemptInv' /\ SuccessInv'
    BY <1>1, <2>1 DEF CallInv, ReplyInv, AttemptInv, SuccessInv, Calls, Blocked, Blocks
  <2>5. PauseInv'
    BY <1>1, <2>1, <2>2, RedeemAssumption DEF PauseInv, TypeOK, Calls
  <2>6. LostAnswerRecovered' /\ NoGhostOutOfBlocks'
    BY <1>1, <2>1 DEF CallInv, LostAnswerRecovered, NoGhostOutOfBlocks, AttemptInv, Calls
  <2> QED BY <1>2, <2>3, <2>4, <2>5, <2>6 DEF CallInv
<1>5. CASE Retry
  <2>1. /\ call.pc = "handle" /\ call.reply \in {"LOST", "OTHER"} /\ UNCHANGED pause
        /\ call' = IF call.attempt < MaxAttempts
                   THEN [call EXCEPT !.pc = "check", !.attempt = @ + 1, !.retried = TRUE]
                   ELSE [call EXCEPT !.pc = "idle", !.attempt = @ + 1, !.retried = TRUE,
                                     !.result = "Failed"]
    BY <1>5 DEF Retry
  <2>0. call.attempt \in 1..MaxAttempts
    BY <1>1, <2>1, RedeemAssumption DEF CallInv, AttemptInv, Calls
  <2>2. /\ call'.attempt = call.attempt + 1 /\ call'.retried = TRUE
        /\ call'.ours = call.ours /\ call'.pair = call.pair /\ call'.reply = call.reply
        /\ call'.hidden = call.hidden
        /\ \/ call.attempt < MaxAttempts /\ call'.pc = "check" /\ call'.result = call.result
           \/ call.attempt = MaxAttempts /\ call'.pc = "idle" /\ call'.result = "Failed"
        /\ call' \in Calls
    <3>1. call.attempt + 1 \in 1..(MaxAttempts + 1)
      BY <2>0, RedeemAssumption
    <3>2. CASE call.attempt < MaxAttempts
      <4>1. call' = [call EXCEPT !.pc = "check", !.attempt = @ + 1, !.retried = TRUE]
        BY <2>1, <3>2
      <4> QED BY <1>1, <3>1, <3>2, <4>1 DEF Calls
    <3>3. CASE call.attempt = MaxAttempts
      <4>1. call' = [call EXCEPT !.pc = "idle", !.attempt = @ + 1, !.retried = TRUE,
                                 !.result = "Failed"]
        BY <2>0, <2>1, <3>3, RedeemAssumption
      <4> QED BY <1>1, <3>1, <3>3, <4>1 DEF Calls
    <3>4. call.attempt < MaxAttempts \/ call.attempt = MaxAttempts
      BY <2>0, RedeemAssumption
    <3> QED BY <3>2, <3>3, <3>4
  <2>3. TypeOK' BY <1>1, <2>1, <2>2 DEF TypeOK, db, pause
  <2>4. ReplyInv' /\ SuccessInv'
    BY <2>2 DEF ReplyInv, SuccessInv
  <2>7. AttemptInv'
    <3>1. call.result = "none" BY <2>1 DEF CallInv, AttemptInv
    <3> QED BY <2>0, <2>2, <3>1, RedeemAssumption DEF AttemptInv
  <2>5. PauseInv'
    BY <1>1, <2>1, <2>2 DEF CallInv, PauseInv, Blocked, Blocks, pause, TypeOK
  <2>6. LostAnswerRecovered' /\ NoGhostOutOfBlocks'
    BY <1>1, <2>1, <2>2, RedeemAssumption
       DEF CallInv, LostAnswerRecovered, NoGhostOutOfBlocks, AttemptInv, Calls
  <2> QED BY <1>2, <2>3, <2>4, <2>5, <2>6, <2>7 DEF CallInv
<1>6. CASE Succeed
  <2>1. /\ call.pc = "handle" /\ IsSuccess /\ call' = [call EXCEPT !.pc = "ensure"]
        /\ UNCHANGED pause
    BY <1>6 DEF Succeed
  <2>2. TypeOK' BY <1>1, <2>1 DEF TypeOK, Calls, db, pause
  <2>3. ReplyInv' /\ AttemptInv'
    BY <1>1, <2>1 DEF CallInv, ReplyInv, AttemptInv, Calls
  <2>4. SuccessInv'
    <3>1. call'.pair = call.pair /\ call'.ours = call.ours /\ call'.retried = call.retried
      BY <1>1, <2>1 DEF Calls
    <3>2. Redeemed(call.pair) \/ SameTypeRedeemed(call.pair)
      BY <2>1 DEF CallInv, ReplyInv, IsSuccess
    <3>3. call.ours \/ call.retried
      BY <2>1 DEF CallInv, ReplyInv, AttemptInv, IsSuccess
    <3> QED BY <1>1, <3>1, <3>2, <3>3 DEF SuccessInv, Redeemed, SameTypeRedeemed
  <2>5. PauseInv'
    BY <1>1, <2>1 DEF CallInv, PauseInv, Blocked, Blocks, IsSuccess, pause, TypeOK, Calls
  <2>6. LostAnswerRecovered' /\ NoGhostOutOfBlocks'
    BY <1>1, <2>1 DEF CallInv, LostAnswerRecovered, NoGhostOutOfBlocks, AttemptInv, Calls
  <2> QED BY <1>2, <2>2, <2>3, <2>4, <2>5, <2>6 DEF CallInv
<1>7. CASE Fail
  <2>1. /\ call.pc = "handle" /\ ~IsSuccess /\ UNCHANGED pause
        /\ call.reply \in {"USED", "SAME TYPE", "RECEIVED", "TERMINAL"}
        /\ call' = [call EXCEPT !.pc = "idle", !.result = "Failed"]
    BY <1>7 DEF Fail
  <2>2. TypeOK' BY <1>1, <2>1 DEF TypeOK, Calls, db, pause
  <2>4. ~(call.attempt > 1) /\ call.ours => call.hidden
    BY <1>1, <2>1 DEF CallInv, AttemptInv
  <2>3. call.reply \in {"USED", "SAME TYPE"} /\ call.ours => call.hidden /\ call.attempt = 1
    <3>1. call.reply \in {"USED", "SAME TYPE"} => ~(call.attempt > 1)
      BY <2>1 DEF IsSuccess
    <3>2. ~(call.attempt > 1) => call.attempt = 1
      BY <1>1, RedeemAssumption DEF Calls
    <3> QED BY <2>4, <3>1, <3>2
  <2>5. ReplyInv' /\ AttemptInv' /\ SuccessInv'
    BY <1>1, <2>1, <2>4 DEF CallInv, ReplyInv, AttemptInv, SuccessInv, Calls
  <2>6. PauseInv'
    BY <1>1, <2>1 DEF CallInv, PauseInv, Blocked, Blocks, pause, TypeOK, Calls
  <2>7. LostAnswerRecovered' /\ NoGhostOutOfBlocks'
    BY <1>1, <2>1, <2>3 DEF LostAnswerRecovered, NoGhostOutOfBlocks, Calls
  <2> QED BY <1>2, <2>2, <2>5, <2>6, <2>7 DEF CallInv
<1> QED BY <1>3, <1>4, <1>5, <1>6, <1>7

\* MarkAsRedeemed's two statements.
LEMMA MarkKeepsInv ==
  ASSUME CallInv, EnsurePlayer \/ RecordRedeemed
  PROVE CallInv'
<1>1. call \in Calls /\ TypeOK /\ UNCHANGED <<game, pause>>
  BY DEF CallInv, TypeOK, EnsurePlayer, RecordRedeemed
<1>2. CASE EnsurePlayer
  <2>1. /\ call.pc = "ensure" /\ call' = [call EXCEPT !.pc = "record"]
        /\ records' = records /\ roster' \in {roster, roster \cup {call.pair[1]}}
    BY <1>2 DEF EnsurePlayer
  <2>2. TypeOK' BY <1>1, <2>1 DEF TypeOK, Calls, pause
  <2>3. ReplyInv' /\ AttemptInv' /\ SuccessInv'
    BY <1>1, <2>1
       DEF CallInv, ReplyInv, AttemptInv, SuccessInv, Calls, Redeemed, SameTypeRedeemed
  <2>4. PauseInv'
    BY <1>1, <2>1 DEF CallInv, PauseInv, Blocked, Blocks, pause, TypeOK, Calls
  <2>5. RecordedMeansRedeemed' /\ LostAnswerRecovered' /\ NoGhostOutOfBlocks'
    BY <1>1, <2>1 DEF CallInv, RecordedMeansRedeemed, LostAnswerRecovered, NoGhostOutOfBlocks,
                      AttemptInv, Calls, Redeemed, SameTypeRedeemed
  <2> QED BY <2>2, <2>3, <2>4, <2>5 DEF CallInv
<1>3. CASE RecordRedeemed
  <2>1. /\ call.pc = "record" /\ call' = [call EXCEPT !.pc = "idle", !.result = "Success"]
        /\ \/ records' = records
           \/ call.pair[1] \in roster /\ records' = records \cup {call.pair}
        /\ roster' = roster
    BY <1>3 DEF RecordRedeemed
  <2>2. TypeOK'
    <3>1. call.pair[1] \in roster => call.pair \in roster \X Codes
      BY <1>1 DEF Calls
    <3>2. records' \subseteq roster \X Codes
      BY <1>1, <2>1, <3>1 DEF TypeOK
    <3> QED BY <1>1, <2>1, <3>2 DEF TypeOK, Calls, pause
  <2>3. ReplyInv' /\ AttemptInv' /\ SuccessInv'
    BY <1>1, <2>1 DEF CallInv, ReplyInv, AttemptInv, SuccessInv, Calls
  <2>4. PauseInv'
    BY <1>1, <2>1 DEF CallInv, PauseInv, Blocked, Blocks, pause, TypeOK, Calls
  <2>5. RecordedMeansRedeemed'
    BY <1>1, <2>1 DEF CallInv, RecordedMeansRedeemed, SuccessInv, Redeemed, SameTypeRedeemed
  <2>6. LostAnswerRecovered' /\ NoGhostOutOfBlocks'
    BY <1>1, <2>1 DEF CallInv, SuccessInv, LostAnswerRecovered, NoGhostOutOfBlocks, Calls
  <2> QED BY <2>2, <2>3, <2>4, <2>5, <2>6 DEF CallInv
<1> QED BY <1>2, <1>3

\* A call begins, or the process dies in the middle of one.
LEMMA NewCallKeepsInv ==
  ASSUME CallInv, NEW pc \in {"idle", "check"}, NEW pair \in Pairs, call' = NewCall(pc, pair),
         UNCHANGED <<game, db>>,
         \/ UNCHANGED <<isPaused, pauseLeft, quiet>>
         \/ isPaused' = FALSE /\ pauseLeft' = 0 /\ quiet' = PauseTicks,
         isPaused' => pc = "check" /\ call.pc = "check", ~isPaused' => quiet' = PauseTicks
  PROVE CallInv'
<1>1. isPaused' \in BOOLEAN /\ (isPaused' => UNCHANGED <<isPaused, pauseLeft, quiet>>)
  <2>1. CASE UNCHANGED <<isPaused, pauseLeft, quiet>>
    BY <2>1 DEF CallInv, TypeOK
  <2>2. CASE isPaused' = FALSE
    BY <2>2
  <2> QED BY <2>1, <2>2
<1>7. pauseLeft' \in 0..PauseTicks /\ quiet' \in 0..PauseTicks
  BY RedeemAssumption DEF CallInv, TypeOK
<1>2. call' \in Calls
  BY RedeemAssumption DEF NewCall, Calls, Replies, Blocks, Pairs
<1>3. TypeOK'
  BY <1>1, <1>2, <1>7 DEF CallInv, TypeOK, db
<1>4. ReplyInv' /\ AttemptInv' /\ SuccessInv'
  BY RedeemAssumption DEF ReplyInv, AttemptInv, SuccessInv, NewCall
<1>5. PauseInv'
  BY <1>1 DEF CallInv, PauseInv, NewCall
<1>6. RecordedMeansRedeemed' /\ LostAnswerRecovered' /\ NoGhostOutOfBlocks'
  BY DEF CallInv, RecordedMeansRedeemed, LostAnswerRecovered, NoGhostOutOfBlocks, NewCall,
         Redeemed, SameTypeRedeemed, db
<1> QED BY <1>3, <1>4, <1>5, <1>6 DEF CallInv

LEMMA CallNext == CallInv /\ [Next]_vars => CallInv'
<1> SUFFICES ASSUME CallInv, [Next]_vars PROVE CallInv'
  OBVIOUS
<1>1. ASSUME NEW pair \in Pairs, Begin(pair) PROVE CallInv'
  <2>1. /\ call.pc = "idle" /\ call' = NewCall("check", pair) /\ UNCHANGED <<game, db, pause>>
    BY <1>1 DEF Begin
  <2>2. ~isPaused /\ quiet = PauseTicks /\ UNCHANGED <<isPaused, pauseLeft, quiet>>
    BY <2>1 DEF CallInv, PauseInv, pause
  <2> QED BY <2>1, <2>2, NewCallKeepsInv
<1>2. ASSUME NEW pair \in Pairs, ClaimInGame(pair) PROVE CallInv'
  <2>1. game' = game \cup {pair} /\ UNCHANGED <<db, pause, call>>
    BY <1>2 DEF ClaimInGame
  <2>2. TypeOK' BY <2>1 DEF CallInv, TypeOK, db, pause, Pairs
  <2> QED BY <2>1, <2>2, WorldKeepsInv DEF db
<1>3. ASSUME NEW p \in Players, DeletePlayer(p) \/ AddPlayer(p) PROVE CallInv'
  <2>1. game' = game /\ records' \subseteq records /\ UNCHANGED <<pause, call>>
    BY <1>3 DEF DeletePlayer, AddPlayer
  <2>2. TypeOK' BY <1>3, <2>1 DEF CallInv, TypeOK, DeletePlayer, AddPlayer, pause
  <2> QED BY <2>1, <2>2, WorldKeepsInv
<1>4. CASE Tick
  <2>1. /\ UNCHANGED <<game, db, isPaused, call>>
        /\ pauseLeft' = IF pauseLeft > 0 THEN pauseLeft - 1 ELSE 0
        /\ quiet' = IF quiet < PauseTicks THEN quiet + 1 ELSE quiet
    BY <1>4 DEF Tick
  <2>2. TypeOK' BY <2>1, RedeemAssumption DEF CallInv, TypeOK, db
  <2>3. PauseInv'
    BY <2>1, RedeemAssumption DEF CallInv, TypeOK, PauseInv, Blocked
  <2>4. ReplyInv' /\ AttemptInv' /\ SuccessInv'
    BY <2>1 DEF CallInv, ReplyInv, AttemptInv, SuccessInv, Redeemed, SameTypeRedeemed
  <2>5. RecordedMeansRedeemed' /\ LostAnswerRecovered' /\ NoGhostOutOfBlocks'
    BY <2>1 DEF CallInv, RecordedMeansRedeemed, LostAnswerRecovered, NoGhostOutOfBlocks,
                Redeemed, SameTypeRedeemed, db
  <2> QED BY <2>2, <2>3, <2>4, <2>5 DEF CallInv
<1>5. CASE CrashRestart
  <2>1. /\ call' = NewCall("idle", call.pair) /\ UNCHANGED <<game, db>>
        /\ isPaused' = FALSE /\ pauseLeft' = 0 /\ quiet' = PauseTicks
    BY <1>5 DEF CrashRestart
  <2>2. call.pair \in Pairs BY DEF CallInv, TypeOK, Calls, Pairs
  <2> QED BY <2>1, <2>2, NewCallKeepsInv
<1>6. CASE CallStep
  BY <1>6, SendKeepsInv, LocalKeepsInv, MarkKeepsInv DEF CallStep
<1>7. CASE UNCHANGED vars
  <2>1. game' = game /\ UNCHANGED <<db, pause, call>> BY <1>7 DEF vars
  <2>2. TypeOK' BY <2>1 DEF CallInv, TypeOK, db, pause
  <2> QED BY <2>1, <2>2, WorldKeepsInv DEF db
<1> QED BY <1>1, <1>2, <1>3, <1>4, <1>5, <1>6, <1>7 DEF Next, Pairs

LEMMA CallHolds == Spec => []CallInv
BY CallInit, CallNext, PTL DEF Spec

\* The types, the bound of the attempts and the foreign key of player_gift_codes.
THEOREM RedemptionTypes == Spec => []TypeOK
<1>1. CallInv => TypeOK BY DEF CallInv
<1> QED BY CallHolds, <1>1, PTL

\* A code this call redeemed is reported as a success although the answer was lost, for any
\* number of attempts and any mix of blocks and lost answers, unless the attempts run out,
\* the game ends the call with a message taken for a failure, or an HTML page hid the
\* redemption and no attempt was counted after it.
THEOREM LostAnswerRecoveredHolds == Spec => []LostAnswerRecovered
<1>1. CallInv => LostAnswerRecovered BY DEF CallInv
<1> QED BY CallHolds, <1>1, PTL

\* A reported success is this call's own or follows an attempt whose outcome was open.
THEOREM NoGhostOutOfBlocksHolds == Spec => []NoGhostOutOfBlocks
<1>1. CallInv => NoGhostOutOfBlocks BY DEF CallInv
<1> QED BY CallHolds, <1>1, PTL

\* What MarkAsRedeemed records, the game has redeemed, the code or another of its type,
\* whatever players claim and moderators delete in between.
THEOREM RecordedMeansRedeemedHolds == Spec => []RecordedMeansRedeemed
<1>1. CallInv => RecordedMeansRedeemed BY DEF CallInv
<1> QED BY CallHolds, <1>1, PTL

\* After each block the game is left alone for the whole pause, however long it is.
THEOREM BlockedMeansQuietHolds == Spec => []BlockedMeansQuiet
<1>1. CallInv => BlockedMeansQuiet BY DEF CallInv, PauseInv, BlockedMeansQuiet
<1> QED BY CallHolds, <1>1, PTL

-----------------------------------------------------------------------------
\* RedeemForPlayer implements RedeemCall

\* What the two modules say of a code that a player can no longer redeem.
LEMMA UsedMeans ==
  ASSUME TypeOK, NEW q \in Pairs
  PROVE Promise!Used(q) <=> Redeemed(q) \/ SameTypeRedeemed(q)
<1>1. \E p \in Players, c \in Codes : q = <<p, c>> BY DEF Pairs
<1>2. \A r \in game : \E p \in Players, c \in Codes : r = <<p, c>> BY DEF TypeOK
<1>3. Redeemed(q) => Promise!Used(q) BY DEF Redeemed, Promise!Used
<1>4. SameTypeRedeemed(q) => Promise!Used(q) BY DEF SameTypeRedeemed, Promise!Used
<1>5. ASSUME Promise!Used(q), ~Redeemed(q) PROVE SameTypeRedeemed(q)
  <2>1. PICK r \in game : r[1] = q[1] /\ TypeOf[r[2]] = TypeOf[q[2]]
    BY <1>5 DEF Promise!Used
  <2>2. r # q BY <1>5 DEF Redeemed
  <2>3. r[2] \in Codes /\ r[2] # q[2] /\ <<q[1], r[2]>> = r BY <1>1, <1>2, <2>1, <2>2
  <2> QED BY <2>1, <2>3 DEF SameTypeRedeemed
<1> QED BY <1>3, <1>4, <1>5

\* A step that a caller does not see.
LEMMA Unseen ==
  ASSUME UNCHANGED <<game, roster, records>>, call'.pair = call.pair,
         call'.result = call.result, (call'.pc # "idle") = (call.pc # "idle")
  PROVE UNCHANGED Promise!callVars
BY DEF Promise!callVars, Promise!stores

\* The steps of a call, each of one of RedeemCall's or of none.
LEMMA LocalImplements ==
  ASSUME CallInv, CheckPause \/ RetryBlocked \/ Retry \/ Succeed \/ Fail
  PROVE [Promise!CallNext]_(Promise!callVars)
<1>1. call \in Calls /\ UNCHANGED <<game, roster, records>>
  BY DEF CallInv, TypeOK, CheckPause, RetryBlocked, Retry, Succeed, Fail, db
<1>2. call.pc # "idle" BY DEF CheckPause, RetryBlocked, Retry, Succeed, Fail
<1>3. ASSUME call'.pair = call.pair, call'.pc = "idle", call'.result = "Failed"
      PROVE Promise!Fail
  BY <1>1, <1>2, <1>3 DEF Promise!Fail, Promise!stores
<1>4. CASE CheckPause \/ RetryBlocked \/ Succeed
  <2>1. call'.pair = call.pair /\ call'.result = call.result /\ call'.pc # "idle"
    BY <1>1, <1>4 DEF CheckPause, RetryBlocked, Succeed, Calls
  <2> QED BY <1>1, <1>2, <2>1, Unseen
<1>5. CASE Retry
  <2>1. CASE call.attempt < MaxAttempts
    <3>1. call' = [call EXCEPT !.pc = "check", !.attempt = @ + 1, !.retried = TRUE]
      BY <1>5, <2>1 DEF Retry
    <3>2. call'.pair = call.pair /\ call'.result = call.result /\ call'.pc # "idle"
      BY <1>1, <3>1 DEF Calls
    <3> QED BY <1>1, <1>2, <3>2, Unseen
  <2>2. CASE ~(call.attempt < MaxAttempts)
    <3>1. call' = [call EXCEPT !.pc = "idle", !.attempt = @ + 1, !.retried = TRUE,
                               !.result = "Failed"]
      BY <1>5, <2>2 DEF Retry
    <3>2. call'.pair = call.pair /\ call'.result = "Failed" /\ call'.pc = "idle"
      BY <1>1, <3>1 DEF Calls
    <3> QED BY <1>3, <3>2 DEF Promise!CallNext
  <2> QED BY <2>1, <2>2
<1>6. CASE Fail
  <2>1. call'.pair = call.pair /\ call'.result = "Failed" /\ call'.pc = "idle"
    BY <1>1, <1>6 DEF Fail, Calls
  <2> QED BY <1>3, <2>1 DEF Promise!CallNext
<1> QED BY <1>4, <1>5, <1>6

\* An attempt at the game, and MarkAsRedeemed.
LEMMA OutwardImplements ==
  ASSUME CallInv, (\E reply \in Replies : Send(reply)) \/ EnsurePlayer \/ RecordRedeemed
  PROVE [Promise!CallNext]_(Promise!callVars)
<1>1. call \in Calls /\ TypeOK /\ call.pair \in Pairs BY DEF CallInv, TypeOK, Calls, Pairs
<1>2. ASSUME NEW reply \in Replies, Send(reply) PROVE Promise!Work
  <2>1. PICK redeems \in BOOLEAN :
          /\ redeems => "SUCCESS" \in Answers(call.pair)
          /\ game' = IF redeems THEN game \cup {call.pair} ELSE game
          /\ call' = [call EXCEPT !.pc = "handle", !.reply = reply, !.ours = @ \/ redeems,
                                  !.hidden = @ \/ (redeems /\ reply = "WAF_BLOCK")]
    BY <1>2 DEF Send
  <2>2. call.pc = "send" /\ UNCHANGED <<roster, records>> BY <1>2 DEF Send, db
  <2>3. call'.pair = call.pair /\ call'.result = call.result /\ call'.pc = "handle"
    BY <1>1, <2>1 DEF Calls
  <2>4. redeems => ~Promise!Used(call.pair)
    <3>1. "SUCCESS" \in Answers(call.pair) =>
            ~Redeemed(call.pair) /\ ~SameTypeRedeemed(call.pair)
      BY DEF Answers, Blocks
    <3> QED BY <1>1, <2>1, <3>1, UsedMeans
  <2> QED BY <2>1, <2>2, <2>3, <2>4 DEF Promise!Work
<1>3. CASE EnsurePlayer
  <2>1. /\ call.pc = "ensure" /\ call' = [call EXCEPT !.pc = "record"]
        /\ roster' \in {roster, roster \cup {call.pair[1]}} /\ UNCHANGED <<game, records>>
    BY <1>3 DEF EnsurePlayer
  <2>2. call'.pair = call.pair /\ call'.result = call.result /\ call'.pc = "record"
    BY <1>1, <2>1 DEF Calls
  <2>3. Promise!Work BY <2>1, <2>2 DEF Promise!Work
  <2> QED BY <2>3 DEF Promise!CallNext
<1>4. CASE RecordRedeemed
  <2>1. /\ call.pc = "record" /\ call' = [call EXCEPT !.pc = "idle", !.result = "Success"]
        /\ \/ records' = records
           \/ call.pair[1] \in roster /\ records' = records \cup {call.pair}
        /\ UNCHANGED <<game, roster>>
    BY <1>4 DEF RecordRedeemed
  <2>2. call'.pair = call.pair /\ call'.result = "Success" /\ call'.pc = "idle"
    BY <1>1, <2>1 DEF Calls
  <2>3. Promise!Used(call.pair)
    BY <1>1, <2>1, UsedMeans DEF CallInv, SuccessInv
  <2>4. Promise!Succeed BY <2>1, <2>2, <2>3 DEF Promise!Succeed
  <2> QED BY <2>4 DEF Promise!CallNext
<1> QED BY <1>2, <1>3, <1>4 DEF Promise!CallNext

\* What goes on around a call.
LEMMA WorldImplements ==
  ASSUME CallInv,
         \/ \E q \in Pairs : Begin(q) \/ ClaimInGame(q)
         \/ \E p \in Players : DeletePlayer(p) \/ AddPlayer(p)
         \/ Tick \/ CrashRestart \/ UNCHANGED vars
  PROVE [Promise!CallNext]_(Promise!callVars)
<1>1. ASSUME NEW q \in Pairs, Begin(q) PROVE Promise!Begin(q)
  <2>1. call.pc = "idle" /\ call' = NewCall("check", q) /\ UNCHANGED <<game, roster, records>>
    BY <1>1 DEF Begin, db
  <2>2. call'.pc = "check" /\ call'.pair = q /\ call'.result = "none" BY <2>1 DEF NewCall
  <2> QED BY <2>1, <2>2 DEF Promise!Begin, Promise!stores
<1>2. ASSUME NEW q \in Pairs, ClaimInGame(q) PROVE Promise!Claim(q)
  <2>1. ~Promise!Used(q) BY <1>2, UsedMeans DEF CallInv, ClaimInGame
  <2> QED BY <1>2, <2>1 DEF Promise!Claim, ClaimInGame, db
<1>3. ASSUME NEW p \in Players, DeletePlayer(p) PROVE Promise!Leave(p)
  BY <1>3 DEF DeletePlayer, Promise!Leave
<1>4. ASSUME NEW p \in Players, AddPlayer(p) PROVE Promise!Join(p)
  BY <1>4 DEF AddPlayer, Promise!Join
<1>5. CASE CrashRestart
  <2>1. /\ call.pc # "idle" /\ call' = NewCall("idle", call.pair)
        /\ UNCHANGED <<game, roster, records>>
    BY <1>5 DEF CrashRestart, db
  <2>2. call'.pc = "idle" /\ call'.pair = call.pair /\ call'.result = "none"
    BY <2>1 DEF NewCall
  <2>3. Promise!Abort BY <2>1, <2>2 DEF Promise!Abort, Promise!stores
  <2> QED BY <2>3 DEF Promise!CallNext
<1>6. CASE Tick \/ UNCHANGED vars
  <2>1. UNCHANGED <<game, roster, records, call>> BY <1>6 DEF Tick, vars, db
  <2> QED BY <2>1, Unseen
<1> QED BY <1>1, <1>2, <1>3, <1>4, <1>5, <1>6 DEF Promise!CallNext, Pairs

\* redeemForPlayer keeps the promise of RedeemCall, for any number of attempts and any mix
\* of lost answers, blocks, deletions and crashes: it answers Success for a code that the
\* game has redeemed and for no other, records nothing else and redeems nothing else, with
\* MarkAsRedeemed's statements failing or not.
THEOREM CallKeepsPromise == Spec => ImplementsCall
<1>1. Init => Promise!CallInit
  <2> SUFFICES ASSUME Init PROVE Promise!CallInit
    OBVIOUS
  <2>1. PICK q \in Players \X Codes : call = NewCall("idle", q) BY DEF Init
  <2>2. call.pc = "idle" /\ call.pair \in Players \X Codes /\ call.result = "none"
    BY <2>1 DEF NewCall
  <2> QED BY <2>2 DEF Init, Promise!CallInit
<1>2. CallInv /\ [Next]_vars => [Promise!CallNext]_(Promise!callVars)
  <2> SUFFICES ASSUME CallInv, [Next]_vars PROVE [Promise!CallNext]_(Promise!callVars)
    OBVIOUS
  <2> QED BY LocalImplements, OutwardImplements, WorldImplements DEF Next, CallStep, Pairs
<1> QED BY <1>1, <1>2, CallHolds, PTL DEF Spec, ImplementsCall, Promise!CallSpec
=============================================================================
