--------------------------- MODULE RedeemForPlayer ---------------------------
(***************************************************************************)
(* One worker calling redeemForPlayer for one player and code after        *)
(* another: the retry loop, the global pause after a WAF_BLOCK or          *)
(* RATE_LIMIT, the "ghost success" rule and MarkAsRedeemed, against a game *)
(* that may redeem a code and lose the answer, while players claim codes   *)
(* themselves and the roster changes.                                      *)
(***************************************************************************)
EXTENDS Naturals

CONSTANTS
  Players, Codes,
  TypeOf,        \* TypeOf[c]: the game lets a player redeem one code of a type
  MaxAttempts,   \* maxAttempts (3)
  PauseTicks     \* bound: the 60 s of a global pause, in ticks

ASSUME RedeemAssumption ==
  /\ MaxAttempts \in Nat \ {0}
  /\ PauseTicks \in Nat \ {0}

VARIABLES
  game,        \* the <<player, code>> pairs the game has redeemed
  roster,      \* players with a row in the players table
  records,     \* the <<player, code>> pairs in player_gift_codes
  isPaused, pauseLeft,
  quiet,       \* auxiliary: ticks since the last block of this process, up to PauseTicks
  call         \* the locals of redeemForPlayer

db == <<roster, records>>
pause == <<isPaused, pauseLeft, quiet>>
vars == <<game, db, pause, call>>

\* What RedeemGift makes of an answer: WAF_BLOCK is any HTML page, LOST any other error
\* (timeout, broken JSON), TERMINAL the messages that end the loop (40008 RECEIVED apart),
\* OTHER the rest.
Blocks == {"WAF_BLOCK", "RATE_LIMIT"}
Replies == Blocks \cup {"LOST", "SUCCESS", "USED", "SAME TYPE", "RECEIVED", "TERMINAL", "OTHER"}

\* Auxiliary: ours, some attempt of this call redeemed the code at the game; hidden, it
\* was one answered by an HTML page; retried, some attempt was counted without an answer
\* that settles it.
Calls == [pc: {"idle", "check", "send", "handle", "ensure", "record"},
          pair: Players \X Codes, attempt: 1..(MaxAttempts + 1),
          reply: Replies, ours: BOOLEAN, hidden: BOOLEAN, retried: BOOLEAN,
          result: {"none", "Success", "Failed"}]

TypeOK ==
  /\ game \subseteq Players \X Codes
  /\ roster \subseteq Players
  /\ records \subseteq roster \X Codes
  /\ isPaused \in BOOLEAN
  /\ pauseLeft \in 0..PauseTicks /\ quiet \in 0..PauseTicks
  /\ call \in Calls

NewCall(pc, pair) ==
  [pc |-> pc, pair |-> pair, attempt |-> 1, reply |-> "OTHER",
   ours |-> FALSE, hidden |-> FALSE, retried |-> FALSE, result |-> "none"]

Init ==
  /\ game \in {g \in SUBSET (Players \X Codes) :
                 \A r, q \in g : r[1] = q[1] /\ TypeOf[r[2]] = TypeOf[q[2]] => r = q}
  /\ roster = Players
  /\ records = {}
  /\ isPaused = FALSE /\ pauseLeft = 0 /\ quiet = PauseTicks
  /\ \E pair \in Players \X Codes : call = NewCall("idle", pair)

-----------------------------------------------------------------------------
\* redeemForPlayer

\* processJob calls it for the targets of its snapshot, on the roster by now or not.
Begin(pair) ==
  /\ call.pc = "idle"
  /\ call' = NewCall("check", pair)
  /\ UNCHANGED <<game, db, pause>>

\* Mutation: the pause is waited for but never lifted.
CheckPauseKeep ==
  /\ call.pc = "check"
  /\ pauseLeft = 0
  /\ call' = [call EXCEPT !.pc = "send"]
  /\ UNCHANGED <<game, db, pause>>

\* checkPause: sleep until the pause is over, then lift it.
CheckPause ==
  /\ call.pc = "check"
  /\ isPaused => pauseLeft = 0
  /\ isPaused' = FALSE
  /\ call' = [call EXCEPT !.pc = "send"]
  /\ UNCHANGED <<game, db, pauseLeft, quiet>>

Redeemed(pair) == pair \in game
SameTypeRedeemed(pair) ==
  \E c \in Codes : c # pair[2] /\ TypeOf[c] = TypeOf[pair[2]] /\ <<pair[1], c>> \in game

\* The answers that may come back.
Answers(pair) ==
  Blocks \cup {"LOST", "TERMINAL", "OTHER"}
    \cup (IF Redeemed(pair) THEN {"USED", "RECEIVED"}
          ELSE IF SameTypeRedeemed(pair) THEN {"SAME TYPE"} ELSE {"SUCCESS"})

\* The answers an attempt that redeems may get: the page of a gateway that gave the game
\* up is a WAF_BLOCK to RedeemGift, also when the game has executed the request.
MayRedeem == {"SUCCESS", "LOST", "OTHER", "WAF_BLOCK"}

\* safeAPICall around RedeemGift: the game executes, and something answers.
Send(reply) ==
  /\ call.pc = "send"
  /\ reply \in Answers(call.pair)
  /\ \E redeems \in BOOLEAN :
       /\ redeems => reply \in MayRedeem /\ "SUCCESS" \in Answers(call.pair)
       /\ reply = "SUCCESS" => redeems
       /\ game' = IF redeems THEN game \cup {call.pair} ELSE game
       /\ call' = [call EXCEPT !.pc = "handle", !.reply = reply, !.ours = @ \/ redeems,
                               !.hidden = @ \/ (redeems /\ reply = "WAF_BLOCK")]
  /\ quiet' = IF reply \in Blocks THEN 0 ELSE quiet
  /\ UNCHANGED <<db, isPaused, pauseLeft>>

\* triggerPause
Trigger ==
  IF isPaused THEN UNCHANGED <<isPaused, pauseLeft>>
  ELSE isPaused' = TRUE /\ pauseLeft' = PauseTicks

Blocked == call.reply \in Blocks

\* Mutation: a blocked attempt counts as an attempt.
RetryBlockedCounted ==
  /\ call.pc = "handle" /\ Blocked
  /\ Trigger
  /\ call' = IF call.attempt < MaxAttempts
             THEN [call EXCEPT !.pc = "check", !.attempt = @ + 1]
             ELSE [call EXCEPT !.pc = "idle", !.attempt = @ + 1, !.result = "Failed"]
  /\ UNCHANGED <<game, db, quiet>>

\* WAF_BLOCK or RATE_LIMIT: pause, and try again without counting the attempt.
RetryBlocked ==
  /\ call.pc = "handle" /\ Blocked
  /\ Trigger
  /\ call' = [call EXCEPT !.pc = "check"]
  /\ UNCHANGED <<game, db, quiet>>

\* Mutation: an attempt that failed is not counted.
RetryUncounted ==
  /\ call.pc = "handle" /\ call.reply \in {"LOST", "OTHER"}
  /\ call' = [call EXCEPT !.pc = "check", !.retried = TRUE]
  /\ UNCHANGED <<game, db, pause>>

\* Any other error or message: attempt++, and "Max Retries Reached" after the last.
Retry ==
  /\ call.pc = "handle" /\ call.reply \in {"LOST", "OTHER"}
  /\ call' = IF call.attempt < MaxAttempts
             THEN [call EXCEPT !.pc = "check", !.attempt = @ + 1, !.retried = TRUE]
             ELSE [call EXCEPT !.pc = "idle", !.attempt = @ + 1, !.retried = TRUE,
                               !.result = "Failed"]
  /\ UNCHANGED <<game, db, pause>>

\* Mutation: the ghost rule starts one attempt late.
IsSuccessLate ==
  call.reply = "SUCCESS" \/ (call.reply \in {"USED", "SAME TYPE"} /\ call.attempt > 2)

\* Mutation: the error of RedeemGift is not looked at before the code.
IsSuccessOnError ==
  call.reply \in {"SUCCESS", "LOST"}
    \/ (call.reply \in {"USED", "SAME TYPE"} /\ call.attempt > 1)

\* Success, or a ghost: USED or SAME TYPE EXCHANGE after an attempt that was counted.
IsSuccess ==
  call.reply = "SUCCESS" \/ (call.reply \in {"USED", "SAME TYPE"} /\ call.attempt > 1)

Succeed ==
  /\ call.pc = "handle" /\ IsSuccess
  /\ call' = [call EXCEPT !.pc = "ensure"]
  /\ UNCHANGED <<game, db, pause>>

\* The messages no retry helps against; USED and SAME TYPE on the first attempt.
Fail ==
  /\ call.pc = "handle"
  /\ call.reply \in {"USED", "SAME TYPE", "RECEIVED", "TERMINAL"} /\ ~IsSuccess
  /\ call' = [call EXCEPT !.pc = "idle", !.result = "Failed"]
  /\ UNCHANGED <<game, db, pause>>

\* MarkAsRedeemed's first statement: INSERT IGNORE INTO players, whose error is dropped.
EnsurePlayer ==
  /\ call.pc = "ensure"
  /\ roster' \in {roster, roster \cup {call.pair[1]}}
  /\ call' = [call EXCEPT !.pc = "record"]
  /\ UNCHANGED <<game, records, pause>>

\* Mutation: no foreign key refuses the record of a player who is gone.
RecordRedeemedUnchecked ==
  /\ call.pc = "record"
  /\ records' \in {records, records \cup {call.pair}}
  /\ call' = [call EXCEPT !.pc = "idle", !.result = "Success"]
  /\ UNCHANGED <<game, roster, pause>>

\* Its second: the record, refused by the foreign key when the player has no row, and lost
\* when the statement fails; redeemForPlayer reports Success in any case.
RecordRedeemed ==
  /\ call.pc = "record"
  /\ \/ UNCHANGED records
     \/ call.pair[1] \in roster /\ records' = records \cup {call.pair}
  /\ call' = [call EXCEPT !.pc = "idle", !.result = "Success"]
  /\ UNCHANGED <<game, roster, pause>>

-----------------------------------------------------------------------------
\* The world around the call

Tick ==
  /\ pauseLeft > 0 \/ quiet < PauseTicks
  /\ pauseLeft' = IF pauseLeft > 0 THEN pauseLeft - 1 ELSE 0
  /\ quiet' = IF quiet < PauseTicks THEN quiet + 1 ELSE quiet
  /\ UNCHANGED <<game, db, isPaused, call>>

\* A player redeems a code in the game.
ClaimInGame(pair) ==
  /\ ~Redeemed(pair) /\ ~SameTypeRedeemed(pair)
  /\ game' = game \cup {pair}
  /\ UNCHANGED <<db, pause, call>>

\* DELETE FROM players cascades to player_gift_codes.
DeletePlayer(p) ==
  /\ p \in roster
  /\ roster' = roster \ {p}
  /\ records' = {r \in records : r[1] # p}
  /\ UNCHANGED <<game, pause, call>>

AddPlayer(p) ==
  /\ p \notin roster
  /\ roster' = roster \cup {p}
  /\ UNCHANGED <<game, records, pause, call>>

\* The process dies in the middle of a call; its pause dies with it.
CrashRestart ==
  /\ call.pc # "idle"
  /\ call' = NewCall("idle", call.pair)
  /\ isPaused' = FALSE /\ pauseLeft' = 0 /\ quiet' = PauseTicks
  /\ UNCHANGED <<game, db>>

-----------------------------------------------------------------------------
CallStep ==
  \/ CheckPause \/ (\E r \in Replies : Send(r)) \/ RetryBlocked \/ Retry
  \/ Succeed \/ Fail \/ EnsurePlayer \/ RecordRedeemed

Next ==
  \/ \E pair \in Players \X Codes : Begin(pair) \/ ClaimInGame(pair)
  \/ CallStep
  \/ Tick
  \/ \E p \in Players : DeletePlayer(p) \/ AddPlayer(p)
  \/ CrashRestart

Spec == Init /\ [][Next]_vars

\* Time passes, the goroutine is scheduled and every HTTP call returns (20 s timeout);
\* the calls are not blocked for ever.
FairSpec ==
  /\ Spec
  /\ WF_vars(CallStep) /\ WF_vars(Tick)
  /\ SF_vars(\E r \in Replies \ Blocks : Send(r))

-----------------------------------------------------------------------------
\* A code this call redeemed at the game is reported as a success even when the answer was
\* lost (the ghost rule of redeemForPlayer), unless the attempts ran out or the game's last
\* word was one the code takes for a failure. The rule counts attempts, and a block is none:
\* a redemption behind an HTML page is recovered only if a later attempt was counted.
LostAnswerRecovered ==
  (call.result = "Failed" /\ call.ours) =>
     \/ call.attempt > MaxAttempts
     \/ call.reply \in {"RECEIVED", "TERMINAL"}
     \/ call.hidden /\ call.attempt = 1

\* A success that this call did not bring about needs an earlier attempt whose outcome
\* was open: being blocked, however often, never turns USED into a success.
NoGhostOutOfBlocks == call.result = "Success" => call.ours \/ call.retried

\* player_gift_codes only names codes the game has redeemed for the player, counting
\* another code of the same type (MarkAsRedeemed).
RecordedMeansRedeemed ==
  \A r \in records : Redeemed(r) \/ SameTypeRedeemed(r)

\* After a block the worker stays away from the game for the whole pause, again and
\* again (triggerPause, checkPause; isPaused must be lifted for the next block to count).
BlockedMeansQuiet == call.pc = "send" => quiet = PauseTicks

\* A caller sees of all this only a call that begins and comes back, with what it promises
\* of the game and the records (RedeemCall): it redeems and records nothing but its own code,
\* and answers Success for a code the game has redeemed only, through lost answers, blocks,
\* deletions and failing statements.
Promise ==
  INSTANCE RedeemCall WITH calling <- call.pc # "idle", pair <- call.pair,
                           result <- call.result

ImplementsCall == Promise!CallSpec

\* redeemForPlayer returns if the game does not block it for ever.
CallReturns == (call.pc # "idle") ~> (call.pc = "idle")
=============================================================================
