---------------------------- MODULE WalletSteps ----------------------------
(***************************************************************************)
(* The wallet half of EvmSignerUiBackend (src/evm_signer_ui_backend.cpp):  *)
(* reading the Wallets view, and the one device step that may be under way *)
(* - unlocking a wallet, setting its rule, changing its keys - from where  *)
(* it is begun to where it is done, failed or cancelled.                   *)
(*                                                                         *)
(* A handler is cut at its calls (CallStack).  A frame carries what its    *)
(* handler read before the call: unlockPoll(), retryUnlock() and           *)
(* cancelUnlock() read unlockJson once, call, and write it back.           *)
(***************************************************************************)
EXTENDS WalletManager

VARIABLES
    unlock,         \* unlockJson: the device step under way, or what became of it
    polling,        \* m_unlockPoll is running
    walletError,
    shown,          \* walletsJson: the wallets it shows unlocked
    reading,        \* m_walletsInFlight
    ended           \* history: the first unlockEnded signals about each step

wbvarsButStack == <<unlock, polling, walletError, shown, reading, ended>>
vars == <<wmvars, wbvarsButStack, stack>>

-----------------------------------------------------------------------------
(* Types *)

(* Only a step under way has a handle. *)
Unlocks ==
    {u \in [step : Steps \cup {NoStep}, wallet : Wallets \cup {NoWallet},
            state : {"", "failed"} \cup UnderWay] :
        u.step # NoStep <=> u.state \in UnderWay}

NoUnlock == [step |-> NoStep, wallet |-> NoWallet, state |-> ""]

(* The error line of the Wallets view, by who wrote it. *)
WalletErrors == {"", "busy", "unread", "call"}

(* "rest" stands for refreshWallets()'s second and third call, which read  *)
(* the accounts and the opens; "created" is createPassword() waiting for   *)
(* its own refreshWallets() to return.                                     *)
WalletCalls == {"begin", "progress", "retry", "cancel", "settings", "rest",
                "edit", "create", "created", "change"}

WalletFrames ==
    {f \in [call : WalletCalls, u : Unlocks, answer : StepAnswers, list : SUBSET Wallets] :
        f.call \in {"progress", "retry", "cancel"} => f.u.step # NoStep}

TypeOK ==
    /\ WalletManagerTypeOK
    /\ unlock \in Unlocks
    /\ polling \in BOOLEAN
    /\ walletError \in WalletErrors
    /\ shown \subseteq Wallets
    /\ reading \in BOOLEAN
    /\ ended \in [Steps -> Seq(BOOLEAN)]
    /\ stack \in Seq(WalletFrames)

-----------------------------------------------------------------------------
(* Pieces of the handlers *)

WalletFrame(call, u, answer) == [call |-> call, u |-> u, answer |-> answer, list |-> {}]

(* Fault: refreshWallets() without its m_walletsInFlight guard. *)
RefreshWalletsUnguarded(s) ==
    /\ reading' = TRUE
    /\ \E got \in {"ok", "lost"} :
          /\ Heard("ok", got)
          /\ stack' = Push([WalletFrame("settings", NoUnlock, got) EXCEPT !.list = unlocked], s)

Begun(s, w) == [step |-> s, wallet |-> w, state |-> IF s = NoStep THEN "" ELSE "device"]

(* refreshWallets() on top of the calls in s: nothing while another is in  *)
(* flight, else a blocked call to wallet_settings().                       *)
RefreshWallets(s) ==
    IF reading
    THEN stack' = s /\ UNCHANGED <<reading, losses>>
    ELSE /\ reading' = TRUE
         /\ \E got \in {"ok", "lost"} :
               /\ Heard("ok", got)
               /\ stack' = Push([WalletFrame("settings", NoUnlock, got) EXCEPT !.list = unlocked], s)

(* Fault: beginStep() does not start m_unlockPoll. *)
FollowStepOnce(u, s) ==
    IF u.state = "device"
    THEN /\ UNCHANGED polling
         /\ \E answer \in StepAnswers, got \in StepAnswers :
               /\ Progress(u.step, answer)
               /\ Heard(answer, got)
               /\ stack' = Push(WalletFrame("progress", u, got), s)
    ELSE /\ polling' = FALSE
         /\ stack' = s
         /\ UNCHANGED wmvars

(* unlockPoll() with u in unlockJson: a blocked call to unlock_progress(), *)
(* or no device step to follow.                                            *)
FollowStep(u, s) ==
    IF u.state = "device"
    THEN /\ polling' = TRUE
         /\ \E answer \in StepAnswers, got \in StepAnswers :
               /\ \/ Progress(u.step, answer) /\ Heard(answer, got)
                  \/ Unheard(got) /\ answer = "refused"
               /\ stack' = Push(WalletFrame("progress", u, got), s)
    ELSE /\ polling' = FALSE
         /\ stack' = s
         /\ UNCHANGED wmvars

(* emit unlockEnded, of which the history keeps two for each step *)
MaxSignals == 2

Signal(u, ok) ==
    ended' = IF u.step = NoStep \/ Len(ended[u.step]) = MaxSignals THEN ended
             ELSE [ended EXCEPT ![u.step] = Append(@, ok)]

(* Fault: a step that failed keeps its handle. *)
EndStepKeeping(u, ok, s) ==
    /\ polling' = FALSE
    /\ unlock' = IF ok THEN NoUnlock ELSE [u EXCEPT !.state = "failed"]
    /\ Signal(u, ok)
    /\ RefreshWallets(s)
    /\ UNCHANGED <<step, stepWallet, unlocked, turns>>

(* endStep(), with u in unlockJson, on top of s: a step that failed stays  *)
(* for the sheet to say why, without its handle.                           *)
EndStep(u, ok, s) ==
    /\ polling' = FALSE
    /\ unlock' = IF ok THEN NoUnlock ELSE [u EXCEPT !.step = NoStep, !.state = "failed"]
    /\ Signal(u, ok)
    /\ RefreshWallets(s)
    /\ UNCHANGED <<step, stepWallet, unlocked, turns>>

-----------------------------------------------------------------------------
(* Handlers up to their first call *)

(* m_walletsPoll, the manager's wallet events, and the view. *)
ReadWallets ==
    /\ MayEnter /\ ~reading
    /\ RefreshWallets(stack)
    /\ UNCHANGED <<step, stepWallet, unlocked, turns, unlock, polling, walletError, shown, ended>>

(* m_unlockPoll *)
UnlockPoll ==
    /\ MayEnter
    /\ polling
    /\ FollowStep(unlock, stack)
    /\ UNCHANGED <<unlock, walletError, shown, reading, ended>>

(* Fault: a step is begun whatever is under way. *)
BeginStepAnyway(w) ==
    /\ MayEnter
    /\ \E s \in Steps \cup {NoStep}, answer, got \in {"device", "ok", "refused", "lost"} :
          /\ Begin(w, s, answer)
          /\ Heard(answer, got)
          /\ stack' = Push(WalletFrame("begin", Begun(s, w), got), stack)
    /\ UNCHANGED wbvarsButStack

(* unlockWallet(), setRule(), changeKeys(): beginStep() *)
BeginStep(w) ==
    /\ MayEnter
    /\ \/ /\ unlock.state = "device"
          /\ walletError' = "busy"
          /\ UNCHANGED <<wmvars, stack>>
       \/ /\ unlock.state # "device"
          /\ UNCHANGED walletError
          /\ \E s \in Steps \cup {NoStep}, answer, got \in {"device", "ok", "refused", "lost"} :
                /\ \/ Begin(w, s, answer) /\ Heard(answer, got)
                   \/ Unheard(got) /\ answer = "refused" /\ s = NoStep
                /\ stack' = Push(WalletFrame("begin", Begun(s, w), got), stack)
    /\ UNCHANGED <<unlock, polling, shown, reading, ended>>

RetryUnlock ==
    /\ MayEnter
    /\ \/ /\ unlock.state # "needs_password"
          /\ walletError' = "call"
          /\ UNCHANGED <<wmvars, stack>>
       \/ /\ unlock.state = "needs_password"
          /\ UNCHANGED walletError
          /\ \E answer, got \in {"ok", "wrong_secret", "refused", "lost"} :
                /\ \/ Retry(unlock.step, answer) /\ Heard(answer, got)
                   \/ Unheard(got) /\ answer = "refused"
                /\ stack' = Push(WalletFrame("retry", unlock, got), stack)
    /\ UNCHANGED <<unlock, polling, shown, reading, ended>>

CancelUnlock ==
    /\ MayEnter
    /\ \/ /\ unlock.step # NoStep
          /\ UNCHANGED <<unlock, polling>>
          /\ \E got \in {"ok", "lost"} :
                /\ \/ Cancel(unlock.step) /\ Heard("ok", got)
                   \/ Unheard(got)
                /\ stack' = Push(WalletFrame("cancel", unlock, got), stack)
       \/ /\ unlock.step = NoStep
          /\ polling' = FALSE
          /\ unlock' = NoUnlock
          /\ UNCHANGED <<wmvars, stack>>
    /\ UNCHANGED <<walletError, shown, reading, ended>>

(* lockWallets, setNames, renamePassword and removePassword ("edit"),      *)
(* createPassword ("create") and changePassword ("change").                *)
EditWallets(call) ==
    /\ MayEnter
    /\ \E answer \in {"ok", "refused"}, got \in {"ok", "refused", "lost"} :
          /\ \/ Edit(answer) /\ Heard(answer, got)
             \/ Unheard(got) /\ answer = "refused"
          /\ stack' = Push(WalletFrame(call, NoUnlock, got), stack)
    /\ UNCHANGED wbvarsButStack

-----------------------------------------------------------------------------
(* Handlers from where their call returned *)

(* Fault: refreshWallets() returns early without releasing its guard. *)
SettingsFailedHolding ==
    /\ Returning("settings")
    /\ Top.answer # "ok"
    /\ walletError' = "unread"
    /\ stack' = Below
    /\ UNCHANGED <<wmvars, unlock, polling, shown, reading, ended>>

(* refreshWallets(): a failure says so and ends it; else the wallets are   *)
(* shown and two more calls read the accounts and the opens.               *)
SettingsFailed ==
    /\ Returning("settings")
    /\ Top.answer # "ok"
    /\ walletError' = "unread"
    /\ reading' = FALSE
    /\ stack' = Below
    /\ UNCHANGED <<wmvars, unlock, polling, shown, ended>>

SettingsRead ==
    /\ Returning("settings")
    /\ Top.answer = "ok"
    /\ shown' = Top.list
    /\ stack' = Push([Top EXCEPT !.call = "rest"], Below)
    /\ UNCHANGED <<wmvars, unlock, polling, walletError, reading, ended>>

RestRead ==
    /\ Returning("rest")
    /\ reading' = FALSE
    /\ stack' = Below
    /\ UNCHANGED <<wmvars, unlock, polling, walletError, shown, ended>>

(* beginStep() once the manager answered: it failed, a device works on it  *)
(* from now on, or it is done.                                             *)
BeginFailed ==
    /\ Returning("begin")
    /\ Top.answer \in {"refused", "lost"}
    /\ walletError' = "call"
    /\ RefreshWallets(Below)
    /\ UNCHANGED <<step, stepWallet, unlocked, turns, unlock, polling, shown, ended>>

BeginWorking ==
    /\ Returning("begin")
    /\ Top.answer = "device"
    /\ walletError' = ""
    /\ unlock' = Top.u
    /\ FollowStep(Top.u, Below)
    /\ UNCHANGED <<shown, reading, ended>>

BeginDone ==
    /\ Returning("begin")
    /\ Top.answer = "ok"
    /\ walletError' = ""
    /\ EndStep(NoUnlock, TRUE, Below)
    /\ UNCHANGED shown

(* unlockPoll() once the manager answered: it writes back what it read     *)
(* before the call, with the state it was told.                            *)
StepWorking ==
    /\ Returning("progress")
    /\ Top.answer = "device"
    /\ unlock' = Top.u
    /\ stack' = Below
    /\ UNCHANGED <<wmvars, polling, walletError, shown, reading, ended>>

StepNeedsPassword ==
    /\ Returning("progress")
    /\ Top.answer = "needs_password"
    /\ unlock' = [Top.u EXCEPT !.state = "needs_password"]
    /\ polling' = FALSE
    /\ stack' = Below
    /\ UNCHANGED <<wmvars, walletError, shown, reading, ended>>

(* Fault: a step the manager does not answer for is followed no more, and  *)
(* left as it is.                                                          *)
StepEndsQuietly ==
    /\ Returning("progress")
    /\ Top.answer \notin UnderWay
    /\ IF Top.answer \in Settled
       THEN EndStep(Top.u, Top.answer = "done", Below)
       ELSE /\ polling' = FALSE
            /\ stack' = Below
            /\ UNCHANGED <<wmvars, unlock, reading, ended>>
    /\ UNCHANGED <<walletError, shown>>

(* Fault: whatever is not a failure is taken for done. *)
StepEndsUnlessFailed ==
    /\ Returning("progress")
    /\ Top.answer \notin UnderWay
    /\ EndStep(Top.u, Top.answer # "failed", Below)
    /\ UNCHANGED <<walletError, shown>>

StepEnds ==
    /\ Returning("progress")
    /\ Top.answer \notin UnderWay
    /\ EndStep(Top.u, Top.answer = "done", Below)
    /\ UNCHANGED <<walletError, shown>>

(* retryUnlock() once the manager answered. *)
RetryWrong ==
    /\ Returning("retry")
    /\ Top.answer = "wrong_secret"
    /\ unlock' = Top.u
    /\ stack' = Below
    /\ UNCHANGED <<wmvars, polling, walletError, shown, reading, ended>>

RetryEnds ==
    /\ Returning("retry")
    /\ Top.answer # "wrong_secret"
    /\ walletError' = IF Top.answer = "ok" THEN "" ELSE walletError
    /\ EndStep(Top.u, Top.answer = "ok", Below)
    /\ UNCHANGED shown

CancelReturns ==
    /\ Returning("cancel")
    /\ polling' = FALSE
    /\ unlock' = NoUnlock
    /\ Signal(Top.u, FALSE)
    /\ stack' = Below
    /\ UNCHANGED <<wmvars, walletError, shown, reading>>

(* walletReply(), and for all but changePassword() a refreshWallets();     *)
(* createPassword() reads the wallets first and looks at its answer after. *)
Replied(answer) == walletError' = IF answer = "ok" THEN "" ELSE "call"

EditAnswered ==
    /\ Returning("edit")
    /\ Replied(Top.answer)
    /\ RefreshWallets(Below)
    /\ UNCHANGED <<step, stepWallet, unlocked, turns, unlock, polling, shown, ended>>

PasswordAnswered ==
    /\ Returning("create")
    /\ RefreshWallets(Push([Top EXCEPT !.call = "created"], Below))
    /\ UNCHANGED <<step, stepWallet, unlocked, turns, unlock, polling, walletError, shown, ended>>

PasswordCreated ==
    /\ Returning("created") \/ Returning("change")
    /\ Replied(Top.answer)
    /\ stack' = Below
    /\ UNCHANGED <<wmvars, unlock, polling, shown, reading, ended>>

-----------------------------------------------------------------------------
(* The specification *)

Init ==
    /\ WalletManagerInit
    /\ unlock = NoUnlock
    /\ polling = FALSE
    /\ walletError = ""
    /\ shown = {}
    /\ reading = FALSE
    /\ ended = [s \in Steps |-> <<>>]
    /\ stack = <<>>

ManagerStep ==
    /\ \/ \E s \in Steps : StepMoves(s)
       \/ \E w \in Wallets : WalletTurns(w)
    /\ UNCHANGED <<wbvarsButStack, stack>>

View ==
    \/ \E w \in Wallets : BeginStep(w)
    \/ RetryUnlock \/ CancelUnlock
    \/ \E call \in {"edit", "create", "change"} : EditWallets(call)

Return ==
    \/ SettingsFailed \/ SettingsRead \/ RestRead
    \/ BeginFailed \/ BeginWorking \/ BeginDone
    \/ StepWorking \/ StepNeedsPassword \/ StepEnds
    \/ RetryWrong \/ RetryEnds \/ CancelReturns
    \/ EditAnswered \/ PasswordAnswered \/ PasswordCreated

Next == ManagerStep \/ ReadWallets \/ UnlockPoll \/ View \/ Return

Spec == Init /\ [][Next]_vars

(* Due timers are dispatched, and a blocked call ends. *)
Fairness == SF_vars(ReadWallets) /\ SF_vars(UnlockPoll) /\ WF_vars(Return)

FairSpec == Spec /\ Fairness

-----------------------------------------------------------------------------
(* Correctness *)

(* m_walletsInFlight is set exactly while one refreshWallets() is under    *)
(* way: what it shows is never overwritten by an older answer.             *)
Readings == {i \in DOMAIN stack : stack[i].call \in {"settings", "rest"}}

OneReadingAtATime ==
    /\ reading <=> Readings # {}
    /\ \A i, j \in Readings : i = j

(* unlockEnded says that a step was done only of one the manager finished, *)
(* however late, or behind whatever else, its answer comes.                *)
EndedTruthfully ==
    \A s \in Steps : \A i \in DOMAIN ended[s] : ended[s][i] => step[s] = "done"

(* A step is told to have ended at most once: the view moves on to the     *)
(* next wallet, or answers an intent, on that signal.                      *)
EndsOnce == \A s \in Steps : Len(ended[s]) <= 1

(* m_unlockPoll "follows a wallet's device step" (evm_signer_ui_backend.h):*)
(* while the sheet says that a device works, somebody asks how it is doing.*)
StepIsFollowed == unlock.state = "device" => polling

(* A step that a device works on gives way to another, or to none, only    *)
(* once it was told to have ended.                                         *)
StepNotDisplaced ==
    [][unlock.state = "device" /\ unlock'.step # unlock.step
         => ended'[unlock.step] # <<>>]_vars

(* A step that its device is done with, well or not, does not go on being  *)
(* shown as one that a device works on.                                    *)
StepsEnd ==
    \A s \in Steps :
        (unlock.step = s /\ unlock.state = "device" /\ step[s] # "device")
            ~> ~(unlock.step = s /\ unlock.state = "device")

(* Once the wallets stop changing, the Wallets view shows them as they are.*)
ViewCatchesUp ==
    \A W \in SUBSET Wallets : <>[](unlocked = W) => <>[](shown = W)
=============================================================================
