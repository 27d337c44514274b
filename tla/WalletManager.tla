--------------------------- MODULE WalletManager ---------------------------
(***************************************************************************)
(* The wallets of the signer manager as the signer UI sees them: external, *)
(* known only from how src/evm_signer_ui_backend.cpp calls it.  A wallet   *)
(* is locked or not; unlocking one, or changing its rule or keys, may take *)
(* a device, and is then a step with a handle of its own, which the        *)
(* manager follows and the backend asks about.  A call is processed when   *)
(* it is issued; it, or its answer, may be lost (CallStack).               *)
(***************************************************************************)
EXTENDS CallStack

CONSTANTS
    Wallets,        \* the wallets, by seed
    NoWallet,       \* no wallet
    Steps,          \* the handles of device steps: bound on how many are begun
    NoStep,         \* no handle
    MaxTurns        \* bound: how often another surface locks or unlocks

ASSUME WalletsAssumption == NoWallet \notin Wallets /\ NoStep \notin Steps
ASSUME TurnsAssumption == MaxTurns \in Nat

VARIABLES
    step,           \* the state of each device step
    stepWallet,     \* the wallet it is about
    unlocked,       \* the wallets that are unlocked
    turns           \* how often another surface locked or unlocked one

wmvars == <<step, stepWallet, unlocked, turns, losses>>

UnderWay == {"device", "needs_password"}
Settled == {"done", "failed"}
StepStates == {"unused", "cancelled"} \cup UnderWay \cup Settled

(* unlock_progress and unlock_wallet answer with a state, with ok, with a  *)
(* wrong secret, or not at all.                                            *)
StepAnswers == {"ok", "refused", "wrong_secret", "lost"} \cup UnderWay \cup Settled

WalletManagerTypeOK ==
    /\ step \in [Steps -> StepStates]
    /\ stepWallet \in [Steps -> Wallets \cup {NoWallet}]
    /\ \A s \in Steps : step[s] # "unused" => stepWallet[s] \in Wallets
    /\ unlocked \subseteq Wallets
    /\ turns \in 0 .. MaxTurns
    /\ losses \in 0 .. MaxLosses

WalletManagerInit ==
    /\ step = [s \in Steps |-> "unused"]
    /\ stepWallet = [s \in Steps |-> NoWallet]
    /\ unlocked = {}
    /\ turns = 0
    /\ losses = 0

-----------------------------------------------------------------------------
(* What happens at the manager by itself. *)

(* What a step that is done did: it unlocked its wallet, or it changed its *)
(* rule or its keys.                                                       *)
Done(w) == unlocked' = unlocked \/ unlocked' = unlocked \cup {w}

(* The device answers, or a step is given up. *)
StepMoves(s) ==
    /\ \/ step[s] = "device" /\ step' = [step EXCEPT ![s] = "needs_password"] /\ UNCHANGED unlocked
       \/ step[s] = "device" /\ step' = [step EXCEPT ![s] = "done"] /\ Done(stepWallet[s])
       \/ step[s] \in UnderWay /\ step' = [step EXCEPT ![s] = "failed"] /\ UNCHANGED unlocked
    /\ UNCHANGED <<stepWallet, turns, losses>>

(* Another surface unlocks a wallet, or locks it. *)
WalletTurns(w) ==
    /\ turns < MaxTurns
    /\ turns' = turns + 1
    /\ unlocked' = IF w \in unlocked THEN unlocked \ {w} ELSE unlocked \cup {w}
    /\ UNCHANGED <<step, stepWallet, losses>>

-----------------------------------------------------------------------------
(* What the calls do there.  Each holds for the answers it can give.       *)

AsItWas == UNCHANGED <<step, stepWallet, unlocked, turns>>

(* unlock_wallet, set_rule and change_keys: at once, with a device, or not *)
(* at all.  s is the handle of the step when there is one.                 *)
Begin(w, s, answer) ==
    \/ /\ s # NoStep
       /\ step[s] = "unused"
       /\ answer = "device"
       /\ step' = [step EXCEPT ![s] = "device"]
       /\ stepWallet' = [stepWallet EXCEPT ![s] = w]
       /\ UNCHANGED <<unlocked, turns>>
    \/ /\ s = NoStep
       /\ answer = "ok"
       /\ Done(w)
       /\ UNCHANGED <<step, stepWallet, turns>>
    \/ /\ s = NoStep
       /\ answer = "refused"
       /\ AsItWas

Progress(s, answer) ==
    /\ answer = IF step[s] \in UnderWay \cup Settled THEN step[s] ELSE "refused"
    /\ AsItWas

(* unlock_wallet with a step's handle: its passwords typed again. *)
Retry(s, answer) ==
    \/ /\ step[s] = "needs_password"
       /\ answer = "ok"
       /\ step' = [step EXCEPT ![s] = "done"]
       /\ Done(stepWallet[s])
       /\ UNCHANGED <<stepWallet, turns>>
    \/ /\ step[s] = "needs_password"
       /\ answer = "wrong_secret"
       /\ AsItWas
    \/ /\ answer = "refused"
       /\ AsItWas

(* cancel_unlock: its answer is not looked at. *)
Cancel(s) ==
    /\ step' = [step EXCEPT ![s] = IF @ \in UnderWay THEN "cancelled" ELSE @]
    /\ UNCHANGED <<stepWallet, unlocked, turns>>

(* lock_wallets, and the calls that change names and passwords. *)
Edit(answer) ==
    \/ /\ answer = "ok"
       /\ \E w \in SUBSET Wallets : unlocked' = unlocked \ w
       /\ UNCHANGED <<step, stepWallet, turns>>
    \/ /\ answer = "refused"
       /\ AsItWas

Unheard(got) == NotSent(got) /\ AsItWas
=============================================================================
