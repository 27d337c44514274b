------------------------- MODULE WalletStepsProofs -------------------------
(***************************************************************************)
(* Proofs about WalletSteps, for every set of wallets and steps, every     *)
(* depth of nesting and every number of lost calls.                        *)
(***************************************************************************)
EXTENDS WalletSteps, CallStackProofs

(* A frame pushed on a stack is its head, and the stack its tail. *)
LEMMA PushPop ==
    ASSUME NEW f \in WalletFrames, NEW s \in Seq(WalletFrames)
    PROVE  /\ Push(f, s) \in Seq(WalletFrames)
           /\ Push(f, s) # <<>>
           /\ Head(Push(f, s)) = f
           /\ Tail(Push(f, s)) = s
  <1>1. <<f>> \in Seq(WalletFrames)
    OBVIOUS
  <1>2. QED
    BY <1>1 DEF Push

LEMMA TopBelow ==
    ASSUME stack \in Seq(WalletFrames), stack # <<>>
    PROVE  Top \in WalletFrames /\ Below \in Seq(WalletFrames)
  BY DEF Top, Below

-----------------------------------------------------------------------------
(* What the calls do to the manager keeps its types. *)

LEMMA HeardType ==
    ASSUME losses \in 0 .. MaxLosses, NEW answer, NEW got, Heard(answer, got)
    PROVE  losses' \in 0 .. MaxLosses
  BY LossesAssumption DEF Heard

LEMMA AsItWasType ==
    ASSUME WalletManagerTypeOK, AsItWas, losses' \in 0 .. MaxLosses
    PROVE  WalletManagerTypeOK'
  BY DEF WalletManagerTypeOK, AsItWas

LEMMA UnheardType ==
    ASSUME WalletManagerTypeOK, NEW got, Unheard(got)
    PROVE  WalletManagerTypeOK'
  <1>1. losses' \in 0 .. MaxLosses
    BY LossesAssumption DEF WalletManagerTypeOK, Unheard, NotSent
  <1>2. QED
    BY <1>1, AsItWasType DEF Unheard

LEMMA BeginType ==
    ASSUME WalletManagerTypeOK, NEW w \in Wallets, NEW s \in Steps \cup {NoStep}, NEW answer,
           Begin(w, s, answer), losses' \in 0 .. MaxLosses
    PROVE  WalletManagerTypeOK'
  <1>1. CASE answer = "device"
    BY <1>1 DEF WalletManagerTypeOK, Begin, StepStates, UnderWay
  <1>2. CASE answer = "ok"
    BY <1>2 DEF WalletManagerTypeOK, Begin, Done
  <1>3. CASE answer = "refused"
    BY <1>3, AsItWasType DEF Begin
  <1>4. QED
    BY <1>1, <1>2, <1>3 DEF Begin

LEMMA RetryType ==
    ASSUME WalletManagerTypeOK, NEW s \in Steps, NEW answer,
           Retry(s, answer), losses' \in 0 .. MaxLosses
    PROVE  WalletManagerTypeOK'
  <1>1. CASE AsItWas
    BY <1>1, AsItWasType
  <1>2. CASE /\ step[s] = "needs_password"
             /\ step' = [step EXCEPT ![s] = "done"]
             /\ Done(stepWallet[s])
             /\ UNCHANGED <<stepWallet, turns>>
    <2>1. stepWallet[s] \in Wallets
      BY <1>2 DEF WalletManagerTypeOK
    <2>2. QED
      BY <1>2, <2>1 DEF WalletManagerTypeOK, StepStates, Settled, Done
  <1>3. QED
    BY <1>1, <1>2 DEF Retry

LEMMA CancelType ==
    ASSUME WalletManagerTypeOK, NEW s \in Steps, Cancel(s), losses' \in 0 .. MaxLosses
    PROVE  WalletManagerTypeOK'
  BY DEF WalletManagerTypeOK, Cancel, StepStates, UnderWay

LEMMA EditType ==
    ASSUME WalletManagerTypeOK, NEW answer, Edit(answer), losses' \in 0 .. MaxLosses
    PROVE  WalletManagerTypeOK'
  BY AsItWasType DEF WalletManagerTypeOK, Edit, AsItWas

LEMMA ProgressType ==
    ASSUME WalletManagerTypeOK, NEW s \in Steps, NEW answer,
           Progress(s, answer), losses' \in 0 .. MaxLosses
    PROVE  WalletManagerTypeOK'
  BY AsItWasType DEF Progress

LEMMA ManagerStepType ==
    ASSUME WalletManagerTypeOK, ManagerStep
    PROVE  WalletManagerTypeOK'
  <1>1. ASSUME NEW s \in Steps, StepMoves(s)
        PROVE  WalletManagerTypeOK'
    <2>1. step[s] \in UnderWay /\ step[s] # "unused"
      BY <1>1 DEF StepMoves, UnderWay
    <2>2. stepWallet[s] \in Wallets
      BY <2>1 DEF WalletManagerTypeOK
    <2>3. unlocked' \subseteq Wallets
      BY <1>1, <2>2 DEF StepMoves, Done, WalletManagerTypeOK
    <2>4. step' \in [Steps -> StepStates]
      BY <1>1 DEF StepMoves, WalletManagerTypeOK, StepStates, UnderWay, Settled
    <2>5. \A t \in Steps : step'[t] # "unused" => step[t] # "unused"
      BY <1>1, <2>1 DEF StepMoves, WalletManagerTypeOK
    <2>6. QED
      BY <1>1, <2>3, <2>4, <2>5 DEF StepMoves, WalletManagerTypeOK
  <1>2. ASSUME NEW w \in Wallets, WalletTurns(w)
        PROVE  WalletManagerTypeOK'
    <2>1. turns' \in 0 .. MaxTurns
      BY <1>2, TurnsAssumption DEF WalletTurns, WalletManagerTypeOK
    <2>2. QED
      BY <1>2, <2>1 DEF WalletTurns, WalletManagerTypeOK
  <1>3. QED
    BY <1>1, <1>2 DEF ManagerStep

-----------------------------------------------------------------------------
(* What the pieces of the handlers do, types first. *)

(* A call whose answer its handler will take for the step being done.      *)
HeardDone(f) ==
    \/ f.call = "progress" /\ f.answer = "done"
    \/ f.call = "retry" /\ f.answer = "ok"

(* No blocked call of s holds such an answer about a step that, as st has  *)
(* it, is not done.                                                        *)
FrameTruthful(f, st) == HeardDone(f) => st[f.u.step] = "done"

Truthful(s, st) == \A i \in DOMAIN s : FrameTruthful(s[i], st)

LEMMA PushTruthful ==
    ASSUME NEW f \in WalletFrames, NEW s \in Seq(WalletFrames), NEW st,
           FrameTruthful(f, st), Truthful(s, st)
    PROVE  Truthful(Push(f, s), st)
  <1>1. /\ Len(Push(f, s)) = Len(s) + 1
        /\ Push(f, s)[1] = f
        /\ \A i \in 2 .. Len(s) + 1 : Push(f, s)[i] = s[i - 1]
        /\ DOMAIN Push(f, s) = 1 .. Len(s) + 1
    BY DEF Push
  <1>2. DOMAIN s = 1 .. Len(s) /\ Len(s) \in Nat
    OBVIOUS
  <1>3. \A i \in 2 .. Len(s) + 1 : FrameTruthful(Push(f, s)[i], st)
    <2> TAKE i \in 2 .. Len(s) + 1
    <2>1. i - 1 \in DOMAIN s
      BY <1>2
    <2>2. Push(f, s)[i] = s[i - 1]
      BY <1>1
    <2>3. FrameTruthful(s[i - 1], st)
      BY <2>1 DEF Truthful
    <2>4. QED
      BY <2>2, <2>3
  <1>4. ASSUME NEW i \in 1 .. Len(s) + 1
        PROVE  FrameTruthful(Push(f, s)[i], st)
    <2>1. CASE i = 1
      BY <1>1, <2>1
    <2>2. CASE i # 1
      BY <1>2, <1>3, <2>2
    <2>3. QED
      BY <2>1, <2>2
  <1>5. QED
    BY <1>1, <1>4 DEF Truthful

LEMMA TopBelowTruthful ==
    ASSUME stack \in Seq(WalletFrames), stack # <<>>, NEW st, Truthful(stack, st)
    PROVE  FrameTruthful(Top, st) /\ Truthful(Below, st)
  <1>1. Len(stack) \in Nat \ {0} /\ DOMAIN stack = 1 .. Len(stack)
    OBVIOUS
  <1>2. FrameTruthful(Top, st)
    <2>1. 1 \in DOMAIN stack /\ Top = stack[1]
      BY <1>1 DEF Top
    <2>2. QED
      BY <2>1 DEF Truthful
  <1>3. ASSUME NEW i \in DOMAIN Below
        PROVE  FrameTruthful(Below[i], st)
    <2>1. i + 1 \in DOMAIN stack /\ Below[i] = stack[i + 1]
      BY <1>1 DEF Below
    <2>2. QED
      BY <2>1 DEF Truthful
  <1>4. QED
    BY <1>2, <1>3 DEF Truthful

(* What is done stays done. *)
LEMMA StaysTruthful ==
    ASSUME NEW s \in Seq(WalletFrames), NEW st, NEW stThen, Truthful(s, st),
           \A t \in Steps : st[t] = "done" => stThen[t] = "done"
    PROVE  Truthful(s, stThen)
  <1>1. ASSUME NEW i \in DOMAIN s
        PROVE  FrameTruthful(s[i], stThen)
    <2>1. s[i] \in WalletFrames
      OBVIOUS
    <2>2. HeardDone(s[i]) => s[i].u.step \in Steps
      BY <2>1 DEF HeardDone, WalletFrames, Unlocks
    <2>3. FrameTruthful(s[i], st)
      BY DEF Truthful
    <2>4. QED
      BY <2>2, <2>3 DEF FrameTruthful
  <1>2. QED
    BY <1>1 DEF Truthful

LEMMA FrameType ==
    ASSUME NEW call \in WalletCalls, NEW u \in Unlocks, NEW answer \in StepAnswers,
           call \in {"progress", "retry", "cancel"} => u.step # NoStep
    PROVE  WalletFrame(call, u, answer) \in WalletFrames
  BY DEF WalletFrame, WalletFrames

LEMMA NoUnlockType == NoUnlock \in Unlocks
  BY DEF NoUnlock, Unlocks, UnderWay

LEMMA RefreshWalletsType ==
    ASSUME TypeOK, NEW s \in Seq(WalletFrames), RefreshWallets(s)
    PROVE  /\ reading' \in BOOLEAN
           /\ losses' \in 0 .. MaxLosses
           /\ stack' \in Seq(WalletFrames)
           /\ \/ stack' = s /\ reading' = reading
              \/ /\ reading = FALSE /\ reading' = TRUE
                 /\ \E f \in WalletFrames : f.call = "settings" /\ stack' = Push(f, s)
  <1>1. CASE reading
    BY <1>1 DEF TypeOK, WalletManagerTypeOK, RefreshWallets
  <1>2. CASE ~reading
    <2>1. PICK got \in {"ok", "lost"} :
             /\ Heard("ok", got)
             /\ stack' = Push([WalletFrame("settings", NoUnlock, got) EXCEPT !.list = unlocked], s)
      BY <1>2 DEF RefreshWallets
    <2>2. WalletFrame("settings", NoUnlock, got) \in WalletFrames
      BY NoUnlockType, FrameType DEF WalletCalls, StepAnswers
    <2> DEFINE f == [WalletFrame("settings", NoUnlock, got) EXCEPT !.list = unlocked]
    <2>3. f \in WalletFrames /\ f.call = "settings"
      BY <2>2 DEF WalletFrames, WalletFrame, TypeOK, WalletManagerTypeOK
    <2>4. losses' \in 0 .. MaxLosses
      BY <2>1, HeardType DEF TypeOK, WalletManagerTypeOK
    <2>5. reading = FALSE /\ reading' = TRUE
      BY <1>2 DEF RefreshWallets, TypeOK
    <2>6. stack' \in Seq(WalletFrames)
      BY <2>1, <2>3, PushPop
    <2>7. QED
      BY <2>1, <2>3, <2>4, <2>5, <2>6
  <1>3. QED
    BY <1>1, <1>2

(* A refreshWallets() on top of s puts no such call there. *)
LEMMA RefreshWalletsTruthful ==
    ASSUME TypeOK, NEW s \in Seq(WalletFrames), RefreshWallets(s), NEW st, Truthful(s, st)
    PROVE  Truthful(stack', st)
  <1>1. CASE stack' = s
    BY <1>1
  <1>2. ASSUME NEW f \in WalletFrames, f.call = "settings", stack' = Push(f, s)
        PROVE  Truthful(stack', st)
    <2>1. FrameTruthful(f, st)
      BY <1>2 DEF FrameTruthful, HeardDone
    <2>2. QED
      BY <1>2, <2>1, PushTruthful
  <1>3. QED
    BY <1>1, <1>2, RefreshWalletsType

LEMMA FollowStepFacts ==
    ASSUME TypeOK, NEW u \in Unlocks, NEW s \in Seq(WalletFrames), FollowStep(u, s)
    PROVE  /\ WalletManagerTypeOK'
           /\ polling' \in BOOLEAN
           /\ stack' \in Seq(WalletFrames)
           /\ step' = step
           /\ Truthful(s, step) => Truthful(stack', step)
  <1>1. CASE u.state = "device"
    <2>0. u.step \in Steps
      BY <1>1 DEF Unlocks, UnderWay
    <2>1. PICK answer \in StepAnswers, got \in StepAnswers :
             /\ \/ Progress(u.step, answer) /\ Heard(answer, got)
                \/ Unheard(got) /\ answer = "refused"
             /\ stack' = Push(WalletFrame("progress", u, got), s)
      BY <1>1 DEF FollowStep
    <2>2. WalletManagerTypeOK'
      BY <2>0, <2>1, ProgressType, UnheardType, HeardType DEF TypeOK, WalletManagerTypeOK
    <2>3. step' = step
      BY <2>1 DEF Progress, Unheard, AsItWas
    <2>4. WalletFrame("progress", u, got) \in WalletFrames
      BY <2>0, FrameType, WalletsAssumption DEF WalletCalls
    <2>5. FrameTruthful(WalletFrame("progress", u, got), step)
      BY <2>1 DEF FrameTruthful, HeardDone, WalletFrame, Heard, Progress, Unheard, NotSent
    <2>6. stack' \in Seq(WalletFrames)
      BY <2>1, <2>4, PushPop
    <2>7. Truthful(s, step) => Truthful(stack', step)
      BY <2>1, <2>4, <2>5, PushTruthful
    <2>8. polling' \in BOOLEAN
      BY <1>1 DEF FollowStep
    <2>9. QED
      BY <2>2, <2>3, <2>6, <2>7, <2>8
  <1>2. CASE u.state # "device"
    BY <1>2 DEF FollowStep, TypeOK, WalletManagerTypeOK, wmvars
  <1>3. QED
    BY <1>1, <1>2

LEMMA LastAppended ==
    ASSUME NEW e \in Seq(BOOLEAN), NEW ok \in BOOLEAN, NEW i \in DOMAIN Append(e, ok)
    PROVE  \/ i \in DOMAIN e /\ Append(e, ok)[i] = e[i]
           \/ Append(e, ok)[i] = ok
  <1>1. Len(e) \in Nat /\ DOMAIN Append(e, ok) = 1 .. Len(e) + 1
    OBVIOUS
  <1>2. CASE i = Len(e) + 1
    BY <1>1, <1>2
  <1>3. CASE i # Len(e) + 1
    BY <1>1, <1>3
  <1>4. QED
    BY <1>2, <1>3

(* unlockEnded leaves the history truthful if what it says is true. *)
LEMMA SignalFacts ==
    ASSUME TypeOK, NEW u \in Unlocks, NEW ok \in BOOLEAN, Signal(u, ok)
    PROVE  /\ ended' \in [Steps -> Seq(BOOLEAN)]
           /\ EndedTruthfully /\ step' = step /\ (ok /\ u.step # NoStep => step[u.step] = "done")
                => EndedTruthfully'
  <1>1. CASE ended' = ended
    BY <1>1 DEF TypeOK, EndedTruthfully
  <1>2. CASE u.step # NoStep /\ ended' = [ended EXCEPT ![u.step] = Append(@, ok)]
    <2>1. u.step \in Steps /\ ended[u.step] \in Seq(BOOLEAN)
      BY <1>2 DEF Unlocks, TypeOK
    <2>2. Append(ended[u.step], ok) \in Seq(BOOLEAN)
      BY <2>1
    <2>3. ended' \in [Steps -> Seq(BOOLEAN)]
      BY <1>2, <2>2 DEF TypeOK
    <2>4. ASSUME EndedTruthfully, step' = step, ok => step[u.step] = "done",
                 NEW s \in Steps, NEW i \in DOMAIN ended'[s], ended'[s][i]
          PROVE  step'[s] = "done"
      <3>1. CASE s = u.step
        <4>1. ended'[s] = Append(ended[s], ok)
          BY <1>2, <3>1 DEF TypeOK
        <4>2. \/ i \in DOMAIN ended[s] /\ ended'[s][i] = ended[s][i]
              \/ ended'[s][i] = ok
          <5>1. i \in DOMAIN Append(ended[s], ok) /\ ended[s] \in Seq(BOOLEAN)
            BY <2>1, <2>4, <3>1, <4>1
          <5>2. QED
            BY <4>1, <5>1, LastAppended
        <4>3. QED
          BY <2>4, <3>1, <4>2 DEF EndedTruthfully
      <3>2. CASE s # u.step
        <4>1. ended'[s] = ended[s]
          BY <1>2, <3>2 DEF TypeOK
        <4>2. QED
          BY <2>4, <4>1 DEF EndedTruthfully
      <3>3. QED
        BY <3>1, <3>2
    <2>5. QED
      BY <1>2, <2>3, <2>4 DEF EndedTruthfully
  <1>3. QED
    BY <1>1, <1>2 DEF Signal

LEMMA EndStepFacts ==
    ASSUME TypeOK, NEW u \in Unlocks, NEW ok \in BOOLEAN, NEW s \in Seq(WalletFrames),
           EndStep(u, ok, s)
    PROVE  /\ WalletManagerTypeOK'
           /\ polling' \in BOOLEAN /\ unlock' \in Unlocks /\ reading' \in BOOLEAN
           /\ ended' \in [Steps -> Seq(BOOLEAN)]
           /\ stack' \in Seq(WalletFrames)
           /\ step' = step
           /\ Truthful(s, step) => Truthful(stack', step)
           /\ EndedTruthfully /\ (ok /\ u.step # NoStep => step[u.step] = "done")
                => EndedTruthfully'
  <1>1. RefreshWallets(s) /\ Signal(u, ok) /\ UNCHANGED <<step, stepWallet, unlocked, turns>>
    BY DEF EndStep
  <1>2. unlock' \in Unlocks
    <2>1. [u EXCEPT !.step = NoStep, !.state = "failed"] \in Unlocks
      BY DEF Unlocks, UnderWay
    <2>2. QED
      BY <2>1, NoUnlockType DEF EndStep
  <1>3. polling' \in BOOLEAN
    BY DEF EndStep
  <1>4. WalletManagerTypeOK'
    BY <1>1, RefreshWalletsType DEF TypeOK, WalletManagerTypeOK
  <1>5. QED
    BY <1>1, <1>2, <1>3, <1>4, RefreshWalletsType, RefreshWalletsTruthful, SignalFacts

-----------------------------------------------------------------------------
(* The inductive invariant: the types, every blocked call that heard of a  *)
(* step being done heard the truth, and so did the view.                   *)

Truth == TypeOK /\ Truthful(stack, step) /\ EndedTruthfully

LEMMA InitTruth == Init => Truth
  <1> SUFFICES ASSUME Init
               PROVE  Truth
    OBVIOUS
  <1>1. step \in [Steps -> StepStates] /\ stepWallet \in [Steps -> Wallets \cup {NoWallet}]
    BY DEF Init, WalletManagerInit, StepStates
  <1>2. unlocked \subseteq Wallets /\ turns \in 0 .. MaxTurns /\ losses \in 0 .. MaxLosses
    <2>1. unlocked = {} /\ turns = 0 /\ losses = 0
      BY DEF Init, WalletManagerInit
    <2>2. QED
      BY <2>1, TurnsAssumption, LossesAssumption
  <1>3. WalletManagerTypeOK
    BY <1>1, <1>2 DEF Init, WalletManagerInit, WalletManagerTypeOK
  <1>4. stack = <<>> /\ stack \in Seq(WalletFrames)
    BY EmptySeq DEF Init
  <1>5. ended \in [Steps -> Seq(BOOLEAN)]
    <2>1. <<>> \in Seq(BOOLEAN)
      BY EmptySeq
    <2>2. QED
      BY <2>1 DEF Init
  <1>6. unlock \in Unlocks
    BY NoUnlockType DEF Init
  <1>7. polling \in BOOLEAN /\ walletError \in WalletErrors /\ shown \subseteq Wallets
        /\ reading \in BOOLEAN
    BY DEF Init, WalletErrors
  <1>8. TypeOK
    BY <1>3, <1>4, <1>5, <1>6, <1>7 DEF TypeOK
  <1>9. Truthful(stack, step)
    BY <1>4 DEF Truthful
  <1>10. EndedTruthfully
    <2>1. ASSUME NEW s \in Steps
          PROVE  DOMAIN ended[s] = {}
      <3>1. ended[s] = <<>>
        BY DEF Init
      <3>2. QED
        BY <3>1
    <2>2. QED
      BY <2>1 DEF EndedTruthfully
  <1>11. QED
    BY <1>8, <1>9, <1>10 DEF Truth

(* What the manager does to a step undoes none that is done. *)
LEMMA DoneStays ==
    ASSUME WalletManagerTypeOK, NEW t \in Steps, step[t] = "done",
           \/ \E s \in Steps : StepMoves(s) \/ Cancel(s) \/ \E answer : Retry(s, answer)
           \/ \E w \in Wallets, s \in Steps \cup {NoStep} : \E answer : Begin(w, s, answer)
           \/ step' = step
    PROVE  step'[t] = "done"
  <1>1. ASSUME NEW s \in Steps, StepMoves(s) \/ Cancel(s)
        PROVE  step'[t] = "done"
    BY <1>1 DEF WalletManagerTypeOK, StepMoves, Cancel, UnderWay
  <1>2. ASSUME NEW s \in Steps, NEW answer, Retry(s, answer)
        PROVE  step'[t] = "done"
    BY <1>2 DEF WalletManagerTypeOK, Retry, AsItWas
  <1>3. ASSUME NEW w \in Wallets, NEW s \in Steps \cup {NoStep}, NEW answer, Begin(w, s, answer)
        PROVE  step'[t] = "done"
    BY <1>3 DEF WalletManagerTypeOK, Begin, AsItWas
  <1>4. QED
    BY <1>1, <1>2, <1>3

(* A step that does not touch what the view was told keeps the invariant   *)
(* if it keeps the types, what is done, and the truth of the stack.        *)
LEMMA TruthKept ==
    ASSUME Truth, TypeOK', UNCHANGED ended, NEW s \in Seq(WalletFrames),
           Truthful(s, step),
           \A t \in Steps : step[t] = "done" => step'[t] = "done",
           \/ stack' = s
           \/ \E f \in WalletFrames : FrameTruthful(f, step') /\ stack' = Push(f, s)
    PROVE  Truth'
  <1>1. Truthful(s, step')
    BY StaysTruthful
  <1>2. Truthful(stack', step')
    BY <1>1, PushTruthful
  <1>3. EndedTruthfully'
    <2>1. \A t \in Steps : \A i \in DOMAIN ended[t] : ended[t][i] => step'[t] = "done"
      BY DEF Truth, EndedTruthfully
    <2>2. QED
      BY <2>1 DEF EndedTruthfully
  <1>4. QED
    BY <1>2, <1>3 DEF Truth

-----------------------------------------------------------------------------
(* Each handler, up to its first call. *)

LEMMA StartsTruth ==
    ASSUME Truth, ReadWallets \/ UnlockPoll \/ View \/ ManagerStep \/ UNCHANGED vars
    PROVE  Truth'
  <1>0. TypeOK /\ WalletManagerTypeOK /\ stack \in Seq(WalletFrames) /\ Truthful(stack, step)
    BY DEF Truth, TypeOK
  <1>1. CASE ReadWallets
    <2>1. RefreshWallets(stack) /\ step' = step /\ UNCHANGED ended
      BY <1>1 DEF ReadWallets
    <2>2. TypeOK'
      BY <1>0, <1>1, <2>1, RefreshWalletsType DEF ReadWallets, TypeOK, WalletManagerTypeOK
    <2>3. Truthful(stack', step)
      BY <1>0, <2>1, RefreshWalletsTruthful
    <2>4. QED
      BY <2>1, <2>2, <2>3 DEF Truth, EndedTruthfully
  <1>2. CASE UnlockPoll
    <2>1. FollowStep(unlock, stack) /\ unlock \in Unlocks /\ UNCHANGED ended
      BY <1>0, <1>2 DEF UnlockPoll, TypeOK
    <2>2. /\ WalletManagerTypeOK' /\ polling' \in BOOLEAN /\ stack' \in Seq(WalletFrames)
          /\ step' = step
          /\ Truthful(stack', step)
      BY <1>0, <2>1, FollowStepFacts
    <2>3. TypeOK'
      BY <1>0, <1>2, <2>2 DEF UnlockPoll, TypeOK
    <2>4. QED
      BY <2>1, <2>2, <2>3 DEF Truth, EndedTruthfully
  <1>3. ASSUME NEW w \in Wallets, BeginStep(w)
        PROVE  Truth'
    <2>1. CASE unlock.state = "device"
      BY <1>3, <2>1 DEF BeginStep, Truth, TypeOK, WalletManagerTypeOK, wmvars, EndedTruthfully,
                        WalletErrors
    <2>2. CASE unlock.state # "device"
      <3>1. PICK s \in Steps \cup {NoStep}, answer \in {"device", "ok", "refused", "lost"},
                 got \in {"device", "ok", "refused", "lost"} :
               /\ \/ Begin(w, s, answer) /\ Heard(answer, got)
                  \/ Unheard(got) /\ answer = "refused" /\ s = NoStep
               /\ stack' = Push(WalletFrame("begin", Begun(s, w), got), stack)
        BY <1>3, <2>2 DEF BeginStep
      <3>2. WalletManagerTypeOK'
        BY <1>0, <3>1, HeardType, BeginType, UnheardType DEF WalletManagerTypeOK
      <3>3. Begun(s, w) \in Unlocks
        BY DEF Begun, Unlocks, UnderWay
      <3>4. WalletFrame("begin", Begun(s, w), got) \in WalletFrames
        BY <3>3, FrameType DEF WalletCalls, StepAnswers, UnderWay
      <3>5. FrameTruthful(WalletFrame("begin", Begun(s, w), got), step')
        BY DEF FrameTruthful, HeardDone, WalletFrame
      <3>6. \A t \in Steps : step[t] = "done" => step'[t] = "done"
        BY <1>0, <3>1, DoneStays DEF Unheard, AsItWas
      <3>7. stack' \in Seq(WalletFrames)
        BY <1>0, <3>1, <3>4, PushPop
      <3>8. TypeOK' /\ UNCHANGED ended
        BY <1>0, <1>3, <2>2, <3>2, <3>7 DEF BeginStep, TypeOK
      <3>9. QED
        BY <1>0, <3>1, <3>4, <3>5, <3>6, <3>8, TruthKept
    <2>3. QED
      BY <2>1, <2>2
  <1>4. CASE RetryUnlock
    <2>1. CASE unlock.state # "needs_password"
      BY <1>4, <2>1 DEF RetryUnlock, Truth, TypeOK, WalletManagerTypeOK, wmvars, EndedTruthfully,
                        WalletErrors
    <2>2. CASE unlock.state = "needs_password"
      <3>0. unlock \in Unlocks /\ unlock.step \in Steps
        BY <1>0, <2>2 DEF TypeOK, Unlocks, UnderWay
      <3>1. PICK answer \in {"ok", "wrong_secret", "refused", "lost"},
                 got \in {"ok", "wrong_secret", "refused", "lost"} :
               /\ \/ Retry(unlock.step, answer) /\ Heard(answer, got)
                  \/ Unheard(got) /\ answer = "refused"
               /\ stack' = Push(WalletFrame("retry", unlock, got), stack)
        BY <1>4, <2>2 DEF RetryUnlock
      <3>2. WalletManagerTypeOK'
        BY <1>0, <3>0, <3>1, HeardType, RetryType, UnheardType DEF WalletManagerTypeOK
      <3>3. unlock.step # NoStep
        BY <3>0, WalletsAssumption
      <3>4. WalletFrame("retry", unlock, got) \in WalletFrames
        BY <3>0, <3>3, FrameType DEF WalletCalls, StepAnswers
      <3>5. FrameTruthful(WalletFrame("retry", unlock, got), step')
        <4>1. CASE got = "ok"
          <5>1. step' = [step EXCEPT ![unlock.step] = "done"]
            BY <3>1, <4>1 DEF Unheard, NotSent, Heard, Retry
          <5>2. QED
            BY <1>0, <3>0, <5>1 DEF FrameTruthful, WalletFrame, WalletManagerTypeOK
        <4>2. CASE got # "ok"
          BY <4>2 DEF FrameTruthful, HeardDone, WalletFrame
        <4>3. QED
          BY <4>1, <4>2
      <3>6. \A t \in Steps : step[t] = "done" => step'[t] = "done"
        BY <1>0, <3>0, <3>1, DoneStays DEF Unheard, AsItWas
      <3>7. stack' \in Seq(WalletFrames)
        BY <1>0, <3>1, <3>4, PushPop
      <3>8. TypeOK' /\ UNCHANGED ended
        BY <1>0, <1>4, <2>2, <3>2, <3>7 DEF RetryUnlock, TypeOK
      <3>9. QED
        BY <1>0, <3>1, <3>4, <3>5, <3>6, <3>8, TruthKept
    <2>3. QED
      BY <2>1, <2>2
  <1>5. CASE CancelUnlock
    <2>1. CASE unlock.step = NoStep
      BY <1>5, <2>1, NoUnlockType DEF CancelUnlock, Truth, TypeOK, WalletManagerTypeOK, wmvars, EndedTruthfully
    <2>2. CASE unlock.step # NoStep
      <3>0. unlock \in Unlocks /\ unlock.step \in Steps
        BY <1>0, <2>2 DEF TypeOK, Unlocks
      <3>1. PICK got \in {"ok", "lost"} :
               /\ \/ Cancel(unlock.step) /\ Heard("ok", got)
                  \/ Unheard(got)
               /\ stack' = Push(WalletFrame("cancel", unlock, got), stack)
        BY <1>5, <2>2 DEF CancelUnlock
      <3>2. WalletManagerTypeOK'
        BY <1>0, <3>0, <3>1, HeardType, CancelType, UnheardType DEF WalletManagerTypeOK
      <3>3. WalletFrame("cancel", unlock, got) \in WalletFrames
        BY <2>2, <3>0, FrameType DEF WalletCalls, StepAnswers
      <3>4. FrameTruthful(WalletFrame("cancel", unlock, got), step')
        BY DEF FrameTruthful, HeardDone, WalletFrame
      <3>5. \A t \in Steps : step[t] = "done" => step'[t] = "done"
        BY <1>0, <3>0, <3>1, DoneStays DEF Unheard, AsItWas
      <3>6. stack' \in Seq(WalletFrames)
        BY <1>0, <3>1, <3>3, PushPop
      <3>7. TypeOK' /\ UNCHANGED ended
        BY <1>0, <1>5, <2>2, <3>2, <3>6 DEF CancelUnlock, TypeOK
      <3>8. QED
        BY <1>0, <3>1, <3>3, <3>4, <3>5, <3>7, TruthKept
    <2>3. QED
      BY <2>1, <2>2
  <1>6. ASSUME NEW call \in {"edit", "create", "change"}, EditWallets(call)
        PROVE  Truth'
    <2>1. PICK answer \in {"ok", "refused"}, got \in {"ok", "refused", "lost"} :
             /\ \/ Edit(answer) /\ Heard(answer, got)
                \/ Unheard(got) /\ answer = "refused"
             /\ stack' = Push(WalletFrame(call, NoUnlock, got), stack)
      BY <1>6 DEF EditWallets
    <2>2. WalletManagerTypeOK'
      BY <1>0, <2>1, HeardType, EditType, UnheardType DEF WalletManagerTypeOK
    <2>3. WalletFrame(call, NoUnlock, got) \in WalletFrames
      BY NoUnlockType, FrameType DEF WalletCalls, StepAnswers
    <2>4. FrameTruthful(WalletFrame(call, NoUnlock, got), step')
      BY DEF FrameTruthful, HeardDone, WalletFrame
    <2>5. step' = step
      BY <2>1 DEF Edit, Unheard, AsItWas
    <2>6. stack' \in Seq(WalletFrames)
      BY <1>0, <2>1, <2>3, PushPop
    <2>7. TypeOK' /\ UNCHANGED ended
      BY <1>0, <1>6, <2>2, <2>6 DEF EditWallets, TypeOK, wbvarsButStack
    <2>8. QED
      BY <1>0, <2>1, <2>3, <2>4, <2>5, <2>7, TruthKept
  <1>7. CASE ManagerStep
    <2>1. UNCHANGED <<wbvarsButStack, stack>>
      BY <1>7 DEF ManagerStep
    <2>2. TypeOK' /\ UNCHANGED ended
      BY <1>0, <1>7, <2>1, ManagerStepType DEF TypeOK, wbvarsButStack
    <2>3. \A t \in Steps : step[t] = "done" => step'[t] = "done"
      BY <1>0, <1>7, DoneStays DEF ManagerStep, WalletTurns
    <2>4. QED
      BY <1>0, <2>1, <2>2, <2>3, TruthKept
  <1>8. CASE UNCHANGED vars
    BY <1>8 DEF Truth, TypeOK, WalletManagerTypeOK, EndedTruthfully, vars, wmvars, wbvarsButStack
  <1>9. QED
    BY <1>1, <1>2, <1>3, <1>4, <1>5, <1>6, <1>7, <1>8 DEF View

-----------------------------------------------------------------------------
(* Each handler, from where its call returned. *)

LEMMA ReturnsTruth ==
    ASSUME Truth, Return
    PROVE  Truth'
  <1>0. TypeOK /\ stack \in Seq(WalletFrames) /\ Truthful(stack, step) /\ EndedTruthfully
    BY DEF Truth, TypeOK
  <1> DEFINE Busy == /\ Top \in WalletFrames /\ Below \in Seq(WalletFrames)
                     /\ FrameTruthful(Top, step) /\ Truthful(Below, step)
  <1>a. ASSUME NEW call, Returning(call)
        PROVE  Busy
    <2>1. stack # <<>>
      BY <1>a DEF Returning
    <2>2. QED
      BY <1>0, <2>1, TopBelow, TopBelowTruthful
  <1> HIDE DEF Busy
  <1>b. ASSUME Busy, TypeOK', UNCHANGED <<step, ended>>,
               stack' = Below \/ Truthful(stack', step)
        PROVE  Truth'
    BY <1>0, <1>b DEF Busy, Truth, EndedTruthfully
  <1>1. CASE SettingsFailed \/ RestRead \/ PasswordCreated
    <2>1. Busy
      BY <1>1, <1>a DEF SettingsFailed, RestRead, PasswordCreated
    <2>2. stack' = Below /\ UNCHANGED wmvars /\ UNCHANGED <<unlock, polling, shown, ended>>
      BY <1>1 DEF SettingsFailed, RestRead, PasswordCreated
    <2>3. walletError' \in WalletErrors /\ reading' \in BOOLEAN
      BY <1>0, <1>1 DEF SettingsFailed, RestRead, PasswordCreated, Replied, TypeOK, WalletErrors
    <2>4. TypeOK'
      BY <1>0, <2>1, <2>2, <2>3 DEF Busy, TypeOK, WalletManagerTypeOK, wmvars
    <2>5. QED
      BY <1>b, <2>1, <2>2, <2>4 DEF wmvars
  <1>2. CASE SettingsRead
    <2>1. Busy
      BY <1>2, <1>a DEF SettingsRead
    <2> DEFINE f == [Top EXCEPT !.call = "rest"]
    <2>2. f \in WalletFrames /\ FrameTruthful(f, step)
      BY <2>1 DEF Busy, WalletFrames, WalletCalls, FrameTruthful, HeardDone
    <2>3. stack' = Push(f, Below) /\ shown' \subseteq Wallets
      BY <1>2, <2>1 DEF SettingsRead, Busy, WalletFrames
    <2> HIDE DEF f
    <2>4. stack' \in Seq(WalletFrames) /\ Truthful(stack', step)
      BY <2>1, <2>2, <2>3, PushPop, PushTruthful DEF Busy
    <2>5. TypeOK'
      BY <1>0, <1>2, <2>3, <2>4 DEF SettingsRead, TypeOK, WalletManagerTypeOK, wmvars
    <2>6. QED
      BY <1>2, <1>b, <2>1, <2>4, <2>5 DEF SettingsRead, wmvars
  <1>3. CASE BeginFailed \/ EditAnswered
    <2>1. Busy
      BY <1>3, <1>a DEF BeginFailed, EditAnswered
    <2>2. RefreshWallets(Below) /\ UNCHANGED <<step, ended>>
      BY <1>3 DEF BeginFailed, EditAnswered
    <2>3. walletError' \in WalletErrors
      BY <1>3 DEF BeginFailed, EditAnswered, Replied, WalletErrors
    <2>4. reading' \in BOOLEAN /\ losses' \in 0 .. MaxLosses /\ stack' \in Seq(WalletFrames)
          /\ Truthful(stack', step)
      BY <1>0, <2>1, <2>2, RefreshWalletsType, RefreshWalletsTruthful DEF Busy
    <2>5. TypeOK'
      BY <1>0, <1>3, <2>3, <2>4 DEF BeginFailed, EditAnswered, TypeOK, WalletManagerTypeOK
    <2>6. QED
      BY <1>b, <2>1, <2>2, <2>4, <2>5
  <1>4. CASE BeginWorking
    <2>1. Busy
      BY <1>4, <1>a DEF BeginWorking
    <2>2. Top.u \in Unlocks
      BY <2>1 DEF Busy, WalletFrames
    <2>3. FollowStep(Top.u, Below)
      BY <1>4 DEF BeginWorking
    <2>4. /\ WalletManagerTypeOK' /\ polling' \in BOOLEAN /\ stack' \in Seq(WalletFrames)
          /\ step' = step
          /\ Truthful(stack', step)
      BY <1>0, <2>1, <2>2, <2>3, FollowStepFacts DEF Busy
    <2>5. TypeOK'
      BY <1>0, <1>4, <2>2, <2>4 DEF BeginWorking, TypeOK, WalletErrors
    <2>6. QED
      BY <1>4, <1>b, <2>1, <2>4, <2>5 DEF BeginWorking
  (* The three ways a step ends: what endStep() says is what was heard.    *)
  <1>5. ASSUME Busy, NEW u \in Unlocks, NEW ok \in BOOLEAN, EndStep(u, ok, Below),
               ok /\ u.step # NoStep => step[u.step] = "done",
               walletError' \in WalletErrors, UNCHANGED shown
        PROVE  Truth'
    <2>1. /\ WalletManagerTypeOK'
          /\ polling' \in BOOLEAN /\ unlock' \in Unlocks /\ reading' \in BOOLEAN
          /\ ended' \in [Steps -> Seq(BOOLEAN)]
          /\ stack' \in Seq(WalletFrames)
          /\ step' = step
          /\ Truthful(stack', step)
          /\ EndedTruthfully'
      BY <1>0, <1>5, EndStepFacts DEF Busy
    <2>2. TypeOK'
      BY <1>0, <1>5, <2>1 DEF TypeOK
    <2>3. QED
      BY <2>1, <2>2 DEF Truth
  <1>6. CASE BeginDone
    <2>1. Busy /\ NoUnlock.step = NoStep
      BY <1>6, <1>a DEF BeginDone, NoUnlock
    <2>2. EndStep(NoUnlock, TRUE, Below) /\ walletError' \in WalletErrors /\ UNCHANGED shown
      BY <1>6 DEF BeginDone, WalletErrors
    <2>3. QED
      BY <1>5, <2>1, <2>2, NoUnlockType
  <1>7. CASE StepEnds
    <2>1. Busy /\ Top.call = "progress"
      BY <1>7, <1>a DEF StepEnds, Returning, Top
    <2>2. Top.u \in Unlocks /\ (Top.answer = "done" => step[Top.u.step] = "done")
      BY <2>1 DEF Busy, WalletFrames, FrameTruthful, HeardDone
    <2>3. /\ EndStep(Top.u, Top.answer = "done", Below)
          /\ walletError' \in WalletErrors /\ UNCHANGED shown
      BY <1>0, <1>7 DEF StepEnds, TypeOK
    <2>4. (Top.answer = "done") \in BOOLEAN
      OBVIOUS
    <2>5. QED
      BY <1>5, <2>1, <2>2, <2>3, <2>4
  <1>8. CASE RetryEnds
    <2>1. Busy /\ Top.call = "retry"
      BY <1>8, <1>a DEF RetryEnds, Returning, Top
    <2>2. Top.u \in Unlocks /\ (Top.answer = "ok" => step[Top.u.step] = "done")
      BY <2>1 DEF Busy, WalletFrames, FrameTruthful, HeardDone
    <2>3. /\ EndStep(Top.u, Top.answer = "ok", Below)
          /\ walletError' \in WalletErrors /\ UNCHANGED shown
      BY <1>0, <1>8 DEF RetryEnds, TypeOK, WalletErrors
    <2>4. (Top.answer = "ok") \in BOOLEAN
      OBVIOUS
    <2>5. QED
      BY <1>5, <2>1, <2>2, <2>3, <2>4
  <1>9. CASE StepWorking \/ StepNeedsPassword \/ RetryWrong
    <2>1. Busy
      BY <1>9, <1>a DEF StepWorking, StepNeedsPassword, RetryWrong
    <2>2. Top.call \in {"progress", "retry"}
      BY <1>9 DEF StepWorking, StepNeedsPassword, RetryWrong, Returning, Top
    <2>3. Top.u \in Unlocks /\ Top.u.step # NoStep
      BY <2>1, <2>2 DEF Busy, WalletFrames
    <2>4. [Top.u EXCEPT !.state = "needs_password"] \in Unlocks
      BY <2>3 DEF Unlocks, UnderWay
    <2>5. unlock' \in Unlocks /\ polling' \in BOOLEAN
      BY <1>0, <1>9, <2>3, <2>4 DEF StepWorking, StepNeedsPassword, RetryWrong, TypeOK
    <2>6. stack' = Below /\ UNCHANGED wmvars /\ UNCHANGED <<walletError, shown, reading, ended>>
      BY <1>9 DEF StepWorking, StepNeedsPassword, RetryWrong
    <2>7. TypeOK'
      BY <1>0, <2>1, <2>5, <2>6 DEF Busy, TypeOK, WalletManagerTypeOK, wmvars
    <2>8. QED
      BY <1>b, <2>1, <2>6, <2>7 DEF wmvars
  <1>10. CASE CancelReturns
    <2>1. Busy
      BY <1>10, <1>a DEF CancelReturns
    <2>2. Top.u \in Unlocks /\ Signal(Top.u, FALSE) /\ step' = step
      BY <1>10, <2>1 DEF CancelReturns, Busy, WalletFrames, wmvars
    <2>3. ended' \in [Steps -> Seq(BOOLEAN)] /\ EndedTruthfully'
      BY <1>0, <2>2, SignalFacts
    <2>4. TypeOK'
      BY <1>0, <1>10, <2>1, <2>3, NoUnlockType DEF CancelReturns, Busy, TypeOK, WalletManagerTypeOK, wmvars
    <2>5. QED
      BY <1>10, <2>1, <2>2, <2>3, <2>4 DEF CancelReturns, Busy, Truth
  <1>11. CASE PasswordAnswered
    <2>1. Busy
      BY <1>11, <1>a DEF PasswordAnswered
    <2> DEFINE f == [Top EXCEPT !.call = "created"]
    <2>2. f \in WalletFrames /\ FrameTruthful(f, step)
      BY <2>1 DEF Busy, WalletFrames, WalletCalls, FrameTruthful, HeardDone
    <2>3. RefreshWallets(Push(f, Below)) /\ UNCHANGED <<step, ended>>
      BY <1>11 DEF PasswordAnswered
    <2> HIDE DEF f
    <2>4. Push(f, Below) \in Seq(WalletFrames) /\ Truthful(Push(f, Below), step)
      BY <2>1, <2>2, PushPop, PushTruthful DEF Busy
    <2>5. reading' \in BOOLEAN /\ losses' \in 0 .. MaxLosses /\ stack' \in Seq(WalletFrames)
          /\ Truthful(stack', step)
      BY <1>0, <2>3, <2>4, RefreshWalletsType, RefreshWalletsTruthful
    <2>6. TypeOK'
      BY <1>0, <1>11, <2>5 DEF PasswordAnswered, TypeOK, WalletManagerTypeOK
    <2>7. QED
      BY <1>b, <2>1, <2>3, <2>5, <2>6
  <1>12. QED
    BY <1>1, <1>2, <1>3, <1>4, <1>6, <1>7, <1>8, <1>9, <1>10, <1>11 DEF Return

LEMMA TruthInvariant == Spec => []Truth
  <1>1. Truth /\ [Next]_vars => Truth'
    BY StartsTruth, ReturnsTruth DEF Next
  <1>2. QED
    BY InitTruth, <1>1, PTL DEF Spec

(* Every variable of the wallet half, the blocked calls included, keeps    *)
(* its type: only a step under way has a handle, and whatever asks about a *)
(* step has one.                                                           *)
THEOREM TypeCorrect == Spec => []TypeOK
  <1>1. Truth => TypeOK
    BY DEF Truth
  <1>2. QED
    BY <1>1, TruthInvariant, PTL

(* unlockEnded says that a step was done only of one the manager finished, *)
(* however calls nest and whichever of them are lost.                      *)
THEOREM EndsAreTruthful == Spec => []EndedTruthfully
  <1>1. Truth => EndedTruthfully
    BY DEF Truth
  <1>2. QED
    BY <1>1, TruthInvariant, PTL

-----------------------------------------------------------------------------
(* One reading at a time: m_walletsInFlight is a guard that refreshWallets *)
(* takes before its first call and releases after its last.                *)

Readers == {f \in WalletFrames : f.call \in {"settings", "rest"}}

LEMMA ReadingIsGuard ==
    ASSUME stack \in Seq(WalletFrames)
    PROVE  OneReadingAtATime <=> OneHolds(reading, stack, Readers)
  <1>1. \A i \in DOMAIN stack : stack[i] \in WalletFrames
    OBVIOUS
  <1>2. Readings = Holding(stack, Readers)
    BY <1>1 DEF Readings, Holding, Readers
  <1>3. QED
    BY <1>2 DEF OneReadingAtATime, OneHolds

LEMMA RefreshWalletsGuards ==
    ASSUME TypeOK, NEW s \in Seq(WalletFrames), RefreshWallets(s), OneHolds(reading, s, Readers)
    PROVE  OneHolds(reading', stack', Readers)
  <1>1. CASE stack' = s /\ reading' = reading
    BY <1>1
  <1>2. ASSUME reading = FALSE, reading' = TRUE,
               NEW f \in WalletFrames, f.call = "settings", stack' = Push(f, s)
        PROVE  OneHolds(reading', stack', Readers)
    <2>1. f \in Readers
      BY <1>2 DEF Readers
    <2>2. OneHolds(TRUE, Push(f, s), Readers)
      BY <1>2, <2>1, PushHolder
    <2>3. QED
      BY <1>2, <2>2
  <1>3. QED
    BY <1>1, <1>2, RefreshWalletsType

(* Any other call is pushed, or none. *)
LEMMA OthersGuard ==
    ASSUME NEW s \in Seq(WalletFrames), NEW guard \in BOOLEAN, OneHolds(guard, s, Readers),
           NEW call \in WalletCalls \ {"settings", "rest"}, NEW u, NEW answer,
           stack' = Push(WalletFrame(call, u, answer), s)
    PROVE  OneHolds(guard, stack', Readers)
  <1> DEFINE F == WalletFrames \cup {WalletFrame(call, u, answer)}
  <1>1. s \in Seq(F) /\ WalletFrame(call, u, answer) \in F
    OBVIOUS
  <1>2. WalletFrame(call, u, answer) \notin Readers
    BY DEF Readers, WalletFrame
  <1> HIDE DEF F
  <1>3. QED
    BY <1>1, <1>2, PushOther

LEMMA FollowStepGuards ==
    ASSUME NEW u, NEW s \in Seq(WalletFrames), NEW guard \in BOOLEAN,
           FollowStep(u, s), OneHolds(guard, s, Readers)
    PROVE  OneHolds(guard, stack', Readers)
  <1>1. CASE u.state = "device"
    <2>1. PICK got \in StepAnswers : stack' = Push(WalletFrame("progress", u, got), s)
      BY <1>1 DEF FollowStep
    <2>2. "progress" \in WalletCalls \ {"settings", "rest"}
      BY DEF WalletCalls
    <2>3. QED
      BY <2>1, <2>2, OthersGuard
  <1>2. CASE u.state # "device"
    BY <1>2 DEF FollowStep
  <1>3. QED
    BY <1>1, <1>2

(* Every call of the view is another. *)
LEMMA ViewGuards ==
    ASSUME stack \in Seq(WalletFrames), reading \in BOOLEAN,
           OneHolds(reading, stack, Readers), View
    PROVE  OneHolds(reading', stack', Readers)
  <1>1. reading' = reading
    BY DEF View, BeginStep, RetryUnlock, CancelUnlock, EditWallets, wbvarsButStack
  <1>2. CASE UNCHANGED stack
    BY <1>1, <1>2
  <1>3. ASSUME NEW call \in WalletCalls \ {"settings", "rest"}, NEW u, NEW answer,
               stack' = Push(WalletFrame(call, u, answer), stack)
        PROVE  OneHolds(reading', stack', Readers)
    BY <1>1, <1>3, OthersGuard
  <1>4. ASSUME NEW w \in Wallets, BeginStep(w)
        PROVE  \/ UNCHANGED stack
               \/ \E u, answer : stack' = Push(WalletFrame("begin", u, answer), stack)
    BY <1>4 DEF BeginStep
  <1>5. ASSUME RetryUnlock
        PROVE  \/ UNCHANGED stack
               \/ \E u, answer : stack' = Push(WalletFrame("retry", u, answer), stack)
    BY <1>5 DEF RetryUnlock
  <1>6. ASSUME CancelUnlock
        PROVE  \/ UNCHANGED stack
               \/ \E u, answer : stack' = Push(WalletFrame("cancel", u, answer), stack)
    BY <1>6 DEF CancelUnlock
  <1>7. ASSUME NEW call \in {"edit", "create", "change"}, EditWallets(call)
        PROVE  \E u, answer : stack' = Push(WalletFrame(call, u, answer), stack)
    BY <1>7 DEF EditWallets
  <1>8. {"begin", "retry", "cancel", "edit", "create", "change"}
            \subseteq WalletCalls \ {"settings", "rest"}
    BY DEF WalletCalls
  <1>9. QED
    BY <1>2, <1>3, <1>4, <1>5, <1>6, <1>7, <1>8 DEF View

LEMMA ReturnGuards ==
    ASSUME TypeOK, OneHolds(reading, stack, Readers), Return
    PROVE  OneHolds(reading', stack', Readers)
  <1>0. stack \in Seq(WalletFrames) /\ reading \in BOOLEAN
    BY DEF TypeOK
  (* A call that reads no wallets returned: the guard is as it was. *)
  <1>a. ASSUME NEW call \in WalletCalls \ {"settings", "rest"}, Returning(call)
        PROVE  /\ Below \in Seq(WalletFrames) /\ Top \in WalletFrames
               /\ OneHolds(reading, Below, Readers)
    <2>1. stack # <<>> /\ Head(stack).call = call
      BY <1>a DEF Returning
    <2>2. Head(stack) \notin Readers
      BY <2>1 DEF Readers
    <2>3. QED
      BY <1>0, <2>1, <2>2, TopBelow, PopOther DEF Below
  (* One that does returned: the guard was set, and nobody below holds it. *)
  <1>b. ASSUME NEW call \in {"settings", "rest"}, Returning(call)
        PROVE  /\ Below \in Seq(WalletFrames) /\ Top \in WalletFrames
               /\ reading = TRUE /\ OneHolds(FALSE, Below, Readers)
    <2>1. stack # <<>> /\ Head(stack).call = call
      BY <1>b DEF Returning
    <2>2. Head(stack) \in Readers
      BY <1>0, <2>1 DEF Readers
    <2>3. QED
      BY <1>0, <2>1, <2>2, TopBelow, PopHolder DEF Below
  <1>c. {"begin", "progress", "retry", "cancel", "edit", "create", "created", "change"}
            \subseteq WalletCalls \ {"settings", "rest"}
    BY DEF WalletCalls
  <1>1. CASE SettingsFailed \/ RestRead
    BY <1>b, <1>1 DEF SettingsFailed, RestRead
  <1>2. CASE SettingsRead
    <2>1. /\ Below \in Seq(WalletFrames) /\ Top \in WalletFrames
          /\ reading = TRUE /\ OneHolds(FALSE, Below, Readers)
      BY <1>b, <1>2 DEF SettingsRead
    <2>2. stack' = Push([Top EXCEPT !.call = "rest"], Below) /\ reading' = TRUE
      BY <1>2, <2>1 DEF SettingsRead
    <2>3. [Top EXCEPT !.call = "rest"] \in Readers
      BY <2>1 DEF WalletFrames, WalletCalls, Readers
    <2>4. [Top EXCEPT !.call = "rest"] \in WalletFrames
      BY <2>3 DEF Readers
    <2>5. QED
      BY <2>1, <2>2, <2>3, <2>4, PushHolder
  <1>3. CASE StepWorking \/ StepNeedsPassword \/ RetryWrong \/ CancelReturns \/ PasswordCreated
    <2>1. reading' = reading /\ stack' = Below
      BY <1>3 DEF StepWorking, StepNeedsPassword, RetryWrong, CancelReturns, PasswordCreated
    <2>2. QED
      BY <1>a, <1>c, <1>3, <2>1 DEF StepWorking, StepNeedsPassword, RetryWrong, CancelReturns,
                                    PasswordCreated
  <1>4. CASE BeginFailed \/ EditAnswered \/ BeginDone \/ StepEnds \/ RetryEnds
    <2>1. RefreshWallets(Below)
      BY <1>4 DEF BeginFailed, EditAnswered, BeginDone, StepEnds, RetryEnds, EndStep
    <2>2. Below \in Seq(WalletFrames) /\ OneHolds(reading, Below, Readers)
      BY <1>a, <1>c, <1>4 DEF BeginFailed, EditAnswered, BeginDone, StepEnds, RetryEnds
    <2>3. QED
      BY <2>1, <2>2, RefreshWalletsGuards
  <1>5. CASE BeginWorking
    <2>1. FollowStep(Top.u, Below) /\ reading' = reading
      BY <1>5 DEF BeginWorking
    <2>2. Below \in Seq(WalletFrames) /\ OneHolds(reading, Below, Readers)
      BY <1>a, <1>c, <1>5 DEF BeginWorking
    <2>3. QED
      BY <1>0, <2>1, <2>2, FollowStepGuards
  <1>6. CASE PasswordAnswered
    <2>1. /\ Below \in Seq(WalletFrames) /\ Top \in WalletFrames /\ Top.call = "create"
          /\ OneHolds(reading, Below, Readers)
      BY <1>a, <1>c, <1>6 DEF PasswordAnswered, Returning, Top
    <2> DEFINE f == [Top EXCEPT !.call = "created"]
    <2>2. f \in WalletFrames /\ f \notin Readers
      BY <2>1 DEF WalletFrames, WalletCalls, Readers
    <2>3. RefreshWallets(Push(f, Below))
      BY <1>6 DEF PasswordAnswered
    <2> HIDE DEF f
    <2>4. Push(f, Below) \in Seq(WalletFrames) /\ OneHolds(reading, Push(f, Below), Readers)
      BY <1>0, <2>1, <2>2, PushPop, PushOther
    <2>5. QED
      BY <2>3, <2>4, RefreshWalletsGuards
  <1>7. QED
    BY <1>1, <1>2, <1>3, <1>4, <1>5, <1>6 DEF Return

(* m_walletsInFlight is set exactly while one refreshWallets() is under    *)
(* way, however deep calls nest and whichever handler reads the wallets:   *)
(* the Wallets view is never stuck behind a guard nobody will release.     *)
THEOREM OneReading == Spec => []OneReadingAtATime
  <1>1. Init => OneHolds(reading, stack, Readers)
    <2> SUFFICES ASSUME reading = FALSE, stack = <<>>
                 PROVE  OneHolds(reading, stack, Readers)
      BY DEF Init
    <2>1. Holding(stack, Readers) = {}
      BY DEF Holding
    <2>2. QED
      BY <2>1 DEF OneHolds
  <1>2. TypeOK /\ OneHolds(reading, stack, Readers) /\ [Next]_vars
           => OneHolds(reading, stack, Readers)'
    <2> SUFFICES ASSUME TypeOK, OneHolds(reading, stack, Readers), [Next]_vars
                 PROVE  OneHolds(reading', stack', Readers)
      BY DEF OneHolds, Holding, Readers, WalletFrames
    <2>0. stack \in Seq(WalletFrames) /\ reading \in BOOLEAN
      BY DEF TypeOK
    <2>1. CASE ReadWallets
      BY <2>0, <2>1, RefreshWalletsGuards DEF ReadWallets
    <2>2. CASE UnlockPoll
      BY <2>0, <2>2, FollowStepGuards DEF UnlockPoll
    <2>3. CASE ManagerStep \/ UNCHANGED vars
      BY <2>3 DEF ManagerStep, vars, wbvarsButStack
    <2>4. QED
      BY <2>0, <2>1, <2>2, <2>3, ViewGuards, ReturnGuards DEF Next
  <1>3. TypeOK /\ OneHolds(reading, stack, Readers) => OneReadingAtATime
    BY ReadingIsGuard DEF TypeOK
  <1>4. QED
    BY <1>1, <1>2, <1>3, TypeCorrect, PTL DEF Spec
=============================================================================
