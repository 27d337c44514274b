------------------------ MODULE UnlockIntentsProofs ------------------------
(***************************************************************************)
(* Proofs about UnlockIntents, for every set of wallets, opens, intents    *)
(* and asks, and every depth of nesting and number of lost calls.          *)
(***************************************************************************)
EXTENDS UnlockIntents, CallStackProofs

(* The wallets every ask of which is remembered as one of which a wallet   *)
(* was unlocked, and those every ask of which is so or as one about a      *)
(* wallet of which a step ended well.                                      *)
opened == {w \in Wallets : \A i \in Intents : w \in asks[i].seeds => i \in openedFor}
ended == {w \in Wallets : \A i \in Intents : w \in asks[i].seeds => i \in openedFor \cup steppedFor}

(* An ask is met: its open approved, or else a wallet it named unlocked,   *)
(* or a step about one ended well.                                         *)
Met(i) ==
    IF asks[i].open # NoOpen THEN rec[asks[i].open] = "approved"
    ELSE i \in openedFor \cup steppedFor

(* What is on its way to the view is true of the manager. *)
TrueMessages ==
    {m \in Messages :
        /\ m.kind = "wallets" => m.value \subseteq opened
        /\ m.kind = "ended" /\ m.said = "ok" => m.value \in ended
        /\ m.kind = "settled" => m.said = rec[m.value]}

Ended == {o \in OpenHandles : rec[o] \in Ends}

CarriedIsTrue ==
    /\ wire \in Seq(TrueMessages)
    /\ inbox \in Seq(Ended)
    /\ walletsJson \subseteq opened /\ unlocked \subseteq opened

(* The sheet of an intent is up for what the intent asked. *)
SheetIsHeld ==
    /\ unlockIntent # NoIntent =>
          /\ SheetUp /\ Asked(unlockIntent)
          /\ unlockOpen = asks[unlockIntent].open
          /\ unlockOpen = NoOpen => unlockSeed \in asks[unlockIntent].seeds
    /\ unlockQueue # {} =>
          /\ unlockIntent # NoIntent
          /\ unlockQueue \subseteq asks[unlockIntent].seeds \ {unlockSeed}
    /\ unlockedSome => unlockIntent # NoIntent /\ Met(unlockIntent)

(* What is remembered is so of intents that asked. *)
AskedFirst ==
    /\ \A i \in inTime : Asked(i) /\ asks[i].open \in OpenHandles
    /\ \A i \in Intents : i \in openedFor \cup steppedFor => Asked(i)

SettledOf(o) == {m \in Messages : m.kind = "settled" /\ m.value = o}

UnderWay(o) == HasIn(inbox, {o}) \/ HasIn(wire, SettledOf(o))

AnswersComing ==
    \A i \in Intents : LET o == asks[i].open IN
        Waiting(i) /\ i \in inTime /\ rec[o] \in Ends => UnderWay(o)

SheetInv == SheetIsHeld /\ AskedFirst /\ WaitingHasSheet /\ OkIsMet

IInv == TypeOK /\ CarriedIsTrue /\ seen.wallets \subseteq opened /\ SheetInv /\ AnswersComing

-----------------------------------------------------------------------------
(* Messages *)

(* A message received is one of the kinds, each with its fields. *)
LEMMA MessageKinds ==
    ASSUME NEW m \in Messages
    PROVE  /\ m.kind = "wallets" => m.value \in SUBSET Wallets
           /\ m.kind = "opens" => m.value \in SUBSET OpenHandles
           /\ m.kind = "open" => m.value \in OpenOrNone
           /\ m.kind = "ended" => m.value \in Wallets /\ m.said \in {"ok", "not ok"}
           /\ m.kind = "settled" => m.value \in OpenHandles /\ m.said \in Ends
  BY DEF Messages

(* What was true stays true: what ended stays as it is, and what is        *)
(* remembered is.                                                          *)
Steady ==
    /\ rec' \in [OpenHandles -> {"live"} \cup Ends]
    /\ \A o \in OpenHandles : rec[o] \in Ends => rec'[o] = rec[o]
    /\ opened \subseteq opened' /\ ended \subseteq ended'

LEMMA SteadyIfUnchanged ==
    ASSUME OpensTypeOK, UNCHANGED rec, opened \subseteq opened', ended \subseteq ended'
    PROVE  Steady
  BY DEF OpensTypeOK, Steady

LEMMA SteadyTruth ==
    ASSUME Steady
    PROVE  TrueMessages \subseteq TrueMessages' /\ Ended \subseteq Ended'
  <1>1. ASSUME NEW m \in TrueMessages
        PROVE  m \in TrueMessages'
    <2>1. m \in Messages
      BY DEF TrueMessages
    <2>2. m.kind = "wallets" => m.value \subseteq opened'
      BY DEF TrueMessages, Steady
    <2>3. m.kind = "ended" /\ m.said = "ok" => m.value \in ended'
      BY DEF TrueMessages, Steady
    <2>4. m.kind = "settled" => m.said = rec'[m.value]
      BY <2>1, MessageKinds DEF TrueMessages, Steady
    <2>5. QED
      BY <2>1, <2>2, <2>3, <2>4 DEF TrueMessages
  <1>2. Ended \subseteq Ended'
    BY DEF Ended, Steady
  <1>3. QED
    BY <1>1, <1>2

LEMMA CarriedStays ==
    ASSUME Steady, CarriedIsTrue
    PROVE  wire \in Seq(TrueMessages') /\ inbox \in Seq(Ended') /\ walletsJson \subseteq opened'
  BY SteadyTruth, SeqWiden DEF CarriedIsTrue, Steady

(* What the backend may send. *)
LEMMA OpenMessage ==
    ASSUME NEW old, NEW o \in OpenOrNone
    PROVE  Change("open", old, o) \in Seq(TrueMessages')
  <1>1. [kind |-> "open", value |-> o] \in TrueMessages'
    BY DEF TrueMessages, Messages
  <1>2. QED
    BY <1>1 DEF Change

LEMMA WalletsMessage ==
    ASSUME NEW old, NEW ws \in SUBSET Wallets, ws \subseteq opened'
    PROVE  Change("wallets", old, ws) \in Seq(TrueMessages')
  <1>1. [kind |-> "wallets", value |-> ws] \in TrueMessages'
    BY DEF TrueMessages, Messages
  <1>2. QED
    BY <1>1 DEF Change

LEMMA OpensMessage ==
    ASSUME NEW old, NEW os \in SUBSET OpenHandles
    PROVE  Change("opens", old, os) \in Seq(TrueMessages')
  <1>1. [kind |-> "opens", value |-> os] \in TrueMessages'
    BY DEF TrueMessages, Messages
  <1>2. QED
    BY <1>1 DEF Change

LEMMA EndedMessage ==
    ASSUME NEW w \in Wallets, NEW said \in {"ok", "not ok"}, said = "ok" => w \in ended'
    PROVE  Signal("ended", w, said) \in Seq(TrueMessages')
  <1> DEFINE m == [kind |-> "ended", value |-> w, said |-> said]
  <1>1. m \in TrueMessages'
    BY DEF TrueMessages, Messages
  <1>2. Signal("ended", w, said) = <<m>>
    BY DEF Signal
  <1> HIDE DEF m
  <1>3. <<m>> \in Seq(TrueMessages')
    BY <1>1, OneIn
  <1>4. QED
    BY <1>2, <1>3

LEMMA SettledMessage ==
    ASSUME NEW o \in Ended'
    PROVE  /\ Signal("settled", o, rec'[o]) \in Seq(TrueMessages')
           /\ HasIn(Signal("settled", o, rec'[o]), SettledOf(o))
  <1> DEFINE m == [kind |-> "settled", value |-> o, said |-> rec'[o]]
  <1>1. m \in Messages /\ m.kind = "settled" /\ m.value = o /\ m.said = rec'[o]
    BY DEF Ended, Messages, Ends
  <1>2. m \in TrueMessages'
    BY <1>1 DEF TrueMessages
  <1>3. m \in SettledOf(o)
    BY <1>1 DEF SettledOf
  <1>4. Signal("settled", o, rec'[o]) = <<m>>
    BY DEF Signal
  <1> HIDE DEF m
  <1>5. <<m>> \in Seq(TrueMessages')
    BY <1>2
  <1>6. HasIn(<<m>>, SettledOf(o))
    BY <1>3 DEF HasIn
  <1>7. QED
    BY <1>4, <1>5, <1>6

-----------------------------------------------------------------------------
(* The backend's steps *)

(* What a step of the backend, or of the manager behind it, does: the view *)
(* is told nothing but what is so, and hears of every open that ends.      *)
BackStep ==
    /\ Steady
    /\ calls' \in Seq(Slots) /\ stack' \in Seq(Frames) /\ losses' \in 0 .. MaxLosses
    /\ walletsJson' \in SUBSET Wallets /\ opensJson' \in SUBSET OpenHandles /\ openJson' \in OpenOrNone
    /\ unlocked' \in SUBSET Wallets /\ offered' \in SUBSET Wallets
    /\ CarriedIsTrue'
    /\ \A o \in OpenHandles : rec'[o] \in Ends /\ (rec[o] \in Ends => UnderWay(o)) => UnderWay(o)'

BackInv == OpensTypeOK /\ CarriedIsTrue

(* A step of the backend, or behind it, is remembered. *)
Remembers ==
    /\ opened \subseteq opened' /\ ended \subseteq ended'
    /\ unlocked' \in SUBSET Wallets => unlocked' \subseteq opened'

EndedWell(w) == {m \in Messages : m.kind = "ended" /\ m.said = "ok" /\ m.value = w}

LEMMA StepRemembers ==
    ASSUME RememberStep
    PROVE  Remembers /\ \A w \in Wallets : HasIn(wire', EndedWell(w)) => w \in ended'
  <1>1. /\ openedFor' = openedFor \cup {i \in Intents : asks[i].seeds \cap unlocked' # {}}
        /\ steppedFor' = (steppedFor \cup {i \in Intents : asks[i].seeds \cap MayHear' # {}}) \ openedFor'
        /\ asks' = asks
    BY DEF RememberStep
  <1>2. /\ openedFor \subseteq openedFor'
        /\ openedFor \cup steppedFor \subseteq openedFor' \cup steppedFor'
    BY <1>1
  <1>3. opened \subseteq opened' /\ ended \subseteq ended'
    BY <1>1, <1>2 DEF opened, ended
  <1>4. unlocked' \in SUBSET Wallets => unlocked' \subseteq opened'
    BY <1>1 DEF opened
  <1>5. ASSUME NEW w \in Wallets, HasIn(wire', EndedWell(w))
        PROVE  w \in ended'
    <2>1. w \in MayHear'
      BY <1>5 DEF HasIn, EndedWell, MayHear
    <2>2. \A i \in Intents : w \in asks'[i].seeds => i \in openedFor' \cup steppedFor'
      BY <1>1, <2>1
    <2>3. QED
      BY <2>2 DEF ended
  <1>6. QED
    BY <1>3, <1>4, <1>5 DEF Remembers

LEMMA BackTypes ==
    ASSUME BackStep
    PROVE  OpensTypeOK'
  <1>1. TrueMessages' \subseteq Messages /\ Ended' \subseteq OpenHandles
    BY DEF TrueMessages, Ended
  <1>2. wire' \in Seq(Messages) /\ inbox' \in Seq(OpenHandles)
    BY <1>1, SeqWiden DEF BackStep, CarriedIsTrue
  <1>3. QED
    BY <1>2 DEF BackStep, OpensTypeOK, Steady

(* A property is set, with a signal behind it and the wallets read or not: *)
(* what was on the wire is there still, and so is the signal.              *)
LEMMA SetOpenCarries ==
    ASSUME NEW T, NEW o, NEW said \in Seq(T), wire \in Seq(T),
           Change("open", openJson, o) \in Seq(T),
           Change("wallets", walletsJson, unlocked') \in Seq(T),
           Change("opens", opensJson, opensJson') \in Seq(T),
           SetOpen(o, said) \/ SetOpenAndRefresh(o, said)
    PROVE  /\ wire' \in Seq(T)
           /\ \A S : HasIn(wire, S) \/ HasIn(said, S) => HasIn(wire', S)
  <1> DEFINE open == Change("open", openJson, o)
             wallets == Change("wallets", walletsJson, unlocked')
             opens == Change("opens", opensJson, opensJson')
             sent == (wire \o open) \o said
  <1>1. wire' = sent \/ wire' = (sent \o wallets) \o opens
    BY DEF SetOpen, SetOpenAndRefresh
  <1>2. open \in Seq(T) /\ wallets \in Seq(T) /\ opens \in Seq(T)
    OBVIOUS
  <1> HIDE DEF open, wallets, opens
  <1>3. wire \o open \in Seq(T) /\ sent \in Seq(T)
    BY <1>2
  <1>4. \A S : HasIn(wire, S) \/ HasIn(said, S) => HasIn(sent, S)
    <2>1. \A S : HasIn(wire, S) => HasIn(wire \o open, S)
      BY <1>2, HasInConcat
    <2>2. QED
      BY <1>3, <2>1, HasInConcat
  <1> HIDE DEF sent
  <1>5. sent \o wallets \in Seq(T) /\ (sent \o wallets) \o opens \in Seq(T)
    BY <1>2, <1>3
  <1>6. \A S : HasIn(sent, S) => HasIn((sent \o wallets) \o opens, S)
    <2>1. \A S : HasIn(sent, S) => HasIn(sent \o wallets, S)
      BY <1>2, <1>3, HasInConcat
    <2>2. QED
      BY <1>2, <1>5, <2>1, HasInConcat
  <1>7. QED
    BY <1>1, <1>3, <1>4, <1>5, <1>6

LEMMA SetOpenTypes ==
    ASSUME OpensTypeOK, NEW o \in OpenOrNone, NEW said, unlocked' \in SUBSET Wallets,
           SetOpen(o, said) \/ SetOpenAndRefresh(o, said)
    PROVE  /\ walletsJson' \in {walletsJson, unlocked'} /\ walletsJson' \in SUBSET Wallets
           /\ offered' \in SUBSET Wallets
           /\ opensJson' \in SUBSET OpenHandles /\ openJson' \in OpenOrNone
  BY DEF OpensTypeOK, SetOpen, SetOpenAndRefresh

(* What a step sends, whatever it is, is there among the messages. *)
LEMMA SetOpenCarried ==
    ASSUME OpensTypeOK, NEW o \in OpenOrNone, NEW said \in Seq(Messages), unlocked' \in SUBSET Wallets,
           SetOpen(o, said) \/ SetOpenAndRefresh(o, said)
    PROVE  \A S : HasIn(said, S) => HasIn(wire', S)
  <1>1. wire \in Seq(Messages) /\ opensJson' \in SUBSET OpenHandles
    BY SetOpenTypes DEF OpensTypeOK
  <1>2. /\ [kind |-> "open", value |-> o] \in Messages
        /\ [kind |-> "wallets", value |-> unlocked'] \in Messages
        /\ [kind |-> "opens", value |-> opensJson'] \in Messages
    BY <1>1 DEF Messages
  <1>3. /\ Change("open", openJson, o) \in Seq(Messages)
        /\ Change("wallets", walletsJson, unlocked') \in Seq(Messages)
        /\ Change("opens", opensJson, opensJson') \in Seq(Messages)
    BY <1>2, OneIn DEF Change
  <1>4. QED
    BY <1>1, <1>3, SetOpenCarries

LEMMA SetOpenSends ==
    ASSUME BackInv, Steady, NEW o \in OpenOrNone, NEW said \in Seq(TrueMessages'),
           unlocked' \in SUBSET Wallets, unlocked' \subseteq opened',
           SetOpen(o, said) \/ SetOpenAndRefresh(o, said)
    PROVE  /\ wire' \in Seq(TrueMessages')
           /\ walletsJson' \in SUBSET Wallets /\ walletsJson' \subseteq opened'
           /\ offered' \in SUBSET Wallets
           /\ opensJson' \in SUBSET OpenHandles /\ openJson' \in OpenOrNone
           /\ \A S : HasIn(wire, S) \/ HasIn(said, S) => HasIn(wire', S)
  <1>1. /\ walletsJson' \in {walletsJson, unlocked'} /\ walletsJson' \in SUBSET Wallets
        /\ offered' \in SUBSET Wallets
        /\ opensJson' \in SUBSET OpenHandles /\ openJson' \in OpenOrNone
    BY SetOpenTypes DEF BackInv
  <1>2. wire \in Seq(TrueMessages') /\ walletsJson \subseteq opened'
    BY CarriedStays DEF BackInv
  <1>3. /\ Change("open", openJson, o) \in Seq(TrueMessages')
        /\ Change("wallets", walletsJson, unlocked') \in Seq(TrueMessages')
        /\ Change("opens", opensJson, opensJson') \in Seq(TrueMessages')
    BY <1>1, OpenMessage, WalletsMessage, OpensMessage
  <1>4. /\ wire' \in Seq(TrueMessages')
        /\ \A S : HasIn(wire, S) \/ HasIn(said, S) => HasIn(wire', S)
    BY <1>2, <1>3, SetOpenCarries
  <1>5. QED
    BY <1>1, <1>2, <1>4

(* The same, where no open ends. *)
LEMMA SetOpenStep ==
    ASSUME BackInv, UNCHANGED <<rec, inbox>>, Remembers,
           NEW o \in OpenOrNone, NEW said \in Seq(TrueMessages'),
           unlocked' \in SUBSET Wallets,
           SetOpen(o, said) \/ SetOpenAndRefresh(o, said),
           calls' \in Seq(Slots), stack' \in Seq(Frames), losses' \in 0 .. MaxLosses
    PROVE  BackStep
  <1>1. Steady /\ unlocked' \subseteq opened'
    BY DEF BackInv, OpensTypeOK, Steady, Remembers
  <1>2. /\ wire' \in Seq(TrueMessages')
        /\ walletsJson' \in SUBSET Wallets /\ walletsJson' \subseteq opened'
        /\ offered' \in SUBSET Wallets
        /\ opensJson' \in SUBSET OpenHandles /\ openJson' \in OpenOrNone
        /\ \A S : HasIn(wire, S) => HasIn(wire', S)
    BY <1>1, SetOpenSends
  <1>3. inbox' \in Seq(Ended')
    BY <1>1, CarriedStays DEF BackInv
  <1>4. ASSUME NEW x \in OpenHandles, rec'[x] \in Ends, rec[x] \in Ends => UnderWay(x)
        PROVE  UnderWay(x)'
    <2>1. SettledOf(x)' = SettledOf(x)
      BY DEF SettledOf
    <2>2. UnderWay(x)
      BY <1>4
    <2>3. HasIn(wire, SettledOf(x)) => HasIn(wire', SettledOf(x))
      BY <1>2
    <2>4. HasIn(inbox', {x}) <=> HasIn(inbox, {x})
      BY DEF HasIn
    <2>5. QED
      BY <2>2, <2>3, <2>4 DEF UnderWay
  <1>5. CarriedIsTrue'
    BY <1>1, <1>2, <1>3 DEF CarriedIsTrue
  <1>6. QED
    BY <1>1, <1>2, <1>4, <1>5 DEF BackStep

(* An open's record settles, and its event is on its way. *)
LEMMA SettleStep ==
    ASSUME BackInv, NEW o \in OpenHandles, NEW state \in Ends, rec[o] = "live", SettleOpen(o, state),
           Remembers, UNCHANGED <<wire, walletsJson, offered, opensJson, openJson, unlocked>>,
           calls' \in Seq(Slots), stack' \in Seq(Frames), losses' \in 0 .. MaxLosses
    PROVE  BackStep
  <1>1. /\ rec' = [rec EXCEPT ![o] = state]
        /\ inbox' = Append(inbox, o)
        /\ rec \in [OpenHandles -> {"live"} \cup Ends]
    BY DEF SettleOpen, BackInv, OpensTypeOK
  <1>2. Steady /\ o \in Ended' /\ unlocked' \subseteq opened'
    BY <1>1 DEF Steady, Ended, Ends, Remembers, BackInv, OpensTypeOK
  <1>3. inbox \in Seq(Ended') /\ inbox' \in Seq(Ended')
    BY <1>1, <1>2, CarriedStays, PushIn DEF BackInv
  <1>4. CarriedIsTrue'
    BY <1>2, <1>3, CarriedStays DEF BackInv, CarriedIsTrue
  <1>5. ASSUME NEW x \in OpenHandles, rec'[x] \in Ends, rec[x] \in Ends => UnderWay(x)
        PROVE  UnderWay(x)'
    <2>1. SettledOf(x)' = SettledOf(x)
      BY DEF SettledOf
    <2>2. CASE x = o
      <3>1. HasIn(Append(inbox, o), {x})
        BY <1>2, <1>3, <2>2, HasInAppend
      <3>2. HasIn(inbox', {x})
        BY <3>1, <1>1
      <3>3. QED
        BY <3>2 DEF UnderWay, HasIn
    <2>3. CASE x # o
      <3>1. UnderWay(x)
        BY <1>1, <1>5, <2>3
      <3>2. HasIn(inbox, {x}) => HasIn(Append(inbox, o), {x})
        BY <1>2, <1>3, HasInAppend
      <3>3. HasIn(inbox, {x}) => HasIn(inbox', {x})
        BY <3>2, <1>1
      <3>4. HasIn(wire', SettledOf(x)) <=> HasIn(wire, SettledOf(x))
        BY DEF HasIn
      <3>5. QED
        BY <2>1, <3>1, <3>3, <3>4 DEF UnderWay
    <2>4. QED
      BY <2>2, <2>3
  <1>6. QED
    BY <1>2, <1>4, <1>5 DEF BackStep, BackInv, OpensTypeOK

(* Nothing the view would hear of happens. *)
LEMMA QuietStep ==
    ASSUME BackInv, Remembers, UNCHANGED <<rec, inbox, wire, walletsJson, offered, opensJson, openJson>>,
           unlocked' \in SUBSET Wallets,
           calls' \in Seq(Slots), stack' \in Seq(Frames), losses' \in 0 .. MaxLosses
    PROVE  BackStep
  <1>1. Steady /\ unlocked' \subseteq opened'
    BY DEF BackInv, OpensTypeOK, Steady, Remembers
  <1>2. CarriedIsTrue'
    BY <1>1, CarriedStays DEF BackInv, CarriedIsTrue
  <1>3. ASSUME NEW x \in OpenHandles, rec'[x] \in Ends, rec[x] \in Ends => UnderWay(x)
        PROVE  UnderWay(x)'
    BY <1>3 DEF UnderWay, SettledOf, HasIn
  <1>4. QED
    BY <1>1, <1>2, <1>3 DEF BackStep, BackInv, OpensTypeOK

LEMMA AskManagerStep ==
    ASSUME BackInv, Remembers, AskManager
    PROVE  BackStep
  <1> DEFINE slot == Head(calls)
  <1>1. slot \in Slots /\ calls' \in Seq(Slots) /\ slot.of \in OpenHandles
    <2>1. calls \in Seq(Slots) /\ calls # <<>> /\ calls' = Tail(calls)
      BY DEF AskManager, BackInv, OpensTypeOK
    <2>2. slot \in Slots /\ calls' \in Seq(Slots)
      BY <2>1, TailIn
    <2>3. QED
      BY <2>2 DEF Slots
  <1>2. PICK answer \in Answers, got \in Answers :
           /\ Managed(slot.call, slot.of, answer)
           /\ IF slot.call = "consentOpen" /\ answer = "ok"
              THEN Heard(answer, got)
              ELSE got = answer /\ UNCHANGED losses
           /\ stack' = Push([call |-> slot.call, of |-> slot.of, answer |-> got], stack)
    BY DEF AskManager
  <1>3. losses' \in 0 .. MaxLosses
    BY <1>2, LossesAssumption DEF Heard, BackInv, OpensTypeOK
  <1>4. stack' \in Seq(Frames)
    <2>1. [call |-> slot.call, of |-> slot.of, answer |-> got] \in Frames
      BY <1>1 DEF Slots, Frames
    <2>2. QED
      BY <1>2, <2>1, PushIn DEF BackInv, OpensTypeOK
  <1>5. UNCHANGED <<wire, walletsJson, offered, opensJson, openJson, unlocked>>
    BY DEF AskManager
  <1> HIDE DEF slot
  <1>6. CASE UNCHANGED <<rec, inbox>>
    BY <1>1, <1>3, <1>4, <1>5, <1>6, QuietStep DEF BackInv, OpensTypeOK
  <1>7. CASE ~UNCHANGED <<rec, inbox>>
    <2>1. rec[slot.of] = "live" /\ \E state \in Ends : SettleOpen(slot.of, state)
      BY <1>2, <1>7 DEF Managed, Ends
    <2>2. QED
      BY <1>1, <1>3, <1>4, <1>5, <2>1, SettleStep
  <1>8. QED
    BY <1>6, <1>7

LEMMA ReturnStep ==
    ASSUME BackInv, Remembers, ShowOpenReturns \/ DecisionReturns
    PROVE  BackStep
  <1>1. stack # <<>> /\ stack \in Seq(Frames) /\ stack' = Tail(stack)
    BY DEF ShowOpenReturns, DecisionReturns, Returning, Below, BackInv, OpensTypeOK
  <1>2. Top \in Frames /\ stack' \in Seq(Frames)
    BY <1>1, TailIn DEF Top
  <1>3. Top.of \in OpenOrNone /\ NoOpen \in OpenOrNone /\ openJson \in OpenOrNone
    BY <1>2 DEF Frames, OpenOrNone, BackInv, OpensTypeOK
  <1>4. PICK o \in OpenOrNone : SetOpen(o, <<>>) \/ SetOpenAndRefresh(o, <<>>)
    <2>1. CASE ShowOpenReturns
      BY <1>3, <2>1 DEF ShowOpenReturns
    <2>2. CASE DecisionReturns
      BY <1>3, <2>2 DEF DecisionReturns
    <2>3. QED
      BY <2>1, <2>2
  <1>5. UNCHANGED <<calls, losses, accessVars>>
    BY DEF ShowOpenReturns, DecisionReturns
  <1>6. <<>> \in Seq(TrueMessages')
    OBVIOUS
  <1>7. UNCHANGED <<rec, inbox, unlocked>>
    BY <1>5 DEF accessVars
  <1>8. unlocked' \in SUBSET Wallets
    BY <1>7 DEF BackInv, OpensTypeOK
  <1>9. calls' \in Seq(Slots) /\ losses' \in 0 .. MaxLosses
    BY <1>5 DEF BackInv, OpensTypeOK
  <1>10. QED
    BY <1>2, <1>4, <1>6, <1>7, <1>8, <1>9, SetOpenStep

LEMMA EndStepStep ==
    ASSUME BackInv, RememberStep, NEW w \in Wallets, NEW ok \in BOOLEAN, EndStep(w, ok)
    PROVE  BackStep
  <1> DEFINE said == IF ok THEN "ok" ELSE "not ok"
  <1>1. unlocked' \in SUBSET Wallets /\ openJson \in OpenOrNone
    BY DEF BackInv, OpensTypeOK, EndStep
  <1>2. Remembers /\ (ok => w \in ended')
    <2>1. ASSUME ok
          PROVE  HasIn(wire', EndedWell(w))
      <3> DEFINE m == [kind |-> "ended", value |-> w, said |-> "ok"]
      <3>1. m \in Messages /\ m \in EndedWell(w)
        BY DEF Messages, EndedWell
      <3>2. SetOpenAndRefresh(openJson, <<m>>)
        BY <2>1 DEF EndStep, Signal
      <3> HIDE DEF m
      <3>3. HasIn(<<m>>, EndedWell(w)) /\ <<m>> \in Seq(Messages)
        BY <3>1, OneIn DEF HasIn
      <3>4. QED
        BY <1>1, <3>2, <3>3, SetOpenCarried DEF BackInv
    <2>2. QED
      BY <2>1, StepRemembers
  <1>3. Signal("ended", w, said) \in Seq(TrueMessages')
    BY <1>2, EndedMessage
  <1>4. UNCHANGED <<calls, stack, losses, rec, inbox>> /\ SetOpenAndRefresh(openJson, Signal("ended", w, said))
    BY DEF EndStep
  <1>5. calls' \in Seq(Slots) /\ stack' \in Seq(Frames) /\ losses' \in 0 .. MaxLosses
    BY <1>4 DEF BackInv, OpensTypeOK
  <1>6. QED
    BY <1>1, <1>2, <1>3, <1>4, <1>5, SetOpenStep

LEMMA RefreshStep ==
    ASSUME BackInv, Remembers, Refresh
    PROVE  BackStep
  <1>1. unlocked \in SUBSET Wallets /\ openJson \in OpenOrNone
    BY DEF BackInv, OpensTypeOK
  <1>2. UNCHANGED <<calls, stack, losses, rec, inbox, unlocked>> /\ SetOpenAndRefresh(openJson, <<>>)
    BY DEF Refresh, accessVars
  <1>3. <<>> \in Seq(TrueMessages')
    OBVIOUS
  <1>4. calls' \in Seq(Slots) /\ stack' \in Seq(Frames) /\ losses' \in 0 .. MaxLosses
    BY <1>2 DEF BackInv, OpensTypeOK
  <1>5. QED
    BY <1>1, <1>2, <1>3, <1>4, SetOpenStep

LEMMA AccessSettledStep ==
    ASSUME BackInv, Remembers, AccessSettled
    PROVE  BackStep
  <1> DEFINE o == Head(inbox)
             said == Signal("settled", o, rec'[o])
  <1>1. /\ inbox # <<>> /\ inbox' = Tail(inbox)
        /\ UNCHANGED <<calls, stack, losses, unlocked, rec>>
        /\ SetOpenAndRefresh(IF openJson = o THEN NoOpen ELSE openJson, said)
    BY DEF AccessSettled
  <1>2. Steady
    BY <1>1, SteadyIfUnchanged DEF BackInv, Remembers
  <1>3. inbox \in Seq(Ended')
    BY <1>2, CarriedStays DEF BackInv
  <1>4. o \in Ended' /\ inbox' \in Seq(Ended')
    BY <1>1, <1>3, TailIn
  <1>5. said \in Seq(TrueMessages') /\ HasIn(said, SettledOf(o))
    BY <1>4, SettledMessage
  <1>6. NoOpen \in OpenOrNone /\ openJson \in OpenOrNone
        /\ unlocked' \in SUBSET Wallets /\ unlocked' \subseteq opened'
    BY <1>1 DEF OpenOrNone, BackInv, OpensTypeOK, Remembers
  <1> HIDE DEF o, said
  <1>7. /\ wire' \in Seq(TrueMessages')
        /\ walletsJson' \in SUBSET Wallets /\ walletsJson' \subseteq opened'
        /\ offered' \in SUBSET Wallets
        /\ opensJson' \in SUBSET OpenHandles /\ openJson' \in OpenOrNone
        /\ \A S : HasIn(wire, S) \/ HasIn(said, S) => HasIn(wire', S)
    <2> DEFINE next == IF openJson = o THEN NoOpen ELSE openJson
    <2>1. next \in OpenOrNone
      BY <1>6
    <2>2. SetOpenAndRefresh(next, said)
      BY <1>1
    <2> HIDE DEF next
    <2>3. QED
      BY <1>2, <1>5, <1>6, <2>1, <2>2, SetOpenSends
  <1>8. ASSUME NEW x \in OpenHandles, rec'[x] \in Ends, rec[x] \in Ends => UnderWay(x)
        PROVE  UnderWay(x)'
    <2>1. SettledOf(x)' = SettledOf(x)
      BY DEF SettledOf
    <2>2. HasIn(wire, SettledOf(x)) \/ x = o => HasIn(wire', SettledOf(x))
      BY <1>5, <1>7
    <2>3. UnderWay(x)
      BY <1>1, <1>8
    <2>4. HasIn(inbox, {x}) /\ x # o => HasIn(Tail(inbox), {x})
      BY <1>1, <1>3, HasInTail DEF o
    <2>5. HasIn(inbox, {x}) /\ x # o => HasIn(inbox', {x})
      BY <1>1, <2>4
    <2>6. QED
      BY <2>1, <2>2, <2>3, <2>5 DEF UnderWay
  <1>9. CarriedIsTrue'
    BY <1>4, <1>6, <1>7 DEF CarriedIsTrue
  <1>10. calls' \in Seq(Slots) /\ stack' \in Seq(Frames) /\ losses' \in 0 .. MaxLosses
    BY <1>1 DEF BackInv, OpensTypeOK
  <1>11. QED
    BY <1>2, <1>6, <1>7, <1>8, <1>9, <1>10 DEF BackStep

LEMMA OpensStep ==
    ASSUME BackInv, OpensNext, RememberStep
    PROVE  BackStep
  <1>0. Remembers
    BY StepRemembers
  <1>1. ASSUME NEW o \in OpenHandles, EndOpen(o)
        PROVE  BackStep
    <2>1. UNCHANGED <<opensVars, unlocked>> /\ rec[o] = "live" /\ \E state \in Ends : SettleOpen(o, state)
      BY <1>1 DEF EndOpen
    <2>2. UNCHANGED <<calls, wire, walletsJson, offered, opensJson, openJson, stack, losses, unlocked>>
      BY <2>1 DEF opensVars
    <2>3. calls' \in Seq(Slots) /\ stack' \in Seq(Frames) /\ losses' \in 0 .. MaxLosses
      BY <2>2 DEF BackInv, OpensTypeOK
    <2>4. QED
      BY <1>0, <2>1, <2>2, <2>3, SettleStep
  <1>2. ASSUME NEW w \in Elsewhere, Turn(w)
        PROVE  BackStep
    <2>1. UNCHANGED <<calls, wire, walletsJson, offered, opensJson, openJson, stack, losses, rec, inbox>>
      BY <1>2 DEF Turn, opensVars
    <2>2. unlocked' \in SUBSET Wallets
      BY <1>2, WalletsAssumption DEF Turn, BackInv, OpensTypeOK
    <2>3. calls' \in Seq(Slots) /\ stack' \in Seq(Frames) /\ losses' \in 0 .. MaxLosses
      BY <2>1 DEF BackInv, OpensTypeOK
    <2>4. QED
      BY <1>0, <2>1, <2>2, <2>3, QuietStep
  <1>3. QED
    BY <1>0, <1>1, <1>2, AskManagerStep, ReturnStep, EndStepStep, RefreshStep, AccessSettledStep DEF OpensNext

-----------------------------------------------------------------------------
(* The view's pieces *)

SeenType == seen \in [wallets : SUBSET Wallets, opens : SUBSET OpenHandles, open : OpenOrNone]

SheetTypes ==
    /\ unlockSeed \in WalletOrNone
    /\ unlockOpen \in OpenOrNone
    /\ unlockIntent \in Intents \cup {NoIntent}
    /\ unlockQueue \in SUBSET Wallets
    /\ unlockedSome \in BOOLEAN
    /\ told \in [Intents -> Seq(Outcomes)]

AskTypes ==
    /\ asks \in [Intents -> Asks \cup {NotAsked}]
    /\ inTime \in SUBSET Intents /\ openedFor \in SUBSET Intents /\ steppedFor \in SUBSET Intents

LEMMA TypesApart ==
    TypeOK <=> OpensTypeOK /\ SeenType /\ SheetTypes /\ AskTypes
  BY DEF TypeOK, SeenType, SheetTypes, AskTypes

(* An intent is told no ok that is not so. *)
OkFor(s, i) == \A n \in DOMAIN s : s[n] = "ok" => Met(i)

LEMMA OkForAll ==
    OkIsMet <=> \A i \in Intents : OkFor(told[i], i)
  BY DEF OkIsMet, OkFor, Met

LEMMA AppendOk ==
    ASSUME NEW s \in Seq(Outcomes), NEW i, OkFor(s, i), NEW said \in Outcomes, said = "ok" => Met(i)
    PROVE  Append(s, said) \in Seq(Outcomes) /\ Append(s, said) # <<>> /\ OkFor(Append(s, said), i)
  <1>1. Append(s, said) \in Seq(Outcomes) /\ Append(s, said) # <<>>
    BY AppendProperties
  <1>2. ASSUME NEW n \in DOMAIN Append(s, said), Append(s, said)[n] = "ok"
        PROVE  Met(i)
    <2>1. (n \in DOMAIN s /\ s[n] = Append(s, said)[n]) \/ Append(s, said)[n] = said
      OBVIOUS
    <2>2. QED
      BY <1>2, <2>1 DEF OkFor
  <1>3. QED
    BY <1>1, <1>2 DEF OkFor

(* One intent is answered, if there is one to answer. *)
LEMMA RespondingFacts ==
    ASSUME SheetTypes, OkIsMet, NEW i \in Intents \cup {NoIntent}, NEW said \in Outcomes,
           said = "ok" /\ i # NoIntent => Met(i)
    PROVE  /\ Responding(i, said) \in [Intents -> Seq(Outcomes)]
           /\ \A j \in Intents : OkFor(Responding(i, said)[j], j)
           /\ i \in Intents => Responding(i, said)[i] # <<>>
           /\ \A j \in Intents : j # i => Responding(i, said)[j] = told[j]
  <1>1. told \in [Intents -> Seq(Outcomes)] /\ \A j \in Intents : OkFor(told[j], j)
    BY OkForAll DEF SheetTypes
  <1>2. CASE i = NoIntent
    BY <1>1, <1>2, IntentsAssumption DEF Responding
  <1>3. CASE i # NoIntent
    <2>1. i \in Intents
      BY <1>3
    <2>2. Responding(i, said) = [told EXCEPT ![i] = Append(told[i], said)]
      BY <1>3 DEF Responding
    <2>3. told[i] \in Seq(Outcomes) /\ OkFor(told[i], i)
      BY <1>1, <2>1
    <2>4. Append(told[i], said) \in Seq(Outcomes) /\ Append(told[i], said) # <<>>
          /\ OkFor(Append(told[i], said), i)
      BY <1>3, <2>3, AppendOk
    <2>5. /\ Responding(i, said) \in [Intents -> Seq(Outcomes)]
          /\ Responding(i, said)[i] = Append(told[i], said)
          /\ \A j \in Intents : j # i => Responding(i, said)[j] = told[j]
      BY <1>1, <2>1, <2>2, <2>4
    <2>6. ASSUME NEW j \in Intents
          PROVE  OkFor(Responding(i, said)[j], j)
      BY <1>1, <2>4, <2>5
    <2>7. QED
      BY <2>4, <2>5, <2>6
  <1>4. QED
    BY <1>2, <1>3

(* The asks and what meets them stay as they are. *)
AsksSame == UNCHANGED <<asks, inTime, openedFor, steppedFor, rec>>

LEMMA SameMemory ==
    ASSUME UNCHANGED <<asks, openedFor, steppedFor>>
    PROVE  UNCHANGED <<opened, ended>>
  BY DEF opened, ended

LEMMA SameAsks ==
    ASSUME AsksSame
    PROVE  /\ \A i : Met(i)' <=> Met(i)
           /\ \A i : Asked(i)' <=> Asked(i)
           /\ \A i, s : OkFor(s, i)' <=> OkFor(s, i)
           /\ AskedFirst => AskedFirst'
  BY DEF AsksSame, Met, Asked, OkFor, AskedFirst

LEMMA SameOk ==
    ASSUME AsksSame, \A i \in Intents : OkFor(told'[i], i)
    PROVE  OkIsMet'
  <1>1. \A i \in Intents : \A n \in DOMAIN told'[i] : told'[i][n] = "ok" => Met(i)
    BY DEF OkFor
  <1>2. QED
    BY <1>1 DEF OkIsMet, Met, AsksSame

(* Only the intent held may wait. *)
LEMMA OnlyHeldWaits ==
    ASSUME WaitingHasSheet, NEW i \in Intents, Waiting(i)
    PROVE  unlockIntent = i /\ SheetUp /\ unlockIntent # NoIntent
  BY IntentsAssumption DEF WaitingHasSheet

(* The sheet is left, and with it its intent is answered. *)
LEMMA CloseKeeps ==
    ASSUME SheetTypes, SheetInv, AsksSame, NEW ok \in BOOLEAN, closeUnlock(ok),
           ok /\ unlockIntent # NoIntent => Met(unlockIntent)
    PROVE  SheetTypes' /\ SheetInv' /\ \A i \in Intents : ~Waiting(i)'
  <1> DEFINE said == IF ok \/ unlockedSome THEN "ok" ELSE "cancelled"
  <1>1. /\ told' = Responding(unlockIntent, said)
        /\ unlockSeed' = NoWallet /\ unlockOpen' = NoOpen /\ unlockIntent' = NoIntent
        /\ unlockQueue' = {} /\ unlockedSome' = FALSE
    BY DEF closeUnlock
  <1>2. said \in Outcomes /\ (said = "ok" /\ unlockIntent # NoIntent => Met(unlockIntent))
    BY DEF Outcomes, SheetInv, SheetIsHeld
  <1> HIDE DEF said
  <1>3. OkIsMet /\ WaitingHasSheet /\ AskedFirst /\ unlockIntent \in Intents \cup {NoIntent}
    BY DEF SheetInv, SheetTypes
  <1>4. /\ told' \in [Intents -> Seq(Outcomes)]
        /\ \A j \in Intents : OkFor(told'[j], j)
        /\ unlockIntent \in Intents => told'[unlockIntent] # <<>>
        /\ \A j \in Intents : j # unlockIntent => told'[j] = told[j]
    BY <1>1, <1>2, <1>3, RespondingFacts
  <1>5. SheetTypes'
    BY <1>1, <1>4 DEF SheetTypes, WalletOrNone, OpenOrNone
  <1>6. ASSUME NEW i \in Intents
        PROVE  ~Waiting(i)'
    <2>1. SUFFICES ASSUME Waiting(i)'
                   PROVE  FALSE
      OBVIOUS
    <2>2. told'[i] = <<>> /\ Asked(i)
      BY <2>1, SameAsks DEF Waiting
    <2>3. i # unlockIntent /\ told[i] = <<>>
      BY <1>4, <2>2
    <2>4. Waiting(i)
      BY <2>2, <2>3 DEF Waiting
    <2>5. QED
      BY <1>3, <2>3, <2>4, OnlyHeldWaits
  <1>7. SheetIsHeld'
    BY <1>1 DEF SheetIsHeld
  <1>8. WaitingHasSheet'
    BY <1>6 DEF WaitingHasSheet
  <1>9. OkIsMet'
    BY <1>4, SameOk
  <1>10. QED
    BY <1>3, <1>5, <1>6, <1>7, <1>8, <1>9, SameAsks DEF SheetInv

(* The sheet goes on to the next wallet of its intent, or is left. *)
LEMMA AdvanceKeeps ==
    ASSUME SheetTypes, SheetInv, AsksSame, NEW some \in BOOLEAN, NEW ok \in BOOLEAN, Advance(some, ok),
           some => unlockIntent # NoIntent /\ Met(unlockIntent),
           ok /\ unlockIntent # NoIntent => Met(unlockIntent)
    PROVE  SheetTypes' /\ SheetInv' /\ \A i \in Intents : Waiting(i)' => Waiting(i)
  <1>1. CASE closeUnlock(ok)
    BY <1>1, CloseKeeps
  <1>2. CASE ~closeUnlock(ok)
    <2>1. PICK w \in unlockQueue :
             /\ unlockSeed' = w
             /\ unlockQueue' = {v \in unlockQueue : Place[v] > Place[w]}
             /\ unlockedSome' = some
             /\ UNCHANGED <<unlockOpen, unlockIntent, told>>
      BY <1>2 DEF Advance
    <2>2. w \in Wallets /\ Place[w] \in Nat /\ w # NoWallet
      BY WalletsAssumption, PlaceAssumption DEF SheetTypes
    <2>3. SheetTypes'
      BY <2>1, <2>2 DEF SheetTypes, WalletOrNone
    <2>4. /\ unlockIntent # NoIntent /\ Asked(unlockIntent) /\ unlockOpen = asks[unlockIntent].open
          /\ unlockQueue \subseteq asks[unlockIntent].seeds
      BY DEF SheetInv, SheetIsHeld
    <2>5. unlockQueue' \subseteq asks[unlockIntent].seeds \ {w}
      BY <2>1, <2>2, <2>4
    <2>6. SheetUp' /\ Asked(unlockIntent)' /\ asks' = asks
      BY <2>1, <2>2, <2>4, SameAsks DEF SheetUp, Asked, AsksSame
    <2>7. some => Met(unlockIntent)'
      BY SameAsks, <2>1 DEF Met, AsksSame
    <2>8. SheetIsHeld'
      BY <2>1, <2>4, <2>5, <2>6, <2>7 DEF SheetIsHeld
    <2>9. \A i \in Intents : Waiting(i)' <=> Waiting(i)
      BY <2>1, <2>6 DEF Waiting, Asked
    <2>10. WaitingHasSheet'
      BY <2>1, <2>6, <2>9 DEF WaitingHasSheet, SheetInv
    <2>11. OkIsMet'
      BY <2>1, OkForAll, SameOk DEF SheetInv
    <2>12. QED
      BY <2>3, <2>8, <2>9, <2>10, <2>11, SameAsks DEF SheetInv
  <1>3. QED
    BY <1>1, <1>2

(* The sheet stays as it is. *)
LEMMA SheetStays ==
    ASSUME SheetTypes, SheetInv, AsksSame, UNCHANGED <<sheetVars, told>>
    PROVE  SheetTypes' /\ SheetInv' /\ \A i \in Intents : Waiting(i)' => Waiting(i)
  <1>1. UNCHANGED <<unlockSeed, unlockOpen, unlockIntent, unlockQueue, unlockedSome, told,
                     asks, inTime, openedFor, steppedFor, rec>>
    BY DEF sheetVars, AsksSame
  <1>2. SheetTypes'
    BY <1>1 DEF SheetTypes
  <1>3. SheetIsHeld'
    BY <1>1 DEF SheetInv, SheetIsHeld, SheetUp, Asked, Met
  <1>4. WaitingHasSheet' /\ \A i \in Intents : Waiting(i)' => Waiting(i)
    BY <1>1 DEF SheetInv, WaitingHasSheet, Waiting, SheetUp, Asked
  <1>5. OkIsMet'
    BY <1>1 DEF SheetInv, OkIsMet
  <1>6. QED
    BY <1>2, <1>3, <1>4, <1>5, SameAsks DEF SheetInv

-----------------------------------------------------------------------------
(* The view's steps *)

LEMMA TargetsFacts ==
    ASSUME SeenType, NEW ask \in Asks
    PROVE  /\ ask.seeds \in SUBSET Wallets /\ ask.open \in OpenOrNone /\ ask # NotAsked
           /\ unlockTargets(ask) \in SUBSET Wallets
           /\ \A w \in unlockTargets(ask) : unlockTargets(ask) \ {w} \subseteq ask.seeds
           /\ ask.open = NoOpen => unlockTargets(ask) \subseteq ask.seeds
  <1>1. ask.seeds \in SUBSET Wallets /\ ask.open \in OpenOrNone /\ ask # NotAsked
    BY AsksAssumption
  <1>2. CASE ask.open \in seen.opens
    <2>1. unlockTargets(ask) = {SeedOf[ask.open]}
      BY <1>2 DEF unlockTargets
    <2>2. ask.open \in OpenHandles
      BY <1>2 DEF SeenType
    <2>3. SeedOf[ask.open] \in Wallets /\ ask.open # NoOpen
      BY <2>2, OpensAssumption
    <2>4. QED
      BY <1>1, <2>1, <2>3
  <1>3. CASE ask.open \notin seen.opens
    <2>1. unlockTargets(ask) \subseteq ask.seeds
      BY <1>3 DEF unlockTargets
    <2>2. QED
      BY <1>1, <2>1
  <1>4. QED
    BY <1>2, <1>3

(* What the view does leaves the backend as it is, but for slots it calls. *)
LEMMA BackKept ==
    ASSUME BackInv, calls' \in Seq(Slots),
           UNCHANGED <<wire, walletsJson, offered, opensJson, openJson, stack, losses, accessVars>>,
           UNCHANGED <<asks, openedFor, steppedFor>>
    PROVE  /\ OpensTypeOK' /\ CarriedIsTrue' /\ UNCHANGED <<rec, opened>>
           /\ \A o : UnderWay(o) => UnderWay(o)'
  <1>1. UNCHANGED <<unlocked, opened, ended, rec, inbox>>
    BY SameMemory DEF accessVars
  <1>2. OpensTypeOK'
    BY <1>1 DEF BackInv, OpensTypeOK
  <1>3. Steady
    BY <1>1, SteadyIfUnchanged DEF BackInv
  <1>4. CarriedIsTrue'
    BY <1>1, <1>3, CarriedStays DEF BackInv, CarriedIsTrue
  <1>5. \A o : UnderWay(o) => UnderWay(o)'
    BY <1>1 DEF UnderWay, HasIn, SettledOf
  <1>6. QED
    BY <1>1, <1>2, <1>4, <1>5

LEMMA OpenUnlockCalls ==
    ASSUME calls \in Seq(Slots), NEW w, NEW o \in OpenOrNone, openUnlock(w, o)
    PROVE  unlockSeed' = w /\ unlockOpen' = o /\ calls' \in Seq(Slots)
  <1>1. CASE o \in {NoOpen, unlockOpen}
    BY <1>1 DEF openUnlock
  <1>2. CASE o \notin {NoOpen, unlockOpen}
    <2>1. [call |-> "showOpen", of |-> o] \in Slots
      BY <1>2 DEF Slots, OpenOrNone
    <2>2. QED
      BY <1>2, <2>1, PushIn DEF openUnlock
  <1>3. QED
    BY <1>1, <1>2

(* What is remembered as an intent asks: of the others what was, of this   *)
(* one what the view has read already, or may yet.                         *)
LEMMA AskMemory ==
    ASSUME AskTypes, NEW i \in Intents, NEW ask, RememberAsk(i, ask)
    PROVE  /\ asks' = [asks EXCEPT ![i] = ask]
           /\ openedFor' \in SUBSET Intents /\ steppedFor' \in SUBSET Intents
           /\ openedFor \subseteq openedFor'
           /\ openedFor \cup steppedFor \subseteq openedFor' \cup steppedFor'
           /\ \A j : j # i => (j \in openedFor' <=> j \in openedFor)
                              /\ (j \in openedFor' \cup steppedFor' <=> j \in openedFor \cup steppedFor)
           /\ ask.seeds \cap MaySee # {} => i \in openedFor'
           /\ ask.seeds \cap MayHear # {} => i \in openedFor' \cup steppedFor'
  <1>1. /\ asks' = [asks EXCEPT ![i] = ask]
        /\ openedFor' = IF ask.seeds \cap MaySee # {} THEN openedFor \cup {i} ELSE openedFor
        /\ steppedFor' = (IF ask.seeds \cap MayHear # {} THEN steppedFor \cup {i} ELSE steppedFor) \ openedFor'
        /\ openedFor \in SUBSET Intents /\ steppedFor \in SUBSET Intents
    BY DEF RememberAsk, AskTypes
  <1>2. QED
    BY <1>1

LEMMA AskKeepsMemory ==
    ASSUME AskTypes, NEW i \in Intents, NEW ask, RememberAsk(i, ask)
    PROVE  /\ \A w \in MaySee : w \in opened => w \in opened'
           /\ \A w \in MayHear : w \in ended => w \in ended'
  <1>1. /\ asks \in [Intents -> Asks \cup {NotAsked}]
        /\ asks' = [asks EXCEPT ![i] = ask]
        /\ openedFor \subseteq openedFor'
        /\ openedFor \cup steppedFor \subseteq openedFor' \cup steppedFor'
        /\ ask.seeds \cap MaySee # {} => i \in openedFor'
        /\ ask.seeds \cap MayHear # {} => i \in openedFor' \cup steppedFor'
    BY AskMemory DEF AskTypes
  <1>2. asks'[i] = ask /\ \A j \in Intents : j # i => asks'[j] = asks[j]
    BY <1>1
  <1>3. ASSUME NEW w \in MaySee, w \in opened
        PROVE  w \in opened'
    <2>1. ASSUME NEW j \in Intents, w \in asks'[j].seeds
          PROVE  j \in openedFor'
      BY <1>1, <1>2, <1>3, <2>1 DEF opened
    <2>2. QED
      BY <1>3, <2>1 DEF opened
  <1>4. ASSUME NEW w \in MayHear, w \in ended
        PROVE  w \in ended'
    <2>1. ASSUME NEW j \in Intents, w \in asks'[j].seeds
          PROVE  j \in openedFor' \cup steppedFor'
      BY <1>1, <1>2, <1>4, <2>1 DEF ended
    <2>2. QED
      BY <1>4, <2>1 DEF ended
  <1>5. QED
    BY <1>3, <1>4

(* So what is on its way to the view stays true of what is remembered.     *)
LEMMA AskCarries ==
    ASSUME BackInv, AskTypes, seen.wallets \subseteq opened,
           NEW i \in Intents, NEW ask, RememberAsk(i, ask), calls' \in Seq(Slots),
           UNCHANGED <<wire, walletsJson, offered, opensJson, openJson, stack, losses, accessVars>>
    PROVE  OpensTypeOK' /\ CarriedIsTrue' /\ seen.wallets \subseteq opened'
  <1>1. UNCHANGED <<unlocked, rec, inbox>>
    BY DEF accessVars
  <1>2. OpensTypeOK'
    BY <1>1 DEF BackInv, OpensTypeOK
  <1>3. /\ seen.wallets \subseteq MaySee /\ walletsJson \subseteq MaySee /\ unlocked \subseteq MaySee
        /\ \A n \in DOMAIN wire : wire[n].kind = "wallets" => wire[n].value \subseteq MaySee
        /\ \A n \in DOMAIN wire : wire[n].kind = "ended" /\ wire[n].said = "ok" => wire[n].value \in MayHear
    BY DEF MaySee, MayHear
  <1>4. /\ seen.wallets \subseteq opened /\ walletsJson \subseteq opened /\ unlocked \subseteq opened
        /\ wire \in Seq(TrueMessages) /\ inbox \in Seq(Ended)
    BY DEF BackInv, CarriedIsTrue
  <1>5. /\ \A ws : ws \subseteq MaySee /\ ws \subseteq opened => ws \subseteq opened'
        /\ \A w \in MayHear : w \in ended => w \in ended'
    BY AskKeepsMemory
  <1>6. seen.wallets \subseteq opened' /\ walletsJson \subseteq opened' /\ unlocked \subseteq opened'
    BY <1>3, <1>4, <1>5
  <1>7. ASSUME NEW n \in DOMAIN wire
        PROVE  wire[n] \in TrueMessages'
    <2> DEFINE m == wire[n]
    <2>1. m \in TrueMessages
      BY <1>4
    <2>2. m \in Messages /\ (m.kind = "settled" => m.said = rec'[m.value])
      BY <1>1, <2>1 DEF TrueMessages
    <2>3. m.kind = "wallets" => m.value \subseteq opened'
      BY <1>3, <1>5, <2>1 DEF TrueMessages
    <2>4. m.kind = "ended" /\ m.said = "ok" => m.value \in ended'
      BY <1>3, <1>5, <2>1 DEF TrueMessages
    <2>5. QED
      BY <2>2, <2>3, <2>4 DEF TrueMessages
  <1>8. wire' \in Seq(TrueMessages')
    BY <1>4, <1>7, SeqNarrow
  <1>9. inbox' \in Seq(Ended')
    BY <1>1, <1>4 DEF Ended
  <1>10. QED
    BY <1>1, <1>2, <1>6, <1>8, <1>9 DEF CarriedIsTrue

(* An intent asks.  The one held is answered; the new one is answered now, *)
(* with ok only of a wallet that is unlocked, or held in turn.             *)
LEMMA AskKeeps ==
    ASSUME IInv, NEW i \in Intents, NEW ask \in Asks, AskUnlock(i, ask)
    PROVE  IInv'
  <1> DEFINE targets == unlockTargets(ask)
             D == Displacing
  <1>1. /\ asks[i] = NotAsked
        /\ asks' = [asks EXCEPT ![i] = ask]
        /\ inTime' = IF ask.open # NoOpen /\ rec[ask.open] = "live" THEN inTime \cup {i} ELSE inTime
        /\ UNCHANGED <<seen, wire, walletsJson, offered, opensJson, openJson, stack, losses, accessVars>>
        /\ RememberAsk(i, ask)
    BY DEF AskUnlock, RememberAsk
  <1>2. UNCHANGED <<rec, unlocked, inbox>>
    BY <1>1 DEF accessVars
  <1>3. /\ OpensTypeOK /\ SeenType /\ SheetTypes /\ AskTypes /\ CarriedIsTrue /\ BackInv
        /\ SheetIsHeld /\ AskedFirst /\ WaitingHasSheet /\ OkIsMet
        /\ seen.wallets \subseteq opened
    BY TypesApart DEF IInv, SheetInv, BackInv
  <1>4. /\ ask.seeds \in SUBSET Wallets /\ ask.open \in OpenOrNone /\ ask # NotAsked
        /\ targets \in SUBSET Wallets
        /\ \A w \in targets : targets \ {w} \subseteq ask.seeds
        /\ ask.open = NoOpen => targets \subseteq ask.seeds
    BY <1>3, TargetsFacts
  <1> HIDE DEF targets
  <1>5. /\ asks' \in [Intents -> Asks \cup {NotAsked}]
        /\ asks'[i] = ask
        /\ \A j \in Intents : j # i => asks'[j] = asks[j]
    BY <1>1, <1>3 DEF AskTypes
  <1>6. AskTypes' /\ i \notin inTime /\ i # unlockIntent
    <2>1. AskTypes'
      BY <1>1, <1>3, <1>5, AskMemory DEF AskTypes
    <2>2. i \notin inTime
      BY <1>1, <1>3 DEF AskedFirst, Asked
    <2>3. i # unlockIntent
      BY <1>1, <1>3, IntentsAssumption DEF SheetIsHeld, Asked
    <2>4. QED
      BY <2>1, <2>2, <2>3
  <1>7. AskedFirst'
    <2>1. ASSUME NEW j \in inTime'
          PROVE  asks'[j] # NotAsked /\ asks'[j].open \in OpenHandles
      <3>1. CASE j = i
        BY <1>1, <1>4, <1>5, <1>6, <2>1, <3>1 DEF OpenOrNone
      <3>2. CASE j # i
        <4>1. j \in inTime /\ j \in Intents
          BY <1>1, <1>3, <2>1, <3>2 DEF AskTypes
        <4>2. QED
          BY <1>3, <1>5, <3>2, <4>1 DEF AskedFirst, Asked
      <3>3. QED
        BY <3>1, <3>2
    <2>2. ASSUME NEW j \in Intents, j \in openedFor' \cup steppedFor'
          PROVE  asks'[j] # NotAsked
      <3>1. CASE j = i
        BY <1>4, <1>5, <3>1
      <3>2. CASE j # i
        BY <1>3, <1>5, <1>1, <2>2, <3>2, AskMemory DEF AskedFirst, Asked
      <3>3. QED
        BY <3>1, <3>2
    <2>3. QED
      BY <2>1, <2>2 DEF AskedFirst, Asked
  <1>8. \A j \in Intents : j # i => (Met(j)' <=> Met(j)) /\ (Asked(j)' <=> Asked(j))
    BY <1>1, <1>2, <1>3, <1>5, AskMemory DEF Met, Asked
  <1>9. ~Met(i)
    <2>1. asks[i].open = NoOpen
      BY <1>1 DEF NotAsked
    <2>2. i \notin openedFor \cup steppedFor
      BY <1>1, <1>3 DEF AskedFirst, Asked
    <2>3. QED
      BY <2>1, <2>2 DEF Met
  <1>10. /\ D \in [Intents -> Seq(Outcomes)]
         /\ \A j \in Intents : OkFor(D[j], j)
         /\ unlockIntent \in Intents => D[unlockIntent] # <<>>
         /\ \A j \in Intents : j # unlockIntent => D[j] = told[j]
    <2>1. "cancelled" \in Outcomes /\ unlockIntent \in Intents \cup {NoIntent}
      BY <1>3 DEF Outcomes, SheetTypes
    <2>2. QED
      BY <1>3, <2>1, RespondingFacts DEF Displacing
  <1> HIDE DEF D
  <1>11. \A n \in DOMAIN D[i] : D[i][n] # "ok"
    BY <1>9, <1>10 DEF OkFor
  <1>12. ASSUME NEW j \in Intents, j # i, told'[j] = D[j]
         PROVE  OkFor(told[j], j)' /\ ~Waiting(j)'
    <2>1. OkFor(told[j], j)'
      BY <1>8, <1>10, <1>12 DEF OkFor
    <2>2. SUFFICES ASSUME Waiting(j)'
                   PROVE  FALSE
      BY <2>1
    <2>3. D[j] = <<>> /\ Asked(j)
      BY <1>8, <1>12, <2>2 DEF Waiting
    <2>4. j # unlockIntent /\ told[j] = <<>>
      BY <1>10, <2>3
    <2>5. Waiting(j)
      BY <2>3, <2>4 DEF Waiting
    <2>6. QED
      BY <1>3, <2>4, <2>5, OnlyHeldWaits
  <1>13. ASSUME calls' \in Seq(Slots), SheetTypes', SheetIsHeld', WaitingHasSheet', OkFor(told[i], i)',
                \A j \in Intents : j # i => told'[j] = D[j]
         PROVE  IInv'
    <2>1. OpensTypeOK' /\ CarriedIsTrue' /\ seen.wallets \subseteq opened'
      BY <1>1, <1>3, <1>13, AskCarries
    <2>2. TypeOK'
      BY <1>1, <1>3, <1>6, <1>13, <2>1, TypesApart DEF TypeOK, SeenType, SheetTypes, AskTypes
    <2>3. \A j \in Intents : OkFor(told[j], j)'
      BY <1>12, <1>13
    <2>4. OkIsMet'
      BY <2>3 DEF OkIsMet, OkFor, Met
    <2>5. AnswersComing'
      <3>1. ASSUME NEW j \in Intents, Waiting(j)', j \in inTime', rec'[asks'[j].open] \in Ends
            PROVE  FALSE
        <4>1. j = i
          BY <1>12, <1>13, <3>1
        <4>2. rec[ask.open] = "live"
          BY <1>1, <1>6, <3>1, <4>1
        <4>3. QED
          BY <1>2, <1>5, <3>1, <4>1, <4>2 DEF Ends
      <3>2. QED
        BY <3>1 DEF AnswersComing
    <2>6. seen'.wallets \subseteq opened'
      BY <1>1, <2>1
    <2>7. QED
      BY <1>7, <1>13, <2>1, <2>2, <2>4, <2>5, <2>6 DEF IInv, SheetInv
  <1>14. ASSUME NEW said \in Outcomes, told' = [D EXCEPT ![i] = Append(@, said)],
                UNCHANGED <<sheetVars, calls>>, said = "ok" => Met(i)'
         PROVE  IInv'
    <2>1. D[i] \in Seq(Outcomes)
      BY <1>10
    <2>2. Append(D[i], said) \in Seq(Outcomes) /\ Append(D[i], said) # <<>>
      BY <2>1, AppendProperties
    <2>3. \A n \in DOMAIN Append(D[i], said) : Append(D[i], said)[n] = "ok" => said = "ok"
      BY <1>11, <2>1
    <2>4. /\ told' \in [Intents -> Seq(Outcomes)]
          /\ told'[i] = Append(D[i], said)
          /\ \A j \in Intents : j # i => told'[j] = D[j]
      BY <1>10, <1>14, <2>2
    <2>5. OkFor(told[i], i)'
      BY <1>14, <2>3, <2>4 DEF OkFor
    <2>6. ~Waiting(i)'
      BY <2>2, <2>4 DEF Waiting
    <2>7. WaitingHasSheet'
      BY <1>12, <2>4, <2>6 DEF WaitingHasSheet
    <2>8. UNCHANGED <<unlockSeed, unlockOpen, unlockIntent, unlockQueue, unlockedSome, calls>>
      BY <1>14 DEF sheetVars
    <2>9. SheetIsHeld'
      <3>1. CASE unlockIntent = NoIntent
        BY <1>3, <2>8, <3>1 DEF SheetIsHeld
      <3>2. CASE unlockIntent # NoIntent
        <4>1. unlockIntent \in Intents /\ asks'[unlockIntent] = asks[unlockIntent]
          BY <1>3, <1>5, <1>6, <3>2 DEF SheetTypes
        <4>2. (Met(unlockIntent)' <=> Met(unlockIntent)) /\ (Asked(unlockIntent)' <=> Asked(unlockIntent))
          BY <1>1, <1>2, <1>3, <1>6, <2>8, <4>1, AskMemory DEF Met, Asked
        <4>3. QED
          BY <1>3, <2>8, <4>1, <4>2 DEF SheetIsHeld, SheetUp
      <3>3. QED
        BY <3>1, <3>2
    <2>10. SheetTypes'
      BY <1>3, <2>4, <2>8 DEF SheetTypes
    <2>11. calls' \in Seq(Slots)
      BY <1>3, <2>8 DEF OpensTypeOK
    <2>12. QED
      BY <1>13, <2>4, <2>5, <2>7, <2>9, <2>10, <2>11
  <1>15. ASSUME NEW w \in targets, told' = D, unlockIntent' = i, unlockQueue' = targets \ {w},
                unlockedSome' = FALSE, openUnlock(w, ask.open)
         PROVE  IInv'
    <2>1. unlockSeed' = w /\ unlockOpen' = ask.open /\ calls' \in Seq(Slots)
      BY <1>3, <1>4, <1>15, OpenUnlockCalls DEF OpensTypeOK
    <2>2. w \in Wallets /\ SheetUp'
      BY <1>4, <2>1, WalletsAssumption DEF SheetUp
    <2>3. SheetTypes'
      BY <1>4, <1>10, <1>15, <2>1, <2>2 DEF SheetTypes, WalletOrNone
    <2>4. Asked(i)'
      BY <1>4, <1>5 DEF Asked
    <2>5. SheetIsHeld'
      <3>1. unlockIntent' = i /\ asks'[i] = ask /\ i # NoIntent /\ ~unlockedSome'
        BY <1>5, <1>15, IntentsAssumption
      <3>2. unlockQueue' \subseteq ask.seeds \ {w}
        BY <1>4, <1>15
      <3>3. ask.open = NoOpen => w \in ask.seeds
        BY <1>4, <1>15
      <3>4. QED
        BY <2>1, <2>2, <2>4, <3>1, <3>2, <3>3 DEF SheetIsHeld
    <2>6. WaitingHasSheet'
      BY <1>12, <1>15, <2>2 DEF WaitingHasSheet
    <2>7. OkFor(told[i], i)'
      BY <1>11, <1>15 DEF OkFor
    <2>8. QED
      BY <1>13, <1>15, <2>1, <2>3, <2>5, <2>6, <2>7
  <1>16. CASE told' = [Displacing EXCEPT ![i] = Append(@, "bad_request")] /\ UNCHANGED <<sheetVars, calls>>
    BY <1>14, <1>16 DEF Outcomes, D
  <1>17. ASSUME NEW w \in targets, ask.open = NoOpen, ~Locked(w),
                told' = [Displacing EXCEPT ![i] = Append(@, "ok")], UNCHANGED <<sheetVars, calls>>
         PROVE  IInv'
    <2>1. w \in ask.seeds /\ w \in seen.wallets
      BY <1>4, <1>17 DEF Locked
    <2>2. i \in openedFor'
      BY <1>1, <2>1 DEF RememberAsk, MaySee
    <2>3. Met(i)'
      BY <1>5, <1>17, <2>2 DEF Met
    <2>4. QED
      BY <1>14, <1>17, <2>3 DEF Outcomes, D
  <1>18. QED
    BY <1>15, <1>16, <1>17 DEF AskUnlock, targets, D

(* A step of the person's keeps all that it leaves alone. *)
LEMMA ClickRest ==
    ASSUME IInv, UnchangedByClick, calls' \in Seq(Slots), SheetTypes', SheetInv',
           \A i \in Intents : Waiting(i)' => Waiting(i)
    PROVE  IInv'
  <1>1. UNCHANGED <<seen, asks, inTime, openedFor, steppedFor,
                     wire, walletsJson, offered, opensJson, openJson, stack, losses, accessVars>>
    BY DEF UnchangedByClick, histories
  <1>2. OpensTypeOK /\ SeenType /\ AskTypes /\ BackInv
    BY TypesApart DEF IInv, BackInv
  <1>3. OpensTypeOK' /\ CarriedIsTrue' /\ UNCHANGED <<rec, opened>> /\ \A o : UnderWay(o) => UnderWay(o)'
    BY <1>1, <1>2, BackKept
  <1>4. TypeOK'
    BY <1>1, <1>2, <1>3 DEF TypeOK, SeenType, SheetTypes, AskTypes
  <1>5. AnswersComing'
    <2>1. ASSUME NEW i \in Intents, Waiting(i)', i \in inTime', rec'[asks'[i].open] \in Ends
          PROVE  UnderWay(asks[i].open)'
      <3>1. Waiting(i) /\ i \in inTime /\ rec[asks[i].open] \in Ends
        BY <1>1, <1>3, <2>1
      <3>2. UnderWay(asks[i].open)
        BY <3>1 DEF IInv, AnswersComing
      <3>3. UnderWay(asks[i].open)' <=> HasIn(inbox', {asks[i].open}) \/ HasIn(wire', SettledOf(asks[i].open)')
        BY <1>1 DEF UnderWay, SettledOf, HasIn
      <3>4. QED
        BY <1>1, <3>2, <3>3 DEF UnderWay, accessVars, SettledOf
    <2>2. QED
      BY <1>1, <2>1 DEF AnswersComing
  <1>6. seen'.wallets \subseteq opened'
    BY <1>1, <1>3 DEF IInv
  <1>7. QED
    BY <1>3, <1>4, <1>5, <1>6 DEF IInv

LEMMA ClickKeeps ==
    ASSUME IInv, Person
    PROVE  IInv'
  <1>1. /\ OpensTypeOK /\ SeenType /\ SheetTypes /\ AskTypes /\ SheetInv
        /\ seen.wallets \subseteq opened
    BY TypesApart DEF IInv
  <1>2. calls \in Seq(Slots)
    BY <1>1 DEF OpensTypeOK
  <1>3. UnchangedByClick => AsksSame
    BY DEF UnchangedByClick, histories, AsksSame, accessVars
  <1>4. ASSUME NEW w \in Wallets, NEW o \in OpenOrNone, ClickCard(w, o)
        PROVE  IInv'
    <2>1. /\ ~SheetUp /\ openUnlock(w, o) /\ UnchangedByClick
          /\ UNCHANGED <<unlockIntent, unlockQueue, unlockedSome, told>>
      BY <1>4 DEF ClickCard
    <2>2. unlockSeed' = w /\ unlockOpen' = o /\ calls' \in Seq(Slots)
      BY <1>2, <2>1, OpenUnlockCalls
    <2>3. unlockIntent = NoIntent /\ unlockQueue = {} /\ ~unlockedSome
      BY <1>1, <2>1 DEF SheetInv, SheetIsHeld
    <2>4. SheetTypes'
      BY <1>1, <2>1, <2>2 DEF SheetTypes, WalletOrNone
    <2>5. SheetIsHeld'
      BY <2>1, <2>3 DEF SheetIsHeld
    <2>6. \A i \in Intents : Waiting(i)' <=> Waiting(i)
      BY <1>3, <2>1 DEF Waiting, Asked, AsksSame
    <2>7. \A i \in Intents : ~Waiting(i)
      BY <1>1, <2>3, OnlyHeldWaits DEF SheetInv
    <2>8. WaitingHasSheet'
      BY <2>6, <2>7 DEF WaitingHasSheet
    <2>9. OkIsMet' /\ AskedFirst'
      BY <1>1, <1>3, <2>1, OkForAll, SameOk, SameAsks DEF SheetInv
    <2>10. SheetInv'
      BY <2>5, <2>8, <2>9 DEF SheetInv
    <2>11. QED
      BY <2>1, <2>2, <2>4, <2>6, <2>10, ClickRest
  <1>5. ASSUME NEW call \in {"consentOpen", "rejectOpen"}, ClickDecide(call)
        PROVE  IInv'
    <2>1. /\ Shown /\ UnchangedByClick /\ UNCHANGED <<sheetVars, told>>
          /\ calls' = Append(calls, [call |-> call, of |-> unlockOpen])
      BY <1>5 DEF ClickDecide
    <2>2. unlockOpen \in OpenHandles
      BY <1>1, <2>1 DEF Shown, SheetTypes, OpenOrNone
    <2>3. [call |-> call, of |-> unlockOpen] \in Slots
      BY <2>2 DEF Slots
    <2>4. calls' \in Seq(Slots)
      BY <1>2, <2>1, <2>3, PushIn
    <2>5. SheetTypes' /\ SheetInv' /\ \A i \in Intents : Waiting(i)' => Waiting(i)
      BY <1>1, <1>3, <2>1, SheetStays
    <2>6. QED
      BY <2>1, <2>4, <2>5, ClickRest
  <1>6. ASSUME ClickClose
        PROVE  IInv'
    <2> DEFINE ok == ~Locked(unlockSeed) /\ unlockOpen = NoOpen
    <2>1. closeUnlock(ok) /\ UNCHANGED calls /\ UnchangedByClick
      BY <1>6 DEF ClickClose
    <2>2. ok /\ unlockIntent # NoIntent => Met(unlockIntent)
      <3>1. ASSUME ok, unlockIntent # NoIntent
            PROVE  Met(unlockIntent)
        <4>1. unlockOpen = NoOpen /\ unlockSeed \in opened
          BY <1>1, <3>1 DEF Locked
        <4>2. unlockOpen = asks[unlockIntent].open /\ unlockSeed \in asks[unlockIntent].seeds
          BY <1>1, <3>1, <4>1 DEF SheetInv, SheetIsHeld
        <4>3. unlockIntent \in Intents
          BY <1>1, <3>1 DEF SheetTypes
        <4>4. QED
          BY <4>1, <4>2, <4>3 DEF Met, opened
      <3>2. QED
        BY <3>1
    <2>3. ok \in BOOLEAN /\ AsksSame
      BY <1>3, <2>1
    <2> HIDE DEF ok
    <2>4. SheetTypes' /\ SheetInv' /\ \A i \in Intents : ~Waiting(i)'
      BY <1>1, <2>1, <2>2, <2>3, CloseKeeps
    <2>5. calls' \in Seq(Slots)
      BY <1>2, <2>1
    <2>6. QED
      BY <2>1, <2>4, <2>5, ClickRest
  <1>7. ASSUME ClickSkip
        PROVE  IInv'
    <2>1. Advance(unlockedSome, FALSE) /\ UNCHANGED calls /\ UnchangedByClick
      BY <1>7 DEF ClickSkip
    <2>2. unlockedSome \in BOOLEAN /\ (unlockedSome => unlockIntent # NoIntent /\ Met(unlockIntent))
      BY <1>1 DEF SheetTypes, SheetInv, SheetIsHeld
    <2>3. SheetTypes' /\ SheetInv' /\ \A i \in Intents : Waiting(i)' => Waiting(i)
      BY <1>1, <1>3, <2>1, <2>2, AdvanceKeeps
    <2>4. calls' \in Seq(Slots)
      BY <1>2, <2>1
    <2>5. QED
      BY <2>1, <2>3, <2>4, ClickRest
  <1>8. QED
    BY <1>4, <1>5, <1>6, <1>7 DEF Person

(* The view takes the first message: what it carries is so, and the rest   *)
(* is under way still.                                                     *)
LEMMA ReceiveFacts ==
    ASSUME IInv, NEW kind, Receive(kind)
    PROVE  /\ Head(wire) \in TrueMessages /\ Head(wire) \in Messages /\ Head(wire).kind = kind
           /\ OpensTypeOK' /\ CarriedIsTrue' /\ AsksSame
           /\ \A o : UnderWay(o) => UnderWay(o)' \/ Head(wire) \in SettledOf(o)
  <1>1. /\ wire # <<>> /\ Head(wire).kind = kind /\ wire' = Tail(wire)
        /\ UNCHANGED <<asks, inTime, openedFor, steppedFor>>
        /\ UNCHANGED <<calls, walletsJson, offered, opensJson, openJson, stack, losses, accessVars>>
    BY DEF Receive, histories
  <1>2. UNCHANGED <<unlocked, opened, ended, rec, inbox>>
    BY <1>1, SameMemory DEF accessVars
  <1>3. OpensTypeOK /\ CarriedIsTrue
    BY TypesApart DEF IInv
  <1>4. wire \in Seq(TrueMessages) /\ wire \in Seq(Messages)
    BY <1>3 DEF CarriedIsTrue, OpensTypeOK
  <1>5. /\ Head(wire) \in TrueMessages /\ Tail(wire) \in Seq(TrueMessages)
        /\ Head(wire) \in Messages /\ Tail(wire) \in Seq(Messages)
    BY <1>1, <1>4, TailIn
  <1>6. OpensTypeOK'
    BY <1>1, <1>2, <1>3, <1>5 DEF OpensTypeOK
  <1>7. Steady
    BY <1>2, <1>3, SteadyIfUnchanged
  <1>8. Tail(wire) \in Seq(TrueMessages')
    BY <1>5, <1>7, SteadyTruth, SeqWiden
  <1>9. CarriedIsTrue'
    BY <1>1, <1>2, <1>3, <1>7, <1>8, CarriedStays DEF CarriedIsTrue
  <1>10. ASSUME NEW o, UnderWay(o)
         PROVE  UnderWay(o)' \/ Head(wire) \in SettledOf(o)
    <2>1. HasIn(inbox, {o}) => HasIn(inbox', {o})
      BY <1>2
    <2>2. HasIn(wire, SettledOf(o)) => HasIn(Tail(wire), SettledOf(o)) \/ Head(wire) \in SettledOf(o)
      BY <1>1, <1>4, HasInTail
    <2>3. UnderWay(o)' <=> HasIn(inbox', {o}) \/ HasIn(wire', SettledOf(o))
      BY DEF UnderWay, HasIn, SettledOf
    <2>4. QED
      BY <1>1, <1>10, <2>1, <2>2, <2>3 DEF UnderWay
  <1>11. AsksSame
    BY <1>1, <1>2 DEF AsksSame
  <1>12. QED
    BY <1>1, <1>5, <1>6, <1>9, <1>10, <1>11

LEMMA SeeRest ==
    ASSUME IInv, NEW kind, Receive(kind), SeenType', seen'.wallets \subseteq opened,
           SheetTypes', SheetInv',
           \A i \in Intents : Waiting(i)' => Waiting(i) /\ Head(wire) \notin SettledOf(asks[i].open)
    PROVE  IInv'
  <1>1. /\ OpensTypeOK' /\ CarriedIsTrue' /\ AsksSame
        /\ \A o : UnderWay(o) => UnderWay(o)' \/ Head(wire) \in SettledOf(o)
    BY ReceiveFacts
  <1>2. UNCHANGED <<asks, inTime, openedFor, steppedFor, rec, opened>>
    BY <1>1, SameMemory DEF AsksSame
  <1>3. AskTypes
    BY TypesApart DEF IInv
  <1>4. TypeOK'
    BY <1>1, <1>2, <1>3 DEF TypeOK, SeenType, SheetTypes, AskTypes
  <1>5. AnswersComing'
    <2>1. ASSUME NEW i \in Intents, Waiting(i)', i \in inTime', rec'[asks'[i].open] \in Ends
          PROVE  UnderWay(asks[i].open)'
      <3>1. /\ Waiting(i) /\ i \in inTime /\ rec[asks[i].open] \in Ends
            /\ Head(wire) \notin SettledOf(asks[i].open)
        BY <1>2, <2>1
      <3>2. UnderWay(asks[i].open)
        BY <3>1 DEF IInv, AnswersComing
      <3>3. \A o : UnderWay(o)' <=> HasIn(inbox', {o}) \/ HasIn(wire', SettledOf(o))
        BY DEF UnderWay, HasIn, SettledOf
      <3>4. HasIn(inbox', {asks[i].open}) \/ HasIn(wire', SettledOf(asks[i].open))
        BY <1>1, <3>1, <3>2, <3>3
      <3>5. UnderWay(asks[i].open)' <=> HasIn(inbox', {asks'[i].open}) \/ HasIn(wire', SettledOf(asks'[i].open))
        BY DEF UnderWay, HasIn, SettledOf
      <3>6. QED
        BY <1>2, <3>4, <3>5
    <2>2. QED
      BY <1>2, <2>1 DEF AnswersComing
  <1>6. seen'.wallets \subseteq opened'
    BY <1>2
  <1>7. QED
    BY <1>1, <1>4, <1>5, <1>6 DEF IInv

LEMMA SeeChangeKeeps ==
    ASSUME IInv, NEW kind \in {"wallets", "opens", "open"}, SeeChange(kind)
    PROVE  IInv'
  <1>1. /\ Receive(kind)
        /\ seen' = [seen EXCEPT ![kind] = Head(wire).value]
        /\ UNCHANGED <<sheetVars, told>>
    BY DEF SeeChange
  <1>2. /\ Head(wire) \in TrueMessages /\ Head(wire) \in Messages /\ Head(wire).kind = kind /\ AsksSame
    BY <1>1, ReceiveFacts
  <1>3. SeenType /\ SheetTypes /\ SheetInv /\ seen.wallets \subseteq opened
    BY TypesApart DEF IInv
  <1>4. SeenType' /\ seen'.wallets \subseteq opened
    <2>1. CASE kind = "wallets"
      <3>1. seen' = [seen EXCEPT !.wallets = Head(wire).value]
        BY <1>1, <2>1
      <3>2. Head(wire).value \in SUBSET Wallets /\ Head(wire).value \subseteq opened
        BY <1>2, <2>1, MessageKinds DEF TrueMessages
      <3>3. QED
        BY <1>3, <3>1, <3>2 DEF SeenType
    <2>2. CASE kind = "opens"
      <3>1. seen' = [seen EXCEPT !.opens = Head(wire).value]
        BY <1>1, <2>2
      <3>2. Head(wire).value \in SUBSET OpenHandles
        BY <1>2, <2>2, MessageKinds
      <3>3. QED
        BY <1>3, <3>1, <3>2 DEF SeenType
    <2>3. CASE kind = "open"
      <3>1. seen' = [seen EXCEPT !.open = Head(wire).value]
        BY <1>1, <2>3
      <3>2. Head(wire).value \in OpenOrNone
        BY <1>2, <2>3, MessageKinds
      <3>3. QED
        BY <1>3, <3>1, <3>2 DEF SeenType
    <2>4. QED
      BY <2>1, <2>2, <2>3
  <1>5. SheetTypes' /\ SheetInv' /\ \A i \in Intents : Waiting(i)' => Waiting(i)
    BY <1>1, <1>2, <1>3, SheetStays
  <1>6. \A o : Head(wire) \notin SettledOf(o)
    BY <1>2 DEF SettledOf
  <1>7. QED
    BY <1>1, <1>4, <1>5, <1>6, SeeRest

LEMMA SeeEndedKeeps ==
    ASSUME IInv, SeeEnded
    PROVE  IInv'
  <1>1. Receive("ended") /\ UNCHANGED seen
    BY DEF SeeEnded
  <1>2. Head(wire) \in TrueMessages /\ Head(wire).kind = "ended" /\ AsksSame
    BY <1>1, ReceiveFacts
  <1>3. SeenType /\ SheetTypes /\ SheetInv /\ seen.wallets \subseteq opened
    BY TypesApart DEF IInv
  <1>4. SheetTypes' /\ SheetInv' /\ \A i \in Intents : Waiting(i)' => Waiting(i)
    <2>1. CASE OfThisSheet
      <3>1. Advance(TRUE, TRUE)
        BY <2>1 DEF SeeEnded
      <3>2. unlockSeed \in ended /\ unlockOpen = NoOpen /\ unlockIntent # NoIntent
        BY <1>2, <2>1 DEF OfThisSheet, TrueMessages
      <3>3. Met(unlockIntent)
        <4>1. unlockOpen = asks[unlockIntent].open /\ unlockSeed \in asks[unlockIntent].seeds
          BY <1>3, <3>2 DEF SheetInv, SheetIsHeld
        <4>2. unlockIntent \in Intents
          BY <1>3, <3>2 DEF SheetTypes
        <4>3. QED
          BY <3>2, <4>1, <4>2 DEF Met, ended
      <3>4. QED
        BY <1>2, <1>3, <3>1, <3>2, <3>3, AdvanceKeeps
    <2>2. CASE ~OfThisSheet
      BY <1>2, <1>3, <2>2, SheetStays DEF SeeEnded
    <2>3. QED
      BY <2>1, <2>2
  <1>5. \A o : Head(wire) \notin SettledOf(o)
    BY <1>2 DEF SettledOf
  <1>6. SeenType' /\ seen'.wallets \subseteq opened
    BY <1>1, <1>3 DEF SeenType
  <1>7. QED
    BY <1>1, <1>4, <1>5, <1>6, SeeRest

LEMMA SeeSettledKeeps ==
    ASSUME IInv, SeeSettled
    PROVE  IInv'
  <1> DEFINE m == Head(wire)
             ok == m.said = "approved"
  <1>1. Receive("settled") /\ UNCHANGED seen
    BY DEF SeeSettled
  <1>2. m \in TrueMessages /\ m \in Messages /\ m.kind = "settled" /\ AsksSame
    BY <1>1, ReceiveFacts
  <1>3. SeenType /\ SheetTypes /\ SheetInv /\ seen.wallets \subseteq opened
    BY TypesApart DEF IInv
  <1>4. m.value \in OpenHandles /\ m.said = rec[m.value] /\ m.value # NoOpen
    BY <1>2, MessageKinds, OpensAssumption DEF TrueMessages
  <1>5. /\ SheetTypes' /\ SheetInv'
        /\ \A i \in Intents : Waiting(i)' => Waiting(i) /\ m \notin SettledOf(asks[i].open)
    <2>1. CASE m.value = unlockOpen
      <3>1. closeUnlock(ok)
        BY <2>1 DEF SeeSettled
      <3>2. ok /\ unlockIntent # NoIntent => Met(unlockIntent)
        BY <1>3, <1>4, <2>1 DEF SheetInv, SheetIsHeld, Met
      <3> HIDE DEF ok
      <3>3. ok \in BOOLEAN
        BY DEF ok
      <3>4. QED
        BY <1>2, <1>3, <3>1, <3>2, <3>3, CloseKeeps
    <2>2. CASE m.value # unlockOpen
      <3>1. SheetTypes' /\ SheetInv' /\ \A i \in Intents : Waiting(i)' => Waiting(i)
        BY <1>2, <1>3, <2>2, SheetStays DEF SeeSettled
      <3>2. ASSUME NEW i \in Intents, Waiting(i)
            PROVE  m \notin SettledOf(asks[i].open)
        <4>1. unlockIntent = i /\ unlockIntent # NoIntent
          BY <1>3, <3>2, OnlyHeldWaits DEF SheetInv
        <4>2. unlockOpen = asks[i].open
          BY <1>3, <4>1 DEF SheetInv, SheetIsHeld
        <4>3. QED
          BY <2>2, <4>2 DEF SettledOf
      <3>3. QED
        BY <3>1, <3>2
    <2>3. QED
      BY <2>1, <2>2
  <1>6. SeenType' /\ seen'.wallets \subseteq opened
    BY <1>1, <1>3 DEF SeenType
  <1>7. QED
    BY <1>1, <1>5, <1>6, SeeRest

-----------------------------------------------------------------------------
(* The backend's steps, seen from the view *)

LEMMA BackKeeps ==
    ASSUME IInv, OpensNext, RememberStep, UNCHANGED <<seen, sheetVars, told>>
    PROVE  IInv'
  <1>1. /\ OpensTypeOK /\ SeenType /\ SheetTypes /\ AskTypes /\ SheetInv /\ BackInv
        /\ seen.wallets \subseteq opened /\ AnswersComing
    BY TypesApart DEF IInv, BackInv
  <1>2. /\ UNCHANGED <<seen, unlockSeed, unlockOpen, unlockIntent, unlockQueue, unlockedSome, asks, inTime, told>>
        /\ openedFor' = openedFor \cup {i \in Intents : asks[i].seeds \cap unlocked' # {}}
        /\ steppedFor' = (steppedFor \cup {i \in Intents : asks[i].seeds \cap MayHear' # {}}) \ openedFor'
    BY DEF sheetVars, RememberStep
  <1>3. BackStep
    BY <1>1, OpensStep
  <1>4. OpensTypeOK' /\ CarriedIsTrue' /\ Steady
    BY <1>3, BackTypes DEF BackStep
  <1>5. TypeOK'
    <2>1. openedFor' \in SUBSET Intents /\ steppedFor' \in SUBSET Intents
      BY <1>1, <1>2 DEF AskTypes
    <2>2. QED
      BY <1>1, <1>2, <1>4, <2>1 DEF TypeOK, SeenType, SheetTypes, AskTypes
  <1>6. ASSUME NEW i \in Intents, Met(i)
        PROVE  Met(i)'
    <2>1. asks[i] \in Asks \cup {NotAsked}
      BY <1>1 DEF AskTypes
    <2>2. asks[i].open \in OpenOrNone
      BY <2>1, AsksAssumption DEF NotAsked, OpenOrNone
    <2>3. CASE asks[i].open # NoOpen
      <3>1. asks[i].open \in OpenHandles /\ rec[asks[i].open] = "approved"
        BY <1>6, <2>2, <2>3 DEF OpenOrNone, Met
      <3>2. rec'[asks[i].open] = "approved"
        BY <1>4, <3>1 DEF Steady, Ends
      <3>3. QED
        BY <1>2, <2>3, <3>2 DEF Met
    <2>4. CASE asks[i].open = NoOpen
      <3>1. i \in openedFor \cup steppedFor
        BY <1>6, <2>4 DEF Met
      <3>2. i \in openedFor' \cup steppedFor'
        BY <1>2, <3>1
      <3>3. QED
        BY <1>2, <2>4, <3>2 DEF Met
    <2>5. QED
      BY <2>3, <2>4
  <1>7. SheetIsHeld'
    <2>1. unlockIntent # NoIntent => unlockIntent \in Intents
      BY <1>1 DEF SheetTypes
    <2>2. unlockedSome => unlockIntent # NoIntent /\ Met(unlockIntent)
      BY <1>1 DEF SheetInv, SheetIsHeld
    <2>3. unlockedSome' => unlockIntent' # NoIntent /\ Met(unlockIntent)'
      BY <1>2, <1>6, <2>1, <2>2 DEF Met
    <2>4. QED
      BY <1>1, <1>2, <2>3 DEF SheetInv, SheetIsHeld, SheetUp, Asked
  <1>8. \A i \in Intents : Waiting(i)' <=> Waiting(i)
    BY <1>2 DEF Waiting, Asked
  <1>9. WaitingHasSheet' /\ AskedFirst'
    <2>1. WaitingHasSheet'
      BY <1>1, <1>2, <1>8 DEF SheetInv, WaitingHasSheet, SheetUp
    <2>2. ASSUME NEW i \in Intents, i \in openedFor' \cup steppedFor'
          PROVE  Asked(i)
      <3>1. CASE i \in openedFor \cup steppedFor
        BY <1>1, <3>1 DEF SheetInv, AskedFirst
      <3>2. CASE i \notin openedFor \cup steppedFor
        <4>1. asks[i].seeds # {}
          BY <1>2, <2>2, <3>2
        <4>2. QED
          BY <4>1 DEF Asked, NotAsked
      <3>3. QED
        BY <3>1, <3>2
    <2>3. AskedFirst'
      BY <1>1, <1>2, <2>2 DEF SheetInv, AskedFirst, Asked
    <2>4. QED
      BY <2>1, <2>3
  <1>10. OkIsMet'
    <2>1. \A i \in Intents : \A n \in DOMAIN told[i] : told[i][n] = "ok" => Met(i)'
      BY <1>1, <1>6, OkForAll DEF SheetInv, OkFor
    <2>2. \A i \in Intents : \A n \in DOMAIN told'[i] : told'[i][n] = "ok" => Met(i)'
      BY <1>2, <2>1
    <2>3. QED
      BY <2>2 DEF OkIsMet, Met
  <1>11. AnswersComing'
    <2>1. ASSUME NEW i \in Intents, Waiting(i)', i \in inTime', rec'[asks'[i].open] \in Ends
          PROVE  UnderWay(asks[i].open)'
      <3>1. Waiting(i) /\ i \in inTime /\ asks[i].open \in OpenHandles /\ rec'[asks[i].open] \in Ends
        BY <1>1, <1>2, <1>8, <2>1 DEF SheetInv, AskedFirst
      <3>2. rec[asks[i].open] \in Ends => UnderWay(asks[i].open)
        BY <1>1, <3>1 DEF AnswersComing
      <3>3. \A o : UnderWay(o)' <=> HasIn(inbox', {o}) \/ HasIn(wire', SettledOf(o))
        BY DEF UnderWay, HasIn, SettledOf
      <3>4. HasIn(inbox', {asks[i].open}) \/ HasIn(wire', SettledOf(asks[i].open))
        BY <1>3, <3>1, <3>2, <3>3 DEF BackStep
      <3>5. UnderWay(asks[i].open)' <=> HasIn(inbox', {asks'[i].open}) \/ HasIn(wire', SettledOf(asks'[i].open))
        BY DEF UnderWay, HasIn, SettledOf
      <3>6. QED
        BY <1>2, <3>4, <3>5
    <2>2. QED
      BY <1>2, <2>1 DEF AnswersComing
  <1>12. seen'.wallets \subseteq opened'
    BY <1>1, <1>2, <1>4 DEF Steady
  <1>13. QED
    BY <1>4, <1>5, <1>7, <1>9, <1>10, <1>11, <1>12 DEF IInv, SheetInv

LEMMA StutterKeeps ==
    ASSUME IInv, UNCHANGED vars
    PROVE  IInv'
  <1>1. UNCHANGED <<opensVars, accessVars, seen, sheetVars, asks, inTime, openedFor, steppedFor, told>>
    BY DEF vars, viewVars, histories
  <1>2. UNCHANGED <<calls, wire, walletsJson, offered, opensJson, openJson, stack, losses, unlocked, rec, inbox>>
    BY <1>1 DEF opensVars, accessVars
  <1>3. OpensTypeOK /\ SeenType /\ SheetTypes /\ AskTypes /\ SheetInv /\ BackInv /\ calls \in Seq(Slots)
    BY TypesApart DEF IInv, BackInv, OpensTypeOK
  <1>4. SheetTypes' /\ SheetInv' /\ \A i \in Intents : Waiting(i)' => Waiting(i)
    BY <1>1, <1>2, <1>3, SheetStays DEF AsksSame
  <1>5. UnchangedByClick /\ calls' \in Seq(Slots)
    BY <1>1, <1>2, <1>3 DEF UnchangedByClick, histories
  <1>6. QED
    BY <1>4, <1>5, ClickRest

LEMMA InitHolds ==
    ASSUME Init
    PROVE  IInv
  <1>1. /\ OpensInit
        /\ seen = [wallets |-> {}, opens |-> {}, open |-> NoOpen]
        /\ unlockSeed = NoWallet /\ unlockOpen = NoOpen /\ unlockIntent = NoIntent
        /\ unlockQueue = {} /\ unlockedSome = FALSE
        /\ asks = [i \in Intents |-> NotAsked] /\ inTime = {} /\ openedFor = {} /\ steppedFor = {}
        /\ told = [i \in Intents |-> <<>>]
    BY DEF Init
  <1>2. calls = <<>> /\ wire = <<>> /\ stack = <<>> /\ inbox = <<>>
    BY <1>1 DEF OpensInit
  <1>3. /\ calls \in Seq(Slots) /\ wire \in Seq(Messages) /\ stack \in Seq(Frames)
        /\ inbox \in Seq(OpenHandles) /\ wire \in Seq(TrueMessages) /\ inbox \in Seq(Ended)
    BY <1>2
  <1>4. /\ walletsJson = {} /\ opensJson = {} /\ openJson = NoOpen /\ losses = 0
        /\ unlocked = {} /\ offered = {} /\ rec = [o \in OpenHandles |-> "live"]
    BY <1>1 DEF OpensInit
  <1>5. OpensTypeOK
    BY <1>3, <1>4, LossesAssumption DEF OpensTypeOK, OpenOrNone
  <1>6. CarriedIsTrue
    BY <1>3, <1>4 DEF CarriedIsTrue
  <1>7. SeenType /\ AskTypes /\ seen.wallets \subseteq opened
    BY <1>1 DEF SeenType, AskTypes, OpenOrNone
  <1>8. told \in [Intents -> Seq(Outcomes)] /\ \A i \in Intents : told[i] = <<>>
    BY <1>1
  <1>9. SheetTypes
    BY <1>1, <1>8 DEF SheetTypes, WalletOrNone, OpenOrNone
  <1>10. TypeOK
    BY <1>5, <1>7, <1>9, TypesApart
  <1>11. \A i \in Intents : ~Waiting(i)
    BY <1>1 DEF Waiting, Asked
  <1>12. SheetIsHeld /\ AskedFirst
    BY <1>1 DEF SheetIsHeld, AskedFirst
  <1>13. OkIsMet
    BY <1>8 DEF OkIsMet
  <1>14. WaitingHasSheet /\ AnswersComing
    BY <1>11 DEF WaitingHasSheet, AnswersComing
  <1>15. QED
    BY <1>6, <1>7, <1>10, <1>12, <1>13, <1>14 DEF IInv, SheetInv

LEMMA NextKeeps ==
    ASSUME IInv, [Next]_vars
    PROVE  IInv'
  <1>1. ASSUME NEW i \in Intents, NEW ask \in Asks, AskUnlock(i, ask)
        PROVE  IInv'
    BY <1>1, AskKeeps
  <1>2. CASE See
    BY <1>2, SeeChangeKeeps, SeeEndedKeeps, SeeSettledKeeps DEF See
  <1>3. CASE Person
    BY <1>3, ClickKeeps
  <1>4. CASE OpensNext /\ RememberStep /\ UNCHANGED <<seen, sheetVars, told>>
    BY <1>4, BackKeeps
  <1>5. CASE UNCHANGED vars
    BY <1>5, StutterKeeps
  <1>6. QED
    BY <1>1, <1>2, <1>3, <1>4, <1>5 DEF Next

LEMMA InvariantHolds == Spec => []IInv
  <1>1. Init => IInv
    BY InitHolds
  <1>2. IInv /\ [Next]_vars => IInv'
    BY NextKeeps
  <1>3. QED
    BY <1>1, <1>2, PTL DEF Spec

-----------------------------------------------------------------------------
(* What holds of the view and the backend together *)

(* The view and the backend keep to their types: SignerView.qml 24-30,     *)
(* evm_signer_ui_backend.cpp 989-1051.                                     *)
THEOREM ViewTypes == Spec => []TypeOK
  <1>1. IInv => TypeOK
    BY DEF IInv
  <1>2. QED
    BY <1>1, InvariantHolds, PTL

(* SignerView.qml answers ok only of an ask that was met: its open         *)
(* approved, or else a wallet it named unlocked or a step about one ended  *)
(* well, as of what the view had read when it was asked, or since.  So in  *)
(* whatever order the ends of steps (of any kind, their wallets locked or  *)
(* not), of opens, the wallets and the person come: what the view is told  *)
(* is so of the asks it is taken for, and remains so.                      *)
THEOREM OkIsTrue == Spec => []OkIsMet
  <1>1. IInv => OkIsMet
    BY DEF IInv, SheetInv
  <1>2. QED
    BY <1>1, InvariantHolds, PTL

(* No intent the view took waits without a sheet that answers it: the one  *)
(* held is the one unanswered.                                             *)
THEOREM NoneWaitsAlone == Spec => []WaitingHasSheet
  <1>1. IInv => WaitingHasSheet
    BY DEF IInv, SheetInv
  <1>2. QED
    BY <1>1, InvariantHolds, PTL

(* The sheet's queue holds what its intent asked for and nothing else, and *)
(* goes with the sheet (closeUnlock, advanceUnlock).                       *)
THEOREM QueueFollowsIntent == Spec => []QueueIsOfIntent
  <1>1. IInv => QueueIsOfIntent
    BY DEF IInv, SheetInv, SheetIsHeld, QueueIsOfIntent
  <1>2. QED
    BY <1>1, InvariantHolds, PTL

(* Where an open ends that an intent waits beside, the event that says so, *)
(* or the openSettled it became, is on its way to the sheet, which is up   *)
(* for that open.                                                          *)
THEOREM OpenAnswerIsComing == Spec => []OpenAnswerUnderWay
  <1>1. ASSUME IInv, NEW i \in Intents, Waiting(i), i \in inTime, rec[asks[i].open] \in Ends
        PROVE  /\ unlockOpen = asks[i].open
               /\ \/ \E n \in DOMAIN inbox : inbox[n] = asks[i].open
                  \/ \E n \in DOMAIN wire : wire[n].kind = "settled" /\ wire[n].value = asks[i].open
    <2>1. unlockIntent = i /\ unlockIntent # NoIntent
      BY <1>1, OnlyHeldWaits DEF IInv, SheetInv
    <2>2. unlockOpen = asks[i].open
      BY <1>1, <2>1 DEF IInv, SheetInv, SheetIsHeld
    <2>3. UnderWay(asks[i].open)
      BY <1>1 DEF IInv, AnswersComing
    <2>4. QED
      BY <2>2, <2>3 DEF UnderWay, HasIn, SettledOf
  <1>2. IInv => OpenAnswerUnderWay
    BY <1>1 DEF OpenAnswerUnderWay
  <1>3. QED
    BY <1>2, InvariantHolds, PTL

-----------------------------------------------------------------------------
(* An open that ended leaves the sheet                                     *)

(* No event of an open is handled behind a showOpen() of that open: that   *)
(* one may have been answered before the open ended.                       *)
ShowReturnsFirst ==
    \A n \in DOMAIN stack : ~(stack[n].call = "showOpen" /\ stack[n].of = Head(inbox))

EventsWait == [][AccessSettled => ShowReturnsFirst]_vars

(* The opens that have not ended, or whose event is yet to be handled. *)
Minded == {o \in OpenHandles : rec[o] \in Ends => HasIn(inbox, {o})}

MindedFrames(of) == {f \in Frames : f.call = "showOpen" /\ f.answer = "ok" => f.of \in of}

(* The inductive invariant: such is the open shown, and each one about to  *)
(* be.                                                                     *)
ShownIsMinded ==
    /\ openJson \in Minded \cup {NoOpen}
    /\ stack \in Seq(MindedFrames(Minded))

LEMMA MindedIsEnough == ShownIsMinded => EndedOpenLeaves
  BY DEF ShownIsMinded, Minded, HasIn, EndedOpenLeaves

(* An open is minded until its event is handled. *)
LEMMA MindedStays ==
    ASSUME OpensTypeOK,
           \/ UNCHANGED <<rec, inbox>>
           \/ \E o \in OpenHandles, state \in Ends : SettleOpen(o, state)
    PROVE  Minded \subseteq Minded'
  <1>1. CASE UNCHANGED <<rec, inbox>>
    BY <1>1 DEF Minded, HasIn
  <1>2. ASSUME NEW o \in OpenHandles, NEW state \in Ends, SettleOpen(o, state)
        PROVE  Minded \subseteq Minded'
    <2>1. SUFFICES ASSUME NEW x \in Minded, rec'[x] \in Ends
                   PROVE  HasIn(inbox', {x})
      BY DEF Minded, HasIn
    <2>2. /\ inbox \in Seq(OpenHandles) /\ inbox' = Append(inbox, o)
          /\ rec' = [rec EXCEPT ![o] = state] /\ rec \in [OpenHandles -> {"live"} \cup Ends]
          /\ x \in OpenHandles /\ (rec[x] \in Ends => HasIn(inbox, {x}))
      BY <1>2 DEF SettleOpen, OpensTypeOK, Minded
    <2>3. HasIn(inbox, {x}) \/ o \in {x}
      BY <2>1, <2>2
    <2>4. HasIn(Append(inbox, o), {x})
      BY <2>2, <2>3, HasInAppend
    <2>5. QED
      BY <2>2, <2>4
  <1>3. QED
    BY <1>1, <1>2

(* What leaves every open minded, and shows one that is or what was shown. *)
LEMMA MindedKept ==
    ASSUME ShownIsMinded, Minded \subseteq Minded',
           openJson' \in Minded \cup {openJson, NoOpen},
           stack' \in Seq(MindedFrames(Minded'))
    PROVE  ShownIsMinded'
  <1>1. openJson' \in Minded' \cup {NoOpen}
    BY DEF ShownIsMinded
  <1>2. MindedFrames(Minded)' = MindedFrames(Minded')
    BY DEF MindedFrames, Frames
  <1>3. QED
    BY <1>1, <1>2 DEF ShownIsMinded

LEMMA MindedWidens ==
    ASSUME ShownIsMinded, Minded \subseteq Minded'
    PROVE  stack \in Seq(MindedFrames(Minded'))
  <1>1. MindedFrames(Minded) \subseteq MindedFrames(Minded')
    BY DEF MindedFrames
  <1>2. QED
    BY <1>1, SeqWiden DEF ShownIsMinded

(* A slot starts: an open acknowledged is live. *)
LEMMA AskManagerMinds ==
    ASSUME OpensTypeOK, ShownIsMinded, AskManager
    PROVE  ShownIsMinded'
  <1> DEFINE slot == Head(calls)
  <1>1. slot \in Slots /\ slot.of \in OpenHandles
    <2>1. calls \in Seq(Slots) /\ calls # <<>>
      BY DEF AskManager, OpensTypeOK
    <2>2. slot \in Slots
      BY <2>1, TailIn
    <2>3. QED
      BY <2>2 DEF Slots
  <1>2. PICK answer \in Answers, got \in Answers :
           /\ Managed(slot.call, slot.of, answer)
           /\ IF slot.call = "consentOpen" /\ answer = "ok"
              THEN Heard(answer, got)
              ELSE got = answer /\ UNCHANGED losses
           /\ stack' = Push([call |-> slot.call, of |-> slot.of, answer |-> got], stack)
    BY DEF AskManager
  <1>3. openJson' = openJson
    BY DEF AskManager
  <1> DEFINE f == [call |-> slot.call, of |-> slot.of, answer |-> got]
  <1>4. /\ f \in Frames /\ f.call = slot.call /\ f.of = slot.of /\ f.answer = got
        /\ stack' = Push(f, stack)
    BY <1>1, <1>2 DEF Slots, Frames
  <1> HIDE DEF f, slot
  <1>5. Minded \subseteq Minded'
    <2>1. UNCHANGED <<rec, inbox>> \/ \E state \in Ends : SettleOpen(slot.of, state)
      BY <1>2 DEF Managed, Ends
    <2>2. QED
      BY <1>1, <2>1, MindedStays
  <1>6. f \in MindedFrames(Minded')
    <2>1. SUFFICES ASSUME slot.call = "showOpen", got = "ok"
                   PROVE  slot.of \in Minded'
      BY <1>4 DEF MindedFrames
    <2>2. answer = "ok"
      BY <1>2, <2>1
    <2>3. rec[slot.of] = "live"
      BY <1>2, <2>2 DEF Managed
    <2>4. slot.of \in Minded
      BY <1>1, <2>3 DEF Minded, Ends
    <2>5. QED
      BY <1>5, <2>4
  <1>7. stack' \in Seq(MindedFrames(Minded'))
    BY <1>4, <1>5, <1>6, MindedWidens, PushIn
  <1>8. QED
    BY <1>3, <1>5, <1>7, MindedKept

(* An event is handled: its open leaves the sheet, and none is about to    *)
(* show it.                                                                *)
LEMMA AccessSettledMinds ==
    ASSUME OpensTypeOK, ShownIsMinded, AccessSettled, ShowReturnsFirst
    PROVE  ShownIsMinded'
  <1> DEFINE o == Head(inbox)
  <1>1. inbox \in Seq(OpenHandles) /\ inbox # <<>> /\ inbox' = Tail(inbox) /\ UNCHANGED <<rec, stack>>
    BY DEF AccessSettled, OpensTypeOK
  <1>2. openJson' = IF openJson = o THEN NoOpen ELSE openJson
    BY DEF AccessSettled, SetOpenAndRefresh, SetOpen
  <1>3. Minded \ {o} \subseteq Minded'
    <2>1. SUFFICES ASSUME NEW x \in Minded, x # o, rec'[x] \in Ends
                   PROVE  HasIn(inbox', {x})
      BY DEF Minded, HasIn
    <2>2. HasIn(inbox, {x})
      BY <1>1, <2>1 DEF Minded
    <2>3. HasIn(Tail(inbox), {x})
      BY <1>1, <2>1, <2>2, HasInTail
    <2>4. QED
      BY <1>1, <2>3
  <1> HIDE DEF o
  <1>4. openJson' \in Minded' \cup {NoOpen}
    BY <1>2, <1>3 DEF ShownIsMinded
  <1>5. stack \in Seq(MindedFrames(Minded'))
    <2>1. \A n \in DOMAIN stack : stack[n] \in MindedFrames(Minded)
      BY DEF ShownIsMinded
    <2>2. \A n \in DOMAIN stack : stack[n].call = "showOpen" => stack[n].of # o
      BY DEF ShowReturnsFirst, o
    <2>3. \A n \in DOMAIN stack : stack[n] \in MindedFrames(Minded')
      BY <1>3, <2>1, <2>2 DEF MindedFrames
    <2>4. QED
      BY <2>3, SeqNarrow DEF ShownIsMinded
  <1>6. MindedFrames(Minded)' = MindedFrames(Minded')
    BY DEF MindedFrames, Frames
  <1>7. QED
    BY <1>1, <1>4, <1>5, <1>6 DEF ShownIsMinded

(* A slot returns, or what shows no other open happens. *)
LEMMA OthersMind ==
    ASSUME OpensTypeOK, ShownIsMinded, UNCHANGED <<rec, inbox>>,
           \/ ShowOpenReturns \/ DecisionReturns
           \/ UNCHANGED <<openJson, stack>>
    PROVE  ShownIsMinded'
  <1>1. Minded \subseteq Minded'
    BY MindedStays
  <1>2. stack \in Seq(MindedFrames(Minded'))
    BY <1>1, MindedWidens
  <1>3. CASE ShowOpenReturns \/ DecisionReturns
    <2>1. stack # <<>> /\ stack' = Tail(stack)
      BY <1>3 DEF ShowOpenReturns, DecisionReturns, Returning, Below
    <2>2. Head(stack) \in MindedFrames(Minded) /\ stack' \in Seq(MindedFrames(Minded'))
      BY <1>2, <2>1, TailIn DEF ShownIsMinded
    <2>3. openJson' \in Minded \cup {openJson, NoOpen}
      <3>1. CASE ShowOpenReturns
        <4>1. Top.call = "showOpen" /\ openJson' = IF Top.answer = "ok" THEN Top.of ELSE NoOpen
          BY <3>1 DEF ShowOpenReturns, Returning, Top, SetOpen
        <4>2. QED
          BY <2>2, <4>1 DEF MindedFrames, Top
      <3>2. CASE DecisionReturns
        BY <3>2 DEF DecisionReturns, SetOpenAndRefresh, SetOpen
      <3>3. QED
        BY <1>3, <3>1, <3>2
    <2>4. QED
      BY <1>1, <2>2, <2>3, MindedKept
  <1>4. CASE UNCHANGED <<openJson, stack>>
    BY <1>1, <1>2, <1>4, MindedKept
  <1>5. QED
    BY <1>3, <1>4

(* As long as no event of an open is handled behind a showOpen() of it,    *)
(* however deep the rest nests and whatever is lost, an open that ended is *)
(* shown only until the event that says so is handled: showOpen() shows    *)
(* what was live when the manager answered, and access_settled clears it.  *)
THEOREM EndedOpensLeave == Spec /\ EventsWait => []EndedOpenLeaves
  <1>1. Init => ShownIsMinded
    <2> SUFFICES ASSUME Init PROVE ShownIsMinded
      OBVIOUS
    <2>1. openJson = NoOpen /\ stack = <<>>
      BY DEF Init, OpensInit
    <2>2. QED
      BY <2>1 DEF ShownIsMinded
  <1>2. TypeOK /\ ShownIsMinded /\ [Next]_vars /\ [AccessSettled => ShowReturnsFirst]_vars
           => ShownIsMinded'
    <2> SUFFICES ASSUME TypeOK, ShownIsMinded, [Next]_vars, [AccessSettled => ShowReturnsFirst]_vars
                 PROVE  ShownIsMinded'
      OBVIOUS
    <2>0. OpensTypeOK
      BY DEF TypeOK
    <2>1. CASE UNCHANGED vars
      BY <2>0, <2>1, OthersMind DEF vars, opensVars, accessVars
    <2>2. ASSUME NEW i \in Intents, NEW ask \in Asks, AskUnlock(i, ask)
          PROVE  ShownIsMinded'
      BY <2>0, <2>2, OthersMind DEF AskUnlock, accessVars
    <2>3. CASE Person
      BY <2>0, <2>3, OthersMind DEF Person, ClickCard, ClickDecide, ClickClose, ClickSkip,
                                    UnchangedByClick, accessVars
    <2>4. CASE See
      BY <2>0, <2>4, OthersMind DEF See, SeeChange, SeeEnded, SeeSettled, Receive, accessVars
    <2>5. CASE OpensNext
      <3>1. CASE AskManager
        BY <2>0, <3>1, AskManagerMinds
      <3>2. CASE ShowOpenReturns \/ DecisionReturns
        BY <2>0, <3>2, OthersMind DEF ShowOpenReturns, DecisionReturns, accessVars
      <3>3. CASE Refresh
        BY <2>0, <3>3, OthersMind DEF Refresh, SetOpenAndRefresh, SetOpen, accessVars
      <3>4. ASSUME NEW w \in Wallets, NEW ok \in BOOLEAN, EndStep(w, ok)
            PROVE  ShownIsMinded'
        BY <2>0, <3>4, OthersMind DEF EndStep, SetOpenAndRefresh, SetOpen
      <3>5. ASSUME NEW w \in Elsewhere, Turn(w)
            PROVE  ShownIsMinded'
        BY <2>0, <3>5, OthersMind DEF Turn, opensVars
      <3>6. ASSUME NEW o \in OpenHandles, EndOpen(o)
            PROVE  ShownIsMinded'
        <4>1. (\E state \in Ends : SettleOpen(o, state)) /\ UNCHANGED <<openJson, stack>>
          BY <3>6 DEF EndOpen, opensVars
        <4>2. Minded \subseteq Minded'
          BY <2>0, <4>1, MindedStays
        <4>3. QED
          BY <4>1, <4>2, MindedWidens, MindedKept
      <3>7. CASE AccessSettled
        <4>1. inbox' # inbox
          <5>1. inbox \in Seq(OpenHandles) /\ inbox # <<>> /\ inbox' = Tail(inbox)
            BY <2>0, <3>7 DEF AccessSettled, OpensTypeOK
          <5>2. Len(Tail(inbox)) # Len(inbox)
            BY <5>1
          <5>3. QED
            BY <5>1, <5>2
        <4>2. ShowReturnsFirst
          BY <3>7, <4>1 DEF vars, accessVars
        <4>3. QED
          BY <2>0, <3>7, <4>2, AccessSettledMinds
      <3>8. QED
        BY <2>5, <3>1, <3>2, <3>3, <3>4, <3>5, <3>6, <3>7 DEF OpensNext
    <2>6. QED
      BY <2>1, <2>2, <2>3, <2>4, <2>5 DEF Next
  <1>3. QED
    BY <1>1, <1>2, MindedIsEnough, ViewTypes, PTL DEF Spec, EventsWait
=============================================================================
