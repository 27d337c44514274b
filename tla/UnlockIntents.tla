--------------------------- MODULE UnlockIntents ---------------------------
(***************************************************************************)
(* The view's unlock intents (qml/SignerView.qml) and the Unlock sheet     *)
(* (qml/UnlockSheet.qml): an app asks the shell for wallets to be          *)
(* unlocked, or beside one of them for an open's consent; the view shows   *)
(* the sheet for one wallet after another and answers the intent by what   *)
(* came of them.  The backend and the manager are those of Opens.          *)
(*                                                                         *)
(* The view is ready, and what it has of the backend is a copy.            *)
(***************************************************************************)
EXTENDS Opens

CONSTANTS
    Place,          \* where the manager lists each wallet
    Intents,        \* the shell's intents
    NoIntent,       \* no intent
    Asks            \* bound: what may be asked: the wallets that `seeds'
                    \* names, every one where it is left out, and an open

NotAsked == [seeds |-> {}, every |-> TRUE, open |-> NoOpen]

ASSUME PlaceAssumption == Place \in [Wallets -> Nat]
ASSUME IntentsAssumption == NoIntent \notin Intents
ASSUME AsksAssumption ==
    /\ Asks \subseteq [seeds : SUBSET Wallets, every : BOOLEAN, open : OpenOrNone]
    /\ \A ask \in Asks : ask.every => ask.seeds = Wallets
    /\ NotAsked \notin Asks

VARIABLES
    seen,           \* the view's copies of the backend's properties
    unlockSeed,     \* the wallet the sheet is up for
    unlockOpen,     \* the open shown beside it
    unlockIntent,   \* the intent the sheet is up for
    unlockQueue,    \* the wallets it asks for behind that one
    unlockedSome,   \* whether one of them was unlocked
    asks,           \* history: what each intent asked for
    inTime,         \* history: the intents whose open was live when they asked
    openedFor,      \* history: the intents of which a wallet was unlocked, as
                    \* of what the view had read when they asked, or since
    steppedFor,     \* history: of the others, those about a wallet of which
                    \* a step ended well, as of what it had heard, or since
    told            \* history: what the shell was told of each

sheetVars == <<unlockSeed, unlockOpen, unlockIntent, unlockQueue, unlockedSome>>
histories == <<asks, inTime, openedFor, steppedFor>>
viewVars == <<seen, sheetVars, histories, told>>
vars == <<opensVars, accessVars, viewVars>>

Outcomes == {"ok", "cancelled", "bad_request"}

TypeOK ==
    /\ OpensTypeOK
    /\ seen \in [wallets : SUBSET Wallets, opens : SUBSET OpenHandles, open : OpenOrNone]
    /\ unlockSeed \in WalletOrNone
    /\ unlockOpen \in OpenOrNone
    /\ unlockIntent \in Intents \cup {NoIntent}
    /\ unlockQueue \in SUBSET Wallets
    /\ unlockedSome \in BOOLEAN
    /\ asks \in [Intents -> Asks \cup {NotAsked}]
    /\ inTime \in SUBSET Intents
    /\ openedFor \in SUBSET Intents
    /\ steppedFor \in SUBSET Intents
    /\ told \in [Intents -> Seq(Outcomes)]

-----------------------------------------------------------------------------
(* Pieces of the view *)

Locked(w) == w \notin seen.wallets

(* logos.respond(), should there be an intent to answer. *)
Responding(i, said) ==
    IF i = NoIntent THEN told ELSE [told EXCEPT ![i] = Append(@, said)]

FirstOf(w, of) == w \in of /\ \A v \in of : Place[w] <= Place[v]

(* unlockTargets(): the wallet an open names, where the opens seen have    *)
(* it; else every locked wallet asked for; else the first asked by name.   *)
unlockTargets(ask) ==
    LET locked == {w \in ask.seeds : Locked(w)}
    IN IF ask.open \in seen.opens THEN {SeedOf[ask.open]}
       ELSE IF locked # {} \/ ask.every THEN locked
       ELSE {w \in ask.seeds : FirstOf(w, ask.seeds)}

(* Fault: the backend is asked to show no open, too. *)
openUnlockAlways(w, o) ==
    /\ unlockSeed' = w
    /\ unlockOpen' = o
    /\ calls' = IF o = unlockOpen THEN calls ELSE Append(calls, [call |-> "showOpen", of |-> o])

(* The sheet up for w, and beside it for o, which it has the backend show  *)
(* when it is another than before.                                         *)
openUnlock(w, o) ==
    /\ unlockSeed' = w
    /\ unlockOpen' = o
    /\ calls' = IF o \in {NoOpen, unlockOpen} THEN calls
                ELSE Append(calls, [call |-> "showOpen", of |-> o])

(* Fault: the queue is left behind. *)
closeUnlockKeeping(ok) ==
    /\ told' = Responding(unlockIntent, IF ok \/ unlockedSome THEN "ok" ELSE "cancelled")
    /\ unlockSeed' = NoWallet
    /\ unlockOpen' = NoOpen
    /\ unlockIntent' = NoIntent
    /\ unlockedSome' = FALSE
    /\ UNCHANGED unlockQueue

closeUnlock(ok) ==
    /\ told' = Responding(unlockIntent, IF ok \/ unlockedSome THEN "ok" ELSE "cancelled")
    /\ unlockSeed' = NoWallet
    /\ unlockOpen' = NoOpen
    /\ unlockIntent' = NoIntent
    /\ unlockQueue' = {}
    /\ unlockedSome' = FALSE

(* On to the next wallet of the queue that is still locked, or none is. *)
Advance(some, ok) ==
    LET locked == {w \in unlockQueue : Locked(w)}
    IN \/ \E w \in locked :
             /\ FirstOf(w, locked)
             /\ unlockSeed' = w
             /\ unlockQueue' = {v \in unlockQueue : Place[v] > Place[w]}
             /\ unlockedSome' = some
             /\ UNCHANGED <<unlockOpen, unlockIntent, told>>
       \/ locked = {} /\ closeUnlock(ok)

-----------------------------------------------------------------------------
(* The histories *)

(* The wallets the view has read as unlocked, or may yet, and those about  *)
(* which it may yet hear that a step ended well.                           *)
MaySee ==
    LET read == {n \in DOMAIN wire : wire[n].kind = "wallets"}
    IN seen.wallets \cup walletsJson \cup unlocked \cup UNION {wire[n].value : n \in read}

MayHear ==
    LET done == {n \in DOMAIN wire : wire[n].kind = "ended" /\ wire[n].said = "ok"}
    IN {wire[n].value : n \in done}

(* What an ask begins with, and what a step behind the view adds to it.    *)
RememberAsk(i, ask) ==
    /\ asks' = [asks EXCEPT ![i] = ask]
    /\ inTime' = IF ask.open # NoOpen /\ rec[ask.open] = "live" THEN inTime \cup {i} ELSE inTime
    /\ openedFor' = IF ask.seeds \cap MaySee # {} THEN openedFor \cup {i} ELSE openedFor
    /\ steppedFor' = (IF ask.seeds \cap MayHear # {} THEN steppedFor \cup {i} ELSE steppedFor) \ openedFor'

RememberStep ==
    /\ openedFor' = openedFor \cup {i \in Intents : asks[i].seeds \cap unlocked' # {}}
    /\ steppedFor' = (steppedFor \cup {i \in Intents : asks[i].seeds \cap MayHear' # {}}) \ openedFor'
    /\ UNCHANGED <<asks, inTime>>

-----------------------------------------------------------------------------
(* An app asks *)

(* Fault: an unlock intent still held is not answered. *)
DisplacingQuietly == told

(* One at a time: the intent before it is told now. *)
Displacing == Responding(unlockIntent, "cancelled")

(* onIntentRequested: a wallets.unlock.  Nothing to unlock is a bad        *)
(* request; a wallet unlocked already, and no open, needs no person.       *)
AskUnlock(i, ask) ==
    /\ asks[i] = NotAsked
    /\ RememberAsk(i, ask)
    /\ LET targets == unlockTargets(ask)
           Answered(said) ==
              /\ told' = [Displacing EXCEPT ![i] = Append(@, said)]
              /\ UNCHANGED <<sheetVars, calls>>
       IN \/ targets = {} /\ Answered("bad_request")
          \/ \E w \in targets :
                /\ FirstOf(w, targets)
                /\ \/ ask.open = NoOpen /\ ~Locked(w) /\ Answered("ok")
                   \/ /\ ask.open # NoOpen \/ Locked(w)
                      /\ told' = Displacing
                      /\ unlockIntent' = i
                      /\ unlockQueue' = targets \ {w}
                      /\ unlockedSome' = FALSE
                      /\ openUnlock(w, ask.open)
    /\ UNCHANGED <<seen, wire, walletsJson, offered, opensJson, openJson, stack, losses, accessVars>>

-----------------------------------------------------------------------------
(* The person, at the page of wallets or at the sheet *)

SheetUp == unlockSeed # NoWallet
Shown == seen.open # NoOpen /\ seen.open = unlockOpen

UnchangedByClick ==
    UNCHANGED <<seen, histories, wire, walletsJson, offered, opensJson, openJson, stack, losses, accessVars>>

(* Unlock on a wallet's card, or Review of an open of it. *)
ClickCard(w, o) ==
    /\ RoomToCall
    /\ ~SheetUp
    /\ IF o = NoOpen THEN Locked(w) ELSE o \in seen.opens /\ SeedOf[o] = w
    /\ openUnlock(w, o)
    /\ UNCHANGED <<unlockIntent, unlockQueue, unlockedSome, told>>
    /\ UnchangedByClick

(* Consent, on the sheet once its wallet is unlocked, and refusal. *)
ClickDecide(call) ==
    /\ RoomToCall
    /\ SheetUp /\ Shown
    /\ call = "consentOpen" => ~Locked(unlockSeed)
    /\ calls' = Append(calls, [call |-> call, of |-> unlockOpen])
    /\ UNCHANGED <<sheetVars, told>>
    /\ UnchangedByClick

(* Close, which is there beside an open too while a step is under way;     *)
(* leaving the sheet cancels the step, which ends it as a step ends.       *)
ClickClose ==
    /\ SheetUp
    /\ closeUnlock(~Locked(unlockSeed) /\ unlockOpen = NoOpen)
    /\ UNCHANGED calls
    /\ UnchangedByClick

ClickSkip ==
    /\ SheetUp
    /\ unlockQueue # {} /\ Locked(unlockSeed)
    /\ Advance(unlockedSome, FALSE)
    /\ UNCHANGED calls
    /\ UnchangedByClick

-----------------------------------------------------------------------------
(* What the view sees of the backend *)

Receive(kind) ==
    /\ wire # <<>>
    /\ Head(wire).kind = kind
    /\ wire' = Tail(wire)
    /\ UNCHANGED <<histories, calls, walletsJson, offered, opensJson, openJson, stack, losses, accessVars>>

SeeChange(kind) ==
    /\ Receive(kind)
    /\ seen' = [seen EXCEPT ![kind] = Head(wire).value]
    /\ UNCHANGED <<sheetVars, told>>

(* Fault: the end of any step meets the ask. *)
OfThisSheetAny == unlockOpen = NoOpen /\ unlockIntent # NoIntent

(* A step's end concerns the sheet where it did what an intent asked. *)
OfThisSheet ==
    /\ Head(wire).said = "ok"
    /\ Head(wire).value = unlockSeed
    /\ unlockOpen = NoOpen
    /\ unlockIntent # NoIntent

(* onUnlockEnded: on to the next wallet, or all are done. *)
SeeEnded ==
    /\ Receive("ended")
    /\ IF OfThisSheet THEN Advance(TRUE, TRUE) ELSE UNCHANGED <<sheetVars, told>>
    /\ UNCHANGED seen

(* onOpenSettled: the sheet was up for this open. *)
SeeSettled ==
    /\ Receive("settled")
    /\ IF Head(wire).value = unlockOpen
       THEN closeUnlock(Head(wire).said = "approved")
       ELSE UNCHANGED <<sheetVars, told>>
    /\ UNCHANGED seen

-----------------------------------------------------------------------------
(* The specification *)

Init ==
    /\ OpensInit
    /\ seen = [wallets |-> {}, opens |-> {}, open |-> NoOpen]
    /\ unlockSeed = NoWallet
    /\ unlockOpen = NoOpen
    /\ unlockIntent = NoIntent
    /\ unlockQueue = {}
    /\ unlockedSome = FALSE
    /\ asks = [i \in Intents |-> NotAsked]
    /\ inTime = {}
    /\ openedFor = {}
    /\ steppedFor = {}
    /\ told = [i \in Intents |-> <<>>]

Person ==
    \/ \E w \in Wallets, o \in OpenOrNone : ClickCard(w, o)
    \/ \E call \in {"consentOpen", "rejectOpen"} : ClickDecide(call)
    \/ ClickClose \/ ClickSkip

See ==
    \/ \E kind \in {"wallets", "opens", "open"} : SeeChange(kind)
    \/ SeeEnded \/ SeeSettled

Next ==
    \/ \E i \in Intents, ask \in Asks : AskUnlock(i, ask)
    \/ Person
    \/ See
    \/ OpensNext /\ RememberStep /\ UNCHANGED <<seen, sheetVars, told>>

Spec == Init /\ [][Next]_vars

-----------------------------------------------------------------------------
(* Correctness *)

Asked(i) == asks[i] # NotAsked
Waiting(i) == Asked(i) /\ told[i] = <<>>

(* ok is said only of an ask that was met: its open approved, or else a    *)
(* wallet it named unlocked, or a step about one ended well, and not       *)
(* before what the view had read when it was asked.  However the steps'    *)
(* ends, those of other wallets' and other kinds too, the wallets read     *)
(* again, Close, Skip and another ask follow on one another.               *)
OkIsMet ==
    \A i \in Intents : \A n \in DOMAIN told[i] : told[i][n] = "ok" =>
        IF asks[i].open # NoOpen THEN rec[asks[i].open] = "approved"
        ELSE i \in openedFor \cup steppedFor

(* An intent not answered yet is the one held, with a sheet up that        *)
(* answers it when it is left: none waits for the shell's timeout.         *)
WaitingHasSheet ==
    \A i \in Intents : Waiting(i) => unlockIntent = i /\ SheetUp

(* What the sheet goes on to is what its intent asked for, not the wallet  *)
(* it is up for, and nothing is left of an intent whose sheet is gone.     *)
QueueIsOfIntent ==
    unlockQueue # {} =>
        /\ SheetUp /\ unlockIntent # NoIntent
        /\ unlockQueue \subseteq asks[unlockIntent].seeds \ {unlockSeed}

(* An intent that waits beside an open it named while that was live is     *)
(* answered once the open ends: what answers it is under way.              *)
OpenAnswerUnderWay ==
    \A i \in Intents : LET o == asks[i].open IN
        Waiting(i) /\ i \in inTime /\ rec[o] \in Ends =>
            /\ unlockOpen = o
            /\ \/ \E n \in DOMAIN inbox : inbox[n] = o
               \/ \E n \in DOMAIN wire : wire[n].kind = "settled" /\ wire[n].value = o

-----------------------------------------------------------------------------
(* What a comment and a document say, and the code does not do *)

(* SignerView.qml:139: "One at a time: a second ask while the sheet is up  *)
(* ends the first as displaced."  It is ended, and its sheet stays to end  *)
(* it again where the second is answered without one.                      *)
AnsweredOnce == \A i \in Intents : Len(told[i]) <= 1

(* specs.md:202 has the ask "answered `ok` once the last unlocks", or when *)
(* the sheet is closed "after unlocking at least one".  A step about the   *)
(* rule or the keys of the wallet shown, begun while that was unlocked and *)
(* ended once others had locked it, is taken for one that unlocks it.      *)
OkIsUnlocked ==
    \A i \in Intents : \A n \in DOMAIN told[i] :
        told[i][n] = "ok" /\ asks[i].open = NoOpen => i \in openedFor

(* specs.md:200 has the ask open "the sheet for the wallet an open names". *)
(* Not where the backend has not read that open yet.                       *)
OpenBesideItsWallet ==
    unlockOpen # NoOpen => unlockSeed = SeedOf[unlockOpen]
=============================================================================
