------------------------------- MODULE Opens -------------------------------
(***************************************************************************)
(* Opens (src/evm_signer_ui_backend.cpp): an app asks the signer manager   *)
(* to open a wallet, and the backend shows that ask beside the wallet and  *)
(* passes on the person's consent or refusal.  The view calls its slots    *)
(* and hears of it over the wire between their processes, in order.        *)
(*                                                                         *)
(* Of the steps that unlock wallets only the end is here, and of reading   *)
(* the wallets what the sheets show of them: WalletSteps has the rest.     *)
(* What is read goes on the wire at once, the calls that read it being no  *)
(* more than a delay to the view.                                          *)
(***************************************************************************)
EXTENDS CallStack

CONSTANTS
    Wallets,
    NoWallet,       \* no wallet
    OpenHandles,    \* handles of opens
    NoOpen,         \* the empty handle
    SeedOf,         \* the wallet an open names
    Elsewhere,      \* bound: the wallets that others lock and unlock
    MaxCalls,       \* bound: how many slots are called and not returned
                    \* before the person has more called
    MaxUnseen       \* bound: how many messages the view has not seen before
                    \* a step, a poll or the manager's other clients do more

ASSUME WalletsAssumption == NoWallet \notin Wallets /\ Elsewhere \subseteq Wallets
ASSUME OpensAssumption ==
    NoOpen \notin OpenHandles /\ SeedOf \in [OpenHandles -> Wallets]
ASSUME BoundsAssumption == MaxCalls \in Nat \ {0} /\ MaxUnseen \in Nat \ {0}

VARIABLES
    calls,          \* slots called by the view and not yet run
    wire,           \* what the backend sent and the view has not seen yet
    walletsJson,    \* the wallets shown as unlocked
    offered,        \* history: those shown so before, too, whose rule and
                    \* keys the person could begin to change
    opensJson,      \* the opens shown as waiting
    openJson,       \* the open shown in full
    unlocked,       \* manager: the wallets that are unlocked
    rec,            \* manager: what became of each open since it was
                    \* asked for
    inbox           \* manager: access_settled events not yet delivered

opensVars == <<calls, wire, walletsJson, offered, opensJson, openJson, stack, losses>>
accessVars == <<unlocked, rec, inbox>>

-----------------------------------------------------------------------------
(* Types *)

WalletOrNone == Wallets \cup {NoWallet}
OpenOrNone == OpenHandles \cup {NoOpen}

Ends == {"approved", "rejected"}

Slots == [call : {"showOpen", "consentOpen", "rejectOpen"}, of : OpenHandles]

Answers == {"ok", "refused", "lost"}

Frames == [call : {"showOpen", "consentOpen", "rejectOpen"}, of : OpenHandles, answer : Answers]

(* What the view sees: a property that changed, or a signal. *)
Messages ==
    [kind : {"wallets"}, value : SUBSET Wallets]
        \cup [kind : {"opens"}, value : SUBSET OpenHandles]
        \cup [kind : {"open"}, value : OpenOrNone]
        \cup [kind : {"ended"}, value : Wallets, said : {"ok", "not ok"}]
        \cup [kind : {"settled"}, value : OpenHandles, said : Ends]

OpensTypeOK ==
    /\ calls \in Seq(Slots)
    /\ wire \in Seq(Messages)
    /\ walletsJson \in SUBSET Wallets /\ offered \in SUBSET Wallets
    /\ opensJson \in SUBSET OpenHandles
    /\ openJson \in OpenOrNone
    /\ stack \in Seq(Frames)
    /\ losses \in 0 .. MaxLosses
    /\ unlocked \in SUBSET Wallets
    /\ rec \in [OpenHandles -> {"live"} \cup Ends]
    /\ inbox \in Seq(OpenHandles)

-----------------------------------------------------------------------------
(* Pieces of the handlers *)

RoomToCall == Len(calls) + Len(stack) < MaxCalls
RoomToSend == Len(wire) < MaxUnseen

(* A property set, which the view hears of when it changed. *)
Change(kind, old, new) == IF new = old THEN <<>> ELSE <<[kind |-> kind, value |-> new]>>

Signal(kind, value, said) == <<[kind |-> kind, value |-> value, said |-> said]>>

(* An open's record settles, and the manager says so. *)
SettleOpen(o, state) ==
    /\ rec' = [rec EXCEPT ![o] = state]
    /\ inbox' = Append(inbox, o)

(* The open shown becomes o, and what `said' is signalled behind it. *)
SetOpen(o, said) ==
    /\ openJson' = o
    /\ wire' = wire \o Change("open", openJson, o) \o said
    /\ UNCHANGED <<walletsJson, offered, opensJson>>

(* The same, and refreshWallets() at the end, which reads the wallets,     *)
(* then the opens, or fails before either.                                 *)
SetOpenAndRefresh(o, said) ==
    \/ SetOpen(o, said)
    \/ /\ openJson' = o
       /\ walletsJson' = unlocked' /\ offered' = offered \cup unlocked'
       /\ opensJson' \in {opensJson, {x \in OpenHandles : rec'[x] = "live"}}
       /\ wire' = wire \o Change("open", openJson, o) \o said
                       \o Change("wallets", walletsJson, unlocked')
                       \o Change("opens", opensJson, opensJson')

-----------------------------------------------------------------------------
(* Slots *)

(* What the manager does with a call about o, and answers: it shows and    *)
(* settles what is live, and opens no wallet that is locked, nor one whose *)
(* device or password does not take the consent.                           *)
Managed(call, o, answer) ==
    \/ /\ answer = "ok"
       /\ rec[o] = "live"
       /\ \/ call = "showOpen" /\ UNCHANGED <<rec, inbox>>
          \/ call = "consentOpen" /\ SeedOf[o] \in unlocked /\ SettleOpen(o, "approved")
          \/ call = "rejectOpen" /\ SettleOpen(o, "rejected")
    \/ /\ answer = "refused"
       /\ rec[o] = "live" => call = "consentOpen"
       /\ UNCHANGED <<rec, inbox>>

(* showOpen(), consentOpen() and rejectOpen(), up to the call each makes.  *)
(* The answer to a consent may be lost, with the wallet opened.            *)
AskManager ==
    /\ MayEnter
    /\ calls # <<>>
    /\ calls' = Tail(calls)
    /\ LET slot == Head(calls) IN
          \E answer, got \in Answers :
             /\ Managed(slot.call, slot.of, answer)
             /\ IF slot.call = "consentOpen" /\ answer = "ok"
                THEN Heard(answer, got)
                ELSE got = answer /\ UNCHANGED losses
             /\ stack' = Push([call |-> slot.call, of |-> slot.of, answer |-> got], stack)
    /\ UNCHANGED <<wire, walletsJson, offered, opensJson, openJson, unlocked>>

-----------------------------------------------------------------------------
(* Handlers from where their call returned *)

(* The open shown is the one acknowledged, or none. *)
ShowOpenReturns ==
    /\ Returning("showOpen")
    /\ stack' = Below
    /\ UNCHANGED <<calls, losses, accessVars>>
    /\ SetOpen(IF Top.answer = "ok" THEN Top.of ELSE NoOpen, <<>>)

(* Consent given takes the open off, and so does a refusal, heard or not. *)
DecisionReturns ==
    /\ Returning("consentOpen") \/ Returning("rejectOpen")
    /\ stack' = Below
    /\ UNCHANGED <<calls, losses, accessVars>>
    /\ SetOpenAndRefresh(IF Top.call = "rejectOpen" \/ Top.answer = "ok" THEN NoOpen ELSE openJson, <<>>)

-----------------------------------------------------------------------------
(* Timers, events and the manager's other clients *)

(* endStep(): a step about w ended, well or not.  One that ended well has  *)
(* unlocked w, if nobody else had; or it was about the rule or the keys of *)
(* w, begun when w was shown as unlocked, and w is as it was: locked, if   *)
(* others locked it meanwhile.                                             *)
EndStep(w, ok) ==
    /\ MayEnter
    /\ RoomToSend
    /\ \/ ok /\ unlocked' = unlocked \cup {w}
       \/ (ok => w \in offered) /\ UNCHANGED unlocked
    /\ UNCHANGED <<calls, stack, losses, rec, inbox>>
    /\ SetOpenAndRefresh(openJson, Signal("ended", w, IF ok THEN "ok" ELSE "not ok"))

(* The poll, or an event that says that something changed. *)
Refresh ==
    /\ MayEnter
    /\ RoomToSend
    /\ UNCHANGED <<calls, stack, losses, accessVars>>
    /\ SetOpenAndRefresh(openJson, <<>>)

(* Fault: only the end of the open shown is relayed. *)
AccessSettledOnScreen ==
    /\ MayEnter
    /\ inbox # <<>>
    /\ inbox' = Tail(inbox)
    /\ UNCHANGED <<calls, stack, losses, unlocked, rec>>
    /\ LET o == Head(inbox) IN
          IF openJson = o THEN SetOpenAndRefresh(NoOpen, Signal("settled", o, rec[o]))
          ELSE SetOpenAndRefresh(openJson, <<>>)

(* Fault: the end of an open is relayed, and the open shown stays. *)
AccessSettledKeeping ==
    /\ MayEnter
    /\ inbox # <<>>
    /\ inbox' = Tail(inbox)
    /\ UNCHANGED <<calls, stack, losses, unlocked, rec>>
    /\ SetOpenAndRefresh(openJson, Signal("settled", Head(inbox), rec[Head(inbox)]))

(* access_settled, posted: however an open ended, it leaves the sheet. *)
AccessSettled ==
    /\ MayEnter
    /\ inbox # <<>>
    /\ inbox' = Tail(inbox)
    /\ UNCHANGED <<calls, stack, losses, unlocked, rec>>
    /\ LET o == Head(inbox) IN
          SetOpenAndRefresh(IF openJson = o THEN NoOpen ELSE openJson, Signal("settled", o, rec[o]))

(* An open ends without a call of this backend's. *)
EndOpen(o) ==
    /\ rec[o] = "live"
    /\ \E state \in Ends : SettleOpen(o, state)
    /\ UNCHANGED <<opensVars, unlocked>>

(* A wallet is locked, or unlocked, by someone else. *)
Turn(w) ==
    /\ RoomToSend
    /\ unlocked' = IF w \in unlocked THEN unlocked \ {w} ELSE unlocked \cup {w}
    /\ UNCHANGED <<opensVars, rec, inbox>>

OpensInit ==
    /\ calls = <<>>
    /\ wire = <<>>
    /\ walletsJson = {}
    /\ offered = {}
    /\ opensJson = {}
    /\ openJson = NoOpen
    /\ stack = <<>>
    /\ losses = 0
    /\ unlocked = {}
    /\ rec = [o \in OpenHandles |-> "live"]
    /\ inbox = <<>>

OpensNext ==
    \/ AskManager
    \/ ShowOpenReturns \/ DecisionReturns
    \/ Refresh \/ AccessSettled
    \/ \E o \in OpenHandles : EndOpen(o)
    \/ \E w \in Wallets, ok \in BOOLEAN : EndStep(w, ok)
    \/ \E w \in Elsewhere : Turn(w)

-----------------------------------------------------------------------------
(* Correctness *)

(* Where no handler starts behind a blocked call, an open that has ended   *)
(* is still shown only until the event that says so is handled: the        *)
(* acknowledgement that showed it may be answered after it ended, a        *)
(* consent lost, a refusal refused.                                        *)
EndedOpenLeaves ==
    openJson # NoOpen /\ rec[openJson] \in Ends =>
        \E n \in DOMAIN inbox : inbox[n] = openJson
=============================================================================
