----------------------------- MODULE Approvals -----------------------------
(***************************************************************************)
(* The request half of EvmSignerUiBackend (src/evm_signer_ui_backend.cpp): *)
(* the queue of signing requests, the one on screen, and the person's      *)
(* decision about it.                                                      *)
(*                                                                         *)
(* A handler is cut at its calls (CallStack): each action below is what it *)
(* does from where it starts, or from where a call returned to it, to its  *)
(* next call or its end.                                                   *)
(*                                                                         *)
(* Requests are their handles; a request's bundle id, its lines and the    *)
(* reading of its lines are named by the handle they belong to.            *)
(***************************************************************************)
EXTENDS SignerManager, ErrorHold

VARIABLES
    screen,         \* the rendered properties: the request on screen
    dwelling,       \* m_dwell is running
    pending,        \* pendingJson
    statusText,
    lastError,
    holding,        \* m_confirmUntil has not passed
    hold,           \* m_errors
    inFlight,       \* m_inFlight
    posted,         \* a zero timer has yet to run refreshSigners()
    confirmed       \* history: the requests the person was told are signed

bvarsButStack == <<screen, dwelling, pending, statusText, lastError, holding, hold, inFlight, posted, confirmed>>
bvars == <<bvarsButStack, stack>>
vars == <<mvars, bvars>>

-----------------------------------------------------------------------------
(* Types *)

OrNone(S) == S \cup {NoHandle}

Screens ==
    [handle : OrNone(Handles), bundle : OrNone(Handles), lines : OrNone(Handles),
     reading : OrNone(Handles), signer : Signers \cup {NoSigner}, signersOf : OrNone(Handles),
     signing : BOOLEAN, armed : BOOLEAN]

BlankScreen ==
    [handle |-> NoHandle, bundle |-> NoHandle, lines |-> NoHandle, reading |-> NoHandle,
     signer |-> NoSigner, signersOf |-> NoHandle, signing |-> FALSE, armed |-> FALSE]

(* The status line, and the error line under the sheet, by what they say.  *)
StatusTexts == {"Ready", "queue", "Approved", "Confirm on the signing device", "unreachable"}

(* "call" stands for every text that says why a slot did nothing: nobody   *)
(* compares them again.                                                    *)
ErrorTexts == {"", "unreachable", "signer", "call"}

(* A blocked call: the handler waiting in it (call), the request it is     *)
(* about, whether refresh() or a slot of its own led to it, what it had    *)
(* read before, and the answer it will get.                                *)
Calls == {"pending", "acknowledge", "interpret", "choose signer", "signers",
          "approve", "signers after approve", "reject"}

Frames ==
    {f \in [call : Calls, handle : OrNone(Handles), refreshing : BOOLEAN, held : BOOLEAN,
            answer : Answers, list : SUBSET Handles, signer : Signers \cup {NoSigner},
            presence : Presences] :
        /\ f.handle = NoHandle => f.call = "pending"
        /\ f.refreshing => f.call \in {"acknowledge", "interpret"}}

BackendTypeOK ==
    /\ screen \in Screens
    /\ dwelling \in BOOLEAN
    /\ pending \subseteq Handles
    /\ statusText \in StatusTexts
    /\ lastError \in ErrorTexts
    /\ holding \in BOOLEAN
    /\ hold \in Holds(ErrorTexts, Signers \cup {NoSigner})
    /\ inFlight \in BOOLEAN
    /\ posted \in BOOLEAN
    /\ stack \in Seq(Frames)
    /\ confirmed \subseteq Handles

TypeOK == ManagerTypeOK /\ BackendTypeOK

-----------------------------------------------------------------------------
(* Frames *)

Frame(call, h, answer) ==
    [call |-> call, handle |-> h, refreshing |-> FALSE, held |-> FALSE, answer |-> answer,
     list |-> {}, signer |-> NoSigner, presence |-> ""]

-----------------------------------------------------------------------------
(* Pieces of the handlers *)

(* Fault: clearRendered without m_dwell.stop(). *)
ClearRenderedDwelling ==
    /\ screen' = BlankScreen
    /\ UNCHANGED dwelling

(* clearRendered, but for the error line its callers go on to write. *)
ClearRendered ==
    /\ screen' = BlankScreen
    /\ dwelling' = FALSE

(* applySigner: who signs, and who else could, from the reply. *)
WithSigner(scr, f) == [scr EXCEPT !.signer = f.signer, !.signersOf = f.handle]

(* Fault: refresh() without its m_inFlight guard. *)
RefreshUnguarded(s) ==
    /\ inFlight' = TRUE
    /\ \E got \in {"ok", "lost"} :
          /\ Heard("ok", got)
          /\ stack' = Push([Frame("pending", NoHandle, got) EXCEPT !.list = Pending], s)

(* refresh(), called on top of the calls in s: nothing while another is in *)
(* flight, else a blocked call to pending().                               *)
Refresh(s) ==
    IF inFlight
    THEN stack' = s /\ UNCHANGED <<inFlight, losses>>
    ELSE /\ inFlight' = TRUE
         /\ \E got \in {"ok", "lost"} :
               /\ Heard("ok", got)
               /\ stack' = Push([Frame("pending", NoHandle, got) EXCEPT !.list = Pending], s)

(* acknowledge(h), called by refresh() or as a slot, on top of s. *)
StartAcknowledge(h, refreshing, held, s) ==
    \E answer \in {"ok", "refused"}, got \in {"ok", "refused", "lost"} :
        /\ \/ Acknowledge(h, answer) /\ Heard(answer, got)
           \/ Unsent(got) /\ answer = "refused"
        /\ stack' = Push([Frame("acknowledge", h, got) EXCEPT
                            !.refreshing = refreshing, !.held = held, !.signer = signerOf[h]], s)

(* The manager's approval_signers(h), asked by refreshSigners or approve. *)
AskSigners(call, h, s) ==
    \E answer, got \in {"ok", "refused", "lost"} :
        /\ ApprovalSigners(h, answer)
        /\ Heard(answer, got)
        /\ stack' = Push([Frame(call, h, got) EXCEPT
                            !.signer = signerOf[h], !.presence = presence[signerOf[h]]], s)

SignersReadable == screen.handle # NoHandle /\ ~screen.signing

(* The reply readSigners waited for is for the request on screen. *)
SignersAnswer(f) == f.answer = "ok" /\ f.handle = screen.handle

-----------------------------------------------------------------------------
(* Handlers that make no call: they may run behind any blocked call *)

(* An event of the manager's, delivered on its read stack: it posts the    *)
(* work that needs a call of its own.  The refreshSoon() it posts is a     *)
(* Poll, which may run at any time, so nothing is kept of it.              *)
DeliverEvent ==
    /\ inbox # <<>>
    /\ inbox' = Tail(inbox)
    /\ LET e == Head(inbox) IN
          /\ posted' = (posted \/ e.kind = "accounts")
          /\ IF e.kind = "settled" /\ e.handle = screen.handle
             THEN ClearRendered /\ lastError' = ""
             ELSE UNCHANGED <<screen, dwelling, lastError>>
    /\ UNCHANGED <<rec, signerOf, explicit, presence, authorised, losses, moves>>
    /\ UNCHANGED <<pending, statusText, holding, hold, inFlight, stack, confirmed>>

(* m_dwell times out: Approve arms. *)
DwellTimeout ==
    /\ dwelling
    /\ dwelling' = FALSE
    /\ screen' = [screen EXCEPT !.armed = TRUE]
    /\ UNCHANGED <<mvars, pending, statusText, lastError, holding, hold, inFlight, posted, stack, confirmed>>

(* m_confirmUntil passes. *)
ConfirmExpires ==
    /\ holding
    /\ holding' = FALSE
    /\ UNCHANGED <<mvars, screen, dwelling, pending, statusText, lastError, hold, inFlight, posted, stack, confirmed>>

(* dismiss(): Back closes the sheet without deciding. *)
Dismiss ==
    /\ screen.handle # NoHandle
    /\ ClearRendered
    /\ lastError' = ""
    /\ UNCHANGED <<mvars, pending, statusText, holding, hold, inFlight, posted, stack, confirmed>>

-----------------------------------------------------------------------------
(* Handlers up to their first call *)

(* m_poll, the view's refresh(), and a posted refreshSoon(). *)
Poll ==
    /\ MayEnter /\ ~inFlight
    /\ Refresh(stack)
    /\ UNCHANGED <<rec, signerOf, explicit, presence, inbox, authorised, moves>>
    /\ UNCHANGED <<screen, dwelling, pending, statusText, lastError, holding, hold, posted, confirmed>>

(* The posted refreshSigners(), after a signer came or went. *)
RefreshSigners ==
    /\ MayEnter
    /\ posted
    /\ posted' = FALSE
    /\ IF SignersReadable
       THEN AskSigners("signers", screen.handle, stack)
       ELSE UNCHANGED <<mvars, stack>>
    /\ UNCHANGED <<screen, dwelling, pending, statusText, lastError, holding, hold, inFlight, confirmed>>

(* acknowledge(): the person opens a request from the queue, or an intent  *)
(* names one, known to the manager or not.                                 *)
OpenRequest(h) ==
    /\ MayEnter
    /\ StartAcknowledge(h, FALSE, FALSE, stack)
    /\ UNCHANGED bvarsButStack

(* chooseSigner(): refused here unless h is on screen and not yet with its *)
(* device; nothing to do for the signer already chosen.                    *)
PickSigner(h, s) ==
    /\ MayEnter
    /\ \/ /\ h # screen.handle \/ screen.signing
          /\ lastError' = "call"
          /\ UNCHANGED <<mvars, stack>>
       \/ /\ h = screen.handle /\ ~screen.signing
          /\ s # screen.signer
          /\ UNCHANGED lastError
          /\ \E answer \in {"ok", "refused"}, got \in {"ok", "refused", "lost"} :
                /\ \/ ChooseSigner(h, screen.bundle, s, answer) /\ Heard(answer, got)
                   \/ Unsent(got) /\ answer = "refused"
                /\ stack' = Push([Frame("choose signer", h, got) EXCEPT !.signer = s], stack)
    /\ UNCHANGED <<screen, dwelling, pending, statusText, holding, hold, inFlight, posted, confirmed>>

(* Fault: approve() checks the handle only. *)
OnScreenAnyBundle(h, bundle) == h = screen.handle

(* approve's guard: what the view passes is what is on screen. *)
OnScreen(h, bundle) == h = screen.handle /\ bundle = screen.bundle

(* approve(): the view passes the handle and the bundle it shows, which    *)
(* may be older than what is on screen here.                               *)
GiveApproval(h, bundle) ==
    /\ MayEnter
    /\ \/ /\ ~OnScreen(h, bundle)
          /\ lastError' = "call"
          /\ UNCHANGED <<mvars, stack>>
       \/ /\ OnScreen(h, bundle)
          /\ ~screen.armed
          /\ lastError' = "call"
          /\ UNCHANGED <<mvars, stack>>
       \/ /\ OnScreen(h, bundle)
          /\ screen.armed
          /\ UNCHANGED lastError
          /\ \E answer \in Answers, got \in Answers :
                /\ \/ Approve(h, bundle, answer) /\ Heard(answer, got)
                   \/ Unsent(got) /\ answer = "refused"
                /\ stack' = Push(Frame("approve", h, got), stack)
    /\ UNCHANGED <<screen, dwelling, pending, statusText, holding, hold, inFlight, posted, confirmed>>

GiveRejection(h) ==
    /\ MayEnter
    /\ \E answer \in {"ok", "refused"}, got \in {"ok", "refused", "lost"} :
          /\ \/ Reject(h, answer) /\ Heard(answer, got)
             \/ Unsent(got) /\ answer = "refused"
          /\ stack' = Push(Frame("reject", h, got), stack)
    /\ UNCHANGED bvarsButStack

-----------------------------------------------------------------------------
(* Handlers from where their call returned *)

(* refresh() claims a request of the queue when nothing is on screen. *)
Claims(list) == screen.handle = NoHandle /\ list # {}

(* Fault: the hold is not told of the failure. *)
PendingFailedForgetting ==
    /\ Returning("pending")
    /\ Top.answer = "lost"
    /\ lastError' = "unreachable"
    /\ statusText' = "unreachable"
    /\ inFlight' = FALSE
    /\ stack' = Below
    /\ UNCHANGED <<mvars, screen, dwelling, pending, holding, hold, posted, confirmed>>

(* refresh() once pending() answered: a failure is shown as an error the   *)
(* poll may clear later; else the queue is replaced, the status line       *)
(* follows it unless a confirmation or a device holds the line, and with   *)
(* nothing on screen a request of the queue is claimed.                    *)
PendingFailed ==
    /\ Returning("pending")
    /\ Top.answer = "lost"
    /\ lastError' = "unreachable"
    /\ statusText' = "unreachable"
    /\ hold' = PollFailed(hold, "unreachable")
    /\ inFlight' = FALSE
    /\ stack' = Below
    /\ UNCHANGED <<mvars, screen, dwelling, pending, holding, posted, confirmed>>

PendingRead ==
    /\ Returning("pending")
    /\ Top.answer = "ok"
    /\ lastError' = IF PollClears(hold, lastError) THEN "" ELSE lastError
    /\ hold' = PollRead(hold)
    /\ pending' = Top.list
    /\ statusText' = IF holding \/ screen.signing THEN statusText
                     ELSE "queue"
    /\ IF Claims(Top.list)
       THEN /\ \E next \in Top.list : StartAcknowledge(next, TRUE, holding, Below)
            /\ UNCHANGED inFlight
       ELSE /\ inFlight' = FALSE
            /\ stack' = Below
            /\ UNCHANGED mvars
    /\ UNCHANGED <<screen, dwelling, holding, posted, confirmed>>

(* Fault: a refused acknowledge() leaves the sheet as it was. *)
AcknowledgeRefusedKeeping ==
    /\ Returning("acknowledge")
    /\ Top.answer # "ok"
    /\ lastError' = "call"
    /\ inFlight' = (inFlight /\ ~Top.refreshing)
    /\ stack' = Below
    /\ UNCHANGED <<mvars, screen, dwelling, pending, statusText, holding, hold, posted, confirmed>>

(* Fault: refresh() returns from a refused claim without releasing         *)
(* m_inFlight.                                                             *)
AcknowledgeRefusedHolding ==
    /\ Returning("acknowledge")
    /\ Top.answer # "ok"
    /\ ClearRendered
    /\ lastError' = "call"
    /\ stack' = Below
    /\ UNCHANGED <<mvars, pending, statusText, holding, hold, inFlight, posted, confirmed>>

(* acknowledge() once the manager answered.  Refused, it clears whatever   *)
(* is on screen; else the bundle and the lines are set, and interpret()    *)
(* may block on the token list before the rest is.                         *)
AcknowledgeRefused ==
    /\ Returning("acknowledge")
    /\ Top.answer # "ok"
    /\ ClearRendered
    /\ lastError' = "call"
    /\ inFlight' = (inFlight /\ ~Top.refreshing)
    /\ stack' = Below
    /\ UNCHANGED <<mvars, pending, statusText, holding, hold, posted, confirmed>>

ShowLines ==
    /\ Returning("acknowledge")
    /\ Top.answer = "ok"
    /\ lastError' = ""
    /\ screen' = [screen EXCEPT !.bundle = Top.handle, !.lines = Top.handle]
    /\ stack' = Push([Top EXCEPT !.call = "interpret"], Below)
    /\ UNCHANGED <<mvars, dwelling, pending, statusText, holding, hold, inFlight, posted, confirmed>>

(* ... and once interpret() has its reading: the request is on screen, and *)
(* the dwell starts.  A claim refresh() made during a confirmation ends it.*)
ShowRequest ==
    /\ Returning("interpret")
    /\ screen' = [WithSigner(screen, Top) EXCEPT
                    !.reading = Top.handle, !.handle = Top.handle, !.armed = FALSE]
    /\ dwelling' = TRUE
    /\ inFlight' = (inFlight /\ ~Top.refreshing)
    /\ holding' = (holding /\ ~Top.held)
    /\ statusText' = IF Top.held THEN "queue" ELSE statusText
    /\ stack' = Below
    /\ UNCHANGED <<mvars, pending, lastError, hold, posted, confirmed>>

SignerPicked ==
    /\ Returning("choose signer")
    /\ IF Top.answer = "ok"
       THEN lastError' = "" /\ screen' = WithSigner(screen, Top)
       ELSE lastError' = "call" /\ UNCHANGED screen
    /\ stack' = Below
    /\ UNCHANGED <<mvars, dwelling, pending, statusText, holding, hold, inFlight, posted, confirmed>>

SignersArrive ==
    /\ Returning("signers")
    /\ IF SignersAnswer(Top)
       THEN /\ screen' = WithSigner(screen, Top)
            /\ lastError' = IF SignersClear(hold, lastError, Top.signer, Top.presence)
                            THEN "" ELSE lastError
            /\ hold' = SignersRead(hold, lastError, Top.signer, Top.presence)
       ELSE UNCHANGED <<screen, lastError, hold>>
    /\ stack' = Below
    /\ UNCHANGED <<mvars, dwelling, pending, statusText, holding, inFlight, posted, confirmed>>

(* approve() once the manager answered: a device took it and signs in its  *)
(* own time; or it is signed, and the request leaves the queue and the     *)
(* screen here; or it was refused, and where the signer is the reason its  *)
(* signers are read again before the reason is held.                       *)
ApprovalSigning ==
    /\ Returning("approve")
    /\ Top.answer = "signing"
    /\ lastError' = ""
    /\ screen' = [screen EXCEPT !.signing = TRUE]
    /\ statusText' = "Confirm on the signing device"
    /\ stack' = Below
    /\ UNCHANGED <<mvars, dwelling, pending, holding, hold, inFlight, posted, confirmed>>

(* Fault: the queue is left to the next refresh(). *)
ApprovalSignedListed ==
    /\ Returning("approve")
    /\ Top.answer = "signed"
    /\ statusText' = "Approved"
    /\ holding' = TRUE
    /\ confirmed' = confirmed \cup {Top.handle}
    /\ ClearRendered
    /\ lastError' = ""
    /\ Refresh(Below)
    /\ UNCHANGED <<rec, signerOf, explicit, presence, inbox, authorised, moves, pending, hold, posted>>

ApprovalSigned ==
    /\ Returning("approve")
    /\ Top.answer = "signed"
    /\ statusText' = "Approved"
    /\ holding' = TRUE
    /\ pending' = pending \ {Top.handle}
    /\ confirmed' = confirmed \cup {Top.handle}
    /\ ClearRendered
    /\ lastError' = ""
    /\ Refresh(Below)
    /\ UNCHANGED <<rec, signerOf, explicit, presence, inbox, authorised, moves, hold, posted>>

ApprovalRefused ==
    /\ Returning("approve")
    /\ Top.answer \notin {"signing", "signed"}
    /\ lastError' = IF Top.answer = "signer" THEN "signer" ELSE "call"
    /\ IF Top.answer = "signer" /\ SignersReadable
       THEN AskSigners("signers after approve", screen.handle, Below) /\ UNCHANGED hold
       ELSE /\ hold' = IF Top.answer = "signer"
                       THEN SignerRefused(hold, "signer", screen.signer, "") ELSE hold
            /\ stack' = Below
            /\ UNCHANGED mvars
    /\ UNCHANGED <<screen, dwelling, pending, statusText, holding, inFlight, posted, confirmed>>

RefusalHeld ==
    /\ Returning("signers after approve")
    /\ screen' = IF SignersAnswer(Top) THEN WithSigner(screen, Top) ELSE screen
    /\ hold' = SignerRefused(hold, lastError, screen'.signer,
                             IF SignersAnswer(Top) THEN Top.presence ELSE "")
    /\ stack' = Below
    /\ UNCHANGED <<mvars, dwelling, pending, statusText, lastError, holding, inFlight, posted, confirmed>>

RejectionAnswered ==
    /\ Returning("reject")
    /\ IF Top.answer = "ok"
       THEN ClearRendered /\ lastError' = ""
       ELSE UNCHANGED <<screen, dwelling, lastError>>
    /\ Refresh(Below)
    /\ UNCHANGED <<rec, signerOf, explicit, presence, inbox, authorised, moves>>
    /\ UNCHANGED <<pending, statusText, holding, hold, posted, confirmed>>

-----------------------------------------------------------------------------
(* The specification *)

(* After onContextReady() with nothing offered yet. *)
Init ==
    /\ ManagerInit
    /\ screen = BlankScreen
    /\ dwelling = FALSE
    /\ pending = {}
    /\ statusText = "Ready"
    /\ lastError = ""
    /\ holding = FALSE
    /\ hold = HoldNothing(NoSigner)
    /\ inFlight = FALSE
    /\ posted = FALSE
    /\ stack = <<>>
    /\ confirmed = {}

ManagerStep ==
    /\ \/ \E h \in Handles : Offer(h) \/ End(h)
       \/ \E s \in Signers : SignerMoves(s)
    /\ UNCHANGED bvars

(* What the person, or an intent, makes the view call. *)
View ==
    \/ Dismiss
    \/ \E h \in Handles : OpenRequest(h) \/ GiveRejection(h)
    \/ \E h \in Handles, s \in Signers : PickSigner(h, s)
    \/ \E h \in Handles, bundle \in OrNone(Handles) : GiveApproval(h, bundle)

Return ==
    \/ PendingFailed \/ PendingRead
    \/ AcknowledgeRefused \/ ShowLines \/ ShowRequest
    \/ SignerPicked \/ SignersArrive
    \/ ApprovalSigning \/ ApprovalSigned \/ ApprovalRefused \/ RefusalHeld
    \/ RejectionAnswered

Next ==
    \/ ManagerStep
    \/ DeliverEvent \/ DwellTimeout \/ ConfirmExpires
    \/ Poll \/ RefreshSigners
    \/ View
    \/ Return

Spec == Init /\ [][Next]_vars

(* The event loop dispatches a due timer, whatever else keeps it busy, and *)
(* a blocked call ends, by its answer or by its deadline.                  *)
Fairness == SF_vars(Poll) /\ WF_vars(Return)

FairSpec == Spec /\ Fairness

-----------------------------------------------------------------------------
(* Correctness *)

(* The backend keeps ApprovalContract's promise, however its handlers      *)
(* nest: approve() passes on only what is on screen, and acknowledge()     *)
(* disarms with every request it puts there.                               *)
Contract == INSTANCE ApprovalContract WITH
    handle <- screen.handle, lines <- screen.lines, armed <- screen.armed

ContractKept == Contract!Spec

(* The bundle id approve() is checked against and the lines on screen are  *)
(* always the same request's, and only a request on screen can be armed or *)
(* arming: acknowledge() and clearRendered() set each pair together.       *)
SheetCoherent ==
    /\ screen.bundle = screen.lines
    /\ screen.armed \/ dwelling => screen.handle # NoHandle

(* m_inFlight is set exactly while one refresh() is under way, blocked in  *)
(* pending() or in the claim it made: no tick stacks a second poll, and no *)
(* way out of one leaves the queue unread for good.                        *)
Refreshes == {i \in DOMAIN stack : stack[i].call = "pending" \/ stack[i].refreshing}

OnePollAtATime ==
    /\ inFlight <=> Refreshes # {}
    /\ \A i, j \in Refreshes : i = j

(* An error line that says the manager cannot be reached is one the next   *)
(* good poll clears, and one that says the signer was refused is one that  *)
(* reading the signers can clear: neither is stranded.                     *)
ErrorsAnswerable ==
    /\ lastError = "unreachable" => hold.poll = "unreachable"
    /\ lastError = "signer" =>
          \/ hold.refused = "signer"
          \/ \E i \in DOMAIN stack : stack[i].call = "signers after approve"

(* A request waiting at the manager gets on screen, ends, or waits only    *)
(* for a device that is signing another: calls may fail and events may be  *)
(* late, but the poll is the backstop, and nothing leaves it unable to run.*)
RequestsGetShown ==
    Pending # {} ~> \/ screen.handle # NoHandle
                    \/ Pending = {}
                    \/ \E h \in Handles : rec[h] = "signing"

-----------------------------------------------------------------------------
(* What the code's comments and documents say, and the code does not do *)

(* "the manager's settled event ends the sheet", with the poll as          *)
(* "backstop": with nothing under way, every event delivered and the queue *)
(* just read without it, a request that ended is off the screen.           *)
EndedLeavesTheScreen ==
    (stack = <<>> /\ inbox = <<>> /\ pending = Pending /\ screen.handle # NoHandle)
        => rec[screen.handle] # "ended"
=============================================================================
