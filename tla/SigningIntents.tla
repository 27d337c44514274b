--------------------------- MODULE SigningIntents ---------------------------
(***************************************************************************)
(* The view's signing intents (qml/SignerView.qml): the shell hands it     *)
(* intents that each name a request, and it answers each by what becomes   *)
(* of that request.  The view and the backend are two processes: the view  *)
(* calls slots and does not wait, and sees the backend's properties,       *)
(* signals and replies one behind the other, in the order they were sent.  *)
(*                                                                         *)
(* The backend is cut down to what the view can tell (Approvals has the    *)
(* rest): which request is on screen, which slots are blocked, and the     *)
(* manager's settled events as they are relayed.                           *)
(***************************************************************************)
EXTENDS CallStack

CONSTANTS
    Handles,        \* the requests' handles
    NoHandle,       \* the empty handle
    Intents,        \* the shell's intents
    NoIntent,       \* no intent
    MaxTraffic      \* bound: how much may be under way before the person,
                    \* the shell or the poll does more

ASSUME HandlesAssumption == NoHandle \notin Handles
ASSUME IntentsAssumption == NoIntent \notin Intents
ASSUME TrafficAssumption == MaxTraffic \in Nat \ {0}

VARIABLES
    intentByHandle, \* view: which intent waits for which request
    seen,           \* view: its copy of renderedHandle
    handleOf,       \* the request each intent named once it was asked
    standing,       \* history: what the shell has been told of each intent
    calls,          \* slots called by the view and not yet run
    wire,           \* what the backend sent and the view has not seen yet
    screen,         \* backend: renderedHandle
    rec,            \* manager: what became of each request
    inbox           \* manager: settled events not yet delivered

viewVars == <<intentByHandle, seen, handleOf, standing>>
backVars == <<screen, stack, losses>>
mgrVars == <<rec, inbox>>
vars == <<viewVars, calls, wire, backVars, mgrVars>>

-----------------------------------------------------------------------------
(* Types *)

OrNone(S) == S \cup {NoHandle}

(* However else a request ends, its intent hears the same as of a no. *)
SettledStates == {"approved", "rejected"}
Records == {"unknown", "live"} \cup SettledStates

Outcomes == {"ok", "cancelled", "bad_request"}
Standings == {"unasked", "waiting", "answered twice"} \cup Outcomes

(* A slot called.  The view watches the acknowledge() it calls for an      *)
(* intent, and no other reply.                                             *)
Slots ==
    [call : {"acknowledge", "approve", "reject"}, handle : Handles, watched : BOOLEAN]
        \cup [call : {"dismiss"}, handle : {NoHandle}, watched : {FALSE}]

(* What the backend hears: it is done, or it is not (not yet, where a      *)
(* device is signing), or nothing because the call was lost.               *)
Answers == {"ok", "not done", "lost"}

Frames ==
    [call : {"acknowledge", "approve", "reject"}, handle : Handles, watched : BOOLEAN, answer : Answers]

(* What the view sees: the request on screen, a request settled, or what a *)
(* watched acknowledge() returned.                                         *)
Messages ==
    [kind : {"rendered"}, handle : OrNone(Handles), said : {""}]
        \cup [kind : {"settled"}, handle : Handles, said : SettledStates]
        \cup [kind : {"reply"}, handle : Handles, said : {"opened", "not opened"}]

TypeOK ==
    /\ intentByHandle \in [Handles -> Intents \cup {NoIntent}]
    /\ seen \in OrNone(Handles)
    /\ handleOf \in [Intents -> OrNone(Handles)]
    /\ standing \in [Intents -> Standings]
    /\ calls \in Seq(Slots)
    /\ wire \in Seq(Messages)
    /\ screen \in OrNone(Handles)
    /\ stack \in Seq(Frames)
    /\ losses \in 0 .. MaxLosses
    /\ rec \in [Handles -> Records]
    /\ inbox \in Seq(Handles)

-----------------------------------------------------------------------------
(* Pieces of the handlers *)

Room == Len(calls) + Len(wire) + Len(stack) < MaxTraffic

Slot(call, h, watched) == [call |-> call, handle |-> h, watched |-> watched]
Message(kind, h, said) == [kind |-> kind, handle |-> h, said |-> said]

(* logos.respond(), should there be an intent to answer. *)
Responding(i, said) ==
    IF i = NoIntent THEN standing
    ELSE [standing EXCEPT ![i] = IF @ = "waiting" THEN said ELSE "answered twice"]

(* Fault: the intent answered is not taken off the map. *)
AnswerIntentKeeping(h, said) ==
    /\ standing' = Responding(intentByHandle[h], said)
    /\ UNCHANGED intentByHandle

AnswerIntent(h, said) ==
    /\ standing' = Responding(intentByHandle[h], said)
    /\ intentByHandle' = [intentByHandle EXCEPT ![h] = NoIntent]

(* The backend sets renderedHandle, which the view hears of when it        *)
(* changed, and sends more behind it.                                      *)
Publish(h, more) ==
    /\ screen' = h
    /\ wire' = wire \o (IF h = screen THEN <<>> ELSE <<Message("rendered", h, "")>>) \o more

Call(slot) == calls' = Append(calls, slot)

Block(slot, answer) ==
    stack' = Push([call |-> slot.call, handle |-> slot.handle, watched |-> slot.watched, answer |-> answer], stack)

(* The manager's record of h settles, and it says so. *)
SettleAs(h, state) ==
    /\ rec' = [rec EXCEPT ![h] = state]
    /\ inbox' = Append(inbox, h)

-----------------------------------------------------------------------------
(* The shell and the person, at the view *)

(* Fault: the intent displaced loses its place without an answer. *)
DisplacedUnanswered(i, h) ==
    /\ intentByHandle' = [x \in Handles |-> IF x = h THEN i ELSE IF x = seen THEN NoIntent ELSE intentByHandle[x]]
    /\ standing' = [standing EXCEPT ![i] = "waiting"]

(* An intent held for the request seen on screen is about to be displaced  *)
(* by h, and is answered now; i then takes h's place in the map.           *)
Displace(i, h) ==
    /\ intentByHandle' = [x \in Handles |-> IF x = h THEN i ELSE IF x = seen THEN NoIntent ELSE intentByHandle[x]]
    /\ LET told == IF seen \in Handles \ {h} THEN Responding(intentByHandle[seen], "cancelled") ELSE standing
       IN standing' = [told EXCEPT ![i] = "waiting"]

(* onIntentRequested: the shell hands the view an evm.signing.approve.     *)
AskApproval(i, h) ==
    /\ Room
    /\ standing[i] = "unasked"
    /\ handleOf' = [handleOf EXCEPT ![i] = h]
    /\ Displace(i, h)
    /\ Call(Slot("acknowledge", h, TRUE))
    /\ UNCHANGED <<seen, wire, backVars, mgrVars>>

(* The person opens a request from the queue, which is there while no      *)
(* sheet is, or decides about the one they see.                            *)
ClickOpen(h) ==
    /\ Room
    /\ seen = NoHandle
    /\ rec[h] # "unknown"
    /\ Call(Slot("acknowledge", h, FALSE))
    /\ UNCHANGED <<viewVars, wire, backVars, mgrVars>>

ClickDecide(call) ==
    /\ Room
    /\ seen # NoHandle
    /\ Call(Slot(call, seen, FALSE))
    /\ UNCHANGED <<viewVars, wire, backVars, mgrVars>>

(* Back: the intent is told the same as the person did, not now. *)
ClickBack ==
    /\ Room
    /\ seen # NoHandle
    /\ AnswerIntent(seen, "cancelled")
    /\ Call(Slot("dismiss", NoHandle, FALSE))
    /\ UNCHANGED <<seen, handleOf, wire, backVars, mgrVars>>

-----------------------------------------------------------------------------
(* What the view sees of the backend *)

Receive(kind) ==
    /\ wire # <<>>
    /\ Head(wire).kind = kind
    /\ wire' = Tail(wire)
    /\ UNCHANGED <<handleOf, calls, backVars, mgrVars>>

SeeScreen ==
    /\ Receive("rendered")
    /\ seen' = Head(wire).handle
    /\ UNCHANGED <<intentByHandle, standing>>

(* Fault: a request that was only rejected counts as approved. *)
OutcomeOfSettled(state) == IF state \in SettledStates THEN "ok" ELSE "cancelled"

(* Fault: the shell is told the manager's word for it. *)
OutcomeOfAsItIs(state) == state

OutcomeOf(state) == IF state = "approved" THEN "ok" ELSE "cancelled"

(* onSettled: the authoritative end of a request, whichever way it ended.  *)
SeeSettled ==
    /\ Receive("settled")
    /\ AnswerIntent(Head(wire).handle, OutcomeOf(Head(wire).said))
    /\ UNCHANGED seen

(* Fault: the acknowledge() of an intent is not watched. *)
SeeReplyIgnoring ==
    /\ Receive("reply")
    /\ UNCHANGED <<seen, intentByHandle, standing>>

(* Fault: whatever acknowledge() returned counts as a refusal. *)
SeeReplyRefusing ==
    /\ Receive("reply")
    /\ AnswerIntent(Head(wire).handle, "bad_request")
    /\ UNCHANGED seen

(* The acknowledge() of an intent returned: a request that was not opened  *)
(* never will be.                                                          *)
SeeReply ==
    /\ Receive("reply")
    /\ IF Head(wire).said = "not opened"
       THEN AnswerIntent(Head(wire).handle, "bad_request")
       ELSE UNCHANGED <<intentByHandle, standing>>
    /\ UNCHANGED seen

-----------------------------------------------------------------------------
(* The backend, and the manager behind it *)

(* What the manager does with a call about h, and answers. *)
Managed(call, h, answer) ==
    \/ /\ call = "acknowledge"
       /\ answer = IF rec[h] = "live" THEN "ok" ELSE "not done"
       /\ UNCHANGED mgrVars
    \/ /\ call \in {"approve", "reject"}
       /\ rec[h] = "live"
       /\ answer = "ok"
       /\ SettleAs(h, IF call = "approve" THEN "approved" ELSE "rejected")
    \/ /\ call = "approve" \/ (call = "reject" /\ rec[h] # "live")
       /\ answer = "not done"
       /\ UNCHANGED mgrVars

(* A slot up to its call, which may be lost on the way there or back. *)
StartSlot(slot) ==
    \E answer, got \in Answers :
        /\ \/ Managed(slot.call, slot.handle, answer) /\ Heard(answer, got)
           \/ NotSent(got) /\ answer = "lost" /\ UNCHANGED mgrVars
        /\ Block(slot, got)

(* The next slot the view called runs, at the bottom or behind a blocked   *)
(* call; approve() refuses what is not on screen or not armed by itself.   *)
RunSlot ==
    /\ calls # <<>>
    /\ MayEnter
    /\ calls' = Tail(calls)
    /\ LET slot == Head(calls) IN
          \/ /\ slot.call = "dismiss"
             /\ Publish(NoHandle, <<>>)
             /\ UNCHANGED <<stack, losses, mgrVars>>
          \/ /\ slot.call = "approve"
             /\ UNCHANGED <<wire, backVars, mgrVars>>
          \/ /\ slot.call # "dismiss"
             /\ slot.call = "approve" => slot.handle = screen
             /\ StartSlot(slot)
             /\ UNCHANGED <<wire, screen>>
    /\ UNCHANGED viewVars

(* refresh(), polled and at the end of most slots, claims a request of the *)
(* queue for a blank sheet: its pending() has blocked in between.          *)
Claim ==
    /\ Room
    /\ MayEnter
    /\ screen = NoHandle
    /\ \E h \in Handles :
          /\ rec[h] # "unknown"
          /\ StartSlot(Slot("acknowledge", h, FALSE))
    /\ UNCHANGED <<viewVars, calls, wire, screen>>

(* acknowledge() once the manager answered. *)
AcknowledgeReturns ==
    /\ Returning("acknowledge")
    /\ LET opened == Top.answer = "ok"
           reply == Message("reply", Top.handle, IF opened THEN "opened" ELSE "not opened")
       IN Publish(IF opened THEN Top.handle ELSE NoHandle, IF Top.watched THEN <<reply>> ELSE <<>>)
    /\ stack' = Below
    /\ UNCHANGED <<viewVars, calls, losses, mgrVars>>

(* approve() or reject() once the manager answered: what is settled here   *)
(* leaves the screen here.                                                 *)
DecisionReturns ==
    /\ Returning("approve") \/ Returning("reject")
    /\ IF Top.answer = "ok" THEN Publish(NoHandle, <<>>) ELSE UNCHANGED <<screen, wire>>
    /\ stack' = Below
    /\ UNCHANGED <<viewVars, calls, losses, mgrVars>>

(* Fault: only the end of the request on screen is relayed. *)
RelaySettledOnScreen ==
    /\ inbox # <<>>
    /\ inbox' = Tail(inbox)
    /\ LET h == Head(inbox) IN
          IF h = screen THEN Publish(NoHandle, <<Message("settled", h, rec[h])>>)
          ELSE UNCHANGED <<screen, wire>>
    /\ UNCHANGED <<viewVars, calls, stack, losses, rec>>

(* The manager's settled event, relayed however the request settled. *)
RelaySettled ==
    /\ inbox # <<>>
    /\ inbox' = Tail(inbox)
    /\ LET h == Head(inbox) IN
          Publish(IF h = screen THEN NoHandle ELSE screen, <<Message("settled", h, rec[h])>>)
    /\ UNCHANGED <<viewVars, calls, stack, losses, rec>>

(* The manager mints a handle, and whoever names it has it from there. *)
Offer(h) ==
    /\ rec[h] = "unknown"
    /\ \A i \in Intents : handleOf[i] # h
    /\ rec' = [rec EXCEPT ![h] = "live"]
    /\ UNCHANGED <<viewVars, calls, wire, backVars, inbox>>

(* A request ends without a call of this backend's: the device that was    *)
(* signing answers, its requester withdraws it, another surface decides.   *)
End(h) ==
    /\ rec[h] = "live"
    /\ \E state \in SettledStates : SettleAs(h, state)
    /\ UNCHANGED <<viewVars, calls, wire, backVars>>

-----------------------------------------------------------------------------
(* The specification *)

Init ==
    /\ intentByHandle = [h \in Handles |-> NoIntent]
    /\ seen = NoHandle
    /\ handleOf = [i \in Intents |-> NoHandle]
    /\ standing = [i \in Intents |-> "unasked"]
    /\ calls = <<>>
    /\ wire = <<>>
    /\ screen = NoHandle
    /\ stack = <<>>
    /\ losses = 0
    /\ rec = [h \in Handles |-> "unknown"]
    /\ inbox = <<>>

Person ==
    \/ \E h \in Handles : ClickOpen(h)
    \/ \E call \in {"approve", "reject"} : ClickDecide(call)
    \/ ClickBack

See == SeeScreen \/ SeeSettled \/ SeeReply

Return == AcknowledgeReturns \/ DecisionReturns

Next ==
    \/ \E i \in Intents, h \in Handles : AskApproval(i, h)
    \/ Person
    \/ See
    \/ RunSlot \/ Claim \/ Return
    \/ RelaySettled
    \/ \E h \in Handles : Offer(h) \/ End(h)

Spec == Init /\ [][Next]_vars

-----------------------------------------------------------------------------
(* Correctness *)

Approved == {i \in Intents : handleOf[i] \in Handles /\ rec[handleOf[i]] = "approved"}

(* An intent is answered once, and ok only when the manager approved the   *)
(* request it named: however late the view's copy is, and whichever of the *)
(* settled event, the reply, Back and a displacement comes first.          *)
Contract == INSTANCE IntentContract WITH met <- Approved

ContractKept == Contract!Spec

Waiting(i) == standing[i] = "waiting"

(* An intent still waiting has its place in the map, whatever else the     *)
(* shell, the person and the manager did since: only another intent for    *)
(* the very same request can take it.                                      *)
PlaceKept ==
    \A i \in Intents : Waiting(i) =>
        \/ intentByHandle[handleOf[i]] = i
        \/ \E j \in Intents \ {i} : handleOf[j] = handleOf[i]

(* No retry of the same payload fixes bad_request: unless a call was lost, *)
(* the request it is said of is gone for good.                             *)
BadRequestIsFinal ==
    losses = 0 => \A i \in Intents :
        standing[i] = "bad_request" => rec[handleOf[i]] # "live"

(* What is still to be received or returned of a request. *)
SettledUnderWay(h) ==
    \/ \E n \in 1 .. Len(inbox) : inbox[n] = h
    \/ \E n \in 1 .. Len(wire) : wire[n].kind = "settled" /\ wire[n].handle = h

OpeningUnderWay(h) ==
    \/ \E n \in 1 .. Len(calls) : calls[n] = Slot("acknowledge", h, TRUE)
    \/ \E n \in 1 .. Len(stack) : stack[n].watched /\ stack[n].handle = h /\ stack[n].answer # "ok"
    \/ \E n \in 1 .. Len(wire) : wire[n] = Message("reply", h, "not opened")

(* The intent that has a request's place is not left to the shell's        *)
(* ten-minute backstop: once the request has ended, or was never one, what *)
(* answers the intent is on its way to the view.                           *)
AnswerUnderWay ==
    \A i \in Intents : LET h == handleOf[i] IN
        Waiting(i) /\ intentByHandle[h] = i /\ rec[h] # "live"
            => SettledUnderWay(h) \/ OpeningUnderWay(h)

=============================================================================
