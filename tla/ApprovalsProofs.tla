-------------------------- MODULE ApprovalsProofs --------------------------
(***************************************************************************)
(* Proofs about Approvals, for every set of requests and signers, every    *)
(* depth of nesting and every number of lost calls.                        *)
(***************************************************************************)
EXTENDS Approvals, CallStackProofs

(* A frame pushed on a stack is its head, and the stack its tail. *)
LEMMA PushPop ==
    ASSUME NEW f \in Frames, NEW s \in Seq(Frames)
    PROVE  /\ Push(f, s) \in Seq(Frames)
           /\ Push(f, s) # <<>>
           /\ Head(Push(f, s)) = f
           /\ Tail(Push(f, s)) = s
  <1>1. <<f>> \in Seq(Frames)
    OBVIOUS
  <1>2. QED
    BY <1>1 DEF Push

LEMMA TopBelow ==
    ASSUME stack \in Seq(Frames), stack # <<>>
    PROVE  Top \in Frames /\ Below \in Seq(Frames)
  BY DEF Top, Below

-----------------------------------------------------------------------------
(* Type correctness.  The manager's variables first: what each call may do *)
(* to them keeps their types.                                              *)

LEMMA HeardType ==
    ASSUME losses \in 0 .. MaxLosses, NEW answer, NEW got, Heard(answer, got)
    PROVE  losses' \in 0 .. MaxLosses
  BY LossesAssumption, MovesAssumption DEF Heard

LEMMA UntouchedType ==
    ASSUME ManagerTypeOK, Untouched, losses' \in 0 .. MaxLosses
    PROVE  ManagerTypeOK'
  BY DEF ManagerTypeOK, Untouched

LEMMA UnsentType ==
    ASSUME ManagerTypeOK, NEW got, Unsent(got)
    PROVE  ManagerTypeOK'
  BY LossesAssumption, MovesAssumption DEF ManagerTypeOK, Unsent, NotSent, Untouched

LEMMA SettledType ==
    ASSUME inbox \in Seq(Events), NEW h \in Handles
    PROVE  Append(inbox, Event("settled", h)) \in Seq(Events)
  BY DEF Event, Events

LEMMA AcknowledgeType ==
    ASSUME ManagerTypeOK, NEW h \in Handles, NEW answer,
           Acknowledge(h, answer), losses' \in 0 .. MaxLosses
    PROVE  ManagerTypeOK'
  BY UntouchedType DEF ManagerTypeOK, Acknowledge, RecordStates, Live

LEMMA ApproveType ==
    ASSUME ManagerTypeOK, NEW h \in Handles, NEW bundle, NEW answer,
           Approve(h, bundle, answer), losses' \in 0 .. MaxLosses
    PROVE  ManagerTypeOK'
  BY UntouchedType, SettledType DEF ManagerTypeOK, Approve, RecordStates, Live

LEMMA RejectType ==
    ASSUME ManagerTypeOK, NEW h \in Handles, NEW answer,
           Reject(h, answer), losses' \in 0 .. MaxLosses
    PROVE  ManagerTypeOK'
  BY UntouchedType, SettledType DEF ManagerTypeOK, Reject, RecordStates, Live

LEMMA ChooseSignerType ==
    ASSUME ManagerTypeOK, NEW h \in Handles, NEW bundle, NEW s \in Signers, NEW answer,
           ChooseSigner(h, bundle, s, answer), losses' \in 0 .. MaxLosses
    PROVE  ManagerTypeOK'
  BY UntouchedType DEF ManagerTypeOK, ChooseSigner

LEMMA ManagerStepType ==
    ASSUME ManagerTypeOK, ManagerStep
    PROVE  ManagerTypeOK'
  <1>1. ASSUME NEW h \in Handles, Offer(h)
        PROVE  ManagerTypeOK'
    BY <1>1 DEF ManagerTypeOK, Offer, RecordStates, Live
  <1>2. ASSUME NEW h \in Handles, End(h)
        PROVE  ManagerTypeOK'
    BY <1>2, SettledType DEF ManagerTypeOK, End, RecordStates
  <1>3. ASSUME NEW s \in Signers, SignerMoves(s)
        PROVE  ManagerTypeOK'
    <2>1. Append(inbox, Event("accounts", NoHandle)) \in Seq(Events)
      BY DEF ManagerTypeOK, Event, Events
    <2>2. moves' \in 0 .. MaxMoves
      BY <1>3, LossesAssumption, MovesAssumption DEF ManagerTypeOK, SignerMoves
    <2>3. presence' \in [Signers -> Presences] /\ signerOf' \in [Handles -> Signers]
      BY <1>3 DEF ManagerTypeOK, SignerMoves
    <2>4. QED
      BY <1>3, <2>1, <2>2, <2>3 DEF ManagerTypeOK, SignerMoves
  <1>4. QED
    BY <1>1, <1>2, <1>3 DEF ManagerStep

-----------------------------------------------------------------------------
(* The frames the handlers push. *)

LEMMA FrameType ==
    ASSUME NEW call \in Calls, NEW h \in OrNone(Handles), NEW answer \in Answers,
           h = NoHandle => call = "pending"
    PROVE  Frame(call, h, answer) \in Frames
  BY DEF Frame, Frames, Presences

LEMMA RefreshType ==
    ASSUME TypeOK, NEW s \in Seq(Frames), Refresh(s)
    PROVE  inFlight' \in BOOLEAN /\ stack' \in Seq(Frames) /\ losses' \in 0 .. MaxLosses
  <1>1. CASE inFlight
    BY <1>1 DEF TypeOK, ManagerTypeOK, BackendTypeOK, Refresh
  <1>2. CASE ~inFlight
    <2>1. PICK got \in {"ok", "lost"} :
             /\ Heard("ok", got)
             /\ stack' = Push([Frame("pending", NoHandle, got) EXCEPT !.list = Pending], s)
      BY <1>2 DEF Refresh
    <2>2. Frame("pending", NoHandle, got) \in Frames
      BY FrameType DEF Calls, OrNone, Answers
    <2>3. [Frame("pending", NoHandle, got) EXCEPT !.list = Pending] \in Frames
      BY <2>2 DEF Frames, Pending, Frame
    <2>4. losses' \in 0 .. MaxLosses
      BY <2>1, HeardType DEF TypeOK, ManagerTypeOK
    <2>5. inFlight' \in BOOLEAN
      BY <1>2 DEF Refresh
    <2>6. QED
      BY <2>1, <2>3, <2>4, <2>5, PushPop
  <1>3. QED
    BY <1>1, <1>2

LEMMA StartAcknowledgeType ==
    ASSUME TypeOK, NEW h \in Handles, NEW refreshing \in BOOLEAN, NEW held \in BOOLEAN,
           NEW s \in Seq(Frames), StartAcknowledge(h, refreshing, held, s)
    PROVE  ManagerTypeOK' /\ stack' \in Seq(Frames)
  <1>1. PICK answer \in {"ok", "refused"}, got \in {"ok", "refused", "lost"} :
           /\ \/ Acknowledge(h, answer) /\ Heard(answer, got)
              \/ Unsent(got) /\ answer = "refused"
           /\ stack' = Push([Frame("acknowledge", h, got) EXCEPT
                               !.refreshing = refreshing, !.held = held, !.signer = signerOf[h]], s)
    BY DEF StartAcknowledge
  <1>2. ManagerTypeOK'
    BY <1>1, HeardType, AcknowledgeType, UnsentType DEF TypeOK, ManagerTypeOK
  <1>3. Frame("acknowledge", h, got) \in Frames
    BY HandlesAssumption, FrameType DEF Calls, OrNone, Answers
  <1>4. [Frame("acknowledge", h, got) EXCEPT
           !.refreshing = refreshing, !.held = held, !.signer = signerOf[h]] \in Frames
    BY <1>3, HandlesAssumption DEF Frames, Frame, TypeOK, ManagerTypeOK
  <1>5. QED
    BY <1>1, <1>2, <1>4, PushPop

LEMMA AskSignersType ==
    ASSUME TypeOK, NEW call \in {"signers", "signers after approve"}, NEW h \in Handles,
           NEW s \in Seq(Frames), AskSigners(call, h, s)
    PROVE  ManagerTypeOK' /\ stack' \in Seq(Frames)
  <1>1. PICK answer \in {"ok", "refused", "lost"}, got \in {"ok", "refused", "lost"} :
           /\ ApprovalSigners(h, answer)
           /\ Heard(answer, got)
           /\ stack' = Push([Frame(call, h, got) EXCEPT
                               !.signer = signerOf[h], !.presence = presence[signerOf[h]]], s)
    BY DEF AskSigners
  <1>2. ManagerTypeOK'
    BY <1>1, HeardType, UntouchedType DEF TypeOK, ManagerTypeOK, ApprovalSigners
  <1>3. Frame(call, h, got) \in Frames
    BY HandlesAssumption, FrameType DEF Calls, OrNone, Answers
  <1>4. [Frame(call, h, got) EXCEPT
           !.signer = signerOf[h], !.presence = presence[signerOf[h]]] \in Frames
    BY <1>3, HandlesAssumption DEF Frames, Frame, TypeOK, ManagerTypeOK
  <1>5. QED
    BY <1>1, <1>2, <1>4, PushPop

(* Changing the screen by its fields keeps its type. *)
LEMMA ScreenType ==
    ASSUME screen \in Screens, NEW f \in Frames
    PROVE  /\ BlankScreen \in Screens
           /\ WithSigner(screen, f) \in Screens
           /\ [screen EXCEPT !.armed = TRUE] \in Screens
           /\ [screen EXCEPT !.signing = TRUE] \in Screens
           /\ [screen EXCEPT !.bundle = f.handle, !.lines = f.handle] \in Screens
           /\ [WithSigner(screen, f) EXCEPT
                  !.reading = f.handle, !.handle = f.handle, !.armed = FALSE] \in Screens
  <1>1. BlankScreen \in Screens
    BY DEF Screens, BlankScreen, OrNone
  <1>2. f.handle \in OrNone(Handles)
    BY DEF Frames, OrNone
  <1>3. WithSigner(screen, f) \in Screens
    BY DEF Screens, WithSigner, Frames, OrNone
  <1>4. /\ [screen EXCEPT !.armed = TRUE] \in Screens
        /\ [screen EXCEPT !.signing = TRUE] \in Screens
    BY DEF Screens
  <1>5. [screen EXCEPT !.bundle = f.handle, !.lines = f.handle] \in Screens
    BY <1>2 DEF Screens
  <1>6. [WithSigner(screen, f) EXCEPT
            !.reading = f.handle, !.handle = f.handle, !.armed = FALSE] \in Screens
    <2> DEFINE s == WithSigner(screen, f)
    <2>1. s \in Screens
      BY <1>3
    <2> HIDE DEF s
    <2>2. [s EXCEPT !.reading = f.handle, !.handle = f.handle, !.armed = FALSE] \in Screens
      BY <1>2, <2>1 DEF Screens
    <2>3. QED
      BY <2>2 DEF s
  <1>7. QED
    BY <1>1, <1>3, <1>4, <1>5, <1>6

(* The hold's types. *)
LEMMA HoldType ==
    ASSUME hold \in Holds(ErrorTexts, Signers \cup {NoSigner}),
           NEW text \in ErrorTexts, NEW chosen \in Signers \cup {NoSigner}, NEW presenceThen
    PROVE  /\ PollFailed(hold, text) \in Holds(ErrorTexts, Signers \cup {NoSigner})
           /\ PollRead(hold) \in Holds(ErrorTexts, Signers \cup {NoSigner})
           /\ SignerRefused(hold, text, chosen, presenceThen)
                 \in Holds(ErrorTexts, Signers \cup {NoSigner})
           /\ SignersRead(hold, text, chosen, presenceThen)
                 \in Holds(ErrorTexts, Signers \cup {NoSigner})
  <1>1. "" \in ErrorTexts
    BY DEF ErrorTexts
  <1>2. Away(presenceThen) \in BOOLEAN
    BY DEF Away
  <1>3. PollFailed(hold, text) \in Holds(ErrorTexts, Signers \cup {NoSigner})
    BY DEF Holds, PollFailed
  <1>4. PollRead(hold) \in Holds(ErrorTexts, Signers \cup {NoSigner})
    BY <1>1 DEF Holds, PollRead
  <1>5. SignerRefused(hold, text, chosen, presenceThen) \in Holds(ErrorTexts, Signers \cup {NoSigner})
    BY <1>2 DEF Holds, SignerRefused
  <1>6. SignersRead(hold, text, chosen, presenceThen) \in Holds(ErrorTexts, Signers \cup {NoSigner})
    BY <1>1 DEF Holds, SignersRead
  <1>7. QED
    BY <1>3, <1>4, <1>5, <1>6

(* Every variable of the request half keeps its type, the frames of its    *)
(* blocked calls included, whatever the manager answers or loses.          *)
THEOREM TypeCorrect == Spec => []TypeOK
  <1>1. Init => TypeOK
    <2> SUFFICES ASSUME Init PROVE TypeOK
      OBVIOUS
    <2>1. ManagerTypeOK
      <3>1. rec \in [Handles -> RecordStates] /\ presence \in [Signers -> Presences]
        BY DEF Init, ManagerInit, RecordStates, Presences
      <3>2. inbox = <<>> /\ losses = 0 /\ moves = 0
        BY DEF Init, ManagerInit
      <3>3. inbox \in Seq(Events) /\ losses \in 0 .. MaxLosses /\ moves \in 0 .. MaxMoves
        BY <3>2, EmptySeq, LossesAssumption, MovesAssumption
      <3>4. QED
        BY <3>1, <3>2, <3>3 DEF Init, ManagerInit, ManagerTypeOK
    <2>2. BackendTypeOK
      <3>1. screen \in Screens
        BY DEF Init, Screens, BlankScreen, OrNone
      <3>2. hold \in Holds(ErrorTexts, Signers \cup {NoSigner})
        BY DEF Init, Holds, HoldNothing, ErrorTexts
      <3>3. stack \in Seq(Frames)
        BY EmptySeq DEF Init
      <3>4. QED
        BY <3>1, <3>2, <3>3 DEF Init, BackendTypeOK, StatusTexts, ErrorTexts
    <2>3. QED
      BY <2>1, <2>2 DEF TypeOK
  <1>2. TypeOK /\ [Next]_vars => TypeOK'
    <2> SUFFICES ASSUME TypeOK, [Next]_vars
                 PROVE  TypeOK'
      OBVIOUS
    <2>1. CASE ManagerStep
      BY <2>1, ManagerStepType DEF TypeOK, ManagerStep, BackendTypeOK, bvars, bvarsButStack
    <2>2. CASE DeliverEvent
      <3>1. ManagerTypeOK'
        <4>1. inbox' \in Seq(Events)
          <5>1. inbox # <<>> /\ inbox' = Tail(inbox)
            BY <2>2 DEF DeliverEvent
          <5>2. QED
            BY <5>1 DEF TypeOK, ManagerTypeOK
        <4>2. QED
          BY <2>2, <4>1 DEF DeliverEvent, TypeOK, ManagerTypeOK
      <3>2. screen' \in Screens /\ dwelling' \in BOOLEAN /\ lastError' \in ErrorTexts
        <4>1. BlankScreen \in Screens /\ "" \in ErrorTexts
          BY DEF Screens, BlankScreen, OrNone, ErrorTexts
        <4>2. QED
          BY <2>2, <4>1 DEF DeliverEvent, TypeOK, BackendTypeOK, ClearRendered
      <3>3. posted' \in BOOLEAN
        BY <2>2 DEF DeliverEvent
      <3>4. QED
        BY <2>2, <3>1, <3>2, <3>3 DEF DeliverEvent, TypeOK, BackendTypeOK
    <2>3. CASE DwellTimeout
      BY <2>3 DEF DwellTimeout, TypeOK, ManagerTypeOK, BackendTypeOK, mvars, Screens
    <2>4. CASE ConfirmExpires
      BY <2>4 DEF ConfirmExpires, TypeOK, ManagerTypeOK, BackendTypeOK, mvars
    <2>5. CASE Poll
      BY <2>5, RefreshType DEF Poll, TypeOK, ManagerTypeOK, BackendTypeOK
    <2>6. CASE RefreshSigners
      <3>1. ManagerTypeOK' /\ stack' \in Seq(Frames)
        <4>1. CASE SignersReadable
          <5>1. screen.handle \in Handles
            BY <4>1 DEF SignersReadable, TypeOK, BackendTypeOK, Screens, OrNone
          <5>2. QED
            BY <2>6, <4>1, <5>1, AskSignersType DEF RefreshSigners, TypeOK, BackendTypeOK
        <4>2. CASE ~SignersReadable
          BY <2>6, <4>2 DEF RefreshSigners, TypeOK, ManagerTypeOK, BackendTypeOK, mvars
        <4>3. QED
          BY <4>1, <4>2
      <3>2. QED
        BY <2>6, <3>1 DEF RefreshSigners, TypeOK, BackendTypeOK
    <2>7. CASE Dismiss
      BY <2>7 DEF Dismiss, TypeOK, ManagerTypeOK, BackendTypeOK, mvars, ClearRendered, Screens,
                  BlankScreen, OrNone, ErrorTexts
    <2>8. ASSUME NEW h \in Handles, OpenRequest(h)
          PROVE  TypeOK'
      BY <2>8, StartAcknowledgeType DEF OpenRequest, TypeOK, BackendTypeOK, bvarsButStack
    <2>9. ASSUME NEW h \in Handles, GiveRejection(h)
          PROVE  TypeOK'
      <3>1. PICK answer \in {"ok", "refused"}, got \in {"ok", "refused", "lost"} :
               /\ \/ Reject(h, answer) /\ Heard(answer, got)
                  \/ Unsent(got) /\ answer = "refused"
               /\ stack' = Push(Frame("reject", h, got), stack)
        BY <2>9 DEF GiveRejection
      <3>2. ManagerTypeOK'
        BY <3>1, HeardType, RejectType, UnsentType DEF TypeOK, ManagerTypeOK
      <3>3. stack' \in Seq(Frames)
        <4>1. Frame("reject", h, got) \in Frames
          BY HandlesAssumption, FrameType DEF Calls, OrNone, Answers
        <4>2. QED
          BY <3>1, <4>1, PushPop DEF TypeOK, BackendTypeOK
      <3>4. QED
        BY <2>9, <3>2, <3>3 DEF GiveRejection, TypeOK, BackendTypeOK, bvarsButStack
    <2>10. ASSUME NEW h \in Handles, NEW s \in Signers, PickSigner(h, s)
           PROVE  TypeOK'
      <3>1. ManagerTypeOK' /\ stack' \in Seq(Frames) /\ lastError' \in ErrorTexts
        <4>1. CASE h # screen.handle \/ screen.signing
          BY <2>10, <4>1 DEF PickSigner, TypeOK, ManagerTypeOK, BackendTypeOK, mvars, ErrorTexts
        <4>2. CASE h = screen.handle /\ ~screen.signing
          <5>1. PICK answer \in {"ok", "refused"}, got \in {"ok", "refused", "lost"} :
                   /\ \/ ChooseSigner(h, screen.bundle, s, answer) /\ Heard(answer, got)
                      \/ Unsent(got) /\ answer = "refused"
                   /\ stack' = Push([Frame("choose signer", h, got) EXCEPT !.signer = s], stack)
            BY <2>10, <4>2 DEF PickSigner
          <5>2. ManagerTypeOK'
            BY <5>1, HeardType, ChooseSignerType, UnsentType DEF TypeOK, ManagerTypeOK
          <5>3. Frame("choose signer", h, got) \in Frames
            BY HandlesAssumption, FrameType DEF Calls, OrNone, Answers
          <5>4. [Frame("choose signer", h, got) EXCEPT !.signer = s] \in Frames
            BY <5>3, HandlesAssumption DEF Frames, Frame
          <5>5. QED
            BY <2>10, <4>2, <5>1, <5>2, <5>4, PushPop DEF PickSigner, TypeOK, BackendTypeOK
        <4>3. QED
          BY <4>1, <4>2
      <3>2. QED
        BY <2>10, <3>1 DEF PickSigner, TypeOK, BackendTypeOK
    <2>11. ASSUME NEW h \in Handles, NEW bundle \in OrNone(Handles), GiveApproval(h, bundle)
           PROVE  TypeOK'
      <3>1. ManagerTypeOK' /\ stack' \in Seq(Frames) /\ lastError' \in ErrorTexts
        <4>1. CASE ~OnScreen(h, bundle) \/ ~screen.armed
          BY <2>11, <4>1 DEF GiveApproval, TypeOK, ManagerTypeOK, BackendTypeOK, mvars, ErrorTexts
        <4>2. CASE OnScreen(h, bundle) /\ screen.armed
          <5>1. PICK answer \in Answers, got \in Answers :
                   /\ \/ Approve(h, bundle, answer) /\ Heard(answer, got)
                      \/ Unsent(got) /\ answer = "refused"
                   /\ stack' = Push(Frame("approve", h, got), stack)
            BY <2>11, <4>2 DEF GiveApproval
          <5>2. ManagerTypeOK'
            BY <5>1, HeardType, ApproveType, UnsentType DEF TypeOK, ManagerTypeOK
          <5>3. Frame("approve", h, got) \in Frames
            BY HandlesAssumption, FrameType DEF Calls, OrNone
          <5>4. QED
            BY <2>11, <4>2, <5>1, <5>2, <5>3, PushPop DEF GiveApproval, TypeOK, BackendTypeOK
        <4>3. QED
          BY <4>1, <4>2
      <3>2. QED
        BY <2>11, <3>1 DEF GiveApproval, TypeOK, BackendTypeOK
    <2>12. CASE Return
      <3> DEFINE Busy == stack # <<>> /\ Top \in Frames /\ Below \in Seq(Frames)
      <3>0. ASSUME NEW call, Returning(call)
            PROVE  Busy
        BY <3>0, TopBelow DEF Returning, TypeOK, BackendTypeOK
      <3>1. CASE PendingFailed
        BY <2>12, <3>0, <3>1, HoldType DEF PendingFailed, TypeOK, ManagerTypeOK, BackendTypeOK, mvars,
             ErrorTexts, StatusTexts, PollFailed, Holds
      <3>2. CASE PendingRead
        <4>0. Busy
          BY <3>0, <3>2 DEF PendingRead
        <4>1. ManagerTypeOK' /\ stack' \in Seq(Frames) /\ inFlight' \in BOOLEAN
          <5>1. CASE Claims(Top.list)
            <6>1. PICK next \in Top.list : StartAcknowledge(next, TRUE, holding, Below)
              BY <3>2, <5>1 DEF PendingRead
            <6>2. next \in Handles
              BY <4>0 DEF Frames
            <6>3. QED
              BY <3>2, <4>0, <5>1, <6>1, <6>2, StartAcknowledgeType
                 DEF PendingRead, TypeOK, BackendTypeOK
          <5>2. CASE ~Claims(Top.list)
            BY <3>2, <4>0, <5>2 DEF PendingRead, TypeOK, ManagerTypeOK, mvars
          <5>3. QED
            BY <5>1, <5>2
        <4>2. lastError' \in ErrorTexts /\ statusText' \in StatusTexts /\ pending' \subseteq Handles
          BY <3>2, <4>0 DEF PendingRead, TypeOK, BackendTypeOK, ErrorTexts, StatusTexts, Frames
        <4>3. hold' \in Holds(ErrorTexts, Signers \cup {NoSigner})
          BY <3>2 DEF PendingRead, TypeOK, BackendTypeOK, Holds, PollRead, ErrorTexts
        <4>4. QED
          BY <3>2, <4>1, <4>2, <4>3 DEF PendingRead, TypeOK, BackendTypeOK
      <3>3. CASE AcknowledgeRefused
        BY <3>0, <3>3, ScreenType DEF AcknowledgeRefused, TypeOK, ManagerTypeOK, BackendTypeOK, mvars,
             ClearRendered, ErrorTexts
      <3>4. CASE ShowLines
        <4>0. Busy
          BY <3>0, <3>4 DEF ShowLines
        <4>1. [Top EXCEPT !.call = "interpret"] \in Frames
          BY <3>4, <4>0 DEF ShowLines, Returning, Frames, Calls, Top
        <4>2. stack' \in Seq(Frames)
          BY <3>4, <4>0, <4>1, PushPop DEF ShowLines
        <4>3. screen' \in Screens
          BY <3>4, <4>0, ScreenType DEF ShowLines, TypeOK, BackendTypeOK
        <4>4. QED
          BY <3>4, <4>2, <4>3 DEF ShowLines, TypeOK, ManagerTypeOK, BackendTypeOK, mvars, ErrorTexts
      <3>5. CASE ShowRequest
        <4>0. Busy
          BY <3>0, <3>5 DEF ShowRequest
        <4>1. screen' \in Screens
          BY <3>5, <4>0, ScreenType DEF ShowRequest, TypeOK, BackendTypeOK
        <4>2. QED
          BY <3>5, <4>0, <4>1 DEF ShowRequest, TypeOK, ManagerTypeOK, BackendTypeOK, mvars, StatusTexts
      <3>6. CASE SignerPicked
        <4>0. Busy
          BY <3>0, <3>6 DEF SignerPicked
        <4>1. screen' \in Screens /\ lastError' \in ErrorTexts
          BY <3>6, <4>0, ScreenType DEF SignerPicked, TypeOK, BackendTypeOK, ErrorTexts
        <4>2. QED
          BY <3>6, <4>0, <4>1 DEF SignerPicked, TypeOK, ManagerTypeOK, BackendTypeOK, mvars
      <3>7. CASE SignersArrive
        <4>0. Busy
          BY <3>0, <3>7 DEF SignersArrive
        <4>1. /\ screen' \in Screens
              /\ lastError' \in ErrorTexts
              /\ hold' \in Holds(ErrorTexts, Signers \cup {NoSigner})
          <5>1. Top.signer \in Signers \cup {NoSigner}
            BY <4>0 DEF Frames
          <5>2. QED
            BY <3>7, <4>0, <5>1, ScreenType, HoldType
               DEF SignersArrive, TypeOK, BackendTypeOK, ErrorTexts
        <4>2. QED
          BY <3>7, <4>0, <4>1 DEF SignersArrive, TypeOK, ManagerTypeOK, BackendTypeOK, mvars
      <3>8. CASE ApprovalSigning
        BY <3>0, <3>8, ScreenType DEF ApprovalSigning, TypeOK, ManagerTypeOK, BackendTypeOK, mvars,
             ErrorTexts, StatusTexts
      <3>9. CASE ApprovalSigned
        <4>0. Busy
          BY <3>0, <3>9 DEF ApprovalSigned
        <4>1. inFlight' \in BOOLEAN /\ stack' \in Seq(Frames) /\ losses' \in 0 .. MaxLosses
          BY <3>9, <4>0, RefreshType DEF ApprovalSigned
        <4>2. confirmed' \subseteq Handles
          BY <3>9, <4>0 DEF ApprovalSigned, Returning, Frames, OrNone, TypeOK, BackendTypeOK, Top
        <4>3. screen' \in Screens /\ dwelling' \in BOOLEAN
          BY <3>9, <4>0, ScreenType DEF ApprovalSigned, ClearRendered, TypeOK, BackendTypeOK
        <4>4. QED
          BY <3>9, <4>1, <4>2, <4>3 DEF ApprovalSigned, TypeOK, ManagerTypeOK, BackendTypeOK,
               ErrorTexts, StatusTexts
      <3>10. CASE ApprovalRefused
        <4>0. Busy
          BY <3>0, <3>10 DEF ApprovalRefused
        <4>1. lastError' \in ErrorTexts
          BY <3>10 DEF ApprovalRefused, ErrorTexts
        <4>2. CASE Top.answer = "signer" /\ SignersReadable
          <5>1. screen.handle \in Handles
            BY <4>2 DEF SignersReadable, TypeOK, BackendTypeOK, Screens, OrNone
          <5>2. ManagerTypeOK' /\ stack' \in Seq(Frames) /\ UNCHANGED hold
            BY <3>10, <4>0, <4>2, <5>1, AskSignersType DEF ApprovalRefused
          <5>3. QED
            BY <3>10, <4>1, <5>2 DEF ApprovalRefused, TypeOK, BackendTypeOK
        <4>3. CASE ~(Top.answer = "signer" /\ SignersReadable)
          <5>1. hold' \in Holds(ErrorTexts, Signers \cup {NoSigner})
            <6>1. "signer" \in ErrorTexts /\ screen.signer \in Signers \cup {NoSigner}
              BY DEF ErrorTexts, TypeOK, BackendTypeOK, Screens
            <6>2. QED
              BY <3>10, <4>3, <6>1, HoldType DEF ApprovalRefused, TypeOK, BackendTypeOK
          <5>2. stack' \in Seq(Frames) /\ UNCHANGED mvars
            BY <3>10, <4>0, <4>3 DEF ApprovalRefused
          <5>3. QED
            BY <3>10, <4>1, <5>1, <5>2 DEF ApprovalRefused, TypeOK, ManagerTypeOK, BackendTypeOK, mvars
        <4>4. QED
          BY <4>2, <4>3
      <3>11. CASE RefusalHeld
        <4>0. Busy
          BY <3>0, <3>11 DEF RefusalHeld
        <4>1. screen' \in Screens
          BY <3>11, <4>0, ScreenType DEF RefusalHeld, TypeOK, BackendTypeOK
        <4>2. hold' \in Holds(ErrorTexts, Signers \cup {NoSigner})
          <5>1. lastError \in ErrorTexts /\ screen'.signer \in Signers \cup {NoSigner}
            BY <4>1 DEF TypeOK, BackendTypeOK, Screens
          <5>2. QED
            BY <3>11, <5>1, HoldType DEF RefusalHeld, TypeOK, BackendTypeOK
        <4>3. QED
          BY <3>11, <4>0, <4>1, <4>2 DEF RefusalHeld, TypeOK, ManagerTypeOK, BackendTypeOK, mvars
      <3>12. CASE RejectionAnswered
        <4>0. Busy
          BY <3>0, <3>12 DEF RejectionAnswered
        <4>1. inFlight' \in BOOLEAN /\ stack' \in Seq(Frames) /\ losses' \in 0 .. MaxLosses
          BY <3>12, <4>0, RefreshType DEF RejectionAnswered
        <4>2. screen' \in Screens /\ dwelling' \in BOOLEAN /\ lastError' \in ErrorTexts
          BY <3>12, <4>0, ScreenType DEF RejectionAnswered, ClearRendered, TypeOK, BackendTypeOK, ErrorTexts
        <4>3. QED
          BY <3>12, <4>1, <4>2 DEF RejectionAnswered, TypeOK, ManagerTypeOK, BackendTypeOK
      <3>13. QED
        BY <2>12, <3>1, <3>2, <3>3, <3>4, <3>5, <3>6, <3>7, <3>8, <3>9, <3>10, <3>11, <3>12 DEF Return
    <2>13. CASE UNCHANGED vars
      BY <2>13 DEF TypeOK, ManagerTypeOK, BackendTypeOK, vars, mvars, bvars, bvarsButStack
    <2>14. QED
      BY <2>1, <2>2, <2>3, <2>4, <2>5, <2>6, <2>7, <2>8, <2>9, <2>10, <2>11, <2>12, <2>13 DEF Next, View
  <1>3. QED
    BY <1>1, <1>2, PTL DEF Spec

-----------------------------------------------------------------------------
(* The sheet is coherent: its bundle and its lines are one request's, and  *)
(* nothing arms a blank sheet.  Only four things happen to the screen.     *)

ScreenStep ==
    \/ UNCHANGED <<screen, dwelling>>
    \/ screen' = BlankScreen /\ dwelling' = FALSE
    \/ dwelling /\ dwelling' = FALSE /\ screen' = [screen EXCEPT !.armed = TRUE]
    \/ screen' = [screen EXCEPT !.signing = TRUE] /\ UNCHANGED dwelling
    \/ \E f \in Frames :
          \/ screen' = WithSigner(screen, f) /\ UNCHANGED dwelling
          \/ screen' = [screen EXCEPT !.bundle = f.handle, !.lines = f.handle] /\ UNCHANGED dwelling
          \/ /\ f.handle # NoHandle
             /\ screen' = [WithSigner(screen, f) EXCEPT
                             !.reading = f.handle, !.handle = f.handle, !.armed = FALSE]
             /\ dwelling' = TRUE

(* Every step of the specification is one of them. *)
LEMMA NextScreenStep == TypeOK /\ [Next]_vars => ScreenStep
  <1> SUFFICES ASSUME TypeOK, [Next]_vars
               PROVE  ScreenStep
    OBVIOUS
  <1>1. CASE Return
    <2> DEFINE Busy == Top \in Frames
    <2>0. ASSUME NEW call, Returning(call)
          PROVE  Busy
      BY <2>0, TopBelow DEF Returning, TypeOK, BackendTypeOK
    <2>1. CASE PendingFailed \/ PendingRead \/ ApprovalRefused
      BY <2>1 DEF PendingFailed, PendingRead, ApprovalRefused, ScreenStep
    <2>2. CASE AcknowledgeRefused \/ ApprovalSigned
      BY <2>2 DEF AcknowledgeRefused, ApprovalSigned, ClearRendered, ScreenStep
    <2>3. CASE ShowLines
      BY <2>0, <2>3 DEF ShowLines, ScreenStep
    <2>4. CASE ShowRequest
      <3>1. Top \in Frames /\ Top.call = "interpret"
        BY <2>0, <2>4 DEF ShowRequest, Returning, Top
      <3>2. Top.handle # NoHandle
        BY <3>1 DEF Frames
      <3>3. QED
        BY <2>4, <3>1, <3>2 DEF ShowRequest, ScreenStep
    <2>5. CASE SignerPicked
      BY <2>0, <2>5 DEF SignerPicked, ScreenStep
    <2>6. CASE SignersArrive
      BY <2>0, <2>6 DEF SignersArrive, ScreenStep
    <2>7. CASE ApprovalSigning
      BY <2>7 DEF ApprovalSigning, ScreenStep
    <2>8. CASE RefusalHeld
      BY <2>0, <2>8 DEF RefusalHeld, ScreenStep
    <2>9. CASE RejectionAnswered
      BY <2>9 DEF RejectionAnswered, ClearRendered, ScreenStep
    <2>10. QED
      BY <1>1, <2>1, <2>2, <2>3, <2>4, <2>5, <2>6, <2>7, <2>8, <2>9 DEF Return
  <1>2. CASE View
    BY <1>2 DEF View, Dismiss, OpenRequest, GiveRejection, PickSigner, GiveApproval, ClearRendered,
                bvarsButStack, ScreenStep
  <1>3. CASE DeliverEvent
    BY <1>3 DEF DeliverEvent, ClearRendered, ScreenStep
  <1>4. CASE DwellTimeout
    BY <1>4 DEF DwellTimeout, ScreenStep
  <1>5. CASE ConfirmExpires \/ Poll \/ RefreshSigners
    BY <1>5 DEF ConfirmExpires, Poll, RefreshSigners, ScreenStep
  <1>6. CASE ManagerStep \/ UNCHANGED vars
    BY <1>6 DEF ManagerStep, vars, bvars, bvarsButStack, ScreenStep
  <1>7. QED
    BY <1>1, <1>2, <1>3, <1>4, <1>5, <1>6 DEF Next

(* What each of them leaves in the fields that the sheet's coherence and   *)
(* the contract speak of.                                                  *)
LEMMA ScreenFields ==
    ASSUME TypeOK, ScreenStep
    PROVE  /\ screen' \in Screens
           /\ \/ /\ screen'.handle = screen.handle
                 /\ screen'.armed = screen.armed
                 /\ screen'.bundle = screen.bundle /\ screen'.lines = screen.lines
                 /\ dwelling' = dwelling
              \/ /\ screen'.handle = NoHandle /\ screen'.armed = FALSE
                 /\ screen'.bundle = NoHandle /\ screen'.lines = NoHandle
                 /\ dwelling' = FALSE
              \/ /\ dwelling /\ dwelling' = FALSE
                 /\ screen'.handle = screen.handle
                 /\ screen'.bundle = screen.bundle /\ screen'.lines = screen.lines
              \/ /\ screen'.handle = screen.handle
                 /\ screen'.armed = screen.armed
                 /\ screen'.bundle = screen'.lines
                 /\ dwelling' = dwelling
              \/ /\ screen'.handle # NoHandle
                 /\ screen'.armed = FALSE
                 /\ screen'.bundle = screen.bundle /\ screen'.lines = screen.lines
  <1>1. screen \in Screens
    BY DEF TypeOK, BackendTypeOK
  <1>2. CASE UNCHANGED <<screen, dwelling>>
    BY <1>1, <1>2
  <1>3. CASE screen' = BlankScreen /\ dwelling' = FALSE
    BY <1>3 DEF BlankScreen, Screens, OrNone
  <1>4. CASE dwelling /\ dwelling' = FALSE /\ screen' = [screen EXCEPT !.armed = TRUE]
    BY <1>1, <1>4 DEF Screens
  <1>5. CASE screen' = [screen EXCEPT !.signing = TRUE] /\ UNCHANGED dwelling
    BY <1>1, <1>5 DEF Screens
  <1>6. ASSUME NEW f \in Frames, screen' = WithSigner(screen, f), UNCHANGED dwelling
        PROVE  /\ screen' \in Screens
               /\ screen'.handle = screen.handle
               /\ screen'.armed = screen.armed
               /\ screen'.bundle = screen.bundle /\ screen'.lines = screen.lines
    BY <1>1, <1>6 DEF Screens, WithSigner, Frames
  <1>7. ASSUME NEW f \in Frames, UNCHANGED dwelling,
               screen' = [screen EXCEPT !.bundle = f.handle, !.lines = f.handle]
        PROVE  /\ screen' \in Screens
               /\ screen'.handle = screen.handle
               /\ screen'.armed = screen.armed
               /\ screen'.bundle = screen'.lines
    BY <1>1, <1>7 DEF Screens, Frames
  <1>8. ASSUME NEW f \in Frames, f.handle # NoHandle,
               screen' = [WithSigner(screen, f) EXCEPT
                            !.reading = f.handle, !.handle = f.handle, !.armed = FALSE]
        PROVE  /\ screen' \in Screens
               /\ screen'.handle # NoHandle
               /\ screen'.armed = FALSE
               /\ screen'.bundle = screen.bundle /\ screen'.lines = screen.lines
    BY <1>1, <1>8 DEF Screens, WithSigner, Frames
  <1>9. QED
    BY <1>2, <1>3, <1>4, <1>5, <1>6, <1>7, <1>8 DEF ScreenStep

LEMMA ScreenStepCoherent ==
    ASSUME TypeOK, SheetCoherent, ScreenStep
    PROVE  SheetCoherent'
  <1>1. screen'.bundle = screen'.lines
    BY ScreenFields DEF SheetCoherent
  <1>2. (screen'.armed \/ dwelling') => screen'.handle # NoHandle
    <2>1. CASE screen'.handle = screen.handle /\ screen.handle = NoHandle
      BY <2>1, ScreenFields, Zenon DEF SheetCoherent
    <2>2. CASE screen'.handle = screen.handle /\ screen.handle # NoHandle
      BY <2>2
    <2>3. CASE screen'.handle # screen.handle
      BY <2>3, ScreenFields, Zenon
    <2>4. QED
      BY <2>1, <2>2, <2>3
  <1>3. QED
    BY <1>1, <1>2 DEF SheetCoherent

(* The bundle id that approve() checks and the lines on screen are always  *)
(* the same request's, and only a request on screen is armed or arming.    *)
THEOREM SheetIsCoherent == Spec => []SheetCoherent
  <1>1. Init => SheetCoherent
    <2> SUFFICES ASSUME screen = BlankScreen, dwelling = FALSE
                 PROVE  SheetCoherent
      BY DEF Init
    <2>1. QED
      BY DEF SheetCoherent, BlankScreen
  <1>2. TypeOK /\ SheetCoherent /\ [Next]_vars => SheetCoherent'
    BY NextScreenStep, ScreenStepCoherent
  <1>3. QED
    BY <1>1, <1>2, TypeCorrect, PTL DEF Spec

-----------------------------------------------------------------------------
(* The contract.  A step approves nothing at the manager, or it is an      *)
(* approve() of the request on screen, under the bundle on screen, armed.  *)

LEMMA OnlyApproveAuthorises ==
    ASSUME [Next]_vars, authorised' # authorised
    PROVE  \E h \in Handles :
              /\ authorised' = authorised \cup {h}
              /\ OnScreen(h, h)
              /\ screen.armed
              /\ UNCHANGED screen
  <1>1. CASE Return
    BY <1>1 DEF Return, PendingFailed, PendingRead, AcknowledgeRefused, ShowLines, ShowRequest,
         SignerPicked, SignersArrive, ApprovalSigning, ApprovalSigned, ApprovalRefused, RefusalHeld,
         RejectionAnswered, StartAcknowledge, Acknowledge, AskSigners, ApprovalSigners, Unsent,
         Untouched, mvars
  <1>2. CASE View
    <2>1. ASSUME NEW h \in Handles, OpenRequest(h) \/ GiveRejection(h)
          PROVE  UNCHANGED authorised
      BY <2>1 DEF OpenRequest, StartAcknowledge, Acknowledge, GiveRejection, Reject, Unsent, Untouched
    <2>2. ASSUME NEW h \in Handles, NEW s \in Signers, PickSigner(h, s)
          PROVE  UNCHANGED authorised
      BY <2>2 DEF PickSigner, ChooseSigner, Unsent, Untouched, mvars
    <2>3. ASSUME NEW h \in Handles, NEW bundle \in OrNone(Handles), GiveApproval(h, bundle)
          PROVE  /\ authorised' = authorised \cup {h}
                 /\ OnScreen(h, h)
                 /\ screen.armed
                 /\ UNCHANGED screen
      BY <2>3 DEF GiveApproval, Approve, OnScreen, Unsent, Untouched, mvars
    <2>4. CASE Dismiss
      BY <2>4 DEF Dismiss, mvars
    <2>5. QED
      BY <1>2, <2>1, <2>2, <2>3, <2>4 DEF View
  <1>3. CASE ManagerStep
    BY <1>3 DEF ManagerStep, Offer, End, SignerMoves
  <1>4. CASE DeliverEvent \/ DwellTimeout \/ ConfirmExpires \/ Poll
    BY <1>4 DEF DeliverEvent, DwellTimeout, ConfirmExpires, Poll, mvars
  <1>5. CASE RefreshSigners
    BY <1>5 DEF RefreshSigners, AskSigners, ApprovalSigners, Untouched, mvars
  <1>6. CASE UNCHANGED vars
    BY <1>6 DEF vars, mvars
  <1>7. QED
    BY <1>1, <1>2, <1>3, <1>4, <1>5, <1>6 DEF Next

(* Every way the screen changes is a turn of the contract's sheet.         *)
LEMMA ScreenStepTurns ==
    ASSUME TypeOK, SheetCoherent, ScreenStep, UNCHANGED authorised
    PROVE  Contract!Turn
  <1>1. /\ screen'.handle \in Handles \cup {NoHandle}
        /\ screen'.lines \in Handles \cup {NoHandle}
        /\ screen'.armed \in BOOLEAN
    BY ScreenFields DEF Screens, OrNone
  <1>2. screen'.armed => screen'.handle = screen.handle /\ screen.handle # NoHandle
    BY ScreenFields DEF SheetCoherent
  <1>3. QED
    BY <1>1, <1>2 DEF Contract!Turn

(* However calls nest, fail or are lost, and whatever the view passes, the *)
(* backend keeps ApprovalContract's promise: an approval leaves it only    *)
(* for the request on screen, with that request's lines on screen, once    *)
(* Approve has armed for it.                                               *)
THEOREM ContractIsKept == Spec => ContractKept
  <1>1. Init => Contract!Init
    <2> SUFFICES ASSUME screen = BlankScreen, authorised = {}
                 PROVE  Contract!Init
      BY DEF Init, ManagerInit
    <2>1. QED
      BY DEF BlankScreen, Contract!Init
  <1>2. TypeOK /\ SheetCoherent /\ [Next]_vars => [Contract!Next]_(Contract!vars)
    <2> SUFFICES ASSUME TypeOK, SheetCoherent, [Next]_vars
                 PROVE  [Contract!Next]_(Contract!vars)
      OBVIOUS
    <2>1. CASE authorised' = authorised
      BY <2>1, NextScreenStep, ScreenStepTurns DEF Contract!Next
    <2>2. CASE authorised' # authorised
      <3>1. PICK h \in Handles :
               /\ authorised' = authorised \cup {h}
               /\ OnScreen(h, h)
               /\ screen.armed
               /\ UNCHANGED screen
        BY <2>2, OnlyApproveAuthorises
      <3>2. screen.handle = h /\ screen.lines = h
        BY <3>1 DEF OnScreen, SheetCoherent
      <3>3. Contract!Authorise
        BY <3>1, <3>2 DEF Contract!Authorise
      <3>4. QED
        BY <3>3 DEF Contract!Next
    <2>3. QED
      BY <2>1, <2>2
  <1>3. QED
    BY <1>1, <1>2, TypeCorrect, SheetIsCoherent, PTL DEF Spec, ContractKept, Contract!Spec

-----------------------------------------------------------------------------
(* One poll at a time: m_inFlight is a guard that refresh() takes before   *)
(* pending() and releases when it, or the claim it made, returns.          *)

Pollers == {f \in Frames : f.call = "pending" \/ f.refreshing}

Polling == OneHolds(inFlight, stack, Pollers)

LEMMA PollingIsGuard ==
    ASSUME stack \in Seq(Frames)
    PROVE  OnePollAtATime <=> Polling
  <1>1. \A i \in DOMAIN stack : stack[i] \in Frames
    OBVIOUS
  <1>2. Refreshes = Holding(stack, Pollers)
    BY <1>1 DEF Refreshes, Holding, Pollers
  <1>3. QED
    BY <1>2 DEF OnePollAtATime, Polling, OneHolds

LEMMA RefreshGuards ==
    ASSUME TypeOK, NEW s \in Seq(Frames), Refresh(s), OneHolds(inFlight, s, Pollers)
    PROVE  OneHolds(inFlight', stack', Pollers)
  <1>1. CASE inFlight
    BY <1>1 DEF Refresh
  <1>2. CASE ~inFlight
    <2>1. PICK got \in {"ok", "lost"} :
             stack' = Push([Frame("pending", NoHandle, got) EXCEPT !.list = Pending], s)
      BY <1>2 DEF Refresh
    <2> DEFINE f == [Frame("pending", NoHandle, got) EXCEPT !.list = Pending]
    <2>2. Frame("pending", NoHandle, got) \in Frames
      BY FrameType DEF Calls, OrNone, Answers
    <2>3. f \in Frames /\ f \in Pollers
      BY <2>2 DEF Frames, Pending, Frame, Pollers
    <2>4. inFlight = FALSE /\ inFlight' = TRUE
      BY <1>2 DEF Refresh, TypeOK, BackendTypeOK
    <2> HIDE DEF f
    <2>5. OneHolds(TRUE, Push(f, s), Pollers)
      BY <2>3, <2>4, PushHolder
    <2>6. QED
      BY <2>1, <2>4, <2>5 DEF f
  <1>3. QED
    BY <1>1, <1>2

(* A frame of no refresh() is pushed. *)
LEMMA OthersGuard ==
    ASSUME NEW s \in Seq(Frames), NEW guard \in BOOLEAN, OneHolds(guard, s, Pollers),
           NEW f, f.call # "pending", f.refreshing = FALSE, stack' = Push(f, s)
    PROVE  OneHolds(guard, stack', Pollers)
  <1> DEFINE F == Frames \cup {f}
  <1>1. s \in Seq(F) /\ f \in F
    OBVIOUS
  <1>2. f \notin Pollers
    BY DEF Pollers
  <1> HIDE DEF F
  <1>3. QED
    BY <1>1, <1>2, PushOther

LEMMA AskSignersGuards ==
    ASSUME NEW call \in {"signers", "signers after approve"}, NEW h, NEW s \in Seq(Frames),
           NEW guard \in BOOLEAN, OneHolds(guard, s, Pollers), AskSigners(call, h, s)
    PROVE  OneHolds(guard, stack', Pollers)
  <1>1. PICK got \in {"ok", "refused", "lost"} :
           stack' = Push([Frame(call, h, got) EXCEPT
                            !.signer = signerOf[h], !.presence = presence[signerOf[h]]], s)
    BY DEF AskSigners
  <1> DEFINE f == [Frame(call, h, got) EXCEPT
                     !.signer = signerOf[h], !.presence = presence[signerOf[h]]]
  <1>2. f.call # "pending" /\ f.refreshing = FALSE
    BY DEF Frame
  <1>3. stack' = Push(f, s)
    BY <1>1
  <1> HIDE DEF f
  <1>4. QED
    BY <1>2, <1>3, OthersGuard

(* acknowledge() of a slot leaves the guard; that of refresh() carries it. *)
LEMMA StartAcknowledgeGuards ==
    ASSUME TypeOK, NEW h \in Handles, NEW refreshing \in BOOLEAN, NEW held \in BOOLEAN,
           NEW s \in Seq(Frames), StartAcknowledge(h, refreshing, held, s),
           OneHolds(IF refreshing THEN FALSE ELSE inFlight, s, Pollers)
    PROVE  OneHolds(IF refreshing THEN TRUE ELSE inFlight, stack', Pollers)
  <1>1. PICK got \in {"ok", "refused", "lost"} :
           stack' = Push([Frame("acknowledge", h, got) EXCEPT
                            !.refreshing = refreshing, !.held = held, !.signer = signerOf[h]], s)
    BY DEF StartAcknowledge
  <1> DEFINE f == [Frame("acknowledge", h, got) EXCEPT
                     !.refreshing = refreshing, !.held = held, !.signer = signerOf[h]]
  <1>2. Frame("acknowledge", h, got) \in Frames
    BY HandlesAssumption, FrameType DEF Calls, OrNone, Answers
  <1>3. f \in Frames
    BY <1>2, HandlesAssumption DEF Frames, Frame, TypeOK, ManagerTypeOK
  <1>4. f.call = "acknowledge" /\ f.refreshing = refreshing
    BY DEF Frame
  <1>5. stack' = Push(f, s)
    BY <1>1
  <1> HIDE DEF f
  <1>6. CASE refreshing
    <2>1. f \in Pollers
      BY <1>3, <1>4, <1>6 DEF Pollers
    <2>2. QED
      BY <1>3, <1>5, <1>6, <2>1, PushHolder
  <1>7. CASE ~refreshing
    <2>1. inFlight \in BOOLEAN /\ OneHolds(inFlight, s, Pollers)
      BY <1>7 DEF TypeOK, BackendTypeOK
    <2>2. f.call # "pending" /\ f.refreshing = FALSE
      BY <1>4, <1>7
    <2>3. OneHolds(inFlight, stack', Pollers)
      BY <1>5, <2>1, <2>2, OthersGuard
    <2>4. QED
      BY <1>7, <2>3
  <1>8. QED
    BY <1>6, <1>7

LEMMA ViewGuards ==
    ASSUME TypeOK, Polling, View
    PROVE  Polling'
  <1>0. stack \in Seq(Frames) /\ inFlight \in BOOLEAN /\ OneHolds(inFlight, stack, Pollers)
    BY DEF TypeOK, BackendTypeOK, Polling
  <1>1. inFlight' = inFlight
    BY DEF View, OpenRequest, GiveRejection, PickSigner, GiveApproval, Dismiss, bvarsButStack
  <1>2. CASE UNCHANGED stack
    BY <1>1, <1>2 DEF Polling, OneHolds, Holding, Pollers, Frames
  <1>3. ASSUME NEW f, f.call # "pending", f.refreshing = FALSE, stack' = Push(f, stack)
        PROVE  OneHolds(inFlight', stack', Pollers)
    BY <1>0, <1>1, <1>3, OthersGuard
  <1>4. ASSUME NEW h \in Handles, OpenRequest(h)
        PROVE  OneHolds(inFlight', stack', Pollers)
    <2>1. StartAcknowledge(h, FALSE, FALSE, stack)
      BY <1>4 DEF OpenRequest
    <2>2. QED
      BY <1>0, <1>1, <2>1, StartAcknowledgeGuards
  <1>5. ASSUME NEW h \in Handles, GiveRejection(h)
        PROVE  OneHolds(inFlight', stack', Pollers)
    <2>1. PICK got \in {"ok", "refused", "lost"} : stack' = Push(Frame("reject", h, got), stack)
      BY <1>5 DEF GiveRejection
    <2>2. QED
      BY <1>3, <2>1 DEF Frame
  <1>6. ASSUME NEW h \in Handles, NEW s \in Signers, PickSigner(h, s)
        PROVE  \/ UNCHANGED stack
               \/ OneHolds(inFlight', stack', Pollers)
    <2>1. ASSUME NEW got,
                 stack' = Push([Frame("choose signer", h, got) EXCEPT !.signer = s], stack)
          PROVE  OneHolds(inFlight', stack', Pollers)
      <3> DEFINE f == [Frame("choose signer", h, got) EXCEPT !.signer = s]
      <3>1. f.call # "pending" /\ f.refreshing = FALSE
        BY DEF Frame
      <3>2. QED
        BY <1>3, <2>1, <3>1
    <2>2. QED
      BY <1>6, <2>1 DEF PickSigner
  <1>7. ASSUME NEW h \in Handles, NEW bundle \in OrNone(Handles), GiveApproval(h, bundle)
        PROVE  \/ UNCHANGED stack
               \/ OneHolds(inFlight', stack', Pollers)
    <2>1. ASSUME NEW got, stack' = Push(Frame("approve", h, got), stack)
          PROVE  OneHolds(inFlight', stack', Pollers)
      BY <1>3, <2>1 DEF Frame
    <2>2. QED
      BY <1>7, <2>1 DEF GiveApproval
  <1>8. CASE Dismiss
    BY <1>2, <1>8 DEF Dismiss
  <1>9. OneHolds(inFlight', stack', Pollers) => Polling'
    BY DEF Polling, OneHolds, Holding, Pollers, Frames
  <1>10. QED
    BY <1>2, <1>4, <1>5, <1>6, <1>7, <1>8, <1>9 DEF View

LEMMA ReturnGuards ==
    ASSUME TypeOK, Polling, Return
    PROVE  OneHolds(inFlight', stack', Pollers)
  <1>0. stack \in Seq(Frames) /\ inFlight \in BOOLEAN /\ OneHolds(inFlight, stack, Pollers)
    BY DEF TypeOK, BackendTypeOK, Polling
  (* A call of no refresh() returned: the guard is as it was. *)
  <1>a. ASSUME NEW call, Returning(call), call # "pending", ~Top.refreshing
        PROVE  /\ Below \in Seq(Frames) /\ Top \in Frames
               /\ OneHolds(inFlight, Below, Pollers)
    <2>1. stack # <<>> /\ Head(stack).call # "pending" /\ ~Head(stack).refreshing
      BY <1>a DEF Returning, Top
    <2>2. Head(stack) \notin Pollers
      BY <2>1 DEF Pollers
    <2>3. QED
      BY <1>0, <2>1, <2>2, TopBelow, PopOther DEF Below
  (* One of refresh()'s returned: the guard was set, and nobody below holds it. *)
  <1>b. ASSUME NEW call, Returning(call), call = "pending" \/ Top.refreshing
        PROVE  /\ Below \in Seq(Frames) /\ Top \in Frames
               /\ inFlight = TRUE /\ OneHolds(FALSE, Below, Pollers)
    <2>1. stack # <<>> /\ (Head(stack).call = "pending" \/ Head(stack).refreshing)
      BY <1>b DEF Returning, Top
    <2>2. Head(stack) \in Frames /\ Head(stack) \in Pollers
      BY <1>0, <2>1 DEF Pollers
    <2>3. QED
      BY <1>0, <2>1, <2>2, TopBelow, PopHolder DEF Below
  (* The calls that never are refresh()'s. *)
  <1>c. ASSUME NEW call \in {"choose signer", "signers", "approve", "signers after approve", "reject"},
               Returning(call)
        PROVE  /\ Below \in Seq(Frames)
               /\ OneHolds(inFlight, Below, Pollers)
    <2>1. stack # <<>> /\ Top.call = call
      BY <1>c DEF Returning, Top
    <2>2. Top \in Frames
      BY <1>0, <2>1, TopBelow
    <2>3. ~Top.refreshing
      BY <2>1, <2>2 DEF Frames
    <2>4. QED
      BY <1>a, <1>c, <2>3
  <1>1. CASE PendingFailed
    BY <1>b, <1>1 DEF PendingFailed
  <1>2. CASE PendingRead
    <2>0. /\ Below \in Seq(Frames) /\ Top \in Frames
          /\ inFlight = TRUE /\ OneHolds(FALSE, Below, Pollers)
      BY <1>b, <1>2 DEF PendingRead
    <2>1. CASE Claims(Top.list)
      <3>1. PICK next \in Top.list : StartAcknowledge(next, TRUE, holding, Below)
        BY <1>2, <2>1 DEF PendingRead
      <3>2. next \in Handles /\ holding \in BOOLEAN
        BY <2>0 DEF Frames, TypeOK, BackendTypeOK
      <3>3. OneHolds(TRUE, stack', Pollers)
        BY <2>0, <3>1, <3>2, StartAcknowledgeGuards
      <3>4. QED
        BY <1>2, <2>0, <2>1, <3>3 DEF PendingRead
    <2>2. CASE ~Claims(Top.list)
      BY <1>2, <2>0, <2>2 DEF PendingRead
    <2>3. QED
      BY <2>1, <2>2
  <1>3. CASE AcknowledgeRefused \/ ShowRequest
    <2>1. stack' = Below /\ inFlight' = (inFlight /\ ~Top.refreshing)
      BY <1>3 DEF AcknowledgeRefused, ShowRequest
    <2>2. CASE Top.refreshing
      <3>1. OneHolds(FALSE, Below, Pollers)
        BY <1>b, <1>3, <2>2 DEF AcknowledgeRefused, ShowRequest
      <3>2. inFlight' = FALSE
        BY <2>1, <2>2
      <3>3. QED
        BY <2>1, <3>1, <3>2
    <2>3. CASE ~Top.refreshing
      <3>1. OneHolds(inFlight, Below, Pollers)
        BY <1>a, <1>3, <2>3 DEF AcknowledgeRefused, ShowRequest
      <3>2. inFlight' = inFlight
        BY <1>0, <2>1, <2>3
      <3>3. QED
        BY <2>1, <3>1, <3>2
    <2>4. QED
      BY <2>2, <2>3
  <1>4. CASE ShowLines
    <2> DEFINE f == [Top EXCEPT !.call = "interpret"]
    <2>1. Returning("acknowledge") /\ stack' = Push(f, Below) /\ inFlight' = inFlight
      BY <1>4 DEF ShowLines
    <2>2. CASE Top.refreshing
      <3>1. /\ Below \in Seq(Frames) /\ Top \in Frames
            /\ inFlight = TRUE /\ OneHolds(FALSE, Below, Pollers)
        BY <1>b, <2>1, <2>2
      <3>2. Top.call = "acknowledge"
        BY <2>1 DEF Returning, Top
      <3>3. f \in Frames /\ f \in Pollers
        BY <2>2, <3>1, <3>2 DEF Frames, Calls, Pollers
      <3> HIDE DEF f
      <3>4. QED
        BY <2>1, <3>1, <3>3, PushHolder
    <2>3. CASE ~Top.refreshing
      <3>1. Below \in Seq(Frames) /\ Top \in Frames /\ OneHolds(inFlight, Below, Pollers)
        BY <1>a, <2>1, <2>3
      <3>2. f.call # "pending" /\ f.refreshing = FALSE
        BY <2>3, <3>1 DEF Frames
      <3> HIDE DEF f
      <3>3. OneHolds(inFlight, stack', Pollers)
        BY <1>0, <2>1, <3>1, <3>2, OthersGuard
      <3>4. QED
        BY <2>1, <3>3
    <2>4. QED
      BY <2>2, <2>3
  <1>5. CASE SignerPicked \/ SignersArrive \/ ApprovalSigning \/ RefusalHeld
    <2>1. inFlight' = inFlight /\ stack' = Below
      BY <1>5 DEF SignerPicked, SignersArrive, ApprovalSigning, RefusalHeld
    <2>2. OneHolds(inFlight, Below, Pollers)
      BY <1>c, <1>5 DEF SignerPicked, SignersArrive, ApprovalSigning, RefusalHeld
    <2>3. QED
      BY <2>1, <2>2
  <1>6. CASE ApprovalSigned \/ RejectionAnswered
    <2>1. Refresh(Below)
      BY <1>6 DEF ApprovalSigned, RejectionAnswered
    <2>2. Below \in Seq(Frames) /\ OneHolds(inFlight, Below, Pollers)
      BY <1>c, <1>6 DEF ApprovalSigned, RejectionAnswered
    <2>3. QED
      BY <2>1, <2>2, RefreshGuards
  <1>7. CASE ApprovalRefused
    <2>1. Below \in Seq(Frames) /\ OneHolds(inFlight, Below, Pollers) /\ inFlight' = inFlight
      BY <1>c, <1>7 DEF ApprovalRefused
    <2>2. stack' = Below \/ AskSigners("signers after approve", screen.handle, Below)
      BY <1>7 DEF ApprovalRefused
    <2>3. QED
      BY <1>0, <2>1, <2>2, AskSignersGuards
  <1>8. QED
    BY <1>1, <1>2, <1>3, <1>4, <1>5, <1>6, <1>7 DEF Return

(* m_inFlight is set exactly while one refresh() is under way, however     *)
(* deep calls nest: no tick stacks a second poll, and no way out of one    *)
(* leaves the queue unread for good.                                       *)
THEOREM OnePoll == Spec => []OnePollAtATime
  <1>1. Init => Polling
    <2> SUFFICES ASSUME inFlight = FALSE, stack = <<>>
                 PROVE  Polling
      BY DEF Init
    <2>1. Holding(stack, Pollers) = {}
      BY DEF Holding
    <2>2. QED
      BY <2>1 DEF Polling, OneHolds
  <1>2. TypeOK /\ Polling /\ [Next]_vars => Polling'
    <2> SUFFICES ASSUME TypeOK, Polling, [Next]_vars
                 PROVE  Polling'
      OBVIOUS
    <2>0. stack \in Seq(Frames) /\ inFlight \in BOOLEAN /\ OneHolds(inFlight, stack, Pollers)
      BY DEF TypeOK, BackendTypeOK, Polling
    <2>a. OneHolds(inFlight', stack', Pollers) => Polling'
      BY DEF Polling, OneHolds, Holding, Pollers, Frames
    <2>1. CASE ManagerStep \/ DeliverEvent \/ DwellTimeout \/ ConfirmExpires \/ UNCHANGED vars
      <3>1. UNCHANGED <<inFlight, stack>>
        BY <2>1 DEF ManagerStep, DeliverEvent, DwellTimeout, ConfirmExpires, vars, bvars, bvarsButStack
      <3>2. QED
        BY <2>0, <2>a, <3>1
    <2>2. CASE Poll
      BY <2>0, <2>2, <2>a, RefreshGuards DEF Poll
    <2>3. CASE RefreshSigners
      <3>1. inFlight' = inFlight
        BY <2>3 DEF RefreshSigners
      <3>2. CASE AskSigners("signers", screen.handle, stack)
        BY <2>0, <2>a, <3>1, <3>2, AskSignersGuards
      <3>3. CASE UNCHANGED stack
        BY <2>0, <2>a, <3>1, <3>3
      <3>4. QED
        BY <2>3, <3>2, <3>3 DEF RefreshSigners
    <2>4. QED
      BY <2>1, <2>2, <2>3, <2>a, ViewGuards, ReturnGuards DEF Next
  <1>3. TypeOK /\ Polling => OnePollAtATime
    BY PollingIsGuard DEF TypeOK, BackendTypeOK
  <1>4. QED
    BY <1>1, <1>2, <1>3, TypeCorrect, PTL DEF Spec

-----------------------------------------------------------------------------
(* The error line: what it says is remembered in the hold, or is about to. *)

(* The calls behind which approve() goes on to hold a refusal. *)
WillHold == {f \in Frames : f.call = "signers after approve"}

Answerable ==
    /\ lastError = "unreachable" => hold.poll = "unreachable"
    /\ lastError = "signer" => hold.refused = "signer" \/ HasIn(stack, WillHold)

LEMMA AnswerableIs ==
    ASSUME TypeOK, Answerable
    PROVE  ErrorsAnswerable
  BY DEF Answerable, ErrorsAnswerable, HasIn, WillHold

LEMMA PushHas ==
    ASSUME NEW f, NEW s \in Seq(Frames), NEW S, HasIn(s, S) \/ f \in S
    PROVE  HasIn(Push(f, s), S)
  <1> DEFINE F == Frames \cup {f}
  <1>1. <<f>> \in Seq(F) /\ s \in Seq(F)
    OBVIOUS
  <1>2. 1 \in DOMAIN <<f>> /\ <<f>>[1] = f
    OBVIOUS
  <1> HIDE DEF F
  <1>3. HasIn(s, S) \/ HasIn(<<f>>, S)
    BY <1>2 DEF HasIn
  <1>4. QED
    BY <1>1, <1>3, HasInConcat DEF Push

(* A handler that goes on from s leaves s, or blocks on top of it. *)
Onto(s) == stack' = s \/ \E f : stack' = Push(f, s)

LEMMA OntoHas ==
    ASSUME NEW s \in Seq(Frames), NEW S, HasIn(s, S), Onto(s)
    PROVE  HasIn(stack', S)
  BY PushHas DEF Onto

LEMMA CallsOnto ==
    ASSUME NEW s
    PROVE  /\ Refresh(s) => Onto(s)
           /\ \A call, h : AskSigners(call, h, s) => Onto(s)
           /\ \A h, refreshing, held : StartAcknowledge(h, refreshing, held, s) => Onto(s)
  BY DEF Onto, Refresh, AskSigners, StartAcknowledge

(* What returns takes its call off, and may block again in its place. *)
LEMMA ReturnOnto ==
    ASSUME Return
    PROVE  stack # <<>> /\ Onto(Below)
  <1>a. stack # <<>>
    BY DEF Return, Returning, PendingFailed, PendingRead, AcknowledgeRefused, ShowLines, ShowRequest,
           SignerPicked, SignersArrive, ApprovalSigning, ApprovalSigned, ApprovalRefused, RefusalHeld,
           RejectionAnswered
  <1>1. CASE PendingRead
    <2>1. stack' = Below \/ \E next : StartAcknowledge(next, TRUE, holding, Below)
      BY <1>1 DEF PendingRead
    <2>2. QED
      BY <1>a, <2>1, CallsOnto DEF Onto
  <1>2. CASE ApprovalSigned \/ RejectionAnswered
    BY <1>a, <1>2, CallsOnto DEF ApprovalSigned, RejectionAnswered
  <1>3. CASE ApprovalRefused
    <2>1. stack' = Below \/ AskSigners("signers after approve", screen.handle, Below)
      BY <1>3 DEF ApprovalRefused
    <2>2. QED
      BY <1>a, <2>1, CallsOnto DEF Onto
  <1>4. CASE ShowLines
    BY <1>a, <1>4 DEF ShowLines, Onto
  <1>5. QED
    BY <1>a, <1>1, <1>2, <1>3, <1>4 DEF Return, Onto, PendingFailed, AcknowledgeRefused, ShowRequest,
                                  SignerPicked, SignersArrive, ApprovalSigning, RefusalHeld

(* Only what goes on to hold a refusal takes its call off the stack. *)
LEMMA ReturnKeepsRefusing ==
    ASSUME TypeOK, Return, ~RefusalHeld, HasIn(stack, WillHold)
    PROVE  HasIn(stack', WillHold)
  <1>0. stack \in Seq(Frames)
    BY DEF TypeOK, BackendTypeOK
  <1>1. stack # <<>> /\ Top.call # "signers after approve"
    BY DEF Return, Returning, Top, PendingFailed, PendingRead, AcknowledgeRefused, ShowLines, ShowRequest,
           SignerPicked, SignersArrive, ApprovalSigning, ApprovalSigned, ApprovalRefused, RejectionAnswered
  <1>2. Below \in Seq(Frames) /\ HasIn(Below, WillHold)
    <2>1. Head(stack) \notin WillHold
      BY <1>1 DEF WillHold, Top
    <2>2. QED
      BY <1>0, <1>1, <2>1, HasInTail, TopBelow DEF Below
  <1>3. Onto(Below)
    BY ReturnOnto
  <1>4. QED
    BY <1>2, <1>3, OntoHas

(* Whatever starts, or only happens, keeps what is blocked. *)
LEMMA ViewOnto ==
    ASSUME View
    PROVE  Onto(stack)
  <1>1. ASSUME NEW h \in Handles, OpenRequest(h)
        PROVE  Onto(stack)
    BY <1>1, CallsOnto DEF OpenRequest
  <1>2. ASSUME NEW h \in Handles, GiveRejection(h)
        PROVE  Onto(stack)
    BY <1>2 DEF GiveRejection, Onto
  <1>3. ASSUME NEW h \in Handles, NEW s \in Signers, PickSigner(h, s)
        PROVE  Onto(stack)
    BY <1>3 DEF PickSigner, Onto
  <1>4. ASSUME NEW h \in Handles, NEW bundle \in OrNone(Handles), GiveApproval(h, bundle)
        PROVE  Onto(stack)
    BY <1>4 DEF GiveApproval, Onto
  <1>5. CASE Dismiss
    BY <1>5 DEF Dismiss, Onto
  <1>6. QED
    BY <1>1, <1>2, <1>3, <1>4, <1>5 DEF View

LEMMA ReturnAnswerable ==
    ASSUME TypeOK, Answerable, Return
    PROVE  Answerable'
  <1>0. /\ stack \in Seq(Frames) /\ lastError \in ErrorTexts
        /\ hold \in [poll : ErrorTexts, refused : ErrorTexts, signer : Signers \cup {NoSigner}, absent : BOOLEAN]
    BY DEF TypeOK, BackendTypeOK, Holds
  <1>1. CASE lastError' \in {"", "call"}
    BY <1>1 DEF Answerable
  <1>2. CASE PendingFailed
    BY <1>0, <1>2 DEF PendingFailed, PollFailed, Answerable
  <1>3. CASE RefusalHeld
    BY <1>0, <1>3 DEF RefusalHeld, SignerRefused, Answerable
  <1>4. CASE PendingRead
    <2>1. /\ lastError' = IF PollClears(hold, lastError) THEN "" ELSE lastError
          /\ hold'.refused = hold.refused
      BY <1>0, <1>4 DEF PendingRead, PollRead
    <2>2. lastError' # "unreachable"
      BY <2>1 DEF PollClears, Answerable
    <2>3. ~RefusalHeld
      BY <1>4 DEF PendingRead, RefusalHeld, Returning
    <2>4. QED
      BY <2>1, <2>2, <2>3, ReturnKeepsRefusing DEF Answerable
  <1>5. CASE SignersArrive
    <2>1. ~RefusalHeld
      BY <1>5 DEF SignersArrive, RefusalHeld, Returning
    <2>2. CASE UNCHANGED <<lastError, hold>>
      BY <2>1, <2>2, ReturnKeepsRefusing DEF Answerable
    <2>3. CASE SignersAnswer(Top)
      <3>1. /\ lastError' = IF SignersClear(hold, lastError, Top.signer, Top.presence) THEN "" ELSE lastError
            /\ hold' = SignersRead(hold, lastError, Top.signer, Top.presence)
        BY <1>5, <2>3 DEF SignersArrive
      <3>2. hold'.poll = hold.poll
        BY <1>0, <3>1 DEF SignersRead
      <3>3. lastError' = "signer" /\ hold.refused = "signer" => hold'.refused = "signer"
        BY <1>0, <3>1 DEF SignersRead, SignersClear, Refusing
      <3>4. QED
        BY <2>1, <3>1, <3>2, <3>3, ReturnKeepsRefusing DEF Answerable
    <2>4. QED
      BY <1>5, <2>2, <2>3 DEF SignersArrive
  <1>6. CASE ApprovalRefused /\ Top.answer = "signer"
    <2>1. lastError' = "signer"
      BY <1>6 DEF ApprovalRefused
    <2>2. CASE SignersReadable
      <3>1. AskSigners("signers after approve", screen.handle, Below) /\ screen.handle \in Handles
        BY <1>6, <2>2 DEF ApprovalRefused, SignersReadable, TypeOK, BackendTypeOK, Screens, OrNone
      <3>2. Below \in Seq(Frames)
        BY <1>0, <1>6, TopBelow DEF ApprovalRefused, Returning
      <3>3. PICK got \in {"ok", "refused", "lost"} :
               stack' = Push([Frame("signers after approve", screen.handle, got) EXCEPT
                                !.signer = signerOf[screen.handle],
                                !.presence = presence[signerOf[screen.handle]]], Below)
        BY <3>1 DEF AskSigners
      <3> DEFINE f == [Frame("signers after approve", screen.handle, got) EXCEPT
                         !.signer = signerOf[screen.handle],
                         !.presence = presence[signerOf[screen.handle]]]
      <3>4. Frame("signers after approve", screen.handle, got) \in Frames
        BY <3>1, HandlesAssumption, FrameType DEF Calls, OrNone, Answers
      <3>5. f \in Frames
        BY <3>1, <3>4, HandlesAssumption DEF Frames, Frame, TypeOK, ManagerTypeOK
      <3>6. f.call = "signers after approve" /\ stack' = Push(f, Below)
        BY <3>3 DEF Frame
      <3> HIDE DEF f
      <3>7. HasIn(stack', WillHold)
        <4>1. f \in WillHold
          BY <3>5, <3>6 DEF WillHold
        <4>2. QED
          BY <3>2, <3>6, <4>1, PushHas
      <3>8. QED
        BY <2>1, <3>7 DEF Answerable, WillHold
    <2>3. CASE ~SignersReadable
      BY <1>0, <1>6, <2>1, <2>3 DEF ApprovalRefused, SignerRefused, Answerable
    <2>4. QED
      BY <2>2, <2>3
  <1>7. CASE UNCHANGED <<lastError, hold>> /\ ~RefusalHeld
    BY <1>7, ReturnKeepsRefusing DEF Answerable
  <1>8. QED
    <2>1. RejectionAnswered \/ ShowRequest => ~RefusalHeld
      BY DEF RejectionAnswered, ShowRequest, RefusalHeld, Returning
    <2>2. QED
      BY <1>1, <1>2, <1>3, <1>4, <1>5, <1>6, <1>7, <2>1
         DEF Return, AcknowledgeRefused, ShowLines, ShowRequest, SignerPicked, ApprovalSigning, ApprovalSigned,
             ApprovalRefused, RejectionAnswered

(* An error the poll wrote is one the next good poll may clear, and the    *)
(* refusal of a signer one that reading the signers may clear, however     *)
(* deep calls nest (sheet::ErrorHold and its callers in refresh(),         *)
(* refreshSigners() and approve()).                                        *)
THEOREM ErrorsAreAnswerable == Spec => []ErrorsAnswerable
  <1>1. Init => Answerable
    BY DEF Init, Answerable
  <1>2. TypeOK /\ Answerable /\ [Next]_vars => Answerable'
    <2> SUFFICES ASSUME TypeOK, Answerable, [Next]_vars
                 PROVE  Answerable'
      OBVIOUS
    <2>0. stack \in Seq(Frames)
      BY DEF TypeOK, BackendTypeOK
    <2>1. ASSUME Onto(stack), UNCHANGED hold, lastError' \in {"", "call", lastError}
          PROVE  Answerable'
      <3>1. HasIn(stack, WillHold) => HasIn(stack', WillHold)
        BY <2>0, <2>1, OntoHas
      <3>2. QED
        BY <2>1, <3>1 DEF Answerable, WillHold
    <2>2. CASE ManagerStep \/ DeliverEvent \/ DwellTimeout \/ ConfirmExpires \/ UNCHANGED vars
      BY <2>1, <2>2 DEF Onto, ManagerStep, DeliverEvent, DwellTimeout, ConfirmExpires, vars, bvars, bvarsButStack
    <2>3. CASE Poll
      BY <2>1, <2>3, CallsOnto DEF Poll
    <2>4. CASE RefreshSigners
      <3>1. Onto(stack)
        BY <2>4, CallsOnto DEF RefreshSigners, Onto
      <3>2. QED
        BY <2>1, <2>4, <3>1 DEF RefreshSigners
    <2>5. CASE View
      <3>1. UNCHANGED hold /\ lastError' \in {"", "call", lastError}
        BY <2>5 DEF View, OpenRequest, GiveRejection, PickSigner, GiveApproval, Dismiss, bvarsButStack
      <3>2. QED
        BY <2>1, <2>5, <3>1, ViewOnto
    <2>6. QED
      BY <2>2, <2>3, <2>4, <2>5, ReturnAnswerable DEF Next
  <1>3. QED
    BY <1>1, <1>2, AnswerableIs, TypeCorrect, PTL DEF Spec
=============================================================================
