---------------------------- MODULE ClaimsProofs ----------------------------
(***************************************************************************)
(* Proofs about what ApprovalsHistory says of claims and of what was       *)
(* signed, for every depth at which handlers may nest: what is on screen   *)
(* is claimed, unless claims crossed and none has been made by itself      *)
(* since; and what was approved is shown as waiting at most by the one     *)
(* reading of the queue that it overtook.                                  *)
(***************************************************************************)
EXTENDS ApprovalsHistory, ApprovalsProofs

-----------------------------------------------------------------------------
(* What the handlers push.                                                 *)

(* Nothing was pushed on s, or a call of C. *)
Pushed(C, s) == stack' = s \/ \E f \in Frames : f.call \in C /\ stack' = Push(f, s)

LEMMA RefreshPushed ==
    ASSUME TypeOK, NEW s \in Seq(Frames), Refresh(s)
    PROVE  \/ stack' = s
           \/ \E f \in Frames : f.call = "pending" /\ f.list = Pending /\ stack' = Push(f, s)
  <1>1. CASE inFlight
    BY <1>1 DEF Refresh
  <1>2. CASE ~inFlight
    <2>1. PICK got \in {"ok", "lost"} :
             stack' = Push([Frame("pending", NoHandle, got) EXCEPT !.list = Pending], s)
      BY <1>2 DEF Refresh
    <2> DEFINE f == [Frame("pending", NoHandle, got) EXCEPT !.list = Pending]
    <2>2. Frame("pending", NoHandle, got) \in Frames
      BY FrameType DEF Calls, OrNone, Answers
    <2>3. f \in Frames /\ f.call = "pending" /\ f.list = Pending
      BY <2>2 DEF Frames, Pending, Frame
    <2>4. stack' = Push(f, s)
      BY <2>1
    <2>5. QED
      BY <2>3, <2>4
  <1>3. QED
    BY <1>1, <1>2

LEMMA AskSignersPushed ==
    ASSUME TypeOK, NEW call \in {"signers", "signers after approve"}, NEW h \in Handles,
           NEW s, AskSigners(call, h, s)
    PROVE  /\ \E f \in Frames : f.call = call /\ stack' = Push(f, s)
           /\ rec' = rec
  <1>1. PICK answer \in {"ok", "refused", "lost"}, got \in {"ok", "refused", "lost"} :
           /\ ApprovalSigners(h, answer)
           /\ stack' = Push([Frame(call, h, got) EXCEPT
                               !.signer = signerOf[h], !.presence = presence[signerOf[h]]], s)
    BY DEF AskSigners
  <1> DEFINE f == [Frame(call, h, got) EXCEPT
                     !.signer = signerOf[h], !.presence = presence[signerOf[h]]]
  <1>2. Frame(call, h, got) \in Frames
    BY HandlesAssumption, FrameType DEF Calls, OrNone, Answers
  <1>3. f \in Frames /\ f.call = call
    BY <1>2, HandlesAssumption DEF Frames, Frame, TypeOK, ManagerTypeOK
  <1>4. stack' = Push(f, s)
    BY <1>1
  <1>5. rec' = rec
    BY <1>1 DEF ApprovalSigners, Untouched
  <1>6. QED
    BY <1>3, <1>4, <1>5

(* A claim: the manager may have it, and if so answered ok. *)
LEMMA StartAcknowledgePushed ==
    ASSUME TypeOK, NEW h \in Handles, NEW refreshing \in BOOLEAN, NEW held \in BOOLEAN,
           NEW s, StartAcknowledge(h, refreshing, held, s)
    PROVE  \E f \in Frames :
              /\ f.call = "acknowledge" /\ f.handle = h /\ f.refreshing = refreshing
              /\ stack' = Push(f, s)
              /\ f.answer = "ok" => Acknowledge(h, "ok")
              /\ Acknowledge(h, "ok") \/ Acknowledge(h, "refused") \/ Untouched
  <1>1. PICK answer \in {"ok", "refused"}, got \in {"ok", "refused", "lost"} :
           /\ \/ Acknowledge(h, answer) /\ Heard(answer, got)
              \/ Unsent(got) /\ answer = "refused"
           /\ stack' = Push([Frame("acknowledge", h, got) EXCEPT
                               !.refreshing = refreshing, !.held = held, !.signer = signerOf[h]], s)
    BY DEF StartAcknowledge
  <1> DEFINE f == [Frame("acknowledge", h, got) EXCEPT
                     !.refreshing = refreshing, !.held = held, !.signer = signerOf[h]]
  <1>2. Frame("acknowledge", h, got) \in Frames
    BY HandlesAssumption, FrameType DEF Calls, OrNone, Answers
  <1>3. f \in Frames
    BY <1>2, HandlesAssumption DEF Frames, Frame, TypeOK, ManagerTypeOK
  <1>4. f.call = "acknowledge" /\ f.handle = h /\ f.refreshing = refreshing /\ f.answer = got
    BY DEF Frame
  <1>5. stack' = Push(f, s)
    BY <1>1
  <1> HIDE DEF f
  <1>6. got = "ok" => Acknowledge(h, "ok")
    BY <1>1 DEF Heard, Unsent, NotSent
  <1>7. Acknowledge(h, "ok") \/ Acknowledge(h, "refused") \/ Untouched
    BY <1>1 DEF Unsent
  <1>8. QED
    BY <1>3, <1>4, <1>5, <1>6, <1>7

(* What the view calls, but for opening a request. *)
LEMMA ViewPushed ==
    ASSUME TypeOK
    PROVE  /\ \A h \in Handles : GiveRejection(h) => Pushed({"reject"}, stack)
           /\ \A h \in Handles, s \in Signers : PickSigner(h, s) => Pushed({"choose signer"}, stack)
           /\ \A h \in Handles, bundle \in OrNone(Handles) :
                 GiveApproval(h, bundle) => Pushed({"approve"}, stack)
  <1>1. ASSUME NEW h \in Handles, NEW call \in Calls, NEW answer \in Answers
        PROVE  /\ Frame(call, h, answer) \in Frames
               /\ stack' = Push(Frame(call, h, answer), stack) => Pushed({call}, stack)
    <2>1. Frame(call, h, answer) \in Frames
      BY HandlesAssumption, FrameType DEF OrNone
    <2>2. Frame(call, h, answer).call \in {call}
      BY DEF Frame
    <2>3. QED
      BY <2>1, <2>2 DEF Pushed
  <1>2. ASSUME NEW h \in Handles, GiveRejection(h)
        PROVE  Pushed({"reject"}, stack)
    <2>1. PICK got \in {"ok", "refused", "lost"} : stack' = Push(Frame("reject", h, got), stack)
      BY <1>2 DEF GiveRejection
    <2>2. got \in Answers /\ "reject" \in Calls
      BY DEF Answers, Calls
    <2>3. QED
      BY <1>1, <2>1, <2>2
  <1>3. ASSUME NEW h \in Handles, NEW s \in Signers, PickSigner(h, s)
        PROVE  Pushed({"choose signer"}, stack)
    <2>1. CASE UNCHANGED stack
      BY <2>1 DEF Pushed
    <2>2. ASSUME NEW got \in {"ok", "refused", "lost"},
                 stack' = Push([Frame("choose signer", h, got) EXCEPT !.signer = s], stack)
          PROVE  Pushed({"choose signer"}, stack)
      <3>1. Frame("choose signer", h, got) \in Frames
        BY <1>1 DEF Calls, Answers
      <3> DEFINE f == [Frame("choose signer", h, got) EXCEPT !.signer = s]
      <3>2. f \in Frames /\ f.call = "choose signer"
        BY <3>1, HandlesAssumption DEF Frames, Frame
      <3>3. stack' = Push(f, stack)
        BY <2>2
      <3> HIDE DEF f
      <3>4. QED
        BY <3>2, <3>3 DEF Pushed
    <2>3. QED
      BY <1>3, <2>1, <2>2 DEF PickSigner
  <1>4. ASSUME NEW h \in Handles, NEW bundle \in OrNone(Handles), GiveApproval(h, bundle)
        PROVE  Pushed({"approve"}, stack)
    <2>1. UNCHANGED stack \/ \E got \in Answers : stack' = Push(Frame("approve", h, got), stack)
      BY <1>4 DEF GiveApproval
    <2>2. "approve" \in Calls
      BY DEF Calls
    <2>3. CASE UNCHANGED stack
      BY <2>3 DEF Pushed
    <2>4. QED
      BY <1>1, <2>1, <2>2, <2>3
  <1>5. QED
    BY <1>2, <1>3, <1>4

-----------------------------------------------------------------------------
(* What the manager's records go through.                                  *)

Claimed(st) == {h \in Handles : st[h] \in {"rendered", "signing", "ended"}}

EndedStay == \A h \in Handles : rec[h] = "ended" => rec'[h] = "ended"

ClaimedStay == Claimed(rec) \subseteq Claimed(rec')

(* Whatever but a claim leaves what is claimed claimed. *)
LEMMA OthersKeepClaims ==
    ASSUME ManagerTypeOK,
           \/ rec' = rec
           \/ \E h \in Handles : Offer(h) \/ End(h)
           \/ \E h \in Handles : \E bundle, answer : Approve(h, bundle, answer)
           \/ \E h \in Handles : \E answer : Reject(h, answer)
    PROVE  EndedStay /\ ClaimedStay
  <1>1. CASE rec' = rec
    BY <1>1 DEF EndedStay, ClaimedStay
  <1>2. ASSUME NEW h \in Handles, Offer(h) \/ End(h)
        PROVE  EndedStay /\ ClaimedStay
    BY <1>2 DEF ManagerTypeOK, Offer, End, EndedStay, ClaimedStay, Claimed
  <1>3. ASSUME NEW h \in Handles, NEW bundle, NEW answer, Approve(h, bundle, answer)
        PROVE  EndedStay /\ ClaimedStay
    BY <1>3 DEF ManagerTypeOK, Approve, Untouched, EndedStay, ClaimedStay, Claimed
  <1>4. ASSUME NEW h \in Handles, NEW answer, Reject(h, answer)
        PROVE  EndedStay /\ ClaimedStay
    BY <1>4 DEF ManagerTypeOK, Reject, Untouched, EndedStay, ClaimedStay, Claimed
  <1>5. QED
    BY <1>1, <1>2, <1>3, <1>4

(* A claim ends nothing that is ended; answered ok, its request is claimed.*)
LEMMA ClaimClaims ==
    ASSUME ManagerTypeOK, NEW h \in Handles, NEW answer, Acknowledge(h, answer)
    PROVE  EndedStay /\ (answer = "ok" => h \in Claimed(rec'))
  <1>1. CASE answer = "ok"
    <2>1. rec[h] \in {"offered", "rendered", "signing"}
          /\ rec' = [x \in Handles |->
                      CASE x = h /\ rec[x] # "signing" -> "rendered"
                        [] x # h /\ rec[x] = "rendered" -> "offered"
                        [] OTHER -> rec[x]]
      BY <1>1 DEF Acknowledge, Live
    <2>2. rec'[h] \in {"rendered", "signing"}
      BY <2>1
    <2>3. \A x \in Handles : rec[x] = "ended" => rec'[x] = "ended"
      BY <2>1
    <2>4. QED
      BY <2>2, <2>3 DEF EndedStay, Claimed
  <1>2. CASE answer # "ok"
    BY <1>2 DEF Acknowledge, Untouched, EndedStay
  <1>3. QED
    BY <1>1, <1>2

(* What the view calls is no claim, but for opening a request. *)
LEMMA ViewKeepsClaims ==
    ASSUME TypeOK
    PROVE  /\ \A h \in Handles : GiveRejection(h) => EndedStay /\ ClaimedStay
           /\ \A h \in Handles, s \in Signers : PickSigner(h, s) => EndedStay /\ ClaimedStay
           /\ \A h \in Handles, bundle \in OrNone(Handles) :
                 GiveApproval(h, bundle) => EndedStay /\ ClaimedStay
           /\ Dismiss => EndedStay /\ ClaimedStay
  <1>0. ManagerTypeOK
    BY DEF TypeOK
  <1>1. ASSUME NEW h \in Handles, GiveRejection(h)
        PROVE  EndedStay /\ ClaimedStay
    <2>1. rec' = rec \/ \E answer : Reject(h, answer)
      BY <1>1 DEF GiveRejection, Unsent, Untouched
    <2>2. QED
      BY <1>0, <2>1, OthersKeepClaims
  <1>2. ASSUME NEW h \in Handles, NEW s \in Signers, PickSigner(h, s)
        PROVE  EndedStay /\ ClaimedStay
    <2>1. rec' = rec
      BY <1>2 DEF PickSigner, ChooseSigner, Unsent, Untouched, mvars
    <2>2. QED
      BY <1>0, <2>1, OthersKeepClaims
  <1>3. ASSUME NEW h \in Handles, NEW bundle \in OrNone(Handles), GiveApproval(h, bundle)
        PROVE  EndedStay /\ ClaimedStay
    <2>1. rec' = rec \/ \E answer : Approve(h, bundle, answer)
      BY <1>3 DEF GiveApproval, Unsent, Untouched, mvars
    <2>2. QED
      BY <1>0, <2>1, OthersKeepClaims
  <1>4. ASSUME Dismiss
        PROVE  EndedStay /\ ClaimedStay
    <2>1. rec' = rec
      BY <1>4 DEF Dismiss, mvars
    <2>2. QED
      BY <1>0, <2>1, OthersKeepClaims
  <1>5. QED
    BY <1>1, <1>2, <1>3, <1>4

-----------------------------------------------------------------------------
(* Claims: acknowledge(), from its call to the manager to where            *)
(* interpret() has its reading.                                            *)

ClaimFrames == {f \in Frames : f.call \in {"acknowledge", "interpret"}}

OneClaim == AtMostOne(stack, ClaimFrames)

Others == Frames \ ClaimFrames

(* A claim under way is of a request the manager has claimed, unless it    *)
(* failed.                                                                 *)
ClaimAgrees(f, st) ==
    /\ f.call = "acknowledge" /\ f.answer = "ok" => f.handle \in Claimed(st)
    /\ f.call = "interpret" => f.handle \in Claimed(st)

Agreeing(st) == {f \in Frames : ClaimAgrees(f, st)}

(* The inductive invariant, in two halves: where no claim crosses another, *)
(* so it is of the one under way; and with none under way the request on   *)
(* screen is claimed, if it was shown by one alone.                        *)
ClaimsAgree == ~crossed => stack \in Seq(Agreeing(rec)) /\ OneClaim

ShownAgrees == stack \in Seq(Others) /\ alone => screen.handle \in Claimed(rec) \cup {NoHandle}

ClaimsAlone == ClaimsAgree /\ ShownAgrees

(* The frames of ClaimFrames are those Claiming counts. *)
LEMMA ClaimingIs ==
    ASSUME NEW s \in Seq(Frames)
    PROVE  /\ Claiming(s) = {} <=> s \in Seq(Others)
           /\ (~ \E i, j \in Claiming(s) : i # j) <=> AtMostOne(s, ClaimFrames)
  <1>1. Claiming(s) = Holding(s, ClaimFrames)
    BY DEF Claiming, Holding, ClaimFrames
  <1>2. ASSUME Claiming(s) = {}
        PROVE  s \in Seq(Others)
    <2>1. \A i \in DOMAIN s : s[i] \in Others
      BY <1>1, <1>2 DEF Holding, Others
    <2>2. QED
      BY <2>1, SeqNarrow
  <1>3. ASSUME s \in Seq(Others)
        PROVE  Claiming(s) = {}
    BY <1>1, <1>3 DEF Holding, Others
  <1>4. QED
    BY <1>1, <1>2, <1>3 DEF AtMostOne

LEMMA OthersAgree ==
    ASSUME NEW st
    PROVE  Others \subseteq Agreeing(st)
  BY DEF Others, ClaimFrames, Agreeing, ClaimAgrees, Frames

(* What the histories say of a step: claims that cross are crossed until   *)
(* none is under way, and what is shown is shown alone by a claim that is  *)
(* not.                                                                    *)
LEMMA Remembered ==
    ASSUME TypeOK', Remember
    PROVE  /\ ~crossed' => OneClaim' /\ (~crossed \/ stack' \in Seq(Others))
           /\ ShowRequest => alone' = ~crossed
           /\ ~ShowRequest => alone' = alone
  <1>1. stack' \in Seq(Frames)
    BY DEF TypeOK, BackendTypeOK, Frames
  <1>2. /\ Claiming(stack') = {} <=> stack' \in Seq(Others)
        /\ (~ \E i, j \in Claiming(stack') : i # j) <=> AtMostOne(stack', ClaimFrames)
    BY <1>1, ClaimingIs
  <1>3. OneClaim' <=> AtMostOne(stack', ClaimFrames)
    BY DEF OneClaim, AtMostOne, Holding, ClaimFrames, Frames
  <1>4. QED
    BY <1>2, <1>3 DEF Remember

(* Both halves, from what a step does to the calls and to the screen.      *)
LEMMA ClaimsFollow ==
    ASSUME TypeOK', Remember,
           ~crossed /\ OneClaim' => stack' \in Seq(Agreeing(rec')),
           /\ stack' \in Seq(Others)
           /\ ShowRequest => ~crossed
           /\ ~ShowRequest => alone
           => screen'.handle \in Claimed(rec') \cup {NoHandle}
    PROVE  ClaimsAlone'
  <1>1. stack' \in Seq(Others) => stack' \in Seq(Agreeing(rec'))
    BY OthersAgree, SeqWiden
  <1>2. ~crossed' => stack' \in Seq(Agreeing(rec')) /\ OneClaim'
    BY <1>1, Remembered
  <1>3. stack' \in Seq(Others) /\ alone' => screen'.handle \in Claimed(rec') \cup {NoHandle}
    BY Remembered
  <1>4. QED
    BY <1>2, <1>3 DEF ClaimsAlone, ClaimsAgree, ShownAgrees, Agreeing, ClaimAgrees, Claimed, Others,
                      ClaimFrames, Frames

(* What claims nothing, and shows no request, leaves both; s is what it    *)
(* takes the stack for, with no claim gone.                                *)
LEMMA OtherStep ==
    ASSUME ClaimsAlone, TypeOK', Remember, ~ShowRequest,
           ClaimedStay, screen'.handle \in {screen.handle, NoHandle},
           NEW s \in Seq(Frames),
           stack \in Seq(Agreeing(rec)) => s \in Seq(Agreeing(rec)),
           s \in Seq(Others) => stack \in Seq(Others),
           NEW C, "acknowledge" \notin C, "interpret" \notin C, Pushed(C, s)
    PROVE  ClaimsAlone'
  <1>1. ASSUME stack' \in Seq(Others)
        PROVE  s \in Seq(Others)
    <2>1. ASSUME NEW f \in Frames, stack' = Push(f, s)
          PROVE  s \in Seq(Others)
      <3>1. Push(f, s) # <<>> /\ Tail(Push(f, s)) = s
        BY PushPop
      <3>2. QED
        BY <1>1, <2>1, <3>1, TailIn
    <2>2. QED
      BY <1>1, <2>1 DEF Pushed
  <1>2. ASSUME ~crossed
        PROVE  stack' \in Seq(Agreeing(rec'))
    <2>1. Agreeing(rec) \subseteq Agreeing(rec')
      BY DEF Agreeing, ClaimAgrees, ClaimedStay
    <2>2. s \in Seq(Agreeing(rec'))
      BY <1>2, <2>1, SeqWiden DEF ClaimsAlone, ClaimsAgree
    <2>3. ASSUME NEW f \in Frames, f.call \in C
          PROVE  f \in Agreeing(rec')
      BY <2>3 DEF Agreeing, ClaimAgrees
    <2>4. QED
      BY <2>2, <2>3, PushIn DEF Pushed
  <1>3. stack' \in Seq(Others) /\ alone => screen'.handle \in Claimed(rec') \cup {NoHandle}
    BY <1>1 DEF ClaimsAlone, ShownAgrees, ClaimedStay
  <1>4. QED
    BY <1>2, <1>3, ClaimsFollow

(* A claim pushed on s: what it is for is claimed, if it was answered so.  *)
LEMMA ClaimStep ==
    ASSUME TypeOK, TypeOK', Remember,
           NEW h \in Handles, NEW refreshing \in BOOLEAN, NEW held \in BOOLEAN,
           NEW s \in Seq(Frames), StartAcknowledge(h, refreshing, held, s)
    PROVE  ClaimsAlone'
  <1>1. PICK f \in Frames :
              /\ f.call = "acknowledge" /\ f.handle = h /\ f.refreshing = refreshing
              /\ stack' = Push(f, s)
              /\ f.answer = "ok" => Acknowledge(h, "ok")
    BY StartAcknowledgePushed
  <1>2. f \in ClaimFrames
    BY <1>1 DEF ClaimFrames
  <1>3. /\ Push(f, s) \in Seq(Frames) /\ Push(f, s) # <<>>
        /\ Head(Push(f, s)) = f /\ Tail(Push(f, s)) = s
    BY PushPop
  <1>4. ASSUME OneClaim'
        PROVE  stack' \in Seq(Agreeing(rec'))
    <2>1. AtMostOne(Push(f, s), ClaimFrames)
      BY <1>1, <1>4 DEF OneClaim, AtMostOne, Holding, ClaimFrames, Frames
    <2>2. s \in Seq(Others)
      BY <1>2, <1>3, <2>1, OnlyHolder DEF Others
    <2>3. s \in Seq(Agreeing(rec'))
      BY <2>2, OthersAgree, SeqWiden
    <2>4. f.answer = "ok" => h \in Claimed(rec')
      BY <1>1, ClaimClaims DEF TypeOK
    <2>5. f \in Agreeing(rec')
      BY <1>1, <2>4 DEF Agreeing, ClaimAgrees
    <2>6. QED
      BY <1>1, <2>3, <2>5, PushIn
  <1>5. stack' \notin Seq(Others)
    BY <1>1, <1>2, <1>3, TailIn DEF Others
  <1>6. QED
    BY <1>4, <1>5, ClaimsFollow

(* Whatever starts, or only happens. *)
LEMMA StartsClaims ==
    ASSUME ClaimsAlone, TypeOK, TypeOK', Remember, ~ShowRequest,
           ManagerStep \/ DeliverEvent \/ DwellTimeout \/ ConfirmExpires \/ Poll \/ RefreshSigners
             \/ View
    PROVE  ClaimsAlone'
  <1>0. stack \in Seq(Frames) /\ ManagerTypeOK /\ screen \in Screens
    BY DEF TypeOK, BackendTypeOK
  <1>a. BlankScreen.handle = NoHandle
    BY DEF BlankScreen
  (* A call that is no claim, or none, and the request shown stays or goes.  *)
  <1>b. ASSUME ClaimedStay, screen'.handle \in {screen.handle, NoHandle},
               NEW C, "acknowledge" \notin C, "interpret" \notin C, Pushed(C, stack)
        PROVE  ClaimsAlone'
    BY <1>0, <1>b, OtherStep
  <1>c. UNCHANGED stack => Pushed({}, stack)
    BY DEF Pushed
  <1>d. rec' = rec => ClaimedStay
    BY DEF ClaimedStay
  <1>1. CASE ManagerStep
    <2>1. UNCHANGED <<screen, stack>>
      BY <1>1 DEF ManagerStep, bvars, bvarsButStack
    <2>2. rec' = rec \/ \E h \in Handles : Offer(h) \/ End(h)
      BY <1>1 DEF ManagerStep, SignerMoves
    <2>3. ClaimedStay
      BY <1>0, <2>2, OthersKeepClaims
    <2>4. QED
      BY <1>b, <1>c, <2>1, <2>3
  <1>2. CASE DeliverEvent \/ DwellTimeout \/ ConfirmExpires
    <2>1. screen'.handle \in {screen.handle, NoHandle}
      BY <1>0, <1>2, <1>a DEF DeliverEvent, DwellTimeout, ConfirmExpires, ClearRendered, Screens
    <2>2. UNCHANGED <<rec, stack>>
      BY <1>2 DEF DeliverEvent, DwellTimeout, ConfirmExpires, mvars
    <2>3. QED
      BY <1>b, <1>c, <1>d, <2>1, <2>2
  <1>3. CASE Poll
    <2>1. Refresh(stack) /\ UNCHANGED <<rec, screen>>
      BY <1>3 DEF Poll
    <2>2. Pushed({"pending"}, stack)
      BY <1>0, <2>1, RefreshPushed DEF Pushed
    <2>3. QED
      BY <1>b, <1>d, <2>1, <2>2
  <1>4. CASE RefreshSigners
    <2>1. screen' = screen
      BY <1>4 DEF RefreshSigners
    <2>2. CASE SignersReadable
      <3>1. AskSigners("signers", screen.handle, stack) /\ screen.handle \in Handles
        BY <1>0, <1>4, <2>2 DEF RefreshSigners, SignersReadable, Screens, OrNone
      <3>2. Pushed({"signers"}, stack) /\ rec' = rec
        BY <3>1, AskSignersPushed DEF Pushed
      <3>3. QED
        BY <1>b, <1>d, <2>1, <3>2
    <2>3. CASE ~SignersReadable
      <3>1. UNCHANGED <<rec, stack>>
        BY <1>4, <2>3 DEF RefreshSigners, mvars
      <3>2. QED
        BY <1>b, <1>c, <1>d, <2>1, <3>1
    <2>4. QED
      BY <2>2, <2>3
  <1>5. ASSUME NEW h \in Handles, OpenRequest(h)
        PROVE  ClaimsAlone'
    <2>1. StartAcknowledge(h, FALSE, FALSE, stack)
      BY <1>5 DEF OpenRequest
    <2>2. QED
      BY <1>0, <2>1, ClaimStep
  <1>6. ASSUME NEW h \in Handles, GiveRejection(h)
        PROVE  ClaimsAlone'
    <2>1. UNCHANGED screen
      BY <1>6 DEF GiveRejection, bvarsButStack
    <2>2. QED
      BY <1>6, <1>b, <2>1, ViewPushed, ViewKeepsClaims
  <1>7. ASSUME NEW h \in Handles, NEW s \in Signers, PickSigner(h, s)
        PROVE  ClaimsAlone'
    <2>1. UNCHANGED screen
      BY <1>7 DEF PickSigner
    <2>2. QED
      BY <1>7, <1>b, <2>1, ViewPushed, ViewKeepsClaims
  <1>8. ASSUME NEW h \in Handles, NEW bundle \in OrNone(Handles), GiveApproval(h, bundle)
        PROVE  ClaimsAlone'
    <2>1. UNCHANGED screen
      BY <1>8 DEF GiveApproval
    <2>2. QED
      BY <1>8, <1>b, <2>1, ViewPushed, ViewKeepsClaims
  <1>9. ASSUME Dismiss
        PROVE  ClaimsAlone'
    <2>1. screen'.handle = NoHandle /\ UNCHANGED stack
      BY <1>9, <1>a DEF Dismiss, ClearRendered
    <2>2. QED
      BY <1>9, <1>b, <1>c, <2>1, ViewKeepsClaims
  <1>10. QED
    BY <1>1, <1>2, <1>3, <1>4, <1>5, <1>6, <1>7, <1>8, <1>9 DEF View

(* What returns from a claim: refused, it leaves a blank sheet; with its   *)
(* lines it goes on to interpret(); and then it shows its request.         *)
LEMMA ClaimReturns ==
    ASSUME ClaimsAlone, TypeOK, TypeOK', Remember,
           \/ (AcknowledgeRefused \/ ShowLines) /\ ~ShowRequest
           \/ ShowRequest
    PROVE  ClaimsAlone'
  <1>0. stack \in Seq(Frames) /\ screen \in Screens
    BY DEF TypeOK, BackendTypeOK
  <1>1. /\ stack # <<>> /\ Head(stack) = Top /\ Tail(stack) = Below
        /\ Top \in ClaimFrames /\ Top \in Frames /\ Below \in Seq(Frames)
    <2>1. stack # <<>> /\ Head(stack).call \in {"acknowledge", "interpret"}
      BY DEF AcknowledgeRefused, ShowLines, ShowRequest, Returning
    <2>2. QED
      BY <1>0, <2>1, TailIn DEF Top, Below, ClaimFrames
  <1>2. rec' = rec
    BY DEF AcknowledgeRefused, ShowLines, ShowRequest, mvars
  <1>3. ASSUME ~crossed
        PROVE  ClaimAgrees(Top, rec) /\ Below \in Seq(Agreeing(rec)) /\ Below \in Seq(Others)
    <2>1. stack \in Seq(Agreeing(rec)) /\ OneClaim
      BY <1>3 DEF ClaimsAlone, ClaimsAgree
    <2>2. Top \in Agreeing(rec) /\ Below \in Seq(Agreeing(rec))
      BY <1>1, <2>1, TailIn
    <2>3. Below \in Seq(Others)
      BY <1>0, <1>1, <2>1, OnlyHolder DEF OneClaim, Others
    <2>4. QED
      BY <2>2, <2>3 DEF Agreeing
  <1>4. CASE AcknowledgeRefused /\ ~ShowRequest
    <2>1. screen'.handle = NoHandle /\ stack' = Below
      BY <1>4 DEF AcknowledgeRefused, ClearRendered, BlankScreen
    <2>2. ~crossed => stack' \in Seq(Agreeing(rec'))
      BY <1>2, <1>3, <2>1
    <2>3. QED
      BY <2>1, <2>2, ClaimsFollow
  <1>5. CASE ShowLines /\ ~ShowRequest
    <2> DEFINE f == [Top EXCEPT !.call = "interpret"]
    <2>1. stack' = Push(f, Below) /\ Top.call = "acknowledge" /\ Top.answer = "ok"
      BY <1>5 DEF ShowLines, Returning, Top
    <2>2. f \in Frames
      BY <1>1, <2>1 DEF Frames, Calls
    <2>3. f.call = "interpret" /\ f.handle = Top.handle
      BY <1>1 DEF Frames
    <2> HIDE DEF f
    <2>4. ASSUME ~crossed
          PROVE  stack' \in Seq(Agreeing(rec'))
      <3>1. f \in Agreeing(rec')
        BY <1>2, <1>3, <2>1, <2>2, <2>3, <2>4 DEF Agreeing, ClaimAgrees
      <3>2. Below \in Seq(Agreeing(rec'))
        BY <1>2, <1>3, <2>4
      <3>3. QED
        BY <2>1, <3>1, <3>2, PushIn
    <2>5. stack' \notin Seq(Others)
      <3>1. Push(f, Below) # <<>> /\ Head(Push(f, Below)) = f
        BY <1>1, <2>2, PushPop
      <3>2. f \notin Others
        BY <2>3 DEF Others, ClaimFrames
      <3>3. QED
        BY <2>1, <3>1, <3>2, TailIn
    <2>6. QED
      BY <2>4, <2>5, ClaimsFollow
  <1>6. CASE ShowRequest
    <2>1. Top.call = "interpret" /\ stack' = Below
      BY <1>6 DEF ShowRequest, Returning, Top
    <2>2. screen'.handle = Top.handle
      BY <1>0, <1>6 DEF ShowRequest, WithSigner, Screens
    <2>3. ~crossed => stack' \in Seq(Agreeing(rec'))
      BY <1>2, <1>3, <2>1
    <2>4. ~crossed => screen'.handle \in Claimed(rec')
      BY <1>2, <1>3, <2>1, <2>2 DEF ClaimAgrees
    <2>5. QED
      BY <1>6, <2>3, <2>4, ClaimsFollow
  <1>7. QED
    BY <1>4, <1>5, <1>6

(* What returns from another call: it may claim for a blank sheet, push a  *)
(* call that is no claim, or only end.                                     *)
LEMMA OtherReturnsClaims ==
    ASSUME ClaimsAlone, TypeOK, TypeOK', Remember, ~ShowRequest,
           \/ PendingFailed \/ PendingRead
           \/ SignerPicked \/ SignersArrive
           \/ ApprovalSigning \/ ApprovalSigned \/ ApprovalRefused \/ RefusalHeld
           \/ RejectionAnswered
    PROVE  ClaimsAlone'
  <1>0. stack \in Seq(Frames) /\ ManagerTypeOK /\ screen \in Screens
    BY DEF TypeOK, BackendTypeOK
  <1>1. /\ stack # <<>> /\ Top \in Frames /\ Top.call \notin {"acknowledge", "interpret"}
        /\ stack \in Seq(Agreeing(rec)) => Below \in Seq(Agreeing(rec))
        /\ Below \in Seq(Frames)
    <2>1. stack # <<>> /\ Head(stack).call \notin {"acknowledge", "interpret"}
      BY DEF Returning, PendingFailed, PendingRead, SignerPicked, SignersArrive, ApprovalSigning,
             ApprovalSigned, ApprovalRefused, RefusalHeld, RejectionAnswered
    <2>2. QED
      BY <1>0, <2>1, TailIn DEF Top, Below
  <1>2. Below \in Seq(Others) => stack \in Seq(Others)
    <2>1. Top \in Others
      BY <1>1 DEF Others, ClaimFrames
    <2>2. stack = Push(Top, Below)
      BY <1>0, <1>1 DEF Push, Top, Below
    <2>3. QED
      BY <2>1, <2>2, PushIn
  <1>a. BlankScreen.handle = NoHandle
    BY DEF BlankScreen
  <1>b. ASSUME ClaimedStay, screen'.handle \in {screen.handle, NoHandle},
               NEW C, "acknowledge" \notin C, "interpret" \notin C, Pushed(C, Below)
        PROVE  ClaimsAlone'
    BY <1>1, <1>2, <1>b, OtherStep
  <1>c. stack' = Below => Pushed({}, Below)
    BY DEF Pushed
  <1>d. rec' = rec => ClaimedStay
    BY DEF ClaimedStay
  <1>3. CASE PendingRead
    <2>1. CASE Claims(Top.list)
      <3>1. PICK next \in Top.list : StartAcknowledge(next, TRUE, holding, Below)
        BY <1>3, <2>1 DEF PendingRead
      <3>2. next \in Handles /\ holding \in BOOLEAN
        BY <1>1 DEF Frames, TypeOK, BackendTypeOK
      <3>3. QED
        BY <1>1, <3>1, <3>2, ClaimStep
    <2>2. CASE ~Claims(Top.list)
      <3>1. stack' = Below /\ UNCHANGED <<rec, screen>>
        BY <1>3, <2>2 DEF PendingRead, mvars
      <3>2. QED
        BY <1>b, <1>c, <1>d, <3>1
    <2>3. QED
      BY <2>1, <2>2
  <1>4. CASE PendingFailed \/ SignerPicked \/ SignersArrive \/ ApprovalSigning \/ RefusalHeld
    <2>1. stack' = Below /\ rec' = rec
      BY <1>4 DEF PendingFailed, SignerPicked, SignersArrive, ApprovalSigning, RefusalHeld, mvars
    <2>2. screen'.handle = screen.handle
      BY <1>0, <1>4 DEF PendingFailed, SignerPicked, SignersArrive, ApprovalSigning, RefusalHeld,
                        WithSigner, Screens
    <2>3. QED
      BY <1>b, <1>c, <1>d, <2>1, <2>2
  <1>5. CASE ApprovalSigned \/ RejectionAnswered
    <2>1. screen'.handle \in {screen.handle, NoHandle}
      BY <1>5, <1>a DEF ApprovalSigned, RejectionAnswered, ClearRendered
    <2>2. Refresh(Below) /\ rec' = rec
      BY <1>5 DEF ApprovalSigned, RejectionAnswered
    <2>3. Pushed({"pending"}, Below)
      BY <1>1, <2>2, RefreshPushed DEF Pushed
    <2>4. QED
      BY <1>b, <1>d, <2>1, <2>2, <2>3
  <1>6. CASE ApprovalRefused
    <2>1. screen' = screen
      BY <1>6 DEF ApprovalRefused
    <2>2. CASE Top.answer = "signer" /\ SignersReadable
      <3>1. AskSigners("signers after approve", screen.handle, Below) /\ screen.handle \in Handles
        BY <1>0, <1>6, <2>2 DEF ApprovalRefused, SignersReadable, Screens, OrNone
      <3>2. Pushed({"signers after approve"}, Below) /\ rec' = rec
        BY <3>1, AskSignersPushed DEF Pushed
      <3>3. QED
        BY <1>b, <1>d, <2>1, <3>2
    <2>3. CASE ~(Top.answer = "signer" /\ SignersReadable)
      <3>1. stack' = Below /\ rec' = rec
        BY <1>6, <2>3 DEF ApprovalRefused, mvars
      <3>2. QED
        BY <1>b, <1>c, <1>d, <2>1, <3>1
    <2>4. QED
      BY <2>2, <2>3
  <1>7. QED
    BY <1>3, <1>4, <1>5, <1>6

(* The histories constrain nothing that Approvals does. *)
LEMMA Forgotten == HistorySpec => Spec
  <1>1. HistoryInit => Init
    BY DEF HistoryInit
  <1>2. [Next /\ Remember]_<<vars, histories>> => [Next]_vars
    BY DEF histories
  <1>3. QED
    BY <1>1, <1>2, PTL DEF HistorySpec, Spec

LEMMA HistoryTypes == HistorySpec => []TypeOK
  BY Forgotten, TypeCorrect, PTL

(* With no claim under way, a live request on screen is one the manager    *)
(* claimed, if acknowledge() showed it with no other claim across it: it   *)
(* shows what it was answered for, and refresh(), approve() and reject()   *)
(* leave the screen or clear it.                                           *)
THEOREM ShownIsClaimed == HistorySpec => []ScreenIsClaimed
  <1>1. HistoryInit => ClaimsAlone
    <2> SUFFICES ASSUME HistoryInit PROVE ClaimsAlone
      OBVIOUS
    <2>1. stack = <<>> /\ screen.handle = NoHandle
      BY DEF HistoryInit, Init, BlankScreen
    <2>2. QED
      BY <2>1 DEF ClaimsAlone, ClaimsAgree, ShownAgrees, OneClaim, AtMostOne, Holding
  <1>2. ClaimsAlone /\ TypeOK /\ TypeOK' /\ [Next /\ Remember]_<<vars, histories>> => ClaimsAlone'
    <2> SUFFICES ASSUME ClaimsAlone, TypeOK, TypeOK', [Next /\ Remember]_<<vars, histories>>
                 PROVE  ClaimsAlone'
      OBVIOUS
    <2>1. CASE UNCHANGED <<vars, histories>>
      BY <2>1 DEF vars, mvars, bvars, bvarsButStack, histories, ClaimsAlone, ClaimsAgree, ShownAgrees,
                  OneClaim, AtMostOne, Holding, Agreeing, ClaimAgrees, Claimed, Others, ClaimFrames, Frames
    <2>2. CASE Next /\ Remember /\ ShowRequest
      BY <2>2, ClaimReturns
    <2>3. CASE Next /\ Remember /\ ~ShowRequest
      BY <2>3, StartsClaims, ClaimReturns, OtherReturnsClaims DEF Next, Return
    <2>4. QED
      BY <2>1, <2>2, <2>3
  <1>3. TypeOK /\ ClaimsAlone => ScreenIsClaimed
    <2> SUFFICES ASSUME TypeOK, ClaimsAlone, Claiming(stack) = {}, screen.handle # NoHandle, alone
                 PROVE  rec[screen.handle] \in {"rendered", "signing", "ended"}
      BY DEF ScreenIsClaimed
    <2>1. stack \in Seq(Others)
      BY ClaimingIs DEF TypeOK, BackendTypeOK
    <2>2. screen.handle \in Claimed(rec)
      BY <2>1 DEF ClaimsAlone, ShownAgrees
    <2>3. QED
      BY <2>2 DEF Claimed
  <1>4. QED
    BY <1>1, <1>2, <1>3, HistoryTypes, PTL DEF HistorySpec

-----------------------------------------------------------------------------
(* What was signed, and the queue.                                         *)

(* An approval answered as signed has its request ended at the manager,    *)
(* and a queue being read is without what the person was told of, but for  *)
(* what was signed while it was being read.                                *)
QueueAgrees(f, st, told, over) ==
    /\ f.call = "approve" /\ f.answer = "signed" => st[f.handle] = "ended"
    /\ f.call = "pending" => f.list \cap told \subseteq over

QueueFrames(st, told, over) == {f \in Frames : QueueAgrees(f, st, told, over)}

(* The inductive invariant: so it is of every call under way, and what the *)
(* person was told is signed has ended, and is in the queue only as        *)
(* overtaken.                                                              *)
QueueKept ==
    /\ stack \in Seq(QueueFrames(rec, confirmed, overtaken))
    /\ \A h \in confirmed : rec[h] = "ended"
    /\ ApprovedStaysOffTheQueue

(* What tells nobody of a signature and reads no queue, and lets what has  *)
(* ended stay ended, leaves the calls as they were.                        *)
LEMMA QueueFramesStay ==
    ASSUME ManagerTypeOK, EndedStay, NEW told, NEW over
    PROVE  QueueFrames(rec, told, over) \subseteq QueueFrames(rec', told, over)
  <1> SUFFICES ASSUME NEW f \in QueueFrames(rec, told, over)
               PROVE  f \in QueueFrames(rec', told, over)
    OBVIOUS
  <1>1. f \in Frames /\ QueueAgrees(f, rec, told, over)
    BY DEF QueueFrames
  <1>2. f.call = "approve" => f.handle \in Handles
    BY <1>1 DEF Frames, OrNone
  <1>3. QED
    BY <1>1, <1>2 DEF QueueFrames, QueueAgrees, EndedStay

LEMMA QueueStays ==
    ASSUME QueueKept, TypeOK, EndedStay, NEW told \in SUBSET Handles, confirmed' = told,
           NEW over, overtaken' = over,
           \A h \in told : rec[h] = "ended",
           told \cap pending' \subseteq over,
           NEW s \in Seq(QueueFrames(rec, told, over)),
           stack' = s \/ \E f \in QueueFrames(rec', told, over) : stack' = Push(f, s)
    PROVE  QueueKept'
  <1>1. s \in Seq(QueueFrames(rec', told, over))
    BY QueueFramesStay, SeqWiden DEF TypeOK
  <1>2. stack' \in Seq(QueueFrames(rec', told, over))
    BY <1>1, PushIn
  <1>3. \A h \in confirmed' : rec'[h] = "ended"
    BY DEF EndedStay
  <1>4. ApprovedStaysOffTheQueue'
    BY DEF ApprovedStaysOffTheQueue
  <1>5. QED
    BY <1>2, <1>3, <1>4 DEF QueueKept, QueueFrames, QueueAgrees, Frames

(* Most calls are neither an approval nor a reading of the queue. *)
LEMMA QueuePushed ==
    ASSUME NEW s, NEW C, C \cap {"approve", "pending"} = {}, Pushed(C, s)
    PROVE  stack' = s \/ \E f \in QueueFrames(rec', confirmed, overtaken) : stack' = Push(f, s)
  BY DEF Pushed, QueueFrames, QueueAgrees

(* A reading of the queue is without what the person was told of.          *)
LEMMA QueueRefreshed ==
    ASSUME TypeOK, NEW s \in Seq(Frames), Refresh(s), NEW told \in SUBSET Handles, NEW over,
           \A h \in told : rec[h] = "ended"
    PROVE  stack' = s \/ \E f \in QueueFrames(rec', told, over) : stack' = Push(f, s)
  <1>1. Pending \cap told = {}
    BY DEF Pending, Live
  <1>2. ASSUME NEW f \in Frames, f.call = "pending", f.list = Pending
        PROVE  f \in QueueFrames(rec', told, over)
    BY <1>1, <1>2 DEF QueueFrames, QueueAgrees
  <1>3. QED
    BY <1>2, RefreshPushed

(* An approval answered as signed ended its request.                       *)
LEMMA QueueApproved ==
    ASSUME TypeOK, NEW h \in Handles, NEW bundle \in OrNone(Handles), GiveApproval(h, bundle)
    PROVE  stack' = stack \/ \E f \in QueueFrames(rec', confirmed, overtaken) : stack' = Push(f, stack)
  <1>1. SUFFICES ASSUME NEW answer \in Answers, NEW got \in Answers,
                        \/ Approve(h, bundle, answer) /\ Heard(answer, got)
                        \/ Unsent(got) /\ answer = "refused",
                        stack' = Push(Frame("approve", h, got), stack)
                 PROVE  \E f \in QueueFrames(rec', confirmed, overtaken) : stack' = Push(f, stack)
    BY DEF GiveApproval
  <1>2. got = "signed" => rec'[h] = "ended"
    <2>1. got = "signed" => Approve(h, bundle, "signed")
      BY <1>1 DEF Heard, Unsent, NotSent
    <2>2. Approve(h, bundle, "signed") => rec'[h] = "ended"
      BY DEF Approve, TypeOK, ManagerTypeOK
    <2>3. QED
      BY <2>1, <2>2
  <1> DEFINE f == Frame("approve", h, got)
  <1>3. f \in Frames
    BY HandlesAssumption, FrameType DEF Calls, OrNone
  <1>4. f.call = "approve" /\ f.handle = h /\ f.answer = got
    BY DEF Frame
  <1>5. stack' = Push(f, stack)
    BY <1>1
  <1> HIDE DEF f
  <1>6. f \in QueueFrames(rec', confirmed, overtaken)
    BY <1>2, <1>3, <1>4 DEF QueueFrames, QueueAgrees
  <1>7. QED
    BY <1>5, <1>6
(* Whatever starts, or only happens. *)
LEMMA StartsQueue ==
    ASSUME QueueKept, TypeOK, UNCHANGED overtaken,
           ManagerStep \/ DeliverEvent \/ DwellTimeout \/ ConfirmExpires \/ Poll \/ RefreshSigners
             \/ View \/ UNCHANGED vars
    PROVE  QueueKept'
  <1>0. /\ stack \in Seq(QueueFrames(rec, confirmed, overtaken)) /\ stack \in Seq(Frames)
        /\ ManagerTypeOK /\ screen \in Screens /\ confirmed \in SUBSET Handles
        /\ \A h \in confirmed : rec[h] = "ended"
    BY DEF QueueKept, TypeOK, BackendTypeOK
  (* What this half of the invariant is about stays, but for a call. *)
  <1>b. ASSUME EndedStay, UNCHANGED <<confirmed, pending>>,
               stack' = stack
                 \/ \E f \in QueueFrames(rec', confirmed, overtaken) : stack' = Push(f, stack)
        PROVE  QueueKept'
    <2>1. confirmed \cap pending' \subseteq overtaken
      BY <1>b DEF QueueKept, ApprovedStaysOffTheQueue
    <2>2. QED
      BY <1>0, <1>b, <2>1, QueueStays
  <1>d. rec' = rec => EndedStay
    BY DEF EndedStay
  <1>e. UNCHANGED bvarsButStack => UNCHANGED <<confirmed, pending>>
    BY DEF bvarsButStack
  <1>1. CASE ManagerStep
    <2>1. UNCHANGED <<confirmed, pending, stack>>
      BY <1>1 DEF ManagerStep, bvars, bvarsButStack
    <2>2. rec' = rec \/ \E h \in Handles : Offer(h) \/ End(h)
      BY <1>1 DEF ManagerStep, SignerMoves
    <2>3. EndedStay
      BY <1>0, <2>2, OthersKeepClaims
    <2>4. QED
      BY <1>b, <2>1, <2>3
  <1>2. CASE DeliverEvent \/ DwellTimeout \/ ConfirmExpires \/ UNCHANGED vars
    <2>1. UNCHANGED <<rec, confirmed, pending, stack>>
      BY <1>2 DEF DeliverEvent, DwellTimeout, ConfirmExpires, vars, mvars, bvars, bvarsButStack
    <2>2. QED
      BY <1>b, <1>d, <2>1
  <1>3. CASE Poll
    <2>1. Refresh(stack) /\ UNCHANGED <<rec, confirmed, pending>>
      BY <1>3 DEF Poll
    <2>2. QED
      BY <1>0, <1>b, <1>d, <2>1, QueueRefreshed
  <1>4. CASE RefreshSigners
    <2>1. UNCHANGED <<confirmed, pending>>
      BY <1>4 DEF RefreshSigners
    <2>2. CASE SignersReadable
      <3>1. AskSigners("signers", screen.handle, stack) /\ screen.handle \in Handles
        BY <1>0, <1>4, <2>2 DEF RefreshSigners, SignersReadable, Screens, OrNone
      <3>2. Pushed({"signers"}, stack) /\ rec' = rec
        BY <3>1, AskSignersPushed DEF Pushed
      <3>3. QED
        BY <1>b, <1>d, <2>1, <3>2, QueuePushed
    <2>3. CASE ~SignersReadable
      <3>1. UNCHANGED <<rec, stack>>
        BY <1>4, <2>3 DEF RefreshSigners, mvars
      <3>2. QED
        BY <1>b, <1>d, <2>1, <3>1
    <2>4. QED
      BY <2>2, <2>3
  <1>5. ASSUME NEW h \in Handles, OpenRequest(h)
        PROVE  QueueKept'
    <2>1. StartAcknowledge(h, FALSE, FALSE, stack) /\ UNCHANGED <<confirmed, pending>>
      BY <1>5, <1>e DEF OpenRequest
    <2>2. /\ Pushed({"acknowledge"}, stack)
          /\ Acknowledge(h, "ok") \/ Acknowledge(h, "refused") \/ Untouched
      BY <2>1, StartAcknowledgePushed DEF Pushed
    <2>3. EndedStay
      BY <1>0, <1>d, <2>2, ClaimClaims DEF Untouched
    <2>4. QED
      BY <1>b, <2>1, <2>2, <2>3, QueuePushed
  <1>6. ASSUME NEW h \in Handles, GiveRejection(h)
        PROVE  QueueKept'
    <2>1. UNCHANGED <<confirmed, pending>>
      BY <1>6, <1>e DEF GiveRejection
    <2>2. Pushed({"reject"}, stack) /\ EndedStay
      BY <1>6, ViewPushed, ViewKeepsClaims
    <2>3. QED
      BY <1>b, <2>1, <2>2, QueuePushed
  <1>7. ASSUME NEW h \in Handles, NEW s \in Signers, PickSigner(h, s)
        PROVE  QueueKept'
    <2>1. UNCHANGED <<confirmed, pending>>
      BY <1>7 DEF PickSigner
    <2>2. Pushed({"choose signer"}, stack) /\ EndedStay
      BY <1>7, ViewPushed, ViewKeepsClaims
    <2>3. QED
      BY <1>b, <2>1, <2>2, QueuePushed
  <1>8. ASSUME NEW h \in Handles, NEW bundle \in OrNone(Handles), GiveApproval(h, bundle)
        PROVE  QueueKept'
    <2>1. UNCHANGED <<confirmed, pending>>
      BY <1>8 DEF GiveApproval
    <2>2. EndedStay
      BY <1>8, ViewKeepsClaims
    <2>3. QED
      BY <1>8, <1>b, <2>1, <2>2, QueueApproved
  <1>9. ASSUME Dismiss
        PROVE  QueueKept'
    <2>1. UNCHANGED <<confirmed, pending, stack>>
      BY <1>9 DEF Dismiss
    <2>2. QED
      BY <1>9, <1>b, <2>1, ViewKeepsClaims
  <1>10. QED
    BY <1>1, <1>2, <1>3, <1>4, <1>5, <1>6, <1>7, <1>8, <1>9 DEF View

(* approve() returns signed: a reading of the queue beneath it is one that *)
(* may bring the request back, and is remembered.                          *)
LEMMA SignedQueue ==
    ASSUME QueueKept, TypeOK, Remember, ApprovalSigned
    PROVE  QueueKept'
  <1>0. stack \in Seq(QueueFrames(rec, confirmed, overtaken)) /\ stack \in Seq(Frames)
    BY DEF QueueKept, TypeOK, BackendTypeOK
  <1>1. /\ stack # <<>> /\ Head(stack) = Top /\ Tail(stack) = Below
        /\ Top.call = "approve" /\ Top.answer = "signed"
        /\ confirmed' = confirmed \cup {Top.handle} /\ pending' = pending \ {Top.handle}
        /\ rec' = rec /\ Refresh(Below)
    BY DEF ApprovalSigned, Returning, Top, Below
  <1>2. /\ Top \in QueueFrames(rec, confirmed, overtaken)
        /\ Below \in Seq(QueueFrames(rec, confirmed, overtaken)) /\ Below \in Seq(Frames)
    BY <1>0, <1>1, TailIn
  <1>3. Top.handle \in Handles /\ rec[Top.handle] = "ended"
    BY <1>1, <1>2 DEF QueueFrames, QueueAgrees, Frames, OrNone
  <1> DEFINE told == confirmed \cup {Top.handle}
             over == IF ReadingQueue(Below) THEN overtaken \cup {Top.handle} ELSE overtaken
  <1>4. told \in SUBSET Handles /\ \A h \in told : rec[h] = "ended"
    BY <1>3 DEF QueueKept, TypeOK, BackendTypeOK
  <1>5. overtaken' = over
    <2>1. ~PendingRead
      BY <1>1 DEF PendingRead, Returning, Top
    <2>2. QED
      BY <2>1 DEF Remember
  <1>6. Below \in Seq(QueueFrames(rec, told, over))
    <2>1. ASSUME NEW i \in DOMAIN Below
          PROVE  Below[i] \in QueueFrames(rec, told, over)
      <3>1. Below[i] \in QueueFrames(rec, confirmed, overtaken)
        BY <1>2
      <3>2. Below[i].call = "pending" => ReadingQueue(Below)
        BY DEF ReadingQueue
      <3>3. QED
        BY <3>1, <3>2 DEF QueueFrames, QueueAgrees
    <2>2. QED
      BY <1>2, <2>1, SeqNarrow
  <1>7. stack' = Below \/ \E f \in QueueFrames(rec', told, over) : stack' = Push(f, Below)
    BY <1>1, <1>2, <1>4, QueueRefreshed
  <1>8. told \cap pending' \subseteq over
    BY <1>1 DEF QueueKept, ApprovedStaysOffTheQueue
  <1>9. EndedStay /\ confirmed' = told
    BY <1>1 DEF EndedStay
  <1> HIDE DEF told, over
  <1>10. QED
    BY <1>4, <1>5, <1>6, <1>7, <1>8, <1>9, QueueStays

(* refresh() has its reading: it is the only one under way, so what it     *)
(* does not list no other will.                                            *)
LEMMA ReadQueue ==
    ASSUME QueueKept, TypeOK, OnePollAtATime, Remember, PendingRead
    PROVE  QueueKept'
  <1>0. /\ stack \in Seq(QueueFrames(rec, confirmed, overtaken)) /\ stack \in Seq(Frames)
        /\ ManagerTypeOK /\ confirmed \in SUBSET Handles
        /\ \A h \in confirmed : rec[h] = "ended"
    BY DEF QueueKept, TypeOK, BackendTypeOK
  <1>1. /\ stack # <<>> /\ Head(stack) = Top /\ Tail(stack) = Below /\ Top.call = "pending"
        /\ confirmed' = confirmed /\ pending' = Top.list
    BY DEF PendingRead, Returning, Top, Below
  <1>2. /\ Top \in QueueFrames(rec, confirmed, overtaken) /\ Top \in Frames
        /\ Below \in Seq(QueueFrames(rec, confirmed, overtaken)) /\ Below \in Seq(Frames)
    BY <1>0, <1>1, TailIn
  <1> DEFINE over == overtaken \cap Top.list
  <1>3. overtaken' = over
    <2>1. ~ApprovalSigned
      BY <1>1 DEF ApprovalSigned, Returning, Top
    <2>2. QED
      BY <2>1 DEF Remember
  <1>4. confirmed \cap pending' \subseteq over
    BY <1>1, <1>2 DEF QueueFrames, QueueAgrees
  <1>5. ASSUME NEW i \in DOMAIN Below
        PROVE  Below[i].call # "pending"
    <2>1. /\ i \in Nat /\ i + 1 \in DOMAIN stack /\ Below[i] = stack[i + 1]
          /\ 1 \in DOMAIN stack /\ stack[1] = Top /\ i + 1 # 1
      BY <1>0, <1>1
    <2>2. QED
      BY <1>1, <2>1 DEF OnePollAtATime, Refreshes
  <1>6. Below \in Seq(QueueFrames(rec, confirmed, over))
    <2>1. \A i \in DOMAIN Below : Below[i] \in QueueFrames(rec, confirmed, over)
      <3>1. \A i \in DOMAIN Below : Below[i] \in QueueFrames(rec, confirmed, overtaken)
        BY <1>2
      <3>2. QED
        BY <1>5, <3>1 DEF QueueFrames, QueueAgrees
    <2>2. QED
      BY <1>2, <2>1, SeqNarrow
  <1>7. EndedStay /\ (stack' = Below \/ Pushed({"acknowledge"}, Below))
    <2>1. CASE Claims(Top.list)
      <3>1. PICK next \in Top.list : StartAcknowledge(next, TRUE, holding, Below)
        BY <2>1 DEF PendingRead
      <3>2. next \in Handles /\ holding \in BOOLEAN /\ TRUE \in BOOLEAN
        BY <1>2 DEF Frames, TypeOK, BackendTypeOK
      <3>3. PICK f \in Frames :
               /\ f.call = "acknowledge" /\ f.handle = next /\ f.refreshing = TRUE
               /\ stack' = Push(f, Below)
               /\ f.answer = "ok" => Acknowledge(next, "ok")
               /\ Acknowledge(next, "ok") \/ Acknowledge(next, "refused") \/ Untouched
        BY <3>1, <3>2, StartAcknowledgePushed, Zenon
      <3>4. EndedStay
        BY <1>0, <3>2, <3>3, ClaimClaims DEF Untouched, EndedStay
      <3>5. Pushed({"acknowledge"}, Below)
        BY <3>3 DEF Pushed
      <3>6. QED
        BY <3>4, <3>5
    <2>2. CASE ~Claims(Top.list)
      BY <2>2 DEF PendingRead, mvars, EndedStay
    <2>3. QED
      BY <2>1, <2>2
  <1>8. stack' = Below \/ \E f \in QueueFrames(rec', confirmed, over) : stack' = Push(f, Below)
    BY <1>7 DEF Pushed, QueueFrames, QueueAgrees
  <1> HIDE DEF over
  <1>9. QED
    BY <1>0, <1>1, <1>3, <1>4, <1>6, <1>7, <1>8, QueueStays

LEMMA ReturnsQueue ==
    ASSUME QueueKept, TypeOK, UNCHANGED overtaken, Return, ~ApprovalSigned, ~PendingRead
    PROVE  QueueKept'
  <1>0. /\ stack \in Seq(QueueFrames(rec, confirmed, overtaken)) /\ stack \in Seq(Frames)
        /\ ManagerTypeOK /\ screen \in Screens /\ confirmed \in SUBSET Handles
        /\ \A h \in confirmed : rec[h] = "ended"
    BY DEF QueueKept, TypeOK, BackendTypeOK
  <1>1. /\ stack # <<>> /\ Top \in QueueFrames(rec, confirmed, overtaken) /\ Top \in Frames
        /\ Below \in Seq(QueueFrames(rec, confirmed, overtaken)) /\ Below \in Seq(Frames)
    <2>1. stack # <<>>
      BY DEF Return, Returning, PendingFailed, PendingRead, AcknowledgeRefused, ShowLines, ShowRequest,
             SignerPicked, SignersArrive, ApprovalSigning, ApprovalSigned, ApprovalRefused, RefusalHeld,
             RejectionAnswered
    <2>2. QED
      BY <1>0, <2>1, TailIn DEF Top, Below
  <1>b. ASSUME EndedStay, UNCHANGED <<confirmed, pending>>,
               stack' = Below
                 \/ \E f \in QueueFrames(rec', confirmed, overtaken) : stack' = Push(f, Below)
        PROVE  QueueKept'
    <2>1. confirmed \cap pending' \subseteq overtaken
      BY <1>b DEF QueueKept, ApprovedStaysOffTheQueue
    <2>2. QED
      BY <1>0, <1>1, <1>b, <2>1, QueueStays
  <1>d. rec' = rec => EndedStay
    BY DEF EndedStay
  <1>3. CASE ShowLines
    <2> DEFINE f == [Top EXCEPT !.call = "interpret"]
    <2>1. /\ UNCHANGED <<confirmed, pending, rec>> /\ stack' = Push(f, Below)
          /\ Top.call = "acknowledge"
      BY <1>3 DEF ShowLines, Returning, Top, mvars
    <2>2. f \in Frames /\ f.call = "interpret"
      BY <1>1, <2>1 DEF Frames, Calls
    <2> HIDE DEF f
    <2>3. f \in QueueFrames(rec', confirmed, overtaken)
      BY <2>2 DEF QueueFrames, QueueAgrees
    <2>4. QED
      BY <1>b, <1>d, <2>1, <2>3
  <1>4. CASE PendingFailed \/ AcknowledgeRefused \/ ShowRequest \/ SignerPicked \/ SignersArrive
               \/ ApprovalSigning \/ RefusalHeld
    <2>1. UNCHANGED <<confirmed, pending, rec>> /\ stack' = Below
      BY <1>4 DEF PendingFailed, AcknowledgeRefused, ShowRequest, SignerPicked, SignersArrive,
                  ApprovalSigning, RefusalHeld, mvars
    <2>2. QED
      BY <1>b, <1>d, <2>1
  <1>5. CASE RejectionAnswered
    <2>1. UNCHANGED <<confirmed, pending, rec>> /\ Refresh(Below)
      BY <1>5 DEF RejectionAnswered
    <2>2. QED
      BY <1>0, <1>1, <1>b, <1>d, <2>1, QueueRefreshed
  <1>6. CASE ApprovalRefused
    <2>1. UNCHANGED <<confirmed, pending>>
      BY <1>6 DEF ApprovalRefused
    <2>2. CASE Top.answer = "signer" /\ SignersReadable
      <3>1. AskSigners("signers after approve", screen.handle, Below) /\ screen.handle \in Handles
        BY <1>0, <1>6, <2>2 DEF ApprovalRefused, SignersReadable, Screens, OrNone
      <3>2. Pushed({"signers after approve"}, Below) /\ rec' = rec
        BY <3>1, AskSignersPushed DEF Pushed
      <3>3. QED
        BY <1>b, <1>d, <2>1, <3>2, QueuePushed
    <2>3. CASE ~(Top.answer = "signer" /\ SignersReadable)
      <3>1. stack' = Below /\ rec' = rec
        BY <1>6, <2>3 DEF ApprovalRefused, mvars
      <3>2. QED
        BY <1>b, <1>d, <2>1, <3>1
    <2>4. QED
      BY <2>2, <2>3
  <1>7. QED
    BY <1>3, <1>4, <1>5, <1>6 DEF Return

(* What the person was told is signed is shown as waiting at most where    *)
(* refresh() was reading the queue beneath approve(), and only until the   *)
(* next reading: approve() takes it from the queue, the manager has ended  *)
(* it by then, and every reading begun since is without it.                *)
THEOREM SignedStaysOff == HistorySpec => []ApprovedStaysOffTheQueue
  <1>1. HistoryInit => QueueKept
    <2> SUFFICES ASSUME HistoryInit PROVE QueueKept
      OBVIOUS
    <2>1. stack = <<>> /\ confirmed = {}
      BY DEF HistoryInit, Init
    <2>2. QED
      BY <2>1 DEF QueueKept, ApprovedStaysOffTheQueue
  <1>2. QueueKept /\ TypeOK /\ OnePollAtATime /\ [Next /\ Remember]_<<vars, histories>> => QueueKept'
    <2> SUFFICES ASSUME QueueKept, TypeOK, OnePollAtATime, [Next /\ Remember]_<<vars, histories>>
                 PROVE  QueueKept'
      OBVIOUS
    <2>1. CASE UNCHANGED <<vars, histories>>
      BY <2>1, StartsQueue DEF histories
    <2>2. CASE Remember /\ ApprovalSigned
      BY <2>2, SignedQueue
    <2>3. CASE Remember /\ PendingRead
      BY <2>3, ReadQueue
    <2>4. CASE Next /\ Remember /\ ~ApprovalSigned /\ ~PendingRead
      <3>1. UNCHANGED overtaken
        BY <2>4 DEF Remember
      <3>2. QED
        BY <2>4, <3>1, StartsQueue, ReturnsQueue DEF Next
    <2>5. QED
      BY <2>1, <2>2, <2>3, <2>4
  <1>3. QueueKept => ApprovedStaysOffTheQueue
    BY DEF QueueKept
  <1>4. HistorySpec => []OnePollAtATime
    BY Forgotten, OnePoll, PTL
  <1>5. QED
    BY <1>1, <1>2, <1>3, <1>4, HistoryTypes, PTL DEF HistorySpec
=============================================================================
