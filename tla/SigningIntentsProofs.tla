------------------------ MODULE SigningIntentsProofs ------------------------
(***************************************************************************)
(* Proofs about SigningIntents, for every set of requests and of intents,  *)
(* every depth of nesting, number of lost calls and amount of traffic.     *)
(***************************************************************************)
EXTENDS SigningIntents, CallStackProofs

(* What is on its way to the view is true of the manager's records: types  *)
(* narrowed by what the records say, so that a sequence typed by them      *)
(* carries no lie.                                                         *)
TrueMessages ==
    {m \in Messages :
        /\ m.kind = "settled" => m.said = rec[m.handle]
        /\ m.kind = "reply" => \E i \in Intents : handleOf[i] = m.handle
        /\ m.kind = "reply" /\ m.said = "not opened" /\ losses = 0 => rec[m.handle] # "live"}

TrueFrames ==
    {f \in Frames :
        /\ f.watched => f.call = "acknowledge" /\ \E i \in Intents : handleOf[i] = f.handle
        /\ f.watched /\ f.answer # "ok" /\ losses = 0 => rec[f.handle] # "live"}

TrueSlots ==
    {c \in Slots : c.watched => c.call = "acknowledge" /\ \E i \in Intents : handleOf[i] = c.handle}

Ended == {h \in Handles : rec[h] \in SettledStates}

UnderWayIsTrue ==
    /\ calls \in Seq(TrueSlots)
    /\ wire \in Seq(TrueMessages)
    /\ stack \in Seq(TrueFrames)
    /\ inbox \in Seq(Ended)

(* The map holds an intent under the handle it named, and only while it    *)
(* waits.                                                                  *)
MapHoldsWaiting ==
    \A h \in Handles : intentByHandle[h] # NoIntent =>
        handleOf[intentByHandle[h]] = h /\ standing[intentByHandle[h]] = "waiting"

(* An intent named a request when it was asked, and what it was told of    *)
(* the request is so.                                                      *)
AnswersAreTrue ==
    \A i \in Intents :
        /\ standing[i] # "answered twice"
        /\ standing[i] = "unasked" <=> handleOf[i] = NoHandle
        /\ standing[i] = "ok" => rec[handleOf[i]] = "approved"

ViewInv == MapHoldsWaiting /\ AnswersAreTrue /\ PlaceKept /\ BadRequestIsFinal

IInv == TypeOK /\ UnderWayIsTrue /\ ViewInv

-----------------------------------------------------------------------------
(* What was true stays true: a settled record stays as it is, a request an *)
(* intent named does not come up again, an intent keeps the request it     *)
(* named.                                                                  *)
Steady ==
    /\ rec' \in [Handles -> Records]
    /\ handleOf' \in [Intents -> OrNone(Handles)]
    /\ \A h \in Handles : rec[h] \in SettledStates => rec'[h] = rec[h]
    /\ \A i \in Intents : handleOf[i] \in Handles /\ rec[handleOf[i]] # "live" => rec'[handleOf[i]] # "live"
    /\ losses' = 0 => losses = 0
    /\ \A i \in Intents : handleOf[i] \in Handles => handleOf'[i] = handleOf[i]

(* A message received is one of the three kinds, each with its fields. *)
LEMMA MessageKinds ==
    ASSUME NEW m \in Messages
    PROVE  /\ m.kind = "rendered" => m.handle \in OrNone(Handles)
           /\ m.kind = "settled" => m.handle \in Handles /\ m.said \in SettledStates
           /\ m.kind = "reply" => m.handle \in Handles /\ m.said \in {"opened", "not opened"}
  BY DEF Messages

LEMMA SteadyTruth ==
    ASSUME TypeOK, Steady
    PROVE  /\ TrueMessages \subseteq TrueMessages'
           /\ TrueFrames \subseteq TrueFrames'
           /\ TrueSlots \subseteq TrueSlots'
           /\ Ended \subseteq Ended'
  <1>1. ASSUME NEW h \in Handles, NEW i \in Intents, handleOf[i] = h
        PROVE  /\ handleOf'[i] = h
               /\ losses' = 0 /\ (losses = 0 => rec[h] # "live") => rec'[h] # "live"
    BY <1>1 DEF Steady
  <1>2. ASSUME NEW m \in TrueMessages
        PROVE  m \in TrueMessages'
    <2>1. m \in Messages
      BY DEF TrueMessages
    <2>2. m.kind = "settled" => m.said = rec'[m.handle]
      BY <2>1, MessageKinds DEF TrueMessages, Steady
    <2>3. ASSUME m.kind = "reply"
          PROVE  /\ \E i \in Intents : handleOf'[i] = m.handle
                 /\ m.said = "not opened" /\ losses' = 0 => rec'[m.handle] # "live"
      <3>1. m.handle \in Handles
        BY <2>1, <2>3, MessageKinds
      <3>2. PICK i \in Intents : handleOf[i] = m.handle
        BY <2>3 DEF TrueMessages
      <3>3. m.said = "not opened" /\ losses = 0 => rec[m.handle] # "live"
        BY <2>3 DEF TrueMessages
      <3>4. QED
        BY <3>1, <3>2, <3>3, <1>1
    <2>4. QED
      BY <2>1, <2>2, <2>3 DEF TrueMessages
  <1>3. ASSUME NEW f \in TrueFrames
        PROVE  f \in TrueFrames'
    <2>1. f \in Frames /\ f.handle \in Handles
      BY DEF TrueFrames, Frames
    <2>2. ASSUME f.watched
          PROVE  /\ \E i \in Intents : handleOf'[i] = f.handle
                 /\ f.answer # "ok" /\ losses' = 0 => rec'[f.handle] # "live"
      <3>1. PICK i \in Intents : handleOf[i] = f.handle
        BY <2>2 DEF TrueFrames
      <3>2. f.answer # "ok" /\ losses = 0 => rec[f.handle] # "live"
        BY <2>2 DEF TrueFrames
      <3>3. QED
        BY <2>1, <3>1, <3>2, <1>1
    <2>3. QED
      BY <2>1, <2>2 DEF TrueFrames
  <1>4. ASSUME NEW c \in TrueSlots
        PROVE  c \in TrueSlots'
    <2>1. c \in Slots
      BY DEF TrueSlots
    <2>2. ASSUME c.watched
          PROVE  \E i \in Intents : handleOf'[i] = c.handle
      <3>1. c.handle \in Handles
        BY <2>1, <2>2 DEF Slots
      <3>2. PICK i \in Intents : handleOf[i] = c.handle
        BY <2>2 DEF TrueSlots
      <3>3. QED
        BY <3>1, <3>2, <1>1
    <2>3. QED
      BY <2>1, <2>2 DEF TrueSlots
  <1>5. Ended \subseteq Ended'
    BY DEF Ended, Steady
  <1>6. QED
    BY <1>2, <1>3, <1>4, <1>5

LEMMA UnderWayStays ==
    ASSUME TypeOK, UnderWayIsTrue, Steady
    PROVE  /\ calls \in Seq(TrueSlots')
           /\ wire \in Seq(TrueMessages')
           /\ stack \in Seq(TrueFrames')
           /\ inbox \in Seq(Ended')
  BY SteadyTruth, SeqWiden DEF UnderWayIsTrue

LEMMA SteadyIfUnchanged ==
    ASSUME TypeOK, UNCHANGED <<rec, losses, handleOf>>
    PROVE  Steady
  BY DEF TypeOK, Steady

(* Types follow from what is narrower. *)
LEMMA TypesFollow ==
    ASSUME UnderWayIsTrue',
           (/\ intentByHandle \in [Handles -> Intents \cup {NoIntent}]
            /\ seen \in OrNone(Handles)
            /\ handleOf \in [Intents -> OrNone(Handles)]
            /\ standing \in [Intents -> Standings]
            /\ screen \in OrNone(Handles)
            /\ losses \in 0 .. MaxLosses
            /\ rec \in [Handles -> Records])'
    PROVE  TypeOK'
  <1>1. /\ TrueSlots' \subseteq Slots /\ TrueMessages' \subseteq Messages
        /\ TrueFrames' \subseteq Frames /\ Ended' \subseteq Handles
    BY DEF TrueSlots, TrueMessages, TrueFrames, Ended
  <1>2. calls' \in Seq(Slots) /\ wire' \in Seq(Messages) /\ stack' \in Seq(Frames) /\ inbox' \in Seq(Handles)
    BY <1>1, SeqWiden DEF UnderWayIsTrue
  <1>3. QED
    BY <1>2 DEF TypeOK

-----------------------------------------------------------------------------
(* What the view's handlers do to the map and to the answers. *)

LEMMA ViewUnchanged ==
    ASSUME TypeOK, ViewInv, Steady, UNCHANGED <<intentByHandle, standing, handleOf>>
    PROVE  ViewInv'
  <1>1. MapHoldsWaiting'
    BY DEF ViewInv, MapHoldsWaiting
  <1>2. AnswersAreTrue'
    <2>1. ASSUME NEW i \in Intents
          PROVE  /\ standing[i] # "answered twice"
                 /\ standing[i] = "unasked" <=> handleOf[i] = NoHandle
                 /\ standing[i] = "ok" => rec'[handleOf[i]] = "approved"
      <3>1. /\ standing[i] # "answered twice"
            /\ standing[i] = "unasked" <=> handleOf[i] = NoHandle
            /\ standing[i] = "ok" => rec[handleOf[i]] = "approved"
        BY DEF ViewInv, AnswersAreTrue
      <3>2. handleOf[i] = NoHandle \/ handleOf[i] \in Handles
        BY DEF TypeOK, OrNone
      <3>3. standing[i] = "ok" => handleOf[i] \in Handles
        BY <3>1, <3>2
      <3>4. standing[i] = "ok" => rec'[handleOf[i]] = "approved"
        BY <3>1, <3>3 DEF Steady, SettledStates
      <3>5. QED
        BY <3>1, <3>4
    <2>2. QED
      BY <2>1 DEF AnswersAreTrue
  <1>3. PlaceKept'
    BY DEF ViewInv, PlaceKept, Waiting
  <1>4. BadRequestIsFinal'
    <2>1. ASSUME NEW i \in Intents, standing[i] = "bad_request"
          PROVE  handleOf[i] \in Handles
      <3>1. standing[i] = "unasked" <=> handleOf[i] = NoHandle
        BY DEF ViewInv, AnswersAreTrue
      <3>2. handleOf[i] = NoHandle \/ handleOf[i] \in Handles
        BY DEF TypeOK, OrNone
      <3>3. QED
        BY <2>1, <3>1, <3>2
    <2>2. QED
      BY <2>1 DEF ViewInv, BadRequestIsFinal, Steady
  <1>5. QED
    BY <1>1, <1>2, <1>3, <1>4 DEF ViewInv

(* The intent of a request is answered, with what is true of it. *)
LEMMA AnswerIntentKeeps ==
    ASSUME TypeOK, ViewInv, UNCHANGED <<rec, losses, handleOf>>,
           NEW h \in Handles, NEW said \in Outcomes, AnswerIntent(h, said),
           said = "ok" => rec[h] = "approved",
           said = "bad_request" /\ losses = 0 => rec[h] # "live"
    PROVE  /\ ViewInv'
           /\ intentByHandle' \in [Handles -> Intents \cup {NoIntent}]
           /\ standing' \in [Intents -> Standings]
  <1> DEFINE i == intentByHandle[h]
  <1>1. intentByHandle' = [intentByHandle EXCEPT ![h] = NoIntent]
    BY DEF AnswerIntent
  <1>2. i \in Intents \cup {NoIntent}
    BY DEF TypeOK
  <1>3. CASE i = NoIntent
    <2>1. UNCHANGED standing
      BY <1>3 DEF AnswerIntent, Responding
    <2>2. intentByHandle' = intentByHandle
      BY <1>1, <1>3 DEF TypeOK
    <2>3. QED
      BY <2>1, <2>2, ViewUnchanged, SteadyIfUnchanged DEF TypeOK
  <1>4. CASE i # NoIntent
    <2>1. i \in Intents /\ handleOf[i] = h /\ standing[i] = "waiting"
      BY <1>2, <1>4 DEF ViewInv, MapHoldsWaiting
    <2>2. standing' = [standing EXCEPT ![i] = said]
      BY <1>4, <2>1 DEF AnswerIntent, Responding, TypeOK
    <2>3. /\ standing' \in [Intents -> Standings]
          /\ standing'[i] = said
          /\ \A j \in Intents \ {i} : standing'[j] = standing[j]
      BY <2>1, <2>2 DEF TypeOK, Standings
    <2>4. /\ intentByHandle' \in [Handles -> Intents \cup {NoIntent}]
          /\ intentByHandle'[h] = NoIntent
          /\ \A x \in Handles \ {h} : intentByHandle'[x] = intentByHandle[x]
      BY <1>1 DEF TypeOK
    <2>5. said # "waiting" /\ said # "unasked" /\ said # "answered twice"
      BY DEF Outcomes
    <2> HIDE DEF i
    <2>6. MapHoldsWaiting'
      <3>1. ASSUME NEW x \in Handles, intentByHandle'[x] # NoIntent
            PROVE  handleOf'[intentByHandle'[x]] = x /\ standing'[intentByHandle'[x]] = "waiting"
        <4>1. x # h /\ intentByHandle'[x] = intentByHandle[x]
          BY <2>4, <3>1
        <4>2. handleOf[intentByHandle[x]] = x /\ standing[intentByHandle[x]] = "waiting"
          BY <3>1, <4>1 DEF ViewInv, MapHoldsWaiting
        <4>3. intentByHandle[x] \in Intents \ {i}
          BY <3>1, <4>1, <4>2, <2>1 DEF TypeOK
        <4>4. QED
          BY <4>1, <4>2, <4>3, <2>3
      <3>2. QED
        BY <3>1 DEF MapHoldsWaiting
    <2>7. AnswersAreTrue'
      BY <2>1, <2>3, <2>5 DEF ViewInv, AnswersAreTrue, TypeOK
    <2>8. PlaceKept'
      <3>1. ASSUME NEW j \in Intents, standing'[j] = "waiting",
                   ~ \E k \in Intents \ {j} : handleOf[k] = handleOf[j]
            PROVE  intentByHandle'[handleOf[j]] = j
        <4>1. j # i /\ standing[j] = "waiting"
          BY <3>1, <2>3, <2>5
        <4>2. intentByHandle[handleOf[j]] = j
          BY <3>1, <4>1 DEF ViewInv, PlaceKept, Waiting
        <4>3. handleOf[j] # h
          BY <3>1, <4>1, <2>1
        <4>4. handleOf[j] \in Handles
          BY <4>1 DEF ViewInv, AnswersAreTrue, TypeOK, OrNone
        <4>5. QED
          BY <4>2, <4>3, <4>4, <2>4
      <3>2. QED
        BY <3>1 DEF PlaceKept, Waiting
    <2>9. BadRequestIsFinal'
      BY <2>1, <2>3 DEF ViewInv, BadRequestIsFinal
    <2>10. QED
      BY <2>3, <2>4, <2>6, <2>7, <2>8, <2>9 DEF ViewInv
  <1>5. QED
    BY <1>3, <1>4

(* An intent is asked: it takes its request's place, and the one that      *)
(* waits for what is on screen, if another, is answered.                   *)
LEMMA AskKeeps ==
    ASSUME TypeOK, ViewInv, UNCHANGED <<rec, losses>>,
           NEW i \in Intents, NEW h \in Handles,
           standing[i] = "unasked", handleOf' = [handleOf EXCEPT ![i] = h], Displace(i, h)
    PROVE  /\ ViewInv'
           /\ intentByHandle' \in [Handles -> Intents \cup {NoIntent}]
           /\ standing' \in [Intents -> Standings]
  <1>0. /\ handleOf[i] = NoHandle
        /\ handleOf'[i] = h
        /\ \A j \in Intents \ {i} : handleOf'[j] = handleOf[j]
        /\ h # NoHandle
    BY HandlesAssumption DEF ViewInv, AnswersAreTrue, TypeOK
  <1>1. /\ intentByHandle' \in [Handles -> Intents \cup {NoIntent}]
        /\ intentByHandle'[h] = i
        /\ \A x \in Handles \ {h} : x = seen => intentByHandle'[x] = NoIntent
        /\ \A x \in Handles \ {h} : x # seen => intentByHandle'[x] = intentByHandle[x]
    BY DEF Displace, TypeOK
  <1> DEFINE displaced == {j \in Intents : seen \in Handles \ {h} /\ intentByHandle[seen] = j}
  <1>2. \A j \in displaced : standing[j] = "waiting" /\ handleOf[j] = seen /\ j # i
    <2>1. ASSUME NEW j \in displaced
          PROVE  standing[j] = "waiting" /\ handleOf[j] = seen /\ j # i
      <3>1. j \in Intents /\ j # NoIntent /\ seen \in Handles /\ intentByHandle[seen] = j
        BY IntentsAssumption
      <3>2. standing[j] = "waiting" /\ handleOf[j] = seen
        BY <3>1 DEF ViewInv, MapHoldsWaiting
      <3>3. QED
        BY <3>2
    <2>2. QED
      BY <2>1
  <1>3. /\ standing' \in [Intents -> Standings]
        /\ standing'[i] = "waiting"
        /\ \A j \in displaced : standing'[j] = "cancelled"
        /\ \A j \in Intents \ {i} : j \notin displaced => standing'[j] = standing[j]
    <2>1. CASE seen \in Handles \ {h} /\ intentByHandle[seen] # NoIntent
      <3> DEFINE k == intentByHandle[seen]
      <3>1. k \in Intents
        BY <2>1 DEF TypeOK
      <3>2. displaced = {k}
        BY <2>1, <3>1
      <3>3. standing[k] = "waiting" /\ k # i
        BY <3>2, <1>2
      <3>4. standing' = [[standing EXCEPT ![k] = "cancelled"] EXCEPT ![i] = "waiting"]
        BY <2>1, <3>1, <3>3 DEF Displace, Responding, TypeOK
      <3> HIDE DEF k, displaced
      <3>5. QED
        BY <3>1, <3>2, <3>3, <3>4 DEF TypeOK, Standings, Outcomes
    <2>2. CASE ~(seen \in Handles \ {h} /\ intentByHandle[seen] # NoIntent)
      <3>1. displaced = {}
        BY <2>2, IntentsAssumption
      <3>2. standing' = [standing EXCEPT ![i] = "waiting"]
        BY <2>2 DEF Displace, Responding
      <3> HIDE DEF displaced
      <3>3. QED
        BY <3>1, <3>2 DEF TypeOK, Standings
    <2>3. QED
      BY <2>1, <2>2
  <1>4. MapHoldsWaiting'
    <2>1. ASSUME NEW x \in Handles, intentByHandle'[x] # NoIntent
          PROVE  handleOf'[intentByHandle'[x]] = x /\ standing'[intentByHandle'[x]] = "waiting"
      <3>1. CASE x = h
        BY <3>1, <1>0, <1>1, <1>3
      <3>2. CASE x # h
        <4>1. x # seen /\ intentByHandle'[x] = intentByHandle[x]
          BY <2>1, <3>2, <1>1
        <4> DEFINE j == intentByHandle[x]
        <4>2. j \in Intents /\ handleOf[j] = x /\ standing[j] = "waiting"
          BY <2>1, <4>1 DEF TypeOK, ViewInv, MapHoldsWaiting
        <4>3. j # i /\ j \notin displaced
          BY <4>1, <4>2, <1>2
        <4>4. handleOf'[j] = x /\ standing'[j] = "waiting"
          BY <4>2, <4>3, <1>0, <1>3
        <4>5. QED
          BY <4>1, <4>4
      <3>3. QED
        BY <3>1, <3>2
    <2>2. QED
      BY <2>1 DEF MapHoldsWaiting
  <1>5. AnswersAreTrue'
    <2>1. ASSUME NEW j \in Intents
          PROVE  /\ standing'[j] # "answered twice"
                 /\ standing'[j] = "unasked" <=> handleOf'[j] = NoHandle
                 /\ standing'[j] = "ok" => rec'[handleOf'[j]] = "approved"
      <3>1. CASE j = i
        BY <3>1, <1>0, <1>3
      <3>2. CASE j \in displaced
        <4>1. handleOf'[j] = seen /\ seen # NoHandle /\ standing'[j] = "cancelled"
          BY <3>2, <1>0, <1>2, <1>3, HandlesAssumption
        <4>2. QED
          BY <4>1
      <3>3. CASE j # i /\ j \notin displaced
        <4>1. standing'[j] = standing[j] /\ handleOf'[j] = handleOf[j] /\ rec' = rec
          BY <3>3, <1>0, <1>3
        <4>2. /\ standing[j] # "answered twice"
              /\ standing[j] = "unasked" <=> handleOf[j] = NoHandle
              /\ standing[j] = "ok" => rec[handleOf[j]] = "approved"
          BY DEF ViewInv, AnswersAreTrue
        <4>3. QED
          BY <4>1, <4>2
      <3>4. QED
        BY <3>1, <3>2, <3>3
    <2>2. QED
      BY <2>1 DEF AnswersAreTrue
  <1>6. PlaceKept'
    <2>1. ASSUME NEW j \in Intents, standing'[j] = "waiting",
                 ~ \E k \in Intents \ {j} : handleOf'[k] = handleOf'[j]
          PROVE  intentByHandle'[handleOf'[j]] = j
      <3>1. CASE j = i
        BY <3>1, <1>0, <1>1
      <3>2. CASE j # i
        <4>1. j \notin displaced /\ standing[j] = "waiting" /\ handleOf'[j] = handleOf[j]
          BY <3>2, <2>1, <1>0, <1>3
        <4>2. handleOf[j] \in Handles \ {h}
          BY <3>2, <2>1, <4>1, <1>0 DEF ViewInv, AnswersAreTrue, TypeOK, OrNone
        <4>3. ~ \E k \in Intents \ {j} : handleOf[k] = handleOf[j]
          BY <2>1, <4>1, <4>2, <1>0, HandlesAssumption
        <4>4. intentByHandle[handleOf[j]] = j
          BY <4>1, <4>3 DEF ViewInv, PlaceKept, Waiting
        <4>5. handleOf[j] # seen
          BY <4>1, <4>2, <4>4
        <4>6. QED
          BY <4>1, <4>2, <4>4, <4>5, <1>1
      <3>3. QED
        BY <3>1, <3>2
    <2>2. QED
      BY <2>1 DEF PlaceKept, Waiting
  <1>7. BadRequestIsFinal'
    <2>1. ASSUME NEW j \in Intents, standing'[j] = "bad_request", losses' = 0
          PROVE  rec'[handleOf'[j]] # "live"
      <3>1. j # i /\ j \notin displaced
        BY <2>1, <1>3
      <3>2. standing[j] = "bad_request" /\ handleOf'[j] = handleOf[j]
        BY <2>1, <3>1, <1>0, <1>3
      <3>3. QED
        BY <2>1, <3>2 DEF ViewInv, BadRequestIsFinal
    <2>2. QED
      BY <2>1 DEF BadRequestIsFinal
  <1>8. QED
    BY <1>1, <1>3, <1>4, <1>5, <1>6, <1>7 DEF ViewInv

-----------------------------------------------------------------------------
(* What the backend's pieces do to what is under way. *)

LEMMA NoNews ==
    ASSUME NEW S
    PROVE  <<>> \in Seq(S) /\ \A x \in S : <<x>> \in Seq(S)
  OBVIOUS

LEMMA PublishTrue ==
    ASSUME wire \in Seq(TrueMessages'), NEW h \in OrNone(Handles),
           NEW more \in Seq(TrueMessages'), Publish(h, more)
    PROVE  screen' \in OrNone(Handles) /\ wire' \in Seq(TrueMessages')
  <1> DEFINE news == IF h = screen THEN <<>> ELSE <<Message("rendered", h, "")>>
  <1>1. Message("rendered", h, "") \in TrueMessages'
    BY DEF Message, TrueMessages, Messages
  <1>2. news \in Seq(TrueMessages')
    BY <1>1, NoNews
  <1>3. wire' = wire \o news \o more /\ screen' = h
    BY DEF Publish
  <1> HIDE DEF news
  <1>4. QED
    BY <1>2, <1>3

(* A record settles: its event is under way, and nothing else said of any  *)
(* record is untrue of it.                                                 *)
LEMMA SettleAsTrue ==
    ASSUME TypeOK, UnderWayIsTrue, NEW h \in Handles, NEW state \in SettledStates,
           rec[h] = "live", SettleAs(h, state), UNCHANGED handleOf,
           losses' \in 0 .. MaxLosses, losses' = 0 => losses = 0
    PROVE  Steady /\ inbox' \in Seq(Ended')
  <1>1. rec' = [rec EXCEPT ![h] = state] /\ rec' \in [Handles -> Records]
    BY DEF SettleAs, TypeOK, Records
  <1>2. Steady
    BY <1>1 DEF Steady, TypeOK, SettledStates
  <1>3. h \in Ended' /\ inbox \in Seq(Ended')
    BY <1>1, <1>2, UnderWayStays DEF Ended, TypeOK
  <1>4. QED
    BY <1>2, <1>3, PushIn DEF SettleAs

LEMMA LossTypes ==
    ASSUME TypeOK, NEW answer, NEW got, Heard(answer, got) \/ NotSent(got)
    PROVE  losses' \in 0 .. MaxLosses /\ (losses' = 0 => losses = 0) /\ (got # answer => losses' # 0)
  BY LossesAssumption DEF TypeOK, Heard, NotSent

(* A slot that calls the manager: an acknowledge() heard to have failed    *)
(* failed because the request is not live.                                 *)
LEMMA StartSlotTrue ==
    ASSUME TypeOK, UnderWayIsTrue, NEW slot \in TrueSlots, slot.call # "dismiss",
           StartSlot(slot), UNCHANGED handleOf
    PROVE  /\ Steady
           /\ losses' \in 0 .. MaxLosses
           /\ inbox' \in Seq(Ended')
           /\ stack' \in Seq(TrueFrames')
  <1>1. PICK answer \in Answers, got \in Answers :
          /\ \/ Managed(slot.call, slot.handle, answer) /\ Heard(answer, got)
             \/ NotSent(got) /\ answer = "lost" /\ UNCHANGED mgrVars
          /\ Block(slot, got)
    BY DEF StartSlot
  <1>2. /\ slot.call \in {"acknowledge", "approve", "reject"}
        /\ slot.handle \in Handles /\ slot.watched \in BOOLEAN
        /\ slot.watched => slot.call = "acknowledge" /\ \E i \in Intents : handleOf[i] = slot.handle
    BY DEF TrueSlots, Slots
  <1>3. losses' \in 0 .. MaxLosses /\ (losses' = 0 => losses = 0)
    BY <1>1, LossTypes
  <1>4. Steady /\ inbox' \in Seq(Ended')
    <2>1. CASE UNCHANGED mgrVars
      <3>1. Steady
        BY <2>1, <1>3 DEF Steady, mgrVars, TypeOK
      <3>2. QED
        BY <2>1, <3>1, UnderWayStays DEF mgrVars
    <2>2. CASE \E state \in SettledStates : rec[slot.handle] = "live" /\ SettleAs(slot.handle, state)
      BY <2>2, <1>2, <1>3, SettleAsTrue
    <2>3. QED
      BY <1>1, <2>1, <2>2 DEF Managed, SettledStates
  <1>5. slot.call = "acknowledge" /\ got # "ok" /\ losses' = 0 => rec'[slot.handle] # "live"
    <2>1. ASSUME slot.call = "acknowledge", got # "ok", losses' = 0
          PROVE  rec'[slot.handle] # "live"
      <3>1. ~NotSent(got)
        BY <2>1 DEF NotSent, TypeOK
      <3>2. got = answer /\ Managed(slot.call, slot.handle, answer)
        BY <1>1, <2>1, <3>1, LossTypes
      <3>3. UNCHANGED rec /\ answer = IF rec[slot.handle] = "live" THEN "ok" ELSE "not done"
        BY <2>1, <3>2 DEF Managed, mgrVars
      <3>4. QED
        BY <2>1, <3>2, <3>3
    <2>2. QED
      BY <2>1
  <1>6. stack' \in Seq(TrueFrames')
    <2> DEFINE f == [call |-> slot.call, handle |-> slot.handle, watched |-> slot.watched, answer |-> got]
    <2>1. f \in Frames
      BY <1>2 DEF Frames
    <2>2. f \in TrueFrames'
      BY <2>1, <1>2, <1>5 DEF TrueFrames
    <2>3. stack \in Seq(TrueFrames') /\ stack' = Push(f, stack)
      BY <1>1, <1>4, UnderWayStays DEF Block
    <2> HIDE DEF f
    <2>4. QED
      BY <2>2, <2>3, PushIn
  <1>7. QED
    BY <1>3, <1>4, <1>6

-----------------------------------------------------------------------------
(* Each action keeps the invariant, and what was true. *)

(* The view's calls to the backend. *)
LEMMA CallKeeps ==
    ASSUME IInv, UNCHANGED <<rec, losses, seen, wire, screen, stack, inbox>>,
           NEW slot \in Slots, Call(slot), Steady,
           slot.watched => slot.call = "acknowledge" /\ \E i \in Intents : handleOf'[i] = slot.handle,
           ViewInv', intentByHandle' \in [Handles -> Intents \cup {NoIntent}], standing' \in [Intents -> Standings]
    PROVE  IInv'
  <1>1. slot \in TrueSlots'
    BY DEF TrueSlots
  <1>2. calls' \in Seq(TrueSlots')
    BY <1>1, UnderWayStays, PushIn DEF IInv, Call
  <1>3. UnderWayIsTrue'
    BY <1>2, UnderWayStays DEF IInv, UnderWayIsTrue
  <1>4. TypeOK'
    BY <1>3, TypesFollow DEF IInv, TypeOK, Steady
  <1>5. QED
    BY <1>3, <1>4 DEF IInv

LEMMA AskApprovalKeeps ==
    ASSUME IInv, NEW i \in Intents, NEW h \in Handles, AskApproval(i, h)
    PROVE  IInv' /\ Steady
  <1> USE DEF AskApproval, backVars, mgrVars
  <1>1. /\ ViewInv'
        /\ intentByHandle' \in [Handles -> Intents \cup {NoIntent}]
        /\ standing' \in [Intents -> Standings]
    BY AskKeeps DEF IInv
  <1>2. handleOf[i] = NoHandle /\ handleOf' = [handleOf EXCEPT ![i] = h]
    BY DEF IInv, ViewInv, AnswersAreTrue
  <1>3. Steady
    BY <1>2, HandlesAssumption DEF IInv, TypeOK, Steady, OrNone
  <1>4. Slot("acknowledge", h, TRUE) \in Slots /\ handleOf'[i] = h
    BY <1>2 DEF Slot, Slots, IInv, TypeOK
  <1>5. QED
    BY <1>1, <1>3, <1>4, CallKeeps DEF Slot

LEMMA PersonKeeps ==
    ASSUME IInv, Person
    PROVE  IInv' /\ Steady
  <1> USE DEF viewVars, backVars, mgrVars
  <1>1. ASSUME NEW h \in Handles, ClickOpen(h)
        PROVE  IInv' /\ Steady
    <2>1. Steady /\ ViewInv'
      BY <1>1, SteadyIfUnchanged, ViewUnchanged DEF ClickOpen, IInv
    <2>2. Slot("acknowledge", h, FALSE) \in Slots /\ Slot("acknowledge", h, FALSE).watched = FALSE
      BY DEF Slot, Slots
    <2>3. QED
      BY <1>1, <2>1, <2>2, CallKeeps DEF ClickOpen, IInv, TypeOK
  <1>2. ASSUME NEW call \in {"approve", "reject"}, ClickDecide(call)
        PROVE  IInv' /\ Steady
    <2>1. Steady /\ ViewInv'
      BY <1>2, SteadyIfUnchanged, ViewUnchanged DEF ClickDecide, IInv
    <2>2. Slot(call, seen, FALSE) \in Slots /\ Slot(call, seen, FALSE).watched = FALSE
      BY <1>2 DEF Slot, Slots, ClickDecide, IInv, TypeOK, OrNone
    <2>3. QED
      BY <1>2, <2>1, <2>2, CallKeeps DEF ClickDecide, IInv, TypeOK
  <1>3. CASE ClickBack
    <2>1. seen \in Handles
      BY <1>3 DEF ClickBack, IInv, TypeOK, OrNone
    <2>2. Steady
      BY <1>3, SteadyIfUnchanged DEF ClickBack, IInv
    <2>3. /\ ViewInv'
          /\ intentByHandle' \in [Handles -> Intents \cup {NoIntent}]
          /\ standing' \in [Intents -> Standings]
      BY <1>3, <2>1, AnswerIntentKeeps DEF ClickBack, IInv, Outcomes
    <2>4. Slot("dismiss", NoHandle, FALSE) \in Slots /\ Slot("dismiss", NoHandle, FALSE).watched = FALSE
      BY DEF Slot, Slots
    <2>5. QED
      BY <1>3, <2>2, <2>3, <2>4, CallKeeps DEF ClickBack
  <1>4. QED
    BY <1>1, <1>2, <1>3 DEF Person

(* The view receives: what it is told is true of the records. *)
LEMMA SeeKeeps ==
    ASSUME IInv, See
    PROVE  IInv' /\ Steady
  <1> DEFINE m == Head(wire)
  <1>1. /\ wire # <<>> /\ wire' = Tail(wire)
        /\ UNCHANGED <<handleOf, calls, screen, stack, losses, rec, inbox>>
    BY DEF See, SeeScreen, SeeSettled, SeeReply, Receive, backVars, mgrVars
  <1>2. Steady
    BY <1>1, SteadyIfUnchanged DEF IInv
  <1>3. m \in TrueMessages /\ m \in Messages /\ wire' \in Seq(TrueMessages')
    BY <1>1, <1>2, TailIn, UnderWayStays DEF IInv, UnderWayIsTrue, TrueMessages
  <1>4. UnderWayIsTrue'
    BY <1>1, <1>2, <1>3, UnderWayStays DEF IInv, UnderWayIsTrue
  <1>5. /\ ViewInv' /\ seen' \in OrNone(Handles)
        /\ intentByHandle' \in [Handles -> Intents \cup {NoIntent}]
        /\ standing' \in [Intents -> Standings]
    <2> HIDE DEF m
    <2>0. seen \in OrNone(Handles)
      BY DEF IInv, TypeOK
    <2>1. CASE SeeScreen
      <3>1. m.kind = "rendered" /\ seen' = m.handle /\ UNCHANGED <<intentByHandle, standing>>
        BY <2>1 DEF SeeScreen, Receive, m
      <3>2. QED
        BY <1>1, <1>2, <1>3, <3>1, MessageKinds, ViewUnchanged DEF IInv, TypeOK
    <2>2. CASE SeeSettled
      <3>1. m.kind = "settled" /\ AnswerIntent(m.handle, OutcomeOf(m.said)) /\ UNCHANGED seen
        BY <2>2 DEF SeeSettled, Receive, m
      <3>2. m.handle \in Handles /\ m.said = rec[m.handle]
        BY <1>3, <3>1, MessageKinds DEF TrueMessages
      <3>3. /\ OutcomeOf(m.said) \in Outcomes
            /\ OutcomeOf(m.said) = "ok" => rec[m.handle] = "approved"
            /\ OutcomeOf(m.said) # "bad_request"
        BY <3>2 DEF OutcomeOf, Outcomes
      <3>4. QED
        BY <1>1, <2>0, <3>1, <3>2, <3>3, AnswerIntentKeeps DEF IInv
    <2>3. CASE SeeReply
      <3>1. m.kind = "reply" /\ UNCHANGED seen
        BY <2>3 DEF SeeReply, Receive, m
      <3>2. CASE m.said = "not opened"
        <4>1. AnswerIntent(m.handle, "bad_request")
          BY <2>3, <3>2 DEF SeeReply, m
        <4>2. m.handle \in Handles /\ (losses = 0 => rec[m.handle] # "live")
          BY <1>3, <3>1, <3>2, MessageKinds DEF TrueMessages
        <4>3. QED
          BY <1>1, <2>0, <3>1, <4>1, <4>2, AnswerIntentKeeps DEF IInv, Outcomes
      <3>3. CASE m.said # "not opened"
        <4>1. UNCHANGED <<intentByHandle, standing>>
          BY <2>3, <3>3 DEF SeeReply, m
        <4>2. QED
          BY <1>1, <1>2, <2>0, <3>1, <4>1, ViewUnchanged DEF IInv, TypeOK
      <3>4. QED
        BY <3>2, <3>3
    <2>4. QED
      BY <2>1, <2>2, <2>3 DEF See
  <1>6. TypeOK'
    BY <1>1, <1>4, <1>5, TypesFollow DEF IInv, TypeOK
  <1>7. QED
    BY <1>2, <1>4, <1>5, <1>6 DEF IInv

(* What leaves the view as it is. *)
LEMMA BehindTheView ==
    ASSUME IInv, Steady, UNCHANGED viewVars, UnderWayIsTrue',
           screen' \in OrNone(Handles), losses' \in 0 .. MaxLosses
    PROVE  IInv'
  <1>1. ViewInv'
    BY ViewUnchanged DEF viewVars, IInv
  <1>2. TypeOK'
    BY TypesFollow DEF viewVars, IInv, TypeOK, Steady
  <1>3. QED
    BY <1>1, <1>2 DEF IInv

LEMMA RunSlotKeeps ==
    ASSUME IInv, RunSlot
    PROVE  IInv' /\ Steady
  <1> DEFINE slot == Head(calls)
  <1>1. /\ calls # <<>> /\ calls' = Tail(calls)
        /\ UNCHANGED viewVars /\ UNCHANGED handleOf
    BY DEF RunSlot, viewVars
  <1>2. slot \in TrueSlots /\ calls' \in Seq(TrueSlots)
    BY <1>1, TailIn DEF IInv, UnderWayIsTrue
  <1> HIDE DEF slot
  <1>3. Steady => calls' \in Seq(TrueSlots')
    BY <1>2, SteadyTruth, SeqWiden DEF IInv
  <1>4. CASE slot.call = "dismiss" /\ Publish(NoHandle, <<>>) /\ UNCHANGED <<stack, losses, mgrVars>>
    <2>1. Steady
      BY <1>1, <1>4, SteadyIfUnchanged DEF IInv, mgrVars
    <2>2. screen' \in OrNone(Handles) /\ wire' \in Seq(TrueMessages')
      BY <1>4, <2>1, PublishTrue, NoNews, UnderWayStays DEF IInv, OrNone
    <2>3. UnderWayIsTrue'
      BY <1>3, <1>4, <2>1, <2>2, UnderWayStays DEF IInv, UnderWayIsTrue, mgrVars
    <2>4. QED
      BY <1>1, <1>4, <2>1, <2>2, <2>3, BehindTheView DEF IInv, TypeOK
  <1>5. CASE UNCHANGED <<wire, backVars, mgrVars>>
    <2>1. Steady
      BY <1>1, <1>5, SteadyIfUnchanged DEF IInv, mgrVars, backVars
    <2>2. UnderWayIsTrue'
      BY <1>3, <1>5, <2>1, UnderWayStays DEF IInv, UnderWayIsTrue, mgrVars, backVars
    <2>3. QED
      BY <1>1, <1>5, <2>1, <2>2, BehindTheView DEF IInv, TypeOK, backVars
  <1>6. CASE slot.call # "dismiss" /\ StartSlot(slot) /\ UNCHANGED <<wire, screen>>
    <2>1. /\ Steady
          /\ losses' \in 0 .. MaxLosses
          /\ inbox' \in Seq(Ended')
          /\ stack' \in Seq(TrueFrames')
      BY <1>1, <1>2, <1>6, StartSlotTrue DEF IInv
    <2>2. UnderWayIsTrue'
      BY <1>3, <1>6, <2>1, UnderWayStays DEF IInv, UnderWayIsTrue
    <2>3. QED
      BY <1>1, <1>6, <2>1, <2>2, BehindTheView DEF IInv, TypeOK
  <1>7. QED
    BY <1>4, <1>5, <1>6 DEF RunSlot, slot

LEMMA ClaimKeeps ==
    ASSUME IInv, Claim
    PROVE  IInv' /\ Steady
  <1>1. PICK h \in Handles : StartSlot(Slot("acknowledge", h, FALSE))
    BY DEF Claim
  <1>2. UNCHANGED <<viewVars, calls, wire, screen>> /\ UNCHANGED handleOf
    BY DEF Claim, viewVars
  <1>3. Slot("acknowledge", h, FALSE) \in TrueSlots /\ Slot("acknowledge", h, FALSE).call # "dismiss"
    BY DEF Slot, Slots, TrueSlots
  <1>4. /\ Steady
        /\ losses' \in 0 .. MaxLosses
        /\ inbox' \in Seq(Ended')
        /\ stack' \in Seq(TrueFrames')
    BY <1>1, <1>2, <1>3, StartSlotTrue DEF IInv
  <1>5. UnderWayIsTrue'
    BY <1>2, <1>4, UnderWayStays DEF IInv, UnderWayIsTrue
  <1>6. QED
    BY <1>2, <1>4, <1>5, BehindTheView DEF IInv, TypeOK

LEMMA ReturnKeeps ==
    ASSUME IInv, Return
    PROVE  IInv' /\ Steady
  <1>1. /\ stack # <<>> /\ stack' = Tail(stack)
        /\ UNCHANGED viewVars /\ UNCHANGED <<calls, losses, rec, inbox, handleOf>>
    BY DEF Return, AcknowledgeReturns, DecisionReturns, Returning, Below, mgrVars, viewVars
  <1>2. Steady
    BY <1>1, SteadyIfUnchanged DEF IInv
  <1>3. Top \in TrueFrames /\ Top \in TrueFrames' /\ stack' \in Seq(TrueFrames')
    BY <1>1, <1>2, TailIn, SteadyTruth, UnderWayStays DEF IInv, UnderWayIsTrue, Top
  <1>4. screen' \in OrNone(Handles) /\ wire' \in Seq(TrueMessages')
    <2>0. wire \in Seq(TrueMessages')
      BY <1>2, UnderWayStays DEF IInv
    <2>1. CASE AcknowledgeReturns
      <3> DEFINE opened == Top.answer = "ok"
                 reply == Message("reply", Top.handle, IF opened THEN "opened" ELSE "not opened")
                 more == IF Top.watched THEN <<reply>> ELSE <<>>
                 h == IF opened THEN Top.handle ELSE NoHandle
      <3>1. Publish(h, more)
        BY <2>1 DEF AcknowledgeReturns
      <3>2. Top.handle \in Handles /\ Top.watched \in BOOLEAN
        BY <1>3 DEF TrueFrames, Frames
      <3>3. reply \in Messages
        BY <3>2 DEF Message, Messages
      <3>4. Top.watched => reply \in TrueMessages'
        BY <1>3, <3>3 DEF Message, TrueMessages, TrueFrames
      <3> HIDE DEF reply
      <3>5. more \in Seq(TrueMessages')
        BY <3>4, NoNews
      <3>6. h \in OrNone(Handles)
        BY <3>2 DEF OrNone
      <3> HIDE DEF more, h
      <3>7. QED
        BY <2>0, <3>1, <3>5, <3>6, PublishTrue
    <2>2. CASE DecisionReturns
      <3>1. CASE Publish(NoHandle, <<>>)
        BY <2>0, <3>1, PublishTrue, NoNews DEF OrNone
      <3>2. CASE UNCHANGED <<screen, wire>>
        BY <2>0, <3>2 DEF IInv, TypeOK
      <3>3. QED
        BY <2>2, <3>1, <3>2 DEF DecisionReturns
    <2>3. QED
      BY <2>1, <2>2 DEF Return
  <1>5. UnderWayIsTrue'
    BY <1>1, <1>2, <1>3, <1>4, UnderWayStays DEF IInv, UnderWayIsTrue
  <1>6. QED
    BY <1>1, <1>2, <1>4, <1>5, BehindTheView DEF IInv, TypeOK

LEMMA RelaySettledKeeps ==
    ASSUME IInv, RelaySettled
    PROVE  IInv' /\ Steady
  <1> DEFINE h == Head(inbox)
             news == <<Message("settled", h, rec[h])>>
             next == IF h = screen THEN NoHandle ELSE screen
  <1>1. /\ inbox # <<>> /\ inbox' = Tail(inbox)
        /\ UNCHANGED viewVars /\ UNCHANGED <<calls, stack, losses, rec, handleOf>>
        /\ Publish(next, news)
    BY DEF RelaySettled, viewVars
  <1>2. Steady
    BY <1>1, SteadyIfUnchanged DEF IInv
  <1>3. h \in Ended /\ inbox' \in Seq(Ended')
    BY <1>1, <1>2, TailIn, UnderWayStays DEF IInv, UnderWayIsTrue
  <1> HIDE DEF h
  <1>4. Message("settled", h, rec[h]) \in TrueMessages'
    BY <1>1, <1>3 DEF Message, TrueMessages, Messages, Ended
  <1>5. news \in Seq(TrueMessages') /\ next \in OrNone(Handles)
    BY <1>4 DEF IInv, TypeOK, OrNone
  <1> HIDE DEF news, next
  <1>6. screen' \in OrNone(Handles) /\ wire' \in Seq(TrueMessages')
    BY <1>1, <1>2, <1>5, PublishTrue, UnderWayStays DEF IInv
  <1>7. UnderWayIsTrue'
    BY <1>1, <1>2, <1>3, <1>6, UnderWayStays DEF IInv, UnderWayIsTrue
  <1>8. QED
    BY <1>1, <1>2, <1>6, <1>7, BehindTheView DEF IInv, TypeOK

LEMMA ManagerKeeps ==
    ASSUME IInv, NEW h \in Handles, Offer(h) \/ End(h)
    PROVE  IInv' /\ Steady
  <1>1. UNCHANGED viewVars /\ UNCHANGED <<calls, wire, screen, stack, losses, handleOf>>
    BY DEF Offer, End, viewVars, backVars
  <1>2. Steady /\ inbox' \in Seq(Ended')
    <2>1. CASE Offer(h)
      <3>1. Steady
        BY <2>1, <1>1 DEF Offer, Steady, IInv, TypeOK, Records, SettledStates
      <3>2. QED
        BY <2>1, <3>1, UnderWayStays DEF Offer, IInv
    <2>2. CASE End(h)
      BY <2>2, <1>1, SettleAsTrue DEF End, IInv, TypeOK
    <2>3. QED
      BY <2>1, <2>2
  <1>3. UnderWayIsTrue'
    BY <1>1, <1>2, UnderWayStays DEF IInv, UnderWayIsTrue
  <1>4. QED
    BY <1>1, <1>2, <1>3, BehindTheView DEF IInv, TypeOK

-----------------------------------------------------------------------------
(* The theorems. *)

LEMMA InitIInv ==
    ASSUME Init
    PROVE  IInv
  <1> USE DEF Init
  <1>1. TypeOK
    BY LossesAssumption, NoNews DEF TypeOK, OrNone, Standings, Records
  <1>2. UnderWayIsTrue
    BY NoNews DEF UnderWayIsTrue
  <1>3. ViewInv
    BY DEF ViewInv, MapHoldsWaiting, AnswersAreTrue, PlaceKept, Waiting, BadRequestIsFinal
  <1>4. QED
    BY <1>1, <1>2, <1>3 DEF IInv

LEMMA StepIInv ==
    ASSUME IInv, [Next]_vars
    PROVE  IInv' /\ Steady
  <1>1. CASE Next
    BY <1>1, AskApprovalKeeps, PersonKeeps, SeeKeeps, RunSlotKeeps, ClaimKeeps,
       ReturnKeeps, RelaySettledKeeps, ManagerKeeps DEF Next
  <1>2. CASE UNCHANGED vars
    <2>1. UNCHANGED viewVars /\ UNCHANGED <<rec, losses, handleOf, calls, wire, screen, stack, inbox>>
      BY <1>2 DEF vars, viewVars, backVars, mgrVars
    <2>2. Steady
      BY <2>1, SteadyIfUnchanged DEF IInv
    <2>3. UnderWayIsTrue'
      BY <2>1, <2>2, UnderWayStays DEF IInv, UnderWayIsTrue
    <2>4. QED
      BY <2>1, <2>2, <2>3, BehindTheView DEF IInv, TypeOK
  <1>3. QED
    BY <1>1, <1>2

(* What the view holds is true of the backend and the manager, and so is   *)
(* all that is on its way to the view (SignerView.qml, 122-188).           *)
THEOREM IntentsInvariant == Spec => []IInv
  <1>1. Init => IInv
    BY InitIInv
  <1>2. IInv /\ [Next]_vars => IInv'
    BY StepIInv
  <1>3. QED
    BY <1>1, <1>2, PTL DEF Spec

(* Every variable of the view, the backend and the manager has its type.   *)
THEOREM IntentsTypeOK == Spec => []TypeOK
  <1>1. IInv => TypeOK
    BY DEF IInv
  <1>2. QED
    BY <1>1, IntentsInvariant, PTL

(* An intent keeps its place in the map until it is answered, but where    *)
(* another names the same request (SignerView.qml's intentByHandle).       *)
THEOREM IntentsKeepTheirPlace == Spec => []PlaceKept
  <1>1. IInv => PlaceKept
    BY DEF IInv, ViewInv
  <1>2. QED
    BY <1>1, IntentsInvariant, PTL

(* bad_request is said of a request that is gone for good, if no call was  *)
(* lost (SignerView.qml's watch of acknowledge()).                         *)
THEOREM BadRequestsAreFinal == Spec => []BadRequestIsFinal
  <1>1. IInv => BadRequestIsFinal
    BY DEF IInv, ViewInv
  <1>2. QED
    BY <1>1, IntentsInvariant, PTL

-----------------------------------------------------------------------------
(* The refinement: an intent is answered once. *)

(* What a step does to an intent's standing. *)
StandingMoves ==
    \A i \in Intents : standing'[i] # standing[i] =>
        /\ standing[i] \in {"unasked", "waiting"}
        /\ standing'[i] # "unasked"

LEMMA AnswerMoves ==
    ASSUME IInv, NEW h \in Handles, NEW said \in Outcomes, AnswerIntent(h, said)
    PROVE  StandingMoves
  <1> DEFINE k == intentByHandle[h]
  <1>1. CASE k = NoIntent
    BY <1>1 DEF AnswerIntent, Responding, StandingMoves
  <1>2. CASE k # NoIntent
    <2>1. k \in Intents /\ standing[k] = "waiting"
      BY <1>2 DEF IInv, TypeOK, ViewInv, MapHoldsWaiting
    <2>2. standing' = [standing EXCEPT ![k] = said]
      BY <1>2, <2>1 DEF AnswerIntent, Responding, IInv, TypeOK
    <2> HIDE DEF k
    <2>3. QED
      BY <2>1, <2>2 DEF StandingMoves, Outcomes, IInv, TypeOK
  <1>3. QED
    BY <1>1, <1>2

LEMMA AskMoves ==
    ASSUME IInv, NEW i \in Intents, standing[i] = "unasked", NEW h \in Handles, Displace(i, h)
    PROVE  StandingMoves
  <1> DEFINE k == intentByHandle[seen]
             answered == seen \in Handles \ {h} /\ k # NoIntent
  <1>1. CASE ~answered
    <2>1. standing' = [standing EXCEPT ![i] = "waiting"]
      BY <1>1 DEF Displace, Responding
    <2>2. QED
      BY <2>1 DEF StandingMoves, IInv, TypeOK
  <1>2. CASE answered
    <2>1. k \in Intents /\ standing[k] = "waiting"
      BY <1>2 DEF IInv, TypeOK, ViewInv, MapHoldsWaiting
    <2>2. standing' = [[standing EXCEPT ![k] = "cancelled"] EXCEPT ![i] = "waiting"]
      BY <1>2, <2>1 DEF Displace, Responding, IInv, TypeOK
    <2> HIDE DEF k
    <2>3. QED
      BY <2>1, <2>2 DEF StandingMoves, IInv, TypeOK
  <1>3. QED
    BY <1>1, <1>2

LEMMA StepMoves ==
    ASSUME IInv, [Next]_vars
    PROVE  StandingMoves
  <1>1. CASE UNCHANGED standing
    BY <1>1 DEF StandingMoves
  <1>2. ASSUME NEW i \in Intents, NEW h \in Handles, AskApproval(i, h)
        PROVE  StandingMoves
    BY <1>2, AskMoves DEF AskApproval
  <1>3. CASE ClickBack
    <2>1. seen \in Handles /\ AnswerIntent(seen, "cancelled")
      BY <1>3 DEF ClickBack, IInv, TypeOK, OrNone
    <2>2. QED
      BY <2>1, AnswerMoves DEF Outcomes
  <1>4. ASSUME See
        PROVE  StandingMoves
    <2> DEFINE m == Head(wire)
    <2>1. wire # <<>> /\ m \in Messages
      BY <1>4, TailIn DEF See, SeeScreen, SeeSettled, SeeReply, Receive, IInv, TypeOK
    <2>2. CASE SeeScreen
      BY <2>2, <1>1 DEF SeeScreen
    <2>3. CASE SeeSettled
      <3>1. m.kind = "settled" /\ AnswerIntent(m.handle, OutcomeOf(m.said))
        BY <2>3 DEF SeeSettled, Receive
      <3>2. m.handle \in Handles /\ OutcomeOf(m.said) \in Outcomes
        BY <2>1, <3>1, MessageKinds DEF OutcomeOf, Outcomes
      <3>3. QED
        BY <3>1, <3>2, AnswerMoves
    <2>4. CASE SeeReply
      <3>1. m.handle \in Handles
        BY <2>1, <2>4, MessageKinds DEF SeeReply, Receive
      <3>2. UNCHANGED standing \/ AnswerIntent(m.handle, "bad_request")
        BY <2>4 DEF SeeReply
      <3>3. QED
        BY <1>1, <3>1, <3>2, AnswerMoves DEF Outcomes
    <2>5. QED
      BY <1>4, <2>2, <2>3, <2>4 DEF See
  <1>5. CASE Next
    <2>1. ASSUME Person
          PROVE  StandingMoves
      BY <2>1, <1>1, <1>3 DEF Person, ClickOpen, ClickDecide, viewVars
    <2>2. CASE RunSlot \/ Claim \/ Return \/ RelaySettled
      BY <2>2, <1>1 DEF RunSlot, Claim, Return, AcknowledgeReturns, DecisionReturns, RelaySettled, viewVars
    <2>3. ASSUME NEW h \in Handles, Offer(h) \/ End(h)
          PROVE  StandingMoves
      BY <2>3, <1>1 DEF Offer, End, viewVars
    <2>4. QED
      BY <1>5, <1>2, <1>4, <2>1, <2>2, <2>3 DEF Next
  <1>6. QED
    BY <1>1, <1>5 DEF vars, viewVars

(* An intent is answered once, and ok only of a request the manager        *)
(* approved: SignerView.qml's answerIntent, however its callers interleave *)
(* with the backend and the manager.                                       *)
THEOREM IntentsKeepTheContract == Spec => ContractKept
  <1>1. Init => Contract!Init
    <2>1. ASSUME Init
          PROVE  Approved = {}
      <3>1. \A i \in Intents : handleOf[i] \notin Handles
        BY <2>1, HandlesAssumption DEF Init
      <3>2. QED
        BY <3>1 DEF Approved
    <2>2. QED
      BY <2>1 DEF Init, Contract!Init
  <1>2. IInv /\ IInv' /\ [Next]_vars => [Contract!Next]_(Contract!vars)
    <2> SUFFICES ASSUME IInv, IInv', [Next]_vars
                 PROVE  Contract!Next
      OBVIOUS
    <2>1. standing' \in [Intents -> Contract!Standings]
      BY DEF IInv, TypeOK, Standings, Outcomes, Contract!Standings, Contract!Ends, ViewInv, AnswersAreTrue
    <2>2. Approved \subseteq Approved' /\ Approved' \subseteq Intents
      BY StepIInv DEF Approved, Steady, SettledStates
    <2>3. \A i \in Intents : standing'[i] = "ok" => i \in Approved'
      <3>1. ASSUME NEW i \in Intents, standing'[i] = "ok"
            PROVE  i \in Approved'
        <4>1. rec'[handleOf'[i]] = "approved" /\ handleOf'[i] # NoHandle
          BY <3>1 DEF IInv, ViewInv, AnswersAreTrue
        <4>2. handleOf'[i] \in Handles
          BY <4>1 DEF IInv, TypeOK, OrNone
        <4>3. QED
          BY <4>1, <4>2 DEF Approved
      <3>2. QED
        BY <3>1
    <2>4. QED
      BY <2>1, <2>2, <2>3, StepMoves DEF Contract!Next, Contract!Ends, StandingMoves
  <1>3. QED
    BY <1>1, <1>2, IntentsInvariant, PTL DEF Spec, ContractKept, Contract!Spec

-----------------------------------------------------------------------------
(* What answers an intent is on its way.                                   *)

SettledOf(h) == {m \in Messages : m.kind = "settled" /\ m.handle = h}
NotOpened(h) == {Message("reply", h, "not opened")}
Asking(h) == {Slot("acknowledge", h, TRUE)}
Unopened(h) == {f \in Frames : f.watched /\ f.handle = h /\ f.answer # "ok"}

UnderWay(h) ==
    \/ HasIn(inbox, {h})
    \/ HasIn(wire, SettledOf(h) \cup NotOpened(h))
    \/ HasIn(calls, Asking(h))
    \/ HasIn(stack, Unopened(h))

AnswersComing ==
    \A h \in Handles : intentByHandle[h] # NoIntent /\ rec[h] # "live" => UnderWay(h)

(* A step that leaves the map as it is: what was under way still is, and   *)
(* so is what answers of a request that ends by it.                        *)
Onward ==
    \A h \in Handles : rec'[h] # "live" /\ (rec[h] # "live" => UnderWay(h)) => UnderWay(h)'

LEMMA OnwardComing ==
    ASSUME AnswersComing, Onward, UNCHANGED intentByHandle
    PROVE  AnswersComing'
  BY DEF AnswersComing, Onward, UnderWay

(* The view calls a slot, having answered at most. *)
LEMMA CallComing ==
    ASSUME TypeOK, AnswersComing, NEW slot \in Slots, Call(slot),
           UNCHANGED <<wire, backVars, mgrVars>>,
           \A x \in Handles : intentByHandle'[x] # NoIntent =>
               intentByHandle[x] # NoIntent \/ slot \in Asking(x)
    PROVE  AnswersComing'
  <1>1. ASSUME NEW x \in Handles, UnderWay(x) \/ slot \in Asking(x)
        PROVE  UnderWay(x)'
    <2>1. /\ calls' = Append(calls, slot) /\ calls \in Seq(Slots)
          /\ UNCHANGED <<wire, inbox, stack>>
      BY DEF Call, TypeOK, backVars, mgrVars
    <2>2. HasIn(calls, Asking(x)) \/ slot \in Asking(x) => HasIn(calls', Asking(x))
      BY <2>1, HasInAppend
    <2>3. QED
      BY <1>1, <2>1, <2>2 DEF UnderWay
  <1>2. QED
    BY <1>1 DEF AnswersComing, mgrVars

LEMMA AskComing ==
    ASSUME TypeOK, AnswersComing, NEW i \in Intents, NEW h \in Handles, AskApproval(i, h)
    PROVE  AnswersComing'
  <1>1. Slot("acknowledge", h, TRUE) \in Slots
    BY DEF Slot, Slots
  <1>2. ASSUME NEW x \in Handles, intentByHandle'[x] # NoIntent
        PROVE  intentByHandle[x] # NoIntent \/ Slot("acknowledge", h, TRUE) \in Asking(x)
    BY <1>2 DEF AskApproval, Displace, Asking
  <1>3. QED
    BY <1>1, <1>2, CallComing DEF AskApproval

LEMMA PersonComing ==
    ASSUME TypeOK, AnswersComing, Person
    PROVE  AnswersComing'
  <1>1. PICK slot \in Slots : Call(slot)
    BY DEF Person, ClickOpen, ClickDecide, ClickBack, TypeOK, OrNone, Slot, Slots
  <1>2. ASSUME NEW x \in Handles, intentByHandle'[x] # NoIntent
        PROVE  intentByHandle[x] # NoIntent
    BY <1>2 DEF Person, ClickOpen, ClickDecide, ClickBack, AnswerIntent, viewVars, TypeOK
  <1>3. UNCHANGED <<wire, backVars, mgrVars>>
    BY DEF Person, ClickOpen, ClickDecide, ClickBack
  <1>4. QED
    BY <1>1, <1>2, <1>3, CallComing

(* A message received is no loss: it was of no ended request, or it        *)
(* answered the intent.                                                    *)
LEMMA SeeComing ==
    ASSUME TypeOK, AnswersComing, See
    PROVE  AnswersComing'
  <1> DEFINE m == Head(wire)
  <1>1. /\ wire # <<>> /\ wire' = Tail(wire) /\ wire \in Seq(Messages)
        /\ UNCHANGED <<calls, stack, rec, inbox>>
    BY DEF See, SeeScreen, SeeSettled, SeeReply, Receive, TypeOK, backVars, mgrVars
  <1>2. m \in Messages
    BY <1>1, TailIn
  <1>3. ASSUME NEW x \in Handles, intentByHandle'[x] # NoIntent
        PROVE  intentByHandle[x] # NoIntent /\ m \notin SettledOf(x) \cup NotOpened(x)
    <2>0. \A n \in SettledOf(x) \cup NotOpened(x) :
             n.handle = x /\ (n.kind = "settled" \/ (n.kind = "reply" /\ n.said = "not opened"))
      <3>1. \A n \in SettledOf(x) : n.handle = x /\ n.kind = "settled"
        BY DEF SettledOf
      <3>2. \A n \in NotOpened(x) : n.handle = x /\ n.kind = "reply" /\ n.said = "not opened"
        <4>1. LET n == Message("reply", x, "not opened")
              IN n.handle = x /\ n.kind = "reply" /\ n.said = "not opened"
          BY DEF Message
        <4>2. QED
          BY <4>1 DEF NotOpened
      <3>3. QED
        BY <3>1, <3>2
    <2>1. CASE SeeScreen
      BY <1>3, <2>0, <2>1 DEF SeeScreen, Receive
    <2>2. CASE m.kind \in {"settled", "reply"} /\ \E said : AnswerIntent(m.handle, said)
      <3>1. intentByHandle' = [intentByHandle EXCEPT ![m.handle] = NoIntent]
        BY <2>2 DEF AnswerIntent
      <3>2. m.handle \in Handles
        BY <1>2, <2>2, MessageKinds
      <3>3. x # m.handle /\ intentByHandle'[x] = intentByHandle[x]
        BY <1>3, <3>1, <3>2 DEF TypeOK
      <3>4. QED
        BY <1>3, <2>0, <3>3
    <2>3. CASE SeeSettled \/ SeeReply
      <3>1. CASE UNCHANGED intentByHandle /\ m.kind = "reply" /\ m.said # "not opened"
        BY <1>3, <2>0, <3>1
      <3>2. QED
        BY <2>2, <2>3, <3>1 DEF SeeSettled, SeeReply, Receive
    <2>4. QED
      BY <2>1, <2>3 DEF See
  <1> HIDE DEF m
  <1>4. ASSUME NEW x \in Handles, m \notin SettledOf(x) \cup NotOpened(x), UnderWay(x)
        PROVE  UnderWay(x)'
    <2>1. HasIn(wire, SettledOf(x) \cup NotOpened(x)) => HasIn(wire', SettledOf(x) \cup NotOpened(x))
      BY <1>1, <1>4, HasInTail DEF m
    <2>2. QED
      BY <1>1, <1>4, <2>1 DEF UnderWay
  <1>5. QED
    BY <1>1, <1>3, <1>4 DEF AnswersComing

(* What is sent goes behind what was sent before. *)
LEMMA PublishKeeps ==
    ASSUME TypeOK, NEW h \in OrNone(Handles), NEW more \in Seq(Messages), Publish(h, more),
           NEW S, HasIn(wire, S) \/ HasIn(more, S)
    PROVE  HasIn(wire', S)
  <1> DEFINE news == IF h = screen THEN <<>> ELSE <<Message("rendered", h, "")>>
  <1>1. Message("rendered", h, "") \in Messages
    BY DEF Message, Messages
  <1>2. news \in Seq(Messages)
    BY <1>1, NoNews
  <1>3. wire' = wire \o news \o more /\ wire \in Seq(Messages)
    BY DEF Publish, TypeOK
  <1> HIDE DEF news
  <1>4. wire \o news \in Seq(Messages) /\ (HasIn(wire, S) => HasIn(wire \o news, S))
    BY <1>2, <1>3, HasInConcat
  <1>5. QED
    BY <1>3, <1>4, HasInConcat

(* A slot runs: a settled record says so, and an acknowledge() that a view *)
(* watches and that opens nothing goes on to say that.                     *)
LEMMA StartSlotOnward ==
    ASSUME TypeOK, NEW slot \in Slots, slot.call # "dismiss", StartSlot(slot),
           slot.watched => slot.call = "acknowledge"
    PROVE  /\ \A h \in Handles : rec[h] = "live" /\ rec'[h] # "live" => HasIn(inbox', {h})
           /\ \A h \in Handles : HasIn(inbox, {h}) => HasIn(inbox', {h})
           /\ \A h \in Handles : HasIn(stack, Unopened(h)) => HasIn(stack', Unopened(h))
           /\ \A h \in Handles : slot \in Asking(h) /\ rec'[h] # "live" => HasIn(stack', Unopened(h))
  <1>1. PICK answer \in Answers, got \in Answers :
          /\ \/ Managed(slot.call, slot.handle, answer) /\ Heard(answer, got)
             \/ NotSent(got) /\ answer = "lost" /\ UNCHANGED mgrVars
          /\ Block(slot, got)
    BY DEF StartSlot
  <1>2. slot.handle \in Handles /\ slot.watched \in BOOLEAN /\ slot.call \in {"acknowledge", "approve", "reject"}
    BY DEF Slots
  <1>3. \/ UNCHANGED mgrVars
        \/ slot.call # "acknowledge" /\ \E state \in SettledStates : SettleAs(slot.handle, state)
    BY <1>1 DEF Managed, SettledStates
  <1>4. ASSUME NEW h \in Handles
        PROVE  /\ rec[h] = "live" /\ rec'[h] # "live" => HasIn(inbox', {h})
               /\ HasIn(inbox, {h}) => HasIn(inbox', {h})
    <2>1. CASE UNCHANGED mgrVars
      BY <2>1 DEF mgrVars
    <2>2. ASSUME NEW state \in SettledStates, SettleAs(slot.handle, state)
          PROVE  <1>4!2
      <3>1. inbox' = Append(inbox, slot.handle) /\ inbox \in Seq(Handles)
        BY <2>2 DEF SettleAs, TypeOK
      <3>2. rec[h] = "live" /\ rec'[h] # "live" => slot.handle = h
        BY <2>2, <1>2 DEF SettleAs, TypeOK
      <3>3. HasIn(inbox, {h}) \/ slot.handle \in {h} => HasIn(inbox', {h})
        BY <3>1, <1>2, HasInAppend
      <3>4. QED
        BY <3>2, <3>3
    <2>3. QED
      BY <1>3, <2>1, <2>2
  <1> DEFINE f == [call |-> slot.call, handle |-> slot.handle, watched |-> slot.watched, answer |-> got]
  <1>5. f \in Frames /\ stack' = <<f>> \o stack /\ stack \in Seq(Frames)
    BY <1>1, <1>2 DEF Frames, Block, Push, TypeOK
  <1>6. ASSUME NEW h \in Handles, slot \in Asking(h), rec'[h] # "live"
        PROVE  f \in Unopened(h)
    <2>1. slot.call = "acknowledge" /\ slot.handle = h /\ slot.watched
      BY <1>6 DEF Asking, Slot
    <2>2. rec' = rec
      BY <2>1, <1>3 DEF mgrVars
    <2>3. answer # "ok" /\ (got = answer \/ got = "lost")
      BY <1>1, <1>6, <2>1, <2>2 DEF Managed, Heard, NotSent
    <2>4. QED
      BY <1>5, <2>1, <2>3 DEF Unopened
  <1> HIDE DEF f
  <1>7. ASSUME NEW h \in Handles, HasIn(stack, Unopened(h)) \/ f \in Unopened(h)
        PROVE  HasIn(stack', Unopened(h))
    <2>1. <<f>> \in Seq(Frames) /\ <<f>>[1] = f /\ 1 \in DOMAIN <<f>>
      BY <1>5
    <2>2. f \in Unopened(h) => HasIn(<<f>>, Unopened(h))
      BY <2>1 DEF HasIn
    <2>3. QED
      BY <1>5, <1>7, <2>1, <2>2, HasInConcat
  <1>8. QED
    BY <1>4, <1>6, <1>7

LEMMA RunSlotOnward ==
    ASSUME IInv, RunSlot
    PROVE  Onward
  <1> DEFINE slot == Head(calls)
  <1>1. /\ calls # <<>> /\ calls' = Tail(calls) /\ calls \in Seq(Slots)
        /\ TypeOK
    BY DEF RunSlot, IInv, TypeOK
  <1>2. slot \in Slots /\ (slot.watched => slot.call = "acknowledge")
    <2>1. slot \in TrueSlots
      BY <1>1, TailIn DEF IInv, UnderWayIsTrue
    <2>2. QED
      BY <2>1 DEF TrueSlots
  <1> HIDE DEF slot
  <1>3. ASSUME NEW h \in Handles, HasIn(calls, Asking(h)), slot \notin Asking(h)
        PROVE  HasIn(calls', Asking(h))
    BY <1>1, <1>3, HasInTail DEF slot
  <1>4. CASE slot.call = "dismiss" /\ Publish(NoHandle, <<>>) /\ UNCHANGED <<stack, losses, mgrVars>>
    <2>1. \A h \in Handles : slot \notin Asking(h)
      BY <1>4 DEF Asking, Slot
    <2>2. NoHandle \in OrNone(Handles) /\ <<>> \in Seq(Messages)
      BY NoNews DEF OrNone
    <2>3. \A h \in Handles : HasIn(wire, SettledOf(h) \cup NotOpened(h)) => HasIn(wire', SettledOf(h) \cup NotOpened(h))
      BY <1>1, <1>4, <2>2, PublishKeeps
    <2>4. QED
      BY <1>3, <1>4, <2>1, <2>3 DEF Onward, UnderWay, mgrVars
  <1>5. CASE slot.call = "approve" /\ UNCHANGED <<wire, backVars, mgrVars>>
    <2>1. \A h \in Handles : slot \notin Asking(h)
      BY <1>5 DEF Asking, Slot
    <2>2. QED
      BY <1>3, <1>5, <2>1 DEF Onward, UnderWay, mgrVars, backVars
  <1>6. CASE slot.call # "dismiss" /\ StartSlot(slot) /\ UNCHANGED <<wire, screen>>
    BY <1>1, <1>2, <1>3, <1>6, StartSlotOnward DEF Onward, UnderWay
  <1>7. QED
    BY <1>4, <1>5, <1>6 DEF RunSlot, slot

LEMMA ClaimOnward ==
    ASSUME IInv, Claim
    PROVE  Onward
  <1>1. PICK h \in Handles : StartSlot(Slot("acknowledge", h, FALSE))
    BY DEF Claim
  <1>2. /\ Slot("acknowledge", h, FALSE) \in Slots /\ Slot("acknowledge", h, FALSE).call # "dismiss"
        /\ ~Slot("acknowledge", h, FALSE).watched
    BY DEF Slot, Slots
  <1>3. UNCHANGED <<calls, wire>> /\ TypeOK
    BY DEF Claim, IInv
  <1>4. QED
    BY <1>1, <1>2, <1>3, StartSlotOnward DEF Onward, UnderWay

LEMMA ReturnOnward ==
    ASSUME IInv, Return
    PROVE  Onward
  <1>1. /\ stack # <<>> /\ stack' = Tail(stack) /\ stack \in Seq(Frames) /\ TypeOK
        /\ UNCHANGED <<calls, rec, inbox>>
    BY DEF Return, AcknowledgeReturns, DecisionReturns, Returning, Below, mgrVars, IInv, TypeOK
  <1>2. Top \in TrueFrames /\ Top \in Frames
    BY <1>1, TailIn DEF IInv, UnderWayIsTrue, Top
  <1>3. ASSUME NEW h \in Handles, HasIn(stack, Unopened(h)), Top \notin Unopened(h)
        PROVE  HasIn(stack', Unopened(h))
    BY <1>1, <1>3, HasInTail DEF Top
  <1>4. CASE AcknowledgeReturns
    <2> DEFINE opened == Top.answer = "ok"
               reply == Message("reply", Top.handle, IF opened THEN "opened" ELSE "not opened")
               more == IF Top.watched THEN <<reply>> ELSE <<>>
               next == IF opened THEN Top.handle ELSE NoHandle
    <2>1. Publish(next, more)
      BY <1>4 DEF AcknowledgeReturns
    <2>2. Top.handle \in Handles /\ Top.watched \in BOOLEAN
      BY <1>2 DEF Frames
    <2>3. reply \in Messages
      BY <2>2 DEF Message, Messages
    <2>4. \A h \in Handles : Top \in Unopened(h) => more = <<reply>> /\ reply \in NotOpened(h)
      BY DEF Unopened, NotOpened
    <2> HIDE DEF reply
    <2>5. more \in Seq(Messages) /\ next \in OrNone(Handles)
      BY <2>2, <2>3, NoNews DEF OrNone
    <2> HIDE DEF more, next
    <2>6. ASSUME NEW h \in Handles, HasIn(wire, SettledOf(h) \cup NotOpened(h)) \/ Top \in Unopened(h)
          PROVE  HasIn(wire', SettledOf(h) \cup NotOpened(h))
      <3>1. Top \in Unopened(h) => HasIn(more, SettledOf(h) \cup NotOpened(h))
        <4>1. <<reply>>[1] = reply /\ 1 \in DOMAIN <<reply>>
          OBVIOUS
        <4>2. QED
          BY <2>4, <4>1 DEF HasIn
      <3>2. QED
        BY <1>1, <2>1, <2>5, <2>6, <3>1, PublishKeeps
    <2>7. QED
      BY <1>1, <1>3, <2>6 DEF Onward, UnderWay
  <1>5. CASE DecisionReturns
    <2>1. \A h \in Handles : Top \notin Unopened(h)
      BY <1>2, <1>5 DEF DecisionReturns, Returning, Top, TrueFrames, Unopened
    <2>2. ASSUME NEW h \in Handles, HasIn(wire, SettledOf(h) \cup NotOpened(h))
          PROVE  HasIn(wire', SettledOf(h) \cup NotOpened(h))
      <3>1. CASE Publish(NoHandle, <<>>)
        <4>1. NoHandle \in OrNone(Handles) /\ <<>> \in Seq(Messages)
          BY NoNews DEF OrNone
        <4>2. QED
          BY <1>1, <2>2, <3>1, <4>1, PublishKeeps
      <3>2. CASE UNCHANGED wire
        BY <2>2, <3>2
      <3>3. QED
        BY <1>5, <3>1, <3>2 DEF DecisionReturns
    <2>3. QED
      BY <1>1, <1>3, <2>1, <2>2 DEF Onward, UnderWay
  <1>6. QED
    BY <1>4, <1>5 DEF Return

LEMMA RelaySettledOnward ==
    ASSUME IInv, RelaySettled
    PROVE  Onward
  <1> DEFINE h == Head(inbox)
             news == <<Message("settled", h, rec[h])>>
             next == IF h = screen THEN NoHandle ELSE screen
  <1>1. /\ inbox # <<>> /\ inbox' = Tail(inbox) /\ inbox \in Seq(Handles) /\ TypeOK
        /\ UNCHANGED <<calls, stack, rec>>
        /\ Publish(next, news)
    BY DEF RelaySettled, IInv, TypeOK
  <1>2. h \in Ended
    BY <1>1, TailIn DEF IInv, UnderWayIsTrue
  <1>3. Message("settled", h, rec[h]) \in SettledOf(h) /\ news \in Seq(Messages)
    <2>1. Message("settled", h, rec[h]) \in SettledOf(h)
      BY <1>2 DEF Message, SettledOf, Messages, Ended
    <2>2. QED
      BY <2>1, OneIn DEF SettledOf
  <1>4. next \in OrNone(Handles)
    BY DEF IInv, TypeOK, OrNone
  <1> HIDE DEF next
  <1>5. HasIn(news, SettledOf(h) \cup NotOpened(h))
    <2>1. news[1] = Message("settled", h, rec[h]) /\ 1 \in DOMAIN news
      OBVIOUS
    <2>2. QED
      BY <1>3, <2>1 DEF HasIn
  <1> HIDE DEF h, news
  <1>6. ASSUME NEW x \in Handles, HasIn(wire, SettledOf(x) \cup NotOpened(x)) \/ h = x
        PROVE  HasIn(wire', SettledOf(x) \cup NotOpened(x))
    BY <1>1, <1>3, <1>4, <1>5, <1>6, PublishKeeps
  <1>7. ASSUME NEW x \in Handles, HasIn(inbox, {x}), h # x
        PROVE  HasIn(inbox', {x})
    BY <1>1, <1>7, HasInTail DEF h
  <1>8. QED
    BY <1>1, <1>6, <1>7 DEF Onward, UnderWay

LEMMA ManagerOnward ==
    ASSUME IInv, NEW h \in Handles, Offer(h) \/ End(h)
    PROVE  Onward
  <1>1. UNCHANGED <<calls, wire, stack>> /\ inbox \in Seq(Handles) /\ rec \in [Handles -> Records]
    BY DEF Offer, End, backVars, IInv, TypeOK
  <1>2. CASE Offer(h)
    BY <1>1, <1>2 DEF Offer, Onward, UnderWay
  <1>3. CASE End(h)
    <2>1. inbox' = Append(inbox, h) /\ \A x \in Handles \ {h} : rec'[x] = rec[x]
      BY <1>1, <1>3 DEF End, SettleAs
    <2>2. \A x \in Handles : HasIn(inbox, {x}) \/ h \in {x} => HasIn(inbox', {x})
      BY <1>1, <2>1, HasInAppend
    <2>3. QED
      BY <1>1, <2>1, <2>2 DEF Onward, UnderWay
  <1>4. QED
    BY <1>2, <1>3

LEMMA StepComing ==
    ASSUME IInv, AnswersComing, [Next]_vars
    PROVE  AnswersComing'
  <1>1. ASSUME NEW i \in Intents, NEW h \in Handles, AskApproval(i, h)
        PROVE  AnswersComing'
    BY <1>1, AskComing DEF IInv
  <1>2. CASE Person \/ See
    BY <1>2, PersonComing, SeeComing DEF IInv
  <1>3. CASE RunSlot \/ Claim \/ Return \/ RelaySettled
    <2>1. UNCHANGED intentByHandle
      BY <1>3 DEF RunSlot, Claim, Return, AcknowledgeReturns, DecisionReturns, RelaySettled, viewVars
    <2>2. QED
      BY <1>3, <2>1, RunSlotOnward, ClaimOnward, ReturnOnward, RelaySettledOnward, OnwardComing
  <1>4. ASSUME NEW h \in Handles, Offer(h) \/ End(h)
        PROVE  AnswersComing'
    BY <1>4, ManagerOnward, OnwardComing DEF Offer, End, viewVars
  <1>5. CASE UNCHANGED vars
    BY <1>5 DEF vars, viewVars, backVars, mgrVars, AnswersComing, UnderWay
  <1>6. QED
    BY <1>1, <1>2, <1>3, <1>4, <1>5 DEF Next

(* Once its request has ended, or was never one, what answers an intent is *)
(* on its way to the view (SignerView.qml's onSettled and the watch of     *)
(* acknowledge()): none that has its place is left to the shell's timeout. *)
THEOREM AnswersAreUnderWay == Spec => []AnswerUnderWay
  <1>1. Init => AnswersComing
    BY DEF Init, AnswersComing
  <1>2. IInv /\ AnswersComing /\ [Next]_vars => AnswersComing'
    BY StepComing
  <1>3. IInv /\ AnswersComing => AnswerUnderWay
    <2>1. ASSUME IInv, AnswersComing, NEW i \in Intents,
                 Waiting(i), intentByHandle[handleOf[i]] = i, rec[handleOf[i]] # "live"
          PROVE  SettledUnderWay(handleOf[i]) \/ OpeningUnderWay(handleOf[i])
      <3> DEFINE h == handleOf[i]
      <3>1. h \in Handles /\ intentByHandle[h] # NoIntent
        BY <2>1, IntentsAssumption DEF IInv, ViewInv, AnswersAreTrue, Waiting, TypeOK, OrNone
      <3>2. UnderWay(h)
        BY <2>1, <3>1 DEF AnswersComing
      <3>3. /\ inbox \in Seq(Handles) /\ wire \in Seq(Messages)
            /\ calls \in Seq(Slots) /\ stack \in Seq(Frames)
        BY <2>1 DEF IInv, TypeOK
      <3>4. /\ DOMAIN inbox = 1 .. Len(inbox) /\ DOMAIN wire = 1 .. Len(wire)
            /\ DOMAIN calls = 1 .. Len(calls) /\ DOMAIN stack = 1 .. Len(stack)
        BY <3>3
      <3> HIDE DEF h
      <3>5. CASE HasIn(inbox, {h})
        BY <3>4, <3>5 DEF HasIn, SettledUnderWay, h
      <3>6. CASE HasIn(wire, SettledOf(h) \cup NotOpened(h))
        BY <3>4, <3>6 DEF HasIn, SettledOf, NotOpened, SettledUnderWay, OpeningUnderWay, h
      <3>7. CASE HasIn(calls, Asking(h))
        BY <3>4, <3>7 DEF HasIn, Asking, OpeningUnderWay, h
      <3>8. CASE HasIn(stack, Unopened(h))
        BY <3>4, <3>8 DEF HasIn, Unopened, OpeningUnderWay, h
      <3>9. QED
        BY <3>2, <3>5, <3>6, <3>7, <3>8 DEF UnderWay
    <2>2. QED
      BY <2>1 DEF AnswerUnderWay
  <1>4. QED
    BY <1>1, <1>2, <1>3, IntentsInvariant, PTL DEF Spec
=============================================================================
