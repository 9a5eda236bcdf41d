------------------------- MODULE ReceiverRecordProofs -------------------------
(***************************************************************************)
(* Proofs about CoreLink: for every set of hands and every bound on the       *)
(* queue, the listener's view of the link, of the controller module and of    *)
(* its firmware follows the core's.                                          *)
(*                                                                          *)
(* Then about ReceiverRecord, for every hand, byte and word, and any          *)
(* number of commands the receiver has to answer.  A step of the composition  *)
(* is a step of CoreLink or leaves its variables alone, so the listener's      *)
(* views still follow the core; the pairing state and the channel have an     *)
(* inductive invariant each.                                                *)
(***************************************************************************)
EXTENDS ReceiverRecord, TLAPS

USE DEF moduleVars

-----------------------------------------------------------------------------
(* The queue: what pushing and popping an event does to its last news.      *)

\* Pushing an event with no news of kind k changes nothing about k.
LEMMA PushOther ==
  ASSUME NEW q \in Seq(Event), NEW e \in Event, NEW k, NEW S,
         k \notin NewsOf(e)
  PROVE  /\ LastNewsIn(q, k, S) => LastNewsIn(Append(q, e), k, S)
         /\ About(Append(q, e), k) = About(q, k)
<1>1. /\ Len(Append(q, e)) = Len(q) + 1
      /\ \A i \in 1 .. Len(q) : Append(q, e)[i] = q[i]
      /\ Append(q, e)[Len(q) + 1] = e
      /\ Len(q) \in Nat
  OBVIOUS
<1>2. About(Append(q, e), k) = About(q, k)
  BY <1>1 DEF About
<1>. QED BY <1>1, <1>2 DEF LastNewsIn, About

\* Pushing news of kind k makes it the last news of that kind.
LEMMA PushNews ==
  ASSUME NEW q \in Seq(Event), NEW e \in Event, NEW k, NEW S,
         k \in NewsOf(e), e \in S
  PROVE  /\ LastNewsIn(Append(q, e), k, S)
         /\ About(Append(q, e), k) # {}
<1>1. /\ Len(Append(q, e)) = Len(q) + 1
      /\ Append(q, e)[Len(q) + 1] = e
      /\ Len(q) \in Nat
  OBVIOUS
<1>2. Len(q) + 1 \in About(Append(q, e), k)
  BY <1>1 DEF About
<1>3. ASSUME NEW i \in About(Append(q, e), k),
             \A j \in About(Append(q, e), k) : j <= i
      PROVE  Append(q, e)[i] \in S
  <2>1. Len(q) + 1 <= i /\ i \in 1 .. Len(q) + 1
    BY <1>1, <1>2, <1>3 DEF About
  <2>. QED BY <1>1, <2>1
<1>. QED BY <1>2, <1>3 DEF LastNewsIn

\* Popping an event keeps the last news in S; when the popped event was the
\* last news of kind k, it is in S itself.
LEMMA Pop ==
  ASSUME NEW q \in Seq(Event), q # <<>>, NEW k, NEW S, LastNewsIn(q, k, S)
  PROVE  /\ LastNewsIn(Tail(q), k, S)
         /\ About(Tail(q), k) = {} =>
              IF k \in NewsOf(Head(q)) THEN Head(q) \in S ELSE About(q, k) = {}
<1>1. /\ Len(q) \in Nat \ {0}
      /\ Len(Tail(q)) = Len(q) - 1
      /\ \A i \in 1 .. Len(q) - 1 : Tail(q)[i] = q[i + 1]
      /\ Head(q) = q[1]
  OBVIOUS
<1>2. \A i \in 1 .. Len(q) - 1 : i \in About(Tail(q), k) <=> i + 1 \in About(q, k)
  BY <1>1 DEF About
<1>3. LastNewsIn(Tail(q), k, S)
  <2>. SUFFICES ASSUME NEW i \in About(Tail(q), k),
                       \A j \in About(Tail(q), k) : j <= i
                PROVE  Tail(q)[i] \in S
    BY DEF LastNewsIn
  <2>1. i \in 1 .. Len(q) - 1 /\ i + 1 \in About(q, k)
    BY <1>1, <1>2 DEF About
  <2>2. ASSUME NEW j \in About(q, k) PROVE j <= i + 1
    <3>1. j \in 1 .. Len(q)
      BY DEF About
    <3>2. CASE j = 1
      BY <2>1, <3>2
    <3>3. CASE j # 1
      <4>1. j - 1 \in 1 .. Len(q) - 1 /\ (j - 1) + 1 = j
        BY <1>1, <3>1, <3>3
      <4>2. j - 1 \in About(Tail(q), k)
        BY <1>2, <4>1, <2>2
      <4>. QED BY <2>1, <4>1, <4>2
    <3>. QED BY <3>2, <3>3
  <2>. QED BY <1>1, <2>1, <2>2 DEF LastNewsIn
<1>4. ASSUME About(Tail(q), k) = {}, NEW i \in About(q, k)
      PROVE  i = 1
  <2>1. i \in 1 .. Len(q)
    BY DEF About
  <2>2. i # 1 => i - 1 \in 1 .. Len(q) - 1 /\ (i - 1) + 1 = i
    BY <1>1, <2>1
  <2>. QED BY <1>2, <1>4, <2>2
<1>5. 1 \in About(q, k) <=> k \in NewsOf(Head(q))
  BY <1>1 DEF About
<1>6. ASSUME About(Tail(q), k) = {}, k \in NewsOf(Head(q)) PROVE Head(q) \in S
  <2>1. \A i \in About(q, k) : i <= 1
    BY <1>4, <1>6
  <2>. QED BY <1>1, <1>5, <1>6, <2>1 DEF LastNewsIn
<1>7. ASSUME About(Tail(q), k) = {}, k \notin NewsOf(Head(q)) PROVE About(q, k) = {}
  BY <1>4, <1>5, <1>7
<1>. QED BY <1>3, <1>6, <1>7

\* The same two facts for an event a handler pushes on a condition.
LEMMA PushIfOther ==
  ASSUME NEW q \in Seq(Event), NEW c \in BOOLEAN, NEW e \in Event, NEW k, NEW S,
         k \notin NewsOf(e)
  PROVE  /\ LastNewsIn(q, k, S) => LastNewsIn(PushIf(q, c, e), k, S)
         /\ About(PushIf(q, c, e), k) = About(q, k)
BY PushOther DEF PushIf

LEMMA PushIfType ==
  ASSUME NEW q \in Seq(Event), NEW c \in BOOLEAN, NEW e \in Event
  PROVE  PushIf(q, c, e) \in Seq(Event)
BY DEF PushIf

\* The events the handlers push, and their news.
LEMMA EventFacts ==
  /\ SerialEvent \in Event /\ NewsOf(SerialEvent) = {}
  /\ JoyFwEvent \in Event /\ NewsOf(JoyFwEvent) = {"joyFw"}
  /\ \A st \in UdStates :
       /\ LinkEvent(st) \in Event
       /\ NewsOf(LinkEvent(st)) = IF st = "NOT_CONNECT" THEN News ELSE {"link"}
  /\ \A v \in {1, 2} :
       /\ VersionEvent(v) \in Event /\ NewsOf(VersionEvent(v)) = {"version"}
       /\ ButtonEvent(v) \in Event /\ NewsOf(ButtonEvent(v)) = {"version"}
BY DEF SerialEvent, JoyFwEvent, LinkEvent, VersionEvent, ButtonEvent, Event,
       NewsOf, UdStates

LEMMA ReceiverEventFacts ==
  ASSUME NEW e \in ReceiverEvent
  PROVE  e \in Event /\ NewsOf(e) = {} /\ e.cmd \in {"PAIRING", "CHANNEL"}
BY DEF ReceiverEvent, Event, NewsOf

-----------------------------------------------------------------------------
(* Types.                                                                   *)

LEMMA TypeStep == TypeOK /\ [Next]_vars => TypeOK'
<1>. SUFFICES ASSUME TypeOK, [Next]_vars PROVE TypeOK'
  OBVIOUS
<1>. USE DEF TypeOK, UdStates
<1>0. /\ (target = NoHand /\ glove # NoHand) \in BOOLEAN
      /\ AfterSerial \in Seq(Event)
  BY PushIfType, EventFacts DEF AfterSerial
<1>1. CASE \E h \in Hands : BindGlove(h)
  BY <1>1 DEF BindGlove, coreVars, serverVars
<1>2. CASE PortChange
  BY <1>2 DEF PortChange, coreVars, serverVars
<1>3. CASE JoystickAnswerLost
  <2>1. fwAsked' \in BOOLEAN
    BY <1>3 DEF JoystickAnswerLost
  <2>2. UNCHANGED <<glove, portOpen, coreVars, serverVars>>
    BY <1>3 DEF JoystickAnswerLost
  <2>. QED BY <2>1, <2>2 DEF coreVars, serverVars
<1>4. CASE LinkDown
  <2>1. queue' \in Seq(Event)
    BY <1>0, <1>4, PushIfType, EventFacts DEF LinkDown
  <2>2. stray' \subseteq {"version", "joyFw"}
    BY <1>4 DEF LinkDown
  <2>. QED BY <1>4, <2>1, <2>2 DEF LinkDown, Identify, ForgetModule, envVars, serverVars
<1>5. CASE LinkUp
  <2>1. queue' \in Seq(Event)
    BY <1>0, <1>5, PushIfType, EventFacts DEF LinkUp
  <2>. QED BY <1>5, <2>1 DEF LinkUp, Identify, EnterConnected, envVars, serverVars
<1>6. ASSUME NEW is20 \in BOOLEAN, NEW due \in BOOLEAN, NEW calibrated \in BOOLEAN,
             DataFrame(is20, due, calibrated)
      PROVE  TypeOK'
  <2>1. Detected(is20) \in {1, 2} /\ Fresh(is20) \in BOOLEAN
    BY DEF Detected, Fresh
  <2>2. AfterVersion(is20) \in Seq(Event)
    BY <2>1, PushIfType, EventFacts DEF AfterVersion
  <2>3. queue' \in Seq(Event)
    BY <1>6, <2>1, <2>2, PushIfType, EventFacts DEF DataFrame
  <2>4. stray' \subseteq {"version", "joyFw"}
    BY <1>6 DEF DataFrame, Straying
  <2>. QED BY <1>6, <2>1, <2>3, <2>4 DEF DataFrame, JoyFwKept, PollsJoyFw, serverVars
<1>7. CASE DataFrameThrows
  <2>1. Detected(TRUE) \in {1, 2} /\ Fresh(TRUE) \in BOOLEAN
    BY DEF Detected, Fresh
  <2>2. queue' \in Seq(Event)
    BY <1>7, <2>1, PushIfType, EventFacts DEF DataFrameThrows, AfterVersion
  <2>3. stray' \subseteq {"version", "joyFw"}
    BY <1>7 DEF DataFrameThrows, Straying
  <2>. QED BY <1>7, <2>2, <2>3 DEF DataFrameThrows, envVars, serverVars
<1>8. CASE JoystickFrame
  <2>1. queue' \in Seq(Event)
    BY <1>8, EventFacts DEF JoystickFrame, AnnounceJoyFw
  <2>2. fwAsked' \in BOOLEAN /\ joyFw' \in BOOLEAN
    BY <1>8 DEF JoystickFrame
  <2>3. UNCHANGED <<glove, portOpen, udState, target, ctrlVersion, announced, serverVars>>
    BY <1>8 DEF JoystickFrame
  <2>4. stray' \subseteq {"version", "joyFw"}
    BY <1>8 DEF JoystickFrame, Straying
  <2>. QED BY <2>1, <2>2, <2>3, <2>4 DEF serverVars
<1>9. CASE Listen
  BY <1>9 DEF Listen, envVars, coreVars
<1>12. ASSUME NEW e \in ReceiverEvent, PassOn(e) PROVE TypeOK'
  <2>1. queue' \in Seq(Event)
    BY <1>12, ReceiverEventFacts DEF PassOn
  <2>. QED BY <1>12, <2>1 DEF PassOn, envVars, serverVars
<1>10. CASE Deliver
  <2>1. queue' \in Seq(Event) /\ Head(queue) \in Event
    BY <1>10 DEF Deliver
  <2>2. HandAfter(H, Head(queue)) \in [link : UdStates, version : {0, 1, 2}, joyFw : BOOLEAN]
    BY <2>1 DEF HandAfter, ForgetShadow, Event, ReceiverEvent
  <2>3. ReceiverAfter(R, Head(queue)) \in [hand : Hands \cup {NoHand}, linked : BOOLEAN]
    BY DEF ReceiverAfter
  <2>4. NewsOf(Head(queue)) \subseteq News
    BY DEF NewsOf, News
  <2>. QED BY <1>10, <2>1, <2>2, <2>3, <2>4 DEF Deliver, envVars
<1>11. CASE UNCHANGED vars
  BY <1>11 DEF vars, envVars, coreVars, serverVars
<1>. QED BY <1>1, <1>2, <1>3, <1>4, <1>5, <1>6, <1>7, <1>8, <1>9, <1>10, <1>11, <1>12
         DEF Next, Environment, ParsePacket

-----------------------------------------------------------------------------
(* The views.  They are inductive together with what is known of the core:   *)
(* what it has found between two links, and a firmware it has without the     *)
(* 2.0 module, is stray news (Strays).                                        *)

Strays ==
  /\ udState = "NOT_CONNECT" /\ announced => "version" \in stray
  /\ udState = "NOT_CONNECT" /\ joyFw => "joyFw" \in stray
  /\ joyFw /\ ctrlVersion = 1 => "joyFw" \in stray

Views == LinkView /\ VersionView /\ JoyFwView /\ ForgottenView
IInv == TypeOK /\ Strays /\ LinkView /\ VersionView /\ JoyFwView /\ ForgottenView

LEMMA StraysStep == IInv /\ [Next]_vars => Strays'
<1>. SUFFICES ASSUME IInv, [Next]_vars PROVE Strays'
  OBVIOUS
<1>. USE DEF IInv, Strays
<1>1. CASE LinkDown
  BY <1>1 DEF LinkDown, ForgetModule
<1>2. CASE LinkUp
  <2>1. udState' # "NOT_CONNECT" /\ UNCHANGED <<ctrlVersion, announced, joyFw, stray>>
    BY <1>2 DEF LinkUp, EnterConnected
  <2>. QED BY <2>1
<1>3. ASSUME NEW is20 \in BOOLEAN, NEW due \in BOOLEAN, NEW calibrated \in BOOLEAN,
             DataFrame(is20, due, calibrated)
      PROVE  Strays'
  <2>1. /\ udState' = "NOT_CONNECT" <=> udState = "NOT_CONNECT"
        /\ "version" \in stray' <=> udState = "NOT_CONNECT"
        /\ "joyFw" \in stray' <=> "joyFw" \in stray
        /\ joyFw' => joyFw /\ ctrlVersion' = ctrlVersion
    BY <1>3 DEF DataFrame, Straying, JoyFwKept
  <2>. QED BY <2>1
<1>4. CASE DataFrameThrows
  <2>1. UNCHANGED udState /\ ~joyFw' /\ ("version" \in stray' <=> udState = "NOT_CONNECT")
    BY <1>4 DEF DataFrameThrows, Straying
  <2>. QED BY <2>1
<1>5. CASE JoystickFrame
  <2>1. /\ UNCHANGED <<udState, ctrlVersion, announced>>
        /\ "joyFw" \in stray' <=> (udState = "NOT_CONNECT" \/ ctrlVersion = 1)
        /\ "version" \in stray' <=> "version" \in stray
    BY <1>5 DEF JoystickFrame, Straying
  <2>. QED BY <2>1
<1>6. CASE Environment \/ Listen \/ Deliver \/ UNCHANGED vars
           \/ \E e \in ReceiverEvent : PassOn(e)
  <2>1. UNCHANGED <<udState, ctrlVersion, announced, joyFw, stray>>
    BY <1>6 DEF Environment, BindGlove, PortChange, JoystickAnswerLost, Listen, Deliver,
                PassOn, vars, coreVars
  <2>. QED BY <2>1
<1>. QED BY <1>1, <1>2, <1>3, <1>4, <1>5, <1>6 DEF Next, ParsePacket

\* A serial event ahead of a link-state packet's own is no news.
LEMMA SerialFirst ==
  ASSUME TypeOK, NEW k, NEW S
  PROVE  /\ AfterSerial \in Seq(Event)
         /\ LastNewsIn(queue, k, S) => LastNewsIn(AfterSerial, k, S)
         /\ About(AfterSerial, k) = About(queue, k)
<1>1. queue \in Seq(Event) /\ SerialEvent \in Event /\ k \notin NewsOf(SerialEvent)
  BY EventFacts DEF TypeOK
<1>2. CASE target = NoHand /\ glove # NoHand
  BY <1>1, <1>2, PushOther DEF AfterSerial, PushIf
<1>3. CASE ~(target = NoHand /\ glove # NoHand)
  BY <1>1, <1>3 DEF AfterSerial, PushIf
<1>. QED BY <1>2, <1>3

\* One turn of the event loop: a delivered event takes its news from the queue
\* to the hand, a dropped one is recorded as missed.
LEMMA DeliverInv == IInv /\ Deliver => Views'
<1>. SUFFICES ASSUME IInv, Deliver PROVE Views'
  OBVIOUS
<1>1. queue \in Seq(Event) /\ queue # <<>> /\ queue' = Tail(queue)
  BY DEF IInv, TypeOK, Deliver
<1>2. \/ /\ H' = HandAfter(H, Head(queue))
         /\ missed' = missed \ NewsOf(Head(queue))
      \/ /\ H' = H
         /\ missed' = missed \cup NewsOf(Head(queue))
  BY DEF Deliver
<1>3. H \in [link : UdStates, version : {0, 1, 2}, joyFw : BOOLEAN]
  BY DEF IInv, TypeOK
<1>. DEFINE e == Head(queue)
<1>4. e \in Event
  BY <1>1
<1>5. UNCHANGED <<udState, ctrlVersion, announced, joyFw>>
  BY DEF Deliver
<1>6. /\ "link" \notin NewsOf(e) => HandAfter(H, e).link = H.link
      /\ "version" \notin NewsOf(e) => HandAfter(H, e).version = H.version
      /\ "joyFw" \notin NewsOf(e) => HandAfter(H, e).joyFw = H.joyFw
  BY <1>3, <1>4 DEF HandAfter, ForgetShadow, NewsOf, News, Event, ReceiverEvent
<1>7. LinkView'
  <2>1. LastNewsIn(queue, "link", {LinkEvent(udState)})
        /\ (About(queue, "link") = {} /\ "link" \notin missed => H.link = udState)
    BY DEF IInv, LinkView, Told
  <2>2. e = LinkEvent(udState) => HandAfter(H, e).link = udState
    BY <1>3 DEF HandAfter, ForgetShadow, LinkEvent
  <2>3. LastNewsIn(Tail(queue), "link", {LinkEvent(udState)})
    BY <1>1, <2>1, Pop
  <2>4. ASSUME About(Tail(queue), "link") = {}, "link" \notin missed'
        PROVE  H'.link = udState
    <3>1. IF "link" \in NewsOf(e) THEN e = LinkEvent(udState) ELSE About(queue, "link") = {}
      BY <1>1, <2>1, <2>4, Pop
    <3>. QED BY <1>2, <1>6, <2>1, <2>2, <2>4, <3>1
  <2>. QED BY <1>1, <1>5, <2>3, <2>4 DEF LinkView, Told
<1>8. VersionView'
  <2>. DEFINE S == {VersionEvent(ctrlVersion), ButtonEvent(ctrlVersion)}
  <2>. SUFFICES ASSUME announced
                PROVE  Told("version", S, H.version = ctrlVersion)'
    BY <1>5 DEF VersionView
  <2>1. LastNewsIn(queue, "version", S)
        /\ (About(queue, "version") = {} /\ "version" \notin missed => H.version = ctrlVersion)
    BY DEF IInv, VersionView, Told
  <2>2. e \in S => HandAfter(H, e).version = ctrlVersion
    BY <1>3 DEF HandAfter, ForgetShadow, VersionEvent, ButtonEvent
  <2>3. LastNewsIn(Tail(queue), "version", S)
    BY <1>1, <2>1, Pop
  <2>4. ASSUME About(Tail(queue), "version") = {}, "version" \notin missed'
        PROVE  H'.version = ctrlVersion
    <3>1. IF "version" \in NewsOf(e) THEN e \in S ELSE About(queue, "version") = {}
      BY <1>1, <2>1, <2>4, Pop
    <3>. QED BY <1>2, <1>6, <2>1, <2>2, <2>4, <3>1
  <2>. QED BY <1>1, <1>5, <2>3, <2>4 DEF Told
<1>9. JoyFwView'
  <2>. SUFFICES ASSUME joyFw
                PROVE  Told("joyFw", {JoyFwEvent}, H.joyFw)'
    BY <1>5 DEF JoyFwView
  <2>1. LastNewsIn(queue, "joyFw", {JoyFwEvent})
        /\ (About(queue, "joyFw") = {} /\ "joyFw" \notin missed => H.joyFw)
    BY DEF IInv, JoyFwView, Told
  <2>2. e = JoyFwEvent => HandAfter(H, e).joyFw = TRUE
    BY <1>3 DEF HandAfter, JoyFwEvent
  <2>3. LastNewsIn(Tail(queue), "joyFw", {JoyFwEvent})
    BY <1>1, <2>1, Pop
  <2>4. ASSUME About(Tail(queue), "joyFw") = {}, "joyFw" \notin missed'
        PROVE  H'.joyFw
    <3>1. IF "joyFw" \in NewsOf(e) THEN e = JoyFwEvent ELSE About(queue, "joyFw") = {}
      BY <1>1, <2>1, <2>4, Pop
    <3>2. CASE "joyFw" \in NewsOf(e)
      BY <1>2, <2>2, <2>4, <3>1, <3>2
    <3>3. CASE "joyFw" \notin NewsOf(e)
      BY <1>2, <1>6, <2>1, <2>4, <3>1, <3>3
    <3>. QED BY <3>2, <3>3
  <2>. QED BY <1>1, <1>5, <2>3, <2>4 DEF Told
<1>10. ForgottenView'
  <2>. DEFINE S == {LinkEvent("NOT_CONNECT")}
  <2>1. HandAfter(H, LinkEvent("NOT_CONNECT")).version = 0
        /\ ~HandAfter(H, LinkEvent("NOT_CONNECT")).joyFw
    BY <1>3 DEF HandAfter, ForgetShadow, LinkEvent
  <2>2. UNCHANGED stray
    BY DEF Deliver
  <2>3. ASSUME ~announced, "version" \notin stray PROVE Told("version", S, H.version = 0)'
    <3>1. /\ LastNewsIn(queue, "version", S)
          /\ About(queue, "version") = {} /\ "version" \notin missed => H.version = 0
      BY <2>3 DEF IInv, ForgottenView, Forgotten, Told
    <3>2. LastNewsIn(Tail(queue), "version", S)
      BY <1>1, <3>1, Pop
    <3>3. ASSUME About(Tail(queue), "version") = {}, "version" \notin missed'
          PROVE  H'.version = 0
      <4>1. IF "version" \in NewsOf(e) THEN e \in S ELSE About(queue, "version") = {}
        BY <1>1, <3>1, <3>3, Pop
      <4>. QED BY <1>2, <1>6, <2>1, <3>1, <3>3, <4>1
    <3>. QED BY <1>1, <3>2, <3>3 DEF Told
  <2>4. ASSUME ~joyFw, "joyFw" \notin stray PROVE Told("joyFw", S, ~H.joyFw)'
    <3>1. /\ LastNewsIn(queue, "joyFw", S)
          /\ About(queue, "joyFw") = {} /\ "joyFw" \notin missed => ~H.joyFw
      BY <2>4 DEF IInv, ForgottenView, Forgotten, Told
    <3>2. LastNewsIn(Tail(queue), "joyFw", S)
      BY <1>1, <3>1, Pop
    <3>3. ASSUME About(Tail(queue), "joyFw") = {}, "joyFw" \notin missed'
          PROVE  ~H'.joyFw
      <4>1. IF "joyFw" \in NewsOf(e) THEN e \in S ELSE About(queue, "joyFw") = {}
        BY <1>1, <3>1, <3>3, Pop
      <4>2. CASE "joyFw" \in NewsOf(e)
        BY <1>2, <2>1, <3>3, <4>1, <4>2
      <4>3. CASE "joyFw" \notin NewsOf(e)
        BY <1>2, <1>6, <3>1, <3>3, <4>1, <4>3
      <4>. QED BY <4>2, <4>3
    <3>. QED BY <1>1, <3>2, <3>3 DEF Told
  <2>. QED BY <1>5, <2>2, <2>3, <2>4 DEF ForgottenView, Forgotten, Told
<1>. QED BY <1>7, <1>8, <1>9, <1>10 DEF Views

\* The handlers of link-state packets.
LEMMA LinkDownInv == IInv /\ LinkDown => Views'
<1>. SUFFICES ASSUME IInv, LinkDown PROVE Views'
  OBVIOUS
<1>1. /\ ~announced' /\ ~joyFw' /\ udState' = "NOT_CONNECT" /\ H' = H /\ missed' = missed
      /\ udState = "NOT_CONNECT" => UNCHANGED stray
  BY DEF LinkDown, ForgetModule, serverVars
<1>. DEFINE e == LinkEvent("NOT_CONNECT")
            S == {LinkEvent("NOT_CONNECT")}
<1>2. e \in Event /\ NewsOf(e) = News
  BY EventFacts DEF UdStates
<1>3. queue' = IF udState # "NOT_CONNECT" THEN Append(AfterSerial, e) ELSE AfterSerial
  BY DEF LinkDown, PushIf
<1>4. CASE udState # "NOT_CONNECT"
  <2>1. \A k \in News : LastNewsIn(queue', k, S) /\ About(queue', k) # {}
    BY <1>2, <1>3, <1>4, PushNews, SerialFirst DEF IInv
  <2>2. "link" \in News /\ "version" \in News /\ "joyFw" \in News
    BY DEF News
  <2>. QED BY <1>1, <2>1, <2>2
           DEF Views, LinkView, Told, VersionView, JoyFwView, ForgottenView, Forgotten
<1>5. CASE udState = "NOT_CONNECT"
  <2>1. LastNewsIn(queue, "link", S)
        /\ (About(queue, "link") = {} /\ "link" \notin missed => H.link = udState)
    BY <1>5 DEF IInv, LinkView, Told
  <2>2. LastNewsIn(queue', "link", S) /\ About(queue', "link") = About(queue, "link")
    BY <1>3, <1>5, <2>1, SerialFirst DEF IInv
  <2>3. LinkView'
    BY <1>1, <1>5, <2>1, <2>2 DEF LinkView, Told
  <2>4. \A k, T : /\ LastNewsIn(queue, k, T) => LastNewsIn(queue', k, T)
                  /\ About(queue', k) = About(queue, k)
    BY <1>3, <1>5, SerialFirst DEF IInv
  <2>5. ForgottenView'
    BY <1>1, <1>5, <2>4 DEF IInv, Strays, ForgottenView, Forgotten, Told
  <2>. QED BY <1>1, <2>3, <2>5 DEF Views, VersionView, JoyFwView
<1>. QED BY <1>4, <1>5

LEMMA LinkUpInv == IInv /\ LinkUp => Views'
<1>. SUFFICES ASSUME IInv, LinkUp PROVE Views'
  OBVIOUS
<1>1. UNCHANGED <<ctrlVersion, announced, joyFw, stray, H, missed>>
  BY DEF LinkUp, serverVars
<1>2. udState \in UdStates
  BY DEF IInv, TypeOK
<1>. DEFINE e == LinkEvent("CONNECTED")
            up == udState \in {"CONNECTED", "LINKED"}
<1>3. e \in Event /\ NewsOf(e) = {"link"}
  BY EventFacts DEF UdStates
<1>4. queue' = IF up THEN AfterSerial ELSE Append(AfterSerial, e)
  BY DEF LinkUp, PushIf
<1>5. udState' = IF up THEN udState ELSE "CONNECTED"
  BY <1>2 DEF LinkUp, EnterConnected, UdStates
<1>6. ASSUME NEW k, k # "link", NEW S, LastNewsIn(queue, k, S)
      PROVE  LastNewsIn(queue', k, S) /\ About(queue', k) = About(queue, k)
  BY <1>3, <1>4, <1>6, SerialFirst, PushOther DEF IInv
<1>7. LinkView'
  <2>1. CASE up
    <3>1. LastNewsIn(queue', "link", {LinkEvent(udState)})
          /\ About(queue', "link") = About(queue, "link")
      BY <1>4, <2>1, SerialFirst DEF IInv, LinkView, Told
    <3>. QED BY <1>1, <1>5, <2>1, <3>1 DEF IInv, LinkView, Told
  <2>2. CASE ~up
    <3>1. LastNewsIn(queue', "link", {e}) /\ About(queue', "link") # {}
      BY <1>3, <1>4, <2>2, SerialFirst, PushNews DEF IInv
    <3>. QED BY <1>5, <2>2, <3>1 DEF LinkView, Told
  <2>. QED BY <2>1, <2>2
<1>8. VersionView'
  BY <1>1, <1>6 DEF IInv, VersionView, Told
<1>9. JoyFwView'
  BY <1>1, <1>6 DEF IInv, JoyFwView, Told
<1>10. ForgottenView'
  BY <1>1, <1>6 DEF IInv, ForgottenView, Forgotten, Told
<1>. QED BY <1>7, <1>8, <1>9, <1>10 DEF Views

\* The module detection of a data frame: whether or not the version event is
\* pushed, the last news of the version is the version detected.
LEMMA Detection ==
  ASSUME IInv, NEW is20 \in BOOLEAN
  PROVE  LET v == Detected(is20)  q == AfterVersion(is20)
         IN  /\ v \in {1, 2} /\ q \in Seq(Event)
             /\ LastNewsIn(q, "version", {VersionEvent(v), ButtonEvent(v)})
             /\ About(q, "version") = {} /\ "version" \notin missed => H.version = v
             /\ \A k, S : k # "version" =>
                  /\ LastNewsIn(queue, k, S) => LastNewsIn(q, k, S)
                  /\ About(q, k) = About(queue, k)
<1>. DEFINE v == Detected(is20)
            q == AfterVersion(is20)
            e == VersionEvent(v)
            S == {VersionEvent(v), ButtonEvent(v)}
<1>1. v \in {1, 2} /\ queue \in Seq(Event)
  BY DEF Detected, IInv, TypeOK
<1>2. e \in Event /\ NewsOf(e) = {"version"}
  BY <1>1, EventFacts
<1>3. CASE Fresh(is20)
  <2>1. q = Append(queue, e)
    BY <1>3 DEF AfterVersion, PushIf
  <2>2. LastNewsIn(q, "version", S) /\ About(q, "version") # {}
    BY <1>1, <1>2, <2>1, PushNews
  <2>3. \A k, T : k # "version" =>
          /\ LastNewsIn(queue, k, T) => LastNewsIn(q, k, T)
          /\ About(q, k) = About(queue, k)
    BY <1>1, <1>2, <2>1, PushOther
  <2>. QED BY <1>1, <1>2, <2>1, <2>2, <2>3
<1>4. CASE ~Fresh(is20)
  <2>1. q = queue /\ announced /\ v = ctrlVersion
    BY <1>4 DEF AfterVersion, PushIf, Fresh
  <2>2. Told("version", S, H.version = v)
    BY <2>1 DEF IInv, VersionView
  <2>. QED BY <1>1, <2>1, <2>2 DEF Told
<1>. QED BY <1>3, <1>4

LEMMA DataFrameInv ==
  ASSUME IInv, NEW is20 \in BOOLEAN, NEW due \in BOOLEAN, NEW calibrated \in BOOLEAN,
         DataFrame(is20, due, calibrated)
  PROVE  Views'
<1>. DEFINE v == Detected(is20)
            q1 == AfterVersion(is20)
            press == calibrated /\ udState = "LINKED"
            q2 == IF press THEN Append(q1, ButtonEvent(v)) ELSE q1
            linking == udState = "CONNECTED"
            S == {VersionEvent(v), ButtonEvent(v)}
<1>1. /\ queue' = IF linking THEN Append(q2, LinkEvent("LINKED")) ELSE q2
      /\ udState' = IF linking THEN "LINKED" ELSE udState
      /\ ctrlVersion' = v /\ announced'
      /\ joyFw' = JoyFwKept(is20)
      /\ H' = H /\ missed' = missed
  BY DEF DataFrame, PushIf, serverVars
<1>2. v \in {1, 2} /\ q1 \in Seq(Event)
  BY Detection
<1>3. /\ ButtonEvent(v) \in Event /\ NewsOf(ButtonEvent(v)) = {"version"}
      /\ LinkEvent("LINKED") \in Event /\ NewsOf(LinkEvent("LINKED")) = {"link"}
  BY <1>2, EventFacts DEF UdStates
<1>4. q2 \in Seq(Event)
  BY <1>2, <1>3
<1>5. \A k, T : k # "version" =>
        /\ LastNewsIn(queue, k, T) => LastNewsIn(q2, k, T)
        /\ About(q2, k) = About(queue, k)
  <2>1. \A k, T : k # "version" =>
          /\ LastNewsIn(queue, k, T) => LastNewsIn(q1, k, T)
          /\ About(q1, k) = About(queue, k)
    BY Detection
  <2>. QED BY <1>2, <1>3, <2>1, PushOther
<1>6. /\ LastNewsIn(q2, "version", S)
      /\ About(q2, "version") = {} /\ "version" \notin missed => H.version = v
  <2>1. /\ LastNewsIn(q1, "version", S)
        /\ About(q1, "version") = {} /\ "version" \notin missed => H.version = v
    BY Detection
  <2>2. CASE press
    BY <1>2, <1>3, <2>2, PushNews
  <2>3. CASE ~press
    BY <2>1, <2>3
  <2>. QED BY <2>2, <2>3
<1>7. LinkView'
  <2>1. CASE linking
    BY <1>1, <1>3, <1>4, <2>1, PushNews DEF LinkView, Told
  <2>2. CASE ~linking
    BY <1>1, <1>5, <2>2 DEF IInv, LinkView, Told
  <2>. QED BY <2>1, <2>2
<1>8. \A k, T : k # "link" =>
        /\ LastNewsIn(q2, k, T) => LastNewsIn(queue', k, T)
        /\ About(queue', k) = About(q2, k)
  BY <1>1, <1>3, <1>4, PushOther
<1>9. VersionView'
  BY <1>1, <1>6, <1>8 DEF VersionView, Told
<1>10. JoyFwView'
  BY <1>1, <1>5, <1>8 DEF IInv, JoyFwView, JoyFwKept, Told
<1>11. ForgottenView'
  <2>1. "joyFw" \in stray' <=> "joyFw" \in stray
    BY DEF DataFrame, Straying
  <2>2. joyFw /\ ~joyFw' => ctrlVersion = 1
    BY <1>1 DEF JoyFwKept, Detected, IInv, TypeOK
  <2>3. ~joyFw' /\ "joyFw" \notin stray' => ~joyFw /\ "joyFw" \notin stray
    BY <2>1, <2>2 DEF IInv, Strays
  <2>. QED BY <1>1, <1>5, <1>8, <2>3 DEF IInv, ForgottenView, Forgotten, Told
<1>. QED BY <1>7, <1>9, <1>10, <1>11 DEF Views

LEMMA DataFrameThrowsInv == IInv /\ DataFrameThrows => Views'
<1>. SUFFICES ASSUME IInv, DataFrameThrows PROVE Views'
  OBVIOUS
<1>1. /\ queue' = AfterVersion(TRUE) /\ ctrlVersion' = 2 /\ announced' /\ ~joyFw'
      /\ UNCHANGED <<udState, H, missed>>
  BY DEF DataFrameThrows, serverVars
<1>2. Detected(TRUE) = 2
  BY DEF Detected
<1>3. LinkView'
  BY <1>1, Detection DEF IInv, LinkView, Told
<1>4. VersionView'
  BY <1>1, <1>2, Detection DEF VersionView, Told
<1>5. ForgottenView'
  <2>1. "joyFw" \in stray' <=> "joyFw" \in stray
    BY DEF DataFrameThrows, Straying
  <2>2. joyFw => ctrlVersion = 1
    BY <1>2 DEF DataFrameThrows, PollsJoyFw, JoyFwKept, IInv, TypeOK
  <2>3. "joyFw" \notin stray' => ~joyFw /\ "joyFw" \notin stray
    BY <2>1, <2>2 DEF IInv, Strays
  <2>. QED BY <1>1, <2>3, Detection DEF IInv, ForgottenView, Forgotten, Told
<1>. QED BY <1>1, <1>3, <1>4, <1>5 DEF Views, JoyFwView

LEMMA JoystickFrameInv == IInv /\ JoystickFrame => Views'
<1>. SUFFICES ASSUME IInv, JoystickFrame PROVE Views'
  OBVIOUS
<1>1. /\ queue' = Append(queue, JoyFwEvent) /\ queue \in Seq(Event)
      /\ JoyFwEvent \in Event /\ NewsOf(JoyFwEvent) = {"joyFw"}
      /\ UNCHANGED <<udState, ctrlVersion, announced, H, missed>>
  BY EventFacts DEF JoystickFrame, AnnounceJoyFw, IInv, TypeOK, serverVars
<1>2. \A k, T : k # "joyFw" =>
        /\ LastNewsIn(queue, k, T) => LastNewsIn(queue', k, T)
        /\ About(queue', k) = About(queue, k)
  BY <1>1, PushOther
<1>3. JoyFwView'
  BY <1>1, PushNews DEF JoyFwView, Told
<1>4. ForgottenView'
  <2>1. joyFw' /\ ("version" \in stray' <=> "version" \in stray)
    BY DEF JoystickFrame, Straying
  <2>. QED BY <1>1, <1>2, <2>1 DEF IInv, ForgottenView, Forgotten, Told
<1>. QED BY <1>1, <1>2, <1>3, <1>4 DEF IInv, Views, LinkView, VersionView, Told

LEMMA PassOnInv ==
  ASSUME IInv, NEW e \in ReceiverEvent, PassOn(e)
  PROVE  Views'
<1>1. /\ queue' = Append(queue, e) /\ queue \in Seq(Event)
      /\ e \in Event /\ NewsOf(e) = {}
      /\ UNCHANGED <<udState, ctrlVersion, announced, joyFw, stray, H, missed>>
  BY ReceiverEventFacts DEF PassOn, IInv, TypeOK, serverVars
<1>2. \A k, T :
        /\ LastNewsIn(queue, k, T) => LastNewsIn(queue', k, T)
        /\ About(queue', k) = About(queue, k)
  BY <1>1, PushOther
<1>. QED BY <1>1, <1>2
         DEF IInv, Views, LinkView, VersionView, JoyFwView, ForgottenView, Forgotten, Told

-----------------------------------------------------------------------------
(* The theorem.                                                             *)

LEMMA StepInv == IInv /\ [Next]_vars => IInv'
<1>. SUFFICES ASSUME IInv, [Next]_vars PROVE Views'
  BY TypeStep, StraysStep DEF IInv, Views
<1>1. CASE UNCHANGED <<queue, udState, ctrlVersion, announced, joyFw, stray, H, missed>>
  BY <1>1 DEF IInv, Views, LinkView, VersionView, JoyFwView, ForgottenView, Forgotten, Told
<1>2. CASE Environment \/ Listen \/ UNCHANGED vars
  BY <1>1, <1>2 DEF Environment, BindGlove, PortChange, JoystickAnswerLost, Listen,
                    vars, coreVars, serverVars
<1>3. CASE ParsePacket
  BY <1>3, LinkDownInv, LinkUpInv, DataFrameInv, DataFrameThrowsInv, JoystickFrameInv, PassOnInv
     DEF ParsePacket
<1>4. CASE Deliver
  BY <1>4, DeliverInv
<1>. QED BY <1>2, <1>3, <1>4 DEF Next

\* The listener's view of link, module and firmware follows the core's, for
\* any hands and any queue bound, with the port failing at any moment.
THEOREM ViewsFollowCore == Spec => [](LinkView /\ ModuleView)
<1>1. Init => IInv
  <2>. SUFFICES ASSUME Init PROVE IInv
    OBVIOUS
  <2>1. queue = <<>> /\ queue \in Seq(Event)
    BY DEF Init
  <2>2. \A k, T : LastNewsIn(queue, k, T)
    BY <2>1 DEF LastNewsIn, About
  <2>3. TypeOK
    BY <2>1 DEF Init, TypeOK, UdStates
  <2>4. LinkView
    BY <2>2 DEF Init, LinkView, Told
  <2>5. ~announced /\ ~joyFw
    BY DEF Init
  <2>6. ForgottenView
    BY <2>2 DEF Init, ForgottenView, Forgotten, Told
  <2>. QED BY <2>3, <2>4, <2>5, <2>6 DEF IInv, Strays, VersionView, JoyFwView
<1>2. IInv => LinkView /\ ModuleView
  BY DEF IInv, ModuleView
<1>. QED BY <1>1, <1>2, StepInv, PTL DEF Spec

-----------------------------------------------------------------------------
(* The core under the record.                                               *)

LEMMA AnswerFacts ==
  /\ \A b \in BOOLEAN : [cmd |-> "PAIRING", pairing |-> b] \in ReceiverEvent
  /\ \A c \in Bytes : [cmd |-> "CHANNEL", channel |-> c] \in ReceiverEvent
BY DEF ReceiverEvent

LEMMA StepIsCoreStep == RecordTypeOK /\ RecordNext => [Next]_vars
<1>. SUFFICES ASSUME RecordTypeOK, RecordNext PROVE [Next]_vars
  OBVIOUS
<1>1. CASE MainThread
  BY <1>1 DEF MainThread, PairStart, PairStarted, PairStop, PairStopLooks, PairStopped,
              SetChannel, ChannelSet, GetChannel, Send
<1>2. CASE AnswerPairing
  <2>1. PICK e \in ReceiverEvent : PassOn(e)
    BY <1>2, AnswerFacts DEF AnswerPairing
  <2>. QED BY <2>1 DEF Next, ParsePacket
<1>3. ASSUME NEW accepted \in BOOLEAN, AnswerChannel(accepted) PROVE Next
  <2>1. channel' \in Bytes
    BY <1>3 DEF AnswerChannel, Next1, Command, RecordTypeOK
  <2>2. PICK e \in ReceiverEvent : PassOn(e)
    BY <1>3, <2>1, AnswerFacts DEF AnswerChannel
  <2>. QED BY <2>2 DEF Next, ParsePacket
<1>4. CASE AnswerLost
  BY <1>4 DEF AnswerLost
<1>5. CASE RecordDeliver
  BY <1>5 DEF RecordDeliver, Next
<1>6. CASE CoreStep
  BY <1>6 DEF CoreStep, Next, ParsePacket
<1>. QED BY <1>1, <1>2, <1>3, <1>4, <1>5, <1>6 DEF RecordNext

-----------------------------------------------------------------------------
(* Types.                                                                   *)

LEMMA RecordTypeStep == RecordTypeOK /\ [RecordNext]_recVars => RecordTypeOK'
<1>. SUFFICES ASSUME RecordTypeOK, [RecordNext]_recVars PROVE RecordTypeOK'
  OBVIOUS
<1>. USE DEF RecordTypeOK
<1>1. TypeOK'
  BY StepIsCoreStep, TypeStep DEF recVars
<1>2. Unknown \in Words32 /\ 0 \in Words32 /\ \A a \in Words32 : a % ByteMod \in Bytes
  BY WordAssumption, ByteAssumption DEF Unknown, Words32, Bytes
<1>3. Bytes \subseteq Words32
  BY WordAssumption, ByteAssumption DEF Words32, Bytes
<1>4. /\ [cmd |-> "PAIR"] \in Command /\ [cmd |-> "UNPAIR"] \in Command
      /\ [cmd |-> "GET_CHANNEL"] \in Command
      /\ \A c \in Bytes : [cmd |-> "SET_CHANNEL", channel |-> c] \in Command
  BY DEF Command
<1>. DEFINE Sent == /\ use' \in Uses /\ channel' \in Bytes /\ asked' \in Seq(Command)
                    /\ UNCHANGED recordVars
<1>5. ASSUME NEW c \in Command, Send(c) PROVE Sent
  BY <1>5 DEF Send
<1>6. CASE PairStart
  <2>1. Sent
    BY <1>4, <1>5, <1>6 DEF PairStart
  <2>2. doing' = "PAIR_START" /\ search' \in {"stale", "on"} /\ UNCHANGED <<arg2, doubt>>
    BY <1>6 DEF PairStart
  <2>. QED BY <1>1, <2>1, <2>2 DEF recordVars, Searches
<1>7. CASE PairStarted
  <2>1. pairState' = "SEARCHING" /\ search' \in Searches /\ doing' = "nothing"
    BY <1>7 DEF PairStarted, Searching, Searches
  <2>. QED BY <1>1, <1>7, <2>1 DEF PairStarted, askVars
<1>8. CASE PairStop
  <2>1. Sent
    BY <1>4, <1>5, <1>8 DEF PairStop
  <2>. QED BY <1>1, <1>8, <2>1 DEF PairStop, recordVars, histVars
<1>9. CASE PairStopLooks
  <2>1. doing' \in {"IDLE", "nothing"} /\ search' \in Searches
    BY <1>9 DEF PairStopLooks, Stopped, Searches
  <2>. QED BY <1>1, <1>9, <2>1 DEF PairStopLooks, askVars, recordVars
<1>10. CASE PairStopped
  <2>1. search' \in Searches
    BY <1>10 DEF PairStopped, Stopped, Searches
  <2>. QED BY <1>1, <1>10, <2>1 DEF PairStopped, askVars
<1>11. ASSUME NEW w \in Words32, SetChannel(w) PROVE RecordTypeOK'
  <2>1. Sent
    BY <1>2, <1>4, <1>5, <1>11 DEF SetChannel
  <2>. QED BY <1>1, <1>11, <2>1 DEF SetChannel, recordVars, histVars
<1>12. CASE ChannelSet
  <2>1. doubt' \in BOOLEAN
    BY <1>12 DEF ChannelSet
  <2>2. recChannel' = arg2 /\ arg2' = 0 /\ doing' = "nothing"
        /\ UNCHANGED <<askVars, pairState, search>>
    BY <1>12 DEF ChannelSet
  <2>. QED BY <1>1, <1>2, <2>1, <2>2 DEF askVars
<1>13. CASE GetChannel
  <2>1. Sent
    BY <1>4, <1>5, <1>13 DEF GetChannel
  <2>. QED BY <1>1, <1>13, <2>1 DEF GetChannel, recordVars, mainVars, histVars
<1>14. CASE AnswerPairing
  BY <1>1, <1>14 DEF AnswerPairing, mainVars, recordVars, histVars
<1>15. ASSUME NEW accepted \in BOOLEAN, AnswerChannel(accepted) PROVE RecordTypeOK'
  <2>1. channel' \in Bytes /\ asked' \in Seq(Command)
    BY <1>15 DEF AnswerChannel, Next1, Command
  <2>. QED BY <1>1, <1>15, <2>1 DEF AnswerChannel, mainVars, recordVars, histVars
<1>16. CASE AnswerLost
  <2>1. doubt' \in BOOLEAN
    BY <1>16 DEF AnswerLost
  <2>2. asked' \in Seq(Command) /\ UNCHANGED <<use, channel, mainVars, recordVars, search>>
    BY <1>16 DEF AnswerLost
  <2>. QED BY <1>1, <2>1, <2>2 DEF mainVars, recordVars
<1>17. CASE RecordDeliver
  <2>1. Head(queue) \in Event
    BY <1>17 DEF RecordDeliver, Deliver, TypeOK
  <2>. DEFINE e == Head(queue)
  <2>2. CASE listening /\ e.cmd = "PAIRING" /\ e.pairing
    <3>1. Searching /\ UNCHANGED <<recChannel, doubt>>
      BY <1>17, <2>2 DEF RecordDeliver, RecordAfter, LinkEvent
    <3>2. pairState' = "SEARCHING" /\ search' \in Searches
      BY <3>1 DEF Searching, Searches
    <3>. QED BY <1>1, <1>17, <3>1, <3>2 DEF RecordDeliver, askVars, mainVars
  <2>3. CASE listening /\ e.cmd = "CHANNEL"
    <3>1. recChannel' = e.channel /\ doubt' = FALSE /\ UNCHANGED <<pairState, search>>
      BY <1>17, <2>3 DEF RecordDeliver, RecordAfter, Refined, LinkEvent
    <3>2. e.channel \in Bytes
      BY <2>1, <2>3 DEF Event, ReceiverEvent
    <3>. QED BY <1>1, <1>3, <1>17, <3>1, <3>2 DEF RecordDeliver, askVars, mainVars
  <2>4. CASE UNCHANGED <<recordVars, histVars>>
    BY <1>1, <1>17, <2>4 DEF RecordDeliver, askVars, mainVars, recordVars, histVars
  <2>5. CASE pairState' = "SUCCESS" /\ UNCHANGED <<recChannel, histVars>>
    BY <1>1, <1>17, <2>5 DEF RecordDeliver, askVars, mainVars, histVars
  <2>. QED BY <1>17, <2>2, <2>3, <2>4, <2>5 DEF RecordDeliver, RecordAfter
<1>18. CASE CoreStep
  <2>1. search' \in Searches
    BY <1>18 DEF CoreStep, Searches
  <2>. QED BY <1>1, <1>18, <2>1 DEF CoreStep, askVars, mainVars, recordVars
<1>19. CASE UNCHANGED recVars
  BY <1>1, <1>19 DEF recVars, askVars, mainVars, recordVars, histVars
<1>. QED BY <1>6, <1>7, <1>8, <1>9, <1>10, <1>11, <1>12, <1>13, <1>14, <1>15, <1>16,
            <1>17, <1>18, <1>19 DEF RecordNext, MainThread
-----------------------------------------------------------------------------
(* The queue.                                                               *)

LEMMA PushWaits ==
  ASSUME NEW S, NEW q \in Seq(S), NEW e \in S, NEW d
  PROVE  Waits(Append(q, e), d) <=> Waits(q, d) \/ d = e
<1>1. /\ Len(Append(q, e)) = Len(q) + 1
      /\ \A i \in 1 .. Len(q) : Append(q, e)[i] = q[i]
      /\ Append(q, e)[Len(q) + 1] = e
      /\ Len(q) \in Nat
  OBVIOUS
<1>. QED BY <1>1 DEF Waits

LEMMA PopWaits ==
  ASSUME NEW S, NEW q \in Seq(S), q # <<>>, NEW d
  PROVE  Waits(q, d) <=> d = Head(q) \/ Waits(Tail(q), d)
<1>1. /\ Len(q) \in Nat \ {0}
      /\ Len(Tail(q)) = Len(q) - 1
      /\ \A i \in 1 .. Len(q) - 1 : Tail(q)[i] = q[i + 1]
      /\ Head(q) = q[1]
  OBVIOUS
<1>2. ASSUME Waits(q, d) PROVE d = Head(q) \/ Waits(Tail(q), d)
  <2>1. PICK i \in 1 .. Len(q) : q[i] = d
    BY <1>2 DEF Waits
  <2>2. CASE i = 1
    BY <1>1, <2>1, <2>2
  <2>3. CASE i # 1
    <3>1. i - 1 \in 1 .. Len(q) - 1 /\ Tail(q)[i - 1] = q[(i - 1) + 1]
      BY <1>1, <2>3
    <3>. QED BY <1>1, <2>1, <3>1 DEF Waits
  <2>. QED BY <2>2, <2>3
<1>3. ASSUME Waits(Tail(q), d) PROVE Waits(q, d)
  <2>1. PICK i \in 1 .. Len(q) - 1 : Tail(q)[i] = d
    BY <1>1, <1>3 DEF Waits
  <2>2. i + 1 \in 1 .. Len(q) /\ q[i + 1] = d
    BY <1>1, <2>1
  <2>. QED BY <2>2 DEF Waits
<1>4. d = Head(q) => Waits(q, d)
  BY <1>1 DEF Waits
<1>. QED BY <1>2, <1>3, <1>4

\* r is q with events of S behind it.
Grows(q, r, S) ==
  /\ r \in Seq(Event)
  /\ Len(q) <= Len(r)
  /\ \A i \in 1 .. Len(r) : IF i <= Len(q) THEN r[i] = q[i] ELSE r[i] \in S

LEMMA GrowPush ==
  ASSUME NEW q \in Seq(Event), NEW r, NEW S, Grows(q, r, S),
         NEW c \in BOOLEAN, NEW e \in Event, e \in S
  PROVE  Grows(q, PushIf(r, c, e), S)
<1>1. /\ Len(Append(r, e)) = Len(r) + 1
      /\ \A i \in 1 .. Len(r) : Append(r, e)[i] = r[i]
      /\ Append(r, e)[Len(r) + 1] = e
      /\ Len(r) \in Nat /\ Len(q) \in Nat
      /\ Append(r, e) \in Seq(Event)
  BY DEF Grows
<1>. QED BY <1>1 DEF Grows, PushIf

\* What the core pushes: no receiver events, and LINKED when it has linked.
CoreEvents == {e \in Event : e.cmd \notin {"PAIRING", "CHANNEL"}}
Others == CoreEvents \ {LinkEvent("LINKED")}
Linking == udState # "LINKED" /\ udState' = "LINKED"

LEMMA CoreEventFacts ==
  /\ SerialEvent \in Others /\ JoyFwEvent \in Others
  /\ LinkEvent("NOT_CONNECT") \in Others /\ LinkEvent("CONNECTED") \in Others
  /\ \A v \in {1, 2} : VersionEvent(v) \in Others /\ ButtonEvent(v) \in Others
  /\ LinkEvent("LINKED") \in CoreEvents
BY DEF Others, CoreEvents, Event, UdStates, SerialEvent, JoyFwEvent, LinkEvent,
       VersionEvent, ButtonEvent

LEMMA CorePushes ==
  ASSUME RecordTypeOK, CoreStep
  PROVE  \/ ~Linking /\ Grows(queue, queue', Others)
         \/ /\ udState = "CONNECTED" /\ Linking
            /\ Grows(queue, queue', CoreEvents)
            /\ Waits(queue', LinkEvent("LINKED"))
<1>1. queue \in Seq(Event) /\ udState \in UdStates
  BY DEF RecordTypeOK, TypeOK
<1>2. Grows(queue, queue, Others)
  BY <1>1 DEF Grows
<1>3. Others \subseteq Event /\ Others \subseteq CoreEvents /\ CoreEvents \subseteq Event
  BY DEF Others, CoreEvents
<1>4. Grows(queue, AfterSerial, Others)
  BY <1>1, <1>2, <1>3, CoreEventFacts, GrowPush DEF AfterSerial
<1>5. ASSUME NEW is20 \in BOOLEAN
      PROVE  Detected(is20) \in {1, 2} /\ Grows(queue, AfterVersion(is20), Others)
  <2>1. Detected(is20) \in {1, 2} /\ Fresh(is20) \in BOOLEAN
    BY DEF Detected, Fresh, RecordTypeOK, TypeOK
  <2>. QED BY <1>1, <1>2, <1>3, <2>1, CoreEventFacts, GrowPush DEF AfterVersion
<1>6. CASE Environment \/ Listen
  BY <1>2, <1>6 DEF Environment, BindGlove, PortChange, JoystickAnswerLost, Listen,
                    coreVars, Linking
<1>7. CASE LinkDown
  BY <1>1, <1>3, <1>4, <1>7, CoreEventFacts, GrowPush DEF LinkDown, Linking
<1>8. CASE LinkUp
  <2>1. Grows(queue, queue', Others)
    BY <1>1, <1>3, <1>4, <1>8, CoreEventFacts, GrowPush DEF LinkUp
  <2>. QED BY <1>8, <2>1 DEF LinkUp, EnterConnected, Linking
<1>9. ASSUME NEW is20 \in BOOLEAN, NEW due \in BOOLEAN, NEW calibrated \in BOOLEAN,
             DataFrame(is20, due, calibrated)
      PROVE  \/ ~Linking /\ Grows(queue, queue', Others)
             \/ /\ udState = "CONNECTED" /\ Linking
                /\ Grows(queue, queue', CoreEvents)
                /\ Waits(queue', LinkEvent("LINKED"))
  <2>. DEFINE e == ButtonEvent(Detected(is20))
              c == calibrated /\ udState = "LINKED"
              q == PushIf(AfterVersion(is20), c, e)
  <2>1. Grows(queue, q, Others) /\ q \in Seq(Event)
    <3>1. c \in BOOLEAN /\ e \in Others
      BY <1>5, CoreEventFacts
    <3>2. Grows(queue, q, Others)
      BY <1>1, <1>3, <1>5, <3>1, GrowPush
    <3>. QED BY <3>2 DEF Grows
  <2>2. queue' = PushIf(q, udState = "CONNECTED", LinkEvent("LINKED"))
        /\ udState' = IF udState = "CONNECTED" THEN "LINKED" ELSE udState
    BY <1>9 DEF DataFrame
  <2>3. CASE udState = "CONNECTED"
    <3>1. queue' = Append(q, LinkEvent("LINKED")) /\ LinkEvent("LINKED") \in Event
      BY <1>3, <2>2, <2>3, CoreEventFacts DEF PushIf
    <3>2. Waits(queue', LinkEvent("LINKED"))
      BY <2>1, <3>1, PushWaits
    <3>3. Grows(queue, q, CoreEvents)
      BY <1>3, <2>1 DEF Grows
    <3>4. Grows(queue, queue', CoreEvents)
      BY <1>1, <1>3, <2>2, <3>3, CoreEventFacts, GrowPush
    <3>. QED BY <2>2, <2>3, <3>2, <3>4 DEF Linking
  <2>4. CASE udState # "CONNECTED"
    BY <2>1, <2>2, <2>4 DEF PushIf, Linking
  <2>. QED BY <2>3, <2>4
<1>10. CASE DataFrameThrows
  BY <1>5, <1>10 DEF DataFrameThrows, Linking
<1>11. CASE JoystickFrame
  <2>1. queue' = PushIf(queue, TRUE, JoyFwEvent)
    BY <1>11 DEF JoystickFrame, AnnounceJoyFw, PushIf
  <2>. QED BY <1>1, <1>2, <1>3, <1>11, <2>1, CoreEventFacts, GrowPush DEF JoystickFrame, Linking
<1>. QED BY <1>6, <1>7, <1>8, <1>9, <1>10, <1>11 DEF CoreStep

\* So no event of another kind is added or taken away.
LEMMA GrowWaits ==
  ASSUME NEW q \in Seq(Event), NEW r, NEW S, Grows(q, r, S), NEW d
  PROVE  /\ Waits(q, d) => Waits(r, d)
         /\ d \notin S /\ Waits(r, d) => Waits(q, d)
<1>1. Len(q) \in Nat /\ Len(r) \in Nat
  BY DEF Grows
<1>. QED BY <1>1 DEF Grows, Waits

-----------------------------------------------------------------------------
(* The pairing state.                                                       *)

\* The inductive invariant behind the three promises about it.
PairInv ==
  /\ udState \in {"CONNECTED", "LINKED"} => target # NoHand
  /\ LinkedWaits => target # NoHand /\ search # "on"
  /\ search # "none" \/ doing # "nothing" => listening
  /\ doing = "PAIR_START" => search \notin {"none", "stopped"}
  /\ search = "none" => pairState = "IDLE" /\ ~SearchAnswerDue
  /\ search = "on" /\ doing # "PAIR_START" => pairState = "SEARCHING"
  /\ search = "found" /\ doing # "PAIR_START"
       => pairState = "SUCCESS" \/ (pairState = "SEARCHING" /\ LinkedWaits)
  /\ search = "stopped" => pairState # "SEARCHING" /\ ~SearchAnswerDue

LEMMA PairingEventFacts ==
  LET on == [cmd |-> "PAIRING", pairing |-> TRUE] IN
  /\ on \in Event /\ on \notin CoreEvents /\ on # LinkEvent("LINKED")
  /\ \A e \in Event : e = on <=> (e.cmd = "PAIRING" /\ e.pairing)
  /\ LinkEvent("LINKED") \in Event
BY DEF ReceiverEvent, Event, CoreEvents, LinkEvent, UdStates

\* No command but PAIR_START makes an answer to one due.
LEMMA SendDue ==
  ASSUME RecordTypeOK, NEW c \in Command, Send(c), c # [cmd |-> "PAIR"]
  PROVE  SearchAnswerDue' <=> SearchAnswerDue
<1>1. asked \in Seq(Command) /\ asked' = Append(asked, c) /\ queue' = queue
  BY DEF RecordTypeOK, Send, vars, coreVars
<1>2. Waits(asked', [cmd |-> "PAIR"]) <=> Waits(asked, [cmd |-> "PAIR"])
  BY <1>1, PushWaits
<1>. QED BY <1>1, <1>2 DEF SearchAnswerDue

LEMMA MainPairInv == RecordTypeOK /\ PairInv /\ MainThread => PairInv'
<1>. SUFFICES ASSUME RecordTypeOK, PairInv, MainThread PROVE PairInv'
  OBVIOUS
<1>1. UNCHANGED <<udState, target, listening, queue>>
  BY DEF MainThread, PairStart, PairStarted, PairStop, PairStopLooks, PairStopped,
         SetChannel, ChannelSet, GetChannel, Send, vars, coreVars, serverVars
<1>2. LinkedWaits' <=> LinkedWaits
  BY <1>1 DEF LinkedWaits
<1>. DEFINE Same == UNCHANGED <<pairState, search>> /\ (SearchAnswerDue' <=> SearchAnswerDue)
<1>3. ASSUME Same, doing' # "PAIR_START", doing # "PAIR_START",
             doing' = "nothing" \/ listening
      PROVE  PairInv'
  BY <1>1, <1>2, <1>3 DEF PairInv
<1>4. CASE PairStart
  BY <1>1, <1>2, <1>4 DEF PairStart, Idle, Send, recordVars, PairInv
<1>5. CASE PairStarted
  <2>1. SearchAnswerDue' <=> SearchAnswerDue
    BY <1>1, <1>5 DEF PairStarted, askVars, SearchAnswerDue
  <2>. QED BY <1>1, <1>2, <1>5, <2>1 DEF PairStarted, Searching, PairInv
<1>6. CASE PairStop
  <2>1. [cmd |-> "UNPAIR"] \in Command /\ [cmd |-> "UNPAIR"] # [cmd |-> "PAIR"]
    BY DEF Command
  <2>2. SearchAnswerDue' <=> SearchAnswerDue
    BY <1>6, <2>1, SendDue DEF PairStop
  <2>. QED BY <1>3, <1>6, <2>2 DEF PairStop, Idle, Send, recordVars, histVars
<1>7. CASE PairStopLooks
  <2>1. SearchAnswerDue' <=> SearchAnswerDue
    BY <1>1, <1>7 DEF PairStopLooks, askVars, SearchAnswerDue
  <2>2. listening
    BY <1>7 DEF PairStopLooks, PairInv
  <2>. QED BY <1>1, <1>2, <1>7, <2>1, <2>2
           DEF PairStopLooks, StillSearching, Stopped, recordVars, PairInv
<1>8. CASE PairStopped
  <2>1. SearchAnswerDue' <=> SearchAnswerDue
    BY <1>1, <1>8 DEF PairStopped, askVars, SearchAnswerDue
  <2>. QED BY <1>1, <1>2, <1>8, <2>1 DEF PairStopped, Stopped, PairInv
<1>9. ASSUME NEW w \in Words32, SetChannel(w) PROVE PairInv'
  <2>. DEFINE c == [cmd |-> "SET_CHANNEL", channel |-> w % ByteMod]
  <2>1. c \in Command
    BY WordAssumption, ByteAssumption DEF Command, Bytes, Words32
  <2>2. c # [cmd |-> "PAIR"]
    <3>1. c.cmd = "SET_CHANNEL" /\ [cmd |-> "PAIR"].cmd = "PAIR"
      OBVIOUS
    <3>. QED BY <3>1
  <2>3. SearchAnswerDue' <=> SearchAnswerDue
    BY <1>9, <2>1, <2>2, SendDue DEF SetChannel
  <2>. QED BY <1>3, <1>9, <2>3 DEF SetChannel, Idle, Send, recordVars, histVars
<1>10. CASE ChannelSet
  <2>1. SearchAnswerDue' <=> SearchAnswerDue
    BY <1>1, <1>10 DEF ChannelSet, askVars, SearchAnswerDue
  <2>. QED BY <1>3, <1>10, <2>1 DEF ChannelSet
<1>11. CASE GetChannel
  <2>1. [cmd |-> "GET_CHANNEL"] \in Command /\ [cmd |-> "GET_CHANNEL"] # [cmd |-> "PAIR"]
    BY DEF Command
  <2>2. SearchAnswerDue' <=> SearchAnswerDue
    BY <1>11, <2>1, SendDue DEF GetChannel
  <2>. QED BY <1>3, <1>11, <2>2 DEF GetChannel, Idle, Send, mainVars, recordVars, histVars
<1>. QED BY <1>4, <1>5, <1>6, <1>7, <1>8, <1>9, <1>10, <1>11 DEF MainThread

\* An answer goes from the receiver's commands to the queue.
LEMMA AnswerPairInv ==
  ASSUME RecordTypeOK, PairInv,
         AnswerPairing \/ AnswerLost \/ \E accepted \in BOOLEAN : AnswerChannel(accepted)
  PROVE  PairInv'
<1>. DEFINE on == [cmd |-> "PAIRING", pairing |-> TRUE]
            ask == [cmd |-> "PAIR"]
<1>1. asked \in Seq(Command) /\ asked # <<>> /\ asked' = Tail(asked) /\ queue \in Seq(Event)
  BY DEF RecordTypeOK, TypeOK, AnswerPairing, AnswerLost, AnswerChannel
<1>2. Waits(asked, ask) <=> ask = Head(asked) \/ Waits(asked', ask)
  BY <1>1, PopWaits
<1>3. UNCHANGED <<udState, target, listening, doing, pairState, search>>
  BY DEF AnswerPairing, AnswerLost, AnswerChannel, PassOn, vars, coreVars, serverVars,
         mainVars, recordVars, histVars
<1>4. /\ LinkedWaits' <=> LinkedWaits
      /\ SearchAnswerDue' => SearchAnswerDue
  <2>1. CASE AnswerPairing
    <3>. DEFINE e == [cmd |-> "PAIRING", pairing |-> Head(asked).cmd = "PAIR"]
    <3>1. e \in ReceiverEvent /\ queue' = Append(queue, e)
      BY <2>1, AnswerFacts DEF AnswerPairing, PassOn, Next1
    <3>2. e \in Event /\ e # LinkEvent("LINKED")
      BY <3>1, ReceiverEventFacts DEF LinkEvent
    <3>3. LinkedWaits' <=> LinkedWaits
      BY <1>1, <3>1, <3>2, PushWaits DEF LinkedWaits
    <3>4. Waits(queue', on) <=> Waits(queue, on) \/ on = e
      BY <1>1, <3>1, <3>2, PushWaits
    <3>5. on = e => Head(asked) = ask
      <4>1. Head(asked) \in Command
        BY <1>1
      <4>2. on = e => Head(asked).cmd = "PAIR"
        OBVIOUS
      <4>. QED BY <4>1, <4>2 DEF Command
    <3>. QED BY <1>2, <3>3, <3>4, <3>5 DEF SearchAnswerDue
  <2>2. CASE AnswerLost
    <3>1. queue' = queue
      BY <2>2 DEF AnswerLost, vars, coreVars
    <3>. QED BY <1>2, <3>1 DEF SearchAnswerDue, LinkedWaits
  <2>3. ASSUME NEW accepted \in BOOLEAN, AnswerChannel(accepted)
        PROVE  /\ LinkedWaits' <=> LinkedWaits
               /\ SearchAnswerDue' => SearchAnswerDue
    <3>. DEFINE e == [cmd |-> "CHANNEL", channel |-> channel']
    <3>1. channel' \in Bytes
      BY <2>3, <1>1 DEF AnswerChannel, Next1, Command, RecordTypeOK
    <3>2. e \in ReceiverEvent /\ queue' = Append(queue, e)
      BY <2>3, <3>1, AnswerFacts DEF AnswerChannel, PassOn
    <3>3. e \in Event /\ e # LinkEvent("LINKED") /\ e # on
      BY <3>2, ReceiverEventFacts DEF LinkEvent
    <3>. QED BY <1>1, <1>2, <3>2, <3>3, PushWaits DEF LinkedWaits, SearchAnswerDue
  <2>. QED BY <2>1, <2>2, <2>3
<1>. QED BY <1>3, <1>4 DEF PairInv

LEMMA DeliverPairInv == RecordTypeOK /\ PairInv /\ RecordDeliver => PairInv'
<1>. SUFFICES ASSUME RecordTypeOK, PairInv, RecordDeliver PROVE PairInv'
  OBVIOUS
<1>. DEFINE on == [cmd |-> "PAIRING", pairing |-> TRUE]
            e == Head(queue)
<1>1. queue \in Seq(Event) /\ queue # <<>> /\ queue' = Tail(queue) /\ e \in Event
  BY DEF RecordTypeOK, TypeOK, RecordDeliver, Deliver
<1>2. UNCHANGED <<udState, target, listening, asked, doing>>
  BY DEF RecordDeliver, Deliver, askVars, mainVars
<1>3. /\ LinkedWaits <=> LinkEvent("LINKED") = e \/ LinkedWaits'
      /\ Waits(queue, on) <=> on = e \/ Waits(queue', on)
  BY <1>1, PopWaits DEF LinkedWaits
<1>4. SearchAnswerDue' => SearchAnswerDue
  BY <1>2, <1>3 DEF SearchAnswerDue
<1>5. CASE listening /\ e.cmd = "PAIRING" /\ e.pairing
  <2>1. Searching /\ e # LinkEvent("LINKED") /\ SearchAnswerDue
    BY <1>1, <1>3, <1>5, PairingEventFacts
       DEF RecordDeliver, RecordAfter, LinkEvent, SearchAnswerDue
  <2>. QED BY <1>2, <1>3, <1>4, <1>5, <2>1 DEF Searching, PairInv
<1>6. CASE listening /\ e = LinkEvent("LINKED") /\ target # NoHand /\ FoundWhen
  <2>1. pairState' = "SUCCESS" /\ UNCHANGED search
    BY <1>6, PairingEventFacts DEF RecordDeliver, RecordAfter, LinkEvent, histVars
  <2>. QED BY <1>2, <1>3, <1>4, <1>6, <2>1 DEF FoundWhen, PairInv
<1>7. CASE ~(listening /\ e.cmd = "PAIRING" /\ e.pairing)
           /\ ~(listening /\ e = LinkEvent("LINKED") /\ target # NoHand /\ FoundWhen)
  <2>1. UNCHANGED <<pairState, search>>
    BY <1>7 DEF RecordDeliver, RecordAfter, recordVars, histVars
  <2>. QED BY <1>2, <1>3, <1>4, <1>7, <2>1 DEF FoundWhen, PairInv
<1>. QED BY <1>5, <1>6, <1>7

LEMMA CorePairInv == RecordTypeOK /\ PairInv /\ CoreStep => PairInv'
<1>. SUFFICES ASSUME RecordTypeOK, PairInv, CoreStep PROVE PairInv'
  OBVIOUS
<1>1. UNCHANGED <<asked, doing, pairState>>
  BY DEF CoreStep, askVars, mainVars, recordVars
<1>2. listening => listening'
  BY DEF CoreStep, Environment, BindGlove, PortChange, JoystickAnswerLost, LinkDown, LinkUp,
         DataFrame, DataFrameThrows, JoystickFrame, Listen, serverVars
<1>3. /\ target # NoHand => target' # NoHand
      /\ udState' \in {"CONNECTED", "LINKED"} /\ udState' # udState => target' # NoHand
  <2>1. CASE LinkUp
    BY <2>1 DEF LinkUp, Identify
  <2>2. CASE LinkDown
    BY <2>2 DEF LinkDown, Identify
  <2>3. ASSUME NEW is20 \in BOOLEAN, NEW due \in BOOLEAN, NEW calibrated \in BOOLEAN,
               DataFrame(is20, due, calibrated)
        PROVE  target' = target /\ (udState' # udState => udState = "CONNECTED")
    BY <2>3 DEF DataFrame
  <2>4. CASE Environment \/ DataFrameThrows \/ JoystickFrame \/ Listen
    BY <2>4 DEF Environment, BindGlove, PortChange, JoystickAnswerLost, DataFrameThrows,
                JoystickFrame, Listen, coreVars
  <2>. QED BY <2>1, <2>2, <2>3, <2>4 DEF CoreStep, PairInv
<1>4. udState' \in {"CONNECTED", "LINKED"} => target' # NoHand
  BY <1>3 DEF PairInv
<1>5. queue \in Seq(Event)
  BY DEF RecordTypeOK, TypeOK
<1>6. SearchAnswerDue' => SearchAnswerDue
  BY <1>1, <1>5, CorePushes, GrowWaits, PairingEventFacts DEF SearchAnswerDue, Others
<1>7. search' = IF search = "on" /\ Linking THEN "found" ELSE search
  BY DEF CoreStep, Linking
<1>8. CASE ~Linking /\ Grows(queue, queue', Others)
  <2>1. LinkedWaits' <=> LinkedWaits
    BY <1>5, <1>8, GrowWaits DEF LinkedWaits, Others
  <2>. QED BY <1>1, <1>2, <1>3, <1>4, <1>6, <1>7, <1>8, <2>1 DEF PairInv
<1>9. CASE Linking /\ Waits(queue', LinkEvent("LINKED"))
  <2>1. LinkedWaits'
    BY <1>9 DEF LinkedWaits
  <2>2. target' # NoHand
    BY <1>4, <1>9 DEF Linking
  <2>. QED BY <1>1, <1>2, <1>4, <1>6, <1>7, <1>9, <2>1, <2>2 DEF PairInv
<1>. QED BY <1>8, <1>9, CorePushes

-----------------------------------------------------------------------------
(* The channel.                                                             *)

ChannelEvents(q) == {i \in 1 .. Len(q) : q[i].cmd = "CHANNEL"}

\* The last channel on its way to the listener is c.
LastChannelIs(q, c) ==
  \A i \in ChannelEvents(q) :
    (\A j \in ChannelEvents(q) : j <= i) => q[i].channel = c

\* It is the receiver's; and so is the record's when there is none and nothing
\* is in doubt.  The record is untouched before the listener is there.
ChannelInv ==
  /\ LastChannelIs(queue, channel)
  /\ ChannelIsTheReceivers
  /\ listening \/ recChannel = Unknown

LEMMA ChannelGrow ==
  ASSUME NEW q \in Seq(Event), NEW r, NEW S, Grows(q, r, S),
         \A e \in S : e.cmd # "CHANNEL"
  PROVE  /\ ChannelEvents(r) = ChannelEvents(q)
         /\ \A c : LastChannelIs(q, c) => LastChannelIs(r, c)
<1>1. Len(q) \in Nat /\ Len(r) \in Nat
  BY DEF Grows
<1>2. ChannelEvents(r) = ChannelEvents(q)
  BY <1>1 DEF Grows, ChannelEvents
<1>3. \A i \in ChannelEvents(q) : r[i] = q[i]
  BY <1>1 DEF Grows, ChannelEvents
<1>. QED BY <1>2, <1>3 DEF LastChannelIs

LEMMA ChannelPush ==
  ASSUME NEW q \in Seq(Event), NEW e \in Event, e.cmd = "CHANNEL"
  PROVE  ChannelEvents(Append(q, e)) # {} /\ LastChannelIs(Append(q, e), e.channel)
<1>1. /\ Len(Append(q, e)) = Len(q) + 1
      /\ Append(q, e)[Len(q) + 1] = e
      /\ Len(q) \in Nat
  OBVIOUS
<1>2. Len(q) + 1 \in ChannelEvents(Append(q, e))
  BY <1>1 DEF ChannelEvents
<1>3. ASSUME NEW i \in ChannelEvents(Append(q, e)),
             \A j \in ChannelEvents(Append(q, e)) : j <= i
      PROVE  Append(q, e)[i].channel = e.channel
  <2>1. Len(q) + 1 <= i /\ i \in 1 .. Len(q) + 1
    BY <1>1, <1>2, <1>3 DEF ChannelEvents
  <2>2. i = Len(q) + 1
    BY <1>1, <2>1
  <2>. QED BY <1>1, <2>2
<1>. QED BY <1>2, <1>3 DEF LastChannelIs

LEMMA ChannelPop ==
  ASSUME NEW q \in Seq(Event), q # <<>>, NEW c, LastChannelIs(q, c)
  PROVE  /\ LastChannelIs(Tail(q), c)
         /\ ChannelEvents(Tail(q)) = {} =>
              IF Head(q).cmd = "CHANNEL" THEN Head(q).channel = c ELSE ChannelEvents(q) = {}
<1>1. /\ Len(q) \in Nat \ {0}
      /\ Len(Tail(q)) = Len(q) - 1
      /\ \A i \in 1 .. Len(q) - 1 : Tail(q)[i] = q[i + 1]
      /\ Head(q) = q[1]
  OBVIOUS
<1>2. \A i \in 1 .. Len(q) - 1 : i \in ChannelEvents(Tail(q)) <=> i + 1 \in ChannelEvents(q)
  BY <1>1 DEF ChannelEvents
<1>3. \A i \in ChannelEvents(q) : i = 1 \/ i - 1 \in ChannelEvents(Tail(q))
  <2>. SUFFICES ASSUME NEW i \in ChannelEvents(q), i # 1 PROVE i - 1 \in ChannelEvents(Tail(q))
    OBVIOUS
  <2>1. i - 1 \in 1 .. Len(q) - 1 /\ (i - 1) + 1 = i
    BY <1>1 DEF ChannelEvents
  <2>. QED BY <1>2, <2>1
<1>4. ASSUME NEW i \in ChannelEvents(Tail(q)), \A j \in ChannelEvents(Tail(q)) : j <= i
      PROVE  Tail(q)[i].channel = c
  <2>1. i \in 1 .. Len(q) - 1 /\ i + 1 \in ChannelEvents(q)
    BY <1>1, <1>2 DEF ChannelEvents
  <2>2. ASSUME NEW j \in ChannelEvents(q) PROVE j <= i + 1
    <3>1. j \in Int
      BY <1>1 DEF ChannelEvents
    <3>2. j = 1 \/ j - 1 <= i
      BY <1>3, <1>4
    <3>. QED BY <1>1, <2>1, <3>1, <3>2
  <2>. QED BY <1>1, <2>1, <2>2 DEF LastChannelIs
<1>5. ASSUME ChannelEvents(Tail(q)) = {}
      PROVE  IF Head(q).cmd = "CHANNEL" THEN Head(q).channel = c ELSE ChannelEvents(q) = {}
  <2>1. ChannelEvents(q) \subseteq {1}
    BY <1>3, <1>5
  <2>2. 1 \in ChannelEvents(q) <=> Head(q).cmd = "CHANNEL"
    BY <1>1 DEF ChannelEvents
  <2>3. 1 <= 1
    OBVIOUS
  <2>. QED BY <1>1, <2>1, <2>2, <2>3 DEF LastChannelIs
<1>. QED BY <1>4, <1>5 DEF LastChannelIs

SetAsked(q) == \E i \in 1 .. Len(q) : q[i].cmd = "SET_CHANNEL"

LEMMA DueSplit == SetAnswerDue <=> SetAsked(asked) \/ ChannelEvents(queue) # {}
BY DEF SetAnswerDue, SetAsked, ChannelEvents

LEMMA SetPush ==
  ASSUME NEW c \in Command, asked \in Seq(Command), SetAsked(asked)
  PROVE  SetAsked(Append(asked, c))
<1>1. /\ Len(Append(asked, c)) = Len(asked) + 1
      /\ \A i \in 1 .. Len(asked) : Append(asked, c)[i] = asked[i]
      /\ Len(asked) \in Nat
  OBVIOUS
<1>. QED BY <1>1 DEF SetAsked

LEMMA SetPop ==
  ASSUME asked \in Seq(Command), asked # <<>>, SetAsked(asked)
  PROVE  Head(asked).cmd = "SET_CHANNEL" \/ SetAsked(Tail(asked))
<1>1. /\ Len(asked) \in Nat \ {0}
      /\ Len(Tail(asked)) = Len(asked) - 1
      /\ \A i \in 1 .. Len(asked) - 1 : Tail(asked)[i] = asked[i + 1]
      /\ Head(asked) = asked[1]
  OBVIOUS
<1>2. PICK i \in 1 .. Len(asked) : asked[i].cmd = "SET_CHANNEL"
  BY DEF SetAsked
<1>3. CASE i = 1
  BY <1>1, <1>2, <1>3
<1>4. CASE i # 1
  <2>1. i - 1 \in 1 .. Len(asked) - 1 /\ (i - 1) + 1 = i
    BY <1>1, <1>4
  <2>2. i - 1 \in 1 .. Len(Tail(asked)) /\ Tail(asked)[i - 1] = asked[i]
    BY <1>1, <2>1
  <2>. QED BY <1>2, <2>2 DEF SetAsked
<1>. QED BY <1>3, <1>4

LEMMA MainChannelInv == RecordTypeOK /\ PairInv /\ ChannelInv /\ MainThread => ChannelInv'
<1>. SUFFICES ASSUME RecordTypeOK, PairInv, ChannelInv, MainThread PROVE ChannelInv'
  OBVIOUS
<1>1. UNCHANGED <<queue, channel, listening>>
  BY DEF MainThread, PairStart, PairStarted, PairStop, PairStopLooks, PairStopped,
         SetChannel, ChannelSet, GetChannel, Send, vars, coreVars, serverVars, askVars
<1>2. SetAnswerDue => SetAnswerDue'
  <2>1. CASE UNCHANGED asked
    BY <1>1, <2>1 DEF SetAnswerDue
  <2>2. ASSUME NEW c \in Command, Send(c) PROVE SetAnswerDue => SetAnswerDue'
    <3>1. asked' = Append(asked, c) /\ asked \in Seq(Command)
      BY <2>2 DEF Send, RecordTypeOK
    <3>. QED BY <1>1, <3>1, SetPush DEF SetAnswerDue, SetAsked
  <2>3. /\ [cmd |-> "PAIR"] \in Command /\ [cmd |-> "UNPAIR"] \in Command
        /\ [cmd |-> "GET_CHANNEL"] \in Command
        /\ \A w \in Words32 : [cmd |-> "SET_CHANNEL", channel |-> w % ByteMod] \in Command
    BY WordAssumption, ByteAssumption DEF Command, Bytes, Words32
  <2>. QED BY <2>1, <2>2, <2>3
           DEF MainThread, PairStart, PairStarted, PairStop, PairStopLooks, PairStopped,
               SetChannel, ChannelSet, GetChannel, askVars
<1>3. CASE ChannelSet
  <2>1. doubt' = (doubt \/ ~SetAnswerDue) /\ listening
    BY <1>3 DEF ChannelSet, PairInv
  <2>. QED BY <1>1, <1>2, <2>1 DEF ChannelInv, ChannelIsTheReceivers
<1>4. CASE \E w \in Words32 : SetChannel(w)
  BY <1>1, <1>4 DEF SetChannel, Idle, ChannelInv, ChannelIsTheReceivers
<1>5. CASE PairStart \/ PairStarted \/ PairStop \/ PairStopLooks \/ PairStopped \/ GetChannel
  <2>1. UNCHANGED <<recChannel, doubt>> /\ doing # "SET_CHANNEL"
    BY <1>5 DEF PairStart, PairStarted, PairStop, PairStopLooks, PairStopped, GetChannel,
                Send, Idle, recordVars, histVars
  <2>. QED BY <1>1, <1>2, <2>1 DEF ChannelInv, ChannelIsTheReceivers
<1>. QED BY <1>3, <1>4, <1>5 DEF MainThread

LEMMA AnswerChannelInv ==
  ASSUME RecordTypeOK, ChannelInv,
         AnswerPairing \/ AnswerLost \/ \E accepted \in BOOLEAN : AnswerChannel(accepted)
  PROVE  ChannelInv'
<1>1. asked \in Seq(Command) /\ asked # <<>> /\ asked' = Tail(asked) /\ queue \in Seq(Event)
  BY DEF RecordTypeOK, TypeOK, AnswerPairing, AnswerLost, AnswerChannel
<1>2. SetAsked(asked) => Head(asked).cmd = "SET_CHANNEL" \/ SetAsked(asked')
  BY <1>1, SetPop
<1>3. SetAnswerDue' <=> SetAsked(asked') \/ ChannelEvents(queue') # {}
  BY DEF SetAnswerDue, SetAsked, ChannelEvents
<1>4. CASE AnswerPairing
  <2>1. UNCHANGED <<channel, listening, doing, recChannel, doubt>>
        /\ Head(asked).cmd # "SET_CHANNEL"
    BY <1>4 DEF AnswerPairing, PassOn, Next1, serverVars, mainVars, recordVars, histVars
  <2>2. PICK e \in ReceiverEvent : queue' = Append(queue, e) /\ e.cmd = "PAIRING"
    BY <1>4, AnswerFacts DEF AnswerPairing, PassOn
  <2>3. e \in Event
    BY ReceiverEventFacts
  <2>4. Grows(queue, queue, {e})
    BY <1>1 DEF Grows
  <2>5. Grows(queue, PushIf(queue, TRUE, e), {e})
    BY <1>1, <2>3, <2>4, GrowPush
  <2>6. Grows(queue, queue', {e})
    BY <2>2, <2>5 DEF PushIf
  <2>7. ChannelEvents(queue') = ChannelEvents(queue) /\ LastChannelIs(queue', channel)
    BY <1>1, <2>2, <2>6, ChannelGrow DEF ChannelInv
  <2>. QED BY <1>2, <1>3, <2>1, <2>7, DueSplit DEF ChannelInv, ChannelIsTheReceivers
<1>5. CASE AnswerLost
  <2>1. UNCHANGED <<queue, channel, listening, doing, recChannel>>
        /\ doubt' = (doubt \/ Head(asked).cmd = "SET_CHANNEL")
    BY <1>5 DEF AnswerLost, Next1, vars, coreVars, serverVars, mainVars, recordVars
  <2>. QED BY <1>2, <1>3, <2>1, DueSplit DEF ChannelInv, ChannelIsTheReceivers
<1>6. ASSUME NEW accepted \in BOOLEAN, AnswerChannel(accepted) PROVE ChannelInv'
  <2>. DEFINE e == [cmd |-> "CHANNEL", channel |-> channel']
  <2>1. channel' \in Bytes
    BY <1>1, <1>6 DEF AnswerChannel, Next1, Command, RecordTypeOK
  <2>2. e \in Event /\ queue' = Append(queue, e) /\ UNCHANGED <<listening, recChannel>>
    BY <1>6, <2>1, AnswerFacts, ReceiverEventFacts
       DEF AnswerChannel, PassOn, serverVars, recordVars
  <2>3. ChannelEvents(queue') # {} /\ LastChannelIs(queue', channel')
    BY <1>1, <2>2, ChannelPush
  <2>. QED BY <1>3, <2>2, <2>3 DEF ChannelInv, ChannelIsTheReceivers
<1>. QED BY <1>4, <1>5, <1>6

LEMMA DeliverChannelInv == RecordTypeOK /\ ChannelInv /\ RecordDeliver => ChannelInv'
<1>. SUFFICES ASSUME RecordTypeOK, ChannelInv, RecordDeliver PROVE ChannelInv'
  OBVIOUS
<1>. DEFINE e == Head(queue)
<1>1. queue \in Seq(Event) /\ queue # <<>> /\ queue' = Tail(queue)
  BY DEF RecordTypeOK, TypeOK, RecordDeliver, Deliver
<1>2. UNCHANGED <<channel, listening, asked, doing>>
  BY DEF RecordDeliver, Deliver, askVars, mainVars
<1>3. /\ LastChannelIs(queue', channel)
      /\ ChannelEvents(queue') = {} =>
           IF e.cmd = "CHANNEL" THEN e.channel = channel ELSE ChannelEvents(queue) = {}
  BY <1>1, ChannelPop DEF ChannelInv
<1>4. SetAnswerDue' <=> SetAsked(asked') \/ ChannelEvents(queue') # {}
  BY DEF SetAnswerDue, SetAsked, ChannelEvents
<1>5. CASE listening /\ e.cmd = "CHANNEL"
  <2>1. recChannel' = e.channel
    BY <1>5 DEF RecordDeliver, RecordAfter, Refined, LinkEvent
  <2>. QED BY <1>2, <1>3, <1>4, <1>5, <2>1 DEF ChannelInv, ChannelIsTheReceivers
<1>6. CASE ~listening
  <2>1. recChannel' = Unknown
    BY <1>6 DEF RecordDeliver, recordVars, ChannelInv
  <2>. QED BY <1>2, <1>3, <2>1 DEF ChannelInv, ChannelIsTheReceivers
<1>7. CASE listening /\ e.cmd # "CHANNEL"
  <2>1. UNCHANGED <<recChannel, doubt>>
    BY <1>7 DEF RecordDeliver, RecordAfter, Searching, recordVars, histVars
  <2>. QED BY <1>2, <1>3, <1>4, <1>7, <2>1, DueSplit DEF ChannelInv, ChannelIsTheReceivers
<1>. QED BY <1>5, <1>6, <1>7

LEMMA CoreChannelInv == RecordTypeOK /\ ChannelInv /\ CoreStep => ChannelInv'
<1>. SUFFICES ASSUME RecordTypeOK, ChannelInv, CoreStep PROVE ChannelInv'
  OBVIOUS
<1>1. UNCHANGED <<channel, asked, doing, recChannel, doubt>>
  BY DEF CoreStep, askVars, mainVars, recordVars
<1>2. listening => listening'
  BY DEF CoreStep, Environment, BindGlove, PortChange, JoystickAnswerLost, LinkDown, LinkUp,
         DataFrame, DataFrameThrows, JoystickFrame, Listen, serverVars
<1>3. queue \in Seq(Event) /\ \A e \in CoreEvents : e.cmd # "CHANNEL"
  BY DEF RecordTypeOK, TypeOK, CoreEvents
<1>4. ChannelEvents(queue') = ChannelEvents(queue) /\ LastChannelIs(queue', channel)
  BY <1>3, CorePushes, ChannelGrow DEF Others, ChannelInv
<1>5. SetAnswerDue' <=> SetAnswerDue
  BY <1>1, <1>4 DEF SetAnswerDue, ChannelEvents
<1>. QED BY <1>1, <1>2, <1>4, <1>5 DEF ChannelInv, ChannelIsTheReceivers

-----------------------------------------------------------------------------
(* The theorems.                                                            *)

RecordInv == RecordTypeOK /\ PairInv /\ ChannelInv

LEMMA RecordInitInv == RecordInit => RecordInv
<1>. SUFFICES ASSUME RecordInit PROVE RecordInv
  OBVIOUS
<1>1. Unknown \in Words32 /\ 0 \in Words32 /\ 0 \in Bytes
  BY WordAssumption, ByteAssumption DEF Unknown, Words32, Bytes
<1>2. queue = <<>> /\ asked = <<>> /\ <<>> \in Seq(Event) /\ <<>> \in Seq(Command)
  BY DEF RecordInit, Init
<1>3. RecordTypeOK
  <2>1. TypeOK
    BY <1>2 DEF RecordInit, Init, TypeOK, UdStates
  <2>2. doubt \in BOOLEAN
    BY DEF RecordInit
  <2>. QED BY <1>1, <1>2, <2>1, <2>2 DEF RecordInit, RecordTypeOK, Searches
<1>4. ~LinkedWaits /\ ~SearchAnswerDue /\ ChannelEvents(queue) = {}
  BY <1>2 DEF LinkedWaits, SearchAnswerDue, Waits, ChannelEvents
<1>5. PairInv
  BY <1>4 DEF RecordInit, Init, PairInv
<1>6. ChannelInv
  BY <1>4 DEF RecordInit, ChannelInv, ChannelIsTheReceivers, LastChannelIs
<1>. QED BY <1>3, <1>5, <1>6 DEF RecordInv

LEMMA RecordStepInv == RecordInv /\ [RecordNext]_recVars => RecordInv'
<1>. SUFFICES ASSUME RecordInv, [RecordNext]_recVars PROVE RecordInv'
  OBVIOUS
<1>1. RecordTypeOK'
  BY RecordTypeStep DEF RecordInv
<1>2. CASE UNCHANGED recVars
  <2>1. UNCHANGED <<queue, udState, target, listening, asked, channel, doing, pairState,
                    recChannel, search, doubt>>
    BY <1>2 DEF recVars, vars, coreVars, serverVars, askVars, mainVars, recordVars, histVars
  <2>. QED BY <1>1, <2>1 DEF RecordInv, PairInv, ChannelInv, ChannelIsTheReceivers,
                             LinkedWaits, SearchAnswerDue, SetAnswerDue
<1>3. CASE RecordNext
  <2>1. PairInv'
    BY <1>3, MainPairInv, AnswerPairInv, DeliverPairInv, CorePairInv DEF RecordInv, RecordNext
  <2>2. ChannelInv'
    BY <1>3, MainChannelInv, AnswerChannelInv, DeliverChannelInv, CoreChannelInv
       DEF RecordInv, RecordNext
  <2>. QED BY <1>1, <2>1, <2>2 DEF RecordInv
<1>. QED BY <1>2, <1>3

LEMMA RecordInvariance == RecordSpec => []RecordInv
  BY RecordInitInv, RecordStepInv, PTL DEF RecordSpec

\* Whatever the main thread asks of the receiver and the receiver answers, the
\* core and the listener behave as CoreLink says (udcap_server.cpp:193-228, 545-590).
THEOREM CoreImplemented == RecordSpec => Spec
<1>1. RecordInit => Init
  BY DEF RecordInit
<1>2. RecordInv /\ [RecordNext]_recVars => [Next]_vars
  BY StepIsCoreStep DEF RecordInv, recVars
<1>. QED BY <1>1, <1>2, RecordInvariance, PTL DEF RecordSpec, Spec

\* The record and everything under it keep their types.
THEOREM RecordTypes == RecordSpec => []RecordTypeOK
<1>1. RecordInv => RecordTypeOK
  BY DEF RecordInv
<1>. QED BY <1>1, RecordInvariance, PTL

\* The listener's views of link, module and firmware follow the core's with
\* pairing results and channels between their events.
THEOREM RecordViews == RecordSpec => [](LinkView /\ ModuleView)
BY CoreImplemented, ViewsFollowCore, PTL

\* What the listener knows of the controller module is the core's, or is about to
\* be: an identity found is found on both sides, and one forgotten on a lost link is
\* forgotten on both (UdCapV1Core.cpp:355-363, 513-543, udcap_server.cpp:575-579).
THEOREM ModuleFollows == RecordSpec => []ModuleView
<1>1. LinkView /\ ModuleView => ModuleView
  OBVIOUS
<1>. QED BY <1>1, RecordViews, PTL

\* "Once 2.0 is seen, stay 2.0 until the link drops" (UdCapV1Core.cpp:516-519).
THEOREM ModuleSticks == RecordSpec => StickyModule
<1>1. RecordInv /\ [RecordNext]_recVars
        => [ctrlVersion = 2 /\ ctrlVersion' # 2 => udState' = "NOT_CONNECT"]_vars
  <2>. SUFFICES ASSUME Next, ctrlVersion = 2, ctrlVersion' # 2 PROVE udState' = "NOT_CONNECT"
    BY StepIsCoreStep DEF RecordInv, recVars
  <2>. QED BY DEF Next, Environment, ParsePacket, BindGlove, PortChange, JoystickAnswerLost,
                  LinkDown, LinkUp, DataFrame, Detected, DataFrameThrows, JoystickFrame,
                  PassOn, Listen, Deliver, coreVars
<1>. QED BY <1>1, RecordInvariance, PTL DEF RecordSpec, StickyModule

\* SUCCESS is of the search under way (203-209, 586-587).
THEOREM SuccessOfThisSearch == RecordSpec => []SuccessIsOfThisSearch
<1>1. RecordInv => SuccessIsOfThisSearch
  BY DEF RecordInv, PairInv, SuccessIsOfThisSearch
<1>. QED BY <1>1, RecordInvariance, PTL

\* A search that finds its glove says so (207-208, 547-550, 586-587).
THEOREM SearchReported == RecordSpec => []SearchIsReported
<1>1. RecordInv => SearchIsReported
  BY DEF RecordInv, PairInv, SearchIsReported
<1>. QED BY <1>1, RecordInvariance, PTL

\* A stopped search stays stopped, unless its answer was still due (212-214, 547-550).
THEOREM StoppedIsFinal == RecordSpec => []StopIsFinal
<1>1. RecordInv => StopIsFinal
  BY DEF RecordInv, PairInv, StopIsFinal
<1>. QED BY <1>1, RecordInvariance, PTL

\* The channel on record is the receiver's when all is told (218-219, 551-554).
THEOREM ChannelOfReceiver == RecordSpec => []ChannelIsTheReceivers
<1>1. RecordInv => ChannelIsTheReceivers
  BY DEF RecordInv, ChannelInv
<1>. QED BY <1>1, RecordInvariance, PTL
=============================================================================
