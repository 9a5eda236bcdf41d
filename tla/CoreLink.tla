----------------------------- MODULE CoreLink -----------------------------
(***************************************************************************)
(* The link half of UdCapV1Core (src/UdCapV1Core.cpp) for one receiver, and *)
(* the server's listener (server/udcap_server.cpp:545-697) that follows it. *)
(*                                                                          *)
(*  - The rx thread runs parsePacket: link-state packets drive udState,     *)
(*    data packets drive the controller-module detection and, from          *)
(*    CONNECTED, the step to LINKED.  Each handler queues events.           *)
(*  - The event-loop thread pops one event and calls the listener, which    *)
(*    keeps the hand's shadow (H) and the receiver's record (R).            *)
(*                                                                          *)
(* The two threads meet in the event queue alone, and the listener reads of *)
(* the core only its target, so each handler and each callback is one step. *)
(* A send throws when the port is closed, and the exception ends the        *)
(* handler there: what it did before the send stays done.                   *)
(*                                                                          *)
(* The pairing results and channels the receiver sends are only passed on   *)
(* here; ReceiverRecord is about them.  Packets that carry a value to the    *)
(* shadow alone (glove serial number, battery, firmware) are left out.       *)
(* Every glove has a serial of the 18-character AC/AB form, which names a    *)
(* hand; with no glove the serial is empty.                                 *)
(***************************************************************************)
EXTENDS Integers, Sequences

CONSTANTS Hands,      \* hands a glove's serial names (its last letter)
          NoHand,     \* UD_TARGET_UNKNOWN; also the hand of a record not set
          ByteMod,    \* the values of a byte: 256
          MaxQueue    \* bound of the model: events waiting in packetQueue

ASSUME HandAssumption  == NoHand \notin Hands
ASSUME ByteAssumption  == ByteMod \in Nat \ {0}
ASSUME QueueAssumption == MaxQueue \in Nat

VARIABLES
  \* the receiver and its glove (external)
  glove,        \* the hand of the glove bound to the receiver, or NoHand
  portOpen,     \* PortAccessor.isOpen()
  fwAsked,      \* a joystick-firmware query is on its way or unanswered
  \* UdCapV1Core
  udState, target,
  ctrlVersion, announced,    \* controllerVersion, controllerVersionAnnounced
  joyFw,                     \* joystickFwVersion is not empty
  queue,                     \* packetQueue
  stray,        \* history: the kinds of module news that last came between two
                \* links, or as an answer asked for on an earlier one, and not
                \* before a loss the core has told
  \* the server
  listening,    \* core->listen has been called
  H,            \* shadow hand: link, controller_version, joystick_fw
  R,            \* receiver record: hand, linked
  missed        \* history: the kinds of news whose last event the listener
                \* did not take, being off or not knowing the hand yet

envVars    == <<glove, portOpen, fwAsked>>
moduleVars == <<ctrlVersion, announced, joyFw, stray>>
coreVars   == <<udState, target, moduleVars, queue>>
serverVars == <<listening, H, R, missed>>
vars       == <<envVars, coreVars, serverVars>>

UdStates == {"INIT", "NOT_CONNECT", "CONNECTED", "LINKED"}

Bytes == 0 .. ByteMod - 1

\* What the receiver tells about itself, linked or not.
ReceiverEvent == [cmd : {"PAIRING"}, pairing : BOOLEAN]
                   \cup [cmd : {"CHANNEL"}, channel : Bytes]

Event == [cmd : {"SERIAL", "JOYSTICK_FW"}]
           \cup [cmd : {"LINK_STATE"}, udState : UdStates]
           \cup [cmd : {"CONTROLLER_VERSION", "BUTTON"}, version : {1, 2}]
           \cup ReceiverEvent

LinkEvent(st)    == [cmd |-> "LINK_STATE", udState |-> st]
VersionEvent(v)  == [cmd |-> "CONTROLLER_VERSION", version |-> v]
ButtonEvent(v)   == [cmd |-> "BUTTON", version |-> v]
SerialEvent      == [cmd |-> "SERIAL"]
JoyFwEvent       == [cmd |-> "JOYSTICK_FW"]

\* What an event tells the listener about.
News == {"link", "version", "joyFw"}
NewsOf(e) ==
  CASE e.cmd = "LINK_STATE" -> IF e.udState = "NOT_CONNECT" THEN News ELSE {"link"}
    [] e.cmd \in {"CONTROLLER_VERSION", "BUTTON"} -> {"version"}
    [] e.cmd = "JOYSTICK_FW" -> {"joyFw"}
    [] OTHER -> {}

\* Every variable has its type; the queue holds events the core can send.
TypeOK ==
  /\ glove \in Hands \cup {NoHand}
  /\ portOpen \in BOOLEAN
  /\ fwAsked \in BOOLEAN
  /\ udState \in UdStates
  /\ target \in Hands \cup {NoHand}
  /\ ctrlVersion \in {1, 2}
  /\ announced \in BOOLEAN
  /\ joyFw \in BOOLEAN
  /\ queue \in Seq(Event)
  /\ stray \subseteq {"version", "joyFw"}
  /\ listening \in BOOLEAN
  /\ H \in [link : UdStates, version : {0, 1, 2}, joyFw : BOOLEAN]
  /\ R \in [hand : Hands \cup {NoHand}, linked : BOOLEAN]
  /\ missed \subseteq News

Init ==
  /\ glove = NoHand /\ portOpen = TRUE /\ fwAsked = FALSE
  /\ udState = "INIT" /\ target = NoHand
  /\ ctrlVersion = 1 /\ announced = FALSE /\ joyFw = FALSE
  /\ queue = <<>> /\ stray = {}
  /\ listening = FALSE
  /\ H = [link |-> "INIT", version |-> 0, joyFw |-> FALSE]
  /\ R = [hand |-> NoHand, linked |-> FALSE]
  /\ missed = {}

-----------------------------------------------------------------------------
(* The receiver.                                                            *)

\* A glove is paired to the receiver while none is connected through it.
BindGlove(h) ==
  /\ udState \in {"INIT", "NOT_CONNECT"}
  /\ glove' = h
  /\ UNCHANGED <<portOpen, fwAsked, coreVars, serverVars>>

\* The port dies (unplug, read or write error), or hotplug or a reset reopens it.
PortChange ==
  /\ portOpen' = ~portOpen
  /\ UNCHANGED <<glove, fwAsked, coreVars, serverVars>>

-----------------------------------------------------------------------------
(* parsePacket, on the rx thread.                                           *)

Room == Len(queue') <= MaxQueue

\* callListenCallback(e), when the handler reaches it.
PushIf(q, c, e) == IF c THEN Append(q, e) ELSE q

\* The first link-state packet with a serial fixes serial number and target;
\* the serial event goes out ahead of the packet's own.
Identify == target' = IF target = NoHand THEN glove ELSE target
AfterSerial == PushIf(queue, target = NoHand /\ glove # NoHand, SerialEvent)

\* linkState 0: the glove went away.
ForgetModule == ctrlVersion' = 1 /\ announced' = FALSE /\ joyFw' = FALSE

\* udState is set before mcuStopData, and again after it; a throw changes nothing.
LinkDown ==
  /\ Identify
  /\ ForgetModule
  /\ queue' = PushIf(AfterSerial, udState # "NOT_CONNECT", LinkEvent("NOT_CONNECT"))
  /\ Room
  /\ stray' = IF udState # "NOT_CONNECT" THEN {} ELSE stray
  /\ udState' = "NOT_CONNECT"
  /\ UNCHANGED <<envVars, serverVars>>

\* linkState 1: a glove is there.  udState is set before mcuStartData.
EnterConnected_Not == UNCHANGED udState   \* mutant: event sent, state kept
EnterConnected ==
  udState' = IF udState \in {"INIT", "NOT_CONNECT"} THEN "CONNECTED" ELSE udState

LinkUp ==
  /\ glove # NoHand
  /\ Identify
  /\ queue' = PushIf(AfterSerial, udState \notin {"CONNECTED", "LINKED"},
                     LinkEvent("CONNECTED"))
  /\ Room
  /\ EnterConnected
  /\ UNCHANGED <<envVars, moduleVars, serverVars>>

\* The module a data frame shows: 2.0 is sticky until the link drops.
Detected_NotSticky(is20) == IF is20 THEN 2 ELSE 1   \* mutant
Detected(is20) == IF is20 \/ ctrlVersion = 2 THEN 2 ELSE 1

Fresh(is20) == ~announced \/ Detected(is20) # ctrlVersion
JoyFwKept(is20) == joyFw /\ Detected(is20) = ctrlVersion
Straying(k, c) == stray' = IF c THEN stray \cup {k} ELSE stray \ {k}
AfterVersion(is20) == PushIf(queue, Fresh(is20), VersionEvent(Detected(is20)))

\* The 2 s poll of the 2.0 module's firmware version; `due` is its timer.
PollsJoyFw(is20, due) == is20 /\ ~JoyFwKept(is20) /\ due

\* A data frame that is processed to its end; in INIT a frame only asks the
\* receiver for its link state (mcuGetLinkState).  `calibrated` is whether the
\* hand is, so that an established link carries button events.
DataFrame(is20, due, calibrated) ==
  /\ glove # NoHand
  /\ udState # "INIT"
  /\ PollsJoyFw(is20, due) => portOpen
  /\ ctrlVersion' = Detected(is20)
  /\ announced' = TRUE
  /\ joyFw' = JoyFwKept(is20)
  /\ Straying("version", udState = "NOT_CONNECT")
  /\ queue' = PushIf(PushIf(AfterVersion(is20), calibrated /\ udState = "LINKED",
                            ButtonEvent(Detected(is20))),
                     udState = "CONNECTED", LinkEvent("LINKED"))
  /\ Room
  /\ udState' = IF udState = "CONNECTED" THEN "LINKED" ELSE udState
  /\ fwAsked' = (fwAsked \/ PollsJoyFw(is20, due))
  /\ UNCHANGED <<glove, portOpen, target, serverVars>>

\* The poll throws on a closed port: the rest of the frame is dropped.
DataFrameThrows ==
  /\ glove # NoHand
  /\ udState # "INIT"
  /\ PollsJoyFw(TRUE, TRUE)
  /\ ~portOpen
  /\ ctrlVersion' = 2
  /\ announced' = TRUE
  /\ joyFw' = FALSE
  /\ Straying("version", udState = "NOT_CONNECT")
  /\ queue' = AfterVersion(TRUE)
  /\ Room
  /\ UNCHANGED <<envVars, udState, target, serverVars>>

\* parseJoystickFrame: the 0xA6 answer, which may come late.
AnnounceJoyFw == queue' = Append(queue, JoyFwEvent)

JoystickFrame ==
  /\ fwAsked
  /\ fwAsked' = FALSE
  /\ joyFw' = TRUE
  /\ Straying("joyFw", udState = "NOT_CONNECT" \/ ctrlVersion = 1)
  /\ AnnounceJoyFw
  /\ Room
  /\ UNCHANGED <<glove, portOpen, udState, target, ctrlVersion, announced, serverVars>>

\* The answer, or the query, was lost on the way.
JoystickAnswerLost ==
  /\ fwAsked
  /\ fwAsked' = FALSE
  /\ UNCHANGED <<glove, portOpen, coreVars, serverVars>>

\* A pairing result or a channel.
PassOn(e) ==
  /\ queue' = Append(queue, e)
  /\ Room
  /\ UNCHANGED <<envVars, udState, target, moduleVars, serverVars>>

-----------------------------------------------------------------------------
(* The server.                                                              *)

Listen ==
  /\ ~listening
  /\ listening' = TRUE
  /\ UNCHANGED <<envVars, coreVars, H, R, missed>>

\* The listener on a link-state event.
ForgetShadow_Not(h, st) == h   \* mutant: the module is kept
ForgetShadow(h, st) ==
  IF st = "NOT_CONNECT" THEN [h EXCEPT !.version = 0, !.joyFw = FALSE] ELSE h

\* The shadow hand after the listener has seen event e.
HandAfter(h, e) ==
  CASE e.cmd = "LINK_STATE" -> ForgetShadow([h EXCEPT !.link = e.udState], e.udState)
    [] e.cmd \in {"CONTROLLER_VERSION", "BUTTON"} -> [h EXCEPT !.version = e.version]
    [] e.cmd = "JOYSTICK_FW" -> [h EXCEPT !.joyFw = TRUE]
    [] OTHER -> h

\* The receiver record after it.
ReceiverAfter(r, e) ==
  IF e.cmd = "LINK_STATE"
    THEN [hand |-> target, linked |-> e.udState = "LINKED"]
    ELSE r

\* One turn of the event loop.  Without a listener the event is gone; without
\* a known target the listener returns early.
Deliver ==
  /\ queue # <<>>
  /\ queue' = Tail(queue)
  /\ IF listening /\ target # NoHand
       THEN /\ H' = HandAfter(H, Head(queue))
            /\ R' = ReceiverAfter(R, Head(queue))
            /\ missed' = missed \ NewsOf(Head(queue))
       ELSE /\ missed' = missed \cup NewsOf(Head(queue))
            /\ UNCHANGED <<H, R>>
  /\ UNCHANGED <<envVars, udState, target, moduleVars, listening>>

-----------------------------------------------------------------------------
Environment ==
  \/ \E h \in Hands : BindGlove(h)
  \/ PortChange
  \/ JoystickAnswerLost

ParsePacket ==
  \/ LinkDown
  \/ LinkUp
  \/ \E is20, due, calibrated \in BOOLEAN : DataFrame(is20, due, calibrated)
  \/ DataFrameThrows
  \/ JoystickFrame
  \/ \E e \in ReceiverEvent : PassOn(e)

Next == Environment \/ ParsePacket \/ Listen \/ Deliver

Spec == Init /\ [][Next]_vars

-----------------------------------------------------------------------------
(* What the listener's records promise.                                     *)

\* The events of q with news of kind k; the last of them is one of S.
About(q, k) == {i \in 1 .. Len(q) : k \in NewsOf(q[i])}
LastNewsIn(q, k, S) ==
  \A i \in About(q, k) : (\A j \in About(q, k) : j <= i) => q[i] \in S

\* The listener has been told `current`, or the last event queued with news of
\* kind k is one of S and will tell it.
Told(k, S, current) ==
  /\ LastNewsIn(queue, k, S)
  /\ About(queue, k) = {} /\ k \notin missed => current

\* The listener follows the core's link state: the hand's link is udState, or
\* the last link event still queued will make it so -- whatever the port does
\* to the sends in the handlers (UdCapV1Core.cpp:350-380, 924-931).
LinkView == Told("link", {LinkEvent(udState)}, H.link = udState)

\* Once the core has announced a controller module, the published module
\* generation is the detected one, now or when the queue is drained.
VersionView ==
  announced => Told("version", {VersionEvent(ctrlVersion), ButtonEvent(ctrlVersion)},
                    H.version = ctrlVersion)

\* The core stops asking the module for its firmware only when the listener
\* has, or is about to get, the answer.
JoyFwView == joyFw => Told("joyFw", {JoyFwEvent}, H.joyFw)

\* What the core has forgotten of the module, the listener has or is about to,
\* told so by the loss of the link -- but for what came as stray news, which the
\* core forgets without a word (355-363, 522).
Forgotten(k, known, current) ==
  ~known /\ k \notin stray => Told(k, {LinkEvent("NOT_CONNECT")}, current)

ForgottenView ==
  /\ Forgotten("version", announced, H.version = 0)
  /\ Forgotten("joyFw", joyFw, ~H.joyFw)

\* What the listener knows of the controller module is what the core does, or
\* will be when the queue is drained: an identity found is found on both sides,
\* and one forgotten on a lost link is forgotten on both
\* (UdCapV1Core.cpp:355-363, 513-543, udcap_server.cpp:575-579, 598-608).
ModuleView == VersionView /\ JoyFwView /\ ForgottenView

\* "Once 2.0 is seen, stay 2.0 until the link drops" (UdCapV1Core.cpp:516-519).
StickyModule ==
  [][ctrlVersion = 2 /\ ctrlVersion' # 2 => udState' = "NOT_CONNECT"]_vars
=============================================================================
