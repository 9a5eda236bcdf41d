---------------------------- MODULE ReceiverRecord ----------------------------
(***************************************************************************)
(* Pairing and RF channel of one receiver: pair_state and channel of its      *)
(* udcap_receiver (shm/udcap_shm.h:261-271), which two threads of the server  *)
(* write without a lock, and the core of CoreLink under them.                 *)
(*                                                                          *)
(*  - The main thread executes PAIR_START, PAIR_STOP and SET_CHANNEL, and     *)
(*    asks for the channel while it is unknown (server/udcap_server.cpp:      *)
(*    193-228, 875-893).  It sends to the receiver first and writes the       *)
(*    record after it, from what it asked for; a send that throws ends the    *)
(*    command.                                                               *)
(*  - The event loop writes the record from what the receiver answered, and   *)
(*    from the link events of the core (545-560, 580-588).                    *)
(*                                                                          *)
(* The receiver (external) answers what it was asked in the order it was      *)
(* asked, or not at all.  It leaves its channel as it is when it refuses one. *)
(* The record is one of the first UDCAP_RECEIVER_MAX; the server keeps none   *)
(* for the others, and a command with a wrong index does nothing.             *)
(***************************************************************************)
EXTENDS CoreLink

CONSTANTS WordMod,    \* the values of a uint32_t: 2^32
          MaxAsked,   \* bound of the model: commands the receiver has to answer
          Uses        \* bound of the model: sets of commands; a behaviour sends
                      \* the receiver those of one of them
ASSUME WordAssumption  == WordMod \in Nat /\ WordMod > ByteMod
ASSUME AskedAssumption == MaxAsked \in Nat

Words32   == 0 .. WordMod - 1
Unknown   == WordMod - 1     \* 0xFFFFFFFF

VARIABLES
  use,          \* the set of Uses of this behaviour
  channel,      \* the receiver's RF channel (external)
  asked,        \* what the receiver has been sent and not yet answered
  doing,        \* main thread: the command it has sent and not yet recorded
  arg2,         \* main thread: cmd_arg2 of a SET_CHANNEL being executed
  pairState,    \* receivers[i].pair_state
  recChannel,   \* receivers[i].channel
  search,       \* history: the last search; see Searches
  doubt         \* history: the record's channel was set after the receiver's
                \* answer, or without one, and not told by it since

askVars    == <<use, channel, asked>>
mainVars   == <<doing, arg2>>
recordVars == <<pairState, recChannel>>
histVars   == <<search, doubt>>
recVars    == <<vars, askVars, mainVars, recordVars, histVars>>

Command == [cmd : {"PAIR", "UNPAIR", "GET_CHANNEL"}] \cup [cmd : {"SET_CHANNEL"}, channel : Bytes]

\* No search was ever started; one is on, since PAIR_START was sent; it is on
\* and began with the LINKED event of an earlier link waiting; it has been
\* found, the core has linked; it has been stopped; or it was found or stopped
\* when SEARCHING was still to be written, by the main thread or for an answer.
Searches == {"none", "on", "stale", "found", "stopped", "late"}

\* Every variable has its type.
RecordTypeOK ==
  /\ TypeOK
  /\ use \in Uses
  /\ channel \in Bytes
  /\ asked \in Seq(Command)
  /\ doing \in {"nothing", "PAIR_START", "PAIR_STOP", "IDLE", "SET_CHANNEL"}
  /\ arg2 \in Words32
  /\ pairState \in {"IDLE", "SEARCHING", "SUCCESS"}
  /\ recChannel \in Words32
  /\ search \in Searches
  /\ doubt \in BOOLEAN

RecordInit ==
  /\ Init
  /\ use \in Uses
  /\ channel = 0 /\ asked = <<>>
  /\ doing = "nothing" /\ arg2 = 0
  /\ pairState = "IDLE" /\ recChannel = Unknown
  /\ search = "none" /\ doubt = FALSE

-----------------------------------------------------------------------------
(* The main thread.  It runs commands once every core has its listener.      *)

Idle == listening /\ doing = "nothing"

\* sendCommand: it throws on a closed port.
Send(c) ==
  /\ c.cmd \in use
  /\ portOpen
  /\ Len(asked) < MaxAsked
  /\ asked' = Append(asked, c)
  /\ UNCHANGED <<vars, use, channel, recordVars>>

Waits(q, e) == \E i \in 1 .. Len(q) : q[i] = e
LinkedWaits == Waits(queue, LinkEvent("LINKED"))

\* The receiver's answer to a PAIR_START has not got to the listener yet.
SearchAnswerDue ==
  \/ Waits(asked, [cmd |-> "PAIR"])
  \/ Waits(queue, [cmd |-> "PAIRING", pairing |-> TRUE])

PairStart ==
  /\ Idle
  /\ Send([cmd |-> "PAIR"])
  /\ doing' = "PAIR_START"
  /\ search' = IF LinkedWaits THEN "stale" ELSE "on"
  /\ UNCHANGED <<arg2, doubt>>

\* SEARCHING is written, by one thread or the other.
Searching ==
  /\ pairState' = "SEARCHING"
  /\ search' = IF search = "found" THEN "late" ELSE search

PairStarted ==
  /\ doing = "PAIR_START"
  /\ doing' = "nothing"
  /\ Searching
  /\ UNCHANGED <<vars, askVars, arg2, recChannel, doubt>>

PairStop ==
  /\ Idle
  /\ Send([cmd |-> "UNPAIR"])
  /\ doing' = "PAIR_STOP"
  /\ UNCHANGED <<arg2, histVars>>

Stopped == search' = IF SearchAnswerDue THEN "late" ELSE "stopped"

\* It looks at pair_state ...
StillSearching_Inverted == pairState # "SEARCHING"   \* mutant
StillSearching == pairState = "SEARCHING"

PairStopLooks ==
  /\ doing = "PAIR_STOP"
  /\ IF StillSearching
       THEN doing' = "IDLE" /\ UNCHANGED search
       ELSE doing' = "nothing" /\ Stopped
  /\ UNCHANGED <<vars, askVars, arg2, recordVars, doubt>>

\* ... and overwrites it, whatever it has become meanwhile.
PairStopped ==
  /\ doing = "IDLE"
  /\ doing' = "nothing"
  /\ pairState' = "IDLE"
  /\ Stopped
  /\ UNCHANGED <<vars, askVars, arg2, recChannel, doubt>>

\* The receiver is sent a byte, the record takes the argument as it is.
SetChannel(a) ==
  /\ Idle
  /\ Send([cmd |-> "SET_CHANNEL", channel |-> a % ByteMod])
  /\ doing' = "SET_CHANNEL" /\ arg2' = a
  /\ UNCHANGED histVars

\* The receiver's answer to the SET_CHANNEL is still to come.
SetAnswerDue ==
  \/ \E i \in 1 .. Len(asked) : asked[i].cmd = "SET_CHANNEL"
  \/ \E i \in 1 .. Len(queue) : queue[i].cmd = "CHANNEL"

ChannelSet ==
  /\ doing = "SET_CHANNEL"
  /\ doing' = "nothing" /\ arg2' = 0
  /\ recChannel' = arg2
  /\ doubt' = (doubt \/ ~SetAnswerDue)
  /\ UNCHANGED <<vars, askVars, pairState, search>>

\* Every 500 ms, and once at startup.
AskChannel == R.linked /\ recChannel = Unknown

GetChannel ==
  /\ Idle
  /\ AskChannel
  /\ Send([cmd |-> "GET_CHANNEL"])
  /\ UNCHANGED <<mainVars, histVars>>

MainThread ==
  \/ PairStart \/ PairStarted
  \/ PairStop \/ PairStopLooks \/ PairStopped
  \/ (\E a \in Words32 : SetChannel(a)) \/ ChannelSet
  \/ GetChannel

-----------------------------------------------------------------------------
(* The receiver's answers, which parsePacket passes on.                      *)

Next1 == Head(asked)

AnswerPairing ==
  /\ asked # <<>> /\ Next1.cmd \in {"PAIR", "UNPAIR"}
  /\ asked' = Tail(asked)
  /\ PassOn([cmd |-> "PAIRING", pairing |-> Next1.cmd = "PAIR"])
  /\ UNCHANGED <<use, channel, mainVars, recordVars, histVars>>

AnswerChannel(accepted) ==
  /\ asked # <<>> /\ Next1.cmd \in {"GET_CHANNEL", "SET_CHANNEL"}
  /\ asked' = Tail(asked)
  /\ channel' = IF accepted /\ Next1.cmd = "SET_CHANNEL" THEN Next1.channel ELSE channel
  /\ PassOn([cmd |-> "CHANNEL", channel |-> channel'])
  /\ UNCHANGED <<use, mainVars, recordVars, histVars>>

\* The command, or the answer, was lost on the way.
AnswerLost ==
  /\ asked # <<>>
  /\ asked' = Tail(asked)
  /\ doubt' = (doubt \/ Next1.cmd = "SET_CHANNEL")
  /\ UNCHANGED <<vars, use, channel, mainVars, recordVars, search>>

-----------------------------------------------------------------------------
(* The event loop.  The receiver's own events need no hand.                   *)

FoundWhen_Linked == TRUE   \* mutant: any link is the one searched for
FoundWhen_NewHand ==   \* mutant: only for a receiver that had no hand
  pairState = "SEARCHING" /\ R.hand = NoHand
FoundWhen == pairState = "SEARCHING"

\* The answer to a question, or to a SET_CHANNEL, is the channel there is.
Refined_OnlyUnknown(e) ==   \* mutant: the record is not corrected
  IF recChannel = Unknown THEN e.channel ELSE recChannel
Refined(e) == e.channel

RecordAfter(e) ==
  CASE e.cmd = "PAIRING" /\ e.pairing ->
         Searching /\ UNCHANGED <<recChannel, doubt>>
    [] e.cmd = "CHANNEL" ->
         recChannel' = Refined(e) /\ doubt' = FALSE /\ UNCHANGED <<pairState, search>>
    [] e = LinkEvent("LINKED") /\ target # NoHand /\ FoundWhen ->
         pairState' = "SUCCESS" /\ UNCHANGED <<recChannel, histVars>>
    [] OTHER -> UNCHANGED <<recordVars, histVars>>

RecordDeliver ==
  /\ Deliver
  /\ IF listening THEN RecordAfter(Head(queue)) ELSE UNCHANGED <<recordVars, histVars>>
  /\ UNCHANGED <<askVars, mainVars>>

-----------------------------------------------------------------------------
(* The rest of the core, as in CoreLink.                                     *)

CoreStep ==
  /\ \/ Environment
     \/ LinkDown
     \/ LinkUp
     \/ \E is20, due, calibrated \in BOOLEAN : DataFrame(is20, due, calibrated)
     \/ DataFrameThrows
     \/ JoystickFrame
     \/ Listen
  /\ search' = IF search = "on" /\ udState # "LINKED" /\ udState' = "LINKED"
                 THEN "found" ELSE search
  /\ UNCHANGED <<askVars, mainVars, recordVars, doubt>>

RecordNext ==
  \/ MainThread
  \/ AnswerPairing
  \/ \E accepted \in BOOLEAN : AnswerChannel(accepted)
  \/ AnswerLost
  \/ RecordDeliver
  \/ CoreStep

RecordSpec == RecordInit /\ [][RecordNext]_recVars

-----------------------------------------------------------------------------
(* What the record promises the control app.                                 *)

\* SUCCESS is "a glove bound and linked on this receiver" in this search: the
\* core has linked since PAIR_START was sent, except for a search that began
\* with the event of an earlier link still waiting (udcap_server.cpp:203-209,
\* 586-587, udcap_shm.h:86).
SuccessIsOfThisSearch ==
  pairState = "SUCCESS" /\ doing # "PAIR_START" => search \notin {"none", "on"}

\* A glove that links while the receiver searches is reported, unless SEARCHING
\* was written after it had or the search was stopped (207-208, 547-550, 586-587).
SearchIsReported ==
  search = "found" /\ doing # "PAIR_START" /\ ~LinkedWaits
    => pairState = "SUCCESS"

\* After PAIR_STOP the record does not say SEARCHING, unless the answer to the
\* PAIR_START was still due (212-214, 547-550).
StopIsFinal == search = "stopped" => pairState # "SEARCHING"

\* With nothing under way the record's channel is the receiver's or unknown,
\* unless it was recorded after the receiver's refusal, or the receiver was
\* never heard of it (218-219, 551-554).
ChannelIsTheReceivers ==
  ~doubt /\ doing # "SET_CHANNEL" /\ ~SetAnswerDue => recChannel \in {channel, Unknown}
=============================================================================
