----------------------------- MODULE ServerLoop -----------------------------
(***************************************************************************)
(* The main loop of the server (server/udcap_server.cpp:780-836) over its    *)
(* two mailboxes, which the one main thread takes turns at: a pass first     *)
(* looks at the haptic request of each hand, then at the command.            *)
(*                                                                          *)
(* Module HapticMailbox has the first part, module CommandChannel the        *)
(* second.  The rest of the loop's body, from the power button to the        *)
(* watchdog, touches neither.                                               *)
(***************************************************************************)
EXTENDS Integers, Sequences

CONSTANTS HandCount, Pulses, Forces, MaxRequests,
          Codes, MaxPosts,
          SeqMod      \* of haptic_seq and of cmd_seq

VARIABLES
  request, haptic_seq, writing, want, requests,
  hapticPc, hand, last_haptic, toRead, taken, bound, wire,
  cmd_seq, cmd_code, cmd_ack, sending, pc, last_cmd, cs, code, posted, executed,
  part       \* the part of the loop the main thread is in

H == INSTANCE HapticMailbox WITH pc <- hapticPc
C == INSTANCE CommandChannel

ASSUME MailboxAssumption == H!ConstantsOK /\ C!ConstantsOK

hapticVars  == <<request, haptic_seq, writing, want, requests, hapticPc, hand,
                 last_haptic, toRead, taken, bound, wire>>
commandVars == <<cmd_seq, cmd_code, cmd_ack, sending, pc, last_cmd, cs, code, posted, executed>>
vars == <<hapticVars, commandVars, part>>

\* Every variable has its type.
TypeOK == H!TypeOK /\ C!TypeOK /\ part \in {"haptics", "command"}

Init == H!Init /\ C!Init /\ part = "haptics"

-----------------------------------------------------------------------------
(* The main thread.                                                         *)

HapticsPart ==
  /\ part = "haptics"
  /\ H!Haptics
  /\ UNCHANGED <<commandVars, part>>

HapticsDone ==
  /\ part = "haptics"
  /\ hand = HandCount
  /\ part' = "command"
  /\ UNCHANGED <<hapticVars, commandVars>>

\* Up to cmd_ack of the command that was found.
CommandPart ==
  /\ part = "command"
  /\ C!Server
  /\ pc' # "poll"
  /\ UNCHANGED <<hapticVars, part>>

\* The command is acknowledged, or there was none, and the pass ends.
CommandDone ==
  /\ part = "command"
  /\ \/ C!Server /\ pc' = "poll"
     \/ pc = "poll" /\ cmd_seq = last_cmd /\ UNCHANGED commandVars
  /\ H!NextPass
  /\ part' = "haptics"

MainThread == HapticsPart \/ HapticsDone \/ CommandPart \/ CommandDone

Clients ==
  /\ UNCHANGED part
  /\ \/ (\E h \in H!Hands : H!Driver(h)) /\ UNCHANGED commandVars
     \/ C!App /\ UNCHANGED hapticVars

Next == MainThread \/ Clients

(* The main thread runs; nothing is assumed of drivers and apps.            *)
Spec == Init /\ [][Next]_vars /\ WF_vars(MainThread)

-----------------------------------------------------------------------------
\* The commands keep what CommandQueue promises, also between haptic requests:
\* each is executed once, in order, and acknowledged after that
\* ("The server executes and echoes cmd_ack=cmd_seq", udcap_shm.h:46-47).
ImplementsQueue == C!ImplementsQueue

\* The last request counts: a mixture of two requests is followed by the newer
\* one in full.  When a driver has finished its bump and the server has nothing
\* left to take, what the server took of that hand last is what the driver asked
\* for last (udcap_server.cpp:802-808).
LastRequestTaken ==
  \A h \in H!Hands :
    (/\ hapticPc # "starting" /\ taken[h] # H!NoRequest
     /\ writing[h] = H!Idle /\ haptic_seq[h] = last_haptic[h]
     /\ ~(hapticPc = "read" /\ hand = h))
    => taken[h] = want[h]

\* Whatever a driver asks for, and whatever mixture is read, the numbers that
\* go out fit the bytes they are sent in and the range of the module
\* (UdCapV1Core.cpp:979-1023).
MessageInRange ==
  wire # H!Silence =>
    CASE wire.version = 1 -> wire.ticks \in 3 .. 250 /\ wire.strength \in 4 .. 10
      [] wire.version = 2 -> /\ wire.strength \in 600 .. 1000
                             /\ wire.rate \in 0 .. 1000
                             /\ wire.ms \in 50 .. 2500

\* Commands do not keep the server from the drivers: in the end every request
\* has been taken.
RequestsTaken ==
  \A h \in H!Hands : <>[](haptic_seq[h] = last_haptic[h])
=============================================================================
