----------------------------- MODULE ProbedPort -----------------------------
(***************************************************************************)
(* The life of a PortAccessor in the server: it is made, probed, handed to a *)
(* core, served, and destroyed.  PortAccessor has its threads in service;     *)
(* here the main thread starts and ends them.                                *)
(*                                                                          *)
(*  - UdCapProbe::probe (src/UdCapProbe.cpp:49-103) opens the port, starts    *)
(*    continuous read, sends AT+NAME? and waits twice on a condition with no  *)
(*    predicate: 1 s for any data, 3 s for the answer.  A notification that   *)
(*    finds it not waiting is lost, and one may pass for the other.          *)
(*  - Callbacks run on the port's rx thread, which takes queueMutex; so does  *)
(*    the read thread when it hands on what it has read.  The send thread     *)
(*    holds that mutex as long as a write lasts (PortAccessor.cpp:64-104).    *)
(*  - After an answer the core opens, starts and stops the same port          *)
(*    (UdCapV1Core.cpp:229-261); otherwise the server drops it, and its        *)
(*    destructor joins the read thread (server/udcap_server.cpp:511-541).      *)
(*                                                                          *)
(* An exception that main() does not catch ends the process.  Simplifications:*)
(* a condition wakes only when it is notified, the answer is the only thing     *)
(* the probe's matcher takes for a packet, and what the core does with data is *)
(* not shown.                                                               *)
(***************************************************************************)
EXTENDS PortAccessor, Integers, Sequences

CONSTANT MaxRx   \* bound of the model: items in rxQueue

ASSUME RxAssumption == MaxRx \in Nat

VARIABLES
  user,        \* who uses the port on the main thread: "probe" or "core"
  step,        \* where the main thread is
  result,      \* what probe() is to return
  reading,     \* the read thread has been started and not joined
  running, startCount,   \* continuousReadRunning, continuousReadStartCount
  helper,      \* whose packetRealignmentHelper the port has
  onceRaw,     \* the probe's addOnceRawDataCallback is registered
  onData,      \* the probe's addDataCallback is registered
  at,          \* AT+NAME?, from txQueue to its answer
  got,         \* what the read thread has read and not handed on
  rxQueue, uds,
  startedDead, \* history: the core started on a dead port, which still is
  overtaken    \* history: hotplug found the port open when it had the lock, and
               \* marked it dead, which it still is

lifeVars  == <<user, step, result>>
loopVars  == <<reading, running, startCount, helper>>
probeVars == <<onceRaw, onData, at, got, rxQueue, uds>>
histVars == <<startedDead, overtaken>>
pvars == <<vars, lifeVars, loopVars, probeVars, histVars>>

Gone   == step \in {"dropped", "terminated"}
Served == user = "core" /\ step = "served"
InUse  == user = "core" /\ step \in {"served", "stop", "join"}

\* Every variable has its type.
ProbedTypeOK ==
  /\ TypeOK
  /\ user \in {"probe", "core"}
  /\ step \in {"open", "toOpen", "opened", "baud", "listen", "start", "write", "toWait", "wait1",
               "awake1", "wait2", "awake2", "unlisten", "stop", "join", "restore",
               "catch", "catchStop", "catchJoin", "served", "drop", "dropJoin",
               "dropped", "terminated"}
  /\ result \in {"none", "failure", "V1"}
  /\ {reading, running, onceRaw, onData, uds, startedDead, overtaken} \subseteq BOOLEAN
  /\ startCount \in -1 .. 1
  /\ helper \in {"none", "probe", "core"}
  /\ at \in {"none", "queued", "writing", "sent", "answered", "lost"}
  /\ got \in {"nothing", "data", "answer"}
  /\ rxQueue \in Seq({"raw", "packet"}) /\ Len(rxQueue) <= MaxRx

ProbedInit ==
  /\ plugged = TRUE /\ socket = FALSE /\ stopped = FALSE
  /\ isOpenFlag = FALSE /\ isDead = FALSE /\ resetRequested = FALSE
  /\ ioMutex = "none" /\ opMutex = "none" /\ opAlive = FALSE
  /\ pc = [t \in Threads |-> "idle"]
  /\ user = "probe" /\ step = "open" /\ result = "none"
  /\ reading = FALSE /\ running = FALSE /\ startCount = 0 /\ helper = "none"
  /\ onceRaw = FALSE /\ onData = FALSE /\ at = "none" /\ got = "nothing"
  /\ rxQueue = <<>> /\ uds = FALSE
  /\ startedDead = FALSE /\ overtaken = FALSE

-----------------------------------------------------------------------------
(* The main thread: opening the port, for the probe and for the core.        *)

\* probe() catches what is thrown; nobody catches what the core's constructor,
\* or stopContinuousRead in a handler or a destructor, throws.
Thrown == IF user = "probe" /\ step # "catchStop" THEN "catch" ELSE "terminated"

\* openPort: what is open counts as opened.  It asks before it has the lock.
MainOpen ==
  /\ step = "open"
  /\ step' = IF isOpenFlag THEN "baud" ELSE "toOpen"
  /\ UNCHANGED <<vars, user, result, loopVars, probeVars>>

MainOpenLocked ==
  /\ step = "toOpen"
  /\ ioMutex = "none"
  /\ IF plugged /\ ~socket
       THEN step' = "opened" /\ socket' = TRUE /\ ioMutex' = "main"
       ELSE step' = Thrown /\ UNCHANGED <<socket, ioMutex>>
  /\ UNCHANGED <<plugged, stopped, flagVars, resetRequested, opMutex, opAlive, pc>>
  /\ UNCHANGED <<user, result, loopVars, probeVars>>

MainOpened ==
  /\ step = "opened"
  /\ ioMutex' = "none"
  /\ isOpenFlag' = (isOpenFlag \/ socket)
  /\ step' = IF socket THEN "baud" ELSE Thrown
  /\ UNCHANGED <<plugged, socket, stopped, isDead, resetRequested, opMutex, opAlive, pc>>
  /\ UNCHANGED <<user, result, loopVars, probeVars>>

SetBaudRate ==
  /\ step = "baud"
  /\ ioMutex = "none"
  /\ step' = IF socket /\ plugged THEN "listen" ELSE Thrown
  /\ UNCHANGED <<vars, user, result, loopVars, probeVars>>

\* The probe puts its own helper in and registers its callbacks; the core puts
\* its helper in where there is none.
MainListen ==
  /\ step = "listen"
  /\ step' = "start"
  /\ helper' = IF user = "probe" \/ helper = "none" THEN user ELSE helper
  /\ onceRaw' = (onceRaw \/ user = "probe")
  /\ onData'  = (onData \/ user = "probe")
  /\ UNCHANGED <<vars, user, result, reading, running, startCount>>
  /\ UNCHANGED <<at, got, rxQueue, uds>>

StartContinuousRead ==
  /\ step = "start"
  /\ IF isOpenFlag
       THEN /\ step' = IF user = "probe" THEN "write" ELSE "served"
            /\ startCount' = startCount + 1
            /\ running' = (running \/ startCount <= 0)
            /\ reading' = (reading \/ startCount <= 0)
       ELSE step' = Thrown /\ UNCHANGED <<reading, running, startCount>>
  /\ UNCHANGED <<vars, user, result, helper, probeVars>>

-----------------------------------------------------------------------------
(* The main thread: the probe's question and its two waits.                   *)

AskName ==
  /\ step = "write"
  /\ IF isOpenFlag THEN step' = "toWait" /\ at' = "queued"
                   ELSE step' = Thrown /\ UNCHANGED at
  /\ UNCHANGED <<vars, user, result, loopVars>>
  /\ UNCHANGED <<onceRaw, onData, got, rxQueue, uds>>

Wait ==
  /\ \/ step = "toWait" /\ step' = "wait1"
     \/ step = "awake1" /\ step' = "wait2"
  /\ UNCHANGED <<vars, user, result, loopVars, probeVars>>

Waiting == step \in {"wait1", "wait2"}
Awakened == IF step = "wait1" THEN "awake1" ELSE IF step = "wait2" THEN "awake2" ELSE step

TimesOut_FirstOnly == step = "wait1"   \* mutant: the answer is waited for without end
TimesOut == Waiting

TimedOut ==
  /\ TimesOut
  /\ result' = "failure"
  /\ step' = "unlisten"
  /\ UNCHANGED <<vars, user, loopVars, probeVars>>

Found ==
  /\ step = "awake2"
  /\ result' = "V1"
  /\ step' = "unlisten"
  /\ UNCHANGED <<vars, user, loopVars, probeVars>>

\* The data callback; the other one goes when it has run.
Unlisten ==
  /\ step = "unlisten"
  /\ onData' = FALSE
  /\ step' = "stop"
  /\ UNCHANGED <<vars, user, result, loopVars, onceRaw, at, got, rxQueue, uds>>

-----------------------------------------------------------------------------
(* The main thread: the end of the probe, of the core and of the port.        *)

\* The user has stopped: the core is destroyed when the server ends.
StopServer ==
  /\ Served
  /\ step' = "stop"
  /\ UNCHANGED <<vars, user, result, loopVars, probeVars>>

StopContinuousRead ==
  /\ step \in {"stop", "catchStop"}
  /\ IF isOpenFlag
       THEN /\ step' = IF step = "stop" THEN "join" ELSE "catchJoin"
            /\ startCount' = startCount - 1
            /\ running' = FALSE
       ELSE step' = Thrown /\ UNCHANGED <<running, startCount>>
  /\ UNCHANGED <<vars, user, result, reading, helper, probeVars>>

Joined ==
  /\ step \in {"join", "catchJoin"}
  /\ ~reading
  /\ step' = IF step = "join" /\ user = "probe" THEN "restore" ELSE "drop"
  /\ UNCHANGED <<vars, user, result, loopVars, probeVars>>

Restored_Not == helper   \* mutant: the probe's helper stays
Restored == "none"

\* The old helper is put back, and probe() returns.  Its frame is gone, and what
\* the model keeps of an answer that has been given, or will not be, is forgotten.
Return ==
  /\ step = "restore"
  /\ helper' = Restored
  /\ IF result = "V1" THEN user' = "core" /\ step' = "open"
                      ELSE step' = "drop" /\ UNCHANGED user
  /\ result' = "none" /\ uds' = FALSE
  /\ at' = IF at \in {"queued", "writing"} THEN at ELSE "none"
  /\ UNCHANGED <<vars, reading, running, startCount, onceRaw, onData, got, rxQueue>>

Catch ==
  /\ step = "catch"
  /\ result' = "failure"
  /\ step' = IF isOpenFlag THEN "catchStop" ELSE "drop"
  /\ UNCHANGED <<vars, user, loopVars, probeVars>>

\* ~PortAccessor: no more hotplug, no more reading, and the port is closed.
Drop ==
  /\ step = "drop" /\ pc["plug"] = "idle"
  /\ step' = "dropJoin"
  /\ running' = FALSE
  /\ UNCHANGED <<vars, user, result, reading, startCount, helper, probeVars>>

Dropped ==
  /\ step = "dropJoin" /\ ~reading
  /\ step' = "dropped"
  /\ socket' = (socket /\ ~isOpenFlag) /\ isOpenFlag' = FALSE
  /\ UNCHANGED <<plugged, stopped, isDead, resetRequested, ioMutex, opMutex, opAlive, pc>>
  /\ UNCHANGED <<user, result, loopVars, probeVars>>

Main ==
  \/ MainOpen \/ MainOpenLocked \/ MainOpened \/ SetBaudRate \/ MainListen \/ StartContinuousRead
  \/ AskName \/ Wait \/ TimedOut \/ Found \/ Unlisten
  \/ StopContinuousRead \/ Joined \/ Return \/ Catch
  \/ Drop \/ Dropped

-----------------------------------------------------------------------------
(* The port's threads, in the probe and in service.                           *)

\* A read that succeeds has data: of the answer, once the question is out.  Other
\* data concerns nobody but the callback for raw data.
ReadOk ==
  /\ EndOperation("read", TRUE)
  /\ \E data \in {"data"} \cup (IF at = "sent" THEN {"answer"} ELSE {}) :
        /\ got' = IF data = "answer" \/ onceRaw THEN data ELSE "nothing"
        /\ at' = IF data = "answer" THEN "answered" ELSE at
  /\ UNCHANGED <<lifeVars, loopVars, onceRaw, onData, rxQueue, uds>>

HandOn ==
  /\ got # "nothing" /\ pc["tx"] = "idle"
  /\ rxQueue' = rxQueue \o (IF onceRaw THEN <<"raw">> ELSE <<>>)
                        \o (IF got = "answer" /\ helper = "probe" THEN <<"packet">> ELSE <<>>)
  /\ Len(rxQueue') <= MaxRx
  /\ got' = "nothing"
  /\ UNCHANGED <<vars, lifeVars, loopVars, onceRaw, onData, at, uds>>

ReadEnds ==
  /\ reading /\ ~running
  /\ pc["read"] = "idle" /\ got = "nothing"
  /\ reading' = FALSE
  /\ UNCHANGED <<vars, lifeVars, running, startCount, helper, probeVars>>

ProbedRead ==
  \/ /\ reading /\ got = "nothing"
     /\ running \/ pc["read"] # "idle"
     /\ \/ /\ BeginRead \/ StartOperation("read") \/ EndOperation("read", FALSE)
              \/ MarkDead("read") \/ CloseDead("read") \/ StopDead("read") \/ Reset
           /\ UNCHANGED <<lifeVars, loopVars, probeVars>>
        \/ ReadOk
  \/ HandOn
  \/ ReadEnds

\* The question is written, or dropped on a port that is not in service; the
\* core's commands, to the last when it is destroyed, may be there at any time.
TxBegin ==
  /\ at = "queued" \/ InUse
  /\ \/ BeginWrite /\ at' = IF at = "queued" THEN "writing" ELSE at
     \/ /\ at = "queued" /\ pc["tx"] = "idle" /\ ~(isOpenFlag /\ ~isDead)
        /\ at' = "lost" /\ UNCHANGED vars
  /\ UNCHANGED <<lifeVars, loopVars, onceRaw, onData, got, rxQueue, uds>>

TxStep ==
  /\ \/ /\ StartOperation("tx") \/ MarkDead("tx") \/ CloseDead("tx") \/ StopDead("tx")
        /\ UNCHANGED at
     \/ \E ok \in BOOLEAN :
          /\ EndOperation("tx", ok)
          /\ at' = IF at = "writing" THEN (IF ok THEN "sent" ELSE "lost") ELSE at
  /\ UNCHANGED <<lifeVars, loopVars, onceRaw, onData, got, rxQueue, uds>>

RawGoes_Stays == onceRaw   \* mutant: the callback does not say it is done
RawGoes == FALSE

\* The rx thread runs the callbacks for an item; a notification reaches the main
\* thread if it waits.
RxDeliver ==
  /\ rxQueue # <<>> /\ pc["tx"] = "idle"
  /\ rxQueue' = Tail(rxQueue)
  /\ LET isRaw == Head(rxQueue) = "raw"
         runs  == IF isRaw THEN onceRaw ELSE onData
     IN  /\ onceRaw' = IF isRaw /\ runs THEN RawGoes ELSE onceRaw
         /\ uds' = (uds \/ (~isRaw /\ runs))
         /\ step' = IF runs THEN Awakened ELSE step
  /\ UNCHANGED <<vars, user, result, loopVars, onData, at, got>>

HotPlugEvent ==
  /\ step # "dropJoin"
  /\ HotPlugAdd
  /\ UNCHANGED <<lifeVars, loopVars, probeVars>>

HotPlugStep == HotPlug /\ UNCHANGED <<lifeVars, loopVars, probeVars>>

Outside ==
  /\ PlugOrUnplug \/ (RequestReset /\ Served)
  /\ UNCHANGED <<lifeVars, loopVars, probeVars>>

-----------------------------------------------------------------------------
MarksOpenPort == socket /\ pc["plug"] = "opening" /\ pc'["plug"] = "idle"

Observe ==
  /\ startedDead' = ((startedDead \/ (step = "start" /\ Served')) /\ isDead')
  /\ overtaken' = ((overtaken \/ MarksOpenPort) /\ isDead')

ProbedNext ==
  /\ ~Gone
  /\ \/ Main \/ StopServer
     \/ ProbedRead
     \/ TxBegin \/ TxStep
     \/ RxDeliver
     \/ HotPlugEvent \/ HotPlugStep
     \/ Outside
  /\ Observe

(* Every thread runs and gets the locks it waits for now and again; the two    *)
(* waits run out.  Nothing is assumed of the device or of hotplug events.      *)
ProbedSpec ==
  /\ ProbedInit /\ [][ProbedNext]_pvars
  /\ SF_pvars(~Gone /\ Main /\ Observe)
  /\ SF_pvars(~Gone /\ ProbedRead /\ Observe)
  /\ SF_pvars(~Gone /\ HotPlugStep /\ Observe)
  /\ WF_pvars(~Gone /\ (TxStep \/ (at = "queued" /\ TxBegin)) /\ Observe)
  /\ WF_pvars(~Gone /\ RxDeliver /\ Observe)

-----------------------------------------------------------------------------
(* What the probe promises to the server, and the port to its core.            *)

\* A receiver that was found has told its serial number: two notifications
\* without the answer do not pass for one (UdCapProbe.cpp:60-92).
FoundHasAnswer == result = "V1" => uds

\* A port that is handed to a core has no read thread, no callback into the
\* probe's frame, which is gone, and not the probe's matcher
\* (UdCapProbe.cpp:82-84, UdCapV1Core.cpp:246-260).
HandedOnClean ==
  user = "core" =>
    /\ helper # "probe"
    /\ ~onData /\ ~onceRaw
    /\ step \in {"open", "toOpen", "opened", "baud", "listen", "start"} => ~reading /\ startCount = 0

\* In service, when every thread is done, an open descriptor counts as open: it is
\* not left behind a port that counts as closed, which nothing would ever close
\* again.  It is marked dead only where the probe's last read, or an open that was
\* overtaken, has left the mark (PortAccessor.cpp:105-119, 141-166, 446-477).
ServedIsInService ==
  Served /\ (\A t \in Threads : pc[t] = "idle") /\ socket =>
    isOpenFlag /\ (isDead => startedDead \/ overtaken)

\* An operation that runs a stopped io_context (BoostHelper.hpp:81).
Spinning == \E t \in Users : pc[t] = "operating" /\ stopped

\* The probe ends, in a core, a dropped port or the end of the process, unless a
\* thread of the port spins.
ProbeEnds == step = "toWait" ~> user = "core" \/ Gone \/ Spinning

\* A reset that has been taken up ends, also when the server stops.  And the next
\* one that is requested ends what an overtaken open leaves: an open port marked
\* dead is put back in service or closed, unless a thread spins.
LeftMarked == Served /\ socket /\ isDead
ServedResetEnds ==
  /\ pc["read"] = "resetWait" ~> pc["read"] = "idle" \/ Gone
  /\ LeftMarked /\ resetRequested ~> ~LeftMarked \/ Spinning
=============================================================================
