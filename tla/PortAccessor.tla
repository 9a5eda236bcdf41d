---------------------------- MODULE PortAccessor ----------------------------
(***************************************************************************)
(* One serial port (serial-reborn/src/PortAccessor.cpp, BoostHelper.hpp)    *)
(* while continuous read runs, as the server uses it:                       *)
(*                                                                          *)
(*  - "read", the continuous-read thread, holds PortAccessor.ioMutex while   *)
(*    it reads, and serves resets requested by the server's watchdog;        *)
(*  - "tx", the send thread, writes without PortAccessor.ioMutex;            *)
(*  - "plug", the hotplug event thread, reopens a dead port.                 *)
(*                                                                          *)
(* Reads and writes are DeadlineSocket operations, one at a time under its   *)
(* own mutex: the operation is started, and the thread runs the io_context   *)
(* until the operation's handler has run.  A stopped io_context runs         *)
(* nothing, so the thread then spins.  The deadline cancels the operation,   *)
(* which ends it with operation_aborted and not with timed_out: a silent     *)
(* port fails the read as an error does.  Boost.Asio is external; cancel and *)
(* close throw on a closed descriptor, and closing aborts the operation.     *)
(*                                                                          *)
(* isOpenFlag and isDead are plain bools; each pair of assignments in a row  *)
(* is one step.  The connection callbacks, and the queues of data read and   *)
(* data to send, are left out: the send thread may have something to send   *)
(* at any time.                                                             *)
(***************************************************************************)
EXTENDS Naturals

VARIABLES
  plugged,            \* the receiver is on the bus (external)
  socket,             \* serialPort->socket().is_open()
  stopped,            \* serialPort->io().stopped()
  isOpenFlag, isDead, resetRequested,
  ioMutex,            \* who holds PortAccessor.ioMutex
  opMutex,            \* who holds DeadlineSocket.ioMutex
  opAlive,            \* the operation under way has not been aborted
  pc                  \* thread -> where it is

flagVars == <<isOpenFlag, isDead>>
vars == <<plugged, socket, stopped, flagVars, resetRequested, ioMutex, opMutex,
          opAlive, pc>>

Users == {"read", "tx"}        \* the threads that run operations
Threads == Users \cup {"plug"}

UserPcs == {"idle", "waiting", "operating", "failed", "closing", "stopping"}

\* Every variable has its type; each thread is at one of its own places.
TypeOK ==
  /\ {plugged, socket, stopped, isOpenFlag, isDead, resetRequested, opAlive}
       \subseteq BOOLEAN
  /\ ioMutex \in {"none", "read", "plug", "main"}
  /\ opMutex \in {"none"} \cup Users
  /\ pc["read"] \in UserPcs \cup {"resetWait", "resetClose", "resetOpen", "resetDone"}
  /\ pc["tx"] \in UserPcs
  /\ pc["plug"] \in {"idle", "reopen", "toOpen", "opening", "opened", "revive"}
  /\ DOMAIN pc = Threads

\* The server's core has opened the port and started continuous read.
Init ==
  /\ plugged = TRUE /\ socket = TRUE /\ stopped = FALSE
  /\ isOpenFlag = TRUE /\ isDead = FALSE /\ resetRequested = FALSE
  /\ ioMutex = "none" /\ opMutex = "none" /\ opAlive = FALSE
  /\ pc = [t \in Threads |-> "idle"]

Goto(t, from, to) == pc[t] = from /\ pc' = [pc EXCEPT ![t] = to]

-----------------------------------------------------------------------------
(* Operations and their failure, on the read and the send thread.           *)

\* The read thread looks at the port and starts a read.
BeginRead ==
  /\ Goto("read", "idle", "waiting")
  /\ ~resetRequested
  /\ ioMutex = "none"
  /\ ~isDead /\ socket
  /\ ioMutex' = "read"
  /\ UNCHANGED <<plugged, socket, stopped, flagVars, resetRequested, opMutex, opAlive>>

\* writeDataToDevice, for the next item of txQueue.
BeginWrite ==
  /\ Goto("tx", "idle", "waiting")
  /\ isOpenFlag /\ ~isDead
  /\ UNCHANGED <<plugged, socket, stopped, flagVars, resetRequested, ioMutex, opMutex,
                 opAlive>>

StartOperation(t) ==
  /\ Goto(t, "waiting", "operating")
  /\ opMutex = "none"
  /\ opMutex' = t
  /\ opAlive' = socket
  /\ UNCHANGED <<plugged, socket, stopped, flagVars, resetRequested, ioMutex>>

AfterFailure_Reset(t) == "resetClose"   \* mutant: whichever thread resets the port
AfterFailure(t) == "failed"

\* The handler runs and both locks are given back; a failure is caught later.
EndOperation(t, ok) ==
  /\ Goto(t, "operating", IF ok THEN "idle" ELSE AfterFailure(t))
  /\ ~stopped
  /\ ok => opAlive /\ plugged
  /\ opMutex' = "none"
  /\ ioMutex' = IF t = "read" THEN "none" ELSE ioMutex
  /\ UNCHANGED <<plugged, socket, stopped, flagVars, resetRequested, opAlive>>

MarkDead(t) ==
  /\ Goto(t, "failed", "closing")
  /\ isDead' = TRUE /\ isOpenFlag' = FALSE
  /\ UNCHANGED <<plugged, socket, stopped, resetRequested, ioMutex, opMutex, opAlive>>

\* cancel and close: on a closed socket they throw out of the handler.
CloseDead(t) ==
  /\ Goto(t, "closing", IF socket THEN "stopping" ELSE "idle")
  /\ socket' = FALSE
  /\ opAlive' = FALSE
  /\ UNCHANGED <<plugged, stopped, flagVars, resetRequested, ioMutex, opMutex>>

StopDead(t) ==
  /\ Goto(t, "stopping", "idle")
  /\ stopped' = TRUE
  /\ UNCHANGED <<plugged, socket, flagVars, resetRequested, ioMutex, opMutex, opAlive>>

Operation(t) ==
  \/ StartOperation(t)
  \/ \E ok \in BOOLEAN : EndOperation(t, ok)
  \/ MarkDead(t) \/ CloseDead(t) \/ StopDead(t)

-----------------------------------------------------------------------------
(* The reset, on the read thread.                                           *)

TakeReset ==
  /\ Goto("read", "idle", "resetWait")
  /\ resetRequested
  /\ resetRequested' = FALSE
  /\ UNCHANGED <<plugged, socket, stopped, flagVars, ioMutex, opMutex, opAlive>>

ResetBegin ==
  /\ Goto("read", "resetWait", "resetClose")
  /\ ioMutex = "none"
  /\ ioMutex' = "read"
  /\ isOpenFlag' = FALSE
  /\ UNCHANGED <<plugged, socket, stopped, isDead, resetRequested, opMutex, opAlive>>

ResetClose ==
  /\ Goto("read", "resetClose", "resetOpen")
  /\ socket' = FALSE
  /\ opAlive' = FALSE
  /\ stopped' = FALSE
  /\ UNCHANGED <<plugged, flagVars, resetRequested, ioMutex, opMutex>>

ResetOpen ==
  /\ plugged
  /\ Goto("read", "resetOpen", "resetDone")
  /\ socket' = TRUE
  /\ UNCHANGED <<plugged, stopped, flagVars, resetRequested, ioMutex, opMutex, opAlive>>

BackInService_StillDead == isOpenFlag' = TRUE /\ UNCHANGED isDead   \* mutant
BackInService == isOpenFlag' = TRUE /\ isDead' = FALSE

ResetDone ==
  /\ socket
  /\ Goto("read", "resetDone", "idle")
  /\ BackInService
  /\ ioMutex' = "none"
  /\ UNCHANGED <<plugged, socket, stopped, resetRequested, opMutex, opAlive>>

\* Opening the port, or setting its baud rate, throws.
ResetFails ==
  /\ \/ ~plugged /\ Goto("read", "resetOpen", "idle")
     \/ ~socket /\ Goto("read", "resetDone", "idle")
  /\ isDead' = TRUE /\ isOpenFlag' = FALSE
  /\ ioMutex' = "none"
  /\ UNCHANGED <<plugged, socket, stopped, resetRequested, opMutex, opAlive>>

Reset == TakeReset \/ ResetBegin \/ ResetClose \/ ResetOpen \/ ResetDone \/ ResetFails

-----------------------------------------------------------------------------
(* Hotplug: a device, any device, was added, and this port is dead.         *)

HotPlugAdd ==
  /\ Goto("plug", "idle", "reopen")
  /\ isDead
  /\ stopped' = FALSE
  /\ UNCHANGED <<plugged, socket, flagVars, resetRequested, ioMutex, opMutex, opAlive>>

\* openPort returns early when the port counts as open.  It asks before it has
\* the lock, and not again when it has got it.
OpenPort ==
  /\ Goto("plug", "reopen", IF isOpenFlag THEN "revive" ELSE "toOpen")
  /\ UNCHANGED <<plugged, socket, stopped, flagVars, resetRequested, ioMutex, opMutex,
                 opAlive>>

OpenLocks ==
  /\ Goto("plug", "toOpen", "opening")
  /\ ioMutex = "none"
  /\ ioMutex' = "plug"
  /\ UNCHANGED <<plugged, socket, stopped, flagVars, resetRequested, opMutex, opAlive>>

OpenSocket ==
  /\ plugged /\ ~socket
  /\ Goto("plug", "opening", "opened")
  /\ socket' = TRUE
  /\ UNCHANGED <<plugged, stopped, flagVars, resetRequested, ioMutex, opMutex, opAlive>>

Opened ==
  /\ Goto("plug", "opened", "revive")
  /\ isOpenFlag' = TRUE
  /\ ioMutex' = "none"
  /\ UNCHANGED <<plugged, socket, stopped, isDead, resetRequested, opMutex, opAlive>>

LetGo_Not == UNCHANGED ioMutex   \* mutant: the exception leaves the mutex locked
LetGo == ioMutex' = "none"

\* It is not there, is open already, or does not stay open.
OpenFails ==
  /\ \/ ~(plugged /\ ~socket) /\ Goto("plug", "opening", "idle")
     \/ ~socket /\ Goto("plug", "opened", "idle")
  /\ isDead' = TRUE
  /\ LetGo
  /\ UNCHANGED <<plugged, socket, stopped, isOpenFlag, resetRequested, opMutex, opAlive>>

Revive ==
  /\ Goto("plug", "revive", "idle")
  /\ isDead' = FALSE
  /\ UNCHANGED <<plugged, socket, stopped, isOpenFlag, resetRequested, ioMutex, opMutex,
                 opAlive>>

HotPlug == OpenPort \/ OpenLocks \/ OpenSocket \/ Opened \/ OpenFails \/ Revive

-----------------------------------------------------------------------------
\* The server's watchdog.
RequestReset ==
  /\ ~resetRequested
  /\ resetRequested' = TRUE
  /\ UNCHANGED <<plugged, socket, stopped, flagVars, ioMutex, opMutex, opAlive, pc>>

PlugOrUnplug ==
  /\ plugged' = ~plugged
  /\ UNCHANGED <<socket, stopped, flagVars, resetRequested, ioMutex, opMutex, opAlive, pc>>

ReadThread == BeginRead \/ Operation("read") \/ Reset
TxThread == BeginWrite \/ Operation("tx")

Next ==
  \/ ReadThread \/ TxThread
  \/ HotPlugAdd \/ HotPlug
  \/ RequestReset
  \/ PlugOrUnplug

Spec == Init /\ [][Next]_vars

(* The threads run, and get the locks they wait for now and again.  Nothing  *)
(* is assumed of the device, of hotplug events, or of what is sent.         *)
FairSpec == /\ Spec
            /\ SF_vars(ReadThread) /\ WF_vars(Operation("tx")) /\ SF_vars(HotPlug)

-----------------------------------------------------------------------------
(* What the port promises.                                                  *)

\* requestReset: "Ask the read thread to close and reopen the port on its next
\* loop" (PortAccessor.h:89-94): a requested reset is taken up.
ResetIsServed == resetRequested ~> ~resetRequested
=============================================================================
