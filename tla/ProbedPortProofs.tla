-------------------------- MODULE ProbedPortProofs --------------------------
(***************************************************************************)
(* The probe takes no receiver for found that has not answered, and hands   *)
(* its port on as it found it; in service, when its threads are done, a       *)
(* port's open descriptor counts as open, and as dead only where the probe's   *)
(* last read or an overtaken open has left it so.  All for any bound of rxQueue. *)
(*                                                                          *)
(* The first rests on the two waits: what ends the first either uses up the   *)
(* callback for raw data or is the answer, so what ends the second is the     *)
(* answer (Answered).  The second rests on the order of rxQueue: the read      *)
(* thread queues raw data before the packet it holds, so the answer is not     *)
(* delivered while that callback is there (RawFirst, RawGone).  The third      *)
(* names, for a descriptor that is open behind flags that say otherwise, the    *)
(* thread that is to see to it (Behind); that rests on who holds ioMutex where  *)
(* (Holders).                                                               *)
(***************************************************************************)
EXTENDS ProbedPort, TLAPS

Answered ==
  /\ step \in {"awake1", "wait2"} => ~onceRaw \/ uds
  /\ step = "awake2" => uds
  /\ result = "V1" => uds

RawFirst ==
  /\ rxQueue \in Seq({"raw", "packet"})
  /\ onceRaw /\ rxQueue # <<>> => Head(rxQueue) = "raw"

RawGone == uds => ~onceRaw

Early == {"open", "toOpen", "opened", "baud", "listen"}
Asking == {"write", "toWait", "wait1", "awake1", "wait2", "awake2", "unlisten", "stop"}

\* Where the probe stands tells what of the port is started.
ProbeStage ==
  user = "probe" =>
    /\ step \in Early => ~uds /\ rxQueue = <<>> /\ got = "nothing"
    /\ step \in Early \cup {"start", "restore"} => ~reading
    /\ step \in Early \cup {"start", "join", "restore"} => startCount = 0
    /\ step \in Asking => startCount = 1
    /\ step \in {"stop", "join", "restore"} => ~onData

RestoreIsProbes == step = "restore" => user = "probe"

Handing == RawFirst /\ RawGone /\ ProbeStage /\ RestoreIsProbes /\ HandedOnClean

-----------------------------------------------------------------------------
\* What the read thread does leaves the probe where it is.
LEMMA ReadKeeps ==
  ASSUME ProbedRead
  PROVE  UNCHANGED <<step, result, user, onceRaw, onData, uds, helper, startCount>>
<1>1. CASE HandOn
  BY <1>1 DEF HandOn, lifeVars, loopVars
<1>2. CASE ReadEnds
  BY <1>2 DEF ReadEnds, lifeVars, probeVars
<1>3. CASE ReadOk
  BY <1>3 DEF ReadOk, lifeVars, loopVars
<1>4. CASE UNCHANGED <<lifeVars, loopVars, probeVars>>
  BY <1>4 DEF lifeVars, loopVars, probeVars
<1> QED  BY <1>1, <1>2, <1>3, <1>4 DEF ProbedRead

LEMMA AnsweredStep == Answered /\ [ProbedNext]_pvars => Answered'
<1> SUFFICES ASSUME Answered, [ProbedNext]_pvars PROVE Answered'
  OBVIOUS
<1> USE DEF Answered
<1>0. CASE UNCHANGED pvars
  BY <1>0 DEF pvars, lifeVars, probeVars
<1>1. CASE MainOpen \/ MainOpenLocked
  BY <1>1 DEF MainOpen, MainOpenLocked, Thrown, probeVars
<1>2. CASE MainOpened
  BY <1>2 DEF MainOpened, Thrown, probeVars
<1>3. CASE SetBaudRate
  BY <1>3 DEF SetBaudRate, Thrown, probeVars
<1>4. CASE MainListen
  BY <1>4 DEF MainListen
<1>5. CASE StartContinuousRead
  BY <1>5 DEF StartContinuousRead, Thrown, probeVars
<1>6. CASE AskName
  BY <1>6 DEF AskName, Thrown
<1>7. CASE Wait
  BY <1>7 DEF Wait, probeVars
<1>8. CASE TimedOut
  BY <1>8 DEF TimedOut, probeVars
<1>9. CASE Found
  BY <1>9 DEF Found, probeVars
<1>10. CASE Unlisten
  BY <1>10 DEF Unlisten
<1>11. CASE StopContinuousRead
  BY <1>11 DEF StopContinuousRead, Thrown, probeVars
<1>12. CASE Joined
  BY <1>12 DEF Joined, probeVars
<1>13. CASE Return
  BY <1>13 DEF Return
<1>14. CASE Catch
  BY <1>14 DEF Catch, probeVars
<1>15. CASE Drop
  BY <1>15 DEF Drop, probeVars
<1>16. CASE Dropped
  BY <1>16 DEF Dropped, probeVars
<1>17. CASE StopServer
  BY <1>17 DEF StopServer, Served, probeVars
<1>18. CASE ProbedRead
  BY <1>18, ReadKeeps
<1>19. CASE TxBegin \/ TxStep
  BY <1>19 DEF TxBegin, TxStep, lifeVars
<1>20. CASE RxDeliver
  <2>1. CASE Head(rxQueue) = "raw"
    BY <1>20, <2>1 DEF RxDeliver, RawGoes, Awakened
  <2>2. CASE Head(rxQueue) # "raw"
    BY <1>20, <2>2 DEF RxDeliver, RawGoes, Awakened
  <2> QED  BY <2>1, <2>2
<1>21. CASE HotPlugEvent \/ HotPlugStep \/ Outside
  BY <1>21 DEF HotPlugEvent, HotPlugStep, Outside, lifeVars, probeVars
<1> HIDE DEF Answered
<1> QED
  BY <1>0, <1>1, <1>2, <1>3, <1>4, <1>5, <1>6, <1>7, <1>8, <1>9, <1>10, <1>11,
     <1>12, <1>13, <1>14, <1>15, <1>16, <1>17, <1>18, <1>19, <1>20, <1>21
     DEF ProbedNext, Main

\* A receiver that was found has told its serial number (UdCapProbe.cpp:60-92).
THEOREM FoundAnswered == ProbedSpec => []FoundHasAnswer
<1>1. ProbedInit => Answered
  BY DEF ProbedInit, Answered
<1>2. Answered => FoundHasAnswer
  BY DEF Answered, FoundHasAnswer
<1> QED
  BY <1>1, <1>2, AnsweredStep, PTL DEF ProbedSpec

-----------------------------------------------------------------------------
LEMMA HandingInit == ProbedInit => Handing
BY DEF ProbedInit, Handing, RawFirst, RawGone, ProbeStage, RestoreIsProbes,
       HandedOnClean, Early, Asking

\* Steps that leave alone what the probe has registered, queued and started, and
\* take the main thread from one of its places to another.
LEMMA HandingMoves ==
  ASSUME Handing,
         UNCHANGED <<user, result, loopVars, probeVars>>,
         \/ step' = step
         \/ step' \in {"terminated", "catch", "catchStop", "catchJoin", "drop", "dropJoin",
                       "dropped"}
         \/ step \in Early /\ step' \in Early
         \/ step \in Asking \ {"stop"} /\ step' \in Asking \ {"stop"}
         \/ user = "core" /\ step' = "stop"
         \/ step = "join" /\ user = "probe" /\ ~reading /\ step' = "restore"
  PROVE  Handing'
<1>1. /\ user' = user /\ reading' = reading /\ startCount' = startCount /\ helper' = helper
      /\ onceRaw' = onceRaw /\ onData' = onData /\ got' = got /\ rxQueue' = rxQueue
      /\ uds' = uds
  BY DEF loopVars, probeVars
<1>2. RawFirst' /\ RawGone'
  BY <1>1 DEF Handing, RawFirst, RawGone
<1>3. ProbeStage'
  BY <1>1 DEF Handing, ProbeStage, Early, Asking
<1>4. RestoreIsProbes'
  BY <1>1 DEF Handing, RestoreIsProbes, Early, Asking
<1>5. HandedOnClean'
  BY <1>1 DEF Handing, HandedOnClean, Early, Asking
<1> QED  BY <1>2, <1>3, <1>4, <1>5 DEF Handing

LEMMA ListenHands == Handing /\ MainListen => Handing'
<1> SUFFICES ASSUME Handing, MainListen PROVE Handing'
  OBVIOUS
<1>1. /\ step = "listen" /\ step' = "start" /\ user' = user /\ reading' = reading
      /\ startCount' = startCount /\ got' = got /\ rxQueue' = rxQueue /\ uds' = uds
  BY DEF MainListen
<1>2. CASE user = "probe"
  BY <1>1, <1>2 DEF Handing, RawFirst, RawGone, ProbeStage, RestoreIsProbes,
     HandedOnClean, Early, Asking
<1>3. CASE user # "probe"
  <2>1. (onceRaw' <=> onceRaw) /\ (onData' <=> onData) /\ (helper # "probe" => helper' # "probe")
    BY <1>3 DEF MainListen
  <2> QED
    BY <1>1, <1>3, <2>1 DEF Handing, RawFirst, RawGone, ProbeStage, RestoreIsProbes,
       HandedOnClean
<1> QED  BY <1>2, <1>3

LEMMA StartHands == Handing /\ StartContinuousRead => Handing'
<1> SUFFICES ASSUME Handing, StartContinuousRead PROVE Handing'
  OBVIOUS
<1>1. /\ step = "start" /\ user' = user /\ result' = result /\ helper' = helper
      /\ UNCHANGED probeVars
  BY DEF StartContinuousRead
<1>2. CASE ~isOpenFlag
  BY <1>1, <1>2, HandingMoves DEF StartContinuousRead, Thrown, loopVars
<1>3. CASE isOpenFlag
  <2>1. /\ step' = IF user = "probe" THEN "write" ELSE "served"
        /\ startCount' = startCount + 1
    BY <1>3 DEF StartContinuousRead
  <2> QED
    BY <1>1, <2>1 DEF Handing, RawFirst, RawGone, ProbeStage, RestoreIsProbes,
       HandedOnClean, Early, Asking, probeVars
<1> QED  BY <1>2, <1>3

LEMMA StopHands == Handing /\ StopContinuousRead => Handing'
<1> SUFFICES ASSUME Handing, StopContinuousRead PROVE Handing'
  OBVIOUS
<1>1. /\ step \in {"stop", "catchStop"} /\ user' = user /\ result' = result
      /\ reading' = reading /\ helper' = helper /\ UNCHANGED probeVars
  BY DEF StopContinuousRead
<1>2. CASE ~isOpenFlag
  BY <1>1, <1>2, HandingMoves DEF StopContinuousRead, Thrown, loopVars
<1>3. CASE isOpenFlag
  <2>1. /\ step' = IF step = "stop" THEN "join" ELSE "catchJoin"
        /\ startCount' = startCount - 1
    BY <1>3 DEF StopContinuousRead
  <2> QED
    BY <1>1, <2>1 DEF Handing, RawFirst, RawGone, ProbeStage, RestoreIsProbes,
       HandedOnClean, Early, Asking, probeVars
<1> QED  BY <1>2, <1>3

\* A receiver is handed on with an answer, so without the callback for raw data.
LEMMA ReturnHands == Handing /\ Answered /\ Return => Handing'
<1> SUFFICES ASSUME Handing, Answered, Return PROVE Handing'
  OBVIOUS
<1>1. /\ step = "restore" /\ user = "probe" /\ ~onData /\ ~reading /\ startCount = 0
  BY DEF Return, Handing, RestoreIsProbes, ProbeStage, Early
<1>2. /\ helper' = "none" /\ ~uds' /\ reading' = reading /\ startCount' = startCount
      /\ onceRaw' = onceRaw /\ onData' = onData /\ rxQueue' = rxQueue
  BY DEF Return, Restored
<1>3. CASE result = "V1"
  <2>1. ~onceRaw
    BY <1>3 DEF Answered, Handing, RawGone
  <2>2. user' = "core" /\ step' = "open"
    BY <1>3 DEF Return
  <2> QED
    BY <1>1, <1>2, <2>1, <2>2 DEF Handing, RawFirst, RawGone, ProbeStage, RestoreIsProbes,
       HandedOnClean
<1>4. CASE result # "V1"
  <2>1. user' = user /\ step' = "drop"
    BY <1>4 DEF Return
  <2> QED
    BY <1>1, <1>2, <2>1 DEF Handing, RawFirst, RawGone, ProbeStage, RestoreIsProbes,
       HandedOnClean, Early, Asking
<1> QED  BY <1>3, <1>4

LEMMA HandOnHands == Handing /\ HandOn => Handing'
<1> SUFFICES ASSUME Handing, HandOn PROVE Handing'
  OBVIOUS
<1>1. /\ step' = step /\ user' = user /\ reading' = reading /\ startCount' = startCount
      /\ helper' = helper /\ onceRaw' = onceRaw /\ onData' = onData /\ uds' = uds
      /\ got' = "nothing" /\ got # "nothing"
  BY DEF HandOn, lifeVars, loopVars
<1>2. PICK raw \in Seq({"raw", "packet"}), packet \in Seq({"raw", "packet"}) :
         /\ onceRaw => raw = <<"raw">>
         /\ rxQueue' = rxQueue \o raw \o packet
  <2> DEFINE raw == IF onceRaw THEN <<"raw">> ELSE <<>>
             packet == IF got = "answer" /\ helper = "probe" THEN <<"packet">> ELSE <<>>
  <2>0. /\ <<"raw">> \in Seq({"raw", "packet"}) /\ <<"packet">> \in Seq({"raw", "packet"})
        /\ <<>> \in Seq({"raw", "packet"})
    OBVIOUS
  <2>1. raw \in Seq({"raw", "packet"}) /\ packet \in Seq({"raw", "packet"})
    BY <2>0
  <2> QED  BY <2>1 DEF HandOn
<1>3. rxQueue \in Seq({"raw", "packet"}) /\ (onceRaw /\ rxQueue # <<>> => Head(rxQueue) = "raw")
  BY DEF Handing, RawFirst
<1>4. rxQueue' \in Seq({"raw", "packet"})
  BY <1>2, <1>3
<1>5. onceRaw => Head(rxQueue') = "raw"
  <2>1. CASE rxQueue = <<>>
    <3> SUFFICES ASSUME onceRaw PROVE Head(rxQueue') = "raw"
      OBVIOUS
    <3>1. rxQueue \o raw = <<"raw">>
      BY <1>2, <2>1
    <3>2. rxQueue' = <<"raw">> \o packet
      BY <1>2, <3>1
    <3>3. rxQueue'[1] = "raw" /\ rxQueue' # <<>>
      BY <1>2, <3>2
    <3> QED  BY <1>4, <3>3
  <2>2. CASE rxQueue # <<>>
    <3>1. rxQueue \o raw \in Seq({"raw", "packet"})
      BY <1>2, <1>3
    <3>2. Len(rxQueue) > 0 /\ Len(rxQueue \o raw) > 0
      BY <1>2, <1>3, <2>2
    <3>3. (rxQueue \o raw)[1] = rxQueue[1]
      BY <1>2, <1>3, <3>2
    <3>4. rxQueue'[1] = (rxQueue \o raw)[1]
      BY <1>2, <3>1, <3>2
    <3> QED  BY <1>3, <1>4, <2>2, <3>3, <3>4
  <2> QED  BY <2>1, <2>2
<1>6. RawFirst'
  BY <1>1, <1>4, <1>5 DEF RawFirst
<1> QED
  BY <1>1, <1>6 DEF Handing, RawGone, ProbeStage, RestoreIsProbes, HandedOnClean, Early,
     Asking

LEMMA DeliverHands == Handing /\ RxDeliver => Handing'
<1> SUFFICES ASSUME Handing, RxDeliver PROVE Handing'
  OBVIOUS
<1>1. /\ user' = user /\ reading' = reading /\ startCount' = startCount
      /\ helper' = helper /\ onData' = onData /\ got' = got
      /\ rxQueue # <<>> /\ rxQueue' = Tail(rxQueue)
  BY DEF RxDeliver, loopVars
<1>2. step' = step \/ (step = "wait1" /\ step' = "awake1") \/ (step = "wait2" /\ step' = "awake2")
  BY DEF RxDeliver, Awakened
<1>3. rxQueue \in Seq({"raw", "packet"}) /\ rxQueue' \in Seq({"raw", "packet"})
  BY <1>1 DEF Handing, RawFirst
<1>4. ~onceRaw'
  <2>1. CASE Head(rxQueue) = "raw"
    BY <2>1 DEF RxDeliver, RawGoes
  <2>2. CASE Head(rxQueue) # "raw"
    BY <1>1, <2>2 DEF RxDeliver, Handing, RawFirst
  <2> QED  BY <2>1, <2>2
<1>5. RawFirst' /\ RawGone' /\ RestoreIsProbes'
  BY <1>1, <1>2, <1>3, <1>4 DEF Handing, RawFirst, RawGone, RestoreIsProbes
<1>6. ProbeStage'
  BY <1>1, <1>2 DEF Handing, ProbeStage, Early, Asking
<1>7. HandedOnClean'
  BY <1>1, <1>2, <1>4 DEF Handing, HandedOnClean
<1> QED  BY <1>5, <1>6, <1>7 DEF Handing

\* The rest of what the port's threads do.
LEMMA PortHands ==
  ASSUME Handing,
         UNCHANGED <<step, user, onceRaw, onData, uds, helper, startCount, rxQueue>>,
         reading' = reading \/ ~reading',
         got' = got \/ reading
  PROVE  Handing'
<1>1. ProbeStage'
  BY DEF Handing, ProbeStage, Early, Asking
<1> QED  BY <1>1 DEF Handing, RawFirst, RawGone, RestoreIsProbes, HandedOnClean

LEMMA HandingStep == Handing /\ Answered /\ [ProbedNext]_pvars => Handing'
<1> SUFFICES ASSUME Handing, Answered, [ProbedNext]_pvars PROVE Handing'
  OBVIOUS
<1>0. CASE UNCHANGED pvars
  BY <1>0, HandingMoves DEF pvars, lifeVars
<1>1. CASE MainOpen \/ MainOpenLocked \/ MainOpened \/ SetBaudRate
  BY <1>1, HandingMoves DEF MainOpen, MainOpenLocked, MainOpened, SetBaudRate, Thrown, Early
<1>2. CASE AskName
  <2>1. step \in {"write"} /\ step' \in {"toWait", "catch", "terminated"}
    BY <1>2 DEF AskName, Thrown
  <2>2. UNCHANGED <<user, result, reading, startCount, helper, onceRaw, onData, got, rxQueue, uds>>
    BY <1>2 DEF AskName, loopVars
  <2> QED
    BY <2>1, <2>2 DEF Handing, RawFirst, RawGone, ProbeStage, RestoreIsProbes,
       HandedOnClean, Early, Asking
<1>3. CASE Wait
  BY <1>3, HandingMoves DEF Wait, Asking
<1>4. CASE TimedOut \/ Found
  <2>1. /\ step \in {"wait1", "wait2", "awake2"} /\ step' = "unlisten"
        /\ UNCHANGED <<user, loopVars, probeVars>>
    BY <1>4 DEF TimedOut, TimesOut, Waiting, Found
  <2> QED
    BY <2>1 DEF Handing, RawFirst, RawGone, ProbeStage, RestoreIsProbes, HandedOnClean,
       Early, Asking, loopVars, probeVars
<1>5. CASE Unlisten
  BY <1>5 DEF Unlisten, Handing, RawFirst, RawGone, ProbeStage, RestoreIsProbes,
     HandedOnClean, Early, Asking, loopVars
<1>6. CASE Joined
  BY <1>6, HandingMoves DEF Joined
<1>7. CASE Catch
  <2>1. /\ step' \in {"catchStop", "drop"}
        /\ UNCHANGED <<user, loopVars, probeVars>>
    BY <1>7 DEF Catch
  <2> QED
    BY <2>1 DEF Handing, RawFirst, RawGone, ProbeStage, RestoreIsProbes, HandedOnClean,
       Early, Asking, loopVars, probeVars
<1>8. CASE Drop
  BY <1>8 DEF Drop, Handing, RawFirst, RawGone, ProbeStage, RestoreIsProbes, HandedOnClean,
     Early, Asking, probeVars
<1>9. CASE Dropped
  BY <1>9, HandingMoves DEF Dropped
<1>10. CASE StopServer
  BY <1>10, HandingMoves DEF StopServer, Served
<1>11. CASE ProbedRead
  <2>1. CASE HandOn
    BY <2>1, HandOnHands
  <2>2. CASE ~HandOn
    <3>1. UNCHANGED rxQueue
      BY <1>11, <2>2 DEF ProbedRead, ReadOk, ReadEnds, probeVars
    <3>2. (reading' = reading \/ ~reading') /\ (got' = got \/ reading)
      BY <1>11, <2>2 DEF ProbedRead, ReadEnds, ReadOk, loopVars, probeVars
    <3> QED  BY <1>11, <3>1, <3>2, ReadKeeps, PortHands
  <2> QED  BY <2>1, <2>2
<1>12. CASE TxBegin \/ TxStep
  BY <1>12, PortHands DEF TxBegin, TxStep, lifeVars, loopVars
<1>13. CASE HotPlugEvent \/ HotPlugStep \/ Outside
  BY <1>13, HandingMoves DEF HotPlugEvent, HotPlugStep, Outside, lifeVars
<1> QED
  BY <1>0, <1>1, <1>2, <1>3, <1>4, <1>5, <1>6, <1>7, <1>8, <1>9, <1>10, <1>11, <1>12,
     <1>13, ListenHands, StartHands, StopHands, ReturnHands, DeliverHands
     DEF ProbedNext, Main

\* A port goes to a core with no read thread, none of the probe's callbacks and
\* not its matcher (UdCapProbe.cpp:82-84).
THEOREM HandsOnClean == ProbedSpec => []HandedOnClean
<1>1. ProbedInit => Answered /\ Handing
  BY HandingInit DEF ProbedInit, Answered
<1>2. Answered /\ Handing /\ [ProbedNext]_pvars => (Answered /\ Handing)'
  BY AnsweredStep, HandingStep
<1>3. Handing => HandedOnClean
  BY DEF Handing
<1> QED
  BY <1>1, <1>2, <1>3, PTL DEF ProbedSpec

-----------------------------------------------------------------------------
(* In service: what is open behind a port that counts as closed or dead is     *)
(* being seen to by a thread, and the locks say which one may.                *)

ReadHolding == {"waiting", "operating", "resetClose", "resetOpen", "resetDone"}

\* Who holds the port's mutex, and what nobody else can then have changed: a reset
\* opens only what it has closed.
Holders ==
  /\ pc["read"] \in ReadHolding => ioMutex = "read"
  /\ pc["plug"] \in {"opening", "opened"} => ioMutex = "plug"
  /\ step = "opened" => ioMutex = "main"
  /\ pc["read"] \in {"resetClose", "resetOpen"} => ~isOpenFlag
  /\ pc["read"] = "resetOpen" => ~socket

\* A thread is to close the descriptor, or to count the port as open.
BeingFixed ==
  \/ \E t \in Users : pc[t] = "closing"
  \/ pc["read"] \in {"resetClose", "resetDone"}
  \/ pc["plug"] = "opened"

\* An open descriptor that counts as open behind a mark of death is to be revived,
\* or has the mark from the probe or from an open that was overtaken.
Behind ==
  /\ socket /\ ~isOpenFlag => BeingFixed
  /\ socket /\ isOpenFlag /\ isDead =>
       pc["plug"] \in {"opened", "revive"} \/ startedDead \/ overtaken

InService == Served => Behind

\* PortAccessor's steps, whichever thread of the server takes them.
LEMMA PortTypes == TypeOK /\ Next => TypeOK'
<1> SUFFICES ASSUME TypeOK, Next PROVE TypeOK'
  OBVIOUS
<1> USE DEF TypeOK, Goto, Threads, Users, UserPcs, flagVars
<1>1. CASE BeginRead
  BY <1>1 DEF BeginRead
<1>2. CASE BeginWrite
  BY <1>2 DEF BeginWrite
<1>3. ASSUME NEW t \in Users, StartOperation(t) PROVE TypeOK'
  BY <1>3 DEF StartOperation
<1>4. ASSUME NEW t \in Users, NEW ok \in BOOLEAN, EndOperation(t, ok) PROVE TypeOK'
  BY <1>4 DEF EndOperation, AfterFailure
<1>5. ASSUME NEW t \in Users, MarkDead(t) PROVE TypeOK'
  BY <1>5 DEF MarkDead
<1>6. ASSUME NEW t \in Users, CloseDead(t) PROVE TypeOK'
  BY <1>6 DEF CloseDead
<1>7. ASSUME NEW t \in Users, StopDead(t) PROVE TypeOK'
  BY <1>7 DEF StopDead
<1>8. CASE TakeReset
  BY <1>8 DEF TakeReset
<1>9. CASE ResetBegin
  BY <1>9 DEF ResetBegin
<1>10. CASE ResetClose
  BY <1>10 DEF ResetClose
<1>11. CASE ResetOpen
  BY <1>11 DEF ResetOpen
<1>12. CASE ResetDone
  BY <1>12 DEF ResetDone, BackInService
<1>13. CASE ResetFails
  BY <1>13 DEF ResetFails
<1>14. CASE HotPlugAdd
  BY <1>14 DEF HotPlugAdd
<1>15. CASE OpenPort
  BY <1>15 DEF OpenPort
<1>22. CASE OpenLocks
  BY <1>22 DEF OpenLocks
<1>16. CASE OpenSocket
  BY <1>16 DEF OpenSocket
<1>17. CASE Opened
  BY <1>17 DEF Opened
<1>18. CASE OpenFails
  BY <1>18 DEF OpenFails, LetGo
<1>19. CASE Revive
  BY <1>19 DEF Revive
<1>20. CASE RequestReset
  BY <1>20 DEF RequestReset
<1>21. CASE PlugOrUnplug
  BY <1>21 DEF PlugOrUnplug
<1> HIDE DEF TypeOK, Goto, Threads, UserPcs, flagVars
<1> QED
  BY <1>1, <1>2, <1>3, <1>4, <1>5, <1>6, <1>7, <1>8, <1>9, <1>10, <1>11, <1>12, <1>13,
     <1>14, <1>15, <1>16, <1>17, <1>18, <1>19, <1>20, <1>21, <1>22
     DEF Next, ReadThread, TxThread, Operation, Reset, HotPlug

LEMMA PortHolders ==
  ASSUME TypeOK, Holders, Next, step' = step
  PROVE  Holders'
<1> USE DEF TypeOK, Holders, ReadHolding, Goto, Threads, Users, UserPcs, flagVars
<1>1. CASE BeginRead
  BY <1>1 DEF BeginRead
<1>2. CASE BeginWrite
  BY <1>2 DEF BeginWrite
<1>3. ASSUME NEW t \in Users, StartOperation(t) PROVE Holders'
  BY <1>3 DEF StartOperation
<1>4. ASSUME NEW t \in Users, NEW ok \in BOOLEAN, EndOperation(t, ok) PROVE Holders'
  BY <1>4 DEF EndOperation, AfterFailure
<1>5. ASSUME NEW t \in Users, MarkDead(t) PROVE Holders'
  BY <1>5 DEF MarkDead
<1>6. ASSUME NEW t \in Users, CloseDead(t) PROVE Holders'
  BY <1>6 DEF CloseDead
<1>7. ASSUME NEW t \in Users, StopDead(t) PROVE Holders'
  BY <1>7 DEF StopDead
<1>8. CASE TakeReset
  BY <1>8 DEF TakeReset
<1>9. CASE ResetBegin
  BY <1>9 DEF ResetBegin
<1>10. CASE ResetClose
  BY <1>10 DEF ResetClose
<1>11. CASE ResetOpen
  BY <1>11 DEF ResetOpen
<1>12. CASE ResetDone
  BY <1>12 DEF ResetDone, BackInService
<1>13. CASE ResetFails
  BY <1>13 DEF ResetFails
<1>14. CASE HotPlugAdd
  BY <1>14 DEF HotPlugAdd
<1>15. CASE OpenPort
  BY <1>15 DEF OpenPort
<1>22. CASE OpenLocks
  BY <1>22 DEF OpenLocks
<1>16. CASE OpenSocket
  BY <1>16 DEF OpenSocket
<1>17. CASE Opened
  BY <1>17 DEF Opened
<1>18. CASE OpenFails
  BY <1>18 DEF OpenFails, LetGo
<1>19. CASE Revive
  BY <1>19 DEF Revive
<1>20. CASE RequestReset
  BY <1>20 DEF RequestReset
<1>21. CASE PlugOrUnplug
  BY <1>21 DEF PlugOrUnplug
<1> HIDE DEF TypeOK, Holders, ReadHolding, Goto, Threads, UserPcs, flagVars
<1> QED
  BY <1>1, <1>2, <1>3, <1>4, <1>5, <1>6, <1>7, <1>8, <1>9, <1>10, <1>11, <1>12, <1>13,
     <1>14, <1>15, <1>16, <1>17, <1>18, <1>19, <1>20, <1>21, <1>22
     DEF Next, ReadThread, TxThread, Operation, Reset, HotPlug

LEMMA PortBehind ==
  ASSUME TypeOK, Holders, Behind, Next,
         startedDead' <=> startedDead /\ isDead',
         overtaken' <=> (overtaken \/ MarksOpenPort) /\ isDead'
  PROVE  Behind'
<1> USE DEF TypeOK, Holders, ReadHolding, Behind, BeingFixed, Goto, Threads, Users,
         UserPcs, flagVars
<1>1. CASE BeginRead
  BY <1>1 DEF BeginRead
<1>2. CASE BeginWrite
  BY <1>2 DEF BeginWrite
<1>3. ASSUME NEW t \in Users, StartOperation(t) PROVE Behind'
  BY <1>3 DEF StartOperation
<1>4. ASSUME NEW t \in Users, NEW ok \in BOOLEAN, EndOperation(t, ok) PROVE Behind'
  BY <1>4 DEF EndOperation, AfterFailure
<1>5. ASSUME NEW t \in Users, MarkDead(t) PROVE Behind'
  BY <1>5 DEF MarkDead
<1>6. ASSUME NEW t \in Users, CloseDead(t) PROVE Behind'
  BY <1>6 DEF CloseDead
<1>7. ASSUME NEW t \in Users, StopDead(t) PROVE Behind'
  BY <1>7 DEF StopDead
<1>8. CASE TakeReset
  BY <1>8 DEF TakeReset
<1>9. CASE ResetBegin
  BY <1>9 DEF ResetBegin
<1>10. CASE ResetClose
  BY <1>10 DEF ResetClose
<1>11. CASE ResetOpen
  BY <1>11 DEF ResetOpen
<1>12. CASE ResetDone
  BY <1>12 DEF ResetDone, BackInService
<1>13. CASE ResetFails
  BY <1>13 DEF ResetFails
<1>14. CASE HotPlugAdd
  BY <1>14 DEF HotPlugAdd
<1>15. CASE OpenPort
  BY <1>15 DEF OpenPort
<1>22. CASE OpenLocks
  BY <1>22 DEF OpenLocks
<1>16. CASE OpenSocket
  BY <1>16 DEF OpenSocket
<1>17. CASE Opened
  BY <1>17 DEF Opened
<1>18. CASE OpenFails
  BY <1>18 DEF OpenFails, LetGo, MarksOpenPort
<1>19. CASE Revive
  BY <1>19 DEF Revive
<1>20. CASE RequestReset
  BY <1>20 DEF RequestReset
<1>21. CASE PlugOrUnplug
  BY <1>21 DEF PlugOrUnplug
<1> HIDE DEF TypeOK, Holders, ReadHolding, Behind, BeingFixed, Goto, Threads, UserPcs,
         flagVars
<1> QED
  BY <1>1, <1>2, <1>3, <1>4, <1>5, <1>6, <1>7, <1>8, <1>9, <1>10, <1>11, <1>12, <1>13,
     <1>14, <1>15, <1>16, <1>17, <1>18, <1>19, <1>20, <1>21, <1>22
     DEF Next, ReadThread, TxThread, Operation, Reset, HotPlug

-----------------------------------------------------------------------------
\* The port's threads and what is outside take PortAccessor's steps, or none.
PortStep == Next \/ UNCHANGED vars

LEMMA ThreadsArePorts ==
  ASSUME ProbedRead \/ TxBegin \/ TxStep \/ HotPlugEvent \/ HotPlugStep \/ Outside
  PROVE  PortStep /\ step' = step /\ user' = user
<1>1. CASE ProbedRead
  BY <1>1 DEF ProbedRead, ReadOk, HandOn, ReadEnds, PortStep, Next, ReadThread, Operation,
     Users, lifeVars
<1>2. CASE TxBegin
  BY <1>2 DEF TxBegin, PortStep, Next, TxThread, lifeVars
<1>3. CASE TxStep
  BY <1>3 DEF TxStep, PortStep, Next, TxThread, Operation, lifeVars
<1>4. CASE HotPlugEvent \/ HotPlugStep
  BY <1>4 DEF HotPlugEvent, HotPlugStep, PortStep, Next, lifeVars
<1>5. CASE Outside
  BY <1>5 DEF Outside, PortStep, Next, lifeVars
<1> QED  BY <1>1, <1>2, <1>3, <1>4, <1>5

LEMMA PortStepKeeps ==
  ASSUME TypeOK, Holders, PortStep, step' = step
  PROVE  TypeOK' /\ Holders'
<1>1. CASE Next
  BY <1>1, PortTypes, PortHolders DEF PortStep
<1>2. CASE UNCHANGED vars
  BY <1>2 DEF vars, flagVars, TypeOK, Holders
<1> QED  BY <1>1, <1>2 DEF PortStep

LEMMA PortStepServes ==
  ASSUME TypeOK, Holders, InService, PortStep, Observe, step' = step, user' = user
  PROVE  InService'
<1> SUFFICES ASSUME Served' PROVE Behind'
  BY DEF InService
<1>1. /\ Served /\ Behind
      /\ startedDead' <=> startedDead /\ isDead'
      /\ overtaken' <=> (overtaken \/ MarksOpenPort) /\ isDead'
  BY DEF Served, InService, Observe
<1>2. CASE Next
  BY <1>1, <1>2, PortBehind
<1>3. CASE UNCHANGED vars
  BY <1>1, <1>3 DEF vars, flagVars, Behind, BeingFixed
<1> QED  BY <1>2, <1>3 DEF PortStep

\* The main thread's steps that leave the port's state alone.
Aside ==
  \/ MainOpen \/ SetBaudRate \/ MainListen \/ StartContinuousRead \/ AskName \/ Wait
  \/ TimedOut \/ Found \/ Unlisten \/ StopServer \/ StopContinuousRead \/ Joined \/ Return \/ Catch
  \/ Drop \/ RxDeliver

LEMMA AsideMoves ==
  Aside => UNCHANGED vars /\ (step' # "opened" \/ step' = step)
<1> USE DEF Thrown
<1>1. MainOpen \/ SetBaudRate \/ MainListen \/ StartContinuousRead \/ AskName \/ Wait
        => UNCHANGED vars /\ step' # "opened"
  BY DEF MainOpen, SetBaudRate, MainListen, StartContinuousRead, AskName, Wait
<1>2. TimedOut \/ Found \/ Unlisten \/ StopServer \/ StopContinuousRead \/ Joined
        => UNCHANGED vars /\ step' # "opened"
  BY DEF TimedOut, Found, Unlisten, StopServer, StopContinuousRead, Joined
<1>3. Return \/ Catch \/ Drop => UNCHANGED vars /\ step' # "opened"
  BY DEF Return, Catch, Drop
<1>4. RxDeliver => UNCHANGED vars /\ (step' # "opened" \/ step' = step)
  BY DEF RxDeliver, Awakened
<1> QED  BY <1>1, <1>2, <1>3, <1>4 DEF Aside

LEMMA AsideKeeps == Aside /\ TypeOK /\ Holders => TypeOK' /\ Holders'
BY AsideMoves DEF vars, flagVars, TypeOK, Holders

\* A core is served from the start of its port on, which counts as open then.
LEMMA AsideServes ==
  ASSUME Aside, Observe, InService
  PROVE  InService'
<1> SUFFICES ASSUME Served' PROVE Behind'
  BY DEF InService
<1>1. \/ step = "start" /\ isOpenFlag /\ StartContinuousRead
      \/ Served
  <2>1. ~(MainOpen \/ SetBaudRate \/ MainListen \/ AskName \/ Wait \/ TimedOut \/ Found)
    BY DEF Served, MainOpen, SetBaudRate, MainListen, AskName, Wait, TimedOut, Found, Thrown
  <2>2. ~(Unlisten \/ StopServer \/ StopContinuousRead \/ Joined \/ Return \/ Catch \/ Drop)
    BY DEF Served, Unlisten, StopServer, StopContinuousRead, Joined, Return, Catch, Drop,
       Thrown
  <2>3. RxDeliver => Served
    BY DEF Served, RxDeliver, Awakened
  <2>4. StartContinuousRead => step = "start" /\ isOpenFlag
    BY DEF Served, StartContinuousRead, Thrown
  <2> QED  BY <2>1, <2>2, <2>3, <2>4 DEF Aside
<1>2. UNCHANGED vars
  BY AsideMoves
<1>3. CASE step = "start" /\ isOpenFlag
  BY <1>2, <1>3 DEF Observe, Behind, vars, flagVars
<1>4. CASE Served
  <2>1. /\ startedDead => (startedDead' <=> isDead')
        /\ overtaken => (overtaken' <=> isDead')
    BY <1>4 DEF Observe, Served
  <2> QED  BY <1>2, <1>4, <2>1 DEF InService, Behind, BeingFixed, vars, flagVars
<1> QED  BY <1>1, <1>3, <1>4

\* The main thread opens the port, and closes it at the end.
LEMMA MainKeeps ==
  ASSUME MainOpenLocked \/ MainOpened \/ Dropped, TypeOK, Holders
  PROVE  TypeOK' /\ Holders' /\ ~Served'
<1> USE DEF Thrown, TypeOK, Holders, ReadHolding, flagVars, Served
<1>1. CASE MainOpenLocked
  <2>1. /\ step' \in {"opened", "catch", "terminated"}
        /\ UNCHANGED <<plugged, stopped, isOpenFlag, isDead, resetRequested, opMutex, opAlive, pc>>
    BY <1>1 DEF MainOpenLocked
  <2>2. \/ UNCHANGED <<socket, ioMutex>> /\ step' # "opened"
        \/ ioMutex = "none" /\ socket' = TRUE /\ ioMutex' = "main"
    BY <1>1 DEF MainOpenLocked
  <2>3. TypeOK'
    BY <2>1, <2>2
  <2> QED  BY <2>1, <2>2, <2>3
<1>2. CASE MainOpened
  <2>1. /\ step = "opened" /\ step' # "opened" /\ ioMutex' = "none" /\ step' # "served"
        /\ UNCHANGED <<plugged, socket, stopped, isDead, resetRequested, opMutex, opAlive, pc>>
    BY <1>2 DEF MainOpened
  <2>2. isOpenFlag' \in BOOLEAN
    BY <1>2 DEF MainOpened
  <2>3. TypeOK'
    BY <2>1, <2>2
  <2> QED  BY <2>1, <2>3
<1>3. CASE Dropped
  <2>1. /\ step' = "dropped" /\ ~isOpenFlag' /\ (socket' => socket)
        /\ UNCHANGED <<plugged, stopped, isDead, resetRequested, ioMutex, opMutex, opAlive, pc>>
    BY <1>3 DEF Dropped
  <2>2. isOpenFlag' \in BOOLEAN /\ socket' \in BOOLEAN
    BY <1>3 DEF Dropped
  <2>3. TypeOK'
    BY <2>1, <2>2
  <2> QED  BY <2>1, <2>3
<1> QED  BY <1>1, <1>2, <1>3

LEMMA ServingStep ==
  TypeOK /\ Holders /\ InService /\ [ProbedNext]_pvars => (TypeOK /\ Holders /\ InService)'
<1> SUFFICES ASSUME TypeOK, Holders, InService, [ProbedNext]_pvars
             PROVE  TypeOK' /\ Holders' /\ InService'
  OBVIOUS
<1>1. CASE UNCHANGED pvars
  BY <1>1 DEF pvars, vars, lifeVars, histVars, flagVars, TypeOK, Holders, InService, Served, Behind,
     BeingFixed
<1>2. CASE /\ ProbedRead \/ TxBegin \/ TxStep \/ HotPlugEvent \/ HotPlugStep \/ Outside
           /\ Observe
  BY <1>2, ThreadsArePorts, PortStepKeeps, PortStepServes
<1>3. CASE Aside /\ Observe
  BY <1>3, AsideKeeps, AsideServes
<1>4. CASE MainOpenLocked \/ MainOpened \/ Dropped
  BY <1>4, MainKeeps DEF InService
<1> QED  BY <1>1, <1>2, <1>3, <1>4 DEF ProbedNext, Main, Aside

LEMMA ServingInit == ProbedInit => TypeOK /\ Holders /\ InService
<1> SUFFICES ASSUME ProbedInit PROVE TypeOK /\ Holders /\ InService
  OBVIOUS
<1>1. TypeOK
  BY DEF ProbedInit, TypeOK, Threads, Users, UserPcs
<1> QED
  BY <1>1 DEF ProbedInit, Holders, ReadHolding, InService, Served, Threads, Users

\* In service, when every thread is done, an open descriptor counts as open, and is
\* marked dead only where the probe's last read or an open that was overtaken has
\* left the mark (PortAccessor.cpp:105-119, 141-166, 446-477).
THEOREM ServedInService == ProbedSpec => []ServedIsInService
<1>1. InService => ServedIsInService
  <2> SUFFICES ASSUME Served, Behind, \A t \in Threads : pc[t] = "idle", socket
               PROVE  isOpenFlag /\ (isDead => startedDead \/ overtaken)
    BY DEF InService, ServedIsInService
  <2>1. pc["read"] = "idle" /\ pc["tx"] = "idle" /\ pc["plug"] = "idle"
    BY DEF Threads, Users
  <2> QED  BY <2>1 DEF Behind, BeingFixed, Users
<1> QED
  BY <1>1, ServingInit, ServingStep, PTL DEF ProbedSpec

-----------------------------------------------------------------------------
\* How far the port has been started when it is stopped, or given up.
Counts ==
  /\ step \in {"served", "stop", "catch", "catchStop"} => startCount \in {0, 1}
  /\ step \in Asking \ {"stop"} => user = "probe"

Places == {"open", "toOpen", "opened", "baud", "listen", "start", "write", "toWait", "wait1",
           "awake1", "wait2", "awake2", "unlisten", "stop", "join", "restore",
           "catch", "catchStop", "catchJoin", "served", "drop", "dropJoin",
           "dropped", "terminated"}

\* The type of what PortAccessor does not have.
LifeTypes ==
  /\ user \in {"probe", "core"}
  /\ step \in Places
  /\ result \in {"none", "failure", "V1"}
  /\ reading \in BOOLEAN /\ running \in BOOLEAN /\ onceRaw \in BOOLEAN
  /\ onData \in BOOLEAN /\ uds \in BOOLEAN
  /\ startCount \in -1 .. 1
  /\ helper \in {"none", "probe", "core"}
  /\ at \in {"none", "queued", "writing", "sent", "answered", "lost"}
  /\ got \in {"nothing", "data", "answer"}
  /\ Len(rxQueue) <= MaxRx

LEMMA CountsStep ==
  ASSUME Counts, LifeTypes, Handing, [ProbedNext]_pvars
  PROVE  Counts'
<1>0. /\ step \in {"served", "stop", "catch", "catchStop"} => startCount \in {0, 1}
      /\ step \in Asking \ {"stop"} => user = "probe"
      /\ step \in Early \cup {"start"} => startCount = 0
      /\ step \in Asking => startCount \in {0, 1}
      /\ user \in {"probe", "core"}
  BY DEF Counts, LifeTypes, Handing, ProbeStage, HandedOnClean, Early, Asking
<1> USE <1>0 DEF Counts, Thrown, Early, Asking
<1>1. CASE UNCHANGED pvars
  BY <1>1 DEF pvars, lifeVars, loopVars
<1>2. CASE MainOpen \/ MainOpenLocked \/ MainOpened \/ SetBaudRate
  BY <1>2 DEF MainOpen, MainOpenLocked, MainOpened, SetBaudRate, loopVars
<1>3. CASE MainListen
  BY <1>3 DEF MainListen
<1>4. CASE StartContinuousRead
  BY <1>4 DEF StartContinuousRead
<1>5. CASE AskName
  BY <1>5 DEF AskName, loopVars
<1>6. CASE Wait \/ TimedOut \/ Found \/ Unlisten \/ StopServer
  BY <1>6 DEF Wait, TimedOut, TimesOut, Waiting, Found, Unlisten, StopServer, Served, loopVars
<1>7. CASE StopContinuousRead \/ Joined \/ Return \/ Drop
  BY <1>7 DEF StopContinuousRead, Joined, Return, Drop
<1>8. CASE Catch
  BY <1>8 DEF Catch, loopVars
<1>9. CASE Dropped
  BY <1>9 DEF Dropped
<1>10. CASE RxDeliver
  BY <1>10 DEF RxDeliver, Awakened, loopVars
<1>11. CASE ProbedRead
  BY <1>11, ReadKeeps
<1>12. CASE TxBegin \/ TxStep \/ HotPlugEvent \/ HotPlugStep \/ Outside
  BY <1>12 DEF TxBegin, TxStep, HotPlugEvent, HotPlugStep, Outside, lifeVars, loopVars
<1> HIDE DEF Counts
<1> QED
  BY <1>1, <1>2, <1>3, <1>4, <1>5, <1>6, <1>7, <1>8, <1>9, <1>10, <1>11, <1>12
     DEF ProbedNext, Main

LEMMA LifeTypesMoves ==
  ASSUME LifeTypes, step' \in Places, result' \in {"none", "failure", "V1"},
         UNCHANGED <<user, loopVars, probeVars>>
  PROVE  LifeTypes'
BY DEF LifeTypes, loopVars, probeVars

LEMMA LifeTypesStep ==
  ASSUME Counts, LifeTypes, Handing, [ProbedNext]_pvars
  PROVE  LifeTypes'
<1>0. /\ step \in {"served", "stop", "catch", "catchStop"} => startCount \in {0, 1}
      /\ step \in Early \cup {"start"} => startCount = 0
      /\ user \in {"probe", "core"} /\ step \in Places /\ result \in {"none", "failure", "V1"}
      /\ rxQueue \in Seq({"raw", "packet"})
  BY DEF Counts, LifeTypes, Handing, RawFirst, ProbeStage, HandedOnClean, Early
<1>1. CASE UNCHANGED pvars
  BY <1>0, <1>1, LifeTypesMoves DEF pvars, lifeVars
<1>2. CASE MainOpen \/ MainOpenLocked \/ MainOpened \/ SetBaudRate
  <2>1. step' \in Places
    BY <1>2 DEF MainOpen, MainOpenLocked, MainOpened, SetBaudRate, Thrown, Places
  <2> QED
    BY <1>0, <1>2, <2>1, LifeTypesMoves DEF MainOpen, MainOpenLocked, MainOpened, SetBaudRate
<1>3. CASE MainListen
  BY <1>0, <1>3 DEF MainListen, LifeTypes, Places
<1>4. CASE StartContinuousRead
  <2>1. step' \in Places
    BY <1>4 DEF StartContinuousRead, Thrown, Places
  <2>2. reading' \in BOOLEAN /\ running' \in BOOLEAN
    BY <1>4 DEF StartContinuousRead, LifeTypes
  <2>3. startCount' \in {0, 1}
    BY <1>0, <1>4 DEF StartContinuousRead
  <2> QED  BY <1>4, <2>1, <2>2, <2>3 DEF StartContinuousRead, LifeTypes, probeVars
<1>5. CASE AskName
  <2>1. step' \in Places
    BY <1>5 DEF AskName, Thrown, Places
  <2> QED  BY <1>5, <2>1 DEF AskName, LifeTypes, loopVars
<1>6. CASE Wait \/ TimedOut \/ Found \/ StopServer \/ Joined \/ Catch
  <2>1. step' \in Places
    BY <1>6 DEF Wait, TimedOut, Found, StopServer, Joined, Catch, Places
  <2>2. result' \in {"none", "failure", "V1"}
    BY <1>0, <1>6 DEF Wait, TimedOut, Found, StopServer, Joined, Catch
  <2> QED
    BY <1>6, <2>1, <2>2, LifeTypesMoves DEF Wait, TimedOut, Found, StopServer, Joined, Catch
<1>7. CASE StopContinuousRead
  <2>1. step' \in Places
    BY <1>7 DEF StopContinuousRead, Thrown, Places
  <2>2. running' \in BOOLEAN
    BY <1>7 DEF StopContinuousRead, LifeTypes
  <2>3. startCount' \in {-1, 0, 1}
    BY <1>0, <1>7 DEF StopContinuousRead
  <2> QED  BY <1>7, <2>1, <2>2, <2>3 DEF StopContinuousRead, LifeTypes, probeVars
<1>8. CASE Return
  <2>1. step' \in Places /\ user' \in {"probe", "core"}
    BY <1>0, <1>8 DEF Return, Places
  <2> QED  BY <1>8, <2>1 DEF Return, Restored, LifeTypes
<1>9. CASE Unlisten
  <2>1. step' \in Places /\ onData' \in BOOLEAN
    BY <1>9 DEF Unlisten, Places
  <2> QED  BY <1>9, <2>1 DEF Unlisten, LifeTypes, loopVars
<1>10. CASE Drop \/ Dropped
  <2>1. step' \in Places /\ running' \in BOOLEAN
    BY <1>10 DEF Drop, Dropped, Places, LifeTypes, loopVars
  <2> QED  BY <1>10, <2>1 DEF Drop, Dropped, LifeTypes, loopVars, probeVars
<1>11. CASE RxDeliver
  <2>1. step' \in Places
    BY <1>0, <1>11 DEF RxDeliver, Awakened, Places
  <2>2. onceRaw' \in BOOLEAN
    BY <1>11 DEF RxDeliver, RawGoes, LifeTypes
  <2>3. uds' \in BOOLEAN
    BY <1>11 DEF RxDeliver
  <2>4. Len(rxQueue') <= MaxRx
    <3>1. rxQueue # <<>> /\ rxQueue' = Tail(rxQueue)
      BY <1>11 DEF RxDeliver
    <3>2. Len(rxQueue') = Len(rxQueue) - 1 /\ Len(rxQueue) \in Nat
      BY <1>0, <3>1
    <3> QED  BY <3>2, RxAssumption DEF LifeTypes
  <2> QED  BY <1>11, <2>1, <2>2, <2>3, <2>4 DEF RxDeliver, LifeTypes, loopVars
<1>12. CASE ProbedRead
  <2>1. CASE HandOn
    BY <2>1 DEF HandOn, LifeTypes, lifeVars, loopVars
  <2>2. CASE ReadEnds
    BY <2>2 DEF ReadEnds, LifeTypes, lifeVars, probeVars
  <2>3. CASE ReadOk
    <3>1. at' \in {"answered", at} /\ got' \in {"nothing", "data", "answer"}
      BY <2>3 DEF ReadOk
    <3> QED  BY <2>3, <3>1 DEF ReadOk, LifeTypes, lifeVars, loopVars
  <2>4. CASE UNCHANGED <<lifeVars, loopVars, probeVars>>
    BY <1>0, <2>4, LifeTypesMoves DEF lifeVars
  <2> QED  BY <1>12, <2>1, <2>2, <2>3, <2>4 DEF ProbedRead
<1>13. CASE TxBegin \/ TxStep
  BY <1>13 DEF TxBegin, TxStep, LifeTypes, lifeVars, loopVars
<1>14. CASE HotPlugEvent \/ HotPlugStep \/ Outside
  BY <1>0, <1>14, LifeTypesMoves DEF HotPlugEvent, HotPlugStep, Outside, lifeVars
<1> QED
  BY <1>1, <1>2, <1>3, <1>4, <1>5, <1>6, <1>7, <1>8, <1>9, <1>10, <1>11, <1>12, <1>13, <1>14
     DEF ProbedNext, Main

LEMMA LifeInit == ProbedInit => LifeTypes /\ Counts /\ startedDead \in BOOLEAN /\ overtaken \in BOOLEAN
<1> SUFFICES ASSUME ProbedInit PROVE LifeTypes /\ Counts /\ startedDead \in BOOLEAN /\ overtaken \in BOOLEAN
  OBVIOUS
<1>1. step \in Places
  BY DEF ProbedInit, Places
<1>2. rxQueue = <<>> /\ Len(rxQueue) = 0
  BY DEF ProbedInit
<1>3. Len(rxQueue) <= MaxRx
  BY <1>2, RxAssumption
<1>4. /\ user = "probe" /\ result = "none" /\ startCount = 0 /\ helper = "none"
      /\ at = "none" /\ got = "nothing"
      /\ reading \in BOOLEAN /\ running \in BOOLEAN /\ onceRaw \in BOOLEAN
      /\ onData \in BOOLEAN /\ uds \in BOOLEAN
  BY DEF ProbedInit
<1>5. LifeTypes
  BY <1>1, <1>3, <1>4 DEF LifeTypes
<1> QED  BY <1>5 DEF ProbedInit, Counts, Asking

\* The port and its use have their types: startCount stays within one start, and
\* rxQueue within its bound, on every way the probe, the core and the end can take.
THEOREM ProbedTypes == ProbedSpec => []ProbedTypeOK
<1> DEFINE IInv == /\ TypeOK /\ Holders /\ InService
                   /\ Answered /\ Handing
                   /\ LifeTypes /\ Counts /\ startedDead \in BOOLEAN /\ overtaken \in BOOLEAN
<1>1. ProbedInit => IInv
  BY ServingInit, HandingInit, LifeInit DEF ProbedInit, Answered
<1>2. IInv /\ [ProbedNext]_pvars => IInv'
  <2> SUFFICES ASSUME IInv, [ProbedNext]_pvars PROVE IInv'
    OBVIOUS
  <2>1. Answered' /\ Handing'
    BY AnsweredStep, HandingStep
  <2>2. LifeTypes' /\ Counts'
    BY LifeTypesStep, CountsStep
  <2>3. startedDead' \in BOOLEAN /\ overtaken' \in BOOLEAN
    BY DEF ProbedNext, Observe, pvars, histVars
  <2> QED  BY <2>1, <2>2, <2>3, ServingStep
<1>3. IInv => ProbedTypeOK
  <2> SUFFICES ASSUME IInv PROVE ProbedTypeOK
    OBVIOUS
  <2>1. rxQueue \in Seq({"raw", "packet"})
    BY DEF Handing, RawFirst
  <2> QED  BY <2>1 DEF ProbedTypeOK, LifeTypes, Places
<1> HIDE DEF IInv
<1> QED
  BY <1>1, <1>2, <1>3, PTL DEF ProbedSpec
=============================================================================
