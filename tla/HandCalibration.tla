--------------------------- MODULE HandCalibration ---------------------------
(***************************************************************************)
(* Hand calibration of one core (src/UdCapV1Core.cpp), which two threads     *)
(* work on without a lock:                                                  *)
(*                                                                          *)
(*  - the client (the server's main thread, diag, or the test program) calls *)
(*    runCalibration, captureCalibrationData, clearCalibrationData and       *)
(*    completeCalibration.  A call whose checks fail throws and changes      *)
(*    nothing; it is not an action here.                                    *)
(*  - the rx thread computes a skeleton from every data frame while          *)
(*    caliStat is COMPLETED: it checks caliStat, reads the three references, *)
(*    and emits if the glove is linked.  Link packets run on it too, so the  *)
(*    link does not change within a frame.                                  *)
(*                                                                          *)
(* A reference (caliFist, caliAdduction, caliProtract) is reduced to the run *)
(* of runCalibration its capture belongs to, with a sign that tells a        *)
(* capture from the one it replaces; 0 is a zeroed reference, whose          *)
(* `captured` is false.  The frame's skeleton is reduced to the references   *)
(* it was computed from.  The clearing of the references is unsynchronised   *)
(* with the frame, so it is a step for each of them, in any order.           *)
(***************************************************************************)
EXTENDS Integers

CONSTANT MaxRuns     \* bound of the model: calls of runCalibration that start
ASSUME RunsAssumption == MaxRuns \in Nat

Poses == {"fist", "adduction", "protract"}

VARIABLES
  linked,      \* udState is LINKED
  caliStat,    \* udCapV1HandCaliStat
  ref,         \* pose -> its reference: + or - its run, 0 if zeroed
  run,         \* history: runs started
  toZero,      \* references the client has still to zero
  reading,     \* the rx thread is inside the computation of a frame
  toRead,      \* references the frame has still to read
  seen,        \* the references the frame has read
  frameRun,    \* history: the run that was current when the frame began
  calibrated   \* the listener's udcap_hand.calibrated

clientVars == <<caliStat, ref, run, toZero>>
frameVars  == <<reading, toRead, seen, frameRun>>
vars == <<linked, clientVars, frameVars, calibrated>>

Runs == 0 .. MaxRuns
Refs == -MaxRuns .. MaxRuns
NoRefs == [p \in Poses |-> 0]

\* Every variable has its type; references are of runs that were started.
TypeOK ==
  /\ linked \in BOOLEAN
  /\ caliStat \in {"NONE", "AUTO", "COMPLETED"}
  /\ ref \in [Poses -> Refs]
  /\ run \in Runs
  /\ toZero \subseteq Poses
  /\ reading \in BOOLEAN
  /\ toRead \subseteq Poses
  /\ seen \subseteq Refs
  /\ frameRun \in Runs
  /\ calibrated \in BOOLEAN

Init ==
  /\ linked = FALSE
  /\ caliStat = "NONE" /\ ref = NoRefs /\ run = 0 /\ toZero = {}
  /\ reading = FALSE /\ toRead = {} /\ seen = {} /\ frameRun = 0
  /\ calibrated = FALSE

-----------------------------------------------------------------------------
(* The client.  Each call starts by checking that the glove is linked.       *)

Ready == linked /\ toZero = {}

ToZero_None == {}           \* mutant: the captures of the last run are kept
ToZero == Poses

RunCalibration ==
  /\ Ready
  /\ caliStat \in {"NONE", "COMPLETED"}
  /\ run < MaxRuns
  /\ caliStat' = "AUTO"
  /\ run' = run + 1
  /\ toZero' = ToZero
  /\ UNCHANGED <<linked, ref, frameVars, calibrated>>

\* One of the memsets of runCalibration or clearCalibrationData.
ZeroRef(p) ==
  /\ p \in toZero
  /\ ref' = [ref EXCEPT ![p] = 0]
  /\ toZero' = toZero \ {p}
  /\ UNCHANGED <<linked, caliStat, run, frameVars, calibrated>>

MayCapture_Always == TRUE   \* mutant: a capture without a calibration under way
MayCapture == caliStat = "AUTO"

Captured(old) == IF old = run THEN -run ELSE run

CaptureCalibrationData(p) ==
  /\ Ready
  /\ MayCapture
  /\ ref' = [ref EXCEPT ![p] = Captured(@)]
  /\ UNCHANGED <<linked, caliStat, run, toZero, frameVars, calibrated>>

ClearOne(p) ==
  /\ Ready
  /\ caliStat # "COMPLETED"
  /\ toZero' = {p}
  /\ UNCHANGED <<linked, caliStat, ref, run, frameVars, calibrated>>

\* UDCAP_V1_HAND_CALI_TYPE_ALL, which takes a finished calibration back.
StatCleared_Kept == caliStat   \* mutant: it stays COMPLETED
StatCleared == IF caliStat = "COMPLETED" THEN "NONE" ELSE caliStat

ClearAll ==
  /\ Ready
  /\ caliStat' = StatCleared
  /\ toZero' = Poses
  /\ UNCHANGED <<linked, ref, run, frameVars, calibrated>>

\* `spread` is whether some joint moved by more than 25 between the captures.
CompleteCalibration(spread) ==
  /\ Ready
  /\ caliStat = "AUTO"
  /\ \A p \in Poses : ref[p] # 0
  /\ caliStat' = IF spread THEN "COMPLETED" ELSE "NONE"
  /\ UNCHANGED <<linked, ref, run, toZero, frameVars, calibrated>>

Client ==
  \/ RunCalibration
  \/ \E p \in Poses : ZeroRef(p) \/ CaptureCalibrationData(p) \/ ClearOne(p)
  \/ ClearAll
  \/ \E spread \in BOOLEAN : CompleteCalibration(spread)

-----------------------------------------------------------------------------
(* The rx thread.                                                           *)

LinkPacket ==
  /\ ~reading
  /\ linked' = ~linked
  /\ UNCHANGED <<clientVars, frameVars, calibrated>>

FrameBegin ==
  /\ ~reading
  /\ caliStat = "COMPLETED"
  /\ reading' = TRUE
  /\ toRead' = Poses
  /\ seen' = {}
  /\ frameRun' = run
  /\ UNCHANGED <<linked, clientVars, calibrated>>

FrameRead(p) ==
  /\ p \in toRead
  /\ seen' = seen \cup {ref[p]}
  /\ toRead' = toRead \ {p}
  /\ UNCHANGED <<linked, clientVars, reading, frameRun, calibrated>>

\* The skeleton event, which the listener publishes in its turn.
FrameEnd ==
  /\ reading
  /\ toRead = {}
  /\ reading' = FALSE
  /\ calibrated' = (calibrated \/ linked)
  /\ seen' = {} /\ frameRun' = 0   \* the frame's locals are gone
  /\ UNCHANGED <<linked, clientVars, toRead>>

RxThread ==
  \/ LinkPacket
  \/ FrameBegin
  \/ \E p \in Poses : FrameRead(p)
  \/ FrameEnd

-----------------------------------------------------------------------------
Next == Client \/ RxThread

Spec == Init /\ [][Next]_vars

-----------------------------------------------------------------------------
(* What calibration promises.                                               *)

\* A finished calibration rests on three captures of one and the same run,
\* the last one started: nothing left over from an earlier run gets in,
\* whatever calls came between (UdCapV1Core.cpp:1097-1262).
CompletedFromOneRun ==
  caliStat = "COMPLETED" => \A p \in Poses : ref[p] # 0 /\ ref[p] \in {run, -run}

\* The references the frames are computed with do not move while the
\* calibration is finished (UdCapV1Core.cpp:1128-1133, 1178-1198).
FrozenWhenCompleted ==
  [][caliStat = "COMPLETED" /\ caliStat' = "COMPLETED" => ref' = ref]_vars

\* A frame whose calibration is still the finished one has read exactly the
\* references that calibration has now; the rx thread needs no lock as long as
\* the client does not start over (UdCapV1Core.cpp:560-602).
UndisturbedFrame ==
  reading /\ caliStat = "COMPLETED" /\ frameRun = run
    => seen = {ref[p] : p \in Poses \ toRead}

(* The inductive invariant behind the first three. *)
Whole ==
  /\ caliStat = "COMPLETED" => toZero = {} /\ CompletedFromOneRun
  /\ \A p \in Poses \ toZero : ref[p] \in {0, run, -run}
  /\ reading => frameRun <= run
  /\ reading /\ frameRun = run => caliStat # "AUTO"
  /\ UndisturbedFrame

\* What the client's calls and the frames may rely on at any step (1097-1262).
IInv == TypeOK /\ Whole
=============================================================================
