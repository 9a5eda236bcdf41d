------------------------- MODULE CoreCalibrationProofs -------------------------
(***************************************************************************)
(* Proofs about HandCalibration, for any number of runs: a finished           *)
(* calibration comes from one run, its references do not move while it is     *)
(* finished, and a frame it is not restarted under reads only them.           *)
(*                                                                          *)
(* Then about CoreCalibration.  A step of the core is a step of the hand's     *)
(* calibration or leaves its variables alone, so what holds of                *)
(* HandCalibration holds of the core; the stick's invariant is shown for each step of the stick, the    *)
(* other steps of the core moving none of its variables but `linked`.          *)
(***************************************************************************)
EXTENDS CoreCalibration, TLAPS

-----------------------------------------------------------------------------
(* HandCalibration by itself.                                               *)

LEMMA InitInv == Init => IInv
<1>. SUFFICES ASSUME Init PROVE IInv
  OBVIOUS
<1>1. TypeOK
  <2>1. 0 \in Runs /\ 0 \in Refs
    BY RunsAssumption DEF Runs, Refs
  <2>2. linked \in BOOLEAN /\ reading \in BOOLEAN /\ calibrated \in BOOLEAN
    BY DEF Init
  <2>3. ref \in [Poses -> Refs] /\ run \in Runs /\ frameRun \in Runs
    BY <2>1 DEF Init, NoRefs
  <2>. QED BY <2>2, <2>3 DEF Init, TypeOK
<1>2. caliStat = "NONE" /\ ~reading /\ \A p \in Poses : ref[p] = 0
  BY DEF Init, NoRefs
<1>. QED BY <1>1, <1>2 DEF IInv, Whole, UndisturbedFrame

LEMMA ClientTypes == TypeOK /\ Client => TypeOK'
<1>. SUFFICES ASSUME TypeOK, Client PROVE TypeOK'
  OBVIOUS
<1>. USE RunsAssumption DEF TypeOK, Runs, Refs, Poses, frameVars
<1>1. CASE RunCalibration
  BY <1>1 DEF RunCalibration, ToZero
<1>2. ASSUME NEW p \in Poses, ZeroRef(p) PROVE TypeOK'
  BY <1>2 DEF ZeroRef
<1>3. ASSUME NEW p \in Poses, CaptureCalibrationData(p) PROVE TypeOK'
  BY <1>3 DEF CaptureCalibrationData, Captured
<1>4. ASSUME NEW p \in Poses, ClearOne(p) PROVE TypeOK'
  BY <1>4 DEF ClearOne
<1>5. CASE ClearAll
  BY <1>5 DEF ClearAll, StatCleared
<1>6. ASSUME NEW spread \in BOOLEAN, CompleteCalibration(spread) PROVE TypeOK'
  BY <1>6 DEF CompleteCalibration
<1>. QED BY <1>1, <1>2, <1>3, <1>4, <1>5, <1>6 DEF Client

LEMMA RxTypes == TypeOK /\ RxThread => TypeOK'
<1>. SUFFICES ASSUME TypeOK, RxThread PROVE TypeOK'
  OBVIOUS
<1>. USE DEF TypeOK, Runs, Refs, Poses, clientVars, frameVars
<1>1. CASE LinkPacket
  <2>1. linked' \in BOOLEAN
    BY <1>1 DEF LinkPacket
  <2>2. UNCHANGED <<clientVars, frameVars, calibrated>>
    BY <1>1 DEF LinkPacket
  <2>. QED BY <2>1, <2>2
<1>2. CASE FrameBegin
  BY <1>2 DEF FrameBegin
<1>3. ASSUME NEW p \in Poses, FrameRead(p) PROVE TypeOK'
  BY <1>3 DEF FrameRead
<1>4. CASE FrameEnd
  <2>1. reading' \in BOOLEAN
    BY <1>4 DEF FrameEnd
  <2>2. calibrated' \in BOOLEAN
    BY <1>4 DEF FrameEnd
  <2>3. /\ seen' = {} /\ frameRun' = 0
        /\ UNCHANGED <<linked, caliStat, ref, run, toZero, toRead>>
    BY <1>4 DEF FrameEnd
  <2>. QED BY <2>1, <2>2, <2>3, RunsAssumption
<1>. QED BY <1>1, <1>2, <1>3, <1>4 DEF RxThread

-----------------------------------------------------------------------------
(* Each call of the client.                                                 *)

LEMMA ClientInv == IInv /\ Client => Whole'
<1>. SUFFICES ASSUME IInv, Client PROVE Whole'
  OBVIOUS
<1>. USE DEF IInv, Whole, CompletedFromOneRun, UndisturbedFrame, frameVars
<1>1. CASE RunCalibration
  <2>1. run \in Int /\ frameRun \in Int /\ run' = run + 1
    BY <1>1 DEF TypeOK, Runs, RunCalibration
  <2>. QED BY <1>1, <2>1 DEF RunCalibration, ToZero
<1>2. ASSUME NEW p \in Poses, ZeroRef(p) PROVE Whole'
  BY <1>2 DEF ZeroRef, TypeOK
<1>3. ASSUME NEW p \in Poses, CaptureCalibrationData(p) PROVE Whole'
  BY <1>3 DEF CaptureCalibrationData, Captured, MayCapture, Ready, TypeOK
<1>4. ASSUME NEW p \in Poses, ClearOne(p) PROVE Whole'
  BY <1>4 DEF ClearOne, Ready
<1>5. CASE ClearAll
  BY <1>5 DEF ClearAll, StatCleared, Ready
<1>6. ASSUME NEW spread \in BOOLEAN, CompleteCalibration(spread) PROVE Whole'
  BY <1>6 DEF CompleteCalibration, Ready
<1>. QED BY <1>1, <1>2, <1>3, <1>4, <1>5, <1>6 DEF Client

LEMMA RxInv == IInv /\ RxThread => Whole'
<1>. SUFFICES ASSUME IInv, RxThread PROVE Whole'
  OBVIOUS
<1>. USE DEF IInv, Whole, CompletedFromOneRun, UndisturbedFrame, clientVars, frameVars
<1>1. CASE LinkPacket
  <2>1. UNCHANGED <<clientVars, frameVars>>
    BY <1>1 DEF LinkPacket
  <2>. QED BY <2>1
<1>2. CASE FrameBegin
  BY <1>2 DEF FrameBegin, TypeOK, Runs
<1>3. ASSUME NEW p \in Poses, FrameRead(p) PROVE Whole'
  BY <1>3 DEF FrameRead
<1>4. CASE FrameEnd
  <2>1. ~reading' /\ UNCHANGED clientVars
    BY <1>4 DEF FrameEnd
  <2>. QED BY <2>1
<1>. QED BY <1>1, <1>2, <1>3, <1>4 DEF RxThread

LEMMA StepInv == IInv /\ [Next]_vars => IInv'
<1>. SUFFICES ASSUME IInv, [Next]_vars PROVE IInv'
  OBVIOUS
<1>1. CASE Client \/ RxThread
  <2>1. TypeOK'
    BY <1>1, ClientTypes, RxTypes DEF IInv
  <2>2. Whole'
    BY <1>1, ClientInv, RxInv
  <2>. QED BY <2>1, <2>2 DEF IInv
<1>2. CASE UNCHANGED vars
  <2>1. UNCHANGED <<linked, caliStat, ref, run, toZero, reading, toRead, seen,
                    frameRun, calibrated>>
    BY <1>2 DEF vars, clientVars, frameVars
  <2>2. TypeOK'
    BY <2>1 DEF IInv, TypeOK
  <2>. QED BY <2>1, <2>2 DEF IInv, Whole, CompletedFromOneRun, UndisturbedFrame
<1>. QED BY <1>1, <1>2 DEF Next

\* The inductive invariant holds of every behaviour, for any number of runs of
\* runCalibration.
THEOREM Invariance == Spec => []IInv
  BY InitInv, StepInv, PTL DEF Spec

\* A finished calibration rests on three captures of the last run started
\* (runCalibration, captureCalibrationData, completeCalibration).
THEOREM FromOneRun == Spec => []CompletedFromOneRun
<1>1. IInv => CompletedFromOneRun
  BY DEF IInv, Whole, CompletedFromOneRun
<1>. QED BY <1>1, Invariance, PTL

\* A frame under which the calibration is not restarted reads the references
\* of that calibration only (parsePacket's data branch, without a lock).
THEOREM FrameUndisturbed == Spec => []UndisturbedFrame
<1>1. IInv => UndisturbedFrame
  BY DEF IInv, Whole
<1>. QED BY <1>1, Invariance, PTL

\* No call moves a reference of a finished calibration without taking it back.
THEOREM Frozen == Spec => FrozenWhenCompleted
<1>1. IInv /\ [Next]_vars =>
        [caliStat = "COMPLETED" /\ caliStat' = "COMPLETED" => ref' = ref]_vars
  <2>. SUFFICES ASSUME IInv, Next, caliStat = "COMPLETED", caliStat' = "COMPLETED"
                PROVE  ref' = ref
    OBVIOUS
  <2>1. CASE Client
    BY <2>1 DEF Client, RunCalibration, ZeroRef, CaptureCalibrationData, MayCapture,
                ClearOne, ClearAll, StatCleared, CompleteCalibration, IInv, Whole
  <2>2. CASE RxThread
    BY <2>2 DEF RxThread, LinkPacket, FrameBegin, FrameRead, FrameEnd, clientVars
  <2>. QED BY <2>1, <2>2 DEF Next
<1>. QED BY <1>1, Invariance, PTL DEF Spec, FrozenWhenCompleted

-----------------------------------------------------------------------------
(* The hand's calibration.                                                  *)

LEMMA StepIsHandStep == CoreNext => [Next]_vars
<1>. SUFFICES ASSUME CoreNext PROVE [Next]_vars
  OBVIOUS
<1>1. CASE HandCall
  BY <1>1 DEF HandCall, Next
<1>2. CASE StickCall
  BY <1>2 DEF StickCall
<1>3. CASE Rx
  BY <1>3 DEF Rx, Link, HandPart, Emit, StickBegin, StickIgnored, StickEnd, Next, RxThread
<1>. QED BY <1>1, <1>2, <1>3 DEF CoreNext

\* The core implements the hand's calibration: whatever the server's stick
\* commands and the stick's part of the frames do, it behaves as
\* HandCalibration allows (UdCapV1Core.cpp:1097-1262, 560-677).
THEOREM HandImplemented == CoreSpec => Spec
<1>1. CoreInit => Init
  BY DEF CoreInit
<1>2. [CoreNext]_coreVars => [Next]_vars
  BY StepIsHandStep DEF coreVars
<1>. QED BY <1>1, <1>2, PTL DEF CoreSpec, Spec

-----------------------------------------------------------------------------
(* The stick's calibration.                                                 *)

LEMMA StickInitInv == Stick!Init => Stick!StickInv
  BY DEF Stick!Init, Stick!StickInv, Stick!TypeOK, Stick!Tracked, Stick!DividesByRange,
         Stick!Settled, Stick!Ranges

LEMMA StickMainInv == Stick!StickInv /\ Stick!MainThread => Stick!StickInv'
<1>. SUFFICES ASSUME Stick!StickInv, Stick!MainThread PROVE Stick!StickInv'
  OBVIOUS
<1>. USE DEF Stick!StickInv, Stick!TypeOK, Stick!Tracked, Stick!DividesByRange,
             Stick!Settled, Stick!Ranges, Stick!rxVars, Stick!histVars
<1>1. CASE Stick!CenterBegin
  BY <1>1 DEF Stick!CenterBegin
<1>2. CASE Stick!CenterCapture
  BY <1>2 DEF Stick!CenterCapture, Stick!Shrunk
<1>3. CASE Stick!CenterEnd
  BY <1>3 DEF Stick!CenterEnd, Stick!Armed
<1>4. CASE Stick!RangeStart
  BY <1>4 DEF Stick!RangeStart
<1>5. CASE Stick!RangeStop
  BY <1>5 DEF Stick!RangeStop, Stick!TooSmall
<1>6. CASE Stick!RangeStopEnd
  BY <1>6 DEF Stick!RangeStopEnd
<1>. QED BY <1>1, <1>2, <1>3, <1>4, <1>5, <1>6 DEF Stick!MainThread

LEMMA StickRxInv == Stick!StickInv /\ Stick!RxThread => Stick!StickInv'
<1>. SUFFICES ASSUME Stick!StickInv, Stick!RxThread PROVE Stick!StickInv'
  OBVIOUS
<1>. USE DEF Stick!StickInv, Stick!TypeOK, Stick!Tracked, Stick!DividesByRange,
             Stick!Settled, Stick!Ranges, Stick!mainVars, Stick!histVars
<1>1. CASE Stick!LinkPacket
  BY <1>1 DEF Stick!LinkPacket
<1>2. ASSUME NEW atEdges \in BOOLEAN, Stick!FrameBegin(atEdges) PROVE Stick!StickInv'
  <2>. USE <1>2 DEF Stick!FrameBegin
  <2>1. circled' \in BOOLEAN /\ touched' \in BOOLEAN
    OBVIOUS
  <2>2. Stick!TypeOK'
    BY <2>1
  <2>3. touched' <=> pc \in {"stopping", "armed"}
    OBVIOUS
  <2>4. Stick!Tracked' /\ Stick!DividesByRange'
    BY <2>3
  <2>5. circled' <=> circled \/ (joyStat = "ZONE" /\ atEdges)
    OBVIOUS
  <2>6. ~raced' /\ ~(frame = "ZONE" /\ touched)' => (Stick!Settled' = "swept" <=> circled')
    <3>1. ~raced => (range = "swept" <=> circled)
      OBVIOUS
    <3>. QED BY <2>5, <3>1
  <2>. QED BY <2>2, <2>4, <2>6
<1>3. CASE Stick!FrameEnd
  BY <1>3 DEF Stick!FrameEnd
<1>. QED BY <1>1, <1>2, <1>3 DEF Stick!RxThread

\* A step of the core is a step of the stick's calibration, or leaves its
\* variables alone.
LEMMA StepIsStickStep == CoreNext => Stick!Next \/ UNCHANGED <<linked, stickVars>>
<1>. SUFFICES ASSUME CoreNext PROVE Stick!Next \/ UNCHANGED <<linked, stickVars>>
  OBVIOUS
<1>1. CASE HandCall
  BY <1>1 DEF HandCall, Client, RunCalibration, ZeroRef, CaptureCalibrationData,
              ClearOne, ClearAll, CompleteCalibration
<1>2. CASE StickCall
  BY <1>2 DEF StickCall, Stick!Next
<1>3. CASE Link
  BY <1>3 DEF Link, BetweenFrames, LinkPacket, stickVars, Stick!Next, Stick!RxThread,
              Stick!LinkPacket, Stick!mainVars, Stick!histVars
<1>4. CASE HandPart
  BY <1>4 DEF HandPart, FrameBegin, FrameRead
<1>5. CASE Emit
  BY <1>5 DEF Emit, FrameEnd
<1>6. ASSUME NEW atEdges \in BOOLEAN, StickBegin(atEdges)
      PROVE  Stick!Next
  BY <1>6 DEF StickBegin, Stick!Next, Stick!RxThread
<1>7. CASE StickIgnored
  BY <1>7 DEF StickIgnored, vars
<1>8. CASE StickEnd
  BY <1>8 DEF StickEnd, Stick!Next, Stick!RxThread
<1>. QED BY <1>1, <1>2, <1>3, <1>4, <1>5, <1>6, <1>7, <1>8 DEF CoreNext, Rx

\* The core implements the stick's calibration too: the hand's calibrations
\* only take frames away from it (UdCapV1Core.cpp:560, 785-860).
THEOREM StickImplemented == CoreSpec => Stick!Spec
<1>1. CoreInit => Stick!Init
  BY DEF CoreInit
<1>2. [CoreNext]_coreVars => [Stick!Next]_(Stick!vars)
  BY StepIsStickStep DEF coreVars, vars, stickVars, Stick!vars, Stick!rxVars,
                         Stick!mainVars, Stick!histVars
<1>. QED BY <1>1, <1>2, PTL DEF CoreSpec, Stick!Spec

LEMMA StickStepInv == Stick!StickInv /\ [CoreNext]_coreVars => Stick!StickInv'
<1>. SUFFICES ASSUME Stick!StickInv, [CoreNext]_coreVars PROVE Stick!StickInv'
  OBVIOUS
<1>1. CASE UNCHANGED <<linked, stickVars>>
  BY <1>1 DEF stickVars, Stick!StickInv, Stick!TypeOK, Stick!Tracked, Stick!DividesByRange,
              Stick!Settled
<1>2. CASE Stick!Next
  BY <1>2, StickMainInv, StickRxInv DEF Stick!Next
<1>. QED BY <1>1, <1>2, StepIsStickStep DEF coreVars, vars

-----------------------------------------------------------------------------
(* Both.                                                                    *)

LEMMA OnePartStep == CoreInv /\ [CoreNext]_coreVars => OnePart'
<1>. SUFFICES ASSUME CoreInv, [CoreNext]_coreVars PROVE OnePart'
  OBVIOUS
<1>. USE DEF OnePart, CoreInv
<1>1. CASE HandCall
  BY <1>1 DEF HandCall, Client, RunCalibration, ZeroRef, CaptureCalibrationData,
              ClearOne, ClearAll, CompleteCalibration, frameVars, stickVars
<1>2. CASE StickCall
  <2>1. Stick!MainThread => UNCHANGED frame
    BY DEF Stick!MainThread, Stick!CenterBegin, Stick!CenterCapture, Stick!CenterEnd,
           Stick!RangeStart, Stick!RangeStop, Stick!RangeStopEnd, Stick!rxVars
  <2>. QED BY <1>2, <2>1 DEF StickCall, vars, frameVars
<1>3. CASE Link \/ HandPart
  BY <1>3 DEF Link, HandPart, BetweenFrames, stickVars
<1>4. CASE Emit
  <2>1. frame' = "none" /\ ~reading'
    BY <1>4 DEF Emit, FrameEnd, stickVars
  <2>2. tail' => linked'
    BY <1>4 DEF Emit, FrameEnd
  <2>. QED BY <2>1, <2>2
<1>5. CASE \E atEdges \in BOOLEAN : StickBegin(atEdges)
  BY <1>5 DEF StickBegin, vars, frameVars
<1>6. CASE StickIgnored
  BY <1>6 DEF StickIgnored, vars, frameVars, stickVars
<1>7. CASE StickEnd
  BY <1>7 DEF StickEnd, vars, frameVars, Stick!FrameEnd
<1>8. CASE UNCHANGED coreVars
  BY <1>8 DEF coreVars, vars, frameVars, stickVars
<1>. QED BY <1>1, <1>2, <1>3, <1>4, <1>5, <1>6, <1>7, <1>8 DEF CoreNext, Rx

LEMMA CoreInitInv == CoreInit => CoreInv
  BY InitInv, StickInitInv DEF CoreInit, CoreInv, OnePart, Init, Stick!Init

LEMMA CoreStepInv == CoreInv /\ [CoreNext]_coreVars => CoreInv'
<1>. SUFFICES ASSUME CoreInv, [CoreNext]_coreVars PROVE CoreInv'
  OBVIOUS
<1>1. IInv'
  BY StepInv, StepIsHandStep DEF CoreInv, coreVars
<1>2. Stick!StickInv'
  BY StickStepInv DEF CoreInv
<1>3. OnePart'
  BY OnePartStep
<1>. QED BY <1>1, <1>2, <1>3 DEF CoreInv, OnePart

\* The inductive invariant of both calibrations, under each other.
THEOREM CoreInvariance == CoreSpec => []CoreInv
  BY CoreInitInv, CoreStepInv, PTL DEF CoreSpec

\* A finished calibration rests on one run's captures, and an undisturbed frame
\* reads only them, with the server's stick commands between (1097-1262, 560-602).
THEOREM HandPromises == CoreSpec => [](CompletedFromOneRun /\ UndisturbedFrame)
<1>1. CoreInv => CompletedFromOneRun /\ UndisturbedFrame
  BY DEF CoreInv, IInv, Whole, CompletedFromOneRun, UndisturbedFrame
<1>. QED BY <1>1, CoreInvariance, PTL

\* The references of a finished calibration stand still (1128-1133, 1178-1198).
THEOREM CoreFrozen == CoreSpec => FrozenWhenCompleted
  BY HandImplemented, Frozen, PTL

\* Without a race the stick is not divided by a single point (1302-1314, 808-812).
THEOREM StickDivides == CoreSpec => []StickDividesByRange
<1>1. CoreInv => StickDividesByRange
  BY DEF CoreInv, Stick!StickInv, StickDividesByRange
<1>. QED BY <1>1, CoreInvariance, PTL

\* Without a race the range in use is the one the stick was circled through
\* (794-806, 1302-1366).
THEOREM StickCircled == CoreSpec => []StickCircledIsUsed
<1>1. CoreInv => StickCircledIsUsed
  BY DEF CoreInv, Stick!StickInv, Stick!Settled, Stick!CircledIsUsed, StickCircledIsUsed
<1>. QED BY <1>1, CoreInvariance, PTL
=============================================================================
