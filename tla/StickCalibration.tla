--------------------------- MODULE StickCalibration ---------------------------
(***************************************************************************)
(* Thumbstick calibration of one hand with the original module: the server's *)
(* three commands (server/udcap_server.cpp:229-270) on the main thread, the  *)
(* core's software capture behind them, and the rx thread, which widens the  *)
(* captured range or normalises the stick with it in data frames.  There is   *)
(* no lock between the two threads: a frame checks joystickCaliStat and later  *)
(* uses the range, and while it widens the range the main thread may write   *)
(* it too.  CoreCalibration says in which frames, and when.                  *)
(*                                                                          *)
(* Centre and range are reduced to what sort they are.                      *)
(***************************************************************************)
VARIABLES
  linked,       \* udState is LINKED
  joyStat,      \* joystickCaliStat: "OK", "CENTER" or "ZONE"
  range,        \* the stick's range: the defaults, a single point, or swept
  pc,           \* where the main thread is in a command
  small,        \* main thread: the range it found too small to divide by
  frame,        \* rx thread: in a frame that has found joyStat "OK" or "ZONE"
  wide,         \* rx thread: the widened range it is about to store
  joyState,     \* joy_calib_state
  circled,      \* history: the stick has been at its edges in a frame of the
                \* capture, since the last centre capture
  touched,      \* history: the main thread is in, or has been in, a write of
                \* the range since the frame's check
  raced         \* history: a frame has stored over such a write since the
                \* last centre capture

rxVars   == <<linked, frame, wide>>
mainVars == <<joyStat, pc, small, joyState>>
histVars == <<circled, touched, raced>>
vars     == <<rxVars, mainVars, range, histVars>>

Ranges == {"default", "point", "swept"}

\* Every variable has its type; the range is always one of the three sorts.
TypeOK ==
  /\ {linked, small, circled, touched, raced} \subseteq BOOLEAN
  /\ joyStat \in {"OK", "CENTER", "ZONE"}
  /\ {range, wide} \subseteq Ranges
  /\ pc \in {"idle", "capture", "armed", "stopping"}
  /\ frame \in {"none", "OK", "ZONE"}
  /\ joyState \in {"IDLE", "CENTERED", "RANGING", "DONE"}

Init ==
  /\ linked = FALSE
  /\ joyStat = "OK" /\ range = "default"
  /\ pc = "idle" /\ small = FALSE
  /\ frame = "none" /\ wide = "default"
  /\ joyState = "IDLE"
  /\ circled = FALSE /\ touched = FALSE /\ raced = FALSE

-----------------------------------------------------------------------------
(* The main thread.                                                         *)

\* UDCAP_CMD_JOY_CALIB_CENTER: runCalibration(JOYSTICK), unless it throws ...
CenterBegin ==
  /\ pc = "idle"
  /\ IF linked THEN joyStat' = "CENTER" /\ pc' = "capture" /\ UNCHANGED joyState
               ELSE joyState' = "CENTERED" /\ UNCHANGED <<joyStat, pc>>
  /\ UNCHANGED <<rxVars, small, range, histVars>>

\* ... then captureJoystickData(CENTER): the range shrinks to the centre,
Shrunk_Not == range   \* mutant: the extremes of the last capture survive
Shrunk == "point"

CenterCapture ==
  /\ pc = "capture"
  /\ IF linked
       THEN /\ range' = Shrunk
            /\ pc' = "armed"
            /\ touched' = (frame # "none")
            /\ circled' = FALSE /\ raced' = FALSE
            /\ UNCHANGED joyState
       ELSE /\ pc' = "idle"
            /\ joyState' = "CENTERED"
            /\ UNCHANGED <<range, histVars>>
  /\ UNCHANGED <<rxVars, joyStat, small>>

\* and the range capture is armed.
Armed == "ZONE"

CenterEnd ==
  /\ pc = "armed"
  /\ joyStat' = Armed
  /\ pc' = "idle"
  /\ joyState' = "CENTERED"
  /\ UNCHANGED <<rxVars, small, range, histVars>>

\* UDCAP_CMD_JOY_CALIB_RANGE_START: nothing but the reported state.
RangeStart ==
  /\ pc = "idle"
  /\ joyState' = "RANGING"
  /\ UNCHANGED <<rxVars, joyStat, pc, small, range, histVars>>

\* UDCAP_CMD_JOY_CALIB_RANGE_STOP: completeCalibration(JOYSTICK) looks whether
\* the stick was moved through the range ...
TooSmall_Never == FALSE   \* mutant: whatever was captured is taken
TooSmall == range = "point"

RangeStop ==
  /\ pc = "idle"
  /\ IF linked
       THEN /\ pc' = "stopping"
            /\ small' = TooSmall
            /\ touched' = (frame # "none")
            /\ UNCHANGED joyState
       ELSE joyState' = "DONE" /\ UNCHANGED <<pc, small, touched>>
  /\ UNCHANGED <<rxVars, joyStat, range, circled, raced>>

\* ... and takes the defaults in its place if not.
RangeStopEnd ==
  /\ pc = "stopping"
  /\ range' = IF small THEN "default" ELSE range
  /\ joyStat' = "OK"
  /\ pc' = "idle"
  /\ small' = FALSE
  /\ joyState' = "DONE"
  /\ UNCHANGED <<rxVars, histVars>>

MainThread ==
  CenterBegin \/ CenterCapture \/ CenterEnd \/ RangeStart \/ RangeStop \/ RangeStopEnd

-----------------------------------------------------------------------------
(* The rx thread.                                                           *)

LinkPacket ==
  /\ frame = "none"
  /\ linked' = ~linked
  /\ UNCHANGED <<frame, wide, mainVars, range, histVars>>

\* A frame of a linked glove checks joystickCaliStat; in the range capture
\* it widens the range by where the stick is, at its edges or not.
FrameBegin(atEdges) ==
  /\ frame = "none"
  /\ linked
  /\ joyStat \in {"OK", "ZONE"}
  /\ frame' = joyStat
  /\ wide' = IF joyStat = "ZONE" /\ atEdges THEN "swept" ELSE range
  /\ circled' = (circled \/ (joyStat = "ZONE" /\ atEdges))
  /\ touched' = (pc \in {"stopping", "armed"})
  /\ UNCHANGED <<linked, mainVars, range, raced>>

\* It stores what it has widened, or divides by the range.
FrameEnd ==
  /\ frame # "none"
  /\ frame' = "none"
  /\ range' = IF frame = "ZONE" THEN wide ELSE range
  /\ raced' = (raced \/ (frame = "ZONE" /\ touched))
  /\ wide' = "default" /\ touched' = FALSE   \* the frame's own
  /\ UNCHANGED <<linked, mainVars, circled>>

RxThread == LinkPacket \/ (\E atEdges \in BOOLEAN : FrameBegin(atEdges)) \/ FrameEnd

-----------------------------------------------------------------------------
Next == MainThread \/ RxThread

Spec == Init /\ [][Next]_vars

-----------------------------------------------------------------------------
(* What it promises, of every capture that no frame has stored into while    *)
(* the main thread was writing the range.                                   *)

\* The stick is not normalised with the range of a single point, whatever the
\* commands, link losses and hand calibrations between: it "would divide by ~0
\* in the normalisation; fall back to the factory defaults"
\* (UdCapV1Core.cpp:1303-1304).  In a frame under way this goes for its check
\* to its end, if the main thread does not start a capture meanwhile.
DividesByRange ==
  ~raced /\ (joyStat = "OK" \/ (frame = "OK" /\ ~touched)) => range # "point"

\* The range in use is the one the stick was circled through since the last
\* centre capture, all of it; extremes "left over from a previous capture ...
\* don't survive into this one" (UdCapV1Core.cpp:1351-1352).
CircledIsUsed ==
  ~raced /\ joyStat = "OK" /\ frame = "none" => (range = "swept" <=> circled)

(* The inductive invariant behind both. *)

\* A frame in flight while the main thread is in a write has been touched; one
\* that widens and is not touched began in the capture.
Tracked ==
  /\ pc \in {"stopping", "armed"} /\ frame # "none" => touched
  /\ frame = "ZONE" /\ ~touched => joyStat # "OK"
  /\ pc = "capture" => joyStat = "CENTER"

\* What the range will be when the frame in flight has stored what it widened.
Settled == IF frame = "ZONE" THEN wide ELSE range

\* What the commands and the frames may rely on, in a capture that is not raced
\* and will not be by the frame in flight (UdCapV1Core.cpp:794-815, 1302-1366).
StickInv ==
  /\ TypeOK
  /\ Tracked
  /\ DividesByRange
  /\ ~raced /\ ~(frame = "ZONE" /\ touched) => (Settled = "swept" <=> circled)
  /\ ~raced /\ pc = "stopping" => (small <=> range = "point")
=============================================================================
