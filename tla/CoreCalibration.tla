--------------------------- MODULE CoreCalibration ---------------------------
(***************************************************************************)
(* Both calibrations of one core together (src/UdCapV1Core.cpp), on the two  *)
(* threads that run them: HandCalibration with its client, StickCalibration  *)
(* with the server's stick commands, and the rx thread under both.            *)
(*                                                                          *)
(*  - one thread, the server's main thread, makes all calls, one at a time;  *)
(*  - a data frame checks caliStat once, at its head (560).  What it does    *)
(*    after that goes on whatever the main thread does to caliStat: the       *)
(*    skeleton is computed and emitted, and then the stick's capture or       *)
(*    normalisation follows (677-860), with a check of its own;              *)
(*  - link packets come between frames.                                     *)
(***************************************************************************)
EXTENDS HandCalibration

VARIABLES
  joyStat, range, pc, small, frame, wide, joyState, circled, touched, raced,
  tail     \* the frame has emitted its skeleton, the stick is next

Stick == INSTANCE StickCalibration

stickVars == <<joyStat, range, pc, small, frame, wide, joyState,
               circled, touched, raced>>
coreVars  == <<vars, stickVars, tail>>

CoreInit == Init /\ Stick!Init /\ tail = FALSE

-----------------------------------------------------------------------------
(* The main thread, in one call at a time.                                   *)

HandCall ==
  /\ pc = "idle"
  /\ Client
  /\ UNCHANGED <<stickVars, tail>>

StickCall ==
  /\ toZero = {}
  /\ UNCHANGED <<vars, tail>>
  /\ Stick!MainThread

-----------------------------------------------------------------------------
(* The rx thread.                                                           *)

BetweenFrames == ~tail /\ frame = "none"

Link ==
  /\ BetweenFrames
  /\ LinkPacket
  /\ UNCHANGED <<stickVars, tail>>

\* The head of a frame, and the skeleton's part of it.
HandPart ==
  /\ BetweenFrames
  /\ FrameBegin \/ \E p \in Poses : FrameRead(p)
  /\ UNCHANGED <<stickVars, tail>>

\* The skeleton goes out if the glove is linked, and the stick's part follows.
Emit ==
  /\ FrameEnd
  /\ tail' = linked
  /\ UNCHANGED stickVars

\* No check of caliStat here: the one at the head of the frame has to do.
StickBegin(atEdges) ==
  /\ tail
  /\ tail' = FALSE
  /\ UNCHANGED vars
  /\ Stick!FrameBegin(atEdges)

\* In the centre capture the stick is neither captured nor emitted.
StickIgnored ==
  /\ tail
  /\ joyStat = "CENTER"
  /\ tail' = FALSE
  /\ UNCHANGED <<vars, stickVars>>

StickEnd ==
  /\ UNCHANGED <<vars, tail>>
  /\ Stick!FrameEnd

Rx ==
  \/ Link
  \/ HandPart
  \/ Emit
  \/ \E atEdges \in BOOLEAN : StickBegin(atEdges)
  \/ StickIgnored
  \/ StickEnd

-----------------------------------------------------------------------------
CoreNext == HandCall \/ StickCall \/ Rx

CoreSpec == CoreInit /\ [][CoreNext]_coreVars

-----------------------------------------------------------------------------
(* What both promise, under each other.                                      *)

\* The stick is normalised with no single point, also in the frames that began
\* before the hand was calibrated again (UdCapV1Core.cpp:808-812, 1303-1304).
StickDividesByRange == Stick!DividesByRange

\* The range in use is the one the stick was circled through: hand calibrations
\* between, which keep frames from widening it, take nothing away and add
\* nothing (UdCapV1Core.cpp:560, 794-806, 1351-1352).
StickCircledIsUsed == Stick!CircledIsUsed

\* The rx thread is in one part of a frame at a time.
OnePart ==
  /\ tail => linked /\ ~reading
  /\ tail \/ reading => frame = "none"

\* What the calls of the main thread and the frames may rely on at any step.
CoreInv == IInv /\ Stick!StickInv /\ OnePart
=============================================================================
