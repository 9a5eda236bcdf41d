-------------------------- MODULE ServerCalibration --------------------------
(***************************************************************************)
(* How the server drives the hand calibration of its cores                  *)
(* (server/udcap_server.cpp): the guided commands of the control app, the   *)
(* timed auto-calibration, the glove's power button, and the calibration at *)
(* startup, all on the main thread, one core after the other.  Meanwhile    *)
(* the rx threads see links come and go, and the event-loop threads hand    *)
(* over power-button taps.                                                  *)
(*                                                                          *)
(* A core here is its caliStat and the poses it holds captures of; module   *)
(* HandCalibration has the steps inside the calls.  A call on a core that   *)
(* throws changes nothing and the main thread goes on with the next core.   *)
(* The order of the cores is left open.  Clocks are left out: a tick of the *)
(* auto-calibration may find its time come or not.                          *)
(***************************************************************************)
EXTENDS Integers

CONSTANTS Cores,     \* the receivers' cores
          AppUses    \* the commands the app sends (bound of the model)

VARIABLES
  linked,      \* core -> its udState is LINKED
  core,        \* core -> [stat, captured]
  cmd,         \* the app's command not acknowledged yet, or "none" (external)
  calib_state, g_autocal_active, g_autocal_step, g_power_tap,
  pc,          \* where the main thread is: startup, or a part of its loop
  script,      \* the next call of the startup calibration
  job,         \* what handle_command works on, and for whom
  todo,        \* cores handle_command has still to call
  own,         \* history: core -> poses captured since its last accepted start
  steady,      \* history: core -> linked through this auto-calibration, and
               \* left alone by the app's commands
  got          \* history: core -> poses this auto-calibration captured

histVars   == <<own, steady, got>>
stateVars  == <<calib_state, g_autocal_active, g_autocal_step>>
handleVars == <<job, todo>>
mainVars   == <<pc, script, handleVars>>
vars == <<linked, core, cmd, stateVars, g_power_tap, mainVars, histVars>>

Poses == {"fist", "adduction", "protract"}
PoseCodes == {"FIST", "TOGETHER", "SPREAD"}
PoseOf == [FIST |-> "fist", TOGETHER |-> "protract", SPREAD |-> "adduction"]
CalibCodes == PoseCodes \cup {"START", "COMPLETE"}
AppCodes == CalibCodes \cup {"CANCEL", "AUTO"}
ASSUME AppAssumption == AppUses \subseteq AppCodes

\* Who called handle_command; "autoByApp" and "autoByTap" are start_autocal.
Callers == {"startup", "app", "autoByApp", "autoByTap", "tick"}
NoJob == [code |-> "none", by |-> "none"]

\* The startup calibration: spread before together.
StartupCode == <<"START", "FIST", "SPREAD", "TOGETHER", "COMPLETE">>

\* Every variable has its type; the auto-calibration's step stays within 0 .. 4.
TypeOK ==
  /\ linked \in [Cores -> BOOLEAN]
  /\ core \in [Cores -> [stat : {"NONE", "AUTO", "COMPLETED"}, captured : SUBSET Poses]]
  /\ cmd \in AppCodes \cup {"none"}
  /\ calib_state \in {"IDLE", "READY", "STARTED", "GOT_FIST", "GOT_TOGETHER",
                      "GOT_SPREAD", "DONE"}
  /\ g_autocal_active \in BOOLEAN
  /\ g_autocal_step \in 0 .. 4
  /\ g_power_tap \in BOOLEAN
  /\ pc \in {"startup", "command", "tap", "tick"}
  /\ script \in 1 .. 6
  /\ job \in [code : CalibCodes \cup {"CANCEL"}, by : Callers] \cup {NoJob}
  /\ todo \subseteq Cores
  /\ own \in [Cores -> SUBSET Poses]
  /\ steady \in [Cores -> BOOLEAN]
  /\ got \in [Cores -> SUBSET Poses]

Init ==
  /\ linked = [c \in Cores |-> FALSE]
  /\ core = [c \in Cores |-> [stat |-> "NONE", captured |-> {}]]
  /\ cmd = "none"
  /\ calib_state = "IDLE"
  /\ g_autocal_active = FALSE /\ g_autocal_step = 0 /\ g_power_tap = FALSE
  /\ pc = "startup" /\ script = 1 /\ job = NoJob /\ todo = {}
  /\ own = [c \in Cores |-> {}] /\ got = [c \in Cores |-> {}]
  /\ steady = [c \in Cores |-> FALSE]

-----------------------------------------------------------------------------
(* The gloves and the app.                                                  *)

LinkChange(c) ==
  /\ linked' = [linked EXCEPT ![c] = ~@]
  /\ steady' = [steady EXCEPT ![c] = FALSE]
  /\ UNCHANGED <<core, cmd, stateVars, g_power_tap, mainVars, own, got>>

\* The power button of a linked glove is tapped.  parsePacket decodes buttons
\* only of a hand that is calibrated, and the listener sets g_power_tap.
PowerTap(c) ==
  /\ linked[c]
  /\ g_power_tap' = (g_power_tap \/ core[c].stat = "COMPLETED")
  /\ UNCHANGED <<linked, core, cmd, stateVars, mainVars, histVars>>

\* The app sends its commands one at a time, to the running loop.
Post(code) ==
  /\ cmd = "none"
  /\ pc # "startup"
  /\ cmd' = code
  /\ UNCHANGED <<linked, core, stateVars, g_power_tap, mainVars, histVars>>

-----------------------------------------------------------------------------
(* handle_command, and the calls of the startup calibration.                *)

Accepts(c, code) ==
  /\ linked[c]
  /\ CASE code = "START" -> core[c].stat # "AUTO"
       [] code = "COMPLETE" -> core[c].stat = "AUTO" /\ core[c].captured = Poses
       [] code \in PoseCodes -> core[c].stat = "AUTO"
       [] OTHER -> FALSE

\* runCalibration clears the captures of the run before.
Restarted_Kept(c) == [core[c] EXCEPT !.stat = "AUTO"]   \* mutant: it does not
Restarted(c) == [stat |-> "AUTO", captured |-> {}]

\* What the call for `code` makes of core c; `spread` is whether some joint
\* moved enough between the captures.
CoreAfter(c, code, spread) ==
  IF ~Accepts(c, code) THEN core[c] ELSE
  CASE code = "START" -> Restarted(c)
    [] code = "COMPLETE" -> [core[c] EXCEPT !.stat = IF spread THEN "COMPLETED" ELSE "NONE"]
    [] OTHER -> [core[c] EXCEPT !.captured = @ \cup {PoseOf[code]}]

\* The poses in a history after the call.
PosesAfter(poses, c, code) ==
  CASE Accepts(c, code) /\ code = "START" -> {}
    [] Accepts(c, code) /\ code \in PoseCodes -> poses \cup {PoseOf[code]}
    [] OTHER -> poses

AutoStart == job.by \in {"autoByApp", "autoByTap"}

HandleCore(c, spread) ==
  /\ c \in todo
  /\ todo' = todo \ {c}
  /\ core' = [core EXCEPT ![c] = CoreAfter(c, job.code, spread)]
  /\ own' = [own EXCEPT ![c] = PosesAfter(@, c, job.code)]
  /\ steady' = [steady EXCEPT ![c] =
                  CASE AutoStart -> linked[c]
                    [] job.by = "app" /\ job.code \in CalibCodes -> FALSE
                    [] OTHER -> @]
  /\ got' = [got EXCEPT ![c] = CASE AutoStart -> {}
                                [] job.by = "tick" -> PosesAfter(@, c, job.code)
                                [] OTHER -> @]
  /\ UNCHANGED <<linked, cmd, stateVars, g_power_tap, pc, script, job>>

StateOf(code) ==
  CASE code = "START" -> "STARTED"
    [] code = "FIST" -> "GOT_FIST"
    [] code = "TOGETHER" -> "GOT_TOGETHER"
    [] code = "SPREAD" -> "GOT_SPREAD"
    [] code = "COMPLETE" -> "DONE"
    [] code = "CANCEL" -> "IDLE"

Call(code, by) ==
  /\ job' = [code |-> code, by |-> by]
  /\ todo' = Cores

\* handle_command is through with the cores; no core's failure shows in the
\* state it reports.
Handled == job # NoJob /\ todo = {}

StartupNext ==
  /\ Handled /\ job.by = "startup"
  /\ job' = NoJob
  /\ script' = script + 1
  /\ UNCHANGED <<linked, core, cmd, stateVars, g_power_tap, pc, todo, histVars>>

AppHandled ==
  /\ Handled /\ job.by = "app"
  /\ job' = NoJob
  /\ calib_state' = StateOf(job.code)
  /\ cmd' = "none"
  /\ pc' = "tap"
  /\ UNCHANGED <<linked, core, g_autocal_active, g_autocal_step, g_power_tap, script,
                 todo, histVars>>

\* The rest of start_autocal.
AutoStarted ==
  /\ Handled /\ AutoStart
  /\ job' = NoJob
  /\ calib_state' = "READY"
  /\ g_autocal_active' = TRUE
  /\ g_autocal_step' = 0
  /\ IF job.by = "autoByApp" THEN cmd' = "none" /\ pc' = "tap"
                             ELSE UNCHANGED cmd /\ pc' = "tick"
  /\ UNCHANGED <<linked, core, g_power_tap, script, todo, histVars>>

\* The rest of tick_autocal after steps 1 to 4.
EndsAuto_Never(s) == FALSE   \* mutant: the last step does not end it
EndsAuto(s) == s = 4

NextStep_PastEnd(s) == s + 1   \* mutant: it counts on after the last step
NextStep(s) == IF s = 4 THEN s ELSE s + 1

TickHandled ==
  /\ Handled /\ job.by = "tick"
  /\ job' = NoJob
  /\ calib_state' = StateOf(job.code)
  /\ g_autocal_active' = ~EndsAuto(g_autocal_step)
  /\ g_autocal_step' = NextStep(g_autocal_step)
  /\ pc' = "command"
  /\ UNCHANGED <<linked, core, cmd, g_power_tap, script, todo, histVars>>

-----------------------------------------------------------------------------
(* The main thread between calls.                                           *)

StartupCall ==
  /\ pc = "startup" /\ job = NoJob
  /\ script <= 5
  /\ Call(StartupCode[script], "startup")
  /\ UNCHANGED <<linked, core, cmd, stateVars, g_power_tap, pc, script, histVars>>

\* The loop begins, after the startup calibration or (--no-cal) without it.
EnterLoop ==
  /\ pc = "startup" /\ job = NoJob
  /\ script \in {1, 6}
  /\ pc' = "command"
  /\ UNCHANGED <<linked, core, cmd, stateVars, g_power_tap, script, handleVars, histVars>>

LoopCommand ==
  /\ pc = "command" /\ job = NoJob
  /\ \/ /\ cmd = "none"
        /\ pc' = "tap"
        /\ UNCHANGED <<cmd, g_autocal_active, handleVars>>
     \/ /\ cmd = "AUTO" /\ g_autocal_active
        /\ cmd' = "none"
        /\ pc' = "tap"
        /\ UNCHANGED <<g_autocal_active, handleVars>>
     \/ /\ cmd = "AUTO" /\ ~g_autocal_active
        /\ Call("START", "autoByApp")
        /\ UNCHANGED <<cmd, g_autocal_active, pc>>
     \/ /\ cmd \in CalibCodes \cup {"CANCEL"}
        /\ Call(cmd, "app")
        /\ g_autocal_active' = (g_autocal_active /\ cmd # "CANCEL")
        /\ UNCHANGED <<cmd, pc>>
  /\ UNCHANGED <<linked, core, calib_state, g_autocal_step, g_power_tap, script, histVars>>

\* g_power_tap.exchange(false): a tap starts the auto-calibration or cancels it.
LoopTap ==
  /\ pc = "tap" /\ job = NoJob
  /\ g_power_tap' = FALSE
  /\ \/ /\ ~g_power_tap
        /\ pc' = "tick"
        /\ UNCHANGED <<calib_state, g_autocal_active, handleVars>>
     \/ /\ g_power_tap /\ g_autocal_active
        /\ g_autocal_active' = FALSE
        /\ calib_state' = "IDLE"
        /\ pc' = "tick"
        /\ UNCHANGED handleVars
     \/ /\ g_power_tap /\ ~g_autocal_active
        /\ Call("START", "autoByTap")
        /\ UNCHANGED <<calib_state, g_autocal_active, pc>>
  /\ UNCHANGED <<linked, core, cmd, g_autocal_step, script, histVars>>

\* tick_autocal.
TickIdle ==
  /\ pc = "tick" /\ job = NoJob
  /\ pc' = "command"
  /\ UNCHANGED <<linked, core, cmd, stateVars, g_power_tap, script, handleVars, histVars>>

AutoCode_Swapped(s) == <<"FIST", "TOGETHER", "TOGETHER", "COMPLETE">>[s]   \* mutant
AutoCode(s) == <<"FIST", "TOGETHER", "SPREAD", "COMPLETE">>[s]

TickDue ==
  /\ pc = "tick" /\ job = NoJob
  /\ g_autocal_active
  /\ \/ /\ g_autocal_step = 0
        /\ calib_state' = "STARTED"
        /\ g_autocal_step' = 1
        /\ pc' = "command"
        /\ UNCHANGED handleVars
     \/ /\ g_autocal_step > 0
        /\ Call(AutoCode(g_autocal_step), "tick")
        /\ UNCHANGED <<calib_state, g_autocal_step, pc>>
  /\ UNCHANGED <<linked, core, cmd, g_autocal_active, g_power_tap, script, histVars>>

-----------------------------------------------------------------------------
MainThread ==
  \/ \E c \in Cores, spread \in BOOLEAN : HandleCore(c, spread)
  \/ StartupNext \/ AppHandled \/ AutoStarted \/ TickHandled
  \/ StartupCall \/ EnterLoop \/ LoopCommand \/ LoopTap \/ TickIdle \/ TickDue

Next ==
  \/ MainThread
  \/ \E c \in Cores : LinkChange(c) \/ PowerTap(c)
  \/ \E code \in AppUses : Post(code)

Spec == Init /\ [][Next]_vars

(* The main thread runs, and the time a tick waits for comes; nothing is     *)
(* assumed of the gloves or the app.                                        *)
FairSpec == Spec /\ WF_vars(MainThread) /\ SF_vars(TickDue)

-----------------------------------------------------------------------------
(* What the server promises.                                                *)

\* However commands, taps, ticks and link losses interleave, and whichever of
\* the calls fail, a calibrated hand has all three poses captured since its
\* calibration was last started.
CalibratedFromOwnCaptures ==
  \A c \in Cores : core[c].stat = "COMPLETED" => own[c] = Poses

\* An auto-calibration that comes to its end settles every hand that stayed
\* linked and was left alone by the app: calibrated from the poses of this
\* very auto-calibration, or failed and back at the start -- whatever earlier
\* runs, cancelled half-way or not, left behind (318-365).
AutoSettles ==
  [][g_autocal_active /\ job.by = "tick" /\ ~g_autocal_active' =>
       \A c \in Cores : steady[c] =>
         core[c].stat = "NONE" \/ (core[c].stat = "COMPLETED" /\ got[c] = Poses)]_vars

\* An auto-calibration ends: it runs to its last step or is cancelled.
AutoEnds == g_autocal_active ~> ~g_autocal_active
=============================================================================
