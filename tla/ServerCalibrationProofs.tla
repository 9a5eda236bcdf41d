----------------------- MODULE ServerCalibrationProofs -----------------------
(***************************************************************************)
(* What the main thread's calls leave in the cores, for any set of cores and *)
(* of commands the app sends.                                               *)
(*                                                                          *)
(* Own ties what a core has captured to its last start.  OnCourse follows one *)
(* auto-calibration through its ticks: a core that stayed linked and was left  *)
(* alone has, after tick n, the poses of ticks 1 to n, whatever an earlier     *)
(* run left in it.  Jobs says who may be calling.                            *)
(***************************************************************************)
EXTENDS ServerCalibration, TLAPS

Own ==
  \A c \in Cores :
    /\ core[c].stat = "AUTO" => core[c].captured \subseteq own[c]
    /\ core[c].stat = "COMPLETED" => own[c] = Poses

Jobs ==
  /\ job.by = "startup" => pc = "startup" /\ script \in 1 .. 5
  /\ pc = "startup" \/ AutoStart => ~g_autocal_active
  /\ job.by = "app" /\ g_autocal_active => job.code \in CalibCodes
  /\ job = NoJob => todo = {}
  /\ AutoStart => job.code = "START"
  /\ job.by = "tick" => /\ g_autocal_active /\ g_autocal_step \in 1 .. 4
                        /\ job.code = AutoCode(g_autocal_step)

\* The poses of the first n ticks.
AutoPoses(n) ==
  CASE n = 0 -> {} [] n = 1 -> {"fist"} [] n = 2 -> {"fist", "protract"} [] n = 3 -> Poses

Taken(c, n) ==
  steady[c] =>
    /\ linked[c]
    /\ core[c].stat = "AUTO"
    /\ AutoPoses(n) \subseteq got[c]
    /\ got[c] \subseteq core[c].captured

Settled(c) ==
  steady[c] => core[c].stat = "NONE" \/ (core[c].stat = "COMPLETED" /\ got[c] = Poses)

After(c, n) == IF n = 4 THEN Settled(c) ELSE Taken(c, n)

Ticks == IF g_autocal_step = 0 THEN 0 ELSE g_autocal_step - 1

\* A core in an auto-calibration: it has been started, is between ticks, or has
\* had the call of the present one.
AutoOf(c) ==
  /\ AutoStart /\ c \notin todo => Taken(c, 0)
  /\ g_autocal_active /\ (job.by # "tick" \/ c \in todo) => Taken(c, Ticks)
  /\ job.by = "tick" /\ c \notin todo => After(c, g_autocal_step)

OnCourse == \A c \in Cores : AutoOf(c)

IInv == TypeOK /\ Own /\ Jobs /\ OnCourse

-----------------------------------------------------------------------------
LEMMA InitInv == Init => IInv
<1> SUFFICES ASSUME Init PROVE IInv
  OBVIOUS
<1>1. TypeOK
  <2>1. core \in [Cores -> [stat : {"NONE", "AUTO", "COMPLETED"}, captured : SUBSET Poses]]
    <3>1. [stat |-> "NONE", captured |-> {}]
            \in [stat : {"NONE", "AUTO", "COMPLETED"}, captured : SUBSET Poses]
      OBVIOUS
    <3> QED  BY <3>1 DEF Init
  <2>2. /\ linked \in [Cores -> BOOLEAN] /\ steady \in [Cores -> BOOLEAN]
        /\ own \in [Cores -> SUBSET Poses] /\ got \in [Cores -> SUBSET Poses]
    BY DEF Init
  <2>3. job \in [code : CalibCodes \cup {"CANCEL"}, by : Callers] \cup {NoJob}
    BY DEF Init
  <2>4. g_autocal_step \in 0 .. 4 /\ script \in 1 .. 6
    BY DEF Init
  <2> QED  BY <2>1, <2>2, <2>3, <2>4, Zenon DEF Init, TypeOK
<1>2. Own /\ Jobs /\ OnCourse
  BY DEF Init, Own, Jobs, OnCourse, AutoOf, AutoStart, NoJob
<1> QED  BY <1>1, <1>2 DEF IInv

\* A call has the core it is on in view, and types in hand.
LEMMA CallType ==
  ASSUME TypeOK, NEW c \in Cores, NEW spread \in BOOLEAN, HandleCore(c, spread)
  PROVE  TypeOK'
<1>1. core[c] \in [stat : {"NONE", "AUTO", "COMPLETED"}, captured : SUBSET Poses]
  BY DEF TypeOK
<1>2. CoreAfter(c, job.code, spread)
        \in [stat : {"NONE", "AUTO", "COMPLETED"}, captured : SUBSET Poses]
  <2>1. Accepts(c, job.code) => job.code \in {"START", "COMPLETE"} \cup PoseCodes
    BY DEF Accepts
  <2>2. job.code \in PoseCodes => PoseOf[job.code] \in Poses
    BY DEF PoseCodes, PoseOf, Poses
  <2> QED  BY <1>1, <2>1, <2>2 DEF CoreAfter, Restarted, PoseCodes
<1>3. \A poses \in SUBSET Poses : PosesAfter(poses, c, job.code) \in SUBSET Poses
  BY DEF PosesAfter, PoseCodes, PoseOf, Poses
<1>4. core' \in [Cores -> [stat : {"NONE", "AUTO", "COMPLETED"}, captured : SUBSET Poses]]
  BY <1>2 DEF HandleCore, TypeOK
<1>5. own' \in [Cores -> SUBSET Poses]
  BY <1>3 DEF HandleCore, TypeOK
<1>6. steady' \in [Cores -> BOOLEAN]
  BY DEF HandleCore, TypeOK
<1>7. got' \in [Cores -> SUBSET Poses]
  BY <1>3 DEF HandleCore, TypeOK
<1>8. todo' \subseteq Cores
  BY DEF HandleCore, TypeOK
<1> QED  BY <1>4, <1>5, <1>6, <1>7, <1>8 DEF HandleCore, TypeOK, stateVars

LEMMA CallOwn ==
  ASSUME TypeOK, Own, NEW c \in Cores, NEW spread \in BOOLEAN, HandleCore(c, spread)
  PROVE  Own'
<1> SUFFICES ASSUME NEW d \in Cores
             PROVE  /\ core'[d].stat = "AUTO" => core'[d].captured \subseteq own'[d]
                    /\ core'[d].stat = "COMPLETED" => own'[d] = Poses
  BY DEF Own
<1>1. CASE d # c
  BY <1>1 DEF HandleCore, TypeOK, Own
<1>2. CASE d = c
  <2>1. /\ core'[c] = CoreAfter(c, job.code, spread)
        /\ own'[c] = PosesAfter(own[c], c, job.code)
        /\ core[c] \in [stat : {"NONE", "AUTO", "COMPLETED"}, captured : SUBSET Poses]
        /\ own[c] \in SUBSET Poses
    BY DEF HandleCore, TypeOK
  <2>2. CASE ~Accepts(c, job.code)
    BY <1>2, <2>1, <2>2 DEF CoreAfter, PosesAfter, Own
  <2>3. CASE Accepts(c, job.code) /\ job.code = "START"
    BY <1>2, <2>1, <2>3 DEF CoreAfter, PosesAfter, Restarted
  <2>4. CASE Accepts(c, job.code) /\ job.code = "COMPLETE"
    <3>1. own'[c] = own[c]
      BY <2>1, <2>4 DEF PosesAfter, PoseCodes
    <3>2. core[c].stat = "AUTO" /\ core[c].captured = Poses
      BY <2>4 DEF Accepts, PoseCodes
    <3>3. own[c] = Poses
      BY <2>1, <3>2 DEF Own
    <3>4. core'[c] = [core[c] EXCEPT !.stat = IF spread THEN "COMPLETED" ELSE "NONE"]
      BY <2>1, <2>4 DEF CoreAfter
    <3>5. core'[c].stat \in {"COMPLETED", "NONE"}
      BY <2>1, <3>4
    <3> QED  BY <1>2, <3>1, <3>3, <3>5
  <2>5. CASE Accepts(c, job.code) /\ job.code \in PoseCodes
    BY <1>2, <2>1, <2>5 DEF CoreAfter, PosesAfter, Own, Accepts, PoseCodes
  <2> QED  BY <2>2, <2>3, <2>4, <2>5 DEF Accepts
<1> QED  BY <1>1, <1>2

\* What the call of tick n makes of a core that has the poses before it.
LEMMA TickCall ==
  ASSUME TypeOK, NEW c \in Cores, NEW spread \in BOOLEAN, NEW n \in 1 .. 4,
         steady[c], Taken(c, n - 1),
         job.code = AutoCode(n),
         core'[c] = CoreAfter(c, job.code, spread),
         got'[c] = PosesAfter(got[c], c, job.code),
         steady'[c] = steady[c], linked' = linked
  PROVE  After(c, n)'
<1>1. /\ linked[c] /\ core[c].stat = "AUTO"
      /\ AutoPoses(n - 1) \subseteq got[c] /\ got[c] \subseteq core[c].captured
      /\ core[c] \in [stat : {"NONE", "AUTO", "COMPLETED"}, captured : SUBSET Poses]
      /\ got[c] \in SUBSET Poses
  BY DEF Taken, TypeOK
<1>2. CASE n \in 1 .. 3
  <2>1. /\ job.code \in PoseCodes /\ job.code \notin {"START", "COMPLETE"}
        /\ AutoPoses(n) = AutoPoses(n - 1) \cup {PoseOf[job.code]}
    <3>1. CASE n = 1
      BY <3>1 DEF AutoCode, PoseCodes, PoseOf, AutoPoses
    <3>2. CASE n = 2
      BY <3>2 DEF AutoCode, PoseCodes, PoseOf, AutoPoses
    <3>3. CASE n = 3
      BY <3>3 DEF AutoCode, PoseCodes, PoseOf, AutoPoses, Poses
    <3> QED  BY <1>2, <3>1, <3>2, <3>3
  <2>2. Accepts(c, job.code)
    BY <1>1, <2>1 DEF Accepts
  <2>3. /\ core'[c] = [core[c] EXCEPT !.captured = @ \cup {PoseOf[job.code]}]
        /\ got'[c] = got[c] \cup {PoseOf[job.code]}
    BY <2>1, <2>2 DEF CoreAfter, PosesAfter
  <2>4. core'[c].stat = "AUTO" /\ core'[c].captured = core[c].captured \cup {PoseOf[job.code]}
    BY <1>1, <2>3
  <2>5. AutoPoses(n) \subseteq got'[c] /\ got'[c] \subseteq core'[c].captured
    BY <1>1, <2>1, <2>3, <2>4
  <2>6. Taken(c, n)'
    BY <1>1, <2>4, <2>5 DEF Taken, AutoPoses
  <2> QED  BY <1>2, <2>6 DEF After
<1>3. CASE n = 4
  <2>1. job.code = "COMPLETE" /\ got[c] = Poses /\ core[c].captured = Poses
    <3>1. job.code = "COMPLETE"
      BY <1>3 DEF AutoCode
    <3>2. AutoPoses(n - 1) = Poses
      BY <1>3 DEF AutoPoses
    <3>3. core[c].captured \subseteq Poses
      BY <1>1
    <3> QED  BY <1>1, <3>1, <3>2, <3>3
  <2>2. Accepts(c, job.code)
    BY <1>1, <2>1 DEF Accepts, PoseCodes
  <2>3. /\ core'[c] = [core[c] EXCEPT !.stat = IF spread THEN "COMPLETED" ELSE "NONE"]
        /\ got'[c] = got[c]
    BY <2>1, <2>2 DEF CoreAfter, PosesAfter, PoseCodes
  <2>4. core'[c].stat \in {"COMPLETED", "NONE"}
    BY <1>1, <2>3
  <2> QED  BY <1>3, <2>1, <2>3, <2>4 DEF After, Settled
<1> QED  BY <1>2, <1>3

LEMMA CallAuto ==
  ASSUME TypeOK, Jobs, OnCourse, NEW c \in Cores, NEW spread \in BOOLEAN, HandleCore(c, spread)
  PROVE  OnCourse'
<1> SUFFICES ASSUME NEW d \in Cores PROVE AutoOf(d)'
  BY DEF OnCourse
<1>1. /\ UNCHANGED <<linked, g_autocal_active, g_autocal_step, job>>
      /\ todo' = todo \ {c} /\ c \in todo
      /\ (AutoStart' <=> AutoStart)
  BY DEF HandleCore, stateVars, AutoStart
<1>2. CASE d # c
  <2>1. /\ core'[d] = core[d] /\ got'[d] = got[d] /\ steady'[d] = steady[d]
    BY <1>2 DEF HandleCore, TypeOK
  <2>2. d \in todo' <=> d \in todo
    BY <1>1, <1>2
  <2>3. AutoOf(d)
    BY DEF OnCourse
  <2> QED
    BY <1>1, <2>1, <2>2, <2>3 DEF AutoOf, Taken, Settled, After, Ticks, AutoPoses
<1>3. CASE d = c
  <2>1. /\ core'[c] = CoreAfter(c, job.code, spread)
        /\ steady'[c] = (CASE AutoStart -> linked[c]
                           [] job.by = "app" /\ job.code \in CalibCodes -> FALSE
                           [] OTHER -> steady[c])
        /\ got'[c] = (CASE AutoStart -> {}
                        [] job.by = "tick" -> PosesAfter(got[c], c, job.code)
                        [] OTHER -> got[c])
        /\ c \notin todo'
    BY <1>1 DEF HandleCore, TypeOK
  <2>2. CASE AutoStart
    <3>1. steady'[c] = linked[c] /\ got'[c] = {} /\ job.code = "START" /\ ~g_autocal_active
          /\ job.by # "tick"
      BY <2>1, <2>2 DEF AutoStart, Jobs
    <3>2. linked[c] => core'[c].stat = "AUTO"
      <4>1. CASE Accepts(c, "START")
        BY <2>1, <3>1, <4>1 DEF CoreAfter, Restarted
      <4>2. CASE linked[c] /\ ~Accepts(c, "START")
        <5>1. core[c].stat = "AUTO"
          BY <4>2 DEF Accepts, PoseCodes
        <5> QED  BY <2>1, <3>1, <4>2, <5>1 DEF CoreAfter
      <4> QED  BY <4>1, <4>2
    <3>3. Taken(c, 0)'
      BY <1>1, <3>1, <3>2 DEF Taken, AutoPoses
    <3> QED  BY <1>1, <1>3, <3>1, <3>3 DEF AutoOf
  <2>3. CASE job.by = "app"
    <3>1. g_autocal_active => ~steady'[c]
      BY <2>1, <2>3 DEF Jobs, AutoStart
    <3> QED  BY <1>1, <1>3, <2>3, <3>1 DEF AutoOf, Taken, AutoStart
  <2>4. CASE job.by = "tick"
    <3>1. /\ g_autocal_active /\ g_autocal_step \in 1 .. 4 /\ job.code = AutoCode(g_autocal_step)
          /\ ~AutoStart /\ Ticks = g_autocal_step - 1
      BY <2>4 DEF Jobs, AutoStart, Ticks
    <3>2. /\ steady'[c] = steady[c] /\ got'[c] = PosesAfter(got[c], c, job.code)
      BY <2>1, <2>4, <3>1
    <3>3. Taken(c, g_autocal_step - 1)
      BY <1>1, <2>4, <3>1 DEF OnCourse, AutoOf
    <3>4. After(c, g_autocal_step)'
      <4>1. CASE steady[c]
        BY <1>1, <2>1, <3>1, <3>2, <3>3, <4>1, TickCall DEF After
      <4>2. CASE ~steady[c]
        BY <3>2, <4>2 DEF After, Taken, Settled
      <4> QED  BY <4>1, <4>2
    <3> QED  BY <1>1, <1>3, <2>1, <2>4, <3>1, <3>4 DEF AutoOf
  <2>5. CASE job.by = "startup"
    BY <1>1, <2>5 DEF Jobs, AutoOf, AutoStart
  <2>6. job.by \in Callers
    BY <1>1 DEF Jobs, TypeOK
  <2> QED  BY <2>2, <2>3, <2>4, <2>5, <2>6 DEF Callers, AutoStart
<1> QED  BY <1>2, <1>3

LEMMA CallInv ==
  ASSUME IInv, NEW c \in Cores, NEW spread \in BOOLEAN, HandleCore(c, spread)
  PROVE  IInv'
<1>1. TypeOK' /\ Own' /\ OnCourse'
  BY CallType, CallOwn, CallAuto DEF IInv
<1>2. Jobs'
  BY DEF IInv, Jobs, HandleCore, stateVars, AutoStart
<1> QED  BY <1>1, <1>2 DEF IInv

-----------------------------------------------------------------------------
\* Steps that call no core keep what the cores hold.
LEMMA OwnKept == Own /\ UNCHANGED <<core, own>> => Own'
BY DEF Own

LEMMA TakenKept ==
  ASSUME NEW c \in Cores, NEW n, Taken(c, n), UNCHANGED <<core, got>>,
         steady'[c] => steady[c] /\ linked'[c] = linked[c]
  PROVE  Taken(c, n)'
BY DEF Taken, AutoPoses

LEMMA AutoKept ==
  ASSUME OnCourse, UNCHANGED <<core, got, todo, g_autocal_active, g_autocal_step, job>>,
         \A c \in Cores : steady'[c] => steady[c] /\ linked'[c] = linked[c]
  PROVE  OnCourse'
<1> SUFFICES ASSUME NEW c \in Cores PROVE AutoOf(c)'
  BY DEF OnCourse
<1>1. AutoOf(c)
  BY DEF OnCourse
<1>2. Ticks' = Ticks /\ (AutoStart' <=> AutoStart)
  BY DEF Ticks, AutoStart
<1>3. \A n \in 0 .. 4 : Taken(c, n) => Taken(c, n)'
  BY TakenKept
<1>4. Settled(c) => Settled(c)'
  BY DEF Settled
<1> QED  BY <1>1, <1>2, <1>4, TakenKept DEF AutoOf, After

-----------------------------------------------------------------------------
\* The gloves and the app.
LEMMA OutsideInv ==
  ASSUME IInv,
         \/ \E c \in Cores : LinkChange(c) \/ PowerTap(c)
         \/ \E code \in AppUses : Post(code)
  PROVE  IInv'
<1>1. CASE \E c \in Cores : LinkChange(c)
  <2> PICK d \in Cores : LinkChange(d)
    BY <1>1
  <2>1. /\ linked' = [linked EXCEPT ![d] = ~@] /\ steady' = [steady EXCEPT ![d] = FALSE]
        /\ UNCHANGED <<core, cmd, calib_state, g_autocal_active, g_autocal_step, g_power_tap,
                       pc, script, job, todo, own, got>>
    BY DEF LinkChange, stateVars, mainVars, handleVars
  <2>2. linked' \in [Cores -> BOOLEAN] /\ steady' \in [Cores -> BOOLEAN]
    BY <2>1 DEF IInv, TypeOK
  <2>3. \A c \in Cores : steady'[c] => steady[c] /\ linked'[c] = linked[c]
    BY <2>1 DEF IInv, TypeOK
  <2>4. TypeOK' /\ Jobs'
    BY <2>1, <2>2 DEF IInv, TypeOK, Jobs, AutoStart
  <2> QED  BY <2>1, <2>3, <2>4, OwnKept, AutoKept DEF IInv
<1>2. CASE \E c \in Cores : PowerTap(c)
  <2> PICK d \in Cores : PowerTap(d)
    BY <1>2
  <2>1. UNCHANGED <<linked, core, cmd, calib_state, g_autocal_active, g_autocal_step,
                    pc, script, job, todo, own, steady, got>>
    BY DEF PowerTap, stateVars, mainVars, handleVars, histVars
  <2>2. g_power_tap' \in BOOLEAN
    BY DEF PowerTap, IInv, TypeOK
  <2>3. TypeOK' /\ Jobs'
    BY <2>1, <2>2 DEF IInv, TypeOK, Jobs, AutoStart
  <2> QED  BY <2>1, <2>3, OwnKept, AutoKept DEF IInv
<1>3. CASE \E code \in AppUses : Post(code)
  <2> PICK code \in AppUses : Post(code)
    BY <1>3
  <2>1. /\ cmd' \in AppCodes
        /\ UNCHANGED <<linked, core, calib_state, g_autocal_active, g_autocal_step,
                       g_power_tap, pc, script, job, todo, own, steady, got>>
    BY AppAssumption DEF Post, stateVars, mainVars, handleVars, histVars
  <2>2. TypeOK' /\ Jobs'
    BY <2>1 DEF IInv, TypeOK, Jobs, AutoStart
  <2> QED  BY <2>1, <2>2, OwnKept, AutoKept DEF IInv
<1> QED  BY <1>1, <1>2, <1>3

\* A step of the main thread between calls that leaves the auto-calibration where
\* it is.
LEMMA BetweenInv ==
  ASSUME IInv,
         UNCHANGED <<linked, core, histVars, todo, g_autocal_step>>,
         g_autocal_active' \in BOOLEAN, g_autocal_active' => g_autocal_active,
         pc' = "startup" => pc = "startup",
         TypeOK',
         job = NoJob \/ job.by \in {"startup", "app"}, job' = NoJob, todo = {}
  PROVE  IInv'
<1>1. UNCHANGED <<core, own, steady, got>>
  BY DEF histVars
<1>2. Own'
  BY <1>1, OwnKept DEF IInv
<1>3. ~AutoStart' /\ job'.by = "none"
  BY DEF AutoStart, NoJob
<1>4. Jobs'
  BY <1>3 DEF IInv, Jobs
<1>5. \A c \in Cores : g_autocal_active' => Taken(c, Ticks)'
  <2> SUFFICES ASSUME NEW c \in Cores, g_autocal_active' PROVE Taken(c, Ticks)'
    OBVIOUS
  <2>1. job.by # "tick"
    BY DEF NoJob
  <2>2. Taken(c, Ticks) /\ Ticks' = Ticks
    BY <2>1 DEF IInv, OnCourse, AutoOf, Ticks
  <2> QED  BY <1>1, <2>2 DEF Taken, AutoPoses
<1>6. OnCourse'
  BY <1>3, <1>5 DEF OnCourse, AutoOf
<1> QED  BY <1>2, <1>4, <1>6 DEF IInv

\* A call begins: no core has had it.
LEMMA CallBegins ==
  ASSUME IInv, job = NoJob,
         UNCHANGED <<linked, core, histVars, g_autocal_step>>,
         NEW code \in CalibCodes \cup {"CANCEL"}, NEW by \in Callers,
         Call(code, by),
         g_autocal_active' => g_autocal_active,
         TypeOK', Jobs'
  PROVE  IInv'
<1>1. UNCHANGED <<core, own, steady, got>>
  BY DEF histVars
<1>2. Own'
  BY <1>1, OwnKept DEF IInv
<1>3. todo' = Cores
  BY DEF Call
<1>4. \A c \in Cores : g_autocal_active' => Taken(c, Ticks)'
  <2> SUFFICES ASSUME NEW c \in Cores, g_autocal_active' PROVE Taken(c, Ticks)'
    OBVIOUS
  <2>1. Taken(c, Ticks) /\ Ticks' = Ticks
    BY DEF IInv, OnCourse, AutoOf, Ticks, NoJob
  <2> QED  BY <1>1, <2>1 DEF Taken, AutoPoses
<1>5. OnCourse'
  BY <1>3, <1>4 DEF OnCourse, AutoOf
<1> QED  BY <1>2, <1>5 DEF IInv

LEMMA CallTypes ==
  ASSUME TypeOK, NEW code \in CalibCodes \cup {"CANCEL"}, NEW by \in Callers, Call(code, by)
  PROVE  /\ job' \in [code : CalibCodes \cup {"CANCEL"}, by : Callers] \cup {NoJob}
         /\ todo' \subseteq Cores
BY DEF Call

LEMMA StateOfType ==
  \A code \in CalibCodes \cup {"CANCEL"} :
    StateOf(code) \in {"IDLE", "READY", "STARTED", "GOT_FIST", "GOT_TOGETHER", "GOT_SPREAD",
                      "DONE"}
BY DEF StateOf, CalibCodes, PoseCodes

LEMMA NotAJob == NoJob.by \notin Callers
BY DEF NoJob, Callers

-----------------------------------------------------------------------------
\* The main thread between calls.
LEMMA HandledInv == IInv /\ (StartupNext \/ AppHandled) => IInv'
<1> SUFFICES ASSUME IInv, StartupNext \/ AppHandled PROVE IInv'
  OBVIOUS
<1>1. /\ job # NoJob /\ todo = {} /\ job.by \in {"startup", "app"} /\ job' = NoJob
      /\ UNCHANGED <<linked, core, g_autocal_active, g_autocal_step, g_power_tap, todo,
                     own, steady, got>>
  BY DEF StartupNext, AppHandled, Handled, stateVars, histVars
<1>2. pc' = pc \/ pc' = "tap"
  BY DEF StartupNext, AppHandled
<1>3. cmd' \in AppCodes \cup {"none"}
  BY DEF StartupNext, AppHandled, IInv, TypeOK
<1>4. calib_state' \in {"IDLE", "READY", "STARTED", "GOT_FIST", "GOT_TOGETHER", "GOT_SPREAD",
                       "DONE"}
  <2>1. job.code \in CalibCodes \cup {"CANCEL"}
    BY <1>1 DEF IInv, TypeOK
  <2> QED  BY <2>1, StateOfType DEF StartupNext, AppHandled, stateVars, IInv, TypeOK
<1>5. script' \in 1 .. 6
  <2>1. CASE StartupNext
    <3>1. job.by = "startup" => script \in 1 .. 5
      BY <2>1 DEF StartupNext, IInv, Jobs
    <3> QED  BY <2>1, <3>1 DEF StartupNext
  <2>2. CASE AppHandled
    BY <2>2 DEF AppHandled, IInv, TypeOK
  <2> QED  BY <2>1, <2>2
<1>6. TypeOK'
  BY <1>1, <1>2, <1>3, <1>4, <1>5 DEF IInv, TypeOK
<1> QED
  BY <1>1, <1>2, <1>6, BetweenInv DEF histVars, IInv, TypeOK

LEMMA AutoStartedInv == IInv /\ AutoStarted => IInv'
<1> SUFFICES ASSUME IInv, AutoStarted PROVE IInv'
  OBVIOUS
<1>1. /\ job # NoJob /\ todo = {} /\ AutoStart /\ job' = NoJob
      /\ calib_state' = "READY" /\ g_autocal_active' = TRUE /\ g_autocal_step' = 0
      /\ UNCHANGED <<linked, core, g_power_tap, script, todo, own, steady, got>>
  BY DEF AutoStarted, Handled, histVars
<1>2. cmd' \in AppCodes \cup {"none"} /\ pc' \in {"tap", "tick"}
  BY DEF AutoStarted, IInv, TypeOK
<1>3. TypeOK'
  BY <1>1, <1>2 DEF IInv, TypeOK
<1>4. ~AutoStart' /\ job'.by = "none"
  BY <1>1 DEF AutoStart, NoJob
<1>5. Jobs'
  BY <1>1, <1>2, <1>4 DEF Jobs
<1>6. Ticks' = 0
  BY <1>1 DEF Ticks
<1>7. \A c \in Cores : Taken(c, 0)'
  BY <1>1 DEF IInv, OnCourse, AutoOf, Taken, AutoPoses
<1>8. OnCourse'
  BY <1>4, <1>6, <1>7 DEF OnCourse, AutoOf, Taken
<1> QED  BY <1>1, <1>3, <1>5, <1>8, OwnKept DEF IInv

LEMMA TickHandledInv == IInv /\ TickHandled => IInv'
<1> SUFFICES ASSUME IInv, TickHandled PROVE IInv'
  OBVIOUS
<1>1. /\ job # NoJob /\ todo = {} /\ job.by = "tick" /\ job' = NoJob /\ pc' = "command"
      /\ calib_state' = StateOf(job.code)
      /\ g_autocal_active' \in BOOLEAN /\ (g_autocal_active' <=> g_autocal_step # 4)
      /\ g_autocal_step' = IF g_autocal_step = 4 THEN 4 ELSE g_autocal_step + 1
      /\ UNCHANGED <<linked, core, cmd, g_power_tap, script, todo, own, steady, got>>
  BY DEF TickHandled, Handled, histVars, EndsAuto, NextStep
<1>2. g_autocal_active /\ g_autocal_step \in 1 .. 4
  BY <1>1 DEF IInv, Jobs
<1>3. g_autocal_step' \in 0 .. 4 /\ g_autocal_active' \in BOOLEAN
  BY <1>1, <1>2
<1>4. job.code \in CalibCodes \cup {"CANCEL"}
  BY <1>1 DEF IInv, TypeOK
<1>5. TypeOK'
  BY <1>1, <1>3, <1>4, StateOfType DEF IInv, TypeOK
<1>6. ~AutoStart' /\ job'.by = "none"
  BY <1>1 DEF AutoStart, NoJob
<1>7. Jobs'
  BY <1>1, <1>6 DEF Jobs
<1>8. \A c \in Cores : g_autocal_active' => Taken(c, Ticks)'
  <2> SUFFICES ASSUME NEW c \in Cores, g_autocal_active' PROVE Taken(c, Ticks)'
    OBVIOUS
  <2>1. g_autocal_step # 4 /\ Ticks' = g_autocal_step
    BY <1>1, <1>2 DEF Ticks
  <2>2. Taken(c, g_autocal_step)
    <3>1. After(c, g_autocal_step)
      BY <1>1 DEF IInv, OnCourse, AutoOf
    <3> QED  BY <2>1, <3>1 DEF After
  <2> QED  BY <1>1, <2>1, <2>2 DEF Taken, AutoPoses
<1>9. OnCourse'
  BY <1>6, <1>8 DEF OnCourse, AutoOf
<1> QED  BY <1>1, <1>5, <1>7, <1>9, OwnKept DEF IInv

LEMMA StartupInv == IInv /\ (StartupCall \/ EnterLoop) => IInv'
<1> SUFFICES ASSUME IInv, StartupCall \/ EnterLoop PROVE IInv'
  OBVIOUS
<1>1. CASE StartupCall
  <2>1. /\ pc = "startup" /\ job = NoJob /\ script \in 1 .. 5
        /\ Call(StartupCode[script], "startup")
        /\ UNCHANGED <<linked, core, cmd, calib_state, g_autocal_active, g_autocal_step,
                       g_power_tap, pc, script, own, steady, got>>
    BY <1>1 DEF StartupCall, stateVars, histVars, IInv, TypeOK
  <2>2. StartupCode[script] \in CalibCodes \cup {"CANCEL"} /\ "startup" \in Callers
    BY <2>1 DEF StartupCode, CalibCodes, PoseCodes, Callers
  <2>3. TypeOK'
    BY <2>1, <2>2, CallTypes DEF IInv, TypeOK
  <2>4. job'.by = "startup" /\ job' # NoJob
    BY <2>1 DEF Call, NoJob
  <2>5. Jobs'
    BY <2>1, <2>4 DEF IInv, Jobs, AutoStart
  <2> QED  BY <2>1, <2>2, <2>3, <2>5, CallBegins DEF histVars
<1>2. CASE EnterLoop
  <2>1. /\ job = NoJob /\ pc' = "command"
        /\ UNCHANGED <<linked, core, cmd, calib_state, g_autocal_active, g_autocal_step,
                       g_power_tap, script, job, todo, own, steady, got>>
    BY <1>2 DEF EnterLoop, stateVars, histVars, handleVars
  <2>2. TypeOK'
    BY <2>1 DEF IInv, TypeOK
  <2>3. todo = {}
    BY <2>1 DEF IInv, Jobs
  <2> QED  BY <2>1, <2>2, <2>3, BetweenInv DEF histVars, IInv, TypeOK
<1> QED  BY <1>1, <1>2

LEMMA CommandInv == IInv /\ LoopCommand => IInv'
<1> SUFFICES ASSUME IInv, LoopCommand PROVE IInv'
  OBVIOUS
<1>0. /\ pc = "command" /\ job = NoJob /\ todo = {}
      /\ UNCHANGED <<linked, core, calib_state, g_autocal_step, g_power_tap, script,
                     own, steady, got>>
  BY DEF LoopCommand, histVars, IInv, Jobs
<1>1. CASE pc' = "tap" /\ UNCHANGED <<g_autocal_active, handleVars>> /\ cmd' = "none"
  <2>1. TypeOK'
    BY <1>0, <1>1 DEF IInv, TypeOK, handleVars
  <2> QED  BY <1>0, <1>1, <2>1, BetweenInv DEF histVars, handleVars, IInv, TypeOK
<1>2. CASE ~g_autocal_active /\ Call("START", "autoByApp") /\ UNCHANGED <<cmd, g_autocal_active, pc>>
  <2>1. "START" \in CalibCodes \cup {"CANCEL"} /\ "autoByApp" \in Callers
    BY DEF CalibCodes, Callers
  <2>2. TypeOK'
    BY <1>0, <1>2, <2>1, CallTypes DEF IInv, TypeOK
  <2>3. job'.by = "autoByApp" /\ job'.code = "START" /\ job' # NoJob
    BY <1>2 DEF Call, NoJob
  <2>4. Jobs'
    BY <1>0, <1>2, <2>3 DEF Jobs, AutoStart
  <2> QED  BY <1>0, <1>2, <2>1, <2>2, <2>4, CallBegins DEF histVars
<1>3. CASE /\ cmd \in CalibCodes \cup {"CANCEL"} /\ Call(cmd, "app")
           /\ g_autocal_active' = (g_autocal_active /\ cmd # "CANCEL") /\ UNCHANGED <<cmd, pc>>
  <2>1. "app" \in Callers
    BY DEF Callers
  <2>2. g_autocal_active' \in BOOLEAN
    BY <1>3
  <2>3. TypeOK'
    BY <1>0, <1>3, <2>1, <2>2, CallTypes DEF IInv, TypeOK
  <2>4. job'.by = "app" /\ job'.code = cmd /\ job' # NoJob
    BY <1>3 DEF Call, NoJob
  <2>5. Jobs'
    <3>1. ~AutoStart' /\ pc' # "startup"
      BY <1>0, <1>3, <2>4 DEF AutoStart
    <3>2. g_autocal_active' => cmd \in CalibCodes
      BY <1>3
    <3> QED  BY <2>4, <3>1, <3>2 DEF Jobs
  <2> QED  BY <1>0, <1>3, <2>1, <2>3, <2>5, CallBegins DEF histVars
<1> QED  BY <1>1, <1>2, <1>3 DEF LoopCommand

LEMMA TapInv == IInv /\ LoopTap => IInv'
<1> SUFFICES ASSUME IInv, LoopTap PROVE IInv'
  OBVIOUS
<1>0. /\ pc = "tap" /\ job = NoJob /\ todo = {} /\ g_power_tap' = FALSE
      /\ UNCHANGED <<linked, core, cmd, g_autocal_step, script, own, steady, got>>
  BY DEF LoopTap, histVars, IInv, Jobs
<1>1. CASE /\ pc' = "tick" /\ UNCHANGED handleVars
           /\ g_autocal_active' \in BOOLEAN /\ (g_autocal_active' => g_autocal_active)
           /\ calib_state' \in {calib_state, "IDLE"}
  <2>1. TypeOK'
    BY <1>0, <1>1 DEF IInv, TypeOK, handleVars
  <2> QED  BY <1>0, <1>1, <2>1, BetweenInv DEF histVars, handleVars
<1>2. CASE /\ ~g_autocal_active /\ Call("START", "autoByTap")
           /\ UNCHANGED <<calib_state, g_autocal_active, pc>>
  <2>1. "START" \in CalibCodes \cup {"CANCEL"} /\ "autoByTap" \in Callers
    BY DEF CalibCodes, Callers
  <2>2. TypeOK'
    BY <1>0, <1>2, <2>1, CallTypes DEF IInv, TypeOK
  <2>3. job'.by = "autoByTap" /\ job'.code = "START" /\ job' # NoJob
    BY <1>2 DEF Call, NoJob
  <2>4. Jobs'
    BY <1>0, <1>2, <2>3 DEF Jobs, AutoStart
  <2> QED  BY <1>0, <1>2, <2>1, <2>2, <2>4, CallBegins DEF histVars
<1>3. g_autocal_active \in BOOLEAN
  BY DEF IInv, TypeOK
<1>4. CASE ~g_power_tap
  <2>1. pc' = "tick" /\ g_autocal_active' = g_autocal_active
        /\ UNCHANGED <<calib_state, handleVars>>
    BY <1>4 DEF LoopTap
  <2> QED  BY <1>1, <1>3, <2>1
<1>6. CASE g_power_tap /\ g_autocal_active
  <2>1. pc' = "tick" /\ g_autocal_active' = FALSE /\ calib_state' = "IDLE"
        /\ UNCHANGED handleVars
    BY <1>6 DEF LoopTap
  <2> QED  BY <1>1, <2>1
<1>5. CASE g_power_tap /\ ~g_autocal_active
  BY <1>2, <1>5 DEF LoopTap
<1> QED  BY <1>4, <1>5, <1>6

LEMMA TickInv == IInv /\ (TickIdle \/ TickDue) => IInv'
<1> SUFFICES ASSUME IInv, TickIdle \/ TickDue PROVE IInv'
  OBVIOUS
<1>0. /\ pc = "tick" /\ job = NoJob /\ todo = {}
      /\ UNCHANGED <<linked, core, cmd, g_autocal_active, g_power_tap, script, own, steady, got>>
  BY DEF TickIdle, TickDue, stateVars, histVars, IInv, Jobs
<1>1. CASE /\ pc' = "command" /\ UNCHANGED <<handleVars, g_autocal_step, calib_state>>
  <2>1. TypeOK'
    BY <1>0, <1>1 DEF IInv, TypeOK, handleVars
  <2> QED  BY <1>0, <1>1, <2>1, BetweenInv DEF histVars, handleVars, IInv, TypeOK
<1>2. CASE /\ g_autocal_step = 0 /\ g_autocal_step' = 1 /\ calib_state' = "STARTED"
           /\ pc' = "command" /\ UNCHANGED handleVars
  <2>1. TypeOK'
    BY <1>0, <1>2 DEF IInv, TypeOK, handleVars
  <2>2. job' = NoJob /\ todo' = {} /\ ~AutoStart' /\ job'.by = "none"
    BY <1>0, <1>2 DEF AutoStart, NoJob, handleVars
  <2>3. Jobs'
    BY <1>2, <2>2 DEF Jobs
  <2>4. \A c \in Cores : g_autocal_active => Taken(c, 0)
    BY <1>0, <1>2 DEF IInv, OnCourse, AutoOf, Ticks, NoJob
  <2>5. Ticks' = 0
    BY <1>2 DEF Ticks
  <2>6. OnCourse'
    BY <1>0, <2>2, <2>4, <2>5 DEF OnCourse, AutoOf, Taken, AutoPoses
  <2> QED  BY <1>0, <2>1, <2>3, <2>6, OwnKept DEF IInv
<1>3. CASE /\ g_autocal_active /\ g_autocal_step > 0
           /\ Call(AutoCode(g_autocal_step), "tick")
           /\ UNCHANGED <<calib_state, g_autocal_step, pc>>
  <2>1. g_autocal_step \in 1 .. 4
    BY <1>3 DEF IInv, TypeOK
  <2>2. AutoCode(g_autocal_step) \in CalibCodes \cup {"CANCEL"} /\ "tick" \in Callers
    BY <2>1 DEF AutoCode, CalibCodes, PoseCodes, Callers
  <2>3. TypeOK'
    BY <1>0, <1>3, <2>2, CallTypes DEF IInv, TypeOK
  <2>4. job'.by = "tick" /\ job'.code = AutoCode(g_autocal_step) /\ job' # NoJob
    BY <1>3 DEF Call, NoJob
  <2>5. Jobs'
    BY <1>0, <1>3, <2>1, <2>4 DEF Jobs, AutoStart, AutoCode
  <2> QED  BY <1>0, <1>3, <2>2, <2>3, <2>5, CallBegins DEF histVars
<1> QED  BY <1>0, <1>1, <1>2, <1>3 DEF TickIdle, TickDue, stateVars

LEMMA NextInv == IInv /\ [Next]_vars => IInv'
<1> SUFFICES ASSUME IInv, [Next]_vars PROVE IInv'
  OBVIOUS
<1>1. CASE UNCHANGED vars
  <2>1. UNCHANGED <<linked, core, cmd, calib_state, g_autocal_active, g_autocal_step,
                    g_power_tap, pc, script, job, todo, own, steady, got>>
    BY <1>1 DEF vars, stateVars, mainVars, handleVars, histVars
  <2>2. TypeOK' /\ Jobs'
    BY <2>1 DEF IInv, TypeOK, Jobs, AutoStart
  <2> QED  BY <2>1, <2>2, OwnKept, AutoKept DEF IInv
<1>2. CASE \E c \in Cores, spread \in BOOLEAN : HandleCore(c, spread)
  BY <1>2, CallInv
<1> QED
  BY <1>1, <1>2, OutsideInv, HandledInv, AutoStartedInv, TickHandledInv, StartupInv,
     CommandInv, TapInv, TickInv DEF Next, MainThread

-----------------------------------------------------------------------------
THEOREM Invariance == Spec => []IInv
BY InitInv, NextInv, PTL DEF Spec

\* The server's calibrations keep their types: the step of an auto-calibration
\* within its bounds, the command under way and the cores it has still to reach.
THEOREM Types == Spec => []TypeOK
<1>1. IInv => TypeOK
  BY DEF IInv
<1> QED  BY <1>1, Invariance, PTL

\* A calibrated hand has all three poses captured since its calibration was last
\* started, for any cores and commands (udcap_server.cpp:268-301, 318-365).
THEOREM OwnCaptures == Spec => []CalibratedFromOwnCaptures
<1>1. IInv => CalibratedFromOwnCaptures
  BY DEF IInv, Own, CalibratedFromOwnCaptures
<1> QED  BY <1>1, Invariance, PTL

\* The end of an auto-calibration settles every hand that stayed linked and was
\* left alone by the app (udcap_server.cpp:318-365).
THEOREM EndSettles == Spec => AutoSettles
<1>1. ASSUME IInv, Next, g_autocal_active /\ job.by = "tick" /\ ~g_autocal_active'
      PROVE  \A c \in Cores : steady[c] =>
               core[c].stat = "NONE" \/ (core[c].stat = "COMPLETED" /\ got[c] = Poses)
  <2>1. TickHandled
    <3>1. job # NoJob
      BY <1>1 DEF NoJob
    <3>2. ~(\E c \in Cores, spread \in BOOLEAN : HandleCore(c, spread))
      BY <1>1 DEF HandleCore, stateVars
    <3>3. ~StartupNext /\ ~AppHandled /\ ~AutoStarted
      BY <1>1 DEF StartupNext, AppHandled, AutoStarted, AutoStart
    <3>4. ~StartupCall /\ ~EnterLoop /\ ~LoopCommand /\ ~LoopTap /\ ~TickIdle /\ ~TickDue
      BY <3>1 DEF StartupCall, EnterLoop, LoopCommand, LoopTap, TickIdle, TickDue
    <3>5. ~(\E c \in Cores : LinkChange(c) \/ PowerTap(c))
      BY <1>1 DEF LinkChange, PowerTap, stateVars
    <3>6. ~(\E code \in AppUses : Post(code))
      BY <1>1 DEF Post, stateVars
    <3> QED  BY <1>1, <3>2, <3>3, <3>4, <3>5, <3>6 DEF Next, MainThread
  <2>2. todo = {} /\ g_autocal_step = 4
    BY <1>1, <2>1 DEF TickHandled, Handled, EndsAuto
  <2>3. \A c \in Cores : Settled(c)
    BY <1>1, <2>2 DEF IInv, OnCourse, AutoOf, After
  <2> QED  BY <2>3 DEF Settled
<1> QED  BY <1>1, Invariance, PTL DEF Spec, AutoSettles
=============================================================================
