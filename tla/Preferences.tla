----------------------------- MODULE Preferences -----------------------------
(***************************************************************************)
(* The preference files of the cores of one process (loadPref, savePref,    *)
(* setHandOffset and the threshold setters of src/UdCapV1Core.cpp), over     *)
(* restarts of the process between which gloves may change receivers.       *)
(*                                                                          *)
(* A core is the core of one receiver.  Its file is named after the serial   *)
(* number of its glove, which the core learns from a packet some time after *)
(* it was created; until then the name is that of nobody, ".json".          *)
(*                                                                          *)
(* Of a controller number only the key it was meant for is kept, so that one *)
(* found under another key can be told.  Of a bone's offset only the x angle *)
(* is kept, the one setHandOffset checks; y and z travel with it.           *)
(* Files come from savePref alone, so they hold every key.                  *)
(***************************************************************************)
EXTENDS Integers, Sequences

CONSTANTS Cores, Gloves, Nobody,
          Bones,
          Angles,     \* offsets a caller may ask for, legal or not
          MaxSaves,   \* bound of the model: saves, over all processes
          Tunable     \* controller keys that setters or the stick's calibration change

ASSUME NobodyAssumption  == Nobody \notin Gloves
ASSUME MaxSavesAssumption == MaxSaves \in Nat
ASSUME AnglesAssumption  == Angles \subseteq Int /\ 0 \in Angles

Keys == {"xCenterData", "yCenterData", "xMaxData", "xMinData", "yMaxData",
         "yMinData", "deadZone", "triggerMax", "triggerMin", "gripMax",
         "gripMin", "trackpadMax", "trackpadMin"}

ASSUME TunableAssumption == Tunable \subseteq Keys

VARIABLES
  glove,        \* the glove each core is linked to
  udCapSerial, controller, handOffset,    \* of each core
  file,         \* by name: {what savePref wrote}; {} when the file is cut off or not there
  saving,       \* <<core, name>> of the savePref that has opened its file, or Nobody
  saves,        \* saves so far
  from,         \* history: the gloves a core's handOffset was set for
  anonymousLoad \* history: a core without a serial number has loaded a file

coreVars == <<udCapSerial, controller, handOffset, from>>
vars == <<glove, coreVars, file, saving, saves, anonymousLoad>>

Names == Gloves \cup {Nobody}
Nothing == {}

Defaults == [k \in Keys |-> k]
NoOffset == [b \in Bones |-> 0]
Assignments == {g \in [Cores -> Gloves] : \A c, d \in Cores : g[c] = g[d] => c = d}

InRange(v) == v >= -45 /\ v <= 45

Contents == [controller : [Keys -> Keys], handOffset : [Bones -> {v \in Angles : InRange(v)}],
             from : SUBSET Gloves]

\* Every variable has its type; a file holds one whole object or nothing.
TypeOK ==
  /\ glove \in Assignments
  /\ udCapSerial \in [Cores -> Names]
  /\ controller \in [Cores -> [Keys -> Keys]]
  /\ handOffset \in [Cores -> [Bones -> Angles]]
  /\ from \in [Cores -> SUBSET Gloves]
  /\ file \in [Names -> SUBSET Contents]
  /\ \A n \in Names : \A saved, other \in file[n] : saved = other
  /\ saving \in (Cores \X Names) \cup {Nobody}
  /\ saves \in 0 .. MaxSaves
  /\ anonymousLoad \in BOOLEAN

Init ==
  /\ glove \in Assignments
  /\ udCapSerial = [c \in Cores |-> Nobody]
  /\ controller = [c \in Cores |-> Defaults]
  /\ handOffset = [c \in Cores |-> NoOffset]
  /\ from = [c \in Cores |-> {}]
  /\ file = [n \in Names |-> Nothing]
  /\ saving = Nobody
  /\ saves = 0
  /\ anonymousLoad = FALSE

-----------------------------------------------------------------------------
(* What the name of a file is taken from.                                   *)

PrefName_First(c) == glove[CHOOSE d \in Cores : TRUE]   \* mutant: one file for all cores
PrefName(c) == udCapSerial[c]

\* The serial number arrives on the rx thread; only the first one is kept.
LearnSerial(c) ==
  /\ udCapSerial[c] = Nobody
  /\ udCapSerial' = [udCapSerial EXCEPT ![c] = glove[c]]
  /\ UNCHANGED <<glove, controller, handOffset, from, file, saving, saves, anonymousLoad>>

\* setHandOffset for one bone; out of range it throws and changes nothing.
SetBone(c, b, v) ==
  /\ saving = Nobody
  /\ InRange(v)
  /\ handOffset' = [handOffset EXCEPT ![c][b] = v]
  /\ from' = [from EXCEPT ![c] = @ \cup {glove[c]}]
  /\ UNCHANGED <<glove, udCapSerial, controller, file, saving, saves, anonymousLoad>>

\* setHandOffset for the hand: all bones, or none of them.
SetHand(c, r) ==
  /\ saving = Nobody
  /\ \A b \in Bones : InRange(r[b])
  /\ handOffset' = [handOffset EXCEPT ![c] = r]
  /\ from' = [from EXCEPT ![c] = {glove[c]}]
  /\ UNCHANGED <<glove, udCapSerial, controller, file, saving, saves, anonymousLoad>>

\* A threshold is set, or the stick is calibrated (on either thread).
Tune(c, k) ==
  /\ controller' = [controller EXCEPT ![c][k] = k]
  /\ UNCHANGED <<glove, udCapSerial, handOffset, from, file, saving, saves, anonymousLoad>>

-----------------------------------------------------------------------------
(* loadPref.                                                                *)

\* The members that loadPref assigns, in its order, and the key of each.
LoadOrder ==
  <<<<"xCenterData", "xCenterData">>, <<"yCenterData", "yCenterData">>,
    <<"xCenterData", "xMaxData">>,    <<"yCenterData", "xMinData">>,
    <<"xCenterData", "yMaxData">>,    <<"yCenterData", "yMinData">>,
    <<"yCenterData", "deadZone">>,
    <<"xCenterData", "triggerMax">>,  <<"yCenterData", "triggerMin">>,
    <<"xCenterData", "gripMax">>,     <<"yCenterData", "gripMin">>,
    <<"xCenterData", "trackpadMax">>, <<"yCenterData", "trackpadMin">>>>

\* The last assignment to a member counts.
Assigns(i, m) == i \in DOMAIN LoadOrder /\ LoadOrder[i][1] = m
LastTo(m) ==
  CHOOSE i \in DOMAIN LoadOrder :
    Assigns(i, m) /\ \A j \in DOMAIN LoadOrder : Assigns(j, m) => j <= i

LoadController(members, saved) ==
  [m \in Keys |-> IF \E i \in DOMAIN LoadOrder : Assigns(i, m)
                    THEN saved[LoadOrder[LastTo(m)][2]] ELSE members[m]]

\* Every early return, and a file that does not parse, leave the core as it is.
Load(c) ==
  /\ saving = Nobody
  /\ \E saved \in file[PrefName(c)] :
     /\ controller' = [controller EXCEPT ![c] = LoadController(@, saved.controller)]
     /\ handOffset' = [handOffset EXCEPT ![c] = saved.handOffset]
     /\ from' = [from EXCEPT ![c] = saved.from]
  /\ anonymousLoad' = (anonymousLoad \/ PrefName(c) = Nobody)
  /\ UNCHANGED <<glove, udCapSerial, file, saving, saves>>

-----------------------------------------------------------------------------
(* savePref.                                                                *)

\* Opening the file cuts it off.
Opened_Append(was) == was   \* mutant: opened for appending
Opened(was) == Nothing

OpenFile(c) ==
  /\ saving = Nobody
  /\ file' = [file EXCEPT ![PrefName(c)] = Opened(@)]
  /\ saving' = <<c, PrefName(c)>>
  /\ saves < MaxSaves
  /\ saves' = saves + 1
  /\ UNCHANGED <<glove, coreVars, anonymousLoad>>

\* The whole object goes out at once; savePref does not look whether it did.
WriteFile ==
  /\ saving # Nobody
  /\ \/ LET c == saving[1] IN
          file' = [file EXCEPT ![saving[2]] = @ \cup
            {[controller |-> controller[c], handOffset |-> handOffset[c], from |-> from[c]]}]
     \/ UNCHANGED file   \* the disk is full
  /\ saving' = Nobody
  /\ UNCHANGED <<glove, coreVars, saves, anonymousLoad>>

\* The process ends, in the middle of a save or not, and starts again with
\* other gloves on its receivers.
Restart ==
  /\ glove' \in Assignments
  /\ udCapSerial' = [c \in Cores |-> Nobody]
  /\ controller' = [c \in Cores |-> Defaults]
  /\ handOffset' = [c \in Cores |-> NoOffset]
  /\ from' = [c \in Cores |-> {}]
  /\ saving' = Nobody
  /\ UNCHANGED <<file, saves, anonymousLoad>>

-----------------------------------------------------------------------------
Next ==
  \/ \E c \in Cores :
       \/ LearnSerial(c) \/ Load(c) \/ OpenFile(c)
       \/ \E b \in Bones, v \in Angles : SetBone(c, b, v)
       \/ \E r \in [Bones -> Angles] : SetHand(c, r)
       \/ \E k \in Tunable : Tune(c, k)
  \/ WriteFile
  \/ Restart

Spec == Init /\ [][Next]_vars

-----------------------------------------------------------------------------
\* Offsets follow the glove, whichever receiver it is on and over any number
\* of restarts and half-written files: a core has offsets set for its own
\* glove or none, unless some core has loaded the nameless file of all those
\* that did not know their serial number yet.
FollowsGlove ==
  ~anonymousLoad => \A c \in Cores : from[c] \subseteq {glove[c]}

\* "Load + apply previously-saved calibration" (test/diag.cpp:315): what a core
\* uses as a number of its controller is a number of that key.
ControllerRestored ==
  \A c \in Cores, k \in Keys : controller[c][k] = k
=============================================================================
