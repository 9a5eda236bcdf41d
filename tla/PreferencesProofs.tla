-------------------------- MODULE PreferencesProofs --------------------------
(***************************************************************************)
(* Proofs about Preferences, for any cores, gloves, bones and offsets.      *)
(*                                                                          *)
(* Offsets follow the glove although neither a file nor a save knows whose   *)
(* offsets it holds: a core has learnt the serial number of its own glove    *)
(* or none (OwnSerial), so the file of a glove is opened only by the core    *)
(* that has the glove (SaveUnderway), and what is in it was set for that      *)
(* glove (FilesOwn), and stays so over restarts, which no other variable     *)
(* survives.                                                                *)
(***************************************************************************)
EXTENDS Preferences, TLAPS

USE NobodyAssumption, MaxSavesAssumption, AnglesAssumption, TunableAssumption

Offsets == {v \in Angles : InRange(v)}

-----------------------------------------------------------------------------
(* What loadPref makes of the numbers of a controller.                      *)

LEMMA LoadOrderKeys ==
  /\ DOMAIN LoadOrder = 1 .. 13
  /\ \A i \in DOMAIN LoadOrder : LoadOrder[i][2] \in Keys
BY DEF LoadOrder, Keys

\* The twelfth assignment is the last one to xCenterData, the thirteenth the
\* last one to yCenterData.
LEMMA LastAssignments ==
  /\ LastTo("xCenterData") = 12
  /\ LastTo("yCenterData") = 13
<1>1. \A i \in DOMAIN LoadOrder :
        /\ Assigns(i, "xCenterData") <=> i \in {1, 3, 5, 8, 10, 12}
        /\ Assigns(i, "yCenterData") <=> i \in {2, 4, 6, 7, 9, 11, 13}
  BY DEF Assigns, LoadOrder
<1>2. DOMAIN LoadOrder = 1 .. 13
  BY LoadOrderKeys
<1>3. LastTo("xCenterData") = 12
  BY <1>1, <1>2 DEF LastTo
<1>4. LastTo("yCenterData") = 13
  BY <1>1, <1>2 DEF LastTo
<1> QED  BY <1>3, <1>4

\* loadPref puts the range of the trackpad into the centre of the stick and
\* restores nothing else of the controller (1556-1571).
THEOREM LoadedController ==
  ASSUME NEW members \in [Keys -> Keys], NEW saved \in [Keys -> Keys]
  PROVE  LoadController(members, saved) =
           [members EXCEPT !["xCenterData"] = saved["trackpadMax"],
                           !["yCenterData"] = saved["trackpadMin"]]
<1>1. LoadOrder[12][2] = "trackpadMax" /\ LoadOrder[13][2] = "trackpadMin"
  BY DEF LoadOrder
<1>2. \E i \in DOMAIN LoadOrder : Assigns(i, "xCenterData")
  BY DEF Assigns, LoadOrder
<1>3. \E i \in DOMAIN LoadOrder : Assigns(i, "yCenterData")
  BY DEF Assigns, LoadOrder
<1>4. \A m \in Keys \ {"xCenterData", "yCenterData"} :
        ~ \E i \in DOMAIN LoadOrder : Assigns(i, m)
  BY DEF Assigns, LoadOrder
<1>5. "xCenterData" \in Keys /\ "yCenterData" \in Keys
  BY DEF Keys
<1>6. ASSUME NEW m \in Keys
      PROVE  LoadController(members, saved)[m] =
               [members EXCEPT !["xCenterData"] = saved["trackpadMax"],
                               !["yCenterData"] = saved["trackpadMin"]][m]
  <2>1. CASE m = "xCenterData"
    BY <2>1, <1>1, <1>2, <1>5, LastAssignments DEF LoadController
  <2>2. CASE m = "yCenterData"
    BY <2>2, <1>1, <1>3, <1>5, LastAssignments DEF LoadController
  <2>3. CASE m \notin {"xCenterData", "yCenterData"}
    BY <2>3, <1>4 DEF LoadController
  <2> QED  BY <2>1, <2>2, <2>3
<1> QED  BY <1>6 DEF LoadController

LEMMA LoadedType ==
  ASSUME NEW members \in [Keys -> Keys], NEW saved \in [Keys -> Keys]
  PROVE  LoadController(members, saved) \in [Keys -> Keys]
<1>1. saved["trackpadMax"] \in Keys /\ saved["trackpadMin"] \in Keys
  BY DEF Keys
<1> QED  BY <1>1, LoadedController

-----------------------------------------------------------------------------
(* The inductive invariant.                                                 *)

\* What a core holds and what a file holds are offsets setHandOffset accepts.
Legal == handOffset \in [Cores -> [Bones -> Offsets]]

\* A core knows the serial number of its own glove, or none.
OwnSerial == \A c \in Cores : udCapSerial[c] \in {Nobody, glove[c]}

\* A save under way has cut off the file of its core's own glove, or the
\* nameless one.
SaveUnderway ==
  saving # Nobody => /\ file[saving[2]] = Nothing
                     /\ saving[2] \in {Nobody, glove[saving[1]]}

\* What stands under the name of a glove was set for that glove.
FilesOwn ==
  ~anonymousLoad => \A n \in Gloves : \A saved \in file[n] : saved.from \subseteq {n}

IInv == TypeOK /\ Legal /\ OwnSerial /\ SaveUnderway /\ FollowsGlove /\ FilesOwn

LEMMA ContentsParts ==
  ASSUME NEW saved \in Contents
  PROVE  /\ saved.controller \in [Keys -> Keys]
         /\ saved.handOffset \in [Bones -> Offsets]
         /\ saved.from \in SUBSET Gloves
BY DEF Contents, Offsets

LEMMA LegalIsTyped ==
  ASSUME NEW h \in [Cores -> [Bones -> Offsets]]
  PROVE  h \in [Cores -> [Bones -> Angles]]
BY DEF Offsets

LEMMA InitInv == Init => IInv
<1> SUFFICES ASSUME Init PROVE IInv
  OBVIOUS
<1> USE DEF Init
<1>1. 0 \in Offsets
  BY DEF Offsets, InRange
<1>2. Legal
  BY <1>1 DEF Legal, NoOffset
<1>3. TypeOK
  <2>1. handOffset \in [Cores -> [Bones -> Angles]]
    BY DEF NoOffset
  <2>2. controller \in [Cores -> [Keys -> Keys]]
    BY DEF Defaults
  <2>3. udCapSerial \in [Cores -> Names] /\ from \in [Cores -> SUBSET Gloves]
    BY DEF Names
  <2>4. file \in [Names -> SUBSET Contents]
    BY DEF Nothing
  <2>5. \A n \in Names : \A saved, other \in file[n] : saved = other
    BY DEF Nothing
  <2>6. saving \in (Cores \X Names) \cup {Nobody} /\ saves \in 0 .. MaxSaves
    OBVIOUS
  <2> QED  BY <2>1, <2>2, <2>3, <2>4, <2>5, <2>6 DEF TypeOK
<1>4. OwnSerial /\ SaveUnderway /\ FollowsGlove
  BY DEF OwnSerial, SaveUnderway, FollowsGlove
<1>5. FilesOwn
  BY DEF FilesOwn, Names, Nothing
<1> QED  BY <1>2, <1>3, <1>4, <1>5 DEF IInv

-----------------------------------------------------------------------------
(* One lemma per action.                                                    *)

LEMMA LearnSerialStep ==
  ASSUME IInv, NEW c \in Cores, LearnSerial(c)
  PROVE  IInv'
<1> USE DEF IInv, LearnSerial
<1>1. glove[c] \in Names
  BY DEF TypeOK, Assignments, Names
<1>2. TypeOK'
  BY <1>1 DEF TypeOK
<1>3. OwnSerial'
  BY DEF OwnSerial, TypeOK
<1>4. (Legal /\ SaveUnderway /\ FollowsGlove /\ FilesOwn)'
  BY DEF Legal, SaveUnderway, FollowsGlove, FilesOwn
<1> QED  BY <1>2, <1>3, <1>4

LEMMA SetBoneStep ==
  ASSUME IInv, NEW c \in Cores, NEW b \in Bones, NEW v \in Angles, SetBone(c, b, v)
  PROVE  IInv'
<1> USE DEF IInv, SetBone
<1>1. v \in Offsets
  BY DEF Offsets
<1>2. Legal'
  BY <1>1 DEF Legal
<1>3. glove[c] \in Gloves
  BY DEF TypeOK, Assignments
<1>4. (from \in [Cores -> SUBSET Gloves])'
  BY <1>3 DEF TypeOK
<1>5. TypeOK'
  BY <1>2, <1>4, LegalIsTyped DEF TypeOK, Legal
<1>6. FollowsGlove'
  BY DEF FollowsGlove, TypeOK
<1>7. (OwnSerial /\ SaveUnderway /\ FilesOwn)'
  BY DEF OwnSerial, SaveUnderway, FilesOwn
<1> QED  BY <1>2, <1>5, <1>6, <1>7

LEMMA SetHandStep ==
  ASSUME IInv, NEW c \in Cores, NEW r \in [Bones -> Angles], SetHand(c, r)
  PROVE  IInv'
<1> USE DEF IInv, SetHand
<1>1. r \in [Bones -> Offsets]
  BY DEF Offsets
<1>2. Legal'
  BY <1>1 DEF Legal
<1>3. glove[c] \in Gloves
  BY DEF TypeOK, Assignments
<1>4. (from \in [Cores -> SUBSET Gloves])'
  BY <1>3 DEF TypeOK
<1>5. TypeOK'
  BY <1>2, <1>4, LegalIsTyped DEF TypeOK, Legal
<1>6. FollowsGlove'
  BY DEF FollowsGlove, TypeOK
<1>7. (OwnSerial /\ SaveUnderway /\ FilesOwn)'
  BY DEF OwnSerial, SaveUnderway, FilesOwn
<1> QED  BY <1>2, <1>5, <1>6, <1>7

LEMMA TuneStep ==
  ASSUME IInv, NEW c \in Cores, NEW k \in Tunable, Tune(c, k)
  PROVE  IInv'
<1> USE DEF IInv, Tune
<1>1. k \in Keys
  OBVIOUS
<1>2. TypeOK'
  BY <1>1 DEF TypeOK
<1>3. (Legal /\ OwnSerial /\ SaveUnderway /\ FollowsGlove /\ FilesOwn)'
  BY DEF Legal, OwnSerial, SaveUnderway, FollowsGlove, FilesOwn
<1> QED  BY <1>2, <1>3

\* The file a core loads is that of its own glove, unless it is the nameless
\* one; then nothing is said any more.
LEMMA LoadStep ==
  ASSUME IInv, NEW c \in Cores, Load(c)
  PROVE  IInv'
<1> PICK saved \in file[PrefName(c)] :
      /\ controller' = [controller EXCEPT ![c] = LoadController(@, saved.controller)]
      /\ handOffset' = [handOffset EXCEPT ![c] = saved.handOffset]
      /\ from' = [from EXCEPT ![c] = saved.from]
  BY DEF Load
<1>same. /\ anonymousLoad' = (anonymousLoad \/ PrefName(c) = Nobody)
         /\ UNCHANGED <<glove, udCapSerial, file, saving, saves>>
  BY DEF Load
<1> USE DEF IInv
<1>1. PrefName(c) \in Names /\ PrefName(c) \in {Nobody, glove[c]}
  BY DEF PrefName, TypeOK, OwnSerial
<1>2. saved \in Contents
  BY <1>1 DEF TypeOK
<1>3. Legal'
  BY <1>2, ContentsParts DEF Legal
<1>4. TypeOK'
  <2>1. (controller \in [Cores -> [Keys -> Keys]])'
    <3>1. LoadController(controller[c], saved.controller) \in [Keys -> Keys]
      BY <1>2, ContentsParts, LoadedType DEF TypeOK
    <3> QED  BY <3>1 DEF TypeOK
  <2>2. (handOffset \in [Cores -> [Bones -> Angles]])'
    BY <1>3, LegalIsTyped DEF Legal
  <2>3. (from \in [Cores -> SUBSET Gloves])'
    BY <1>2, ContentsParts DEF TypeOK
  <2>4. anonymousLoad' \in BOOLEAN
    BY <1>same DEF TypeOK
  <2> QED  BY <2>1, <2>2, <2>3, <2>4, <1>same DEF TypeOK
<1>5. FollowsGlove'
  <2>1. SUFFICES ASSUME ~anonymousLoad'
                 PROVE  \A d \in Cores : from'[d] \subseteq {glove[d]}
    BY <1>same DEF FollowsGlove
  <2>2. PrefName(c) = glove[c] /\ PrefName(c) \in Gloves /\ ~anonymousLoad
    BY <2>1, <1>1, <1>same DEF Names
  <2>3. saved.from \subseteq {glove[c]}
    BY <2>2 DEF FilesOwn
  <2> QED  BY <2>2, <2>3 DEF FollowsGlove, TypeOK
<1>6. FilesOwn'
  BY <1>same DEF FilesOwn
<1>7. (OwnSerial /\ SaveUnderway)'
  BY <1>same DEF OwnSerial, SaveUnderway
<1> QED  BY <1>3, <1>4, <1>5, <1>6, <1>7

LEMMA OpenFileStep ==
  ASSUME IInv, NEW c \in Cores, OpenFile(c)
  PROVE  IInv'
<1> USE DEF IInv, OpenFile
<1>same. UNCHANGED <<glove, udCapSerial, controller, handOffset, from, anonymousLoad>>
  BY DEF coreVars
<1>1. PrefName(c) \in Names /\ PrefName(c) \in {Nobody, glove[c]}
  BY DEF PrefName, TypeOK, OwnSerial
<1>2. file' = [file EXCEPT ![PrefName(c)] = {}]
  BY DEF Opened, Nothing
<1>3. (file \in [Names -> SUBSET Contents])'
  BY <1>2 DEF TypeOK
<1>4. \A n \in Names : \A saved, other \in file'[n] : saved = other
  BY <1>1, <1>2 DEF TypeOK
<1>5. TypeOK'
  BY <1>same, <1>1, <1>3, <1>4 DEF TypeOK
<1>6. SaveUnderway'
  BY <1>same, <1>1, <1>2 DEF SaveUnderway, Nothing, TypeOK
<1>7. FilesOwn'
  BY <1>same, <1>1, <1>2 DEF FilesOwn, Names, TypeOK
<1>8. (Legal /\ OwnSerial /\ FollowsGlove)'
  BY <1>same DEF Legal, OwnSerial, FollowsGlove
<1> QED  BY <1>5, <1>6, <1>7, <1>8

\* What a save writes under the name of a glove are the offsets of the core
\* that has the glove.
LEMMA WriteFileStep ==
  ASSUME IInv, WriteFile
  PROVE  IInv'
<1> USE DEF IInv
<1>same. UNCHANGED <<glove, udCapSerial, controller, handOffset, from, saves, anonymousLoad>>
  BY DEF WriteFile, coreVars
<1>0. saving # Nobody /\ saving' = Nobody
  BY DEF WriteFile
<1>8. (Legal /\ OwnSerial /\ FollowsGlove /\ SaveUnderway)'
  BY <1>same, <1>0 DEF Legal, OwnSerial, FollowsGlove, SaveUnderway
<1>1. CASE UNCHANGED file
  BY <1>1, <1>8, <1>same, <1>0 DEF TypeOK, FilesOwn
<1>2. CASE file' = [file EXCEPT ![saving[2]] = @ \cup
             {[controller |-> controller[saving[1]], handOffset |-> handOffset[saving[1]],
               from |-> from[saving[1]]]}]
  <2> DEFINE c == saving[1]
             n == saving[2]
             written == [controller |-> controller[c], handOffset |-> handOffset[c],
                         from |-> from[c]]
  <2>1. c \in Cores /\ n \in Names /\ n \in {Nobody, glove[c]} /\ file[n] = {}
    BY <1>0 DEF TypeOK, SaveUnderway, Nothing
  <2>2. written \in Contents
    <3>1. handOffset[c] \in [Bones -> {v \in Angles : InRange(v)}]
      BY <2>1 DEF Legal, Offsets
    <3>2. controller[c] \in [Keys -> Keys] /\ from[c] \in SUBSET Gloves
      BY <2>1 DEF TypeOK
    <3> QED  BY <3>1, <3>2 DEF Contents
  <2>3. written.from = from[c]
    OBVIOUS
  <2>4. file' = [file EXCEPT ![n] = {written}]
    BY <1>2, <2>1
  <2> HIDE DEF c, n, written
  <2>5. (file \in [Names -> SUBSET Contents])'
    BY <2>2, <2>4 DEF TypeOK
  <2>6. \A m \in Names : \A saved, other \in file'[m] : saved = other
    BY <2>1, <2>4 DEF TypeOK
  <2>7. TypeOK'
    BY <1>same, <1>0, <2>5, <2>6 DEF TypeOK
  <2>8. FilesOwn'
    <3>1. SUFFICES ASSUME ~anonymousLoad, NEW m \in Gloves, NEW saved \in file'[m]
                   PROVE  saved.from \subseteq {m}
      BY <1>same DEF FilesOwn
    <3>2. CASE m = n
      <4>1. saved = written /\ n = glove[c]
        BY <3>2, <2>1, <2>4 DEF TypeOK
      <4>2. from[c] \subseteq {glove[c]}
        BY <3>1, <2>1 DEF FollowsGlove
      <4> QED  BY <3>2, <4>1, <4>2, <2>3
    <3>3. CASE m # n
      BY <3>1, <3>3, <2>1, <2>4 DEF FilesOwn, TypeOK, Names
    <3> QED  BY <3>2, <3>3
  <2> QED  BY <1>8, <2>7, <2>8
<1> QED  BY <1>1, <1>2 DEF WriteFile

LEMMA RestartStep ==
  ASSUME IInv, Restart
  PROVE  IInv'
<1> USE DEF IInv, Restart
<1>1. 0 \in Offsets
  BY DEF Offsets, InRange
<1>2. Legal'
  BY <1>1 DEF Legal, NoOffset
<1>3. TypeOK'
  <2>1. (handOffset \in [Cores -> [Bones -> Angles]])'
    BY <1>2, LegalIsTyped DEF Legal
  <2>2. (controller \in [Cores -> [Keys -> Keys]])'
    BY DEF Defaults
  <2>3. (udCapSerial \in [Cores -> Names] /\ from \in [Cores -> SUBSET Gloves])'
    BY DEF Names
  <2> QED  BY <2>1, <2>2, <2>3 DEF TypeOK
<1>4. (OwnSerial /\ SaveUnderway /\ FollowsGlove)'
  BY DEF OwnSerial, SaveUnderway, FollowsGlove
<1>5. FilesOwn'
  BY DEF FilesOwn
<1> QED  BY <1>2, <1>3, <1>4, <1>5

LEMMA NextStep == IInv /\ [Next]_vars => IInv'
<1> SUFFICES ASSUME IInv, [Next]_vars PROVE IInv'
  OBVIOUS
<1>1. ASSUME NEW c \in Cores, LearnSerial(c) PROVE IInv'
  BY <1>1, LearnSerialStep
<1>2. ASSUME NEW c \in Cores, Load(c) PROVE IInv'
  BY <1>2, LoadStep
<1>3. ASSUME NEW c \in Cores, OpenFile(c) PROVE IInv'
  BY <1>3, OpenFileStep
<1>4. ASSUME NEW c \in Cores, NEW b \in Bones, NEW v \in Angles, SetBone(c, b, v) PROVE IInv'
  BY <1>4, SetBoneStep
<1>5. ASSUME NEW c \in Cores, NEW r \in [Bones -> Angles], SetHand(c, r) PROVE IInv'
  BY <1>5, SetHandStep
<1>6. ASSUME NEW c \in Cores, NEW k \in Tunable, Tune(c, k) PROVE IInv'
  BY <1>6, TuneStep
<1>7. CASE WriteFile
  BY <1>7, WriteFileStep
<1>8. CASE Restart
  BY <1>8, RestartStep
<1>9. CASE UNCHANGED vars
  BY <1>9 DEF IInv, vars, coreVars, TypeOK, Legal, OwnSerial, SaveUnderway, FollowsGlove, FilesOwn
<1> QED  BY <1>1, <1>2, <1>3, <1>4, <1>5, <1>6, <1>7, <1>8, <1>9 DEF Next

-----------------------------------------------------------------------------
(* The theorems.                                                            *)

\* Over restarts, saves cut short and gloves that change receivers, IInv holds.
THEOREM Invariance == Spec => []IInv
<1>1. Init => IInv
  BY InitInv
<1>2. IInv /\ [Next]_vars => IInv'
  BY NextStep
<1> QED  BY <1>1, <1>2, PTL DEF Spec

\* Every variable has its type, and a file holds one whole object or nothing.
THEOREM Types == Spec => []TypeOK
<1>1. IInv => TypeOK
  BY DEF IInv
<1> QED  BY <1>1, Invariance, PTL

\* Offsets follow the glove, for any number of receivers, gloves, restarts and
\* saves, as long as no core loads the nameless file.
THEOREM OffsetsFollow == Spec => []FollowsGlove
<1>1. IInv => FollowsGlove
  BY DEF IInv
<1> QED  BY <1>1, Invariance, PTL
=============================================================================
