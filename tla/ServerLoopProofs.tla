-------------------------- MODULE ServerLoopProofs --------------------------
(***************************************************************************)
(* Proofs about what the main loop does in a pass.  First ServerLoop, for     *)
(* any hands, requests, commands and bounds and any modulus of the two        *)
(* counters greater than 1.                                                  *)
(*                                                                          *)
(* What goes out fits its bytes, whatever is read: this rests on the clamps   *)
(* alone (InRange).  The last request counts: a driver's slot holds what it    *)
(* is writing in the parts it has written (Written), and what the main thread   *)
(* has read while no bump is outstanding is of the request last bumped          *)
(* (Halfway).  The channel implements CommandQueue: where the main thread is     *)
(* tells how far `executed` and cmd_ack are behind `posted` and cmd_seq          *)
(* (CommandInv).                                                            *)
(*                                                                          *)
(* Then the watchdog of the same loop, for any times that leave a receiver    *)
(* the time to re-acquire (ThrottleAssumption): no reset reaches a receiver    *)
(* that an earlier one has sent looking for its glove.  The watchdog does not   *)
(* know when its request is served; what it goes by, resetAgo, is the age of    *)
(* the request itself while that waits (RequestIsLast), and afterwards grows by *)
(* one for each tick that acquiring loses (StillCovered), so that the throttle   *)
(* holds for the whole search.                                              *)
(***************************************************************************)
EXTENDS ServerLoop, Watchdog, TLAPS

USE MailboxAssumption DEF H!ConstantsOK, C!ConstantsOK

-----------------------------------------------------------------------------
(* A request and its parts.                                                 *)

LEMMA PartsOfRequest ==
  ASSUME NEW r \in H!Requests
  PROVE  /\ r.pulse.index \in Int /\ r.pulse.duration \in Int
         /\ r.force.strength \in Int /\ r.force.amplitude \in Int /\ r.force.freq \in Int
<1>1. r.pulse \in [index : Int, duration : Int]
  <2>1. r.pulse \in Pulses \cup {H!NoRequest.pulse}
    BY DEF H!Requests
  <2>2. H!NoRequest.pulse \in [index : Int, duration : Int]
    BY DEF H!NoRequest
  <2> QED  BY <2>1, <2>2
<1>2. r.force \in [strength : Int, amplitude : Int, freq : Int]
  <2>1. r.force \in Forces \cup {H!NoRequest.force}
    BY DEF H!Requests
  <2>2. H!NoRequest.force \in [strength : Int, amplitude : Int, freq : Int]
    BY DEF H!NoRequest
  <2> QED  BY <2>1, <2>2
<1> QED  BY <1>1, <1>2

\* One part of a request read or written from another request gives a request.
Mixture(r, s, p) == [r EXCEPT ![p] = s[p]]

LEMMA MixtureIsRequest ==
  ASSUME NEW r \in H!Requests, NEW s \in H!Requests, NEW p \in H!Parts
  PROVE  /\ Mixture(r, s, p) \in H!Requests
         /\ Mixture(r, s, p)[p] = s[p]
         /\ \A q \in H!Parts \ {p} : Mixture(r, s, p)[q] = r[q]
<1>1. CASE p = "pulse"
  BY <1>1 DEF Mixture, H!Requests, H!Parts
<1>2. CASE p = "force"
  BY <1>2 DEF Mixture, H!Requests, H!Parts
<1> QED  BY <1>1, <1>2 DEF H!Parts

LEMMA SameParts ==
  ASSUME NEW r \in H!Requests, NEW s \in H!Requests, \A p \in H!Parts : r[p] = s[p]
  PROVE  r = s
<1>1. r["pulse"] = s["pulse"] /\ r["force"] = s["force"]
  BY DEF H!Parts
<1> QED  BY <1>1 DEF H!Requests

LEMMA NoRequestIsRequest == H!NoRequest \in H!Requests
BY DEF H!NoRequest, H!Requests

LEMMA AskIsRequest ==
  ASSUME NEW p \in Pulses, NEW f \in Forces
  PROVE  [pulse |-> p, force |-> f] \in H!Requests
BY DEF H!Requests

-----------------------------------------------------------------------------
(* What goes out.                                                           *)

Fits(msg) ==
  \/ msg.version = 1 /\ msg.ticks \in 3 .. 250 /\ msg.strength \in 4 .. 10
  \/ /\ msg.version = 2 /\ msg.strength \in 600 .. 1000
     /\ msg.rate \in 0 .. 1000 /\ msg.ms \in 50 .. 2500

LEMMA VibrationInRange ==
  ASSUME NEW index, NEW ms \in Int, NEW strength \in Int,
         NEW msg \in H!Vibration(index, ms, strength)
  PROVE  Fits(msg)
<1> DEFINE d == H!Clamp(ms, 40, 2500)
<1>1. d \in 40 .. 2500 /\ H!Clamp(strength, 4, 10) \in 4 .. 10
  BY DEF H!Clamp
<1>2. d \div 10 \in 4 .. 250
  BY <1>1
<1>3. PICK t \in IF d % 10 = 0 THEN {d \div 10 - 1, d \div 10} ELSE {d \div 10} :
         msg = [version |-> 1, index |-> index, ticks |-> t,
                strength |-> H!Clamp(strength, 4, 10)]
  BY DEF H!Vibration
<1> HIDE DEF d
<1>4. t \in 3 .. 250
  BY <1>2, <1>3
<1> QED  BY <1>1, <1>3, <1>4 DEF Fits

LEMMA HapticV2InRange ==
  ASSUME NEW strength \in 600 .. 1000, NEW freq \in Int, NEW ms \in Int
  PROVE  Fits(H!HapticV2(strength, freq, ms))
<1>1. H!Clamp(freq, 0, 1000) \in 0 .. 1000 /\ H!Clamp(ms, 50, 2500) \in 50 .. 2500
  BY DEF H!Clamp
<1> QED  BY <1>1 DEF H!HapticV2, Fits

LEMMA MessagesFit ==
  ASSUME NEW r \in H!Requests, NEW msg \in H!Messages(r)
  PROVE  Fits(msg)
<1>1. /\ r.pulse.duration \in Int
      /\ r.force.strength \in Int /\ r.force.amplitude \in Int /\ r.force.freq \in Int
  BY PartsOfRequest
<1> DEFINE percent == H!Clamp(r.force.amplitude, 0, 100)
           legacy  == H!Clamp(r.force.strength, 4, 10)
           index   == IF r.pulse.index < 0 THEN 1 ELSE r.pulse.index
<1>2. percent \in 0 .. 100 /\ legacy \in 4 .. 10
  BY <1>1 DEF H!Clamp
<1>3. /\ H!StrengthV2(percent) \in 600 .. 1000 /\ H!LegacyStrength(percent) \in Int
  <2> HIDE DEF percent
  <2> QED  BY <1>2 DEF H!StrengthV2, H!LegacyStrength
<1>4. H!StrengthV2OfLegacy(r.force.strength) \in 600 .. 1000
  <2>1. 600 + (800 * (legacy - 4) + 6) \div 12 \in 600 .. 1000
    <3> HIDE DEF legacy
    <3> QED  BY <1>2
  <2> QED  BY <2>1 DEF H!StrengthV2OfLegacy
<1>5. \/ msg = H!HapticV2(H!StrengthV2(percent), r.force.freq, r.pulse.duration)
      \/ msg = H!HapticV2(H!StrengthV2OfLegacy(r.force.strength), 0, r.pulse.duration)
      \/ \E strength \in {H!LegacyStrength(percent), r.force.strength} :
            msg \in H!Vibration(index, r.pulse.duration, strength)
  <2>1. msg \in {IF r.force.amplitude > 0
                   THEN H!HapticV2(H!StrengthV2(percent), r.force.freq, r.pulse.duration)
                   ELSE H!HapticV2(H!StrengthV2OfLegacy(r.force.strength), 0, r.pulse.duration)}
                \cup H!Vibration(index, r.pulse.duration,
                                 IF r.force.amplitude > 0 THEN H!LegacyStrength(percent)
                                                          ELSE r.force.strength)
    BY DEF H!Messages
  <2> HIDE DEF percent, index
  <2> QED  BY <2>1
<1> HIDE DEF percent, legacy, index
<1>6. CASE msg = H!HapticV2(H!StrengthV2(percent), r.force.freq, r.pulse.duration)
  BY <1>1, <1>3, <1>6, HapticV2InRange
<1>7. CASE msg = H!HapticV2(H!StrengthV2OfLegacy(r.force.strength), 0, r.pulse.duration)
  <2>1. Fits(H!HapticV2(H!StrengthV2OfLegacy(r.force.strength), 0, r.pulse.duration))
    <3>1. 0 \in Int
      OBVIOUS
    <3> QED  BY <1>1, <1>4, <3>1, HapticV2InRange, Zenon
  <2> QED  BY <1>7, <2>1
<1>8. ASSUME NEW strength \in {H!LegacyStrength(percent), r.force.strength},
             msg \in H!Vibration(index, r.pulse.duration, strength)
      PROVE  Fits(msg)
  <2>1. strength \in Int
    BY <1>1, <1>3
  <2> QED  BY <1>1, <1>8, <2>1, VibrationInRange
<1> QED  BY <1>5, <1>6, <1>7, <1>8

-----------------------------------------------------------------------------
(* The haptic requests.                                                     *)

\* A driver's slot holds what it asks for in the parts it has written.
Written ==
  \A h \in H!Hands : \A p \in H!Parts :
    writing[h] = H!Idle \/ p \notin writing[h] => request[h][p] = want[h][p]

\* While no bump is outstanding, what has been read is of the last request.
Halfway ==
  hapticPc = "read" =>
    /\ hand \in H!Hands
    /\ writing[hand] = H!Idle /\ haptic_seq[hand] = last_haptic[hand]
         => \A p \in H!Parts \ toRead : taken[hand][p] = want[hand][p]

BeforeLoop == hapticPc = "starting" => \A h \in H!Hands : taken[h] = H!NoRequest

OnTheWire == wire # H!Silence => Fits(wire)

HapticInv ==
  H!TypeOK /\ OnTheWire /\ Written /\ Halfway /\ BeforeLoop /\ LastRequestTaken

LEMMA HapticInit == H!Init => HapticInv
<1> SUFFICES ASSUME H!Init PROVE HapticInv
  OBVIOUS
<1>1. H!TypeOK
  <2>1. request \in [H!Hands -> H!Requests] /\ want = request /\ taken = request
    BY NoRequestIsRequest DEF H!Init
  <2>2. 0 \in 0 .. SeqMod - 1 /\ 0 \in 0 .. MaxRequests /\ 0 \in 0 .. HandCount
    OBVIOUS
  <2>3. writing \in [H!Hands -> (SUBSET H!Parts) \cup {H!Idle}]
    <3>1. H!Idle \in (SUBSET H!Parts) \cup {H!Idle}
      OBVIOUS
    <3>2. writing = [h \in H!Hands |-> H!Idle]
      BY DEF H!Init
    <3> QED  BY <3>1, <3>2
  <2> QED  BY <2>1, <2>2, <2>3 DEF H!Init, H!TypeOK
<1>2. OnTheWire /\ Written /\ Halfway /\ BeforeLoop /\ LastRequestTaken
  BY DEF H!Init, OnTheWire, Written, Halfway, BeforeLoop, LastRequestTaken
<1> QED  BY <1>1, <1>2 DEF HapticInv

LEMMA AskStep ==
  ASSUME HapticInv, NEW h \in H!Hands, NEW r \in H!Requests, H!Ask(h, r)
  PROVE  HapticInv'
<1>1. /\ want' = [want EXCEPT ![h] = r] /\ writing' = [writing EXCEPT ![h] = H!Parts]
      /\ requests' = requests + 1 /\ requests < MaxRequests /\ writing[h] = H!Idle
      /\ UNCHANGED <<request, haptic_seq, hapticPc, hand, last_haptic, toRead, taken, bound,
                     wire>>
  BY DEF H!Ask, H!requestVars, H!loopVars
<1>2. H!Parts # H!Idle
  BY DEF H!Parts, H!Idle
<1>3. H!TypeOK'
  BY <1>1 DEF HapticInv, H!TypeOK
<1>4. Written'
  BY <1>1, <1>2 DEF HapticInv, H!TypeOK, Written
<1>5. Halfway'
  BY <1>1, <1>2 DEF HapticInv, H!TypeOK, Halfway
<1>6. LastRequestTaken'
  BY <1>1, <1>2 DEF HapticInv, H!TypeOK, LastRequestTaken
<1> QED  BY <1>1, <1>3, <1>4, <1>5, <1>6 DEF HapticInv, OnTheWire, BeforeLoop

LEMMA WritePartStep ==
  ASSUME HapticInv, NEW h \in H!Hands, NEW p \in H!Parts, H!WritePart(h, p)
  PROVE  HapticInv'
<1>1. /\ request' = [request EXCEPT ![h][p] = want[h][p]]
      /\ writing' = [writing EXCEPT ![h] = writing[h] \ {p}]
      /\ writing[h] # H!Idle /\ p \in writing[h]
      /\ UNCHANGED <<haptic_seq, want, requests, hapticPc, hand, last_haptic, toRead, taken,
                     bound, wire>>
  BY DEF H!WritePart, H!loopVars
<1>2. /\ request \in [H!Hands -> H!Requests] /\ want \in [H!Hands -> H!Requests]
      /\ writing \in [H!Hands -> (SUBSET H!Parts) \cup {H!Idle}]
  BY DEF HapticInv, H!TypeOK
<1>3. /\ request' = [request EXCEPT ![h] = Mixture(request[h], want[h], p)]
      /\ request'[h] \in H!Requests /\ request'[h][p] = want[h][p]
      /\ \A q \in H!Parts \ {p} : request'[h][q] = request[h][q]
  <2>1. request' = [request EXCEPT ![h] = Mixture(request[h], want[h], p)]
    BY <1>1, <1>2 DEF Mixture
  <2>2. request'[h] = Mixture(request[h], want[h], p)
    BY <1>2, <2>1
  <2>3. request[h] \in H!Requests /\ want[h] \in H!Requests
    BY <1>2
  <2>4. /\ Mixture(request[h], want[h], p) \in H!Requests
        /\ Mixture(request[h], want[h], p)[p] = want[h][p]
        /\ \A q \in H!Parts \ {p} : Mixture(request[h], want[h], p)[q] = request[h][q]
    BY <2>3, MixtureIsRequest, Zenon
  <2> QED  BY <1>2, <2>1, <2>2, <2>4
<1>4. writing[h] \subseteq H!Parts /\ writing'[h] \subseteq H!Parts /\ writing'[h] # H!Idle
  <2>1. writing[h] \subseteq H!Parts
    <3>1. writing[h] \in (SUBSET H!Parts) \cup {H!Idle}
      BY <1>2
    <3> QED  BY <1>1, <3>1
  <2>2. writing'[h] = writing[h] \ {p}
    BY <1>1, <1>2
  <2>3. "idle" \notin writing'[h]
    BY <2>1, <2>2 DEF H!Parts
  <2> QED  BY <2>1, <2>2, <2>3 DEF H!Idle
<1>5. request' \in [H!Hands -> H!Requests] /\ writing' \in [H!Hands -> (SUBSET H!Parts) \cup {H!Idle}]
  BY <1>1, <1>2, <1>3, <1>4
<1>6. H!TypeOK'
  BY <1>1, <1>5 DEF HapticInv, H!TypeOK
<1>7. Written'
  BY <1>1, <1>2, <1>3, <1>4 DEF HapticInv, Written
<1>8. Halfway'
  BY <1>1, <1>2, <1>4 DEF HapticInv, Halfway
<1>9. LastRequestTaken'
  BY <1>1, <1>2, <1>4 DEF HapticInv, LastRequestTaken
<1> QED  BY <1>1, <1>6, <1>7, <1>8, <1>9 DEF HapticInv, OnTheWire, BeforeLoop

\* The bump is what the main thread sees: it cannot come round to last_haptic.
LEMMA BumpStep ==
  ASSUME HapticInv, NEW h \in H!Hands, H!BumpSeq(h)
  PROVE  HapticInv'
<1>1. /\ writing[h] = {} /\ H!Succ(haptic_seq[h]) # last_haptic[h]
      /\ haptic_seq' = [haptic_seq EXCEPT ![h] = H!Succ(haptic_seq[h])]
      /\ writing' = [writing EXCEPT ![h] = H!Idle]
      /\ UNCHANGED <<request, want, requests, hapticPc, hand, last_haptic, toRead, taken,
                     bound, wire>>
  BY DEF H!BumpSeq, H!NotLapped, H!loopVars
<1>2. H!Succ(haptic_seq[h]) \in 0 .. SeqMod - 1
  BY DEF HapticInv, H!TypeOK, H!Succ
<1>3. H!TypeOK'
  <2>1. haptic_seq' \in [H!Hands -> 0 .. SeqMod - 1]
    BY <1>1, <1>2 DEF HapticInv, H!TypeOK
  <2>2. writing' \in [H!Hands -> (SUBSET H!Parts) \cup {H!Idle}]
    <3>1. H!Idle \in (SUBSET H!Parts) \cup {H!Idle}
      OBVIOUS
    <3>2. writing \in [H!Hands -> (SUBSET H!Parts) \cup {H!Idle}]
      BY DEF HapticInv, H!TypeOK
    <3> QED  BY <1>1, <3>1, <3>2
  <2> QED  BY <1>1, <2>1, <2>2 DEF HapticInv, H!TypeOK
<1>4. Written'
  BY <1>1 DEF HapticInv, H!TypeOK, Written
<1>5. Halfway'
  BY <1>1 DEF HapticInv, H!TypeOK, Halfway
<1>6. LastRequestTaken'
  BY <1>1 DEF HapticInv, H!TypeOK, LastRequestTaken
<1> QED  BY <1>1, <1>3, <1>4, <1>5, <1>6 DEF HapticInv, OnTheWire, BeforeLoop

\* What the main thread does, but for the send, asks and writes nothing.
LEMMA TakeOverStep == HapticInv /\ H!TakeOver => HapticInv'
<1> SUFFICES ASSUME HapticInv, H!TakeOver PROVE HapticInv'
  OBVIOUS
<1>1. /\ hapticPc = "starting" /\ hand < HandCount /\ hand' = hand + 1
      /\ last_haptic' = [last_haptic EXCEPT ![hand] = haptic_seq[hand]]
      /\ hapticPc' \in {"poll", "starting"}
      /\ UNCHANGED <<request, haptic_seq, writing, want, requests, toRead, taken, bound, wire>>
  BY DEF H!TakeOver, H!requestVars, H!driverVars
<1>2. hand \in H!Hands /\ hand' \in 0 .. HandCount
  BY <1>1 DEF HapticInv, H!TypeOK, H!Hands
<1>3. H!TypeOK'
  <2>1. last_haptic' \in [H!Hands -> 0 .. SeqMod - 1]
    BY <1>1, <1>2 DEF HapticInv, H!TypeOK
  <2> QED  BY <1>1, <1>2, <2>1 DEF HapticInv, H!TypeOK
<1>4. \A h \in H!Hands : taken'[h] = H!NoRequest
  BY <1>1 DEF HapticInv, BeforeLoop
<1> QED
  BY <1>1, <1>3, <1>4 DEF HapticInv, OnTheWire, Written, Halfway, BeforeLoop, LastRequestTaken

LEMMA NothingStep == HapticInv /\ (H!Nothing \/ H!NextPass) => HapticInv'
<1> SUFFICES ASSUME HapticInv, H!Nothing \/ H!NextPass PROVE HapticInv'
  OBVIOUS
<1>1. /\ hapticPc = "poll" /\ hand' \in 0 .. HandCount
      /\ UNCHANGED <<request, haptic_seq, writing, want, requests, hapticPc, last_haptic,
                     toRead, taken, wire>>
  BY DEF H!Nothing, H!NextPass, H!requestVars, H!driverVars, HapticInv, H!TypeOK
<1>2. bound' \in [H!Hands -> BOOLEAN]
  BY DEF H!Nothing, H!NextPass, HapticInv, H!TypeOK
<1>3. H!TypeOK'
  BY <1>1, <1>2 DEF HapticInv, H!TypeOK
<1> QED
  BY <1>1, <1>3 DEF HapticInv, OnTheWire, Written, Halfway, BeforeLoop, LastRequestTaken

LEMMA PollStep == HapticInv /\ H!Poll => HapticInv'
<1> SUFFICES ASSUME HapticInv, H!Poll PROVE HapticInv'
  OBVIOUS
<1>1. /\ hapticPc = "poll" /\ hand < HandCount /\ hapticPc' = "read" /\ toRead' = H!Parts
      /\ last_haptic' = [last_haptic EXCEPT ![hand] = haptic_seq[hand]]
      /\ UNCHANGED <<request, haptic_seq, writing, want, requests, hand, taken, bound, wire>>
  BY DEF H!Poll, H!Marked, H!requestVars, H!driverVars
<1>2. hand \in H!Hands
  BY <1>1 DEF HapticInv, H!TypeOK, H!Hands
<1>3. H!TypeOK'
  <2>1. last_haptic' \in [H!Hands -> 0 .. SeqMod - 1]
    BY <1>1, <1>2 DEF HapticInv, H!TypeOK
  <2> QED  BY <1>1, <1>2, <2>1 DEF HapticInv, H!TypeOK
<1>4. LastRequestTaken'
  BY <1>1, <1>2 DEF HapticInv, H!TypeOK, LastRequestTaken
<1> QED
  BY <1>1, <1>2, <1>3, <1>4 DEF HapticInv, OnTheWire, Written, Halfway, BeforeLoop

LEMMA ReadStep ==
  ASSUME HapticInv, NEW p \in H!Parts, H!ReadPart(p)
  PROVE  HapticInv'
<1>1. /\ hapticPc = "read" /\ p \in toRead /\ toRead' = toRead \ {p}
      /\ taken' = [taken EXCEPT ![hand][p] = request[hand][p]]
      /\ UNCHANGED <<request, haptic_seq, writing, want, requests, hapticPc, hand, last_haptic,
                     bound, wire>>
  BY DEF H!ReadPart, H!requestVars, H!driverVars
<1>2. /\ hand \in H!Hands /\ toRead \subseteq H!Parts
      /\ taken \in [H!Hands -> H!Requests] /\ request \in [H!Hands -> H!Requests]
  BY <1>1 DEF HapticInv, H!TypeOK, Halfway
<1>3. /\ taken' \in [H!Hands -> H!Requests]
      /\ taken'[hand][p] = request[hand][p]
      /\ \A q \in H!Parts \ {p} : taken'[hand][q] = taken[hand][q]
      /\ \A h \in H!Hands \ {hand} : taken'[h] = taken[h]
  <2>1. taken' = [taken EXCEPT ![hand] = Mixture(taken[hand], request[hand], p)]
    BY <1>1, <1>2 DEF Mixture
  <2>2. taken'[hand] = Mixture(taken[hand], request[hand], p)
    BY <1>2, <2>1
  <2>3. taken[hand] \in H!Requests /\ request[hand] \in H!Requests
    BY <1>2
  <2>4. /\ Mixture(taken[hand], request[hand], p) \in H!Requests
        /\ Mixture(taken[hand], request[hand], p)[p] = request[hand][p]
        /\ \A q \in H!Parts \ {p} : Mixture(taken[hand], request[hand], p)[q] = taken[hand][q]
    BY <2>3, MixtureIsRequest, Zenon
  <2> QED  BY <1>2, <2>1, <2>2, <2>4
<1>4. H!TypeOK'
  BY <1>1, <1>2, <1>3 DEF HapticInv, H!TypeOK
<1>5. Halfway'
  <2> SUFFICES ASSUME writing[hand] = H!Idle, haptic_seq[hand] = last_haptic[hand],
                      NEW q \in H!Parts \ toRead'
               PROVE  taken'[hand][q] = want[hand][q]
    BY <1>1, <1>2 DEF Halfway
  <2>1. CASE q = p
    BY <1>2, <1>3, <2>1 DEF HapticInv, Written
  <2>2. CASE q # p
    BY <1>1, <1>3, <2>2 DEF HapticInv, Halfway
  <2> QED  BY <2>1, <2>2
<1>6. LastRequestTaken'
  BY <1>1, <1>3 DEF HapticInv, LastRequestTaken
<1> QED  BY <1>1, <1>4, <1>5, <1>6 DEF HapticInv, OnTheWire, Written, BeforeLoop

\* The request is read: with no bump outstanding it is the driver's last one.
LEMMA SendStep == HapticInv /\ H!Send => HapticInv'
<1> SUFFICES ASSUME HapticInv, H!Send PROVE HapticInv'
  OBVIOUS
<1>1. /\ hapticPc = "read" /\ toRead = {} /\ hand' = hand + 1 /\ hapticPc' = "poll"
      /\ UNCHANGED <<request, haptic_seq, writing, want, requests, last_haptic, toRead, taken,
                     bound>>
  BY DEF H!Send, H!SentMark, H!requestVars, H!driverVars
<1>2. /\ hand \in H!Hands /\ hand' \in 0 .. HandCount
      /\ taken \in [H!Hands -> H!Requests] /\ want \in [H!Hands -> H!Requests]
  BY <1>1 DEF HapticInv, H!TypeOK, Halfway, H!Hands
<1>3. OnTheWire'
  <2>1. CASE UNCHANGED wire
    BY <2>1 DEF HapticInv, OnTheWire
  <2>2. CASE \E msg \in H!Messages(taken[hand]) : wire' = msg
    BY <1>2, <2>2, MessagesFit DEF OnTheWire
  <2> QED  BY <2>1, <2>2 DEF H!Send
<1>4. wire' # H!Silence => wire'.version \in {1, 2}
  BY <1>3 DEF OnTheWire, Fits
<1>5. H!TypeOK'
  BY <1>1, <1>2, <1>4 DEF HapticInv, H!TypeOK
<1>6. LastRequestTaken'
  <2> SUFFICES ASSUME NEW h \in H!Hands, taken[h] # H!NoRequest, writing[h] = H!Idle,
                      haptic_seq[h] = last_haptic[h]
               PROVE  taken[h] = want[h]
    BY <1>1 DEF LastRequestTaken
  <2>1. CASE h = hand
    <3>1. \A p \in H!Parts : taken[h][p] = want[h][p]
      BY <1>1, <2>1 DEF HapticInv, Halfway
    <3>2. taken[h] \in H!Requests /\ want[h] \in H!Requests
      BY <1>2
    <3> QED  BY <3>1, <3>2, SameParts
  <2>2. CASE h # hand
    BY <1>1, <2>2 DEF HapticInv, LastRequestTaken
  <2> QED  BY <2>1, <2>2
<1> QED  BY <1>1, <1>3, <1>5, <1>6 DEF HapticInv, Written, Halfway, BeforeLoop

LEMMA HapticStep ==
  ASSUME HapticInv,
         H!Haptics \/ H!NextPass \/ (\E h \in H!Hands : H!Driver(h)) \/ UNCHANGED hapticVars
  PROVE  HapticInv'
<1>1. CASE H!Haptics
  BY <1>1, TakeOverStep, NothingStep, PollStep, ReadStep, SendStep DEF H!Haptics
<1>2. CASE H!NextPass
  BY <1>2, NothingStep
<1>3. CASE \E h \in H!Hands : H!Driver(h)
  BY <1>3, AskStep, AskIsRequest, WritePartStep, BumpStep DEF H!Driver
<1>4. CASE UNCHANGED hapticVars
  BY <1>4 DEF hapticVars, HapticInv, H!TypeOK, OnTheWire, Written, Halfway, BeforeLoop,
     LastRequestTaken
<1> QED  BY <1>1, <1>2, <1>3, <1>4

-----------------------------------------------------------------------------
(* The commands.                                                            *)

\* One command is posted and not acknowledged; the app waits.
Outstanding == cmd_seq = C!Succ(cmd_ack) /\ ~sending

\* Where the main thread is, and how far it has come with the command.
CommandInv ==
  /\ C!TypeOK
  /\ sending => pc = "poll" /\ cmd_ack = cmd_seq /\ cmd_code \in Codes /\ Len(posted) < MaxPosts
  /\ pc \in {"starting", "resumed"} =>
       cmd_seq = 0 /\ cmd_ack = 0 /\ last_cmd = 0 /\ posted = <<>> /\ executed = <<>>
  /\ pc = "poll" =>
       /\ last_cmd = cmd_ack
       /\ \/ cmd_seq = cmd_ack /\ executed = posted
          \/ Outstanding /\ posted = Append(executed, cmd_code)
  /\ pc \in {"read", "execute", "acknowledge"} =>
       Outstanding /\ cs = cmd_seq /\ last_cmd = cmd_seq
  /\ pc \in {"read", "execute"} => posted = Append(executed, cmd_code)
  /\ pc = "execute" => code = cmd_code
  /\ pc = "acknowledge" => executed = posted

LEMMA SuccOther ==
  ASSUME NEW n \in 0 .. SeqMod - 1
  PROVE  C!Succ(n) \in 0 .. SeqMod - 1 /\ C!Succ(n) # n
<1>1. CASE n = SeqMod - 1
  BY <1>1 DEF C!Succ
<1>2. CASE n < SeqMod - 1
  BY <1>2 DEF C!Succ
<1> QED  BY <1>1, <1>2

LEMMA CommandInit == C!Init => CommandInv
<1> SUFFICES ASSUME C!Init PROVE CommandInv
  OBVIOUS
<1>1. C!TypeOK
  <2>1. 0 \in 0 .. SeqMod - 1 /\ <<>> \in Seq(Codes)
    OBVIOUS
  <2>2. sending \in BOOLEAN
    BY DEF C!Init
  <2> QED  BY <2>1, <2>2 DEF C!Init, C!TypeOK
<1> QED  BY <1>1 DEF C!Init, CommandInv

\* Seen from CommandQueue, a step posts, executes or acknowledges one command, or
\* is none of its steps.
QueueStep == [C!Queue!Next]_(C!Queue!vars)

LEMMA CommandStep ==
  ASSUME CommandInv, C!Server \/ C!App
  PROVE  CommandInv' /\ QueueStep
<1> USE DEF Outstanding
<1>0. /\ C!TypeOK
      /\ cmd_seq \in 0 .. SeqMod - 1 /\ cmd_ack \in 0 .. SeqMod - 1
      /\ posted \in Seq(Codes) /\ executed \in Seq(Codes)
  BY DEF CommandInv, C!TypeOK
<1>1. ASSUME NEW c \in Codes, C!WriteCode(c), pc \notin {"starting", "resumed"}
      PROVE  CommandInv' /\ QueueStep
  <2>1. /\ ~sending /\ cmd_ack = cmd_seq /\ Len(posted) < MaxPosts /\ cmd_code' = c /\ sending'
        /\ UNCHANGED <<cmd_seq, cmd_ack, pc, last_cmd, cs, code, posted, executed>>
    BY <1>1 DEF C!WriteCode, C!localVars
  <2>2. cmd_seq # C!Succ(cmd_ack) /\ pc = "poll"
    BY <1>0, <1>1, <2>1, SuccOther DEF CommandInv, C!TypeOK
  <2>3. sending' \in BOOLEAN
    BY <1>1 DEF C!WriteCode
  <2>4. C!TypeOK'
    BY <1>0, <2>1, <2>3 DEF C!TypeOK
  <2>5. CommandInv'
    BY <2>1, <2>2, <2>4 DEF CommandInv
  <2>6. UNCHANGED C!Queue!vars
    BY <2>1 DEF C!Queue!vars
  <2> QED  BY <2>5, <2>6 DEF QueueStep
<1>2. CASE C!BumpSeq
  <2>1. /\ sending /\ cmd_seq' = C!Succ(cmd_seq) /\ posted' = Append(posted, cmd_code)
        /\ ~sending'
        /\ UNCHANGED <<cmd_code, cmd_ack, pc, last_cmd, cs, code, executed>>
    BY <1>2 DEF C!BumpSeq, C!localVars
  <2>2. /\ pc = "poll" /\ cmd_ack = cmd_seq /\ cmd_code \in Codes /\ Len(posted) < MaxPosts
        /\ last_cmd = cmd_ack /\ executed = posted
    <3>1. pc = "poll" /\ cmd_ack = cmd_seq /\ cmd_code \in Codes /\ Len(posted) < MaxPosts
      BY <2>1 DEF CommandInv
    <3>2. cmd_seq # C!Succ(cmd_ack)
      BY <1>0, <3>1, SuccOther
    <3> QED  BY <3>1, <3>2 DEF CommandInv
  <2>3. cmd_seq' \in 0 .. SeqMod - 1 /\ cmd_seq' # cmd_ack'
    BY <1>0, <2>1, <2>2, SuccOther
  <2>4. posted' \in Seq(Codes) /\ sending' \in BOOLEAN /\ Len(posted') = Len(posted) + 1
    <3>1. sending' \in BOOLEAN
      BY <1>2 DEF C!BumpSeq
    <3>2. posted' \in Seq(Codes) /\ Len(posted') = Len(posted) + 1
      BY <1>0, <2>1, <2>2
    <3> QED  BY <3>1, <3>2
  <2>5. C!TypeOK'
    BY <1>0, <2>1, <2>3, <2>4 DEF C!TypeOK
  <2>6. CommandInv'
    BY <2>1, <2>2, <2>5 DEF CommandInv
  <2>7. C!Queue!Post(cmd_code)
    BY <1>0, <2>1, <2>2, <2>3, <2>4 DEF C!Queue!Post
  <2> QED  BY <2>2, <2>6, <2>7 DEF QueueStep, C!Queue!Next
<1>3. CASE C!TakeOver
  <2>1. /\ pc = "starting" /\ last_cmd' = cmd_seq /\ pc' = "resumed"
        /\ UNCHANGED <<cmd_seq, cmd_code, cmd_ack, sending, cs, code, posted, executed>>
    BY <1>3 DEF C!TakeOver, C!segmentVars
  <2>2. C!TypeOK'
    BY <1>0, <2>1 DEF C!TypeOK
  <2>3. CommandInv' /\ UNCHANGED C!Queue!vars
    BY <2>1, <2>2 DEF CommandInv, C!Queue!vars
  <2> QED  BY <2>3 DEF QueueStep
<1>4. CASE C!AckTaken
  <2>1. /\ pc = "resumed" /\ cmd_ack' = last_cmd /\ pc' = "poll"
        /\ UNCHANGED <<cmd_seq, cmd_code, sending, last_cmd, cs, code, posted, executed>>
    BY <1>4 DEF C!AckTaken, C!localVars
  <2>2. C!TypeOK'
    BY <1>0, <2>1 DEF C!TypeOK
  <2>3. CommandInv' /\ UNCHANGED C!Queue!vars
    BY <2>1, <2>2 DEF CommandInv, C!Queue!vars
  <2> QED  BY <2>3 DEF QueueStep
<1>5. CASE C!Poll
  <2>1. /\ pc = "poll" /\ cs' = cmd_seq /\ cmd_seq # last_cmd /\ last_cmd' = cmd_seq
        /\ pc' = "read"
        /\ UNCHANGED <<cmd_seq, cmd_code, cmd_ack, sending, code, posted, executed>>
    BY <1>5 DEF C!Poll, C!Forget, C!segmentVars
  <2>2. C!TypeOK'
    BY <1>0, <2>1 DEF C!TypeOK
  <2>3. CommandInv' /\ UNCHANGED C!Queue!vars
    BY <2>1, <2>2 DEF CommandInv, C!Queue!vars
  <2> QED  BY <2>3 DEF QueueStep
<1>6. CASE C!ReadCode
  <2>1. /\ pc = "read" /\ code' = cmd_code /\ pc' = "execute"
        /\ UNCHANGED <<cmd_seq, cmd_code, cmd_ack, sending, last_cmd, cs, posted, executed>>
    BY <1>6 DEF C!ReadCode, C!segmentVars
  <2>2. C!TypeOK'
    BY <1>0, <2>1 DEF C!TypeOK
  <2>3. CommandInv' /\ UNCHANGED C!Queue!vars
    BY <2>1, <2>2 DEF CommandInv, C!Queue!vars
  <2> QED  BY <2>3 DEF QueueStep
<1>7. CASE C!Execute
  <2>1. /\ pc = "execute" /\ executed' = Append(executed, code) /\ pc' = "acknowledge"
        /\ UNCHANGED <<cmd_seq, cmd_code, cmd_ack, sending, last_cmd, cs, code, posted>>
    BY <1>7 DEF C!Execute, C!segmentVars, C!localVars
  <2>2. posted = Append(executed, code) /\ Outstanding /\ cs = cmd_seq /\ last_cmd = cmd_seq
    BY <2>1 DEF CommandInv
  <2>3. executed' = posted
    BY <2>1, <2>2
  <2>4. C!TypeOK'
    BY <1>0, <2>1, <2>3 DEF C!TypeOK
  <2>5. CommandInv'
    BY <2>1, <2>2, <2>3, <2>4 DEF CommandInv
  <2>6. code = posted[Len(executed) + 1] /\ Len(posted) = Len(executed) + 1
    <3>1. code \in Codes \cup {0}
      BY <1>0 DEF C!TypeOK
    <3>2. executed \in Seq(Codes \cup {0})
      BY <1>0
    <3> QED  BY <2>2, <3>1, <3>2
  <2>7. C!Queue!Execute
    BY <1>0, <2>1, <2>6 DEF C!Queue!Execute
  <2> QED  BY <2>5, <2>7 DEF QueueStep, C!Queue!Next
<1>8. CASE C!Acknowledge
  <2>1. /\ pc = "acknowledge" /\ cmd_ack' = cs /\ pc' = "poll"
        /\ UNCHANGED <<cmd_seq, cmd_code, sending, last_cmd, cs, code, posted, executed>>
    BY <1>8 DEF C!Acknowledge, C!localVars
  <2>2. cs = cmd_seq /\ last_cmd = cmd_seq /\ executed = posted /\ ~sending
        /\ cmd_seq = C!Succ(cmd_ack)
    BY <2>1 DEF CommandInv
  <2>3. cmd_seq # cmd_ack /\ cmd_ack' = cmd_seq'
    BY <1>0, <2>1, <2>2, SuccOther
  <2>4. C!TypeOK'
    BY <1>0, <2>1 DEF C!TypeOK
  <2>5. CommandInv'
    BY <2>1, <2>2, <2>4 DEF CommandInv
  <2>6. C!Queue!Acknowledge
    BY <1>0, <2>1, <2>2, <2>3 DEF C!Queue!Acknowledge
  <2> QED  BY <2>5, <2>6 DEF QueueStep, C!Queue!Next
<1> QED
  BY <1>1, <1>2, <1>3, <1>4, <1>5, <1>6, <1>7, <1>8 DEF C!Server, C!App, C!InLoop

-----------------------------------------------------------------------------
(* The loop: a step of it is a step of one mailbox, and leaves the other alone,  *)
(* but for the end of a pass.                                               *)

IInv == HapticInv /\ CommandInv /\ part \in {"haptics", "command"}

LEMMA LoopInit == Init => IInv /\ C!Queue!Init
<1> SUFFICES ASSUME Init PROVE IInv /\ C!Queue!Init
  OBVIOUS
<1>1. C!Queue!Init
  BY DEF Init, C!Init, C!Queue!Init
<1> QED  BY <1>1, HapticInit, CommandInit DEF Init, IInv

LEMMA CommandStutter ==
  CommandInv /\ UNCHANGED commandVars => CommandInv' /\ QueueStep
<1> SUFFICES ASSUME CommandInv, UNCHANGED commandVars PROVE CommandInv' /\ QueueStep
  OBVIOUS
<1>1. CommandInv'
  BY DEF commandVars, CommandInv, C!TypeOK, Outstanding
<1>2. UNCHANGED C!Queue!vars
  BY DEF commandVars, C!Queue!vars
<1> QED  BY <1>1, <1>2 DEF QueueStep

LEMMA LoopStep == IInv /\ [Next]_vars => IInv' /\ QueueStep
<1> SUFFICES ASSUME IInv, [Next]_vars PROVE IInv' /\ QueueStep
  OBVIOUS
<1>1. HapticInv /\ CommandInv /\ part \in {"haptics", "command"}
  BY DEF IInv
<1>2. part' \in {"haptics", "command"}
  BY <1>1 DEF Next, MainThread, HapticsPart, HapticsDone, CommandPart, CommandDone, Clients, vars
<1>3. \/ H!Haptics \/ H!NextPass \/ (\E h \in H!Hands : H!Driver(h)) \/ UNCHANGED hapticVars
  BY DEF Next, MainThread, HapticsPart, HapticsDone, CommandPart, CommandDone, Clients, vars
<1>4. C!Server \/ C!App \/ UNCHANGED commandVars
  BY DEF Next, MainThread, HapticsPart, HapticsDone, CommandPart, CommandDone, Clients, vars
<1>5. HapticInv'
  BY <1>1, <1>3, HapticStep
<1>6. CommandInv' /\ QueueStep
  BY <1>1, <1>4, CommandStep, CommandStutter
<1> QED  BY <1>2, <1>5, <1>6 DEF IInv

THEOREM Invariance == Spec => []IInv
<1>1. IInv /\ [Next]_vars => IInv'
  BY LoopStep
<1> QED  BY <1>1, LoopInit, PTL DEF Spec

\* The counters stay within their modulus and every request, read or written, is
\* made of parts that were asked for (udcap_shm.h:185-196, 281-286).
THEOREM Types == Spec => []TypeOK
<1>1. IInv => TypeOK
  BY DEF IInv, HapticInv, CommandInv, TypeOK
<1> QED  BY <1>1, Invariance, PTL

\* When a driver has finished its bump and the server has nothing left to take,
\* what it took last is what the driver asked for last (udcap_server.cpp:802-808).
THEOREM LastTaken == Spec => []LastRequestTaken
<1>1. IInv => LastRequestTaken
  BY DEF IInv, HapticInv
<1> QED  BY <1>1, Invariance, PTL

\* The numbers that go out fit the bytes they are sent in and the range of the
\* module, whatever is asked for and read (UdCapV1Core.cpp:979-1023).
THEOREM MessagesInRange == Spec => []MessageInRange
<1>1. IInv => MessageInRange
  <2> SUFFICES ASSUME IInv, wire # H!Silence PROVE MessageInRange
    BY DEF MessageInRange
  <2>1. Fits(wire)
    BY DEF IInv, HapticInv, OnTheWire
  <2>2. CASE wire.version = 1
    <3>1. wire.ticks \in 3 .. 250 /\ wire.strength \in 4 .. 10 /\ wire.version # 2
      BY <2>1, <2>2 DEF Fits
    <3> QED  BY <2>2, <3>1 DEF MessageInRange
  <2>3. CASE wire.version = 2
    <3>1. /\ wire.strength \in 600 .. 1000 /\ wire.rate \in 0 .. 1000 /\ wire.ms \in 50 .. 2500
          /\ wire.version # 1
      BY <2>1, <2>3 DEF Fits
    <3> QED  BY <2>3, <3>1 DEF MessageInRange
  <2> QED  BY <2>1, <2>2, <2>3 DEF Fits
<1> QED  BY <1>1, Invariance, PTL

\* Each command is executed once, in order, and acknowledged after that, with every
\* wrap of cmd_seq: the loop takes only steps of CommandQueue (udcap_shm.h:46-47).
THEOREM QueueImplemented == Spec => C!Queue!Init /\ [][C!Queue!Next]_(C!Queue!vars)
<1>1. Init => C!Queue!Init
  BY LoopInit
<1>2. IInv /\ [Next]_vars => [C!Queue!Next]_(C!Queue!vars)
  BY LoopStep DEF QueueStep
<1> QED  BY <1>1, <1>2, Invariance, PTL DEF Spec

-----------------------------------------------------------------------------
(* The watchdog: types.                                                      *)

USE TicksAssumption, ThrottleAssumption

\* WatchdogTypeOK in three parts: the flags, with one membership for each, how
\* they are tied, and the ranges of the rest.
Flags ==
  /\ target \in BOOLEAN /\ wd_active \in BOOLEAN /\ portOpen \in BOOLEAN
  /\ nudge \in BOOLEAN /\ glove \in BOOLEAN /\ wasReset \in BOOLEAN

Ties == (wd_active => target) /\ (nudge => portOpen)

Ranges ==
  /\ quietFor \in 0 .. EscalateTicks
  /\ nudgedAgo \in 0 .. NudgeTicks
  /\ resetAgo \in 0 .. ThrottleTicks
  /\ silentFor \in 0 .. DeadlineTicks
  /\ requested \in 0 .. ServeTicks
  /\ stream \in {"ready", "live", "stalled", "deaf"}
  /\ acquiring \in 0 .. AcquireTicks
  /\ frames \in {"none", "some", "all"}

Typed == Flags /\ Ties /\ Ranges

LEMMA TypedIsTypeOK == WatchdogTypeOK <=> Typed
<1>1. {target, wd_active, portOpen, nudge, glove, wasReset} \subseteq BOOLEAN <=> Flags
  BY Zenon DEF Flags
<1> QED  BY <1>1, Zenon DEF WatchdogTypeOK, Typed, Ties, Ranges

LEMMA OlderInRange ==
  ASSUME NEW cap \in Nat, NEW age \in 0 .. cap
  PROVE  /\ Older(age, cap) \in 0 .. cap
         /\ age < cap => Older(age, cap) = age + 1
         /\ age = cap => Older(age, cap) = cap
BY DEF Older

LEMMA InitTyped == WatchdogInit => Typed
<1> SUFFICES ASSUME WatchdogInit PROVE Typed
  OBVIOUS
<1>1. Flags
  BY DEF WatchdogInit, Flags
<1>2. Ties
  BY Zenon DEF WatchdogInit, Ties
<1>3. Ranges
  BY DEF WatchdogInit, Ranges
<1> QED  BY <1>1, <1>2, <1>3 DEF Typed

LEMMA TickTyped ==
  ASSUME Typed, Tick
  PROVE  Typed'
<1> PICK lively \in Lively :
      LET nudges == ~lively /\ Quiet /\ NudgeDue
          resets == /\ nudges
                    /\ Escalates(Older(quietFor, EscalateTicks))
                    /\ ~Throttled(Older(resetAgo, ThrottleTicks))
      IN  /\ wd_active' = (wd_active \/ (lively /\ target))
          /\ quietFor' = IF lively THEN 0 ELSE Older(quietFor, EscalateTicks)
          /\ nudgedAgo' = IF nudges THEN 0 ELSE Older(nudgedAgo, NudgeTicks)
          /\ resetAgo' = IF resets THEN 0 ELSE Older(resetAgo, ThrottleTicks)
          /\ nudge' = (nudge \/ (nudges /\ portOpen))
          /\ requested' = IF requested > 0 \/ resets THEN requested + 1 ELSE 0
  BY DEF Tick
<1>1. (wd_active \in BOOLEAN)' /\ (nudge \in BOOLEAN)'
  OBVIOUS
<1>2. (wd_active => target)' /\ (nudge => portOpen)'
  BY Zenon DEF Tick, Typed, Flags, Ties, Ranges
<1>3. (quietFor \in 0 .. EscalateTicks /\ nudgedAgo \in 0 .. NudgeTicks
       /\ resetAgo \in 0 .. ThrottleTicks)'
  <2>1. Older(quietFor, EscalateTicks) \in 0 .. EscalateTicks
    BY OlderInRange DEF Typed, Flags, Ties, Ranges
  <2>2. Older(nudgedAgo, NudgeTicks) \in 0 .. NudgeTicks
    BY OlderInRange DEF Typed, Flags, Ties, Ranges
  <2>3. Older(resetAgo, ThrottleTicks) \in 0 .. ThrottleTicks
    BY OlderInRange DEF Typed, Flags, Ties, Ranges
  <2> QED  BY <2>1, <2>2, <2>3
<1>4. (requested \in 0 .. ServeTicks)'
  BY DEF Tick, Typed, Flags, Ties, Ranges
<1>5. (silentFor \in 0 .. DeadlineTicks /\ acquiring \in 0 .. AcquireTicks
       /\ frames \in {"none", "some", "all"})'
  BY DEF Tick, Typed, Flags, Ties, Ranges
<1>6. (target \in BOOLEAN /\ portOpen \in BOOLEAN /\ glove \in BOOLEAN /\ wasReset \in BOOLEAN
       /\ stream \in {"ready", "live", "stalled", "deaf"})'
  BY DEF Tick, Typed, Flags, Ties, Ranges
<1> QED  BY <1>1, <1>2, <1>3, <1>4, <1>5, <1>6 DEF Typed, Flags, Ties, Ranges

LEMMA PortTyped ==
  ASSUME Typed, PortDies \/ ServeReset \/ ServeResetFails \/ Replug
  PROVE  Typed'
<1> USE DEF Typed, Flags, Ties, Ranges, watchVars, radioVars, Restarted
<1>1. CASE PortDies
  <2>1. Flags'
    BY <1>1 DEF PortDies
  <2>2. Ties'
    BY <1>1, Zenon DEF PortDies
  <2>3. Ranges'
    BY <1>1 DEF PortDies
  <2> QED  BY <2>1, <2>2, <2>3
<1>2. CASE ServeReset
  <2>1. Flags'
    BY <1>2 DEF ServeReset
  <2>2. Ties'
    BY <1>2, Zenon DEF ServeReset
  <2>3. Ranges'
    BY <1>2 DEF ServeReset
  <2> QED  BY <2>1, <2>2, <2>3
<1>3. CASE ServeResetFails
  <2>1. Flags'
    BY <1>3 DEF ServeResetFails
  <2>2. Ties'
    BY <1>3, Zenon DEF ServeResetFails
  <2>3. Ranges'
    BY <1>3 DEF ServeResetFails
  <2> QED  BY <2>1, <2>2, <2>3
<1>4. CASE Replug
  <2>1. Flags'
    BY <1>4 DEF Replug
  <2>2. Ties'
    BY <1>4, Zenon DEF Replug
  <2>3. Ranges'
    BY <1>4 DEF Replug
  <2> QED  BY <2>1, <2>2, <2>3
<1> QED  BY <1>1, <1>2, <1>3, <1>4

LEMMA RadioTyped ==
  ASSUME Typed, NEW starts \in BOOLEAN,
         SwitchGlove \/ Stall \/ Resume \/ Link(starts) \/ Trickle(starts)
  PROVE  Typed'
<1> USE DEF Typed, Flags, Ties, Ranges, watchVars, portVars
<1>1. CASE SwitchGlove
  <2>1. Flags'
    BY <1>1 DEF SwitchGlove
  <2>2. Ties'
    BY <1>1, Zenon DEF SwitchGlove
  <2>3. Ranges'
    BY <1>1 DEF SwitchGlove
  <2> QED  BY <2>1, <2>2, <2>3
<1>2. CASE Stall
  <2>1. Flags'
    BY <1>2 DEF Stall
  <2>2. Ties'
    BY <1>2, Zenon DEF Stall
  <2>3. Ranges'
    BY <1>2 DEF Stall
  <2> QED  BY <2>1, <2>2, <2>3
<1>3. CASE Resume
  <2>1. Flags'
    BY <1>3 DEF Resume
  <2>2. Ties'
    BY <1>3, Zenon DEF Resume
  <2>3. Ranges'
    BY <1>3 DEF Resume
  <2> QED  BY <2>1, <2>2, <2>3
<1>4. CASE Link(starts)
  <2>1. Flags'
    BY <1>4 DEF Link
  <2>2. Ties'
    BY <1>4, Zenon DEF Link
  <2>3. Ranges'
    BY <1>4 DEF Link
  <2> QED  BY <2>1, <2>2, <2>3
<1>5. CASE Trickle(starts)
  <2>1. Flags'
    BY <1>5 DEF Trickle
  <2>2. Ties'
    BY <1>5, Zenon DEF Trickle
  <2>3. Ranges'
    BY <1>5 DEF Trickle
  <2> QED  BY <2>1, <2>2, <2>3
<1> QED  BY <1>1, <1>2, <1>3, <1>4, <1>5

\* Every variable has its type; only a hand that is known is watched, and a dead
\* port has nothing to write.
THEOREM WatchdogTypes == WatchdogSpec => []WatchdogTypeOK
<1>1. WatchdogInit => WatchdogTypeOK
  BY InitTyped, TypedIsTypeOK
<1>2. WatchdogTypeOK /\ [WatchdogNext]_watchdogVars => WatchdogTypeOK'
  <2>1. SUFFICES ASSUME Typed, [WatchdogNext]_watchdogVars PROVE Typed'
    BY TypedIsTypeOK, PTL
  <2>2. CASE Tick
    BY <2>1, <2>2, TickTyped
  <2>3. CASE PortDies \/ ServeReset \/ ServeResetFails \/ Replug
    BY <2>1, <2>3, PortTyped
  <2>4. CASE SwitchGlove \/ Stall \/ Resume \/ \E starts \in BOOLEAN : Link(starts) \/ Trickle(starts)
    BY <2>1, <2>4, RadioTyped
  <2>5. CASE UNCHANGED watchdogVars
    BY <2>1, <2>5 DEF Typed, Flags, Ties, Ranges, watchdogVars, watchVars, portVars, radioVars
  <2> QED  BY <2>1, <2>2, <2>3, <2>4, <2>5 DEF WatchdogNext, Environment
<1> QED  BY <1>1, <1>2, PTL DEF WatchdogSpec

-----------------------------------------------------------------------------
(* The watchdog: its throttle.                                               *)

\* A request that waits is the last one the watchdog made, and as old as resetAgo
\* says.
RequestIsLast == requested > 0 => resetAgo = requested - 1

\* While a receiver that was reset looks for its glove no reset is asked for,
\* and none will be before it has had its time.
StillCovered ==
  wasReset /\ acquiring > 0 =>
    requested = 0 /\ resetAgo + acquiring < ServeTicks + AcquireTicks

ThrottleInv == RequestIsLast /\ StillCovered

LEMMA TickCovered ==
  ASSUME Typed, ThrottleInv, Tick
  PROVE  ThrottleInv'
<1> PICK lively \in Lively :
      LET nudges == ~lively /\ Quiet /\ NudgeDue
          resets == /\ nudges
                    /\ Escalates(Older(quietFor, EscalateTicks))
                    /\ ~Throttled(Older(resetAgo, ThrottleTicks))
      IN  /\ resetAgo' = IF resets THEN 0 ELSE Older(resetAgo, ThrottleTicks)
          /\ requested' = IF requested > 0 \/ resets THEN requested + 1 ELSE 0
  BY DEF Tick
<1> DEFINE resets == /\ ~lively /\ Quiet /\ NudgeDue
                     /\ Escalates(Older(quietFor, EscalateTicks))
                     /\ ~Throttled(Older(resetAgo, ThrottleTicks))
<1>1. /\ resetAgo' = IF resets THEN 0 ELSE Older(resetAgo, ThrottleTicks)
      /\ requested' = IF requested > 0 \/ resets THEN requested + 1 ELSE 0
  OBVIOUS
<1>2. resets => Older(resetAgo, ThrottleTicks) >= ThrottleTicks
  BY OlderInRange DEF Throttled, Typed, Ranges
<1> HIDE DEF resets
<1>3. /\ requested < ServeTicks
      /\ acquiring' = IF acquiring > 0 THEN acquiring - 1 ELSE 0
      /\ wasReset' = wasReset
  BY DEF Tick
<1>4. /\ requested \in 0 .. ServeTicks /\ resetAgo \in 0 .. ThrottleTicks
      /\ acquiring \in 0 .. AcquireTicks
  BY DEF Typed, Ranges
<1>5. resets => resetAgo + 1 >= ThrottleTicks
  BY <1>2, <1>4, OlderInRange
\* A request is made only when none waits.
<1>6. RequestIsLast'
  <2>1. CASE requested > 0
    <3>1. resetAgo = requested - 1 /\ resetAgo + 1 < ThrottleTicks
      BY <2>1, <1>3, <1>4 DEF ThrottleInv, RequestIsLast
    <3>2. ~resets /\ Older(resetAgo, ThrottleTicks) = requested
      BY <3>1, <1>4, <1>5, OlderInRange
    <3> QED  BY <2>1, <3>2, <1>1, <1>4 DEF RequestIsLast
  <2>2. CASE requested = 0
    BY <2>2, <1>1 DEF RequestIsLast
  <2> QED  BY <2>1, <2>2, <1>4
<1>7. StillCovered'
  <2>1. SUFFICES ASSUME wasReset, acquiring' > 0
                 PROVE  requested' = 0 /\ resetAgo' + acquiring' < ServeTicks + AcquireTicks
    BY <1>3 DEF StillCovered
  <2>2. acquiring > 1 /\ acquiring' = acquiring - 1
    BY <2>1, <1>3, <1>4
  <2>3. requested = 0 /\ resetAgo + acquiring < ServeTicks + AcquireTicks
    BY <2>1, <2>2, <1>4 DEF ThrottleInv, StillCovered
  <2>4. resetAgo + 1 < ThrottleTicks
    BY <2>2, <2>3, <1>4
  <2>5. ~resets /\ Older(resetAgo, ThrottleTicks) = resetAgo + 1
    BY <2>4, <1>4, <1>5, OlderInRange
  <2> QED  BY <2>2, <2>3, <2>5, <1>1, <1>4
<1> QED  BY <1>6, <1>7 DEF ThrottleInv

LEMMA PortCovered ==
  ASSUME Typed, ThrottleInv, PortDies \/ ServeReset \/ ServeResetFails \/ Replug
  PROVE  ThrottleInv'
<1> USE DEF ThrottleInv, RequestIsLast, StillCovered, watchVars, radioVars
<1>1. CASE PortDies
  BY <1>1 DEF PortDies
<1>2. CASE ServeReset
  <2>1. /\ requested > 0 /\ requested' = 0 /\ acquiring' = AcquireTicks
        /\ resetAgo' = resetAgo
    BY <1>2 DEF ServeReset, Restarted
  <2>2. requested \in 0 .. ServeTicks /\ resetAgo = requested - 1
    BY <2>1 DEF Typed, Ranges
  <2> QED  BY <2>1, <2>2
<1>3. CASE ServeResetFails
  BY <1>3 DEF ServeResetFails, Typed, Ranges
<1>4. CASE Replug
  BY <1>4 DEF Replug
<1> QED  BY <1>1, <1>2, <1>3, <1>4

LEMMA RadioCovered ==
  ASSUME ThrottleInv, NEW starts \in BOOLEAN,
         SwitchGlove \/ Stall \/ Resume \/ Link(starts) \/ Trickle(starts)
  PROVE  ThrottleInv'
<1>1. UNCHANGED <<resetAgo, requested, acquiring, wasReset>>
  BY DEF SwitchGlove, Stall, Resume, Link, Trickle, watchVars, portVars
<1> QED  BY <1>1 DEF ThrottleInv, RequestIsLast, StillCovered

LEMMA ThrottleStep == Typed /\ ThrottleInv /\ [WatchdogNext]_watchdogVars => ThrottleInv'
<1>1. SUFFICES ASSUME Typed, ThrottleInv, [WatchdogNext]_watchdogVars PROVE ThrottleInv'
  OBVIOUS
<1>2. CASE Tick
  BY <1>1, <1>2, TickCovered
<1>3. CASE PortDies \/ ServeReset \/ ServeResetFails \/ Replug
  BY <1>1, <1>3, PortCovered
<1>4. CASE SwitchGlove \/ Stall \/ Resume \/ \E starts \in BOOLEAN : Link(starts) \/ Trickle(starts)
  BY <1>1, <1>4, RadioCovered
<1>5. CASE UNCHANGED watchdogVars
  BY <1>1, <1>5 DEF ThrottleInv, RequestIsLast, StillCovered, watchdogVars, watchVars, portVars, radioVars
<1> QED  BY <1>1, <1>2, <1>3, <1>4, <1>5 DEF WatchdogNext, Environment

\* However late a reset is served, whatever the port and the glove do meanwhile,
\* the age the watchdog counts covers the receiver's search.
THEOREM ThrottleInvariance == WatchdogSpec => [](WatchdogTypeOK /\ ThrottleInv)
<1>1. WatchdogInit => ThrottleInv
  BY DEF WatchdogInit, ThrottleInv, RequestIsLast, StillCovered
<1>2. WatchdogTypeOK /\ ThrottleInv /\ [WatchdogNext]_watchdogVars => ThrottleInv'
  BY ThrottleStep, TypedIsTypeOK
<1> QED  BY <1>1, <1>2, WatchdogTypes, PTL DEF WatchdogSpec

\* No reset reaches a receiver that an earlier one has sent looking for its glove.
THEOREM GivenTime == WatchdogSpec => LeftToAcquire
<1> DEFINE Spared == requested > 0 /\ requested' = 0 /\ portOpen' => ~wasReset \/ acquiring = 0
<1>1. WatchdogTypeOK /\ ThrottleInv /\ [WatchdogNext]_watchdogVars => [Spared]_watchdogVars
  <2>1. SUFFICES ASSUME Typed, ThrottleInv PROVE Spared
    BY TypedIsTypeOK
  <2> QED  BY <2>1 DEF Typed, Ranges, ThrottleInv, StillCovered
<1> QED  BY <1>1, ThrottleInvariance, PTL DEF WatchdogSpec, LeftToAcquire
=============================================================================
