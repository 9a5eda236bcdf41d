---------------------------- MODULE HapticMailbox ----------------------------
(***************************************************************************)
(* The haptic requests of the drivers (shm/udcap_shm.h:185-196), the part of *)
(* the server's main loop that takes them (server/udcap_server.cpp:781-820), *)
(* and what the core sends for one (src/UdCapV1Core.cpp:983-1023).           *)
(*                                                                          *)
(* A driver (external) writes the parameters of a hand and bumps haptic_seq. *)
(* It waits for nothing and no seqlock protects the parameters, so the       *)
(* server may read a mixture of two requests.  Two parts of a request are    *)
(* enough to tell a mixture: its pulse (actuator, duration) and its force    *)
(* (legacy strength, amplitude, frequency).                                  *)
(*                                                                          *)
(* Durations are in ms, amplitudes in percent, frequencies in Hz.            *)
(***************************************************************************)
EXTENDS Integers

CONSTANTS HandCount,     \* UDCAP_HAND_COUNT
          Pulses,        \* [index, duration] a driver may ask for
          Forces,        \* [strength, amplitude, freq] a driver may ask for
          SeqMod,        \* haptic_seq is an unsigned modulo SeqMod (2^32)
          MaxRequests    \* bound of the model: requests of all drivers

\* What a module that composes this one has to assume of the constants.
ConstantsOK ==
  /\ HandCount \in Nat /\ MaxRequests \in Nat
  /\ Pulses \subseteq [index : Int, duration : Int]
  /\ Forces \subseteq [strength : Int, amplitude : Int, freq : Int]
  /\ SeqMod \in Nat \ {0, 1}

VARIABLES
  request,       \* hand -> the parameters in its slot
  haptic_seq,    \* hand -> haptic_seq in its slot
  writing,       \* hand -> parts its driver has still to write before the bump, or Idle
  want,          \* hand -> the request its driver is writing
  requests,      \* requests begun
  pc, hand,      \* where the main thread is, and the hand it looks at
  last_haptic,   \* hand -> the haptic_seq last taken
  toRead,        \* parts the main thread has still to read
  taken,         \* hand -> the parameters last read
  bound,         \* hand -> core_by_hand is set
  wire           \* the last message to a control module, or Silence

requestVars == <<request, haptic_seq>>
driverVars  == <<writing, want, requests>>
loopVars    == <<pc, hand, last_haptic, toRead, taken, bound, wire>>
vars == <<requestVars, driverVars, loopVars>>

Hands == 0 .. HandCount - 1
Parts == {"pulse", "force"}
Idle == {"idle"}
Silence == <<>>

NoRequest == [pulse |-> [index |-> 0, duration |-> 0],
              force |-> [strength |-> 0, amplitude |-> 0, freq |-> 0]]
Requests == [pulse : Pulses \cup {NoRequest.pulse}, force : Forces \cup {NoRequest.force}]

Succ(n) == (n + 1) % SeqMod
Clamp(v, low, high) == IF v < low THEN low ELSE IF v > high THEN high ELSE v

\* Every variable has its type.
TypeOK ==
  /\ request \in [Hands -> Requests] /\ taken \in [Hands -> Requests]
  /\ want \in [Hands -> Requests]
  /\ haptic_seq \in [Hands -> 0 .. SeqMod - 1] /\ last_haptic \in [Hands -> 0 .. SeqMod - 1]
  /\ writing \in [Hands -> (SUBSET Parts) \cup {Idle}]
  /\ requests \in 0 .. MaxRequests
  /\ pc \in {"starting", "poll", "read"} /\ hand \in 0 .. HandCount
  /\ toRead \subseteq Parts
  /\ bound \in [Hands -> BOOLEAN]
  /\ wire # Silence => wire.version \in {1, 2}

\* The segment has just been created: all zeros.
Init ==
  /\ request = [h \in Hands |-> NoRequest] /\ haptic_seq = [h \in Hands |-> 0]
  /\ writing = [h \in Hands |-> Idle] /\ want = request /\ requests = 0
  /\ pc = "starting" /\ hand = 0 /\ toRead = {}
  /\ last_haptic = [h \in Hands |-> 0] /\ taken = request
  /\ bound \in [Hands -> BOOLEAN]
  /\ wire = Silence

-----------------------------------------------------------------------------
(* The drivers (external).                                                  *)

Ask(h, r) ==
  /\ writing[h] = Idle
  /\ requests < MaxRequests
  /\ want' = [want EXCEPT ![h] = r]
  /\ writing' = [writing EXCEPT ![h] = Parts]
  /\ requests' = requests + 1
  /\ UNCHANGED <<requestVars, loopVars>>

WritePart(h, p) ==
  /\ writing[h] # Idle /\ p \in writing[h]
  /\ request' = [request EXCEPT ![h][p] = want[h][p]]
  /\ writing' = [writing EXCEPT ![h] = @ \ {p}]
  /\ UNCHANGED <<haptic_seq, want, requests, loopVars>>

(* The bound: no driver comes round a whole turn of haptic_seq while the     *)
(* main thread looks elsewhere.                                             *)
NotLapped(h) == Succ(haptic_seq[h]) # last_haptic[h]

BumpSeq(h) ==
  /\ writing[h] = {}
  /\ NotLapped(h)
  /\ haptic_seq' = [haptic_seq EXCEPT ![h] = Succ(@)]
  /\ writing' = [writing EXCEPT ![h] = Idle]
  /\ UNCHANGED <<request, want, requests, loopVars>>

Driver(h) ==
  \/ \E p \in Pulses, f \in Forces : Ask(h, [pulse |-> p, force |-> f])
  \/ \E p \in Parts : WritePart(h, p)
  \/ BumpSeq(h)

-----------------------------------------------------------------------------
(* What the core sends: mcuSendVibration, mcuSendHaptic, sendHapticV2.  The  *)
(* module's version is the rx thread's to change, and is read on the way.    *)

\* The original module counts 10 ms; 0.04f * 100.0 is just below 4.
Vibration(index, ms, strength) ==
  LET d == Clamp(ms, 40, 2500)
  IN {[version |-> 1, index |-> index, ticks |-> t, strength |-> Clamp(strength, 4, 10)] :
        t \in IF d % 10 = 0 THEN {d \div 10 - 1, d \div 10} ELSE {d \div 10}}

HapticV2_Unclamped(strength, freq, ms) ==   \* mutant: the time goes out as it came
  [version |-> 2, strength |-> strength, rate |-> IF freq > 0 THEN freq ELSE 100, ms |-> ms]
HapticV2(strength, freq, ms) ==
  [version |-> 2, strength |-> strength,
   rate |-> IF freq > 0 THEN Clamp(freq, 0, 1000) ELSE 100, ms |-> Clamp(ms, 50, 2500)]

\* lround(4 + 6 amplitude), lround(600 + 400 amplitude); a legacy strength is
\* taken for the amplitude (strength - 4) / 6.
LegacyStrength(percent) == 4 + (12 * percent + 100) \div 200
StrengthV2(percent) == 600 + 4 * percent
StrengthV2OfLegacy(strength) == 600 + (800 * (Clamp(strength, 4, 10) - 4) + 6) \div 12

\* mcuSendVibration or, with an amplitude, mcuSendHaptic.
Messages(r) ==
  LET index == IF r.pulse.index < 0 THEN 1 ELSE r.pulse.index
      ms == r.pulse.duration
      percent == Clamp(r.force.amplitude, 0, 100)
      rich == r.force.amplitude > 0
  IN IF index \notin {1, 2} THEN {}
     ELSE {IF rich THEN HapticV2(StrengthV2(percent), r.force.freq, ms)
                   ELSE HapticV2(StrengthV2OfLegacy(r.force.strength), 0, ms)}
          \cup Vibration(index, ms, IF rich THEN LegacyStrength(percent) ELSE r.force.strength)

-----------------------------------------------------------------------------
(* The main thread.                                                         *)

\* Before the loop: what is there counts as taken.
TakeOver ==
  /\ pc = "starting" /\ hand < HandCount
  /\ last_haptic' = [last_haptic EXCEPT ![hand] = haptic_seq[hand]]
  /\ hand' = hand + 1
  /\ pc' = IF hand' = HandCount THEN "poll" ELSE "starting"
  /\ UNCHANGED <<requestVars, driverVars, toRead, taken, bound, wire>>

Nothing ==
  /\ pc = "poll" /\ hand < HandCount
  /\ haptic_seq[hand] = last_haptic[hand]
  /\ hand' = hand + 1
  /\ UNCHANGED <<requestVars, driverVars, pc, last_haptic, toRead, taken, bound, wire>>

Marked_Not == last_haptic   \* mutant: the request is never marked as taken
Marked == [last_haptic EXCEPT ![hand] = haptic_seq[hand]]

Poll ==
  /\ pc = "poll" /\ hand < HandCount
  /\ haptic_seq[hand] # last_haptic[hand]
  /\ last_haptic' = Marked
  /\ pc' = "read"
  /\ toRead' = Parts
  /\ UNCHANGED <<requestVars, driverVars, hand, taken, bound, wire>>

ReadPart(p) ==
  /\ pc = "read" /\ p \in toRead
  /\ taken' = [taken EXCEPT ![hand][p] = request[hand][p]]
  /\ toRead' = toRead \ {p}
  /\ UNCHANGED <<requestVars, driverVars, pc, hand, last_haptic, bound, wire>>

\* Nothing is marked after the send.
SentMark_Reread == [last_haptic EXCEPT ![hand] = haptic_seq[hand]]   \* mutant
SentMark == last_haptic

\* The send may throw on a closed port; without a core there is none.
Send ==
  /\ pc = "read" /\ toRead = {}
  /\ \/ UNCHANGED wire
     \/ bound[hand] /\ \E msg \in Messages(taken[hand]) : wire' = msg
  /\ hand' = hand + 1
  /\ pc' = "poll"
  /\ last_haptic' = SentMark
  /\ UNCHANGED <<requestVars, driverVars, toRead, taken, bound>>

\* The rest of the loop's body, in which a hand may get its core.
NextPass ==
  /\ pc = "poll" /\ hand = HandCount
  /\ hand' = 0
  /\ bound' \in {b \in [Hands -> BOOLEAN] : \A h \in Hands : bound[h] => b[h]}
  /\ UNCHANGED <<requestVars, driverVars, pc, last_haptic, toRead, taken, wire>>

Haptics == TakeOver \/ Nothing \/ Poll \/ Send \/ \E p \in Parts : ReadPart(p)

Next == Haptics \/ NextPass \/ \E h \in Hands : Driver(h)
Spec == Init /\ [][Next]_vars /\ WF_vars(Haptics \/ NextPass)
=============================================================================
