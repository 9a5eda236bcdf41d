------------------------------- MODULE Watchdog -------------------------------
(***************************************************************************)
(* The reconnect watchdog of the server's main loop                         *)
(* (server/udcap_server.cpp:851-961) for one hand, with the receiver that   *)
(* serves it and that receiver's port (PortAccessor, here only what of it    *)
(* the watchdog meets: an open port on which no byte comes for the read's    *)
(* deadline is given up as dead, a command waits for the read that holds the *)
(* socket, and the read thread serves a requested reset some time later).    *)
(*                                                                          *)
(* Time is counted in ticks: every 500 ms the main loop comes to the         *)
(* watchdog.  The ages are times since, capped where nothing changes any     *)
(* more.  Frames per second and the queries for channel and firmware, which  *)
(* the same block of the loop sees to, leave this state alone.              *)
(***************************************************************************)
EXTENDS Integers

CONSTANTS QuietTicks,      \* 2.5 s: a hand this long without frames is nudged
          NudgeTicks,      \* 1.5 s: between nudges
          EscalateTicks,   \* 6 s: a hand this long without frames is reset
          ThrottleTicks,   \* 8 s: between resets
          DeadlineTicks,   \* 700 ms, rounded up: a read without a byte gives up
          ServeTicks,      \* a requested reset is served before so many ticks
          AcquireTicks     \* a receiver that was reset finds its glove in so many

ASSUME TicksAssumption ==
  /\ QuietTicks \in Nat \ {0} /\ NudgeTicks \in Nat \ {0}
  /\ EscalateTicks \in Nat \ {0} /\ ThrottleTicks \in Nat \ {0}
  /\ DeadlineTicks \in Nat \ {0} /\ ServeTicks \in Nat \ {0}
  /\ AcquireTicks \in Nat

\* "Throttled so the receiver gets time to re-acquire" (949): the 8 s cover the
\* time to serve a reset and to find the glove.
ASSUME ThrottleAssumption == ServeTicks + AcquireTicks <= ThrottleTicks

VARIABLES
  target,       \* the core knows the hand it serves (getTarget)
  wd_active, quietFor, nudgedAgo, resetAgo,   \* the watchdog
  portOpen,     \* isOpenFlag of the port
  silentFor,    \* ticks the pending read of an open port has waited for a byte
  nudge,        \* link-state poll, StopData and StartData wait to be written
  requested,    \* 0, or the age of resetRequested, from 1
  glove,        \* the glove is switched on
  stream,       \* the receiver: "ready" for a glove, "live", "stalled", or
                \* "deaf" to a glove that was switched off and on
  acquiring,    \* ticks a restarted receiver still needs to find its glove
  wasReset,     \* history: it was a requested reset that last restarted it
  frames        \* it has sent frames for "all", "some" or "none" of this tick

watchVars == <<wd_active, quietFor, nudgedAgo, resetAgo>>
portVars  == <<portOpen, silentFor, nudge, requested>>
radioVars == <<glove, stream, acquiring, wasReset, frames>>
watchdogVars == <<target, watchVars, portVars, radioVars>>

\* Every variable has its type; only a hand that is known is watched, and a
\* dead port has nothing to write.
WatchdogTypeOK ==
  /\ {target, wd_active, portOpen, nudge, glove, wasReset} \subseteq BOOLEAN
  /\ quietFor \in 0 .. EscalateTicks
  /\ nudgedAgo \in 0 .. NudgeTicks
  /\ resetAgo \in 0 .. ThrottleTicks
  /\ silentFor \in 0 .. DeadlineTicks
  /\ requested \in 0 .. ServeTicks
  /\ stream \in {"ready", "live", "stalled", "deaf"}
  /\ acquiring \in 0 .. AcquireTicks
  /\ frames \in {"none", "some", "all"}
  /\ wd_active => target
  /\ nudge => portOpen

WatchdogInit ==
  /\ target = FALSE
  /\ wd_active = FALSE /\ quietFor = 0
  /\ nudgedAgo = NudgeTicks /\ resetAgo = ThrottleTicks
  /\ portOpen = TRUE /\ silentFor = 0 /\ nudge = FALSE /\ requested = 0
  /\ glove \in BOOLEAN /\ stream = "ready" /\ acquiring = 0 /\ frames = "none"
  /\ wasReset = FALSE

-----------------------------------------------------------------------------
(* The main loop, every 500 ms.                                             *)

Older_Uncapped(age, cap) == age + 1   \* mutant
Older(age, cap) == IF age < cap THEN age + 1 ELSE cap

\* More than ten packets since the last tick.
Lively == CASE frames = "all" -> {TRUE} [] frames = "some" -> BOOLEAN [] OTHER -> {FALSE}

\* The binding of the hand to this receiver is resolved again in every tick.
Quiet == wd_active /\ target
NudgeDue == Older(quietFor, EscalateTicks) >= QuietTicks
            /\ Older(nudgedAgo, NudgeTicks) >= NudgeTicks

Throttled_Never(age) == FALSE   \* mutant: resets are not spaced
Throttled(age) == age < ThrottleTicks

\* Open port or dead, a hand quiet long enough is reset ...
Escalates_OpenOnly(quiet) == portOpen /\ quiet >= EscalateTicks   \* mutant: a dead port is not
Escalates(quiet) == ~portOpen \/ quiet >= EscalateTicks

Tick ==
  /\ requested < ServeTicks                        \* the read thread is in time,
  /\ portOpen => silentFor < DeadlineTicks         \* and so is its deadline
  /\ \E lively \in Lively :
       LET nudges == ~lively /\ Quiet /\ NudgeDue
           resets == /\ nudges
                     /\ Escalates(Older(quietFor, EscalateTicks))
                     /\ ~Throttled(Older(resetAgo, ThrottleTicks))
       IN  /\ wd_active' = (wd_active \/ (lively /\ target))
           /\ quietFor' = IF lively THEN 0 ELSE Older(quietFor, EscalateTicks)
           /\ nudgedAgo' = IF nudges THEN 0 ELSE Older(nudgedAgo, NudgeTicks)
           /\ resetAgo' = IF resets THEN 0 ELSE Older(resetAgo, ThrottleTicks)
           /\ nudge' = (nudge \/ (nudges /\ portOpen))
           /\ requested' = IF requested > 0 \/ resets THEN requested + 1 ELSE 0
  /\ silentFor' = IF portOpen /\ stream \in {"stalled", "deaf"} THEN silentFor + 1 ELSE 0
  /\ acquiring' = IF acquiring > 0 THEN acquiring - 1 ELSE 0
  /\ frames' = IF stream = "live" THEN "all" ELSE "none"
  /\ UNCHANGED <<target, portOpen, glove, stream, wasReset>>

-----------------------------------------------------------------------------
(* The read thread, and the port under it.                                  *)

\* A read without a byte runs into its deadline, and the port is given up.
PortDies ==
  /\ portOpen /\ silentFor > 0
  /\ portOpen' = FALSE /\ silentFor' = 0 /\ nudge' = FALSE
  /\ UNCHANGED <<target, watchVars, requested, radioVars>>

\* The port is opened again, which resets the receiver: it listens for gloves.
Restarted ==
  /\ portOpen' = TRUE /\ silentFor' = 0 /\ nudge' = FALSE
  /\ stream' = "ready" /\ acquiring' = AcquireTicks
  /\ frames' = IF frames = "all" THEN "some" ELSE frames

\* A requested reset is served, or fails to open the port again.
ServeReset ==
  /\ requested > 0
  /\ requested' = 0
  /\ Restarted
  /\ wasReset' = TRUE
  /\ UNCHANGED <<target, watchVars, glove>>

ServeResetFails ==
  /\ requested > 0
  /\ requested' = 0
  /\ portOpen' = FALSE /\ silentFor' = 0 /\ nudge' = FALSE
  /\ UNCHANGED <<target, watchVars, radioVars>>

\* The receiver is plugged in again, and hotplug opens its port.
Replug ==
  /\ ~portOpen
  /\ Restarted
  /\ wasReset' = FALSE
  /\ UNCHANGED <<target, watchVars, requested, glove>>

-----------------------------------------------------------------------------
(* The receiver and the glove (external).  A receiver that is ready for a     *)
(* glove sends its link state all along.                                     *)

SwitchGlove ==
  /\ glove' = ~glove
  /\ stream' = IF glove /\ stream \in {"live", "stalled"} THEN "deaf" ELSE stream
  /\ frames' = IF frames = "all" THEN "some" ELSE frames
  /\ UNCHANGED <<target, watchVars, portVars, acquiring, wasReset>>

\* A receiver that is ready finds the glove, and the core hears of it.  The
\* stream starts, or its StartData is lost or not sent: the core may still think
\* it linked.
Link(starts) ==
  /\ stream = "ready" /\ acquiring = 0
  /\ glove /\ portOpen
  /\ target' = TRUE
  /\ stream' = IF starts THEN "live" ELSE "stalled"
  /\ frames' = IF starts THEN "some" ELSE frames
  /\ silentFor' = 0
  /\ UNCHANGED <<watchVars, portOpen, nudge, requested, glove, acquiring, wasReset>>

Stall ==
  /\ stream = "live"
  /\ stream' = "stalled"
  /\ frames' = "some"
  /\ UNCHANGED <<target, watchVars, portVars, glove, acquiring, wasReset>>

\* A stalled receiver still sends a packet now and then.  It ends a read, so
\* that a waiting nudge is written, and may start the stream again.
Trickle(starts) ==
  /\ stream \in {"stalled", "deaf"} /\ portOpen
  /\ starts => nudge /\ stream = "stalled"
  /\ silentFor' = 0 /\ nudge' = FALSE
  /\ stream' = IF starts THEN "live" ELSE stream
  /\ frames' = IF starts THEN "some" ELSE frames
  /\ UNCHANGED <<target, watchVars, portOpen, requested, glove, acquiring, wasReset>>

\* A stall ends by itself.
Resume ==
  /\ stream = "stalled" /\ portOpen
  /\ stream' = "live"
  /\ frames' = "some"
  /\ silentFor' = 0 /\ nudge' = FALSE
  /\ UNCHANGED <<target, watchVars, portOpen, requested, glove, acquiring, wasReset>>

Environment ==
  \/ SwitchGlove \/ Stall \/ Resume \/ Replug \/ ServeResetFails
  \/ \E starts \in BOOLEAN : Link(starts) \/ Trickle(starts)

WatchdogNext == Tick \/ PortDies \/ ServeReset \/ Environment

WatchdogSpec == WatchdogInit /\ [][WatchdogNext]_watchdogVars

(* The main loop and the read thread run; of resets and of links that could   *)
(* succeed again and again, some do; a nudge that is written again and again  *)
(* starts the stream some time.                                             *)
WatchdogFairSpec ==
  /\ WatchdogSpec
  /\ WF_watchdogVars(Tick) /\ WF_watchdogVars(PortDies)
  /\ SF_watchdogVars(ServeReset) /\ SF_watchdogVars(Link(TRUE)) /\ SF_watchdogVars(Trickle(TRUE))

-----------------------------------------------------------------------------
\* A watched hand whose glove stays on streams again, whatever it was that
\* stopped it: a stall, a glove switched off and on, a dead port, a reset that
\* failed (903-961).
Recovers == wd_active /\ glove ~> stream = "live" \/ ~glove

\* The resets are "throttled so the receiver gets time to re-acquire" (949):
\* none reaches a receiver that an earlier one has sent looking for its glove.
LeftToAcquire ==
  [][requested > 0 /\ requested' = 0 /\ portOpen' => ~wasReset \/ acquiring = 0]_watchdogVars
=============================================================================
