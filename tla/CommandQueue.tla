---------------------------- MODULE CommandQueue ----------------------------
(***************************************************************************)
(* What the command channel promises a control app that sends one command   *)
(* at a time (shm/udcap_shm.h:46-47, 281-282): every command posted is       *)
(* executed once, in order, and acknowledged after it has been executed.     *)
(* CommandChannel shows when the mailbox in shared memory keeps it.         *)
(***************************************************************************)
EXTENDS Naturals, Sequences

CONSTANTS Codes, MaxPosts

VARIABLES posted,     \* commands posted so far
          executed,   \* commands executed so far
          acked       \* how many of the posted are acknowledged

vars == <<posted, executed, acked>>

Init == posted = <<>> /\ executed = <<>> /\ acked = 0

Post(c) ==
  /\ acked = Len(posted)
  /\ Len(posted) < MaxPosts
  /\ posted' = Append(posted, c)
  /\ UNCHANGED <<executed, acked>>

Execute ==
  /\ Len(executed) < Len(posted)
  /\ executed' = Append(executed, posted[Len(executed) + 1])
  /\ UNCHANGED <<posted, acked>>

Acknowledge ==
  /\ acked < Len(executed)
  /\ acked' = Len(executed)
  /\ UNCHANGED <<posted, executed>>

Next == (\E c \in Codes : Post(c)) \/ Execute \/ Acknowledge

Spec == Init /\ [][Next]_vars /\ WF_vars(Execute) /\ WF_vars(Acknowledge)
=============================================================================
