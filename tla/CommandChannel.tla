--------------------------- MODULE CommandChannel ---------------------------
(***************************************************************************)
(* The mailbox through which a control app commands the server              *)
(* (shm/udcap_shm.h:46-47, 281-286, and the main thread of                  *)
(* server/udcap_server.cpp).  The app is not part of the repository; what    *)
(* it does is what the header asks of it.                                   *)
(*                                                                          *)
(*  - The app writes cmd_code, then bumps cmd_seq, and waits for            *)
(*    cmd_ack = cmd_seq before it sends the next command.                   *)
(*  - The server takes the cmd_seq it finds when its loop begins as handled. *)
(*    Each turn of the loop loads cmd_seq, and when it is not the last one   *)
(*    handled reads cmd_code, executes it and stores cmd_ack.               *)
(*                                                                          *)
(* cmd_arg and cmd_arg2 travel with cmd_code.                               *)
(***************************************************************************)
EXTENDS Naturals, Sequences

CONSTANTS Codes,      \* the commands
          SeqMod,     \* cmd_seq is an unsigned modulo SeqMod (2^32)
          MaxPosts    \* bound of the model: commands the app sends

\* What a module that composes this one has to assume of the constants.
ConstantsOK == SeqMod \in Nat \ {0, 1} /\ MaxPosts \in Nat

VARIABLES
  cmd_seq, cmd_code, cmd_ack,   \* in the segment
  sending,    \* the app has written cmd_code and is about to bump cmd_seq
  pc,         \* where the main thread is
  last_cmd, cs, code,           \* its locals
  posted,     \* history: commands whose cmd_seq the app has bumped
  executed    \* history: commands the server has executed

segmentVars == <<cmd_seq, cmd_code, cmd_ack>>
localVars   == <<last_cmd, cs, code>>
vars == <<segmentVars, sending, pc, localVars, posted, executed>>

Succ_NoWrap(n) == n + 1   \* mutant: the width of cmd_seq is forgotten
Succ(n) == (n + 1) % SeqMod

\* Every variable has its type; cmd_seq and its copies stay within SeqMod.
TypeOK ==
  /\ {cmd_seq, cmd_ack, last_cmd, cs} \subseteq 0 .. SeqMod - 1
  /\ {cmd_code, code} \subseteq Codes \cup {0}
  /\ sending \in BOOLEAN
  /\ pc \in {"starting", "resumed", "poll", "read", "execute", "acknowledge"}
  /\ {posted, executed} \subseteq Seq(Codes)

\* The server has just created the segment: all zeros.
Init ==
  /\ cmd_seq = 0 /\ cmd_code = 0 /\ cmd_ack = 0
  /\ sending = FALSE
  /\ pc = "starting"
  /\ last_cmd = 0 /\ cs = 0 /\ code = 0
  /\ posted = <<>> /\ executed = <<>>

-----------------------------------------------------------------------------
(* The app (external).                                                      *)

WriteCode(c) ==
  /\ ~sending
  /\ cmd_ack = cmd_seq
  /\ Len(posted) < MaxPosts
  /\ cmd_code' = c
  /\ sending' = TRUE
  /\ UNCHANGED <<cmd_seq, cmd_ack, pc, localVars, posted, executed>>

BumpSeq ==
  /\ sending
  /\ cmd_seq' = Succ(cmd_seq)
  /\ posted' = Append(posted, cmd_code)
  /\ sending' = FALSE
  /\ UNCHANGED <<cmd_code, cmd_ack, pc, localVars, executed>>

-----------------------------------------------------------------------------
(* The server's main thread.                                                *)

\* Before the loop: whatever is there counts as handled.
TakeOver ==
  /\ pc = "starting"
  /\ last_cmd' = cmd_seq
  /\ pc' = "resumed"
  /\ UNCHANGED <<segmentVars, sending, cs, code, posted, executed>>

AckTaken ==
  /\ pc = "resumed"
  /\ cmd_ack' = last_cmd
  /\ pc' = "poll"
  /\ UNCHANGED <<cmd_seq, cmd_code, sending, localVars, posted, executed>>

Forget_Last == last_cmd   \* mutant: the command is not marked as handled
Forget == cs'

Poll ==
  /\ pc = "poll"
  /\ cs' = cmd_seq
  /\ cs' # last_cmd
  /\ last_cmd' = Forget
  /\ pc' = "read"
  /\ UNCHANGED <<segmentVars, sending, code, posted, executed>>

ReadCode ==
  /\ pc = "read"
  /\ code' = cmd_code
  /\ pc' = "execute"
  /\ UNCHANGED <<segmentVars, sending, last_cmd, cs, posted, executed>>

Execute ==
  /\ pc = "execute"
  /\ executed' = Append(executed, code)
  /\ pc' = "acknowledge"
  /\ UNCHANGED <<segmentVars, sending, localVars, posted>>

Acknowledge ==
  /\ pc = "acknowledge"
  /\ cmd_ack' = cs
  /\ pc' = "poll"
  /\ UNCHANGED <<cmd_seq, cmd_code, sending, localVars, posted, executed>>

Server == TakeOver \/ AckTaken \/ Poll \/ ReadCode \/ Execute \/ Acknowledge

-----------------------------------------------------------------------------
(* The app finds the segment once the loop is running.  (A command posted    *)
(* earlier, while the server still probes ports, waits for gloves to link    *)
(* and calibrates, is what TakeOver and AckTaken acknowledge unexecuted.)    *)

InLoop == pc \notin {"starting", "resumed"}

App == BumpSeq \/ (InLoop /\ \E c \in Codes : WriteCode(c))

Next == Server \/ App
Spec == Init /\ [][Next]_vars /\ WF_vars(Server)

-----------------------------------------------------------------------------
\* The channel keeps what CommandQueue promises, with every wrap of cmd_seq:
\* each command once, in order, acknowledged after its execution.
Queue == INSTANCE CommandQueue WITH
           acked <- IF cmd_ack = cmd_seq THEN Len(posted) ELSE Len(posted) - 1
ImplementsQueue == Queue!Spec
=============================================================================
