---------------------------- MODULE SegmentLife ----------------------------
(***************************************************************************)
(* The life of the shared-memory segment around the seqlock of HandSlot:     *)
(*                                                                          *)
(*  - a server stops: its main thread clears the slot under the same helpers  *)
(*    as publish(), while the event loop still runs (udcap_server.cpp:967-     *)
(*    977), and then clears server_pid;                                      *)
(*  - a server dies at any step and leaves the segment as it is, also with   *)
(*    an odd seq;                                                           *)
(*  - the next server's shm_setup (110-136) maps the same segment and wipes   *)
(*    it with memset, outside the seqlock and in no particular order;         *)
(*  - readers map the segment once, check its magic then and never again     *)
(*    (shm_reader.h:25-45), and read over all of this.                       *)
(*                                                                          *)
(* What a read promises therefore depends on whom it met.  The histories      *)
(* `disturbed` and `spoiled` name the reads that ran beside two writers, or   *)
(* beside memset; every other read is a read of the register HandRegister.    *)
(* Simplifications: one server at a time; the segment exists from the start;  *)
(* every server is of the readers' version.                                  *)
(***************************************************************************)
EXTENDS HandSlot

CONSTANT Cleared   \* the words the main thread clears at the end: present, link

ASSUME ClearedAssumption == Cleared \subseteq Words

VARIABLES
  life,       \* "up", "stopping", "stopped", "dead", or "making" in shm_setup
  mpc,        \* where the main thread is in its own write of the slot
  mseq,       \* the seq it loaded, before it stores seq + 1
  mtodo,      \* the words it has not cleared, or wiped, yet
  markLeft,   \* memset has yet to reach seq
  magic,      \* the segment says that it is set up
  mapped,     \* the readers that have the segment mapped
  disturbed,  \* history: the slot has had two writers at once, or is being wiped
  spoiled     \* history: readers whose present copy met a disturbed slot

mainVars == <<mpc, mseq, mtodo, markLeft, magic>>
lifeVars == <<life, mainVars, mapped>>
lvars    == <<vars, lifeVars, disturbed, spoiled>>

Alive    == life \in {"up", "stopping"}
Clearing == mpc \in {"open", "clear", "close"}

LifeTypeOK ==
  /\ TypeOK
  /\ life \in {"up", "stopping", "stopped", "dead", "making"}
  /\ mpc \in {"idle", "open", "clear", "close", "done"}
  /\ mseq \in 0 .. SeqMod - 1
  /\ mtodo \subseteq Words
  /\ markLeft \in BOOLEAN
  /\ magic \in BOOLEAN
  /\ mapped \subseteq Readers
  /\ disturbed \in BOOLEAN
  /\ spoiled \subseteq Readers

LifeInit ==
  /\ Init
  /\ life = "up"
  /\ mpc = "idle"
  /\ mseq = 0
  /\ mtodo = {}
  /\ markLeft = FALSE
  /\ magic = TRUE
  /\ mapped = {}
  /\ disturbed = FALSE
  /\ spoiled = {}

-----------------------------------------------------------------------------
(* The histories, observed at every step.                                   *)

\* From the first step that two writers share, or that memset takes, until
\* the next server has set the segment up.
Disturbs == life = "making" \/ (wpc # "idle" /\ Clearing)

Observe ==
  /\ disturbed' = (Disturbs' \/ (disturbed /\ ~(life = "making" /\ life' = "up")))
  /\ spoiled' = {r \in Readers :
                   Reading(r)' /\ (disturbed' \/ (Reading(r) /\ r \in spoiled))}

-----------------------------------------------------------------------------
(* The end of a server.                                                     *)

\* The main loop has seen g_stop; udcap_write_begin loads seq.
Stop ==
  /\ life = "up"
  /\ life' = "stopping"
  /\ mpc' = "open"
  /\ mseq' = seq
  /\ mtodo' = Cleared
  /\ UNCHANGED <<vars, markLeft, magic, mapped>>

\* A store of seq + 1 by the main thread, as StoreSeq is one by the event loop.
MainStoresSeq ==
  /\ NoReaderLapped
  /\ seq' = Succ(mseq)
  /\ laps' = [r \in Readers |-> IF Reading(r) THEN laps[r] + 1 ELSE laps[r]]

ClearBegin ==
  /\ life = "stopping" /\ mpc = "open"
  /\ MainStoresSeq
  /\ mpc' = "clear"
  /\ UNCHANGED <<mem, writerVars, readerVars, stable>>
  /\ UNCHANGED <<life, mseq, mtodo, markLeft, magic, mapped>>

\* H->present = 0, H->link = UDCAP_LINK_NOT_CONNECTED.
ClearWord(k) ==
  /\ life = "stopping" /\ mpc = "clear"
  /\ k \in mtodo
  /\ mem' = [mem EXCEPT ![k] = Zero]
  /\ mtodo' = mtodo \ {k}
  /\ UNCHANGED <<seq, writerVars, readerVars, stable, laps>>
  /\ UNCHANGED <<life, mpc, mseq, markLeft, magic, mapped>>

ClearLoad ==
  /\ life = "stopping" /\ mpc = "clear"
  /\ mtodo = {}
  /\ mpc' = "close"
  /\ mseq' = seq
  /\ UNCHANGED <<vars, life, mtodo, markLeft, magic, mapped>>

ClearEnd ==
  /\ life = "stopping" /\ mpc = "close"
  /\ MainStoresSeq
  /\ mpc' = "done" /\ mseq' = 0
  /\ stable' = mem
  /\ UNCHANGED <<mem, writerVars, readerVars>>
  /\ UNCHANGED <<life, mtodo, markLeft, magic, mapped>>

\* unlisten() waits for the callback that is running, and the cores go.
Exit ==
  /\ life = "stopping" /\ mpc = "done" /\ wpc = "idle"
  /\ life' = "stopped"
  /\ mpc' = "idle"
  /\ UNCHANGED <<vars, mseq, mtodo, markLeft, magic, mapped>>

\* The process is killed.  wpc and mpc tell where its threads were.
Die ==
  /\ life \in {"up", "stopping", "making"}
  /\ life' = "dead"
  /\ wseq' = 0 /\ src' = ZeroPayload /\ todo' = {}
  /\ mseq' = 0 /\ mtodo' = {} /\ markLeft' = FALSE
  /\ UNCHANGED <<slotVars, wpc, readerVars, stable, laps>>
  /\ UNCHANGED <<mpc, magic, mapped>>

-----------------------------------------------------------------------------
(* shm_setup of the next server, a new process, on the segment the last one   *)
(* left.                                                                    *)

\* mmap, and memset's first words: magic, version and server_pid.
BeginSetup ==
  /\ life \in {"stopped", "dead"}
  /\ life' = "making"
  /\ magic' = FALSE
  /\ markLeft' = TRUE
  /\ mtodo' = Words
  /\ wpc' = "idle" /\ mpc' = "idle"
  /\ UNCHANGED <<slotVars, wseq, src, todo, readerVars, stable, laps>>
  /\ UNCHANGED <<mseq, mapped>>

Wiped_Not == seq   \* mutant: the wipe spares seq
Wiped == 0

WipeMark ==
  /\ life = "making"
  /\ markLeft
  /\ seq' = Wiped
  /\ markLeft' = FALSE
  /\ UNCHANGED <<mem, writerVars, readerVars, stable, laps>>
  /\ UNCHANGED <<life, mpc, mseq, mtodo, magic, mapped>>

WipeWord(k) ==
  /\ life = "making"
  /\ k \in mtodo
  /\ mem' = [mem EXCEPT ![k] = Zero]
  /\ mtodo' = mtodo \ {k}
  /\ UNCHANGED <<seq, writerVars, readerVars, stable, laps>>
  /\ UNCHANGED <<life, mpc, mseq, markLeft, magic, mapped>>

EndSetup ==
  /\ life = "making"
  /\ ~markLeft /\ mtodo = {}
  /\ life' = "up"
  /\ magic' = TRUE
  /\ stable' = mem
  /\ UNCHANGED <<slotVars, writerVars, readerVars, laps>>
  /\ UNCHANGED <<mpc, mseq, mtodo, markLeft, mapped>>

MainThread ==
  \/ Stop
  \/ ClearBegin
  \/ \E k \in Words : ClearWord(k)
  \/ ClearLoad
  \/ ClearEnd
  \/ Exit

Setup ==
  \/ WipeMark
  \/ \E k \in Words : WipeWord(k)
  \/ EndSetup

-----------------------------------------------------------------------------
(* The event loop of a live server, and the readers.                        *)

EventLoop ==
  /\ Alive
  /\ Publish \/ WriteStep
  /\ UNCHANGED <<lifeVars>>

\* UdcapShmReader::open: once it has the segment it never looks at magic again.
Open(r) ==
  /\ r \notin mapped
  /\ magic
  /\ mapped' = mapped \cup {r}
  /\ UNCHANGED <<vars, life, mainVars>>

\* Accept of a spoiled copy: `out` keeps the copies that promise something.
AcceptSpoiled(r) ==
  /\ r \in spoiled
  /\ rpc[r] = "check"
  /\ SameSeq(r)
  /\ rpc' = [rpc EXCEPT ![r] = "idle"]
  /\ ForgetCopy(r)
  /\ UNCHANGED <<slotVars, writerVars, left, out, stable>>

\* read_hand, by run_frame for the inputs whether the server is live or not.
Reader(r) ==
  /\ r \in mapped
  /\ \/ StartRead(r)
     \/ ReadStep(r) /\ ~(rpc[r] = "check" /\ SameSeq(r) /\ r \in spoiled)
     \/ AcceptSpoiled(r)
  /\ UNCHANGED lifeVars

LifeStep ==
  \/ MainThread
  \/ EventLoop
  \/ Die
  \/ BeginSetup
  \/ Setup
  \/ \E r \in Readers : Open(r) \/ Reader(r)

LifeNext == LifeStep /\ Observe

LifeSpec == LifeInit /\ [][LifeNext]_lvars

(* Each thread that is alive is scheduled.  No server is obliged to publish, *)
(* to stop or to come back.                                                 *)
LifeFairness ==
  /\ WF_lvars(MainThread /\ life = "stopping" /\ Observe)
  /\ WF_lvars(Alive /\ WriteStep /\ UNCHANGED <<lifeVars>> /\ Observe)
  /\ WF_lvars(Setup /\ Observe)
  /\ \A r \in Readers : WF_lvars(Reader(r) /\ rpc[r] # "idle" /\ Observe)

LifeFairSpec == LifeSpec /\ LifeFairness

-----------------------------------------------------------------------------
(* What the segment promises over the lives of its servers.                  *)

\* Readers get a consistent snapshot (udcap_shm.h:7-8): a copy about to be
\* accepted is the last payload written in full, unless it was taken while two
\* threads of the server, or memset, were in the slot.  A server that died
\* inside publish hands no reader its half.
UnspoiledSnapshot ==
  \A r \in Readers \ spoiled :
    rpc[r] = "check" /\ seq = start[r] => buf[r] = stable

\* Over stops, deaths and restarts the slot is one atomic register: the close of
\* a publish, the clearing at the end and the next shm_setup write it.
LifeRegister == INSTANCE HandRegister WITH
                  payload <- stable, Zero <- ZeroPayload
ImplementsLifeRegister == LifeRegister!Spec

\* A reader left spinning on the odd seq of a server that died is freed by the
\* next server that stays (memset takes seq back to 0, udcap_server.cpp:130).
ReadersFreed ==
  \A r \in Readers :
    <>[](life = "up" /\ wpc = "idle") => (rpc[r] # "idle" ~> rpc[r] = "idle")

\* "odd = being written" (udcap_shm.h:159), of a server that has not died.
OddMeansWriting ==
  IsOdd(seq) /\ life # "dead" =>
    wpc # "idle" \/ Clearing \/ life = "making"

(* The inductive invariant behind UnspoiledSnapshot. *)

\* One writer is in the slot at a time, and it keeps the seqlock's protocol.
Orderly ==
  /\ life # "making"
  /\ wpc = "idle" \/ ~Clearing
  /\ IsOdd(seq) <=> wpc \in {"copy", "close"} \/ mpc \in {"clear", "close"}
  /\ Alive /\ wpc \in {"open", "close"} => wseq = seq
  /\ Alive /\ mpc \in {"open", "close"} => mseq = seq
  /\ wpc \in {"idle", "open"} /\ mpc \notin {"clear", "close"} => mem = stable

\* While memset runs, what it has reached is zero and nobody else writes.
Making ==
  /\ wpc = "idle" /\ mpc = "idle"
  /\ \A k \in Words \ mtodo : mem[k] = Zero
  /\ ~markLeft => seq = 0

\* A copy that is not spoiled has met nobody but the one writer.
Unspoiled(r) ==
  /\ ~disturbed
  /\ ~IsOdd(start[r])
  /\ laps[r] = Distance(start[r], seq)
  /\ laps[r] = 0 => \A k \in Words \ left[r] : buf[r][k] = stable[k]
  /\ rpc[r] = "check" => left[r] = {}

\* What each reader may rely on at any step of any server (udcap_shm.h:317-348).
LifeInv ==
  /\ LifeTypeOK
  /\ disturbed \/ Orderly
  /\ life = "making" => disturbed /\ Making
  /\ life \notin {"stopping", "dead"} => mpc = "idle"
  /\ \A r \in Readers \ spoiled : Reading(r) => Unspoiled(r)
=============================================================================
