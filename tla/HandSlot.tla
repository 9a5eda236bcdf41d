----------------------------- MODULE HandSlot -----------------------------
(***************************************************************************)
(* One hand slot of the shared-memory segment and its seqlock               *)
(* (shm/udcap_shm.h), with the writer and readers the code has:             *)
(*                                                                          *)
(*  - EventLoop, the core's event-loop thread, runs the listener callback   *)
(*    of server/udcap_server.cpp, which ends in publish(): the whole        *)
(*    payload is copied in under udcap_write_begin / udcap_write_end.  The   *)
(*    port's connection callbacks reach the listener too, on other threads,  *)
(*    but callListenCallback holds the core's callbackMutex throughout, so   *)
(*    EventLoop stands for whichever thread holds it;                        *)
(*  - the server's main thread does nothing to the slot while it is up:      *)
(*    SegmentLife adds what it does when it stops, and the servers before     *)
(*    and after it;                                                         *)
(*  - Readers run the snapshot loop of steamvr/src/shm_reader.h.            *)
(*                                                                          *)
(* A memcpy moves the words of the payload in any order, one at a time.     *)
(* `h->seq + 1` is a load and then a store, as in the code.  The fences of  *)
(* the helpers order those steps, so interleaving them is enough: the       *)
(* first store of seq comes before the words, the last one after them, and  *)
(* a reader's second load of seq after its copy.                            *)
(***************************************************************************)
EXTENDS Integers

CONSTANTS Readers,
          Words,         \* the words of the payload
          Vals, Zero,    \* what a word holds; memset leaves Zero
          Shadows,       \* the payloads the listener's shadow takes
          SeqMod         \* seq is an unsigned modulo SeqMod (2^32)

ASSUME ZeroAssumption   == Zero \in Vals
ASSUME ShadowsAssumption == Shadows \subseteq [Words -> Vals]
ASSUME SeqModAssumption == SeqMod \in Nat /\ SeqMod >= 2 /\ SeqMod % 2 = 0

VARIABLES
  seq,      \* udcap_hand.seq
  mem,      \* the payload words of the slot
  wpc,      \* where the writer is in begin / memcpy / end
  wseq,     \* the seq it loaded, before it stores seq + 1
  src,      \* the payload publish() was called with
  todo,     \* words it has not copied yet
  rpc,      \* reader -> where it is in the snapshot loop
  start,    \* reader -> the seq udcap_read_begin returned
  left,     \* reader -> words it has not copied yet
  buf,      \* reader -> its private copy
  out,      \* reader -> the last copy udcap_read_retry accepted
  stable,   \* history: the payload when no publish was in progress
  laps      \* history: stores to seq since the reader's read_begin

slotVars   == <<seq, mem>>
writerVars == <<wpc, wseq, src, todo>>
readerVars == <<rpc, start, left, buf, out>>
vars       == <<slotVars, writerVars, readerVars, stable, laps>>

Payloads == [Words -> Vals]
ZeroPayload == [k \in Words |-> Zero]

Succ_NoWrap(n) == n + 1   \* mutant: the width of seq is forgotten
Succ(n) == IF n = SeqMod - 1 THEN 0 ELSE n + 1
IsOdd(n) == n % 2 = 1

Reading(r) == rpc[r] \in {"copy", "check"}

\* Every variable has its type; seq and the loads of it stay within SeqMod.
TypeOK ==
  /\ seq \in 0 .. SeqMod - 1
  /\ mem \in Payloads
  /\ wpc \in {"idle", "open", "copy", "close"}
  /\ wseq \in 0 .. SeqMod - 1
  /\ src \in Payloads
  /\ todo \subseteq Words
  /\ rpc \in [Readers -> {"idle", "begin", "copy", "check"}]
  /\ start \in [Readers -> 0 .. SeqMod - 1]
  /\ left \in [Readers -> SUBSET Words]
  /\ buf \in [Readers -> Payloads]
  /\ out \in [Readers -> Payloads]
  /\ stable \in Payloads
  /\ laps \in [Readers -> 0 .. SeqMod - 1]

Init ==
  /\ seq = 0
  /\ mem = ZeroPayload
  /\ wpc = "idle"
  /\ wseq = 0
  /\ src = ZeroPayload
  /\ todo = {}
  /\ rpc = [r \in Readers |-> "idle"]
  /\ start = [r \in Readers |-> 0]
  /\ left = [r \in Readers |-> {}]
  /\ buf = [r \in Readers |-> ZeroPayload]
  /\ out = [r \in Readers |-> ZeroPayload]
  /\ stable = ZeroPayload
  /\ laps = [r \in Readers |-> 0]

-----------------------------------------------------------------------------
(* The writer.  The bound of the model: seq comes round again only after    *)
(* SeqMod stores, and no reader is assumed to sleep through all of them.    *)

NoReaderLapped == \A r \in Readers : Reading(r) => laps[r] < SeqMod - 1

StoreSeq ==
  /\ NoReaderLapped
  /\ seq' = Succ(wseq)
  /\ laps' = [r \in Readers |-> IF Reading(r) THEN laps[r] + 1 ELSE laps[r]]

\* udcap_write_begin loads seq; the writer is about to copy p.
WriteBeginLoad(p) ==
  /\ wpc = "idle"
  /\ wpc' = "open"
  /\ wseq' = seq
  /\ src' = p
  /\ todo' = Words
  /\ UNCHANGED <<slotVars, readerVars, stable, laps>>

WriteBeginStore ==
  /\ wpc = "open"
  /\ StoreSeq
  /\ wpc' = "copy"
  /\ UNCHANGED <<mem, wseq, src, todo, readerVars, stable>>

CopyWord(k) ==
  /\ wpc = "copy"
  /\ k \in todo
  /\ mem' = [mem EXCEPT ![k] = src[k]]
  /\ todo' = todo \ {k}
  /\ UNCHANGED <<seq, wpc, wseq, src, readerVars, stable, laps>>

WriteEndLoad ==
  /\ wpc = "copy"
  /\ todo = {}
  /\ wpc' = "close"
  /\ wseq' = seq
  /\ UNCHANGED <<slotVars, src, todo, readerVars, stable, laps>>

WriteEndStore ==
  /\ wpc = "close"
  /\ StoreSeq
  /\ wpc' = "idle"
  /\ stable' = mem
  /\ wseq' = 0 /\ src' = ZeroPayload   \* publish() has returned
  /\ UNCHANGED <<mem, todo, readerVars>>

WriteStep ==
  \/ WriteBeginStore
  \/ \E k \in Words : CopyWord(k)
  \/ WriteEndLoad
  \/ WriteEndStore

\* publish(): the listener has just updated its shadow to p.
Publish == \E p \in Shadows : WriteBeginLoad(p)

-----------------------------------------------------------------------------
(* The snapshot loop of UdcapShmReader::read_hand.                          *)

StartRead(r) ==
  /\ rpc[r] = "idle"
  /\ rpc' = [rpc EXCEPT ![r] = "begin"]
  /\ UNCHANGED <<slotVars, writerVars, start, left, buf, out, stable, laps>>

\* udcap_read_begin: the reader spins while seq is odd.
SlotQuiet_Ignored == TRUE   \* mutant: the reader does not wait for even
SlotQuiet == ~IsOdd(seq)

ReadBegin(r) ==
  /\ rpc[r] = "begin"
  /\ SlotQuiet
  /\ rpc' = [rpc EXCEPT ![r] = "copy"]
  /\ start' = [start EXCEPT ![r] = seq]
  /\ left' = [left EXCEPT ![r] = Words]
  /\ laps' = [laps EXCEPT ![r] = 0]
  /\ UNCHANGED <<slotVars, writerVars, buf, out, stable>>

ReadWord(r, k) ==
  /\ rpc[r] = "copy"
  /\ k \in left[r]
  /\ buf' = [buf EXCEPT ![r][k] = mem[k]]
  /\ left' = [left EXCEPT ![r] = @ \ {k}]
  /\ UNCHANGED <<slotVars, writerVars, rpc, start, out, stable, laps>>

ReadDone(r) ==
  /\ rpc[r] = "copy"
  /\ left[r] = {}
  /\ rpc' = [rpc EXCEPT ![r] = "check"]
  /\ UNCHANGED <<slotVars, writerVars, start, left, buf, out, stable, laps>>

\* udcap_read_retry: accept the copy, or go round again.
SameSeq_Trusted(r) == TRUE   \* mutant: the copy is never checked
SameSeq(r) == seq = start[r]

\* After either answer nothing reads the copy and its seq again.
ForgetCopy(r) ==
  /\ start' = [start EXCEPT ![r] = 0]
  /\ buf' = [buf EXCEPT ![r] = ZeroPayload]
  /\ laps' = [laps EXCEPT ![r] = 0]

Accept(r) ==
  /\ rpc[r] = "check"
  /\ SameSeq(r)
  /\ rpc' = [rpc EXCEPT ![r] = "idle"]
  /\ out' = [out EXCEPT ![r] = buf[r]]
  /\ ForgetCopy(r)
  /\ UNCHANGED <<slotVars, writerVars, left, stable>>

Retry(r) ==
  /\ rpc[r] = "check"
  /\ ~SameSeq(r)
  /\ rpc' = [rpc EXCEPT ![r] = "begin"]
  /\ ForgetCopy(r)
  /\ UNCHANGED <<slotVars, writerVars, left, out, stable>>

ReadStep(r) ==
  \/ ReadBegin(r)
  \/ \E k \in Words : ReadWord(r, k)
  \/ ReadDone(r)
  \/ Accept(r)
  \/ Retry(r)

-----------------------------------------------------------------------------
Next ==
  \/ Publish
  \/ WriteStep
  \/ \E r \in Readers : StartRead(r) \/ ReadStep(r)

Spec == Init /\ [][Next]_vars

-----------------------------------------------------------------------------
(* What the slot promises.                                                  *)

\* A writer brackets its update with seq odd -> even (udcap_shm.h:154): while
\* the writer copies words, or has yet to store the closing seq, seq is odd.
Bracketed == wpc \in {"copy", "close"} => IsOdd(seq)

\* The copy a reader is about to accept is the payload as the last finished
\* publish left it: never torn, never older (udcap_read_retry).
Snapshot ==
  \A r \in Readers : rpc[r] = "check" /\ seq = start[r] => buf[r] = stable

\* The slot implements an atomic register.
Register == INSTANCE HandRegister WITH
              payload <- stable, Zero <- ZeroPayload
ImplementsRegister == Register!Spec

(* The inductive invariant behind Bracketed and Snapshot. *)
Distance(m, n) == IF n >= m THEN n - m ELSE n - m + SeqMod

WriterInv ==
  /\ IsOdd(seq) <=> wpc \in {"copy", "close"}
  /\ wpc \in {"open", "close"} => wseq = seq
  /\ wpc \in {"idle", "open"} => mem = stable

ReaderInv ==
  \A r \in Readers :
    Reading(r) =>
      /\ ~IsOdd(start[r])
      /\ laps[r] = Distance(start[r], seq)
      /\ laps[r] = 0 => \A k \in Words \ left[r] : buf[r][k] = stable[k]
      /\ rpc[r] = "check" => left[r] = {}

\* What the publisher and each reader may rely on at any step (udcap_shm.h:317-348).
IInv == TypeOK /\ WriterInv /\ ReaderInv
=============================================================================
