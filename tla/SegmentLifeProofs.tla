------------------------- MODULE SegmentLifeProofs -------------------------
(***************************************************************************)
(* The slot under one server that keeps running, for any readers, words,      *)
(* values and even modulus of seq: no reader accepts a torn or stale copy,    *)
(* and the slot implements an atomic register.                              *)
(*                                                                          *)
(* Then the segment of SegmentLife over any number of servers and readers,   *)
(* with deaths and restarts at any step: LifeInv is inductive, so a copy that *)
(* met one writer at a time is a payload written in full, and the slot        *)
(* implements an atomic register for those copies.                          *)
(***************************************************************************)
EXTENDS SegmentLife, TLAPS

-----------------------------------------------------------------------------
(* The slot under one server that keeps running.                             *)

USE SeqModAssumption, ZeroAssumption, ShadowsAssumption

-----------------------------------------------------------------------------
(* Arithmetic of the sequence number.                                       *)

\* A store of seq + 1 stays in range and flips the parity, also at the wrap.
LEMMA SuccParity ==
  ASSUME NEW n \in 0 .. SeqMod - 1
  PROVE  /\ Succ(n) \in 0 .. SeqMod - 1
         /\ IsOdd(Succ(n)) <=> ~IsOdd(n)
BY DEF Succ, IsOdd

\* A store moves seq one further from where a reader began, unless it laps it.
LEMMA DistanceSucc ==
  ASSUME NEW m \in 0 .. SeqMod - 1, NEW n \in 0 .. SeqMod - 1,
         Distance(m, n) < SeqMod - 1
  PROVE  Distance(m, Succ(n)) = Distance(m, n) + 1
BY DEF Succ, Distance

\* seq is back at the reader's start exactly when it is no store away.
LEMMA DistanceZero ==
  ASSUME NEW m \in 0 .. SeqMod - 1, NEW n \in 0 .. SeqMod - 1
  PROVE  /\ Distance(m, n) = 0 <=> m = n
         /\ Distance(m, n) \in 0 .. SeqMod - 1
BY DEF Distance

-----------------------------------------------------------------------------
(* The inductive invariant.                                                 *)

\* What memset leaves is a payload.
LEMMA ZeroIsPayload == ZeroPayload \in Payloads
BY DEF ZeroPayload, Payloads

LEMMA InitInv == Init => IInv
<1>. SUFFICES ASSUME Init PROVE IInv
  OBVIOUS
<1>. USE ZeroAssumption DEF Init, Payloads, ZeroPayload
<1>1. TypeOK
  BY DEF TypeOK
<1>2. WriterInv
  BY DEF WriterInv, IsOdd
<1>3. ReaderInv
  BY DEF ReaderInv, Reading
<1>. QED BY <1>1, <1>2, <1>3 DEF IInv

\* A store of seq leaves every reading reader one store further from its start.
LEMMA StoreSeqStep ==
  ASSUME IInv, StoreSeq, wseq = seq
  PROVE  /\ seq' \in 0 .. SeqMod - 1
         /\ IsOdd(seq') <=> ~IsOdd(seq)
         /\ laps' \in [Readers -> 0 .. SeqMod - 1]
         /\ \A r \in Readers :
              Reading(r) => /\ laps'[r] = Distance(start[r], seq')
                            /\ laps'[r] # 0
<1>1. seq' = Succ(seq) /\ seq \in 0 .. SeqMod - 1
  BY DEF StoreSeq, IInv, TypeOK
<1>2. \A r \in Readers : laps[r] \in 0 .. SeqMod - 1
  BY DEF IInv, TypeOK
<1>3. \A r \in Readers :
        laps'[r] = IF Reading(r) THEN laps[r] + 1 ELSE laps[r]
  BY DEF StoreSeq
<1>4. laps' \in [Readers -> 0 .. SeqMod - 1]
  BY <1>2 DEF StoreSeq, NoReaderLapped
<1>5. ASSUME NEW r \in Readers, Reading(r)
      PROVE  laps'[r] = Distance(start[r], seq') /\ laps'[r] # 0
  <2>1. start[r] \in 0 .. SeqMod - 1 /\ laps[r] = Distance(start[r], seq)
    BY <1>5 DEF IInv, TypeOK, ReaderInv
  <2>2. laps[r] < SeqMod - 1
    BY <1>5 DEF StoreSeq, NoReaderLapped
  <2>3. Distance(start[r], Succ(seq)) = laps[r] + 1
    BY <1>1, <2>1, <2>2, DistanceSucc
  <2>. QED BY <1>1, <1>2, <1>3, <1>5, <2>3
<1>. QED BY <1>1, <1>4, <1>5, SuccParity

\* The event loop starts a publish.
LEMMA PublishInv == IInv /\ Publish => IInv'
<1>. SUFFICES ASSUME IInv, NEW p \in Shadows, WriteBeginLoad(p)
              PROVE  IInv'
  BY DEF Publish
<1>. USE DEF IInv, WriteBeginLoad, slotVars, readerVars
<1>1. TypeOK'
  BY DEF TypeOK, Payloads
<1>2. WriterInv'
  BY DEF WriterInv, TypeOK
<1>3. ReaderInv'
  BY DEF ReaderInv, Reading
<1>. QED BY <1>1, <1>2, <1>3

\* A reader that is reading is no further than it was, or one store further
\* and then never back at its start: it accepts nothing that was moved.
LEMMA WriterInvStep == IInv /\ WriteStep => IInv'
<1>. SUFFICES ASSUME IInv, WriteStep PROVE IInv'
  OBVIOUS
<1>. USE DEF IInv
<1>1. CASE WriteBeginStore
  <2>. USE <1>1 DEF WriteBeginStore, readerVars
  <2>1. wseq = seq
    BY DEF WriterInv
  <2>2. TypeOK'
    BY <2>1, StoreSeqStep DEF TypeOK
  <2>3. WriterInv'
    BY <2>1, StoreSeqStep DEF WriterInv, TypeOK
  <2>4. ReaderInv'
    BY <2>1, StoreSeqStep DEF ReaderInv, Reading
  <2>. QED BY <2>2, <2>3, <2>4
<1>2. CASE \E k \in Words : CopyWord(k)
  <2>1. PICK k \in Words : CopyWord(k)
    BY <1>2
  <2>. USE <2>1 DEF CopyWord, readerVars
  <2>2. TypeOK'
    <3>1. src[k] \in Vals
      BY DEF TypeOK, Payloads
    <3>. QED BY <3>1 DEF TypeOK, Payloads
  <2>3. WriterInv'
    BY DEF WriterInv, TypeOK
  <2>4. ReaderInv'
    BY DEF ReaderInv, Reading
  <2>. QED BY <2>2, <2>3, <2>4
<1>3. CASE WriteEndLoad
  <2>. USE <1>3 DEF WriteEndLoad, slotVars, readerVars
  <2>1. TypeOK'
    BY DEF TypeOK
  <2>2. WriterInv'
    BY DEF WriterInv, TypeOK
  <2>3. ReaderInv'
    BY DEF ReaderInv, Reading
  <2>. QED BY <2>1, <2>2, <2>3
<1>4. CASE WriteEndStore
  <2>. USE <1>4 DEF WriteEndStore, readerVars
  <2>1. wseq = seq
    BY DEF WriterInv
  <2>2. TypeOK'
    BY <2>1, StoreSeqStep, ZeroIsPayload DEF TypeOK
  <2>3. WriterInv'
    BY <2>1, StoreSeqStep DEF WriterInv, TypeOK
  <2>4. ReaderInv'
    BY <2>1, StoreSeqStep DEF ReaderInv, Reading
  <2>. QED BY <2>2, <2>3, <2>4
<1>. QED BY <1>1, <1>2, <1>3, <1>4 DEF WriteStep

\* A reader that begins does so on a quiet slot, and the words it copies
\* before the next store of seq are the stable ones.
LEMMA ReaderInvStep ==
  ASSUME IInv, NEW r \in Readers, StartRead(r) \/ ReadStep(r)
  PROVE  IInv'
<1>. USE DEF IInv, slotVars, writerVars
<1>1. CASE StartRead(r)
  BY <1>1 DEF StartRead, TypeOK, WriterInv, ReaderInv, Reading
<1>2. CASE ReadBegin(r)
  <2>. USE <1>2 DEF ReadBegin, SlotQuiet
  <2>1. TypeOK'
    BY DEF TypeOK
  <2>2. WriterInv'
    BY DEF WriterInv
  <2>3. Distance(seq, seq) = 0
    BY DistanceZero DEF TypeOK
  <2>4. ReaderInv'
    BY <2>3 DEF ReaderInv, Reading, TypeOK
  <2>. QED BY <2>1, <2>2, <2>4
<1>3. CASE \E k \in Words : ReadWord(r, k)
  <2>1. PICK k \in Words : ReadWord(r, k)
    BY <1>3
  <2>. USE <2>1 DEF ReadWord
  <2>2. TypeOK'
    <3>1. mem[k] \in Vals
      BY DEF TypeOK, Payloads
    <3>. QED BY <3>1 DEF TypeOK, Payloads
  <2>3. WriterInv'
    BY DEF WriterInv
  <2>4. laps[r] = 0 => mem = stable
    \* seq is the even number the reader began with, so no writer is inside
    <3>1. start[r] \in 0 .. SeqMod - 1 /\ seq \in 0 .. SeqMod - 1
      BY DEF TypeOK
    <3>2. laps[r] = 0 => ~IsOdd(seq)
      BY <3>1, DistanceZero DEF ReaderInv, Reading
    <3>3. wpc \in {"idle", "open", "copy", "close"}
      BY DEF TypeOK
    <3>. QED BY <3>2, <3>3 DEF WriterInv
  <2>5. \A k2 \in Words : buf'[r][k2] = IF k2 = k THEN mem[k] ELSE buf[r][k2]
    BY DEF TypeOK, Payloads
  <2>6. ReaderInv'
    BY <2>4, <2>5 DEF ReaderInv, Reading, TypeOK
  <2>. QED BY <2>2, <2>3, <2>6
<1>4. CASE ReadDone(r)
  BY <1>4 DEF ReadDone, TypeOK, WriterInv, ReaderInv, Reading
<1>5. CASE Accept(r)
  BY <1>5, ZeroIsPayload
     DEF Accept, ForgetCopy, TypeOK, WriterInv, ReaderInv, Reading
<1>6. CASE Retry(r)
  BY <1>6, ZeroIsPayload
     DEF Retry, ForgetCopy, TypeOK, WriterInv, ReaderInv, Reading
<1>. QED BY <1>1, <1>2, <1>3, <1>4, <1>5, <1>6 DEF ReadStep

LEMMA StepInv == IInv /\ [Next]_vars => IInv'
<1>. SUFFICES ASSUME IInv, [Next]_vars PROVE IInv'
  OBVIOUS
<1>1. CASE Publish
  BY <1>1, PublishInv
<1>2. CASE WriteStep
  BY <1>2, WriterInvStep
<1>3. CASE \E r \in Readers : StartRead(r) \/ ReadStep(r)
  BY <1>3, ReaderInvStep
<1>4. CASE UNCHANGED vars
  BY <1>4 DEF vars, slotVars, writerVars, readerVars, IInv, TypeOK,
              WriterInv, ReaderInv, Reading
<1>. QED BY <1>1, <1>2, <1>3, <1>4 DEF Next

\* The inductive invariant holds in every reachable state.
THEOREM Invariance == Spec => []IInv
<1>. QED BY InitInv, StepInv, PTL DEF Spec

-----------------------------------------------------------------------------
(* What the invariant gives.                                                *)

LEMMA InvSnapshot == IInv => Snapshot
<1>. SUFFICES ASSUME IInv, NEW r \in Readers, rpc[r] = "check", seq = start[r]
              PROVE  buf[r] = stable
  BY DEF Snapshot
<1>1. laps[r] = 0
  BY DistanceZero DEF IInv, TypeOK, ReaderInv, Reading
<1>2. left[r] = {}
  BY DEF IInv, ReaderInv, Reading
<1>3. \A k \in Words : buf[r][k] = stable[k]
  BY <1>1, <1>2 DEF IInv, ReaderInv, Reading
<1>. QED BY <1>3 DEF IInv, TypeOK, Payloads

\* udcap_read_retry accepts only the payload of the last finished publish,
\* for every even SeqMod and any number of readers and words.
THEOREM SnapshotConsistent == Spec => []Snapshot
<1>. QED BY Invariance, InvSnapshot, PTL

\* While the server runs, its one writer keeps seq odd for as long as it is
\* inside the payload.
THEOREM WritesBracketed == Spec => []Bracketed
<1>1. IInv => Bracketed
  BY DEF IInv, WriterInv, Bracketed
<1>. QED BY <1>1, Invariance, PTL

\* The seqlock implements the atomic register: a publish takes effect at its
\* closing store of seq, a read at the udcap_read_retry that accepts.
THEOREM RegisterImplemented == Spec => ImplementsRegister
<1>1. Init => Register!Init
  BY DEF Init, Register!Init
<1>2. IInv /\ [Next]_vars => [Register!Next]_<<stable, out>>
  <2>. SUFFICES ASSUME IInv, [Next]_vars PROVE [Register!Next]_<<stable, out>>
    OBVIOUS
  <2>. USE DEF slotVars, writerVars, readerVars
  <2>1. CASE Publish
    BY <2>1 DEF Publish, WriteBeginLoad
  <2>2. CASE WriteStep
    <3>1. CASE WriteEndStore
      BY <3>1 DEF WriteEndStore, IInv, TypeOK, Register!Next, Register!Publish
    <3>2. CASE WriteBeginStore \/ WriteEndLoad
               \/ \E k \in Words : CopyWord(k)
      BY <3>2 DEF WriteBeginStore, WriteEndLoad, CopyWord
    <3>. QED BY <2>2, <3>1, <3>2 DEF WriteStep
  <2>3. ASSUME NEW r \in Readers, StartRead(r) \/ ReadStep(r)
        PROVE  [Register!Next]_<<stable, out>>
    <3>1. CASE Accept(r)
      <4>1. buf[r] = stable
        BY <3>1, InvSnapshot DEF Accept, SameSeq, Snapshot
      <4>. QED BY <3>1, <4>1 DEF Accept, Register!Next, Register!Read
    <3>2. CASE ~Accept(r)
      BY <2>3, <3>2 DEF StartRead, ReadStep, ReadBegin, ReadWord, ReadDone, Retry
    <3>. QED BY <3>1, <3>2
  <2>4. CASE UNCHANGED vars
    BY <2>4 DEF vars
  <2>. QED BY <2>1, <2>2, <2>3, <2>4 DEF Next
<1>. QED BY <1>1, <1>2, Invariance, PTL DEF Spec, ImplementsRegister, Register!Spec

-----------------------------------------------------------------------------
(* The lives of servers and readers.                                        *)

USE ClearedAssumption

LEMMA LifeInitInv == LifeInit => LifeInv
<1>. SUFFICES ASSUME LifeInit PROVE LifeInv
  OBVIOUS
<1>1. TypeOK /\ WriterInv
  BY InitInv DEF LifeInit, IInv
<1>2. LifeTypeOK
  <2>1. disturbed \in BOOLEAN /\ markLeft \in BOOLEAN /\ magic \in BOOLEAN
    BY DEF LifeInit
  <2>2. /\ life = "up" /\ mpc = "idle" /\ mseq = 0
        /\ mtodo = {} /\ mapped = {} /\ spoiled = {}
    BY DEF LifeInit
  <2>. QED BY <1>1, <2>1, <2>2 DEF LifeTypeOK
<1>3. Orderly
  BY <1>1 DEF LifeInit, Init, Orderly, Clearing, WriterInv
<1>4. \A r \in Readers : ~Reading(r)
  BY DEF LifeInit, Init, Reading
<1>. QED BY <1>2, <1>3, <1>4 DEF LifeInit, LifeInv

-----------------------------------------------------------------------------
(* What the histories say after a step.                                     *)

\* A slot that is calm after a step was calm before it, or has just been set up;
\* a copy that is not spoiled after a step was not spoiled before it.
LEMMA ObserveStep ==
  ASSUME LifeInv, Observe
  PROVE  /\ disturbed' \in BOOLEAN
         /\ spoiled' \subseteq Readers
         /\ Disturbs' => disturbed'
         /\ ~disturbed' => ~disturbed \/ (life = "making" /\ life' = "up")
         /\ disturbed /\ ~(life = "making" /\ life' = "up") => disturbed'
         /\ \A r \in Readers \ spoiled' :
              Reading(r)' => ~disturbed' /\ (Reading(r) => r \notin spoiled)
<1>1. disturbed' <=> (Disturbs' \/ (disturbed /\ ~(life = "making" /\ life' = "up")))
  BY DEF Observe
<1>2. disturbed' \in BOOLEAN
  BY DEF Observe
<1>3. \A r \in Readers :
        r \in spoiled' <=> Reading(r)' /\ (disturbed' \/ (Reading(r) /\ r \in spoiled))
  BY DEF Observe
<1>4. spoiled' \subseteq Readers
  BY DEF Observe
<1>. QED BY <1>1, <1>2, <1>3, <1>4

\* A store of seq + 1 by either writer.  While the slot is calm the writer
\* has loaded the current seq, and the store takes it one further from every
\* unspoiled reader's start.
LEMMA StoreStep ==
  ASSUME LifeInv, NoReaderLapped, NEW n \in 0 .. SeqMod - 1,
         seq' = Succ(n),
         laps' = [r \in Readers |-> IF Reading(r) THEN laps[r] + 1 ELSE laps[r]]
  PROVE  /\ seq' \in 0 .. SeqMod - 1
         /\ laps' \in [Readers -> 0 .. SeqMod - 1]
         /\ n = seq => (IsOdd(seq') <=> ~IsOdd(seq))
         /\ n = seq => \A r \in Readers \ spoiled :
              Reading(r) => /\ laps'[r] = Distance(start[r], seq')
                            /\ laps'[r] # 0
<1>1. TypeOK
  BY DEF LifeInv, LifeTypeOK
<1>2. \A r \in Readers : laps[r] \in 0 .. SeqMod - 1
  BY <1>1 DEF TypeOK
<1>3. laps' \in [Readers -> 0 .. SeqMod - 1]
  BY <1>2 DEF NoReaderLapped
<1>4. ASSUME n = seq, NEW r \in Readers \ spoiled, Reading(r)
      PROVE  laps'[r] = Distance(start[r], seq') /\ laps'[r] # 0
  <2>1. start[r] \in 0 .. SeqMod - 1 /\ laps[r] = Distance(start[r], seq)
    BY <1>1, <1>4 DEF LifeInv, TypeOK, Unspoiled
  <2>2. laps[r] < SeqMod - 1
    BY <1>4 DEF NoReaderLapped
  <2>3. Distance(start[r], Succ(seq)) = laps[r] + 1
    BY <1>4, <2>1, <2>2, DistanceSucc
  <2>. QED BY <1>2, <1>4, <2>3
<1>. QED BY <1>3, <1>4, SuccParity

-----------------------------------------------------------------------------
(* The end of a server.                                                     *)

\* Steps of the stopping main thread that store seq.
LEMMA ClearStoreInv ==
  ASSUME LifeInv, Observe, ClearBegin \/ ClearEnd
  PROVE  LifeInv'
<1>. USE DEF writerVars, readerVars
<1>1. /\ seq' = Succ(mseq) /\ NoReaderLapped /\ mseq \in 0 .. SeqMod - 1
      /\ laps' = [r \in Readers |-> IF Reading(r) THEN laps[r] + 1 ELSE laps[r]]
  BY DEF ClearBegin, ClearEnd, MainStoresSeq, LifeInv, LifeTypeOK
<1>2. /\ seq' \in 0 .. SeqMod - 1
      /\ laps' \in [Readers -> 0 .. SeqMod - 1]
      /\ mseq = seq => (IsOdd(seq') <=> ~IsOdd(seq))
      /\ mseq = seq => \A r \in Readers \ spoiled :
           Reading(r) => laps'[r] = Distance(start[r], seq') /\ laps'[r] # 0
  BY <1>1, StoreStep
<1>3. LifeTypeOK'
  <2>1. TypeOK'
    BY <1>2 DEF ClearBegin, ClearEnd, LifeInv, LifeTypeOK, TypeOK
  <2>. QED BY <2>1, ObserveStep DEF ClearBegin, ClearEnd, LifeInv, LifeTypeOK
<1>4. ASSUME ~disturbed PROVE mseq = seq /\ wpc = "idle" /\ Orderly
  BY <1>4 DEF LifeInv, Orderly, ClearBegin, ClearEnd, Alive, Clearing
<1>5. life' = "stopping" /\ life = "stopping"
  BY DEF ClearBegin, ClearEnd
<1>6. disturbed' \/ Orderly'
  <2>. SUFFICES ASSUME ~disturbed' PROVE Orderly'
    OBVIOUS
  <2>1. mseq = seq /\ wpc = "idle" /\ Orderly
    BY <1>4, <1>5, ObserveStep
  <2>. QED BY <1>2, <1>5, <2>1 DEF Orderly, ClearBegin, ClearEnd, Clearing, Alive
<1>7. ASSUME NEW r \in Readers \ spoiled', Reading(r)' PROVE Unspoiled(r)'
  <2>1. Reading(r) /\ r \in Readers \ spoiled /\ ~disturbed'
    BY <1>7, ObserveStep DEF ClearBegin, ClearEnd, Reading
  <2>2. Unspoiled(r) /\ mseq = seq
    BY <2>1, <1>4 DEF LifeInv, Unspoiled
  <2>. QED BY <1>2, <2>1, <2>2 DEF Unspoiled, ClearBegin, ClearEnd
<1>. QED BY <1>3, <1>5, <1>6, <1>7 DEF LifeInv

\* The other steps of the main thread when it stops.
LEMMA MainThreadInv ==
  ASSUME LifeInv, Observe, MainThread
  PROVE  LifeInv'
<1>. USE DEF vars, slotVars, writerVars, readerVars
<1>1. CASE ClearBegin \/ ClearEnd
  BY <1>1, ClearStoreInv
<1>2. CASE Stop \/ ClearLoad \/ Exit
  <2>. USE <1>2 DEF Stop, ClearLoad, Exit
  <2>1. UNCHANGED <<seq, mem, wpc, wseq, src, todo, rpc, start, left, buf, out, stable, laps>>
    OBVIOUS
  <2>2. LifeTypeOK'
    <3>1. TypeOK'
      BY <2>1 DEF LifeInv, LifeTypeOK, TypeOK
    <3>. QED BY <3>1, ObserveStep DEF LifeInv, LifeTypeOK, TypeOK
  <2>3. life' \in {"stopping", "stopped"} /\ life \in {"up", "stopping"}
    OBVIOUS
  <2>4. disturbed' \/ Orderly'
    <3>. SUFFICES ASSUME ~disturbed' PROVE Orderly'
      OBVIOUS
    <3>1. Orderly /\ ~Disturbs'
      BY <2>3, ObserveStep DEF LifeInv
    <3>2. life = "up" => mpc = "idle"
      BY DEF LifeInv
    <3>. QED BY <2>1, <2>3, <3>1, <3>2 DEF Orderly, Disturbs, Clearing, Alive
  <2>5. life' \notin {"stopping", "dead"} => mpc' = "idle"
    OBVIOUS
  <2>6. ASSUME NEW r \in Readers \ spoiled', Reading(r)' PROVE Unspoiled(r)'
    <3>1. Reading(r) /\ r \in Readers \ spoiled /\ ~disturbed'
      BY <2>1, <2>6, ObserveStep DEF Reading
    <3>. QED BY <2>1, <3>1 DEF LifeInv, Unspoiled
  <2>. QED BY <2>2, <2>3, <2>4, <2>5, <2>6 DEF LifeInv
<1>3. CASE \E k \in Words : ClearWord(k)
  <2>1. PICK k \in Words : ClearWord(k)
    BY <1>3
  <2>. USE <2>1 DEF ClearWord
  <2>2. LifeTypeOK'
    <3>1. TypeOK'
      BY DEF LifeInv, LifeTypeOK, TypeOK, Payloads
    <3>. QED BY <3>1, ObserveStep DEF LifeInv, LifeTypeOK
  <2>3. disturbed' \/ Orderly'
    BY ObserveStep DEF LifeInv, Orderly, Clearing, Alive
  <2>4. ASSUME NEW r \in Readers \ spoiled', Reading(r)' PROVE Unspoiled(r)'
    <3>1. Reading(r) /\ r \in Readers \ spoiled /\ ~disturbed'
      BY <2>4, ObserveStep DEF Reading
    <3>. QED BY <3>1 DEF LifeInv, Unspoiled
  <2>. QED BY <2>2, <2>3, <2>4 DEF LifeInv
<1>. QED BY <1>1, <1>2, <1>3 DEF MainThread

\* A death leaves the slot to nobody: it stays as the protocol had it.
LEMMA DieInv ==
  ASSUME LifeInv, Observe, Die
  PROVE  LifeInv'
<1>. USE DEF Die, slotVars, readerVars
<1>1. LifeTypeOK'
  <2>1. TypeOK'
    BY ZeroIsPayload DEF LifeInv, LifeTypeOK, TypeOK
  <2>2. magic' \in BOOLEAN /\ markLeft' \in BOOLEAN
    BY DEF LifeInv, LifeTypeOK
  <2>3. disturbed' \in BOOLEAN /\ spoiled' \subseteq Readers
    BY ObserveStep
  <2>4. /\ life' = "dead" /\ mpc' = mpc /\ mapped' = mapped
        /\ mseq' = 0 /\ mtodo' = {}
    OBVIOUS
  <2>. QED BY <2>1, <2>2, <2>3, <2>4 DEF LifeInv, LifeTypeOK
<1>2. disturbed' \/ Orderly'
  BY ObserveStep DEF LifeInv, Orderly, Clearing, Alive
<1>3. ASSUME NEW r \in Readers \ spoiled', Reading(r)' PROVE Unspoiled(r)'
  <2>1. Reading(r) /\ r \in Readers \ spoiled /\ ~disturbed'
    BY <1>3, ObserveStep DEF Reading
  <2>. QED BY <2>1 DEF LifeInv, Unspoiled
<1>. QED BY <1>1, <1>2, <1>3 DEF LifeInv

-----------------------------------------------------------------------------
(* The next server sets the segment up.                                      *)

\* All copies that are under way when memset begins are spoiled.
LEMMA BeginSetupInv ==
  ASSUME LifeInv, Observe, BeginSetup
  PROVE  LifeInv'
<1>. USE DEF BeginSetup, slotVars, readerVars
<1>1. disturbed'
  BY ObserveStep DEF Disturbs
<1>2. LifeTypeOK'
  <2>1. TypeOK'
    BY DEF LifeInv, LifeTypeOK, TypeOK
  <2>2. magic' \in BOOLEAN /\ markLeft' \in BOOLEAN
    OBVIOUS
  <2>3. disturbed' \in BOOLEAN /\ spoiled' \subseteq Readers
    BY ObserveStep
  <2>4. /\ life' = "making" /\ mpc' = "idle" /\ mapped' = mapped
        /\ mseq' = mseq /\ mtodo' = Words
    OBVIOUS
  <2>. QED BY <2>1, <2>2, <2>3, <2>4 DEF LifeInv, LifeTypeOK
<1>3. Making'
  BY DEF Making
<1>4. \A r \in Readers \ spoiled' : ~Reading(r)'
  BY <1>1, ObserveStep
<1>. QED BY <1>1, <1>2, <1>3, <1>4 DEF LifeInv

\* When memset is through, seq is 0 and the payload zero, whatever they were.
LEMMA SetupInv ==
  ASSUME LifeInv, Observe, Setup
  PROVE  LifeInv'
<1>. USE DEF slotVars, writerVars, readerVars
<1>1. life = "making" /\ disturbed /\ Making
  BY DEF Setup, WipeMark, WipeWord, EndSetup, LifeInv
<1>2. CASE WipeMark \/ \E k \in Words : WipeWord(k)
  <2>1. life' = "making" /\ disturbed'
    BY <1>2, ObserveStep DEF WipeMark, WipeWord, Disturbs
  <2>2. \A r \in Readers \ spoiled' : ~Reading(r)'
    BY <2>1, ObserveStep
  <2>3. disturbed' \in BOOLEAN /\ spoiled' \subseteq Readers
    BY ObserveStep
  <2>4. CASE WipeMark
    <3>. USE <2>4 DEF WipeMark, Wiped
    <3>1. TypeOK'
      BY DEF LifeInv, LifeTypeOK, TypeOK
    <3>2. magic' \in BOOLEAN /\ markLeft' \in BOOLEAN
      BY DEF LifeInv, LifeTypeOK
    <3>3. LifeTypeOK'
      BY <2>3, <3>1, <3>2 DEF LifeInv, LifeTypeOK
    <3>4. Making'
      BY <1>1 DEF Making
    <3>5. mpc' = "idle"
      BY <1>1 DEF Making
    <3>. QED BY <2>1, <2>2, <3>3, <3>4, <3>5 DEF LifeInv
  <2>5. CASE \E k \in Words : WipeWord(k)
    <3>1. PICK k \in Words : WipeWord(k)
      BY <2>5
    <3>. USE <3>1 DEF WipeWord
    <3>2. TypeOK'
      BY DEF LifeInv, LifeTypeOK, TypeOK, Payloads
    <3>3. LifeTypeOK'
      BY <2>3, <3>2 DEF LifeInv, LifeTypeOK
    <3>4. Making'
      BY <1>1 DEF Making, LifeInv, LifeTypeOK, TypeOK, Payloads
    <3>5. mpc' = "idle"
      BY <1>1 DEF Making
    <3>. QED BY <2>1, <2>2, <3>3, <3>4, <3>5 DEF LifeInv
  <2>. QED BY <1>2, <2>4, <2>5
<1>3. CASE EndSetup
  <2>. USE <1>3 DEF EndSetup
  <2>1. seq = 0 /\ mpc = "idle" /\ wpc = "idle"
    BY <1>1 DEF Making
  <2>2. TypeOK'
    BY DEF LifeInv, LifeTypeOK, TypeOK
  <2>3. disturbed' \in BOOLEAN /\ spoiled' \subseteq Readers
    BY ObserveStep
  <2>4. magic' \in BOOLEAN /\ markLeft' \in BOOLEAN
    BY DEF LifeInv, LifeTypeOK
  <2>5. LifeTypeOK'
    BY <2>2, <2>3, <2>4 DEF LifeInv, LifeTypeOK
  <2>6. Orderly'
    BY <2>1 DEF Orderly, Clearing, IsOdd
  <2>7. \A r \in Readers \ spoiled' : ~Reading(r)'
    \* whoever reads now was reading a disturbed slot
    <3>1. ASSUME NEW r \in Readers \ spoiled', Reading(r)' PROVE FALSE
      <4>1. Reading(r) /\ r \notin spoiled
        BY <3>1, ObserveStep DEF Reading
      <4>. QED BY <1>1, <4>1, <3>1 DEF LifeInv, Unspoiled
    <3>. QED BY <3>1
  <2>. QED BY <2>1, <2>5, <2>6, <2>7 DEF LifeInv
<1>. QED BY <1>2, <1>3 DEF Setup

-----------------------------------------------------------------------------
(* The event loop and the readers.                                          *)

\* A publish begins, copies a word or loads seq for its end.
LEMMA LoopQuietInv ==
  ASSUME LifeInv, Observe, EventLoop,
         Publish \/ WriteEndLoad \/ \E k \in Words : CopyWord(k)
  PROVE  LifeInv'
<1>. USE DEF slotVars, readerVars
<1>1. Alive /\ UNCHANGED lifeVars
  BY DEF EventLoop
<1>2. UNCHANGED <<life, mpc, mseq, mtodo, markLeft, magic, mapped>>
  BY <1>1 DEF lifeVars, mainVars
<1>3. UNCHANGED <<seq, rpc, start, left, buf, out, stable, laps>>
  BY DEF Publish, WriteBeginLoad, WriteEndLoad, CopyWord
<1>4. TypeOK'
  <2>1. CASE Publish
    BY <2>1 DEF Publish, WriteBeginLoad, LifeInv, LifeTypeOK, TypeOK, Payloads
  <2>2. CASE WriteEndLoad
    BY <2>2 DEF WriteEndLoad, LifeInv, LifeTypeOK, TypeOK
  <2>3. CASE \E k \in Words : CopyWord(k)
    <3>1. PICK k \in Words : CopyWord(k)
      BY <2>3
    <3>2. src[k] \in Vals
      BY DEF LifeInv, LifeTypeOK, TypeOK, Payloads
    <3>. QED BY <3>1, <3>2 DEF CopyWord, LifeInv, LifeTypeOK, TypeOK, Payloads
  <2>. QED BY <2>1, <2>2, <2>3
<1>5. LifeTypeOK'
  <2>1. disturbed' \in BOOLEAN /\ spoiled' \subseteq Readers
    BY ObserveStep
  <2>. QED BY <1>2, <1>4, <2>1 DEF LifeInv, LifeTypeOK
<1>6. disturbed' \/ Orderly'
  <2>. SUFFICES ASSUME ~disturbed' PROVE Orderly'
    OBVIOUS
  <2>1. Orderly /\ ~Disturbs'
    BY <1>1, ObserveStep DEF LifeInv, Alive
  <2>2. wpc' = "idle" \/ ~Clearing'
    BY <2>1 DEF Disturbs, Clearing
  <2>. QED BY <1>1, <1>2, <1>3, <2>1, <2>2
           DEF Orderly, Publish, WriteBeginLoad, WriteEndLoad, CopyWord,
               Clearing, Alive
<1>7. ASSUME NEW r \in Readers \ spoiled', Reading(r)' PROVE Unspoiled(r)'
  <2>1. Reading(r) /\ r \in Readers \ spoiled /\ ~disturbed'
    BY <1>3, <1>7, ObserveStep DEF Reading
  <2>. QED BY <1>3, <2>1 DEF LifeInv, Unspoiled
<1>. QED BY <1>1, <1>2, <1>5, <1>6, <1>7 DEF LifeInv, Alive

\* The event loop stores seq.
LEMMA LoopStoreInv ==
  ASSUME LifeInv, Observe, EventLoop, WriteBeginStore \/ WriteEndStore
  PROVE  LifeInv'
<1>. USE DEF readerVars
<1>1. /\ seq' = Succ(wseq) /\ NoReaderLapped /\ wseq \in 0 .. SeqMod - 1
      /\ laps' = [r \in Readers |-> IF Reading(r) THEN laps[r] + 1 ELSE laps[r]]
  BY DEF WriteBeginStore, WriteEndStore, StoreSeq, LifeInv, LifeTypeOK, TypeOK
<1>2. /\ seq' \in 0 .. SeqMod - 1
      /\ laps' \in [Readers -> 0 .. SeqMod - 1]
      /\ wseq = seq => (IsOdd(seq') <=> ~IsOdd(seq))
      /\ wseq = seq => \A r \in Readers \ spoiled :
           Reading(r) => laps'[r] = Distance(start[r], seq') /\ laps'[r] # 0
  BY <1>1, StoreStep
<1>3. Alive /\ UNCHANGED <<life, mpc, mseq, mtodo, markLeft, magic, mapped>>
  BY DEF EventLoop, lifeVars, mainVars
<1>4. LifeTypeOK'
  <2>1. TypeOK'
    BY <1>2, ZeroIsPayload
       DEF WriteBeginStore, WriteEndStore, LifeInv, LifeTypeOK, TypeOK
  <2>2. disturbed' \in BOOLEAN /\ spoiled' \subseteq Readers
    BY ObserveStep
  <2>. QED BY <1>3, <2>1, <2>2 DEF LifeInv, LifeTypeOK
<1>5. ASSUME ~disturbed PROVE wseq = seq /\ ~Clearing /\ Orderly
  BY <1>3, <1>5 DEF LifeInv, Orderly, WriteBeginStore, WriteEndStore
<1>6. disturbed' \/ Orderly'
  <2>. SUFFICES ASSUME ~disturbed' PROVE Orderly'
    OBVIOUS
  <2>1. wseq = seq /\ ~Clearing /\ Orderly
    BY <1>3, <1>5, ObserveStep DEF Alive
  <2>. QED BY <1>2, <1>3, <2>1
           DEF Orderly, WriteBeginStore, WriteEndStore, Clearing, Alive
<1>7. ASSUME NEW r \in Readers \ spoiled', Reading(r)' PROVE Unspoiled(r)'
  <2>1. Reading(r) /\ r \in Readers \ spoiled /\ ~disturbed'
    BY <1>7, ObserveStep DEF WriteBeginStore, WriteEndStore, Reading
  <2>2. Unspoiled(r) /\ wseq = seq
    BY <2>1, <1>5 DEF LifeInv, Unspoiled
  <2>. QED BY <1>2, <2>1, <2>2 DEF Unspoiled, WriteBeginStore, WriteEndStore
<1>. QED BY <1>3, <1>4, <1>6, <1>7 DEF LifeInv, Alive

\* A reader's step disturbs no one else, and a copy it begins on a calm slot
\* takes the words of the stable payload until the next store of seq.
LEMMA ReaderStepInv ==
  ASSUME LifeInv, Observe, NEW r \in Readers, Reader(r)
  PROVE  LifeInv'
<1>. USE DEF slotVars, writerVars
<1>1. UNCHANGED <<life, mpc, mseq, mtodo, markLeft, magic, mapped>>
  BY DEF Reader, lifeVars, mainVars
<1>2. UNCHANGED <<seq, mem, wpc, wseq, src, todo, stable>>
  BY DEF Reader, StartRead, ReadStep, ReadBegin, ReadWord, ReadDone, Accept,
         Retry, AcceptSpoiled
<1>3. TypeOK'
  <2>0. TypeOK
    BY DEF LifeInv, LifeTypeOK
  <2>1. CASE StartRead(r) \/ ReadBegin(r) \/ ReadDone(r)
    BY <2>0, <2>1 DEF StartRead, ReadBegin, ReadDone, TypeOK
  <2>2. CASE Accept(r) \/ Retry(r) \/ AcceptSpoiled(r)
    BY <2>0, <2>2, ZeroIsPayload DEF Accept, Retry, AcceptSpoiled, ForgetCopy, TypeOK
  <2>3. CASE \E k \in Words : ReadWord(r, k)
    <3>1. PICK k \in Words : ReadWord(r, k)
      BY <2>3
    <3>2. mem[k] \in Vals
      BY <2>0 DEF TypeOK, Payloads
    <3>. QED BY <2>0, <3>1, <3>2 DEF ReadWord, TypeOK, Payloads
  <2>. QED BY <2>1, <2>2, <2>3 DEF Reader, ReadStep
<1>4. LifeTypeOK'
  <2>1. disturbed' \in BOOLEAN /\ spoiled' \subseteq Readers
    BY ObserveStep
  <2>. QED BY <1>1, <1>3, <2>1 DEF LifeInv, LifeTypeOK
<1>5. disturbed' \/ Orderly'
  BY <1>1, <1>2, ObserveStep DEF LifeInv, Orderly, Clearing, Alive
<1>6. life' = "making" => disturbed' /\ Making'
  BY <1>1, <1>2, ObserveStep DEF LifeInv, Making, Disturbs
<1>7. ASSUME NEW q \in Readers \ spoiled', Reading(q)' PROVE Unspoiled(q)'
  <2>1. ~disturbed' /\ ~disturbed /\ Orderly
    BY <1>1, <1>7, ObserveStep DEF LifeInv
  <2>2. CASE q # r
    <3>1. /\ rpc'[q] = rpc[q] /\ start'[q] = start[q] /\ left'[q] = left[q]
          /\ buf'[q] = buf[q] /\ laps'[q] = laps[q]
      BY <2>2 DEF Reader, StartRead, ReadStep, ReadBegin, ReadWord, ReadDone,
                  Accept, Retry, AcceptSpoiled, ForgetCopy, LifeInv, LifeTypeOK,
                  TypeOK
    <3>2. Reading(q) /\ q \in Readers \ spoiled
      BY <1>7, <3>1, ObserveStep DEF Reading
    <3>. QED BY <1>2, <2>1, <3>1, <3>2 DEF LifeInv, Unspoiled
  <2>3. CASE q = r
    <3>1. CASE ReadBegin(r)
      <4>1. Distance(seq, seq) = 0
        BY DistanceZero DEF LifeInv, LifeTypeOK, TypeOK
      <4>. QED BY <2>1, <2>3, <3>1, <4>1
               DEF ReadBegin, SlotQuiet, Unspoiled, LifeInv, LifeTypeOK, TypeOK
    <3>2. CASE \E k \in Words : ReadWord(r, k)
      <4>1. PICK k \in Words : ReadWord(r, k)
        BY <3>2
      <4>2. Unspoiled(r)
        BY <1>7, <2>3, <4>1, ObserveStep DEF LifeInv, ReadWord, Reading
      <4>3. laps[r] = 0 => mem = stable
        <5>1. start[r] \in 0 .. SeqMod - 1 /\ seq \in 0 .. SeqMod - 1
          BY DEF LifeInv, LifeTypeOK, TypeOK
        <5>2. laps[r] = 0 => ~IsOdd(seq)
          BY <4>2, <5>1, DistanceZero DEF Unspoiled
        <5>3. wpc \in {"idle", "open", "copy", "close"}
          BY DEF LifeInv, LifeTypeOK, TypeOK
        <5>. QED BY <2>1, <5>2, <5>3 DEF Orderly
      <4>4. \A k2 \in Words : buf'[r][k2] = IF k2 = k THEN mem[k] ELSE buf[r][k2]
        BY <4>1 DEF ReadWord, LifeInv, LifeTypeOK, TypeOK, Payloads
      <4>. QED BY <1>2, <2>1, <2>3, <4>1, <4>2, <4>3, <4>4
               DEF ReadWord, Unspoiled, LifeInv, LifeTypeOK, TypeOK
    <3>3. CASE ReadDone(r)
      <4>1. Unspoiled(r)
        BY <1>7, <2>3, <3>3, ObserveStep DEF LifeInv, ReadDone, Reading
      <4>. QED BY <2>1, <2>3, <3>3, <4>1
               DEF ReadDone, Unspoiled, LifeInv, LifeTypeOK, TypeOK
    <3>4. CASE StartRead(r) \/ Accept(r) \/ Retry(r) \/ AcceptSpoiled(r)
      BY <1>7, <2>3, <3>4
         DEF StartRead, Accept, Retry, AcceptSpoiled, Reading, LifeInv,
             LifeTypeOK, TypeOK
    <3>. QED BY <3>1, <3>2, <3>3, <3>4 DEF Reader, ReadStep
  <2>. QED BY <2>2, <2>3
<1>. QED BY <1>1, <1>4, <1>5, <1>6, <1>7 DEF LifeInv

LEMMA OpenInv ==
  ASSUME LifeInv, Observe, NEW r \in Readers, Open(r)
  PROVE  LifeInv'
<1>. USE DEF Open, vars, slotVars, writerVars, readerVars, mainVars
<1>1. UNCHANGED <<seq, mem, wpc, wseq, src, todo, rpc, start, left, buf, out,
                  stable, laps, life, mpc, mseq, mtodo, markLeft, magic>>
  OBVIOUS
<1>2. LifeTypeOK'
  <2>1. TypeOK'
    BY <1>1 DEF LifeInv, LifeTypeOK, TypeOK
  <2>2. disturbed' \in BOOLEAN /\ spoiled' \subseteq Readers
    BY ObserveStep
  <2>. QED BY <1>1, <2>1, <2>2 DEF LifeInv, LifeTypeOK
<1>3. disturbed' \/ Orderly'
  BY <1>1, ObserveStep DEF LifeInv, Orderly, Clearing, Alive
<1>4. life' = "making" => disturbed' /\ Making'
  BY <1>1, ObserveStep DEF LifeInv, Making, Disturbs
<1>5. ASSUME NEW q \in Readers \ spoiled', Reading(q)' PROVE Unspoiled(q)'
  <2>1. Reading(q) /\ q \in Readers \ spoiled /\ ~disturbed'
    BY <1>1, <1>5, ObserveStep DEF Reading
  <2>. QED BY <1>1, <2>1 DEF LifeInv, Unspoiled
<1>. QED BY <1>1, <1>2, <1>3, <1>4, <1>5 DEF LifeInv

LEMMA LifeStepInv == LifeInv /\ [LifeNext]_lvars => LifeInv'
<1>. SUFFICES ASSUME LifeInv, [LifeNext]_lvars PROVE LifeInv'
  OBVIOUS
<1>1. CASE LifeNext
  <2>1. Observe /\ LifeStep
    BY <1>1 DEF LifeNext
  <2>2. CASE EventLoop
    BY <2>1, <2>2, LoopQuietInv, LoopStoreInv DEF EventLoop, WriteStep
  <2>. QED BY <2>1, <2>2, MainThreadInv, DieInv, BeginSetupInv, SetupInv,
              OpenInv, ReaderStepInv DEF LifeStep
<1>2. CASE UNCHANGED lvars
  <2>1. UNCHANGED <<seq, mem, wpc, wseq, src, todo, rpc, start, left, buf, out,
                    stable, laps, life, mpc, mseq, mtodo, markLeft, magic,
                    mapped, disturbed, spoiled>>
    BY <1>2 DEF lvars, vars, slotVars, writerVars, readerVars, lifeVars, mainVars
  <2>2. LifeTypeOK'
    BY <2>1 DEF LifeInv, LifeTypeOK, TypeOK
  <2>3. disturbed' \/ Orderly'
    BY <2>1 DEF LifeInv, Orderly, Clearing, Alive
  <2>4. life' = "making" => disturbed' /\ Making'
    BY <2>1 DEF LifeInv, Making
  <2>5. ASSUME NEW q \in Readers \ spoiled', Reading(q)' PROVE Unspoiled(q)'
    BY <2>1, <2>5 DEF LifeInv, Unspoiled, Reading
  <2>. QED BY <2>1, <2>2, <2>3, <2>4, <2>5 DEF LifeInv
<1>. QED BY <1>1, <1>2

\* The inductive invariant holds over every life of the server.
THEOREM LifeInvariance == LifeSpec => []LifeInv
<1>. QED BY LifeInitInv, LifeStepInv, PTL DEF LifeSpec

-----------------------------------------------------------------------------
(* What the invariant gives.                                                *)

LEMMA InvUnspoiledSnapshot == LifeInv => UnspoiledSnapshot
<1>. SUFFICES ASSUME LifeInv, NEW r \in Readers \ spoiled,
                     rpc[r] = "check", seq = start[r]
              PROVE  buf[r] = stable
  BY DEF UnspoiledSnapshot
<1>1. TypeOK /\ Unspoiled(r)
  BY DEF LifeInv, LifeTypeOK, Reading
<1>2. laps[r] = 0
  BY <1>1, DistanceZero DEF TypeOK, Unspoiled
<1>3. \A k \in Words : buf[r][k] = stable[k]
  BY <1>1, <1>2 DEF Unspoiled
<1>. QED BY <1>1, <1>3 DEF TypeOK, Payloads

\* Whatever servers stop, die and come back, a copy that met one writer at a
\* time and is accepted (shm_reader.h:50-61) is a payload written in full.
THEOREM UnspoiledConsistent == LifeSpec => []UnspoiledSnapshot
<1>. QED BY LifeInvariance, InvUnspoiledSnapshot, PTL

\* Over all those lives the slot implements the atomic register.
THEOREM LifeRegisterImplemented == LifeSpec => ImplementsLifeRegister
<1>1. LifeInit => LifeRegister!Init
  BY DEF LifeInit, Init, LifeRegister!Init
<1>2. LifeInv /\ [LifeNext]_lvars => [LifeRegister!Next]_<<stable, out>>
  <2>. SUFFICES ASSUME LifeInv, [LifeNext]_lvars
                PROVE  [LifeRegister!Next]_<<stable, out>>
    OBVIOUS
  <2>. USE DEF vars, slotVars, writerVars, readerVars
  <2>0. TypeOK
    BY DEF LifeInv, LifeTypeOK
  <2>1. CASE MainThread
    BY <2>0, <2>1
       DEF MainThread, Stop, ClearBegin, ClearWord, ClearLoad, ClearEnd, Exit,
           TypeOK, LifeRegister!Next, LifeRegister!Publish
  <2>2. CASE EventLoop
    BY <2>0, <2>2
       DEF EventLoop, Publish, WriteBeginLoad, WriteStep, WriteBeginStore,
           CopyWord, WriteEndLoad, WriteEndStore, TypeOK,
           LifeRegister!Next, LifeRegister!Publish
  <2>3. CASE Die \/ BeginSetup \/ Setup
    BY <2>0, <2>3
       DEF Die, BeginSetup, Setup, WipeMark, WipeWord, EndSetup, TypeOK,
           LifeRegister!Next, LifeRegister!Publish
  <2>4. ASSUME NEW r \in Readers, Open(r) \/ Reader(r)
        PROVE  [LifeRegister!Next]_<<stable, out>>
    <3>1. CASE Reader(r) /\ Accept(r) /\ r \notin spoiled
      <4>1. buf[r] = stable
        BY <3>1, InvUnspoiledSnapshot DEF Accept, SameSeq, UnspoiledSnapshot
      <4>. QED BY <3>1, <4>1 DEF Accept, LifeRegister!Next, LifeRegister!Read
    <3>2. CASE ~(Reader(r) /\ Accept(r) /\ r \notin spoiled)
      BY <2>4, <3>2
         DEF Open, Reader, StartRead, ReadStep, ReadBegin, ReadWord, ReadDone,
             Accept, Retry, AcceptSpoiled
    <3>. QED BY <3>1, <3>2
  <2>5. CASE UNCHANGED lvars
    BY <2>5 DEF lvars
  <2>. QED BY <2>1, <2>2, <2>3, <2>4, <2>5 DEF LifeNext, LifeStep
<1>. QED BY <1>1, <1>2, LifeInvariance, PTL
         DEF LifeSpec, ImplementsLifeRegister, LifeRegister!Spec
=============================================================================
