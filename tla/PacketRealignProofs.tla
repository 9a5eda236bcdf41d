------------------------- MODULE PacketRealignProofs -------------------------
(***************************************************************************)
(* What either matcher hands up is what its reference finds in the stream,   *)
(* for every stream of bytes, every cut of it into chunks, and whatever the   *)
(* other matcher makes of it.                                               *)
(*                                                                          *)
(* A matcher is a machine over prefixes, the reference a recursion from the   *)
(* end of the whole stream.  What relates them speaks of every stream that    *)
(* begins with the bytes so far (Extensions): its frames are those handed up   *)
(* and then those from where the frame that is held began (Answered,          *)
(* A6Answered).  At a byte that ends or spoils a frame the reference of each   *)
(* such stream is unfolded once, at that place; at any other byte nothing      *)
(* changes.  The rest of the invariant says that what is held is what stands   *)
(* there (Begun, A6Begun) and how far in its frame it is (AsFar).             *)
(*                                                                          *)
(* That the recursion has a solution, and that it consists of frames, is      *)
(* shown by induction downward from the end of the stream, as the existence   *)
(* of a least element of a set of naturals.                                  *)
(***************************************************************************)
EXTENDS PacketRealign, WellFoundedInduction, SequenceTheorems, TLAPS

USE WordModAssumption, MaxChunksAssumption

-----------------------------------------------------------------------------
(* Induction, downward from the end of a stream.                             *)

Less == {p \in Nat \X Nat : p[1] < p[2]}

LEMMA LessWellFounded == IsWellFoundedOn(Less, Nat)
<1>1. Less = OpToRel(<, Nat)
  BY DEF Less, OpToRel
<1> QED  BY <1>1, NatLessThanWellFounded

\* A set that holds n and, with each number above 1, the one before, holds 1.
LEMMA DownToOne ==
  ASSUME NEW n \in Nat \ {0}, NEW T \in SUBSET (1 .. n),
         n \in T, \A k \in T : k > 1 => k - 1 \in T
  PROVE  1 \in T
<1>1. PICK x \in T : \A y \in T : <<y, x>> \notin Less
  <2>1. T \subseteq Nat /\ T # {}
    OBVIOUS
  <2> QED  BY <2>1, LessWellFounded, WFMin
<1>2. ASSUME x > 1 PROVE FALSE
  <2>1. x - 1 \in T /\ x - 1 \in Nat /\ x \in Nat
    BY <1>2
  <2>2. <<x - 1, x>> \in Less
    BY <2>1 DEF Less
  <2> QED  BY <2>1, <2>2, <1>1
<1> QED  BY <1>2

\* What holds at i when it holds behind i, holds everywhere.
LEMMA BackwardInduction ==
  ASSUME NEW n \in Nat \ {0}, NEW f, NEW S,
         \A i \in 1 .. n : (\A j \in i + 1 .. n : f[j] \in S) => f[i] \in S
  PROVE  \A i \in 1 .. n : f[i] \in S
<1> DEFINE T == {k \in 1 .. n : \A j \in k .. n : f[j] \in S}
<1>1. n \in T
  BY DEF T
<1>2. ASSUME NEW k \in T, k > 1 PROVE k - 1 \in T
  <2>1. k - 1 \in 1 .. n /\ \A j \in (k - 1) + 1 .. n : f[j] \in S
    BY <1>2
  <2>2. f[k - 1] \in S
    BY <2>1
  <2> QED  BY <2>1, <2>2
<1>3. T \in SUBSET (1 .. n)
  OBVIOUS
<1> HIDE DEF T
<1>4. 1 \in T
  BY <1>1, <1>2, <1>3, DownToOne
<1> QED  BY <1>4 DEF T

\* A function whose value at i is made of those behind i exists.
Backward(D, n, S) ==
  /\ D \in [1 .. n -> [[1 .. n -> S] -> S]]
  /\ \A i \in 1 .. n : \A f, g \in [1 .. n -> S] :
       (\A j \in i + 1 .. n : f[j] = g[j]) => D[i][f] = D[i][g]

Fixpoints(D, n, S) == {f \in [1 .. n -> S] : \A i \in 1 .. n : f[i] = D[i][f]}

LEMMA BackwardRecursion ==
  ASSUME NEW n \in Nat \ {0}, NEW S, S # {}, NEW D, Backward(D, n, S)
  PROVE  Fixpoints(D, n, S) # {}
<1> USE DEF Backward, Fixpoints
<1> DEFINE T == {k \in 1 .. n + 1 :
                   \E f \in [1 .. n -> S] : \A i \in k .. n : f[i] = D[i][f]}
<1>1. n + 1 \in T
  <2>1. PICK x \in S : TRUE
    OBVIOUS
  <2>2. [i \in 1 .. n |-> x] \in [1 .. n -> S]
    OBVIOUS
  <2>3. n + 1 \in 1 .. n + 1 /\ \A i \in n + 1 .. n : FALSE
    OBVIOUS
  <2> QED  BY <2>2, <2>3
<1>2. ASSUME NEW k \in T, k > 1 PROVE k - 1 \in T
  <2>1. PICK f \in [1 .. n -> S] : \A i \in k .. n : f[i] = D[i][f]
    OBVIOUS
  <2> DEFINE g == [f EXCEPT ![k - 1] = D[k - 1][f]]
  <2>2. k - 1 \in 1 .. n /\ D[k - 1][f] \in S
    BY <1>2
  <2>3. g \in [1 .. n -> S] /\ g[k - 1] = D[k - 1][f] /\ \A j \in k .. n : g[j] = f[j]
    BY <2>2
  <2> HIDE DEF g
  <2>4. ASSUME NEW i \in k - 1 .. n PROVE g[i] = D[i][g]
    <3>1. i \in 1 .. n /\ \A j \in i + 1 .. n : f[j] = g[j]
      BY <2>2, <2>3
    <3>2. D[i][f] = D[i][g]
      BY <3>1, <2>3
    <3>3. CASE i = k - 1
      BY <3>2, <3>3, <2>3
    <3>4. CASE i \in k .. n
      BY <3>2, <3>4, <2>1, <2>3
    <3> QED  BY <3>3, <3>4
  <2> QED  BY <2>2, <2>3, <2>4
<1>3. T \in SUBSET (1 .. n + 1)
  OBVIOUS
<1> HIDE DEF T
<1>4. 1 \in T
  BY <1>1, <1>2, <1>3, DownToOne
<1> QED  BY <1>4 DEF T

-----------------------------------------------------------------------------
(* The reference: the frames from a position on are those it says.           *)

Frames == Seq(Seq(Bytes))

LEMMA FramesConcat ==
  ASSUME NEW a \in Frames, NEW b \in Frames, NEW c \in Frames
  PROVE  a \o b \in Frames /\ a \o (b \o c) = (a \o b) \o c
<1>1. a \in Seq(Seq(Bytes)) /\ b \in Seq(Seq(Bytes)) /\ c \in Seq(Seq(Bytes))
  BY DEF Frames
<1>2. a \o b \in Seq(Seq(Bytes))
  BY <1>1, ConcatProperties, Zenon
<1>3. (a \o b) \o c = a \o (b \o c)
  <2> DEFINE X == Seq(Bytes)
  <2>1. a \in Seq(X) /\ b \in Seq(X) /\ c \in Seq(X)
    BY <1>1
  <2> HIDE DEF X
  <2> QED  BY <2>1, ConcatAssociative
<1> QED  BY <1>2, <1>3 DEF Frames

LEMMA ByteIsInt ==
  ASSUME NEW b \in Bytes
  PROVE  b \in Int /\ 0 <= b /\ b <= 255
BY DEF Bytes

LEMMA GloveLastInt ==
  ASSUME NEW s \in Seq(Bytes), NEW i \in 1 .. Len(s), i + 5 <= Len(s)
  PROVE  GloveLast(s, i) \in Int /\ GloveLast(s, i) >= i + 6
<1>1. i + 5 \in 1 .. Len(s)
  OBVIOUS
<1>2. s[i + 5] \in Bytes
  BY <1>1, ElementOfSeq
<1>3. s[i + 5] \in Int /\ s[i + 5] >= 0
  BY <1>2, ByteIsInt
<1> QED  BY <1>3 DEF GloveLast

LEMMA GloveFromType ==
  ASSUME NEW s \in Seq(Bytes), NEW i \in 1 .. Len(s) + 2, NEW later,
         \A j \in i + 1 .. Len(s) + 2 : later[j] \in Frames
  PROVE  GloveFrom(s, later, i) \in Frames
<1>1. <<>> \in Frames
  BY DEF Frames
<1>2. CASE i >= Len(s)
  BY <1>1, <1>2 DEF GloveFrom
<1>3. CASE i < Len(s)
  <2>1. later[i + 1] \in Frames /\ later[i + 2] \in Frames
    BY <1>3
  <2>2. CASE i + 5 > Len(s) \/ GloveLast(s, i) > Len(s)
    BY <1>1, <2>1, <2>2, <1>3 DEF GloveFrom
  <2>3. CASE ~(i + 5 > Len(s) \/ GloveLast(s, i) > Len(s))
    <3>1. GloveLast(s, i) \in i + 6 .. Len(s)
      BY <2>3, GloveLastInt
    <3>2. SubSeq(s, i, GloveLast(s, i)) \in Seq(Bytes)
      BY <3>1
    <3>3. later[GloveLast(s, i) + 1] \in Frames
      BY <3>1
    <3>4. <<>> \o later[GloveLast(s, i) + 1] \in Frames
      BY <3>3 DEF Frames
    <3>5. <<SubSeq(s, i, GloveLast(s, i))>> \o later[GloveLast(s, i) + 1] \in Frames
      BY <3>2, <3>3 DEF Frames
    <3> DEFINE cut == SubSeq(s, i, GloveLast(s, i))
               good == CRC(cut) = s[GloveLast(s, i)]
               behind == (IF good THEN <<cut>> ELSE <<>>) \o later[GloveLast(s, i) + 1]
    <3>6. behind \in Frames
      BY <3>4, <3>5
    <3> HIDE DEF behind
    <3>7. GloveFrom(s, later, i) \in {later[i + 1], later[i + 2], behind}
      <4>1. GloveFrom(s, later, i) =
              IF s[i] # 170 THEN later[i + 1]
              ELSE IF s[i + 1] # 85 THEN later[i + 2] ELSE behind
        <5>1. ~(i >= Len(s))
          BY <1>3
        <5> QED  BY <5>1, <2>3, Zenon DEF GloveFrom, behind
      <4> QED  BY <4>1
    <3> QED  BY <2>1, <3>6, <3>7
  <2> QED  BY <2>2, <2>3
<1> QED  BY <1>2, <1>3

LEMMA GloveFromLater ==
  ASSUME NEW s \in Seq(Bytes), NEW i \in 1 .. Len(s) + 2, NEW f, NEW g,
         \A j \in i + 1 .. Len(s) + 2 : f[j] = g[j]
  PROVE  GloveFrom(s, f, i) = GloveFrom(s, g, i)
<1>1. CASE i >= Len(s)
  BY <1>1 DEF GloveFrom
<1>2. CASE i < Len(s)
  <2>1. f[i + 1] = g[i + 1] /\ f[i + 2] = g[i + 2]
    BY <1>2
  <2>2. CASE i + 5 > Len(s) \/ GloveLast(s, i) > Len(s)
    BY <2>1, <2>2 DEF GloveFrom
  <2>3. CASE ~(i + 5 > Len(s) \/ GloveLast(s, i) > Len(s))
    <3>1. GloveLast(s, i) \in i + 6 .. Len(s)
      BY <2>3, GloveLastInt
    <3>2. f[GloveLast(s, i) + 1] = g[GloveLast(s, i) + 1]
      BY <3>1
    <3> QED  BY <2>1, <3>2 DEF GloveFrom
  <2> QED  BY <2>2, <2>3
<1> QED  BY <1>1, <1>2

LEMMA GloveUnfold ==
  ASSUME NEW s \in Seq(Bytes), NEW i \in 1 .. Len(s) + 2
  PROVE  /\ GloveFramesFrom(s)[i] = GloveFrom(s, GloveFramesFrom(s), i)
         /\ GloveFramesFrom(s)[i] \in Frames
<1> DEFINE n == Len(s) + 2
           D == [k \in 1 .. n |-> [f \in [1 .. n -> Frames] |-> GloveFrom(s, f, k)]]
           F == GloveFramesFrom(s)
<1>0. n \in Nat \ {0}
  OBVIOUS
<1>1. D \in [1 .. n -> [[1 .. n -> Frames] -> Frames]]
  <2>1. ASSUME NEW k \in 1 .. n, NEW f \in [1 .. n -> Frames]
        PROVE  GloveFrom(s, f, k) \in Frames
    BY GloveFromType
  <2> QED  BY <2>1
<1>2. ASSUME NEW k \in 1 .. n, NEW f \in [1 .. n -> Frames], NEW g \in [1 .. n -> Frames],
             \A j \in k + 1 .. n : f[j] = g[j]
      PROVE  D[k][f] = D[k][g]
  BY <1>2, GloveFromLater
<1>3. Frames # {}
  <2>1. <<>> \in Frames
    BY DEF Frames
  <2> QED  BY <2>1
<1>4. PICK f \in [1 .. n -> Frames] : \A k \in 1 .. n : f[k] = D[k][f]
  <2>1. Backward(D, n, Frames)
    BY <1>1, <1>2 DEF Backward
  <2> HIDE DEF D, n
  <2>2. Fixpoints(D, n, Frames) # {}
    BY <1>0, <1>3, <2>1, BackwardRecursion, Zenon
  <2> QED  BY <2>2 DEF Fixpoints
<1>5. f = [k \in 1 .. n |-> GloveFrom(s, f, k)]
  BY <1>4
<1>6. F = [k \in 1 .. n |-> GloveFrom(s, F, k)]
  BY <1>5 DEF GloveFramesFrom
<1>7. \A k \in 1 .. n : F[k] \in Frames
  <2>1. ASSUME NEW k \in 1 .. n, \A j \in k + 1 .. n : F[j] \in Frames
        PROVE  F[k] \in Frames
    <3> HIDE DEF F
    <3>1. GloveFrom(s, F, k) \in Frames
      BY <2>1, GloveFromType
    <3> QED  BY <3>1, <1>6
  <2> HIDE DEF F, n
  <2> QED  BY <1>0, <2>1, BackwardInduction
<1> HIDE DEF F
<1>8. F[i] = GloveFrom(s, F, i) /\ F[i] \in Frames
  BY <1>6, <1>7
<1> QED  BY <1>8 DEF F

-----------------------------------------------------------------------------
(* A stream and what it may become.                                         *)

Extensions(s) == {t \in Seq(Bytes) : Len(s) <= Len(t) /\ \A i \in 1 .. Len(s) : t[i] = s[i]}

LEMMA ExtendsItself ==
  ASSUME NEW s \in Seq(Bytes)
  PROVE  s \in Extensions(s)
BY DEF Extensions

LEMMA ExtendsAppend ==
  ASSUME NEW s \in Seq(Bytes), NEW b \in Bytes, NEW t \in Extensions(Append(s, b))
  PROVE  /\ t \in Extensions(s) /\ t \in Seq(Bytes)
         /\ Len(t) \in Nat /\ Len(s) \in Nat /\ Len(t) >= Len(s) + 1
         /\ t[Len(s) + 1] = b
         /\ \A i \in 1 .. Len(s) : t[i] = s[i]
<1>1. /\ Append(s, b) \in Seq(Bytes) /\ Len(Append(s, b)) = Len(s) + 1
      /\ Append(s, b)[Len(s) + 1] = b
      /\ \A i \in 1 .. Len(s) : Append(s, b)[i] = s[i]
  BY AppendProperties
<1>2. Len(s) \in Nat /\ t \in Seq(Bytes) /\ Len(t) \in Nat
  BY DEF Extensions
<1>3. Len(s) + 1 <= Len(t) /\ \A i \in 1 .. Len(s) + 1 : t[i] = Append(s, b)[i]
  BY <1>1 DEF Extensions
<1>4. \A i \in 1 .. Len(s) : t[i] = s[i]
  BY <1>1, <1>2, <1>3
<1>5. t[Len(s) + 1] = b
  BY <1>1, <1>2, <1>3
<1> QED  BY <1>2, <1>3, <1>4, <1>5 DEF Extensions

\* What a matcher holds of the stream is what stands there.
LEMMA HeldIsCut ==
  ASSUME NEW p \in Seq(Bytes), NEW t \in Seq(Bytes), NEW b \in Bytes,
         NEW k \in 1 .. Len(t), k + Len(p) <= Len(t),
         \A j \in 1 .. Len(p) : p[j] = t[k + j - 1],
         t[k + Len(p)] = b
  PROVE  SubSeq(t, k, k + Len(p)) = Append(p, b)
<1>1. Len(p) \in Nat /\ Len(t) \in Nat
  OBVIOUS
<1>2. /\ SubSeq(t, k, k + Len(p)) \in Seq(Bytes)
      /\ Len(SubSeq(t, k, k + Len(p))) = Len(p) + 1
      /\ \A i \in 1 .. Len(p) + 1 : SubSeq(t, k, k + Len(p))[i] = t[k + i - 1]
  BY <1>1
<1>3. /\ Append(p, b) \in Seq(Bytes) /\ Len(Append(p, b)) = Len(p) + 1
      /\ \A i \in 1 .. Len(p) : Append(p, b)[i] = p[i]
      /\ Append(p, b)[Len(p) + 1] = b
  BY AppendProperties
<1>4. ASSUME NEW i \in 1 .. Len(p) + 1
      PROVE  SubSeq(t, k, k + Len(p))[i] = Append(p, b)[i]
  <2>1. CASE i = Len(p) + 1
    BY <2>1, <1>1, <1>2, <1>3
  <2>2. CASE i \in 1 .. Len(p)
    BY <2>2, <1>1, <1>2, <1>3
  <2> QED  BY <2>1, <2>2, <1>1
<1> QED  BY <1>2, <1>3, <1>4, SeqEqual

-----------------------------------------------------------------------------
(* What the reference says of a glove's frame.                               *)

\* Where no frame starts, the search goes on behind.
LEMMA GlovePass ==
  ASSUME NEW t \in Seq(Bytes), NEW i \in 1 .. Len(t)
  PROVE  /\ t[i] # 170 => GloveFramesFrom(t)[i] = GloveFramesFrom(t)[i + 1]
         /\ i < Len(t) /\ t[i] = 170 /\ t[i + 1] # 85 =>
              GloveFramesFrom(t)[i] = GloveFramesFrom(t)[i + 2]
<1>1. /\ GloveFramesFrom(t)[i] = GloveFrom(t, GloveFramesFrom(t), i)
      /\ GloveFramesFrom(t)[i + 1] = GloveFrom(t, GloveFramesFrom(t), i + 1)
  BY GloveUnfold
<1>2. CASE i = Len(t)
  <2>1. i >= Len(t) /\ i + 1 >= Len(t) /\ ~(i < Len(t))
    BY <1>2
  <2>2. GloveFrom(t, GloveFramesFrom(t), i) = <<>>
        /\ GloveFrom(t, GloveFramesFrom(t), i + 1) = <<>>
    BY <2>1 DEF GloveFrom
  <2> QED  BY <1>1, <2>1, <2>2
<1>3. CASE i < Len(t)
  BY <1>1, <1>3 DEF GloveFrom
<1> QED  BY <1>2, <1>3

\* Where the stream ends before the frame, there is none.
LEMMA GloveCutOff ==
  ASSUME NEW t \in Seq(Bytes), NEW i \in 1 .. Len(t) + 1,
         \/ i >= Len(t)
         \/ t[i] = 170 /\ t[i + 1] = 85 /\ (i + 5 > Len(t) \/ GloveLast(t, i) > Len(t))
  PROVE  GloveFramesFrom(t)[i] = <<>>
<1>1. GloveFramesFrom(t)[i] = GloveFrom(t, GloveFramesFrom(t), i)
  BY GloveUnfold
<1> QED  BY <1>1 DEF GloveFrom

\* What is handed up of a whole frame, given its last byte.
HandedUp(cut, crc) == IF CRC(cut) = crc THEN <<cut>> ELSE <<>>

\* A whole frame counts when its checksum is right, and the search goes on behind it.
LEMMA GloveWhole ==
  ASSUME NEW t \in Seq(Bytes), NEW i \in 1 .. Len(t),
         t[i] = 170, t[i + 1] = 85, i + 5 <= Len(t), GloveLast(t, i) <= Len(t)
  PROVE  GloveFramesFrom(t)[i] =
           HandedUp(SubSeq(t, i, GloveLast(t, i)), t[GloveLast(t, i)])
             \o GloveFramesFrom(t)[GloveLast(t, i) + 1]
<1>1. GloveFramesFrom(t)[i] = GloveFrom(t, GloveFramesFrom(t), i)
  BY GloveUnfold
<1>2. ~(i >= Len(t)) /\ ~(i + 5 > Len(t)) /\ ~(GloveLast(t, i) > Len(t))
  BY GloveLastInt
<1> QED  BY <1>1, <1>2, Zenon DEF GloveFrom, HandedUp

-----------------------------------------------------------------------------
(* The matcher of glove frames.                                             *)

States == {"NOOP", "GET_170", "PACKET_HEADER_ADDRESS", "PACKET_HEADER_COMMAND_TYPE",
           "PACKET_HEADER_DATA_TYPE", "PACKET_HEADER_GET_LENGTH", "PACKET_TRANSFER", "PACKET_CRC"}

GloveTypes ==
  /\ stateMachine \in States
  /\ packetBuffer \in Seq(Bytes)
  /\ remainedLength \in 0 .. WordMod - 1
  /\ packets \in Frames
  /\ stream \in Seq(Bytes)

\* How many of the last bytes belong to a frame that may have begun, and where
\* that began; without one, the next byte is where the search goes on.
Held ==
  IF stateMachine = "NOOP" THEN 0 ELSE IF stateMachine = "GET_170" THEN 1 ELSE Len(packetBuffer)
Start == Len(stream) + 1 - Held

\* Bytes of data still to come.
Remaining == IF remainedLength = 0 THEN WordMod ELSE remainedLength

\* The matcher holds the beginning of a frame as it stands in the stream ...
Begun ==
  /\ Held <= Len(stream)
  /\ stateMachine # "NOOP" => stream[Start] = 170
  /\ stateMachine \notin {"NOOP", "GET_170"} =>
       /\ stream[Start + 1] = 85 /\ Len(packetBuffer) >= 2
       /\ \A j \in 1 .. Len(packetBuffer) : packetBuffer[j] = stream[Start + j - 1]

\* ... is as far in it as its state says ...
AsFar ==
  /\ \A i \in 1 .. 4 : HeaderAt(i) => Len(packetBuffer) = i + 1
  /\ HeaderAt(5) => /\ Len(packetBuffer) >= 6
                    /\ Len(stream) + 1 + Remaining = GloveLast(stream, Start)
  /\ stateMachine = "PACKET_CRC" => /\ Len(packetBuffer) >= 6
                                    /\ Len(stream) + 1 = GloveLast(stream, Start)

\* ... and has handed up what comes before, whatever is still to come.
Answered ==
  \A t \in Extensions(stream) :
    GloveFramesFrom(t)[1] = packets \o GloveFramesFrom(t)[Start]

GloveInv == GloveTypes /\ Begun /\ AsFar /\ Answered

LEMMA HeaderNames ==
  /\ HeaderAt(1) <=> stateMachine = "PACKET_HEADER_ADDRESS"
  /\ HeaderAt(2) <=> stateMachine = "PACKET_HEADER_COMMAND_TYPE"
  /\ HeaderAt(3) <=> stateMachine = "PACKET_HEADER_DATA_TYPE"
  /\ HeaderAt(4) <=> stateMachine = "PACKET_HEADER_GET_LENGTH"
  /\ HeaderAt(5) <=> stateMachine = "PACKET_TRANSFER"
BY DEF HeaderAt, Header

LEMMA StreamGrows ==
  ASSUME stream \in Seq(Bytes), NEW b \in Bytes, stream' = Append(stream, b)
  PROVE  /\ stream' \in Seq(Bytes) /\ Len(stream) \in Nat /\ Len(stream') = Len(stream) + 1
         /\ stream'[Len(stream) + 1] = b
         /\ \A i \in 1 .. Len(stream) : stream'[i] = stream[i]
BY AppendProperties

\* A byte that neither ends nor spoils the frame leaves what was handed up right.
LEMMA AnsweredStays ==
  ASSUME GloveInv, NEW b \in Bytes, stream' = Append(stream, b),
         packets' = packets, Start' = Start
  PROVE  Answered'
BY ExtendsAppend DEF GloveInv, GloveTypes, Answered

LEMMA NoopStep ==
  ASSUME GloveInv, NEW b \in Bytes, stream' = Append(stream, b), packets' = packets,
         stateMachine = "NOOP",
         stateMachine' = IF b = 170 THEN "GET_170" ELSE "NOOP",
         UNCHANGED <<packetBuffer, remainedLength>>
  PROVE  GloveInv'
<1>1. GloveTypes'
  BY StreamGrows DEF GloveInv, GloveTypes, States
<1>2. Held = 0 /\ Start = Len(stream) + 1
  BY DEF GloveInv, GloveTypes, Held, Start
<1>3. AsFar'
  BY DEF AsFar, HeaderAt, Header
<1>4. CASE b = 170
  <2>1. Held' = 1 /\ Start' = Len(stream) + 1
    BY <1>4, StreamGrows DEF Held, Start, GloveInv, GloveTypes
  <2>2. Begun'
    BY <1>4, <2>1, StreamGrows DEF Begun, GloveInv, GloveTypes
  <2> QED  BY <1>1, <1>2, <1>3, <2>1, <2>2, AnsweredStays DEF GloveInv
<1>5. CASE b # 170
  <2>1. Held' = 0 /\ Start' = Len(stream) + 2
    BY <1>5, StreamGrows DEF Held, Start, GloveInv, GloveTypes
  <2>2. Begun'
    BY <1>5, <2>1, StreamGrows DEF Begun, GloveInv, GloveTypes
  <2>3. ASSUME NEW t \in Extensions(stream')
        PROVE  GloveFramesFrom(t)[1] = packets' \o GloveFramesFrom(t)[Start']
    <3>1. /\ t \in Extensions(stream) /\ t \in Seq(Bytes)
          /\ Len(stream) + 1 \in 1 .. Len(t) /\ t[Len(stream) + 1] = b
      BY ExtendsAppend DEF GloveInv, GloveTypes
    <3>2. GloveFramesFrom(t)[1] = packets \o GloveFramesFrom(t)[Len(stream) + 1]
      BY <3>1, <1>2 DEF GloveInv, Answered
    <3>3. GloveFramesFrom(t)[Len(stream) + 1] = GloveFramesFrom(t)[(Len(stream) + 1) + 1]
      BY <3>1, <1>5, GlovePass
    <3>4. (Len(stream) + 1) + 1 = Len(stream) + 2
      BY DEF GloveInv, GloveTypes
    <3> QED  BY <3>2, <3>3, <3>4, <2>1
  <2> QED  BY <1>1, <1>3, <2>2, <2>3 DEF GloveInv, Answered
<1> QED  BY <1>4, <1>5

LEMMA Get170Step ==
  ASSUME GloveInv, NEW b \in Bytes, stream' = Append(stream, b), packets' = packets,
         stateMachine = "GET_170",
         stateMachine' = IF b = 85 THEN Header[1] ELSE "NOOP",
         packetBuffer' = IF b = 85 THEN <<170, 85>> ELSE packetBuffer,
         UNCHANGED remainedLength
  PROVE  GloveInv'
<1>0. Header[1] = "PACKET_HEADER_ADDRESS"
  BY DEF Header
<1>1. GloveTypes'
  <2>1. <<170, 85>> \in Seq(Bytes)
    <3>1. 170 \in Bytes /\ 85 \in Bytes
      BY DEF Bytes
    <3> QED  BY <3>1
  <2> QED  BY <1>0, <2>1, StreamGrows DEF GloveInv, GloveTypes, States
<1>2. /\ Held = 1 /\ Start = Len(stream) /\ Len(stream) >= 1 /\ Len(stream) \in Nat
      /\ stream[Len(stream)] = 170
  BY DEF GloveInv, GloveTypes, Held, Start, Begun
<1>4. CASE b = 85
  <2>1. stateMachine' = "PACKET_HEADER_ADDRESS" /\ packetBuffer' = <<170, 85>>
    BY <1>0, <1>4
  <2>2. Held' = 2 /\ Start' = Len(stream)
    BY <2>1, <1>2, StreamGrows DEF Held, Start, GloveInv, GloveTypes
  <2>3. Begun'
    BY <1>2, <1>4, <2>1, <2>2, StreamGrows DEF Begun, GloveInv, GloveTypes
  <2>4. AsFar'
    <3>1. Len(packetBuffer') = 2
      BY <2>1
    <3> QED  BY <2>1, <3>1 DEF AsFar, HeaderAt, Header
  <2> QED  BY <1>1, <1>2, <2>2, <2>3, <2>4, AnsweredStays DEF GloveInv
<1>5. CASE b # 85
  <2>1. stateMachine' = "NOOP" /\ Held' = 0 /\ Start' = Len(stream) + 2
    BY <1>5, StreamGrows DEF Held, Start, GloveInv, GloveTypes
  <2>2. Begun'
    BY <2>1, StreamGrows DEF Begun, GloveInv, GloveTypes
  <2>3. AsFar'
    BY <2>1 DEF AsFar, HeaderAt, Header
  <2>4. ASSUME NEW t \in Extensions(stream')
        PROVE  GloveFramesFrom(t)[1] = packets' \o GloveFramesFrom(t)[Start']
    <3>1. /\ t \in Extensions(stream) /\ t \in Seq(Bytes)
          /\ Len(stream) \in 1 .. Len(t) /\ Len(stream) < Len(t)
          /\ t[Len(stream)] = 170 /\ t[Len(stream) + 1] = b
      BY <1>2, ExtendsAppend DEF GloveInv, GloveTypes
    <3>2. GloveFramesFrom(t)[1] = packets \o GloveFramesFrom(t)[Len(stream)]
      BY <3>1, <1>2 DEF GloveInv, Answered
    <3>3. GloveFramesFrom(t)[Len(stream)] = GloveFramesFrom(t)[Len(stream) + 2]
      BY <3>1, <1>5, GlovePass
    <3> QED  BY <3>2, <3>3, <2>1
  <2> QED  BY <1>1, <2>2, <2>3, <2>4 DEF GloveInv, Answered
<1> QED  BY <1>4, <1>5

\* A further byte of a frame that has begun.
LEMMA HeldGrows ==
  ASSUME GloveInv, NEW b \in Bytes, stream' = Append(stream, b),
         stateMachine \notin {"NOOP", "GET_170"}, stateMachine' \notin {"NOOP", "GET_170"},
         packetBuffer' = Append(packetBuffer, b)
  PROVE  /\ packetBuffer' \in Seq(Bytes)
         /\ Len(packetBuffer) \in Nat /\ Len(packetBuffer') = Len(packetBuffer) + 1
         /\ packetBuffer'[Len(packetBuffer) + 1] = b
         /\ Start = Len(stream) + 1 - Len(packetBuffer) /\ Start \in 1 .. Len(stream)
         /\ Start' = Start
         /\ Begun'
<1>1. /\ packetBuffer' \in Seq(Bytes)
      /\ Len(packetBuffer) \in Nat /\ Len(packetBuffer') = Len(packetBuffer) + 1
      /\ packetBuffer'[Len(packetBuffer) + 1] = b
      /\ \A j \in 1 .. Len(packetBuffer) : packetBuffer'[j] = packetBuffer[j]
  BY AppendProperties DEF GloveInv, GloveTypes
<1>2. Held = Len(packetBuffer) /\ Held' = Len(packetBuffer) + 1
  BY <1>1 DEF Held
<1>3. /\ Len(stream) \in Nat /\ Len(stream') = Len(stream) + 1
      /\ stream'[Len(stream) + 1] = b
      /\ \A i \in 1 .. Len(stream) : stream'[i] = stream[i]
  BY StreamGrows DEF GloveInv, GloveTypes
<1>4. Start = Len(stream) + 1 - Len(packetBuffer) /\ Start' = Start
  BY <1>1, <1>2, <1>3 DEF Start
<1>5. /\ Len(packetBuffer) <= Len(stream) /\ Len(packetBuffer) >= 2
      /\ stream[Start] = 170 /\ stream[Start + 1] = 85
      /\ \A j \in 1 .. Len(packetBuffer) : packetBuffer[j] = stream[Start + j - 1]
  BY <1>2 DEF GloveInv, Begun
<1>6. Start \in 1 .. Len(stream) /\ Start + 1 \in 1 .. Len(stream)
  BY <1>1, <1>3, <1>4, <1>5
<1>7. ASSUME NEW j \in 1 .. Len(packetBuffer')
      PROVE  packetBuffer'[j] = stream'[Start + j - 1]
  <2>1. CASE j \in 1 .. Len(packetBuffer)
    <3>1. Start + j - 1 \in 1 .. Len(stream)
      BY <2>1, <1>1, <1>3, <1>4, <1>6
    <3> QED  BY <2>1, <3>1, <1>1, <1>3, <1>5
  <2>2. CASE j = Len(packetBuffer) + 1
    <3>1. Start + j - 1 = Len(stream) + 1
      BY <2>2, <1>1, <1>3, <1>4
    <3>2. stream'[Start + j - 1] = b
      BY <3>1, <1>3
    <3>3. packetBuffer'[j] = b
      BY <2>2, <1>1
    <3> QED  BY <3>2, <3>3
  <2>3. j \in 1 .. Len(packetBuffer) \/ j = Len(packetBuffer) + 1
    <3>1. Len(packetBuffer) \in Nat /\ j \in 1 .. Len(packetBuffer) + 1
      BY <1>1
    <3> QED  BY <3>1
  <2> QED  BY <2>1, <2>2, <2>3
<1>8. stream'[Start] = 170 /\ stream'[Start + 1] = 85
  BY <1>3, <1>5, <1>6
<1>9. Begun'
  <2>1. Held' <= Len(stream') /\ Len(packetBuffer') >= 2
    BY <1>1, <1>2, <1>3, <1>5
  <2> QED  BY <1>4, <1>7, <1>8, <2>1 DEF Begun
<1> QED  BY <1>1, <1>4, <1>6, <1>9

LEMMA HeaderByteStep ==
  ASSUME GloveInv, NEW b \in Bytes, stream' = Append(stream, b), packets' = packets,
         HeaderByte(b)
  PROVE  GloveInv'
<1> PICK i \in 1 .. 4 :
      /\ HeaderAt(i)
      /\ stateMachine' = Header[i + 1]
      /\ packetBuffer' = Append(packetBuffer, b)
      /\ remainedLength' = IF i = 4 THEN b ELSE remainedLength
  BY DEF HeaderByte
<1>1. /\ stateMachine \notin {"NOOP", "GET_170"} /\ stateMachine' \notin {"NOOP", "GET_170"}
      /\ stateMachine' \in States
  BY DEF HeaderAt, Header, States
<1>2. Len(packetBuffer) = i + 1
  BY DEF GloveInv, AsFar
<1>3. /\ packetBuffer' \in Seq(Bytes) /\ Len(packetBuffer') = i + 2
      /\ packetBuffer'[i + 2] = b
      /\ Start = Len(stream) - i /\ Start \in 1 .. Len(stream) /\ Start' = Start
      /\ Begun'
  <2>1. i + 1 + 1 = i + 2 /\ Len(stream) + 1 - (i + 1) = Len(stream) - i
    BY DEF GloveInv, GloveTypes
  <2> QED  BY <1>1, <1>2, <2>1, HeldGrows
<1>4. GloveTypes'
  <2>1. remainedLength' \in 0 .. WordMod - 1
    BY ByteIsInt DEF GloveInv, GloveTypes
  <2> QED  BY <1>1, <1>3, <2>1, StreamGrows DEF GloveInv, GloveTypes
<1>5. AsFar'
  <2>1. CASE i \in 1 .. 3
    BY <2>1, <1>3 DEF AsFar, HeaderAt, Header
  <2>2. CASE i = 4
    <3>1. stateMachine' = "PACKET_TRANSFER" /\ remainedLength' = b /\ Len(packetBuffer') = 6
      BY <2>2, <1>3 DEF Header
    <3>2. Len(stream') = Start + 5 /\ Len(stream') = Len(stream) + 1
      BY <2>2, <1>3, StreamGrows DEF GloveInv, GloveTypes
    <3>3. stream'[Start + 5] = b
      BY <3>2, StreamGrows DEF GloveInv, GloveTypes
    <3>4. GloveLast(stream', Start') = Start + 6 + Remaining'
      BY <1>3, <3>1, <3>3 DEF GloveLast, Remaining
    <3>5. Len(stream') + 1 + Remaining' = GloveLast(stream', Start')
      BY <1>3, <3>1, <3>2, <3>4, ByteIsInt DEF Remaining
    <3> QED  BY <3>1, <3>5 DEF AsFar, HeaderAt, Header
  <2> QED  BY <2>1, <2>2
<1> QED  BY <1>3, <1>4, <1>5, AnsweredStays DEF GloveInv

LEMMA DataByteStep ==
  ASSUME GloveInv, NEW b \in Bytes, stream' = Append(stream, b), packets' = packets,
         DataByte(b)
  PROVE  GloveInv'
<1>1. /\ stateMachine = "PACKET_TRANSFER"
      /\ packetBuffer' = Append(packetBuffer, b)
      /\ remainedLength' = OneLess(remainedLength)
      /\ stateMachine' = IF OneLess(remainedLength) = 0 THEN "PACKET_CRC" ELSE stateMachine
  BY DEF DataByte, LastOne
<1>2. /\ Len(packetBuffer) >= 6 /\ Len(packetBuffer) \in Nat
      /\ Len(stream) + 1 + Remaining = GloveLast(stream, Start)
  BY <1>1, HeaderNames DEF GloveInv, GloveTypes, AsFar
<1>3. /\ packetBuffer' \in Seq(Bytes) /\ Len(packetBuffer') = Len(packetBuffer) + 1
      /\ Start = Len(stream) + 1 - Len(packetBuffer) /\ Start \in 1 .. Len(stream)
      /\ Start' = Start
      /\ Begun'
  BY <1>1, HeldGrows
<1>4. /\ remainedLength \in 0 .. WordMod - 1 /\ remainedLength' \in 0 .. WordMod - 1
      /\ Remaining \in Nat
      /\ remainedLength' = 0 => Remaining = 1
      /\ remainedLength' # 0 => Remaining' = Remaining - 1
  <2>1. remainedLength \in 0 .. WordMod - 1
    BY DEF GloveInv, GloveTypes
  <2> QED  BY <1>1, <2>1 DEF OneLess, Remaining
<1>5. GloveTypes'
  BY <1>1, <1>3, <1>4, StreamGrows DEF GloveInv, GloveTypes, States
<1>6. AsFar'
  <2>1. /\ Len(stream) \in Nat /\ Start + 5 \in 1 .. Len(stream)
        /\ Len(stream') = Len(stream) + 1 /\ stream'[Start + 5] = stream[Start + 5]
    BY <1>2, <1>3, StreamGrows DEF GloveInv, GloveTypes
  <2>2. GloveLast(stream', Start') = GloveLast(stream, Start)
    BY <1>3, <2>1 DEF GloveLast
  <2>3. CASE remainedLength' = 0
    <3>1. stateMachine' = "PACKET_CRC"
      BY <1>1, <2>3
    <3>2. Len(stream') + 1 = GloveLast(stream', Start') /\ Len(packetBuffer') >= 6
      BY <1>2, <1>3, <1>4, <2>1, <2>2, <2>3
    <3> QED  BY <3>1, <3>2 DEF AsFar, HeaderAt, Header
  <2>4. CASE remainedLength' # 0
    <3>1. stateMachine' = "PACKET_TRANSFER"
      BY <1>1, <2>4
    <3>2. Len(stream') + 1 + Remaining' = GloveLast(stream', Start') /\ Len(packetBuffer') >= 6
      BY <1>2, <1>3, <1>4, <2>1, <2>2, <2>4
    <3> QED  BY <3>1, <3>2 DEF AsFar, HeaderAt, Header
  <2> QED  BY <2>3, <2>4
<1> QED  BY <1>3, <1>5, <1>6, AnsweredStays DEF GloveInv

LEMMA CrcByteStep ==
  ASSUME GloveInv, NEW b \in Bytes, stream' = Append(stream, b),
         packets' = packets \o Ended(b), CrcByte
  PROVE  GloveInv'
<1> DEFINE cut == Append(packetBuffer, b)
           handed == HandedUp(cut, b)
<1>1. /\ stateMachine = "PACKET_CRC" /\ stateMachine' = "NOOP" /\ packetBuffer' = <<>>
      /\ remainedLength' = remainedLength
  BY DEF CrcByte
<1>2. packets' = packets \o handed
  BY <1>1 DEF Ended, HandedUp
<1>3. cut \in Seq(Bytes)
  BY DEF GloveInv, GloveTypes
<1> HIDE DEF cut
<1>4. handed \in Frames /\ packets \in Frames
  <2>1. <<cut>> \in Frames /\ <<>> \in Frames
    BY <1>3 DEF Frames
  <2> QED  BY <2>1 DEF GloveInv, GloveTypes, HandedUp
<1> HIDE DEF handed
<1>5. GloveTypes'
  <2>1. packets' \in Frames
    BY <1>2, <1>4 DEF Frames
  <2>2. <<>> \in Seq(Bytes)
    OBVIOUS
  <2> QED  BY <1>1, <2>1, <2>2, StreamGrows DEF GloveInv, GloveTypes, States
<1>6. /\ Held' = 0 /\ Start' = Len(stream) + 2 /\ Len(stream) \in Nat
      /\ Len(stream') = Len(stream) + 1
  BY <1>1, StreamGrows DEF Held, Start, GloveInv, GloveTypes
<1>7. Begun'
  BY <1>1, <1>6 DEF Begun
<1>8. AsFar'
  BY <1>1 DEF AsFar, HeaderAt, Header
<1>9. /\ Len(packetBuffer) \in Nat /\ Len(packetBuffer) >= 6
      /\ Start = Len(stream) + 1 - Len(packetBuffer) /\ Start \in 1 .. Len(stream)
      /\ Len(stream) + 1 = GloveLast(stream, Start)
      /\ stream[Start] = 170 /\ stream[Start + 1] = 85
      /\ \A j \in 1 .. Len(packetBuffer) : packetBuffer[j] = stream[Start + j - 1]
  <2>1. Held = Len(packetBuffer) /\ Held <= Len(stream)
    BY <1>1 DEF GloveInv, Held, Begun
  <2>2. Len(packetBuffer) \in Nat /\ Len(packetBuffer) >= 6 /\ Len(stream) \in Nat
    BY <1>1 DEF GloveInv, GloveTypes, AsFar
  <2>3. Start = Len(stream) + 1 - Len(packetBuffer) /\ Start \in 1 .. Len(stream)
    BY <2>1, <2>2 DEF Start
  <2> QED  BY <1>1, <2>2, <2>3 DEF GloveInv, AsFar, Begun
<1>10. ASSUME NEW t \in Extensions(stream')
       PROVE  GloveFramesFrom(t)[1] = packets' \o GloveFramesFrom(t)[Start']
  <2>1. /\ t \in Extensions(stream) /\ t \in Seq(Bytes)
        /\ Len(t) \in Nat /\ Len(t) >= Len(stream) + 1 /\ t[Len(stream) + 1] = b
        /\ \A i \in 1 .. Len(stream) : t[i] = stream[i]
    BY ExtendsAppend DEF GloveInv, GloveTypes
  <2>2. /\ Start \in 1 .. Len(t) /\ Start + 5 <= Len(t)
        /\ Start + 1 \in 1 .. Len(stream) /\ Start + 5 \in 1 .. Len(stream)
        /\ Start + Len(packetBuffer) = Len(stream) + 1
    <3>1. /\ Len(packetBuffer) \in Nat /\ Len(packetBuffer) >= 6 /\ Len(stream) \in Nat
          /\ Start = Len(stream) + 1 - Len(packetBuffer) /\ Start \in 1 .. Len(stream)
      BY <1>6, <1>9
    <3>2. Len(t) \in Nat /\ Len(t) >= Len(stream) + 1
      BY <2>1
    <3> QED  BY <3>1, <3>2
  <2>3. t[Start] = 170 /\ t[Start + 1] = 85 /\ t[Start + 5] = stream[Start + 5]
    BY <2>1, <2>2, <1>9
  <2>4. Len(stream) + 1 = GloveLast(t, Start)
    BY <2>3, <1>9 DEF GloveLast
  <2>5. \A j \in 1 .. Len(packetBuffer) : packetBuffer[j] = t[Start + j - 1]
    <3>1. ASSUME NEW j \in 1 .. Len(packetBuffer) PROVE Start + j - 1 \in 1 .. Len(stream)
      BY <1>6, <1>9
    <3> QED  BY <3>1, <1>9, <2>1
  <2>6. cut = SubSeq(t, Start, Len(stream) + 1)
    <3>1. packetBuffer \in Seq(Bytes) /\ Start + Len(packetBuffer) <= Len(t)
          /\ t[Start + Len(packetBuffer)] = b
      BY <2>1, <2>2 DEF GloveInv, GloveTypes
    <3>2. SubSeq(t, Start, Start + Len(packetBuffer)) = Append(packetBuffer, b)
      BY <2>1, <2>2, <2>5, <3>1, HeldIsCut
    <3> QED  BY <3>2, <2>2 DEF cut
  <2>7. GloveFramesFrom(t)[Start] =
          HandedUp(cut, t[Len(stream) + 1]) \o GloveFramesFrom(t)[Len(stream) + 1 + 1]
    <3>1. GloveLast(t, Start) <= Len(t)
      BY <2>1, <2>4, <1>6
    <3>2. GloveFramesFrom(t)[Start] =
            HandedUp(SubSeq(t, Start, GloveLast(t, Start)), t[GloveLast(t, Start)])
              \o GloveFramesFrom(t)[GloveLast(t, Start) + 1]
      <4>1. t \in Seq(Bytes) /\ Start \in 1 .. Len(t) /\ Start + 5 <= Len(t)
        BY <2>1, <2>2
      <4>2. t[Start] = 170 /\ t[Start + 1] = 85
        BY <2>3
      <4> QED  BY <4>1, <4>2, <3>1, GloveWhole, Zenon
    <3> QED  BY <3>2, <2>4, <2>6
  <2>8. GloveFramesFrom(t)[Start] = handed \o GloveFramesFrom(t)[Start']
    <3>1. Len(stream) + 1 + 1 = Start'
      BY <1>6
    <3> QED  BY <2>1, <2>7, <3>1 DEF handed
  <2>9. GloveFramesFrom(t)[Start'] \in Frames
    BY <2>1, <1>6, GloveUnfold
  <2>10. packets \o (handed \o GloveFramesFrom(t)[Start'])
           = (packets \o handed) \o GloveFramesFrom(t)[Start']
    BY <1>4, <2>9, FramesConcat
  <2> QED  BY <2>1, <2>8, <2>10, <1>2 DEF GloveInv, Answered
<1> QED  BY <1>5, <1>7, <1>8, <1>10 DEF GloveInv, Answered

-----------------------------------------------------------------------------
(* What the reference says of a module's frame.                              *)

LEMMA ModuleLastInt ==
  ASSUME NEW s \in Seq(Bytes), NEW i \in 1 .. Len(s), i + 2 <= Len(s)
  PROVE  /\ ModuleLength(s, i) \in Nat
         /\ ModuleLast(s, i) \in Int /\ ModuleLast(s, i) >= i + 5
<1>1. i + 1 \in 1 .. Len(s) /\ i + 2 \in 1 .. Len(s)
  OBVIOUS
<1>2. s[i + 1] \in Bytes /\ s[i + 2] \in Bytes
  BY <1>1, ElementOfSeq
<1>3. ModuleLength(s, i) \in Nat
  BY <1>2, ByteIsInt DEF ModuleLength
<1> QED  BY <1>3 DEF ModuleLast

LEMMA ModuleFromType ==
  ASSUME NEW s \in Seq(Bytes), NEW i \in 1 .. Len(s) + 1, NEW later,
         \A j \in i + 1 .. Len(s) + 1 : later[j] \in Frames
  PROVE  ModuleFrom(s, later, i) \in Frames
<1>1. <<>> \in Frames
  BY DEF Frames
<1>2. CASE i + 2 > Len(s)
  BY <1>1, <1>2 DEF ModuleFrom
<1>3. CASE i + 2 <= Len(s)
  <2>1. i \in 1 .. Len(s) /\ later[i + 1] \in Frames /\ later[i + 3] \in Frames
    BY <1>3
  <2>2. CASE ModuleLast(s, i) > Len(s)
    BY <1>1, <2>1, <2>2, <1>3 DEF ModuleFrom
  <2>3. CASE ~(ModuleLast(s, i) > Len(s))
    <3>1. ModuleLast(s, i) \in i + 5 .. Len(s)
      BY <1>3, <2>1, <2>3, ModuleLastInt
    <3>2. SubSeq(s, i, ModuleLast(s, i)) \in Seq(Bytes)
      BY <3>1
    <3>3. later[ModuleLast(s, i) + 1] \in Frames
      BY <3>1
    <3> DEFINE cut == SubSeq(s, i, ModuleLast(s, i))
               behind == (IF s[ModuleLast(s, i)] = 106 THEN <<cut>> ELSE <<>>)
                           \o later[ModuleLast(s, i) + 1]
    <3>4. <<>> \o later[ModuleLast(s, i) + 1] \in Frames
      BY <3>3 DEF Frames
    <3>5. <<cut>> \o later[ModuleLast(s, i) + 1] \in Frames
      BY <3>2, <3>3 DEF Frames
    <3>6. behind \in Frames
      BY <3>4, <3>5
    <3> HIDE DEF behind
    <3>7. ModuleFrom(s, later, i) \in {<<>>, later[i + 1], later[i + 3], behind}
      <4>1. ModuleFrom(s, later, i) =
              IF s[i] # 166 THEN later[i + 1]
              ELSE IF ModuleLength(s, i) > 512 THEN later[i + 3] ELSE behind
        <5>1. ~(i + 2 > Len(s))
          BY <1>3
        <5> QED  BY <5>1, <2>3, Zenon DEF ModuleFrom, behind
      <4> QED  BY <4>1
    <3> QED  BY <1>1, <2>1, <3>6, <3>7
  <2> QED  BY <2>2, <2>3
<1> QED  BY <1>2, <1>3

LEMMA ModuleFromLater ==
  ASSUME NEW s \in Seq(Bytes), NEW i \in 1 .. Len(s) + 1, NEW f, NEW g,
         \A j \in i + 1 .. Len(s) + 1 : f[j] = g[j]
  PROVE  ModuleFrom(s, f, i) = ModuleFrom(s, g, i)
<1>1. CASE i + 2 > Len(s)
  BY <1>1 DEF ModuleFrom
<1>2. CASE i + 2 <= Len(s)
  <2>1. i \in 1 .. Len(s) /\ f[i + 1] = g[i + 1] /\ f[i + 3] = g[i + 3]
    BY <1>2
  <2>2. CASE ModuleLast(s, i) > Len(s)
    BY <2>1, <2>2 DEF ModuleFrom
  <2>3. CASE ~(ModuleLast(s, i) > Len(s))
    <3>1. ModuleLast(s, i) \in i + 5 .. Len(s)
      BY <1>2, <2>1, <2>3, ModuleLastInt
    <3>2. f[ModuleLast(s, i) + 1] = g[ModuleLast(s, i) + 1]
      BY <3>1
    <3> QED  BY <2>1, <3>2 DEF ModuleFrom
  <2> QED  BY <2>2, <2>3
<1> QED  BY <1>1, <1>2

LEMMA ModuleUnfold ==
  ASSUME NEW s \in Seq(Bytes), NEW i \in 1 .. Len(s) + 1
  PROVE  /\ ModuleFramesFrom(s)[i] = ModuleFrom(s, ModuleFramesFrom(s), i)
         /\ ModuleFramesFrom(s)[i] \in Frames
<1> DEFINE n == Len(s) + 1
           D == [k \in 1 .. n |-> [f \in [1 .. n -> Frames] |-> ModuleFrom(s, f, k)]]
           F == ModuleFramesFrom(s)
<1>0. n \in Nat \ {0}
  OBVIOUS
<1>1. D \in [1 .. n -> [[1 .. n -> Frames] -> Frames]]
  <2>1. ASSUME NEW k \in 1 .. n, NEW f \in [1 .. n -> Frames]
        PROVE  ModuleFrom(s, f, k) \in Frames
    BY ModuleFromType
  <2> QED  BY <2>1
<1>2. ASSUME NEW k \in 1 .. n, NEW f \in [1 .. n -> Frames], NEW g \in [1 .. n -> Frames],
             \A j \in k + 1 .. n : f[j] = g[j]
      PROVE  D[k][f] = D[k][g]
  BY <1>2, ModuleFromLater
<1>3. Frames # {}
  <2>1. <<>> \in Frames
    BY DEF Frames
  <2> QED  BY <2>1
<1>4. PICK f \in [1 .. n -> Frames] : \A k \in 1 .. n : f[k] = D[k][f]
  <2>1. Backward(D, n, Frames)
    BY <1>1, <1>2 DEF Backward
  <2> HIDE DEF D, n
  <2>2. Fixpoints(D, n, Frames) # {}
    BY <1>0, <1>3, <2>1, BackwardRecursion, Zenon
  <2> QED  BY <2>2 DEF Fixpoints
<1>5. f = [k \in 1 .. n |-> ModuleFrom(s, f, k)]
  BY <1>4
<1>6. F = [k \in 1 .. n |-> ModuleFrom(s, F, k)]
  BY <1>5 DEF ModuleFramesFrom
<1>7. \A k \in 1 .. n : F[k] \in Frames
  <2>1. ASSUME NEW k \in 1 .. n, \A j \in k + 1 .. n : F[j] \in Frames
        PROVE  F[k] \in Frames
    <3> HIDE DEF F
    <3>1. ModuleFrom(s, F, k) \in Frames
      BY <2>1, ModuleFromType
    <3> QED  BY <3>1, <1>6
  <2> HIDE DEF F, n
  <2> QED  BY <1>0, <2>1, BackwardInduction
<1> HIDE DEF F
<1>8. F[i] = ModuleFrom(s, F, i) /\ F[i] \in Frames
  BY <1>6, <1>7
<1> QED  BY <1>8 DEF F

\* Where no frame starts, the search goes on behind; where too long a one is
\* announced, behind its length.
LEMMA ModulePass ==
  ASSUME NEW t \in Seq(Bytes), NEW i \in 1 .. Len(t)
  PROVE  /\ t[i] # 166 => ModuleFramesFrom(t)[i] = ModuleFramesFrom(t)[i + 1]
         /\ i + 2 <= Len(t) /\ t[i] = 166 /\ ModuleLength(t, i) > 512 =>
              ModuleFramesFrom(t)[i] = ModuleFramesFrom(t)[i + 3]
<1>1. /\ ModuleFramesFrom(t)[i] = ModuleFrom(t, ModuleFramesFrom(t), i)
      /\ ModuleFramesFrom(t)[i + 1] = ModuleFrom(t, ModuleFramesFrom(t), i + 1)
  BY ModuleUnfold
<1>2. CASE i + 2 > Len(t)
  <2>1. (i + 1) + 2 > Len(t) /\ ~(i + 2 <= Len(t))
    BY <1>2
  <2>2. ModuleFrom(t, ModuleFramesFrom(t), i) = <<>>
        /\ ModuleFrom(t, ModuleFramesFrom(t), i + 1) = <<>>
    BY <1>2, <2>1 DEF ModuleFrom
  <2> QED  BY <1>1, <2>1, <2>2
<1>3. CASE i + 2 <= Len(t)
  BY <1>1, <1>3 DEF ModuleFrom
<1> QED  BY <1>2, <1>3

LEMMA ModuleCutOff ==
  ASSUME NEW t \in Seq(Bytes), NEW i \in 1 .. Len(t) + 1,
         \/ i + 2 > Len(t)
         \/ t[i] = 166 /\ ModuleLength(t, i) <= 512 /\ ModuleLast(t, i) > Len(t)
  PROVE  ModuleFramesFrom(t)[i] = <<>>
<1>1. ModuleFramesFrom(t)[i] = ModuleFrom(t, ModuleFramesFrom(t), i)
  BY ModuleUnfold
<1>2. CASE i + 2 > Len(t)
  BY <1>1, <1>2 DEF ModuleFrom
<1>3. CASE i + 2 <= Len(t)
  <2>1. i \in 1 .. Len(t)
    BY <1>3
  <2>2. ModuleLength(t, i) \in Nat
    BY <1>3, <2>1, ModuleLastInt
  <2>3. t[i] = 166 /\ ModuleLast(t, i) > Len(t) /\ ~(ModuleLength(t, i) > 512)
    BY <1>3, <2>2
  <2> QED  BY <1>1, <2>3 DEF ModuleFrom
<1> QED  BY <1>2, <1>3

\* What is handed up of a whole frame of the module, given its last byte.
A6HandedUp(cut, end) == IF end = 106 THEN <<cut>> ELSE <<>>

LEMMA ModuleWhole ==
  ASSUME NEW t \in Seq(Bytes), NEW i \in 1 .. Len(t),
         t[i] = 166, i + 2 <= Len(t), ModuleLength(t, i) <= 512, ModuleLast(t, i) <= Len(t)
  PROVE  ModuleFramesFrom(t)[i] =
           A6HandedUp(SubSeq(t, i, ModuleLast(t, i)), t[ModuleLast(t, i)])
             \o ModuleFramesFrom(t)[ModuleLast(t, i) + 1]
<1>1. ModuleFramesFrom(t)[i] = ModuleFrom(t, ModuleFramesFrom(t), i)
  BY ModuleUnfold
<1>2. ~(i + 2 > Len(t)) /\ ~(ModuleLast(t, i) > Len(t)) /\ ~(ModuleLength(t, i) > 512)
  BY ModuleLastInt
<1> QED  BY <1>1, <1>2, Zenon DEF ModuleFrom, A6HandedUp

-----------------------------------------------------------------------------
(* The matcher of module frames.                                            *)

ModuleTypes ==
  /\ a6Buffer \in Seq(Bytes)
  /\ a6Length \in -1 .. 512
  /\ a6Packets \in Frames
  /\ stream \in Seq(Bytes)

A6Start == Len(stream) + 1 - Len(a6Buffer)

A6Begun ==
  /\ Len(a6Buffer) <= Len(stream)
  /\ a6Buffer # <<>> => a6Buffer[1] = 166
  /\ \A j \in 1 .. Len(a6Buffer) : a6Buffer[j] = stream[A6Start + j - 1]
  /\ Len(a6Buffer) <= 2 => a6Length = -1
  /\ Len(a6Buffer) > 2 => /\ a6Length = a6Buffer[2] * 256 + a6Buffer[3]
                          /\ a6Length \in 0 .. 512
                          /\ Len(a6Buffer) < a6Length + 6

A6Answered ==
  \A t \in Extensions(stream) :
    ModuleFramesFrom(t)[1] = a6Packets \o ModuleFramesFrom(t)[A6Start]

ModuleInv == ModuleTypes /\ A6Begun /\ A6Answered

LEMMA A6Facts ==
  ASSUME ModuleInv, NEW b \in Bytes, stream' = Append(stream, b)
  PROVE  /\ Len(a6Buffer) \in Nat /\ Len(stream) \in Nat
         /\ Len(stream') = Len(stream) + 1 /\ stream' \in Seq(Bytes)
         /\ stream'[Len(stream) + 1] = b
         /\ \A i \in 1 .. Len(stream) : stream'[i] = stream[i]
         /\ A6Start \in 1 .. Len(stream) + 1
         /\ A6Start + Len(a6Buffer) = Len(stream) + 1
<1>1. Len(a6Buffer) \in Nat /\ Len(stream) \in Nat /\ Len(a6Buffer) <= Len(stream)
  BY DEF ModuleInv, ModuleTypes, A6Begun
<1>2. A6Start \in 1 .. Len(stream) + 1 /\ A6Start + Len(a6Buffer) = Len(stream) + 1
  BY <1>1 DEF A6Start
<1>3. stream \in Seq(Bytes)
  BY DEF ModuleInv, ModuleTypes
<1> QED  BY <1>1, <1>2, <1>3, StreamGrows

\* What holds of the stream holds of what it becomes.
LEMMA A6Later ==
  ASSUME ModuleInv, NEW b \in Bytes, stream' = Append(stream, b), NEW t \in Extensions(stream')
  PROVE  /\ t \in Seq(Bytes) /\ Len(t) \in Nat /\ Len(t) >= Len(stream) + 1
         /\ t[Len(stream) + 1] = b
         /\ \A j \in 1 .. Len(a6Buffer) : t[A6Start + j - 1] = a6Buffer[j]
         /\ ModuleFramesFrom(t)[1] = a6Packets \o ModuleFramesFrom(t)[A6Start]
<1>1. /\ t \in Extensions(stream) /\ t \in Seq(Bytes) /\ Len(t) \in Nat
      /\ Len(t) >= Len(stream) + 1 /\ t[Len(stream) + 1] = b
      /\ \A i \in 1 .. Len(stream) : t[i] = stream[i]
  BY ExtendsAppend DEF ModuleInv, ModuleTypes
<1>2. ASSUME NEW j \in 1 .. Len(a6Buffer)
      PROVE  t[A6Start + j - 1] = a6Buffer[j]
  <2>1. A6Start + j - 1 \in 1 .. Len(stream)
    BY A6Facts
  <2> QED  BY <2>1, <1>1 DEF ModuleInv, A6Begun
<1> QED  BY <1>1, <1>2 DEF ModuleInv, A6Answered

LEMMA LengthBound ==
  /\ \A n \in 0 .. 512 : n <= 512
  /\ \A n \in Nat : n > 2 => n # 2
  /\ \A n \in Nat : n > 1 => n = 2 \/ n > 2
OBVIOUS

LEMMA TwoOrMore ==
  ASSUME ModuleInv
  PROVE  Len(a6Buffer) > 1 => Len(a6Buffer) = 2 \/ Len(a6Buffer) > 2
<1>1. Len(a6Buffer) \in Nat
  BY DEF ModuleInv, ModuleTypes
<1> QED  BY <1>1

\* What a6Length is once the byte is the third or a later one.
Measured(b) ==
  /\ Len(a6Buffer) = 2 => a6Length' = a6Buffer[2] * 256 + b
  /\ Len(a6Buffer) # 2 => a6Length' = a6Length
  /\ a6Length' \in 0 .. 512
  /\ Len(a6Buffer) + 1 < a6Length' + 6

\* The byte is kept: the frame that may have begun is where it was.
LEMMA A6Grows ==
  ASSUME ModuleInv, NEW b \in Bytes, stream' = Append(stream, b),
         a6Buffer' = Append(a6Buffer, b), a6Packets' = a6Packets,
         a6Buffer = <<>> => b = 166,
         a6Length' \in -1 .. 512,
         Len(a6Buffer) <= 1 => a6Length' = -1,
         Len(a6Buffer) > 1 => Measured(b)
  PROVE  ModuleInv'
<1>1. /\ a6Buffer' \in Seq(Bytes) /\ Len(a6Buffer') = Len(a6Buffer) + 1
      /\ a6Buffer'[Len(a6Buffer) + 1] = b
      /\ \A j \in 1 .. Len(a6Buffer) : a6Buffer'[j] = a6Buffer[j]
  BY AppendProperties DEF ModuleInv, ModuleTypes
<1>2. A6Start' = A6Start
  BY <1>1, A6Facts DEF A6Start
<1>3. ModuleTypes'
  BY <1>1, A6Facts DEF ModuleInv, ModuleTypes
<1>4. A6Answered'
  BY <1>2, A6Later DEF A6Answered
<1>5. A6Begun'
  <2>1. Len(a6Buffer') <= Len(stream')
    BY <1>1, A6Facts DEF ModuleInv, A6Begun
  <2>2. a6Buffer'[1] = 166
    <3>1. CASE a6Buffer = <<>>
      BY <3>1, <1>1
    <3>2. CASE a6Buffer # <<>>
      <4>1. Len(a6Buffer) >= 1 /\ a6Buffer[1] = 166
        BY <3>2 DEF ModuleInv, ModuleTypes, A6Begun
      <4> QED  BY <4>1, <1>1, A6Facts
    <3> QED  BY <3>1, <3>2
  <2>3. ASSUME NEW j \in 1 .. Len(a6Buffer')
        PROVE  a6Buffer'[j] = stream'[A6Start + j - 1]
    <3>1. CASE j \in 1 .. Len(a6Buffer)
      <4>1. A6Start + j - 1 \in 1 .. Len(stream)
        BY <3>1, A6Facts
      <4>2. a6Buffer[j] = stream[A6Start + j - 1]
        BY <3>1 DEF ModuleInv, A6Begun
      <4> QED  BY <3>1, <4>1, <4>2, <1>1, A6Facts
    <3>2. CASE j = Len(a6Buffer) + 1
      <4>1. A6Start + j - 1 = Len(stream) + 1
        BY <3>2, A6Facts
      <4>2. stream'[A6Start + j - 1] = b
        BY <4>1, A6Facts
      <4> QED  BY <3>2, <4>2, <1>1
    <3>3. j \in 1 .. Len(a6Buffer) \/ j = Len(a6Buffer) + 1
      <4>1. Len(a6Buffer) \in Nat /\ j \in 1 .. Len(a6Buffer) + 1
        BY <1>1, A6Facts
      <4> QED  BY <4>1
    <3> QED  BY <3>1, <3>2, <3>3
  <2>4. Len(a6Buffer') <= 2 => a6Length' = -1
    BY <1>1, A6Facts
  <2>5. ASSUME Len(a6Buffer') > 2
        PROVE  /\ a6Length' = a6Buffer'[2] * 256 + a6Buffer'[3]
               /\ a6Length' \in 0 .. 512
               /\ Len(a6Buffer') < a6Length' + 6
    <3>1. Len(a6Buffer) > 1 /\ Len(a6Buffer) \in Nat
      BY <2>5, <1>1, A6Facts
    <3>2. a6Buffer'[2] = a6Buffer[2]
      BY <3>1, <1>1
    <3>5. a6Length' \in 0 .. 512 /\ Len(a6Buffer) + 1 < a6Length' + 6
      BY <3>1 DEF Measured
    <3>6. Len(a6Buffer') < a6Length' + 6
      BY <3>5, <1>1, Zenon
    <3>3. ASSUME Len(a6Buffer) = 2 PROVE a6Length' = a6Buffer'[2] * 256 + a6Buffer'[3]
      <4>1. a6Buffer'[3] = b
        BY <3>3, <1>1
      <4>2. a6Length' = a6Buffer[2] * 256 + b
        BY <3>1, <3>3 DEF Measured
      <4> QED  BY <3>2, <4>1, <4>2, Zenon
    <3>4. ASSUME Len(a6Buffer) > 2 PROVE a6Length' = a6Buffer'[2] * 256 + a6Buffer'[3]
      <4>1. a6Buffer'[3] = a6Buffer[3]
        BY <3>1, <3>4, <1>1
      <4>2. a6Length = a6Buffer[2] * 256 + a6Buffer[3] /\ a6Length' = a6Length
        BY <3>1, <3>4 DEF ModuleInv, A6Begun, Measured
      <4> QED  BY <3>2, <4>1, <4>2, Zenon
    <3>7. Len(a6Buffer) = 2 \/ Len(a6Buffer) > 2
      BY <3>1, TwoOrMore, Zenon
    <3> QED  BY <3>3, <3>4, <3>5, <3>6, <3>7, Zenon
  <2> QED  BY <1>2, <2>1, <2>2, <2>3, <2>4, <2>5 DEF A6Begun
<1> QED  BY <1>3, <1>4, <1>5 DEF ModuleInv

\* The buffer is given up: the search goes on behind the byte.
LEMMA A6GivenUp ==
  ASSUME ModuleInv, NEW b \in Bytes, stream' = Append(stream, b),
         a6Buffer' = <<>>, a6Length' = -1, a6Packets' \in Frames,
         \A t \in Extensions(stream') :
           ModuleFramesFrom(t)[1] = a6Packets' \o ModuleFramesFrom(t)[Len(stream) + 2]
  PROVE  ModuleInv'
<1>1. Len(a6Buffer') = 0 /\ a6Buffer' \in Seq(Bytes)
  OBVIOUS
<1>2. A6Start' = Len(stream) + 2
  BY <1>1, A6Facts DEF A6Start
<1>3. A6Begun'
  BY <1>1, A6Facts DEF A6Begun
<1>4. A6Answered'
  BY <1>2 DEF A6Answered
<1>5. ModuleTypes'
  BY <1>1, A6Facts DEF ModuleTypes
<1> QED  BY <1>3, <1>4, <1>5 DEF ModuleInv

\* The bytes that are held, in the stream.
LEMMA A6Read ==
  ASSUME ModuleInv, NEW b \in Bytes, stream' = Append(stream, b), NEW t \in Extensions(stream')
  PROVE  /\ Len(a6Buffer) >= 1 => t[A6Start] = 166
         /\ Len(a6Buffer) >= 2 => t[A6Start + 1] = a6Buffer[2]
         /\ Len(a6Buffer) >= 3 => t[A6Start + 2] = a6Buffer[3]
<1>1. A6Start + 1 - 1 = A6Start /\ A6Start + 2 - 1 = A6Start + 1 /\ A6Start + 3 - 1 = A6Start + 2
  BY A6Facts
<1>2. \A j \in 1 .. Len(a6Buffer) : t[A6Start + j - 1] = a6Buffer[j]
  BY A6Later
<1>3. Len(a6Buffer) \in Nat
  BY A6Facts
<1>4. ASSUME Len(a6Buffer) >= 1 PROVE t[A6Start] = 166
  <2>1. a6Buffer # <<>>
    BY <1>4 DEF ModuleInv, ModuleTypes
  <2>2. a6Buffer[1] = 166
    BY <2>1 DEF ModuleInv, A6Begun
  <2>3. t[A6Start + 1 - 1] = a6Buffer[1]
    BY <1>2, <1>3, <1>4
  <2> QED  BY <2>2, <2>3, <1>1
<1>5. ASSUME Len(a6Buffer) >= 2 PROVE t[A6Start + 1] = a6Buffer[2]
  <2>1. t[A6Start + 2 - 1] = a6Buffer[2]
    BY <1>2, <1>3, <1>5
  <2> QED  BY <2>1, <1>1
<1>6. ASSUME Len(a6Buffer) >= 3 PROVE t[A6Start + 2] = a6Buffer[3]
  <2>1. t[A6Start + 3 - 1] = a6Buffer[3]
    BY <1>2, <1>3, <1>6
  <2> QED  BY <2>1, <1>1
<1> QED  BY <1>4, <1>5, <1>6

\* The search goes on behind byte b: what is handed up is what the frame held had.
LEMMA A6Passed ==
  ASSUME ModuleInv, NEW b \in Bytes, stream' = Append(stream, b),
         a6Buffer' = <<>>, a6Length' = -1, a6Packets' = a6Packets,
         \A t \in Extensions(stream') :
           ModuleFramesFrom(t)[A6Start] = ModuleFramesFrom(t)[Len(stream) + 2]
  PROVE  ModuleInv'
<1>1. a6Packets' \in Frames
  BY DEF ModuleInv, ModuleTypes
<1>2. ASSUME NEW t \in Extensions(stream')
      PROVE  ModuleFramesFrom(t)[1] = a6Packets' \o ModuleFramesFrom(t)[Len(stream) + 2]
  <2>1. ModuleFramesFrom(t)[1] = a6Packets \o ModuleFramesFrom(t)[A6Start]
    BY A6Later
  <2>2. ModuleFramesFrom(t)[A6Start] = ModuleFramesFrom(t)[Len(stream) + 2]
    OBVIOUS
  <2>3. a6Packets' = a6Packets
    OBVIOUS
  <2> QED  BY <2>1, <2>2, <2>3, Zenon
<1> QED  BY <1>1, <1>2, A6GivenUp

LEMMA A6First ==
  ASSUME ModuleInv, NEW b \in Bytes, stream' = Append(stream, b),
         a6Packets' = a6Packets, a6Buffer = <<>>,
         a6Buffer' = IF b = 166 THEN <<b>> ELSE <<>>, a6Length' = a6Length
  PROVE  ModuleInv'
<1>1. Len(a6Buffer) = 0
  OBVIOUS
<1>2. a6Length' = -1
  BY <1>1 DEF ModuleInv, A6Begun
<1>3. CASE b = 166
  <2>1. a6Buffer' = Append(a6Buffer, b)
    BY <1>3
  <2>2. Len(a6Buffer) <= 1 => a6Length' = -1
    BY <1>2
  <2>3. a6Length' \in -1 .. 512
    BY <1>2
  <2>4. ~(Len(a6Buffer) > 1)
    BY <1>1
  <2> HIDE <1>1
  <2> QED  BY <1>3, <2>1, <2>2, <2>3, <2>4, A6Grows
<1>4. CASE b # 166
  <2>1. a6Buffer' = <<>>
    BY <1>4
  <2>2. ASSUME NEW t \in Extensions(stream')
        PROVE  ModuleFramesFrom(t)[A6Start] = ModuleFramesFrom(t)[Len(stream) + 2]
    <3>1. A6Start = Len(stream) + 1 /\ A6Start + 1 = Len(stream) + 2
      BY <1>1, A6Facts
    <3>2. t \in Seq(Bytes) /\ Len(t) \in Nat /\ Len(t) >= Len(stream) + 1 /\ t[Len(stream) + 1] = b
      BY A6Later
    <3>3. A6Start \in 1 .. Len(t)
      BY <3>1, <3>2, A6Facts
    <3>4. t[A6Start] # 166
      BY <3>1, <3>2, <1>4
    <3>5. ModuleFramesFrom(t)[A6Start] = ModuleFramesFrom(t)[A6Start + 1]
      BY <3>2, <3>3, <3>4, ModulePass
    <3> QED  BY <3>1, <3>5
  <2> QED  BY <1>2, <2>1, <2>2, A6Passed
<1> QED  BY <1>3, <1>4

LEMMA A6Second ==
  ASSUME ModuleInv, NEW b \in Bytes, stream' = Append(stream, b),
         a6Packets' = a6Packets, Len(a6Buffer) = 1,
         a6Buffer' = Append(a6Buffer, b), a6Length' = a6Length
  PROVE  ModuleInv'
<1>1. a6Buffer # <<>>
  OBVIOUS
<1>2. a6Length' = -1
  BY DEF ModuleInv, A6Begun
<1>3. a6Length' \in -1 .. 512
  BY <1>2
<1>4. ~(Len(a6Buffer) > 1)
  OBVIOUS
<1> QED  BY <1>1, <1>2, <1>3, <1>4, A6Grows

LEMMA A6TooLong ==
  ASSUME ModuleInv, NEW b \in Bytes, stream' = Append(stream, b),
         a6Packets' = a6Packets, Len(a6Buffer) = 2,
         a6Buffer[2] * 256 + b > 512,
         a6Length' = -1, a6Buffer' = <<>>
  PROVE  ModuleInv'
<1>1. ASSUME NEW t \in Extensions(stream')
      PROVE  ModuleFramesFrom(t)[A6Start] = ModuleFramesFrom(t)[Len(stream) + 2]
  <2>1. /\ A6Start + 2 = Len(stream) + 1 /\ A6Start + 3 = Len(stream) + 2
        /\ A6Start \in Int /\ A6Start >= 1
    BY A6Facts
  <2>2. t \in Seq(Bytes) /\ Len(t) \in Nat /\ Len(t) >= Len(stream) + 1 /\ t[Len(stream) + 1] = b
    BY A6Later
  <2>3. A6Start \in 1 .. Len(t) /\ A6Start + 2 <= Len(t)
    BY <2>1, <2>2, A6Facts
  <2>4. t[A6Start] = 166 /\ t[A6Start + 1] = a6Buffer[2]
    BY A6Read
  <2>5. t[A6Start + 2] = b
    BY <2>1, <2>2
  <2>6. ModuleLength(t, A6Start) > 512
    BY <2>4, <2>5 DEF ModuleLength
  <2>7. ModuleFramesFrom(t)[A6Start] = ModuleFramesFrom(t)[A6Start + 3]
    BY <2>2, <2>3, <2>4, <2>6, ModulePass
  <2> QED  BY <2>1, <2>7
<1> QED  BY <1>1, A6Passed

LEMMA A6Third ==
  ASSUME ModuleInv, NEW b \in Bytes, stream' = Append(stream, b),
         a6Packets' = a6Packets, Len(a6Buffer) = 2,
         a6Length' = a6Buffer[2] * 256 + b,
         a6Length' \in 0 .. 512, a6Length' \in -1 .. 512, 2 + 1 < a6Length' + 6,
         a6Buffer' = Append(a6Buffer, b)
  PROVE  ModuleInv'
<1>1. Measured(b)
  <2>1. Len(a6Buffer) + 1 < a6Length' + 6
    BY Zenon
  <2> QED  BY <2>1, Zenon DEF Measured
<1>2. ~(Len(a6Buffer) <= 1)
  <2>1. ~(2 <= 1)
    OBVIOUS
  <2> QED  BY <2>1, Zenon
<1>3. a6Buffer # <<>>
  <2>1. a6Buffer = <<>> => Len(a6Buffer) = 0
    OBVIOUS
  <2> QED  BY <2>1, <1>2
<1> QED  BY <1>1, <1>2, <1>3, A6Grows, Zenon

LEMMA A6More ==
  ASSUME ModuleInv, NEW b \in Bytes, stream' = Append(stream, b),
         a6Packets' = a6Packets, Len(a6Buffer) > 2,
         ~(Len(a6Buffer) + 1 >= a6Length + 6),
         a6Buffer' = Append(a6Buffer, b), a6Length' = a6Length
  PROVE  ModuleInv'
<1>1. a6Length \in 0 .. 512 /\ Len(a6Buffer) \in Nat
  BY A6Facts DEF ModuleInv, A6Begun
<1>2. a6Length' \in 0 .. 512 /\ a6Length' \in -1 .. 512
  BY <1>1
<1>3. Len(a6Buffer) + 1 < a6Length' + 6
  BY <1>1
<1>4. Measured(b)
  <2>1. Len(a6Buffer) # 2
    BY <1>1, LengthBound, Zenon
  <2> QED  BY <1>2, <1>3, <2>1 DEF Measured
<1>5. a6Buffer # <<>> /\ ~(Len(a6Buffer) <= 1)
  BY <1>1
<1> QED  BY <1>2, <1>3, <1>4, <1>5, A6Grows

\* The frame that is held, with its last byte, is the one that starts where it does.
LEMMA A6Whole ==
  ASSUME ModuleInv, NEW b \in Bytes, stream' = Append(stream, b),
         Len(a6Buffer) > 2, Len(a6Buffer) + 1 = a6Length + 6,
         NEW t \in Extensions(stream')
  PROVE  ModuleFramesFrom(t)[A6Start] =
           A6HandedUp(Append(a6Buffer, b), b) \o ModuleFramesFrom(t)[Len(stream) + 2]
<1>1. /\ t \in Seq(Bytes) /\ Len(t) \in Nat /\ Len(t) >= Len(stream) + 1
      /\ t[Len(stream) + 1] = b
      /\ \A j \in 1 .. Len(a6Buffer) : t[A6Start + j - 1] = a6Buffer[j]
  BY A6Later
<1>2. /\ A6Start \in Int /\ A6Start >= 1 /\ Len(a6Buffer) \in Nat /\ Len(stream) \in Nat
      /\ A6Start + Len(a6Buffer) = Len(stream) + 1
  BY A6Facts
<1>3. a6Length = a6Buffer[2] * 256 + a6Buffer[3] /\ a6Length \in 0 .. 512
  BY DEF ModuleInv, A6Begun
<1>4. t[A6Start] = 166 /\ t[A6Start + 1] = a6Buffer[2] /\ t[A6Start + 2] = a6Buffer[3]
  BY <1>2, A6Read
<1>5. ModuleLength(t, A6Start) = a6Length
  BY <1>3, <1>4 DEF ModuleLength
<1>6. ModuleLast(t, A6Start) = Len(stream) + 1
  <2>1. ModuleLast(t, A6Start) = A6Start + 5 + a6Length
    BY <1>5 DEF ModuleLast
  <2>2. a6Length \in Int
    BY <1>3
  <2> QED  BY <1>2, <2>1, <2>2
<1>7. /\ A6Start \in 1 .. Len(t) /\ A6Start + 2 <= Len(t)
      /\ ModuleLength(t, A6Start) <= 512 /\ ModuleLast(t, A6Start) <= Len(t)
  <2>1. A6Start + 2 <= Len(stream) + 1
    BY <1>2
  <2>2. A6Start \in 1 .. Len(t) /\ A6Start + 2 <= Len(t)
    BY <1>1, <1>2, <2>1
  <2>3. a6Length <= 512
    BY <1>3, LengthBound, Zenon
  <2>4. ModuleLength(t, A6Start) <= 512
    BY <1>5, <2>3, Zenon
  <2>5. Len(stream) + 1 <= Len(t)
    BY <1>1, <1>2
  <2> QED  BY <1>6, <2>2, <2>4, <2>5, Zenon
<1>8. ModuleFramesFrom(t)[A6Start] =
        A6HandedUp(SubSeq(t, A6Start, ModuleLast(t, A6Start)), t[ModuleLast(t, A6Start)])
          \o ModuleFramesFrom(t)[ModuleLast(t, A6Start) + 1]
  BY <1>1, <1>4, <1>7, ModuleWhole, Zenon
<1>9. SubSeq(t, A6Start, Len(stream) + 1) = Append(a6Buffer, b)
  <2>1. /\ a6Buffer \in Seq(Bytes) /\ A6Start + Len(a6Buffer) <= Len(t)
        /\ \A j \in 1 .. Len(a6Buffer) : a6Buffer[j] = t[A6Start + j - 1]
        /\ t[A6Start + Len(a6Buffer)] = b
    BY <1>1, <1>2 DEF ModuleInv, ModuleTypes
  <2>2. A6Start \in 1 .. Len(t)
    BY <1>7
  <2>3. SubSeq(t, A6Start, A6Start + Len(a6Buffer)) = Append(a6Buffer, b)
    BY <1>1, <2>1, <2>2, HeldIsCut
  <2> QED  BY <2>3, <1>2
<1>10. Len(stream) + 1 + 1 = Len(stream) + 2
  BY <1>2
<1> QED  BY <1>1, <1>6, <1>8, <1>9, <1>10, Zenon

LEMMA A6Ends ==
  ASSUME ModuleInv, NEW b \in Bytes, stream' = Append(stream, b),
         Len(a6Buffer) > 2, Len(a6Buffer) + 1 = a6Length + 6,
         a6Packets' = a6Packets \o A6HandedUp(Append(a6Buffer, b), b),
         a6Buffer' = <<>>, a6Length' = -1
  PROVE  ModuleInv'
<1> DEFINE up == A6HandedUp(Append(a6Buffer, b), b)
<1>1. up \in Frames
  <2>1. Append(a6Buffer, b) \in Seq(Bytes)
    BY AppendProperties DEF ModuleInv, ModuleTypes
  <2>2. <<Append(a6Buffer, b)>> \in Frames /\ <<>> \in Frames
    BY <2>1 DEF Frames
  <2> QED  BY <2>2 DEF A6HandedUp
<1>2. a6Packets \in Frames
  BY DEF ModuleInv, ModuleTypes
<1>3. ASSUME NEW t \in Extensions(stream')
      PROVE  ModuleFramesFrom(t)[1] = a6Packets' \o ModuleFramesFrom(t)[Len(stream) + 2]
  <2> DEFINE behind == ModuleFramesFrom(t)[Len(stream) + 2]
  <2>1. ModuleFramesFrom(t)[1] = a6Packets \o ModuleFramesFrom(t)[A6Start]
    BY A6Later
  <2>2. ModuleFramesFrom(t)[A6Start] = up \o behind
    BY A6Whole
  <2>3. behind \in Frames
    <3>1. /\ t \in Seq(Bytes) /\ Len(t) \in Nat /\ Len(t) >= Len(stream) + 1
          /\ Len(stream) \in Nat
      BY A6Later, A6Facts
    <3>2. Len(stream) + 2 \in 1 .. Len(t) + 1
      BY <3>1
    <3> QED  BY <3>1, <3>2, ModuleUnfold
  <2>4. a6Packets' = a6Packets \o up
    OBVIOUS
  <2> HIDE DEF up, behind
  <2>5. a6Packets \o (up \o behind) = (a6Packets \o up) \o behind
    BY <1>1, <1>2, <2>3, FramesConcat, Zenon
  <2>6. ModuleFramesFrom(t)[1] = a6Packets' \o behind
    BY <2>1, <2>2, <2>4, <2>5, Zenon
  <2> QED  BY <2>6 DEF behind
<1>4. a6Packets' \in Frames
  <2>1. a6Packets' = a6Packets \o up
    OBVIOUS
  <2> HIDE DEF up
  <2> QED  BY <1>1, <1>2, <2>1, FramesConcat
<1> HIDE DEF up
<1> QED  BY <1>3, <1>4, A6GivenUp

LEMMA A6Step ==
  ASSUME ModuleInv, NEW b \in Bytes, stream' = Append(stream, b),
         a6Packets' = a6Packets \o A6Ended(b), A6Byte(b)
  PROVE  ModuleInv'
<1>0. Len(a6Buffer) \in Nat /\ a6Packets \in Frames
  BY DEF ModuleInv, ModuleTypes
<1>1. ASSUME A6Ended(b) = <<>> PROVE a6Packets' = a6Packets
  BY <1>0, <1>1 DEF Frames
<1>2. CASE a6Buffer = <<>> /\ a6Buffer' = (IF b = 166 THEN <<b>> ELSE <<>>) /\ a6Length' = a6Length
  <2>1. A6Ended(b) = <<>>
    BY <1>2 DEF A6Ended
  <2> QED  BY <1>1, <1>2, <2>1, A6First
<1>3. CASE Len(a6Buffer) = 1 /\ a6Buffer' = Append(a6Buffer, b) /\ a6Length' = a6Length
  <2>1. A6Ended(b) = <<>>
    BY <1>3 DEF A6Ended
  <2> QED  BY <1>1, <1>3, <2>1, A6Second
<1>4. CASE /\ Len(a6Buffer) = 2
           /\ LET length == a6Buffer[2] * 256 + b
              IN  /\ a6Length' = IF Oversized(length) THEN -1 ELSE length
                  /\ a6Buffer' = IF Oversized(length) THEN <<>> ELSE Append(a6Buffer, b)
  <2> DEFINE length == a6Buffer[2] * 256 + b
  <2>1. A6Ended(b) = <<>>
    BY <1>4 DEF A6Ended
  <2>2. /\ a6Length' = IF length > 512 THEN -1 ELSE length
        /\ a6Buffer' = IF length > 512 THEN <<>> ELSE Append(a6Buffer, b)
    BY <1>4 DEF Oversized
  <2>3. a6Buffer[2] \in Bytes
    <3>1. a6Buffer \in Seq(Bytes) /\ 2 \in 1 .. Len(a6Buffer)
      BY <1>4 DEF ModuleInv, ModuleTypes
    <3> QED  BY <3>1, ElementOfSeq
  <2>4. length \in Nat
    <3>1. a6Buffer[2] \in Nat /\ b \in Nat
      BY <2>3, ByteIsInt
    <3> QED  BY <3>1
  <2>5. length = a6Buffer[2] * 256 + b
    OBVIOUS
  <2> HIDE DEF length
  <2>6. CASE length > 512
    <3>1. a6Length' = -1 /\ a6Buffer' = <<>>
      BY <2>2, <2>6
    <3>2. a6Buffer[2] * 256 + b > 512
      BY <2>5, <2>6, Zenon
    <3> QED  BY <1>1, <1>4, <2>1, <3>1, <3>2, A6TooLong
  <2>7. CASE ~(length > 512)
    <3>1. a6Length' = length /\ a6Buffer' = Append(a6Buffer, b)
      BY <2>2, <2>7
    <3>2. length \in 0 .. 512 /\ length \in -1 .. 512 /\ 2 + 1 < length + 6
      BY <2>4, <2>7
    <3>3. a6Length' \in 0 .. 512 /\ a6Length' \in -1 .. 512 /\ 2 + 1 < a6Length' + 6
      BY <3>1, <3>2, Zenon
    <3>4. a6Length' = a6Buffer[2] * 256 + b
      BY <2>5, <3>1, Zenon
    <3> QED  BY <1>1, <1>4, <2>1, <3>1, <3>3, <3>4, A6Third
  <2> QED  BY <2>6, <2>7
<1>5. CASE /\ Len(a6Buffer) > 2
           /\ LET ends == Len(a6Buffer) + 1 >= a6Length + 6
              IN  /\ a6Buffer' = IF ends THEN <<>> ELSE Append(a6Buffer, b)
                  /\ a6Length' = IF ends THEN -1 ELSE a6Length
  <2>1. a6Length \in 0 .. 512 /\ Len(a6Buffer) < a6Length + 6
    BY <1>5 DEF ModuleInv, A6Begun
  <2>2. CASE Len(a6Buffer) + 1 >= a6Length + 6
    <3>1. Len(a6Buffer) + 1 = a6Length + 6
      BY <1>0, <2>1, <2>2
    <3>2. A6Ended(b) = A6HandedUp(Append(a6Buffer, b), b)
      BY <1>5, <3>1 DEF A6Ended, A6HandedUp
    <3>3. a6Buffer' = <<>> /\ a6Length' = -1
      BY <1>5, <2>2
    <3>4. a6Packets' = a6Packets \o A6HandedUp(Append(a6Buffer, b), b)
      BY <3>2
    <3> QED  BY <1>5, <3>1, <3>3, <3>4, A6Ends
  <2>3. CASE ~(Len(a6Buffer) + 1 >= a6Length + 6)
    <3>1. a6Buffer' = Append(a6Buffer, b) /\ a6Length' = a6Length
      BY <1>5, <2>3
    <3>2. A6Ended(b) = <<>>
      <4>1. ~(Len(a6Buffer) + 1 = a6Length + 6)
        BY <1>0, <2>1, <2>3
      <4> QED  BY <4>1 DEF A6Ended
    <3> QED  BY <1>1, <1>5, <2>3, <3>1, <3>2, A6More
  <2> QED  BY <2>2, <2>3
<1> QED  BY <1>2, <1>3, <1>4, <1>5, Zenon DEF A6Byte

-----------------------------------------------------------------------------
(* Both matchers, over every step.                                          *)

IInv ==
  /\ rest \in Seq(Bytes) /\ chunks \in 0 .. MaxChunks
  /\ GloveInv
  /\ ModuleInv

LEMMA GloveInit ==
  ASSUME Init
  PROVE  GloveInv
<1>1. GloveTypes
  BY DEF Init, GloveTypes, States, Frames
<1>2. Held = 0 /\ Start = 1
  BY DEF Init, Held, Start
<1>3. Begun
  BY <1>2 DEF Init, Begun
<1>4. AsFar
  BY DEF Init, AsFar, HeaderAt, Header
<1>5. ASSUME NEW t \in Extensions(stream)
      PROVE  GloveFramesFrom(t)[1] = packets \o GloveFramesFrom(t)[Start]
  <2>1. t \in Seq(Bytes) /\ 1 \in 1 .. Len(t) + 1
    BY DEF Extensions
  <2>2. GloveFramesFrom(t)[1] \in Seq(Seq(Bytes))
    BY <2>1, GloveUnfold DEF Frames
  <2>3. packets = <<>>
    BY DEF Init
  <2> QED  BY <1>2, <2>2, <2>3
<1> QED  BY <1>1, <1>3, <1>4, <1>5 DEF GloveInv, Answered

LEMMA ModuleInit ==
  ASSUME Init
  PROVE  ModuleInv
<1>1. ModuleTypes
  BY DEF Init, ModuleTypes, Frames
<1>2. Len(a6Buffer) = 0 /\ A6Start = 1
  BY DEF Init, A6Start
<1>3. A6Begun
  BY <1>2 DEF Init, A6Begun
<1>4. ASSUME NEW t \in Extensions(stream)
      PROVE  ModuleFramesFrom(t)[1] = a6Packets \o ModuleFramesFrom(t)[A6Start]
  <2>1. t \in Seq(Bytes) /\ 1 \in 1 .. Len(t) + 1
    BY DEF Extensions
  <2>2. ModuleFramesFrom(t)[1] \in Seq(Seq(Bytes))
    BY <2>1, ModuleUnfold DEF Frames
  <2>3. a6Packets = <<>>
    BY DEF Init
  <2> QED  BY <1>2, <2>2, <2>3
<1> QED  BY <1>1, <1>3, <1>4 DEF ModuleInv, A6Answered

\* A step that brings no byte leaves the matchers alone.
LEMMA NoByte ==
  ASSUME GloveInv, ModuleInv, UNCHANGED <<gloveVars, a6Vars, packets, a6Packets, stream>>
  PROVE  GloveInv' /\ ModuleInv'
<1>1. /\ stateMachine' = stateMachine /\ packetBuffer' = packetBuffer
      /\ remainedLength' = remainedLength /\ packets' = packets /\ stream' = stream
      /\ a6Buffer' = a6Buffer /\ a6Length' = a6Length /\ a6Packets' = a6Packets
  BY DEF gloveVars, a6Vars
<1>2. Held' = Held /\ Start' = Start /\ Remaining' = Remaining /\ A6Start' = A6Start
  BY <1>1 DEF Held, Start, Remaining, A6Start
<1>3. GloveTypes' /\ Begun' /\ Answered'
  BY <1>1, <1>2 DEF GloveInv, GloveTypes, Begun, Answered
<1>4. AsFar'
  BY <1>1, <1>2 DEF GloveInv, AsFar, HeaderAt
<1>5. ModuleTypes' /\ A6Begun' /\ A6Answered'
  BY <1>1, <1>2 DEF ModuleInv, ModuleTypes, A6Begun, A6Answered
<1> QED  BY <1>3, <1>4, <1>5 DEF GloveInv, ModuleInv

\* A byte that is not a crc ends no frame.
LEMMA NotEnded ==
  ASSUME GloveInv, NEW b \in Bytes, packets' = packets \o Ended(b), stateMachine # "PACKET_CRC"
  PROVE  packets' = packets
<1>1. Ended(b) = <<>>
  BY DEF Ended
<1>2. packets \in Seq(Seq(Bytes))
  BY DEF GloveInv, GloveTypes, Frames
<1> QED  BY <1>1, <1>2

LEMMA GloveStep ==
  ASSUME GloveInv, NEW b \in Bytes, stream' = Append(stream, b), packets' = packets \o Ended(b),
         Search(b) \/ HeaderByte(b) \/ DataByte(b) \/ CrcByte
  PROVE  GloveInv'
<1>1. CASE Search(b)
  <2>1. stateMachine \in {"NOOP", "GET_170"}
    BY <1>1 DEF Search
  <2>2. packets' = packets
    BY <2>1, NotEnded
  <2>3. CASE stateMachine = "NOOP"
    BY <1>1, <2>2, <2>3, NoopStep DEF Search
  <2>4. CASE stateMachine = "GET_170"
    BY <1>1, <2>2, <2>4, Get170Step DEF Search
  <2> QED  BY <2>1, <2>3, <2>4
<1>2. CASE HeaderByte(b)
  <2>1. stateMachine # "PACKET_CRC"
    BY <1>2 DEF HeaderByte, HeaderAt, Header
  <2> QED  BY <1>2, <2>1, NotEnded, HeaderByteStep
<1>3. CASE DataByte(b)
  <2>1. stateMachine # "PACKET_CRC"
    BY <1>3 DEF DataByte
  <2> QED  BY <1>3, <2>1, NotEnded, DataByteStep
<1>4. CASE CrcByte
  BY <1>4, CrcByteStep
<1> QED  BY <1>1, <1>2, <1>3, <1>4

\* Whatever comes, both matchers have found the frames that have passed, and
\* hold what there is of the one that may have begun.
THEOREM Invariance == Spec => []IInv
<1>1. Init => IInv
  <2>1. ASSUME Init PROVE rest \in Seq(Bytes) /\ chunks \in 0 .. MaxChunks
    BY <2>1 DEF Init
  <2> QED  BY <2>1, GloveInit, ModuleInit DEF IInv
<1>2. ASSUME IInv, [Next]_vars PROVE IInv'
  <2>0. /\ rest \in Seq(Bytes) /\ chunks \in 0 .. MaxChunks
        /\ GloveInv /\ ModuleInv
    BY <1>2 DEF IInv
  <2>1. ASSUME NEW c \in Chunks, NextChunk(c) PROVE IInv'
    <3>1. rest' \in Seq(Bytes) /\ chunks' \in 0 .. MaxChunks
      BY <2>0, <2>1, ChunksAssumption DEF NextChunk
    <3>2. UNCHANGED <<gloveVars, a6Vars, packets, a6Packets, stream>>
      BY <2>1 DEF NextChunk
    <3> QED  BY <2>0, <3>1, <3>2, NoByte DEF IInv
  <2>2. ASSUME ProcessByte PROVE IInv'
    <3> DEFINE b == Head(rest)
    <3>1. b \in Bytes /\ rest' \in Seq(Bytes) /\ chunks' \in 0 .. MaxChunks
      BY <2>0, <2>2, HeadTailProperties DEF ProcessByte
    <3>2. /\ A6Byte(b)
          /\ Search(b) \/ HeaderByte(b) \/ DataByte(b) \/ CrcByte
          /\ packets' = packets \o Ended(b)
          /\ a6Packets' = a6Packets \o A6Ended(b)
          /\ stream' = Append(stream, b)
      BY <2>2 DEF ProcessByte
    <3> HIDE DEF b
    <3>3. GloveInv'
      BY <2>0, <3>1, <3>2, GloveStep
    <3>4. ModuleInv'
      BY <2>0, <3>1, <3>2, A6Step
    <3> QED  BY <3>1, <3>3, <3>4 DEF IInv
  <2>3. ASSUME UNCHANGED vars PROVE IInv'
    <3>1. /\ UNCHANGED <<gloveVars, a6Vars, packets, a6Packets, stream>>
          /\ rest' = rest /\ chunks' = chunks
      BY <2>3 DEF vars
    <3> QED  BY <2>0, <3>1, NoByte DEF IInv
  <2> QED  BY <1>2, <2>1, <2>2, <2>3 DEF Next
<1> QED  BY <1>1, <1>2, PTL DEF Spec

-----------------------------------------------------------------------------
(* What the runs check.                                                     *)

\* The variables have their types, and a buffer never outgrows its frame:
\* Len(a6Buffer) stays below the 518 bytes of the longest module frame.
THEOREM Types == Spec => []TypeOK
<1>1. ASSUME IInv PROVE TypeOK
  <2>0. /\ rest \in Seq(Bytes) /\ chunks \in 0 .. MaxChunks
        /\ GloveTypes /\ Begun /\ ModuleTypes /\ A6Begun
    BY <1>1 DEF IInv, GloveInv, ModuleInv
  <2>1. stateMachine \in {"NOOP", "GET_170", "PACKET_CRC"} \cup ToSet(Header)
    <3>1. /\ DOMAIN Header = 1 .. 5
          /\ Header[1] = "PACKET_HEADER_ADDRESS" /\ Header[2] = "PACKET_HEADER_COMMAND_TYPE"
          /\ Header[3] = "PACKET_HEADER_DATA_TYPE" /\ Header[4] = "PACKET_HEADER_GET_LENGTH"
          /\ Header[5] = "PACKET_TRANSFER"
      BY DEF Header
    <3>2. {Header[1], Header[2], Header[3], Header[4], Header[5]} \subseteq ToSet(Header)
      BY <3>1 DEF ToSet
    <3> QED  BY <2>0, <3>1, <3>2 DEF GloveTypes, States
  <2>2. Len(a6Buffer) < 518
    <3>1. Len(a6Buffer) \in Nat
      BY <2>0 DEF ModuleTypes
    <3>2. Len(a6Buffer) > 2 => a6Length \in 0 .. 512 /\ Len(a6Buffer) < a6Length + 6
      BY <2>0 DEF A6Begun
    <3>3. CASE Len(a6Buffer) > 2
      <4>1. a6Length \in Int /\ a6Length <= 512 /\ Len(a6Buffer) < a6Length + 6
        <5>1. a6Length \in 0 .. 512 /\ Len(a6Buffer) < a6Length + 6
          BY <3>2, <3>3, Zenon
        <5>2. a6Length <= 512
          BY <5>1, LengthBound, Zenon
        <5>3. a6Length \in Int
          BY <5>1
        <5> QED  BY <5>1, <5>2, <5>3, Zenon
      <4> QED  BY <3>1, <4>1
    <3>4. CASE ~(Len(a6Buffer) > 2)
      BY <3>1, <3>4
    <3> QED  BY <3>3, <3>4
  <2>3. stateMachine \in {"NOOP", "GET_170"} \/ Len(packetBuffer) >= 2
    BY <2>0 DEF Begun
  <2>4. {packets, a6Packets} \subseteq Seq(Seq(Bytes)) /\ {stream, rest} \subseteq Seq(Bytes)
    BY <2>0 DEF GloveTypes, ModuleTypes, Frames
  <2>5. /\ packetBuffer \in Seq(Bytes) /\ remainedLength \in 0 .. WordMod - 1
        /\ a6Buffer \in Seq(Bytes) /\ a6Length \in -1 .. 512
    BY <2>0 DEF GloveTypes, ModuleTypes
  <2> QED  BY <2>0, <2>1, <2>2, <2>3, <2>4, <2>5 DEF TypeOK
<1> QED  BY <1>1, Invariance, PTL

\* What the glove's matcher hands up are the glove frames of the stream, for
\* every stream of bytes and every way it is cut into chunks.
THEOREM GloveFraming == Spec => []PacketsAreFrames
<1>1. ASSUME IInv PROVE PacketsAreFrames
  <2>0. GloveTypes /\ Begun /\ AsFar /\ Answered
    BY <1>1 DEF IInv, GloveInv
  <2>1. /\ stream \in Seq(Bytes) /\ packets \in Seq(Seq(Bytes)) /\ stateMachine \in States
        /\ packetBuffer \in Seq(Bytes) /\ remainedLength \in 0 .. WordMod - 1
    BY <2>0 DEF GloveTypes, Frames
  <2>2. GloveFramesFrom(stream)[1] = packets \o GloveFramesFrom(stream)[Start]
    BY <2>0, <2>1, ExtendsItself DEF Answered
  <2>3. GloveFramesFrom(stream)[Start] = <<>>
    <3>0. /\ Held \in Nat /\ Len(stream) \in Nat /\ Held <= Len(stream)
          /\ Start = Len(stream) + 1 - Held
      BY <2>0, <2>1 DEF Begun, Held, Start
    <3>1. Start \in 1 .. Len(stream) + 1
      BY <3>0
    <3>2. CASE stateMachine \in {"NOOP", "GET_170"}
      <4>1. Held <= 1
        BY <3>2 DEF Held
      <4>2. Start >= Len(stream)
        BY <4>1, <3>0
      <4> QED  BY <2>1, <3>1, <4>2, GloveCutOff
    <3>3. CASE stateMachine \notin {"NOOP", "GET_170"}
      <4>1. stream[Start] = 170 /\ stream[Start + 1] = 85 /\ Held = Len(packetBuffer)
        BY <2>0, <3>3 DEF Begun, Held
      <4>2. CASE stateMachine \in {"PACKET_TRANSFER", "PACKET_CRC"}
        <5>1. Remaining \in Nat
          BY <2>1 DEF Remaining
        <5>2. GloveLast(stream, Start) = Len(stream) + 1
              \/ GloveLast(stream, Start) = Len(stream) + 1 + Remaining
          BY <2>0, <4>2, HeaderNames DEF AsFar
        <5>3. GloveLast(stream, Start) > Len(stream)
          BY <5>1, <5>2, <3>0
        <5> QED  BY <2>1, <3>1, <4>1, <5>3, GloveCutOff
      <4>3. CASE stateMachine \notin {"PACKET_TRANSFER", "PACKET_CRC"}
        <5>1. Held <= 5
          <6>1. HeaderAt(1) \/ HeaderAt(2) \/ HeaderAt(3) \/ HeaderAt(4)
            BY <2>1, <3>3, <4>3, HeaderNames DEF States
          <6>2. PICK i \in 1 .. 4 : HeaderAt(i)
            BY <6>1
          <6>3. Len(packetBuffer) = i + 1
            BY <2>0, <6>2 DEF AsFar
          <6> QED  BY <4>1, <6>3
        <5>2. Start + 5 > Len(stream)
          BY <5>1, <3>0
        <5> QED  BY <2>1, <3>1, <4>1, <5>2, GloveCutOff
      <4> QED  BY <4>2, <4>3
    <3> QED  BY <3>2, <3>3
  <2> QED  BY <2>1, <2>2, <2>3 DEF PacketsAreFrames
<1> QED  BY <1>1, Invariance, PTL

\* What the module's matcher hands up are the module frames of the stream,
\* whatever the glove's matcher makes of the same bytes.
THEOREM ModuleFraming == Spec => []ModulePacketsAreFrames
<1>1. ASSUME IInv PROVE ModulePacketsAreFrames
  <2>0. ModuleTypes /\ A6Begun /\ A6Answered
    BY <1>1 DEF IInv, ModuleInv
  <2>1. stream \in Seq(Bytes) /\ a6Packets \in Seq(Seq(Bytes)) /\ a6Buffer \in Seq(Bytes)
    BY <2>0 DEF ModuleTypes, Frames
  <2>2. ModuleFramesFrom(stream)[1] = a6Packets \o ModuleFramesFrom(stream)[A6Start]
    BY <2>0, <2>1, ExtendsItself DEF A6Answered
  <2>3. ModuleFramesFrom(stream)[A6Start] = <<>>
    <3>0. /\ Len(a6Buffer) \in Nat /\ Len(stream) \in Nat /\ Len(a6Buffer) <= Len(stream)
          /\ A6Start = Len(stream) + 1 - Len(a6Buffer)
      BY <2>0, <2>1 DEF A6Begun, A6Start
    <3>1. A6Start \in 1 .. Len(stream) + 1
      BY <3>0
    <3>2. CASE Len(a6Buffer) <= 2
      <4>1. A6Start + 2 > Len(stream)
        BY <3>0, <3>2
      <4> QED  BY <2>1, <3>1, <4>1, ModuleCutOff
    <3>3. CASE Len(a6Buffer) > 2
      <4>1. /\ a6Buffer # <<>> /\ a6Buffer[1] = 166
            /\ a6Length = a6Buffer[2] * 256 + a6Buffer[3]
            /\ a6Length \in 0 .. 512 /\ Len(a6Buffer) < a6Length + 6
        BY <2>0, <3>3 DEF A6Begun
      <4>2. \A j \in {1, 2, 3} : a6Buffer[j] = stream[A6Start + j - 1]
        BY <2>0, <3>0, <3>3 DEF A6Begun
      <4>3. A6Start + 1 - 1 = A6Start /\ A6Start + 2 - 1 = A6Start + 1
            /\ A6Start + 3 - 1 = A6Start + 2
        BY <3>0
      <4>4. stream[A6Start] = 166 /\ ModuleLength(stream, A6Start) = a6Length
        BY <4>1, <4>2, <4>3 DEF ModuleLength
      <4>5. ModuleLast(stream, A6Start) = A6Start + 5 + a6Length
        BY <4>4 DEF ModuleLast
      <4>6. ModuleLast(stream, A6Start) > Len(stream)
        BY <3>0, <4>1, <4>5
      <4>7. ModuleLength(stream, A6Start) <= 512
        <5>1. a6Length \in 0 .. 512
          BY <4>1
        <5>2. a6Length <= 512
          BY <5>1, LengthBound, Zenon
        <5> QED  BY <4>4, <5>2, Zenon
      <4> QED  BY <2>1, <3>1, <4>4, <4>6, <4>7, ModuleCutOff
    <3> QED  BY <3>0, <3>2, <3>3
  <2> QED  BY <2>1, <2>2, <2>3 DEF ModulePacketsAreFrames
<1> QED  BY <1>1, Invariance, PTL
=============================================================================
