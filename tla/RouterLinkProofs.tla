-------------------------- MODULE RouterLinkProofs --------------------------
(***************************************************************************)
(* The link for every length of message, every depth of the receive fifo   *)
(* and every set of messages: its registers have their types, and while    *)
(* the receiver is at most one cycle late the link is a LinkChannel.       *)
(***************************************************************************)
EXTENDS RouterLink, Integers, SequenceTheorems, TLAPS

(***************************************************************************)
(* The inductive invariant.  Line(m, j) is the nybble on the wires j       *)
(* cycles after the frame of m began; before it and after it they are Fs.  *)
(* Half is 1 in the second half of a cycle, when the receiver has shifted  *)
(* its synchroniser and the transmitter has not yet moved on.              *)
(***************************************************************************)
Line(m, j) == IF j \in 0..LastCnt THEN Frame(m)[j \div 4 + 1] ELSE 15
Half == IF turn = "rx" THEN 0 ELSE 1
Newest == flight[Len(flight)]

Types ==
  /\ turn \in {"rx", "tx"} /\ txing \in BOOLEAN /\ empty \in BOOLEAN /\ rd \in BOOLEAN
  /\ wf \in BOOLEAN /\ fdo \in Payload \cup {None} /\ (~empty => fdo \in Payload)
  /\ txCnt \in 0..LastCnt /\ rxCnt \in 0..LastCnt + 1 /\ rxState \in {"IDLE", "CNT"}
  /\ rxdd \in [1..4 -> 0..15]
  /\ txData \in [1..Nybbles + 2 -> 0..15] /\ rxData \in [1..Nybbles + 2 -> 0..15]
  /\ fifo \in Seq([1..Nybbles -> 0..15]) /\ Len(fifo) <= RxDepth
  /\ flight \in Seq(Payload) /\ gap \in Nat /\ late \in Nat
  /\ rxState = "CNT" => rxCnt <= LastCnt
  /\ wf => rxState = "CNT" /\ rxCnt = LastCnt /\ Len(fifo) < RxDepth

\* The transmitter: its shift register holds what is left of the newest frame, and the
\* frame in its buffer will not come too early.
TxOK ==
  /\ rd => txing /\ txCnt = 0 /\ ~empty
  /\ ~empty /\ ~rd => Lag(gap) <= MaxLate
  /\ late <= MaxLate
  /\ txing => /\ flight # <<>> /\ gap = 0
              /\ \A i \in 1..Nybbles + 2 : txData[i] = Line(Newest, txCnt + 4 * (i - 1))
  /\ ~txing => \A i \in 1..Nybbles + 2 : txData[i] = 15

\* What the receiver has sampled of the frame of m: its first nybbles, in the last
\* places of the shift register.
Taken == (rxCnt + 2) \div 4
Sampled(m) == \A i \in 1..Taken : rxData[Nybbles + 2 - Taken + i] = Frame(m)[i]

\* n frames are under way, the one the receiver is in among them; its end is stored in
\* the last cycle, unless it was lost in the cycle before.
Under(n) ==
  /\ rxCnt < LastCnt => ~wf
  /\ Len(flight) = IF rxCnt = LastCnt /\ ~wf THEN n - 1 ELSE n

\* No frame is under way.
Quiet ==
  /\ rxState = "IDLE" /\ ~txing /\ flight = <<>> /\ ~wf /\ gap = MaxLate + 1
  /\ \A i \in 1..4 : rxdd[i] = 15

\* A frame has begun that the receiver has not seen; it is idle.
Coming ==
  /\ rxState = "IDLE" /\ txing /\ Len(flight) = 1 /\ ~wf
  /\ txCnt + Half <= 4 + late /\ (late > 0 => txCnt + Half = 4 + late)
  /\ \A i \in 1..4 : rxdd[i] = Line(Newest, txCnt - i + Half)

\* The receiver is in the newest frame.
Pos == rxCnt + 5 + late - Half

Inside ==
  /\ rxState = "CNT" /\ Under(1)
  /\ IF txing THEN txCnt = Pos
     ELSE Pos > LastCnt /\ gap = IF Pos - LastCnt <= MaxLate THEN Pos - LastCnt ELSE MaxLate + 1
  /\ IF flight = <<>> THEN \A i \in 1..4 : rxdd[i] = 15
     ELSE Sampled(Newest) /\ \A i \in 1..4 : rxdd[i] = Line(Newest, Pos - i + Half)

\* The receiver is at the end of a frame, and the next one has begun.
Behind ==
  /\ rxState = "CNT" /\ Under(2) /\ txing
  /\ rxCnt >= LastCnt - 3 - late + txCnt + Half
  /\ late > 0 => rxCnt = LastCnt - 3 - late + txCnt + Half
  /\ Len(flight) = 2 => Sampled(flight[1])
  /\ \A i \in 1..4 : rxdd[i] = Line(Newest, txCnt - i + Half)

LinkInv == Types /\ TxOK /\ (Quiet \/ Coming \/ Inside \/ Behind)

(***************************************************************************)
(* Numbers, frames and shift registers.                                    *)
(***************************************************************************)
LEMMA Sizes ==
  /\ Nybbles \in Nat /\ Nybbles >= 1 /\ LastCnt = 4 * Nybbles + 7 /\ StopAt = 4 * Nybbles + 6
  /\ RxDepth \in Nat /\ RxDepth >= 1 /\ MaxLate \in Nat
BY RouterLinkAssumption DEF LastCnt, StopAt

LEMMA MapIsSeq ==
  ASSUME NEW S, NEW n \in Nat, NEW s \in [1..n -> S]
  PROVE  s \in Seq(S) /\ Len(s) = n
<1>1. s \in Seq(S) /\ DOMAIN s = 1..n
  BY SeqDef
<1>2. QED BY <1>1, LenProperties

LEMMA FrameFacts ==
  ASSUME NEW m \in Payload
  PROVE  /\ m \in [1..Nybbles -> 0..15]
         /\ Frame(m) \in [1..Nybbles + 2 -> 0..15]
         /\ Frame(m)[1] = 0 /\ Frame(m)[Nybbles + 2] = 15
         /\ \A i \in 1..Nybbles : Frame(m)[i + 1] = m[i]
<1>1. m \in [1..Nybbles -> 0..15]
  BY RouterLinkAssumption
<1>2. m \in Seq(0..15) /\ Len(m) = Nybbles
  BY <1>1, Sizes, MapIsSeq
<1>3. <<0>> \in Seq(0..15) /\ <<15>> \in Seq(0..15) /\ Len(<<0>>) = 1 /\ Len(<<15>>) = 1
  OBVIOUS
<1> DEFINE b == <<0>> \o m
<1>4. /\ b \in Seq(0..15) /\ Len(b) = Nybbles + 1 /\ b[1] = 0
      /\ \A i \in 1..Nybbles : b[i + 1] = m[i]
  <2>1. b \in Seq(0..15) /\ Len(b) = 1 + Nybbles
    BY <1>2, <1>3, ConcatProperties
  <2>2. \A i \in 1..1 + Nybbles : b[i] = IF i <= 1 THEN <<0>>[i] ELSE m[i - 1]
    BY <1>2, <1>3, <2>1, ConcatProperties
  <2>3. QED BY <2>1, <2>2, Sizes
<1> HIDE DEF b
<1>5. /\ b \o <<15>> \in Seq(0..15) /\ Len(b \o <<15>>) = Nybbles + 2
      /\ \A i \in 1..Nybbles + 2 : (b \o <<15>>)[i] = IF i <= Nybbles + 1 THEN b[i] ELSE <<15>>[i - Nybbles - 1]
  <2>1. b \o <<15>> \in Seq(0..15) /\ Len(b \o <<15>>) = (Nybbles + 1) + 1
    BY <1>3, <1>4, ConcatProperties
  <2>2. \A i \in 1..(Nybbles + 1) + 1 :
          (b \o <<15>>)[i] = IF i <= Nybbles + 1 THEN b[i] ELSE <<15>>[i - (Nybbles + 1)]
    BY <1>3, <1>4, <2>1, ConcatProperties
  <2>3. QED BY <2>1, <2>2, Sizes
<1>6. Frame(m) = b \o <<15>>
  BY DEF Frame, b
<1>7. Frame(m) \in [1..Nybbles + 2 -> 0..15]
  BY <1>5, <1>6, Sizes, LenProperties, SeqDef
<1>8. Frame(m)[1] = 0 /\ Frame(m)[Nybbles + 2] = 15
  BY <1>4, <1>5, <1>6, Sizes
<1>9. \A i \in 1..Nybbles : Frame(m)[i + 1] = m[i]
  BY <1>4, <1>5, <1>6, Sizes
<1>10. QED BY <1>1, <1>7, <1>8, <1>9

\* A shift register takes v in at its end.
LEMMA ShiftIn ==
  ASSUME NEW S, NEW n \in Nat, n >= 1, NEW s \in [1..n -> S], NEW v \in S
  PROVE  /\ Append(Tail(s), v) \in [1..n -> S]
         /\ \A i \in 1..n : Append(Tail(s), v)[i] = IF i < n THEN s[i + 1] ELSE v
<1>1. s \in Seq(S) /\ Len(s) = n
  BY MapIsSeq
<1>2. s # <<>>
  BY <1>1
<1>3. Tail(s) \in Seq(S) /\ Len(Tail(s)) = n - 1 /\ \A i \in 1..n - 1 : Tail(s)[i] = s[i + 1]
  BY <1>1, <1>2, HeadTailProperties
<1> DEFINE t == Tail(s)
<1> HIDE DEF t
<1>4. t \in Seq(S) /\ Len(t) = n - 1 /\ \A i \in 1..n - 1 : t[i] = s[i + 1]
  BY <1>3 DEF t
<1>5. /\ Append(t, v) \in Seq(S) /\ Len(Append(t, v)) = n
      /\ \A i \in 1..n - 1 : Append(t, v)[i] = t[i]
      /\ Append(t, v)[n] = v
  BY <1>4, AppendProperties
<1>6. Append(t, v) \in [1..n -> S]
  BY <1>5, LenProperties, SeqDef
<1>7. QED BY <1>4, <1>5, <1>6 DEF t

\* The synchroniser takes the wires in at its beginning.
LEMMA ShiftWires ==
  ASSUME NEW S, NEW s \in [1..4 -> S], NEW v \in S
  PROVE  /\ <<v>> \o SubSeq(s, 1, 3) \in [1..4 -> S]
         /\ \A i \in 1..4 : (<<v>> \o SubSeq(s, 1, 3))[i] = IF i = 1 THEN v ELSE s[i - 1]
<1>1. s \in Seq(S) /\ Len(s) = 4
  BY MapIsSeq
<1> DEFINE t == SubSeq(s, 1, 3)
<1>2. t \in Seq(S) /\ Len(t) = 3 /\ \A i \in 1..3 : t[i] = s[i]
  BY <1>1, SubSeqProperties
<1> HIDE DEF t
<1> DEFINE w == <<v>>
<1>3. w \in Seq(S) /\ Len(w) = 1 /\ w[1] = v
  OBVIOUS
<1> HIDE DEF w
<1> DEFINE u == w \o t
<1>4. u \in Seq(S) /\ Len(u) = 1 + 3 /\ \A i \in 1..1 + 3 : u[i] = IF i <= 1 THEN w[i] ELSE t[i - 1]
  <2>1. /\ u \in Seq(S) /\ Len(u) = Len(w) + Len(t)
        /\ \A i \in 1..Len(w) + Len(t) : u[i] = IF i <= Len(w) THEN w[i] ELSE t[i - Len(w)]
    BY <1>2, <1>3, ConcatProperties
  <2>2. QED BY <1>2, <1>3, <2>1
<1> HIDE DEF u
<1>5. u \in [1..4 -> S]
  <2>1. Len(u) = 4
    BY <1>4
  <2>2. QED BY <1>4, <2>1, LenProperties
<1>6. \A i \in 1..4 : u[i] = IF i = 1 THEN v ELSE s[i - 1]
  BY <1>2, <1>3, <1>4
<1>7. QED BY <1>5, <1>6 DEF t, u, w

\* The message of a frame.
LEMMA Unframed ==
  ASSUME NEW m \in Payload, NEW s \in [1..Nybbles + 2 -> 0..15],
         \A i \in 1..Nybbles + 2 : s[i] = Frame(m)[i]
  PROVE  SubSeq(s, 2, Nybbles + 1) = m
<1> DEFINE t == SubSeq(s, 2, Nybbles + 1)
<1>1. s \in Seq(0..15) /\ Len(s) = Nybbles + 2
  BY Sizes, MapIsSeq
<1>2. t \in Seq(0..15) /\ Len(t) = Nybbles /\ \A i \in 1..Nybbles : t[i] = s[i + 1]
  BY <1>1, Sizes, SubSeqProperties
<1> HIDE DEF t
<1>3. m \in [1..Nybbles -> 0..15] /\ \A i \in 1..Nybbles : Frame(m)[i + 1] = m[i]
  BY FrameFacts
<1>4. m \in Seq(0..15) /\ Len(m) = Nybbles
  BY <1>3, Sizes, MapIsSeq
<1>5. \A i \in 1..Nybbles : t[i] = m[i]
  BY <1>2, <1>3, Sizes
<1>6. t = m
  BY <1>2, <1>4, <1>5, SeqEqual
<1>7. QED BY <1>6 DEF t

(***************************************************************************)
(* Types.                                                                  *)
(***************************************************************************)
LEMMA TypesInit == Init => Types
<1> SUFFICES ASSUME Init PROVE Types
  OBVIOUS
<1>1. Ones \in [1..Nybbles + 2 -> 0..15]
  BY DEF Ones
<1>2. rxdd \in [1..4 -> 0..15]
  <2>1. rxdd = <<15, 15, 15, 15>>
    BY DEF Init
  <2>2. rxdd \in Seq(0..15) /\ Len(rxdd) = 4
    BY <2>1
  <2>3. QED BY <2>2, LenProperties
<1>3. fifo = <<>> /\ flight = <<>> /\ gap = MaxLate + 1 /\ late = 0 /\ txCnt = 0 /\ rxCnt = 0
  BY DEF Init
<1>4. /\ fifo \in Seq([1..Nybbles -> 0..15]) /\ Len(fifo) <= RxDepth /\ flight \in Seq(Payload)
      /\ gap \in Nat /\ late \in Nat /\ txCnt \in 0..LastCnt /\ rxCnt \in 0..LastCnt + 1
  <2>1. gap \in Nat /\ late \in Nat /\ txCnt \in 0..LastCnt /\ rxCnt \in 0..LastCnt + 1
    BY <1>3, Sizes
  <2>2. Len(fifo) <= RxDepth
    BY <1>3, Sizes
  <2>3. QED BY <1>3, <2>1, <2>2, EmptySeq
<1>5. QED BY <1>1, <1>2, <1>4 DEF Init, Types

LEMMA TypesOfUsers == ASSUME Types, (\E m \in Payload : Put(m)) \/ Pop PROVE Types'
<1>1. CASE \E m \in Payload : Put(m)
  <2>1. PICK m \in Payload : Put(m)
    BY <1>1
  <2>2. /\ fdo' = m /\ empty' = FALSE
        /\ UNCHANGED <<turn, txing, txData, txCnt, rd, rxdd, rxState, rxCnt, rxData, wf, fifo,
                       flight, gap, late>>
    BY <2>1 DEF Put, rxRegs
  <2>3. QED BY <2>2 DEF Types
<1>2. CASE Pop
  <2>1. /\ fifo # <<>> /\ fifo' = Tail(fifo)
        /\ UNCHANGED <<turn, txing, empty, fdo, txData, txCnt, rd, rxdd, rxState, rxCnt, rxData, wf,
                       flight, gap, late>>
    BY <1>2 DEF Pop, txRegs
  <2>2. fifo \in Seq([1..Nybbles -> 0..15]) /\ Len(fifo) \in Nat /\ Len(fifo) <= RxDepth
    BY LenProperties DEF Types
  <2>3. fifo' \in Seq([1..Nybbles -> 0..15]) /\ Len(fifo') = Len(fifo) - 1
    BY <2>1, <2>2, HeadTailProperties
  <2>4. Len(fifo') <= RxDepth /\ (Len(fifo) < RxDepth => Len(fifo') < RxDepth)
    BY <2>2, <2>3, Sizes
  <2>5. QED BY <2>1, <2>3, <2>4 DEF Types
<1>3. QED BY <1>1, <1>2

LEMMA TypesOfTx == ASSUME Types, TxCycle PROVE Types'
<1>1. /\ UNCHANGED <<fdo, rxdd, rxState, rxCnt, rxData, wf, fifo>> /\ turn' = "rx"
  BY DEF TxCycle, rxRegs
<1>2. /\ txing' \in BOOLEAN /\ empty' \in BOOLEAN /\ rd' \in BOOLEAN /\ (~empty' => ~empty)
      /\ txCnt' \in 0..LastCnt /\ txData' \in [1..Nybbles + 2 -> 0..15]
      /\ flight' \in Seq(Payload) /\ gap' \in Nat /\ late' \in Nat
  <2>1. CASE LoadFrame
    <3>1. /\ txing' = TRUE /\ txData' = Frame(fdo) /\ txCnt' = 0 /\ rd' = TRUE
          /\ empty' = (IF rd THEN TRUE ELSE empty) /\ flight' = Append(flight, fdo)
          /\ late' = Lag(gap) /\ gap' = 0 /\ ~empty
      BY <2>1 DEF LoadFrame
    <3>2. fdo \in Payload /\ flight \in Seq(Payload) /\ gap \in Nat /\ late \in Nat
      BY <3>1 DEF Types
    <3>3. Frame(fdo) \in [1..Nybbles + 2 -> 0..15] /\ Append(flight, fdo) \in Seq(Payload)
      BY <3>2, FrameFacts, AppendProperties
    <3>4. Lag(gap) \in Nat /\ 0 \in 0..LastCnt
      BY <3>2, Sizes DEF Lag
    <3>5. QED BY <3>1, <3>3, <3>4 DEF Types
  <2>2. CASE StayFree
    <3>1. /\ txing' = FALSE /\ txCnt' = 0 /\ rd' = FALSE /\ gap' = (IF gap <= MaxLate THEN gap + 1 ELSE gap)
          /\ UNCHANGED <<txData, empty, flight, late>>
      BY <2>2 DEF StayFree
    <3>2. gap' \in Nat /\ 0 \in 0..LastCnt
      BY <3>1, Sizes DEF Types
    <3>3. QED BY <3>1, <3>2 DEF Types
  <2>3. CASE Shift
    <3>1. /\ ~Free /\ txCnt' = txCnt + 1 /\ rd' = FALSE /\ empty' = (IF rd THEN TRUE ELSE empty)
          /\ txData' = (IF txCnt % 4 = 3 THEN Append(Tail(txData), 15) ELSE txData)
          /\ UNCHANGED <<txing, flight, gap, late>>
      BY <2>3 DEF Shift
    <3>2. txCnt' \in 0..LastCnt
      BY <3>1, Sizes DEF Free, Types
    <3>3. Append(Tail(txData), 15) \in [1..Nybbles + 2 -> 0..15]
      <4>1. txData \in [1..Nybbles + 2 -> 0..15] /\ Nybbles + 2 \in Nat /\ Nybbles + 2 >= 1 /\ 15 \in 0..15
        BY Sizes DEF Types
      <4>2. QED BY <4>1, ShiftIn
    <3>4. QED BY <3>1, <3>2, <3>3 DEF Types
  <2>4. QED BY <2>1, <2>2, <2>3 DEF TxCycle
<1>3. QED BY <1>1, <1>2 DEF Types

LEMMA TypesOfRx == ASSUME Types, RxCycle PROVE Types'
<1>1. UNCHANGED <<txing, empty, fdo, txData, txCnt, rd, gap, late>> /\ turn' = "tx"
  BY DEF RxCycle, txRegs
<1>2. rxdd' \in [1..4 -> 0..15]
  <2>1. rxdd' = <<txd>> \o SubSeq(rxdd, 1, 3) /\ txd \in 0..15 /\ rxdd \in [1..4 -> 0..15]
    BY Sizes DEF RxCycle, Types, txd
  <2>2. QED BY <2>1, ShiftWires
<1>3. fifo' \in Seq([1..Nybbles -> 0..15]) /\ Len(fifo') <= RxDepth
  <2>1. fifo \in Seq([1..Nybbles -> 0..15]) /\ Len(fifo) \in Nat /\ Len(fifo) <= RxDepth
        /\ (wf => Len(fifo) < RxDepth)
    BY LenProperties DEF Types
  <2>2. Stored \in [1..Nybbles -> 0..15]
    <3>1. rxData \in [1..Nybbles + 2 -> 0..15]
      BY DEF Types
    <3>2. rxData \in Seq(0..15) /\ Len(rxData) = Nybbles + 2
      BY <3>1, Sizes, MapIsSeq
    <3>3. Stored \in Seq(0..15) /\ Len(Stored) = Nybbles
      BY <3>1, Sizes, SubSeqProperties DEF Stored
    <3>4. QED BY <3>3, LenProperties
  <2>3. Append(fifo, Stored) \in Seq([1..Nybbles -> 0..15]) /\ Len(Append(fifo, Stored)) = Len(fifo) + 1
    BY <2>1, <2>2, AppendProperties
  <2>4. CASE wf
    BY <2>1, <2>3, <2>4, Sizes DEF RxCycle
  <2>5. CASE ~wf
    BY <2>1, <2>5 DEF RxCycle
  <2>6. QED BY <2>4, <2>5
<1>4. flight' \in Seq(Payload)
  <2>1. flight \in Seq(Payload)
    BY DEF Types
  <2>2. flight' = flight \/ (flight # <<>> /\ flight' = Tail(flight))
    BY DEF RxCycle
  <2>3. QED BY <2>1, <2>2, HeadTailProperties
<1>5. /\ wf' \in BOOLEAN /\ rxState' \in {"IDLE", "CNT"} /\ rxCnt' \in 0..LastCnt + 1
      /\ rxData' \in [1..Nybbles + 2 -> 0..15] /\ (rxState' = "CNT" => rxCnt' <= LastCnt)
      /\ (wf' => rxState' = "CNT" /\ rxCnt' = LastCnt /\ ~wf /\ Len(fifo) < RxDepth)
  <2>1. CASE Start
    <3>1. rxState' \in {"IDLE", "CNT"} /\ rxCnt' = 0 /\ wf' = FALSE /\ rxData' = rxData
      BY <2>1 DEF Start
    <3>2. 0 \in 0..LastCnt + 1 /\ 0 <= LastCnt
      BY Sizes
    <3>3. QED BY <3>1, <3>2 DEF Types
  <2>2. CASE Sample
    <3>1. /\ rxState = "CNT" /\ rxState' = (IF rxCnt = LastCnt \/ FalseStart THEN "IDLE" ELSE "CNT")
          /\ rxCnt' = rxCnt + 1
          /\ rxData' = (IF rxCnt % 4 = 1 THEN Append(Tail(rxData), rxdd[4]) ELSE rxData)
          /\ wf' = (rxCnt = StopAt /\ Len(fifo) < RxDepth)
      BY <2>2 DEF Sample
    <3>2. rxCnt \in Nat /\ rxCnt <= LastCnt
      BY <3>1, Sizes DEF Types
    <3>3. rxCnt' \in 0..LastCnt + 1 /\ (rxState' = "CNT" => rxCnt' <= LastCnt)
      BY <3>1, <3>2, Sizes
    <3>4. Append(Tail(rxData), rxdd[4]) \in [1..Nybbles + 2 -> 0..15]
      <4>1. /\ rxData \in [1..Nybbles + 2 -> 0..15] /\ Nybbles + 2 \in Nat /\ Nybbles + 2 >= 1
            /\ rxdd[4] \in 0..15
        BY Sizes DEF Types
      <4>2. QED BY <4>1, ShiftIn
    <3>5. wf' => rxState' = "CNT" /\ rxCnt' = LastCnt /\ ~wf /\ Len(fifo) < RxDepth
      <4>1. SUFFICES ASSUME wf' PROVE rxState' = "CNT" /\ rxCnt' = LastCnt /\ ~wf /\ Len(fifo) < RxDepth
        OBVIOUS
      <4>2. rxCnt = StopAt /\ Len(fifo) < RxDepth
        BY <3>1, <4>1
      <4>3. rxCnt + 1 = LastCnt /\ rxCnt # LastCnt /\ rxCnt # 1
        BY <4>2, Sizes
      <4>4. QED BY <3>1, <4>2, <4>3 DEF FalseStart, Types
    <3>6. QED BY <3>1, <3>3, <3>4, <3>5 DEF Types
  <2>3. QED BY <2>1, <2>2 DEF RxCycle
<1>6. wf' => Len(fifo') < RxDepth
  <2>1. SUFFICES ASSUME wf' PROVE Len(fifo') < RxDepth
    OBVIOUS
  <2>2. ~wf /\ Len(fifo) < RxDepth
    BY <1>5, <2>1
  <2>3. QED BY <2>2 DEF RxCycle
<1>7. QED BY <1>1, <1>2, <1>3, <1>4, <1>5, <1>6 DEF Types

LEMMA TypesStep == ASSUME Types, [Next]_linkVars PROVE Types'
<1>1. CASE Next
  BY <1>1, TypesOfUsers, TypesOfTx, TypesOfRx DEF Next
<1>2. CASE UNCHANGED linkVars
  BY <1>2 DEF linkVars, txRegs, rxRegs, Types
<1>3. QED BY <1>1, <1>2

LEMMA TypesHold == Spec => []Types
BY TypesInit, TypesStep, PTL DEF Spec

\* The registers of routerTxBs and routerRxBs and the fifo keep their types, and the
\* receiver's count never leaves the frame, however closely frames follow each other.
THEOREM LinkTypes == Spec => []LinkTypeOK
<1>1. Types => LinkTypeOK
  <2>1. SUFFICES ASSUME Types PROVE LinkTypeOK
    OBVIOUS
  <2>2. Len(txData) = Nybbles + 2 /\ Len(rxData) = Nybbles + 2
    <3>1. /\ txData \in [1..Nybbles + 2 -> 0..15] /\ rxData \in [1..Nybbles + 2 -> 0..15]
          /\ Nybbles + 2 \in Nat
      BY <2>1, Sizes DEF Types
    <3>2. QED BY <3>1, MapIsSeq
  <2>3. QED BY <2>1, <2>2 DEF Types, LinkTypeOK
<1>2. QED BY <1>1, TypesHold, PTL

(***************************************************************************)
(* What is on the wires.                                                   *)
(***************************************************************************)
LEMMA LineFacts ==
  ASSUME NEW m \in Payload, NEW j \in Int
  PROVE  /\ Line(m, j) \in 0..15
         /\ j < 0 => Line(m, j) = 15
         /\ j \in 0..3 => Line(m, j) = 0
         /\ j >= LastCnt - 3 => Line(m, j) = 15
         /\ j \in 0..LastCnt => j \div 4 + 1 \in 1..Nybbles + 2 /\ Line(m, j) = Frame(m)[j \div 4 + 1]
<1>1. LastCnt = 4 * Nybbles + 7 /\ Nybbles \in Nat
  BY Sizes
<1>2. /\ Frame(m) \in [1..Nybbles + 2 -> 0..15] /\ Frame(m)[1] = 0 /\ Frame(m)[Nybbles + 2] = 15
  BY FrameFacts
<1>3. j \in 0..LastCnt => j \div 4 + 1 \in 1..Nybbles + 2 /\ Line(m, j) = Frame(m)[j \div 4 + 1]
  BY <1>1 DEF Line
<1>4. j \notin 0..LastCnt => Line(m, j) = 15
  BY DEF Line
<1>5. Line(m, j) \in 0..15
  BY <1>2, <1>3, <1>4
<1>6. j \in 0..3 => Line(m, j) = 0
  <2>1. j \in 0..3 => j \in 0..LastCnt /\ j \div 4 + 1 = 1
    BY <1>1
  <2>2. QED BY <1>2, <1>3, <2>1
<1>7. j >= LastCnt - 3 => Line(m, j) = 15
  <2>1. j >= LastCnt - 3 /\ j \in 0..LastCnt => j \div 4 + 1 = Nybbles + 2
    BY <1>1
  <2>2. QED BY <1>1, <1>2, <1>3, <1>4, <2>1
<1>8. j < 0 => Line(m, j) = 15
  BY <1>4
<1>9. QED BY <1>3, <1>5, <1>6, <1>7, <1>8

\* Four cycles show the same nybble; then the next one is at the front.
LEMMA LineShift ==
  ASSUME NEW m \in Payload, NEW c \in 0..LastCnt, NEW i \in 1..Nybbles + 2
  PROVE  /\ c % 4 # 3 => Line(m, (c + 1) + 4 * (i - 1)) = Line(m, c + 4 * (i - 1))
         /\ c % 4 = 3 => Line(m, (c + 1) + 4 * (i - 1)) =
                           IF i < Nybbles + 2 THEN Line(m, c + 4 * ((i + 1) - 1)) ELSE 15
<1>1. LastCnt = 4 * Nybbles + 7 /\ Nybbles \in Nat /\ c \in Nat
  BY Sizes
<1>2. CASE c % 4 # 3
  <2> DEFINE j == c + 4 * (i - 1)
  <2>1. j \in Nat /\ (c + 1) + 4 * (i - 1) = j + 1
    BY <1>1
  <2>2. j % 4 # 3
    BY <1>1, <1>2
  <2> HIDE DEF j
  <2>3. (j + 1) \div 4 = j \div 4 /\ (j \in 0..LastCnt <=> j + 1 \in 0..LastCnt)
    BY <1>1, <2>1, <2>2
  <2>4. Line(m, j + 1) = Line(m, j)
    BY <2>3 DEF Line
  <2>5. QED BY <1>2, <2>1, <2>4 DEF j
<1>3. CASE c % 4 = 3
  <2> DEFINE j == (c + 1) + 4 * (i - 1)
  <2>1. j \in Nat /\ j % 4 = 0
    BY <1>1, <1>3
  <2>2. CASE i < Nybbles + 2
    <3>1. c + 4 * ((i + 1) - 1) = j + 3
      BY <1>1
    <3> HIDE DEF j
    <3>2. (j + 3) \div 4 = j \div 4 /\ (j \in 0..LastCnt <=> j + 3 \in 0..LastCnt)
      BY <1>1, <2>1
    <3>3. Line(m, j + 3) = Line(m, j)
      BY <3>2 DEF Line
    <3>4. QED BY <1>3, <2>2, <3>1, <3>3 DEF j
  <2>3. CASE ~(i < Nybbles + 2)
    <3>1. j >= LastCnt - 3
      BY <1>1, <1>3, <2>3
    <3> HIDE DEF j
    <3>2. Line(m, j) = 15
      BY <2>1, <3>1, LineFacts
    <3>3. QED BY <1>3, <2>3, <3>2 DEF j
  <2>4. QED BY <2>2, <2>3
<1>4. QED BY <1>2, <1>3

(***************************************************************************)
(* The transmitter.                                                        *)
(***************************************************************************)
LEMMA NewestIn == ASSUME Types, flight # <<>> PROVE Newest \in Payload /\ Len(flight) \in Nat /\ Len(flight) >= 1
<1>1. flight \in Seq(Payload)
  BY DEF Types
<1>2. Len(flight) \in Nat /\ Len(flight) # 0
  BY <1>1, EmptySeq, LenProperties
<1>3. Len(flight) \in 1..Len(flight)
  BY <1>2
<1>4. QED BY <1>1, <1>2, <1>3, ElementOfSeq DEF Newest

\* What goes on the wires next.
LEMMA OnWires ==
  ASSUME Types, TxOK
  PROVE  /\ txd \in 0..15
         /\ txing => flight # <<>> /\ txd = Line(Newest, txCnt)
         /\ ~txing => txd = 15
<1>1. 1 \in 1..Nybbles + 2 /\ txCnt \in Int
  BY Sizes DEF Types
<1>2. txCnt + 4 * (1 - 1) = txCnt
  BY <1>1
<1>3. txd \in 0..15
  BY <1>1 DEF Types, txd
<1>4. txing => txd = Line(Newest, txCnt)
  <2>1. txing => txData[1] = Line(Newest, txCnt + 4 * (1 - 1))
    BY <1>1 DEF TxOK
  <2>2. QED BY <1>2, <2>1 DEF txd
<1>5. QED BY <1>1, <1>3, <1>4 DEF TxOK, txd

LEMMA LoadTx ==
  ASSUME Types, TxOK, LoadFrame
  PROVE  /\ TxOK' /\ ~rd /\ late' = Lag(gap)
         /\ flight' = Append(flight, fdo) /\ fdo \in Payload /\ txing' /\ txCnt' = 0
<1>1. /\ Free /\ ~empty /\ txing' = TRUE /\ txData' = Frame(fdo) /\ txCnt' = 0 /\ rd' = TRUE
      /\ empty' = (IF rd THEN TRUE ELSE empty) /\ flight' = Append(flight, fdo)
      /\ late' = Lag(gap) /\ gap' = 0
  BY DEF LoadFrame
<1>2. ~rd
  <2>1. rd => txing /\ txCnt = 0
    BY DEF TxOK
  <2>2. LastCnt # 0
    BY Sizes
  <2>3. QED BY <1>1, <2>1, <2>2 DEF Free
<1>3. fdo \in Payload /\ flight \in Seq(Payload)
  BY <1>1 DEF Types
<1>4. flight' # <<>> /\ Newest' = fdo
  <2>1. /\ Append(flight, fdo) # <<>> /\ Len(Append(flight, fdo)) = Len(flight) + 1
        /\ Append(flight, fdo)[Len(flight) + 1] = fdo
    BY <1>3, AppendProperties
  <2>2. QED BY <1>1, <2>1 DEF Newest
<1>5. ASSUME NEW i \in 1..Nybbles + 2 PROVE txData'[i] = Line(fdo, 0 + 4 * (i - 1))
  <2> DEFINE j == 0 + 4 * (i - 1)
  <2>1. j \in 0..LastCnt /\ j \div 4 + 1 = i
    BY Sizes
  <2> HIDE DEF j
  <2>2. Line(fdo, j) = Frame(fdo)[i]
    BY <2>1 DEF Line
  <2>3. QED BY <1>1, <2>2 DEF j
<1>6. late' <= MaxLate
  BY <1>1, <1>2 DEF TxOK
<1>7. TxOK'
  BY <1>1, <1>2, <1>4, <1>5, <1>6 DEF TxOK
<1>8. QED BY <1>1, <1>2, <1>3, <1>7

LEMMA StayTx == ASSUME Types, TxOK, StayFree PROVE TxOK'
<1>1. /\ Free /\ empty /\ txing' = FALSE /\ rd' = FALSE /\ UNCHANGED <<txData, empty, flight, late>>
  BY DEF StayFree
<1>2. ASSUME NEW i \in 1..Nybbles + 2 PROVE txData[i] = 15
  <2>1. CASE ~txing
    BY <2>1 DEF TxOK
  <2>2. CASE txing
    <3> DEFINE j == txCnt + 4 * (i - 1)
    <3>1. txCnt = LastCnt /\ j \in Int /\ j >= LastCnt - 3
      BY <1>1, <2>2, Sizes DEF Free
    <3>2. flight # <<>> /\ txData[i] = Line(Newest, j)
      BY <2>2 DEF TxOK
    <3> HIDE DEF j
    <3>3. Newest \in Payload
      BY <3>2, NewestIn
    <3>4. QED BY <3>1, <3>2, <3>3, LineFacts
  <2>3. QED BY <2>1, <2>2
<1>3. QED BY <1>1, <1>2 DEF TxOK

LEMMA ShiftTx == ASSUME Types, TxOK, Shift PROVE TxOK' /\ txing /\ txCnt' = txCnt + 1 /\ UNCHANGED <<txing, flight, gap, late>>
<1>1. /\ ~Free /\ txCnt' = txCnt + 1 /\ rd' = FALSE /\ empty' = (IF rd THEN TRUE ELSE empty)
      /\ txData' = (IF txCnt % 4 = 3 THEN Append(Tail(txData), 15) ELSE txData)
      /\ UNCHANGED <<txing, flight, gap, late>>
  BY DEF Shift
<1>2. txing /\ flight # <<>> /\ gap = 0 /\ Newest' = Newest
  BY <1>1 DEF Free, TxOK, Newest
<1>3. Newest \in Payload /\ txCnt \in 0..LastCnt
  BY <1>2, NewestIn DEF Types
<1>4. /\ txData \in [1..Nybbles + 2 -> 0..15]
      /\ \A i \in 1..Nybbles + 2 : txData[i] = Line(Newest, txCnt + 4 * (i - 1))
  BY <1>2 DEF Types, TxOK
<1>5. ASSUME NEW i \in 1..Nybbles + 2 PROVE txData'[i] = Line(Newest, (txCnt + 1) + 4 * (i - 1))
  <2>1. CASE txCnt % 4 # 3
    BY <1>1, <1>3, <1>4, <2>1, LineShift
  <2>2. CASE txCnt % 4 = 3
    <3>1. txData'[i] = IF i < Nybbles + 2 THEN txData[i + 1] ELSE 15
      <4>1. Nybbles + 2 \in Nat /\ Nybbles + 2 >= 1 /\ 15 \in 0..15
        BY Sizes
      <4>2. \A k \in 1..Nybbles + 2 : Append(Tail(txData), 15)[k] = IF k < Nybbles + 2 THEN txData[k + 1] ELSE 15
        BY <1>4, <4>1, ShiftIn
      <4>3. QED BY <1>1, <2>2, <4>2
    <3>2. i < Nybbles + 2 => i + 1 \in 1..Nybbles + 2
      BY Sizes
    <3>3. i < Nybbles + 2 => txData[i + 1] = Line(Newest, txCnt + 4 * ((i + 1) - 1))
      BY <1>4, <3>2
    <3>4. Line(Newest, (txCnt + 1) + 4 * (i - 1)) =
            IF i < Nybbles + 2 THEN Line(Newest, txCnt + 4 * ((i + 1) - 1)) ELSE 15
      BY <1>3, <2>2, LineShift
    <3>5. QED BY <3>1, <3>3, <3>4
  <2>3. QED BY <2>1, <2>2
<1>6. ~empty' /\ ~rd' => Lag(gap)' <= MaxLate
  <2>1. Lag(gap)' = Lag(gap)
    BY <1>1 DEF Lag
  <2>2. QED BY <1>1, <2>1 DEF TxOK, Types
<1>7. TxOK'
  BY <1>1, <1>2, <1>5, <1>6 DEF TxOK
<1>8. QED BY <1>1, <1>2, <1>7

(***************************************************************************)
(* The receiver, while it is at most one cycle late.                       *)
(***************************************************************************)
OneLate == MaxLate <= 1

LEMMA LateIs == ASSUME OneLate, Types, TxOK PROVE late \in {0, 1} /\ late <= MaxLate /\ MaxLate \in {0, 1}
<1>1. late \in Nat /\ late <= MaxLate
  BY DEF Types, TxOK
<1>2. MaxLate \in Nat /\ MaxLate <= 1
  BY Sizes DEF OneLate
<1>3. QED BY <1>1, <1>2

LEMMA LinkInit == Init => LinkInv
<1> SUFFICES ASSUME Init PROVE LinkInv
  OBVIOUS
<1>1. Quiet
  BY DEF Init, Quiet
<1>2. \A i \in 1..Nybbles + 2 : txData[i] = 15
  BY DEF Init, Ones
<1>3. TxOK
  BY <1>2, Sizes DEF Init, TxOK
<1>4. QED BY <1>1, <1>3, TypesInit DEF LinkInv

LEMMA WiresShift ==
  ASSUME Types, RxCycle, NEW m \in Payload, NEW c \in Int, txd = Line(m, c),
         \A i \in 1..4 : rxdd[i] = Line(m, c - i)
  PROVE  \A i \in 1..4 : rxdd'[i] = Line(m, c - i + 1)
<1>1. rxdd \in [1..4 -> 0..15] /\ txd \in 0..15 /\ rxdd' = <<txd>> \o SubSeq(rxdd, 1, 3)
  BY LineFacts DEF Types, RxCycle
<1>2. \A i \in 1..4 : rxdd'[i] = IF i = 1 THEN txd ELSE rxdd[i - 1]
  BY <1>1, ShiftWires
<1>3. TAKE i \in 1..4
<1>4. CASE i = 1
  <2>1. c - i + 1 = c
    BY <1>4
  <2>2. QED BY <1>2, <1>4, <2>1
<1>5. CASE i # 1
  <2>1. i - 1 \in 1..4 /\ c - (i - 1) = c - i + 1
    BY <1>5
  <2>2. rxdd[i - 1] = Line(m, c - (i - 1))
    BY <2>1
  <2>3. QED BY <1>2, <1>5, <2>1, <2>2
<1>6. QED BY <1>4, <1>5

LEMMA WiresOnes ==
  ASSUME Types, RxCycle, txd = 15, \A i \in 1..4 : rxdd[i] = 15
  PROVE  \A i \in 1..4 : rxdd'[i] = 15
<1>1. rxdd \in [1..4 -> 0..15] /\ txd \in 0..15 /\ rxdd' = <<txd>> \o SubSeq(rxdd, 1, 3)
  BY DEF Types, RxCycle
<1>2. \A i \in 1..4 : rxdd'[i] = IF i = 1 THEN txd ELSE rxdd[i - 1]
  BY <1>1, ShiftWires
<1>3. QED BY <1>2

\* The receiver does not disturb the transmitter as long as the frame that is sent
\* stays under way.
LEMMA KeepTx ==
  ASSUME Types, TxOK, RxCycle, txing => flight' # <<>> /\ Newest' = Newest
  PROVE  TxOK'
<1>1. UNCHANGED <<txing, empty, fdo, txData, txCnt, rd, gap, late>>
  BY DEF RxCycle, txRegs
<1>2. Lag(gap)' = Lag(gap)
  BY <1>1 DEF Lag
<1>3. QED BY <1>1, <1>2 DEF TxOK

\* One more sample.
LEMMA SampleStep ==
  ASSUME Types, Sample, rxCnt <= LastCnt, NEW m \in Payload, Sampled(m),
         rxCnt % 4 = 1 => rxdd[4] = Frame(m)[(rxCnt - 1) \div 4 + 1]
  PROVE  Sampled(m)'
<1>1. rxCnt \in Nat /\ rxCnt <= 4 * Nybbles + 7 /\ Nybbles \in Nat
  BY Sizes DEF Types
<1>2. /\ rxCnt' = rxCnt + 1
      /\ rxData' = IF rxCnt % 4 = 1 THEN Append(Tail(rxData), rxdd[4]) ELSE rxData
  BY DEF Sample
<1> DEFINE k == (rxCnt + 2) \div 4
           k2 == (rxCnt + 1 + 2) \div 4
<1>3. \A i \in 1..k : rxData[Nybbles + 2 - k + i] = Frame(m)[i]
  BY DEF Sampled, Taken
<1>4. SUFFICES \A i \in 1..k2 : rxData'[Nybbles + 2 - k2 + i] = Frame(m)[i]
  BY <1>2 DEF Sampled, Taken
<1>5. k \in Nat /\ k2 \in Nat /\ k2 <= Nybbles + 2
  BY <1>1
<1>6. CASE rxCnt % 4 # 1
  <2>1. k2 = k
    BY <1>1, <1>6
  <2> HIDE DEF k, k2
  <2>2. QED BY <1>2, <1>3, <1>6, <2>1
<1>7. CASE rxCnt % 4 = 1
  <2>1. k2 = k + 1 /\ (rxCnt - 1) \div 4 + 1 = k2
    BY <1>1, <1>7
  <2> HIDE DEF k, k2
  <2>2. \A i \in 1..Nybbles + 2 : rxData'[i] = IF i < Nybbles + 2 THEN rxData[i + 1] ELSE rxdd[4]
    <3>1. /\ rxData \in [1..Nybbles + 2 -> 0..15] /\ Nybbles + 2 \in Nat /\ Nybbles + 2 >= 1
          /\ rxdd[4] \in 0..15
      BY <1>1 DEF Types
    <3>2. \A i \in 1..Nybbles + 2 :
            Append(Tail(rxData), rxdd[4])[i] = IF i < Nybbles + 2 THEN rxData[i + 1] ELSE rxdd[4]
      BY <3>1, ShiftIn
    <3>3. QED BY <1>2, <1>7, <3>2
  <2>3. ASSUME NEW i \in 1..k2 PROVE rxData'[Nybbles + 2 - k2 + i] = Frame(m)[i]
    <3>1. CASE i = k2
      <4>1. Nybbles + 2 - k2 + i = Nybbles + 2 /\ Nybbles + 2 \in 1..Nybbles + 2
        BY <1>1, <1>5, <3>1
      <4>2. rxData'[Nybbles + 2] = rxdd[4]
        BY <1>1, <2>2, <4>1
      <4>3. QED BY <1>7, <2>1, <3>1, <4>1, <4>2
    <3>2. CASE i # k2
      <4>1. i \in 1..k
        BY <1>5, <2>1, <3>2
      <4> DEFINE j == Nybbles + 2 - k2 + i
      <4>2. j \in 1..Nybbles + 2 /\ j < Nybbles + 2 /\ j + 1 = Nybbles + 2 - k + i
        BY <1>1, <1>5, <2>1, <3>2
      <4> HIDE DEF j
      <4>3. rxData'[j] = rxData[j + 1]
        BY <2>2, <4>2
      <4>4. rxData[Nybbles + 2 - k + i] = Frame(m)[i]
        BY <1>3, <4>1
      <4>5. QED BY <4>2, <4>3, <4>4 DEF j
    <3>3. QED BY <3>1, <3>2
  <2>4. QED BY <2>3
<1>8. QED BY <1>6, <1>7

LEMMA FlightLen == ASSUME Types PROVE flight \in Seq(Payload) /\ Len(flight) \in Nat /\ (Len(flight) = 0 <=> flight = <<>>)
BY EmptySeq, LenProperties DEF Types

LEMMA Popped ==
  ASSUME Types, flight # <<>>, flight' = Tail(flight)
  PROVE  Len(flight') = Len(flight) - 1 /\ (Len(flight) = 2 => Newest' = Newest)
<1>1. flight \in Seq(Payload) /\ Len(flight) \in Nat
  BY FlightLen
<1>2. Len(flight') = Len(flight) - 1 /\ \A i \in 1..Len(flight') : flight'[i] = flight[i + 1]
  BY <1>1, HeadTailProperties
<1>3. Len(flight) = 2 => Newest' = Newest
  <2>1. SUFFICES ASSUME Len(flight) = 2 PROVE flight'[Len(flight')] = flight[Len(flight)]
    BY DEF Newest
  <2>2. Len(flight') = 1 /\ 1 \in 1..Len(flight')
    BY <1>2, <2>1
  <2>3. flight'[1] = flight[2]
    BY <1>2, <2>2
  <2>4. QED BY <2>1, <2>2, <2>3
<1>4. QED BY <1>2, <1>3

LEMMA QuietRx ==
  ASSUME OneLate, Types, TxOK, turn = "rx", Quiet, RxCycle
  PROVE  TxOK' /\ Quiet' /\ flight' = flight /\ fifo' = fifo
<1>1. /\ rxState = "IDLE" /\ ~txing /\ flight = <<>> /\ ~wf /\ gap = MaxLate + 1
      /\ \A i \in 1..4 : rxdd[i] = 15
  BY DEF Quiet
<1>2. rxState' = "IDLE" /\ ~wf'
  BY <1>1 DEF RxCycle, Start, Sample
<1>3. flight' = flight /\ fifo' = fifo /\ txing' = txing /\ gap' = gap
  BY <1>1 DEF RxCycle, txRegs
<1>4. \A i \in 1..4 : rxdd'[i] = 15
  BY <1>1, OnWires, WiresOnes
<1>5. TxOK'
  BY <1>1, KeepTx
<1>6. QED BY <1>1, <1>2, <1>3, <1>4, <1>5 DEF Quiet

LEMMA ComingRx ==
  ASSUME OneLate, Types, TxOK, turn = "rx", Coming, RxCycle
  PROVE  TxOK' /\ (Coming' \/ Inside') /\ flight' = flight /\ fifo' = fifo
<1>1. /\ rxState = "IDLE" /\ txing /\ Len(flight) = 1 /\ ~wf
      /\ txCnt <= 4 + late /\ (late > 0 => txCnt = 4 + late)
      /\ \A i \in 1..4 : rxdd[i] = Line(Newest, txCnt - i)
  <2>1. Half = 0 /\ txCnt \in Int
    BY DEF Half, Types
  <2>2. txCnt + Half = txCnt /\ \A i \in 1..4 : txCnt - i + Half = txCnt - i
    BY <2>1
  <2>3. QED BY <2>2 DEF Coming
<1>2. /\ turn' = "tx" /\ rxState' = (IF rxdd[4] = 0 THEN "CNT" ELSE "IDLE") /\ rxCnt' = 0 /\ ~wf'
      /\ flight' = flight /\ fifo' = fifo
      /\ UNCHANGED <<txing, empty, fdo, txData, txCnt, rd, gap, late>>
  BY <1>1 DEF RxCycle, txRegs, Start, Sample, Overrun
<1>3. Newest \in Payload /\ Newest' = Newest /\ flight # <<>>
  <2>1. flight # <<>>
    BY <1>1 DEF TxOK
  <2>2. QED BY <1>2, <2>1, NewestIn DEF Newest
<1>4. txCnt \in Nat /\ late \in {0, 1}
  <2>1. txCnt \in 0..LastCnt
    BY DEF Types
  <2>2. QED BY <2>1, Sizes, LateIs
<1>5. \A i \in 1..4 : rxdd'[i] = Line(Newest, txCnt - i + 1)
  BY <1>1, <1>3, <1>4, OnWires, WiresShift
<1>6. TxOK'
  BY <1>2, <1>3, KeepTx
<1>7. Half' = 1
  BY <1>2 DEF Half
<1>8. rxdd[4] = Line(Newest, txCnt - 4)
  BY <1>1
<1>9. CASE txCnt = 4 + late
  <2>1. txCnt - 4 \in 0..3
    BY <1>4, <1>9
  <2>2. rxdd[4] = 0
    BY <1>3, <1>8, <2>1, LineFacts
  <2>3. Pos' = txCnt /\ \A i \in 1..4 : Pos' - i + Half' = txCnt - i + 1
    <3>1. Pos' = 0 + 5 + late - 1
      BY <1>2, <1>7 DEF Pos
    <3>2. QED BY <1>4, <1>7, <1>9, <3>1
  <2>4. Under(1)'
    BY <1>1, <1>2, Sizes DEF Under
  <2>5. Sampled(Newest)'
    <3>1. Taken' = 0
      BY <1>2 DEF Taken
    <3>2. QED BY <3>1 DEF Sampled
  <2>6. Inside'
    BY <1>1, <1>2, <1>3, <1>5, <2>2, <2>3, <2>4, <2>5 DEF Inside
  <2>7. QED BY <1>2, <1>6, <2>6
<1>10. CASE txCnt # 4 + late
  <2>1. late = 0 /\ txCnt - 4 < 0 /\ txCnt - 4 \in Int
    BY <1>1, <1>4, <1>10
  <2>2. rxdd[4] = 15
    BY <1>3, <1>8, <2>1, LineFacts
  <2>3. txCnt + 1 <= 4 + late /\ ~(late > 0)
    BY <1>4, <2>1
  <2>4. Coming'
    BY <1>1, <1>2, <1>3, <1>5, <1>7, <2>2, <2>3 DEF Coming
  <2>5. QED BY <1>2, <1>6, <2>4
<1>11. QED BY <1>9, <1>10

\* A cycle in a frame, before its last one.
LEMMA CountRx ==
  ASSUME Types, turn = "rx", rxState = "CNT", rxCnt < LastCnt, ~wf, flight # <<>>, RxCycle,
         rxCnt = 1 => rxdd[4] = 0
  PROVE  /\ rxState' = "CNT" /\ rxCnt' = rxCnt + 1 /\ turn' = "tx" /\ Sample /\ fifo' = fifo
         /\ UNCHANGED <<txing, empty, fdo, txData, txCnt, rd, gap, late>>
         /\ \/ rxCnt # StopAt /\ ~wf' /\ flight' = flight
            \/ rxCnt = StopAt /\ wf' /\ flight' = flight
            \/ rxCnt = StopAt /\ ~wf' /\ flight' = Tail(flight)
<1>1. Sample /\ UNCHANGED <<txing, empty, fdo, txData, txCnt, rd, gap, late>> /\ turn' = "tx"
  BY DEF RxCycle, Start, txRegs
<1>2. ~FalseStart /\ rxCnt # LastCnt
  BY Sizes DEF FalseStart, Types
<1>3. rxState' = "CNT" /\ rxCnt' = rxCnt + 1 /\ wf' = (rxCnt = StopAt /\ Len(fifo) < RxDepth)
  BY <1>1, <1>2 DEF Sample
<1>4. fifo' = fifo /\ flight' = IF Overrun THEN Tail(flight) ELSE flight
  BY DEF RxCycle
<1>5. Overrun <=> rxCnt = StopAt /\ Len(fifo) >= RxDepth
  BY DEF Overrun
<1>6. (Len(fifo) >= RxDepth) <=> ~(Len(fifo) < RxDepth)
  BY Sizes, LenProperties DEF Types
<1>7. QED BY <1>1, <1>3, <1>4, <1>5, <1>6

\* The last one.
LEMMA LastRx ==
  ASSUME Types, turn = "rx", rxState = "CNT", rxCnt = LastCnt, wf => flight # <<>>, RxCycle
  PROVE  /\ rxState' = "IDLE" /\ turn' = "tx" /\ ~wf'
         /\ UNCHANGED <<txing, empty, fdo, txData, txCnt, rd, gap, late>>
         /\ flight' = IF wf THEN Tail(flight) ELSE flight
<1>1. Sample /\ UNCHANGED <<txing, empty, fdo, txData, txCnt, rd, gap, late>> /\ turn' = "tx"
  BY DEF RxCycle, Start, txRegs
<1>2. rxCnt # StopAt
  BY Sizes
<1>3. rxState' = "IDLE" /\ ~wf'
  BY <1>1, <1>2 DEF Sample
<1>4. flight' = IF wf THEN Tail(flight) ELSE flight
  BY <1>2 DEF RxCycle, Overrun
<1>5. QED BY <1>1, <1>3, <1>4

LEMMA InsideRx ==
  ASSUME OneLate, Types, TxOK, turn = "rx", Inside, RxCycle
  PROVE  TxOK' /\ (Inside' \/ Quiet')
<1> DEFINE P == rxCnt + 5 + late
<1>1. LastCnt = 4 * Nybbles + 7 /\ StopAt = LastCnt - 1 /\ Nybbles \in Nat /\ Nybbles >= 1
      /\ rxCnt \in Nat /\ rxCnt <= LastCnt /\ late \in {0, 1} /\ P \in Nat /\ MaxLate \in {0, 1}
  BY Sizes, LateIs DEF Types, Inside
<1>2. Half = 0 /\ Pos = P /\ \A i \in 1..4 : Pos - i + Half = P - i
  <2>1. Half = 0
    BY DEF Half
  <2>2. Pos = P
    BY <1>1, <2>1 DEF Pos
  <2>3. QED BY <1>1, <2>1, <2>2
<1>3. /\ rxState = "CNT" /\ Under(1)
      /\ IF txing THEN txCnt = P
         ELSE P > LastCnt /\ gap = IF P - LastCnt <= MaxLate THEN P - LastCnt ELSE MaxLate + 1
      /\ IF flight = <<>> THEN \A i \in 1..4 : rxdd[i] = 15
         ELSE Sampled(Newest) /\ \A i \in 1..4 : rxdd[i] = Line(Newest, P - i)
  BY <1>2 DEF Inside
<1>4. txing => P <= LastCnt
  BY <1>3 DEF Types
<1> HIDE DEF P
<1>5. CASE rxCnt < LastCnt
  <2>1. ~wf /\ Len(flight) = 1 /\ flight # <<>>
    <3>1. rxCnt # LastCnt
      BY <1>1, <1>5
    <3>2. ~wf /\ Len(flight) = 1
      BY <1>3, <1>5, <3>1 DEF Under
    <3>3. QED BY <3>2, FlightLen
  <2>2. Newest \in Payload
    BY <2>1, NewestIn
  <2>3. rxdd[4] = Line(Newest, P - 4) /\ \A i \in 1..4 : rxdd[i] = Line(Newest, P - i)
    BY <1>3, <2>1
  <2>4. rxCnt = 1 => rxdd[4] = 0
    <3>1. rxCnt = 1 => P - 4 \in 0..3
      BY <1>1 DEF P
    <3>2. QED BY <1>1, <2>2, <2>3, <3>1, LineFacts
  <2>5. /\ rxState' = "CNT" /\ rxCnt' = rxCnt + 1 /\ turn' = "tx" /\ Sample /\ fifo' = fifo
        /\ UNCHANGED <<txing, empty, fdo, txData, txCnt, rd, gap, late>>
        /\ \/ rxCnt # StopAt /\ ~wf' /\ flight' = flight
           \/ rxCnt = StopAt /\ wf' /\ flight' = flight
           \/ rxCnt = StopAt /\ ~wf' /\ flight' = Tail(flight)
    BY <1>3, <1>5, <2>1, <2>4, CountRx
  <2>6. flight' = flight => Newest' = Newest /\ flight' # <<>>
    BY <2>1 DEF Newest
  <2>7. flight' # flight => ~txing /\ rxCnt = StopAt /\ flight' = <<>> /\ Len(flight') = 0
    <3>1. SUFFICES ASSUME flight' # flight PROVE ~txing /\ rxCnt = StopAt /\ flight' = <<>> /\ Len(flight') = 0
      OBVIOUS
    <3>2. rxCnt = StopAt /\ flight' = Tail(flight)
      BY <2>5, <3>1
    <3>3. Len(flight') = 0
      BY <2>1, <3>2, Popped
    <3>4. flight' \in Seq(Payload)
      BY <2>1, <3>2, FlightLen, HeadTailProperties
    <3>5. flight' = <<>>
      BY <3>3, <3>4, EmptySeq
    <3>6. P > LastCnt
      BY <1>1, <3>2 DEF P
    <3>7. QED BY <1>1, <1>4, <3>2, <3>3, <3>5, <3>6
  <2>8. TxOK'
    BY <2>6, <2>7, KeepTx
  <2>9. Half' = 1 /\ Pos' = P /\ \A i \in 1..4 : Pos' - i + Half' = P - i + 1
    <3>1. Half' = 1
      BY <2>5 DEF Half
    <3>2. Pos' = rxCnt + 1 + 5 + late - 1
      BY <2>5, <3>1 DEF Pos
    <3>3. Pos' = P
      BY <1>1, <3>2 DEF P
    <3>4. QED BY <1>1, <3>1, <3>3
  <2>10. txd = Line(Newest, P) /\ (~txing => txd = 15)
    <3>1. CASE txing
      BY <1>3, <3>1, OnWires
    <3>2. CASE ~txing
      BY <1>1, <1>3, <2>2, <3>2, OnWires, LineFacts
    <3>3. QED BY <3>1, <3>2
  <2>11. IF flight' = <<>> THEN \A i \in 1..4 : rxdd'[i] = 15
         ELSE \A i \in 1..4 : rxdd'[i] = Line(Newest, P - i + 1)
    <3>1. \A i \in 1..4 : rxdd'[i] = Line(Newest, P - i + 1)
      BY <1>1, <2>2, <2>3, <2>10, WiresShift
    <3>2. ASSUME flight' = <<>>, NEW i \in 1..4 PROVE rxdd'[i] = 15
      <4>1. rxCnt = StopAt
        BY <2>6, <2>7, <3>2
      <4>2. P - i + 1 \in Int /\ P - i + 1 >= LastCnt - 3
        BY <1>1, <4>1 DEF P
      <4>3. QED BY <2>2, <3>1, <4>2, LineFacts
    <3>3. QED BY <3>1, <3>2
  <2>12. Under(1)'
    <3>1. rxCnt' < LastCnt => rxCnt # StopAt
      BY <1>1, <2>5
    <3>2. (rxCnt' = LastCnt) <=> (rxCnt = StopAt)
      BY <1>1, <2>5
    <3>3. flight' = flight => Len(flight') = 1
      BY <2>1
    <3>4. rxCnt' < LastCnt => ~wf'
      BY <2>5, <3>1
    <3>5. Len(flight') = IF rxCnt' = LastCnt /\ ~wf' THEN 0 ELSE 1
      <4>1. CASE flight' = flight
        <5>1. ~(rxCnt = StopAt /\ ~wf') \/ flight' = Tail(flight)
          BY <2>5
        <5>2. flight' # Tail(flight)
          <6>1. flight \in Seq(Payload)
            BY FlightLen
          <6>2. Len(Tail(flight)) = Len(flight) - 1
            BY <2>1, <6>1, HeadTailProperties
          <6>3. Len(Tail(flight)) = 0
            BY <2>1, <6>2
          <6> DEFINE t == Tail(flight)
          <6>4. Len(t) = 0 /\ Len(flight) = 1
            BY <2>1, <6>3
          <6> HIDE DEF t
          <6>5. flight # t
            BY <6>4
          <6>6. QED BY <4>1, <6>5 DEF t
        <5>3. QED BY <3>2, <3>3, <4>1, <5>1, <5>2
      <4>2. CASE flight' # flight
        BY <2>5, <2>7, <3>2, <4>2
      <4>3. QED BY <4>1, <4>2
    <3>6. QED BY <3>4, <3>5 DEF Under
  <2>13. Sampled(Newest)'  \/ flight' = <<>>
    <3>1. SUFFICES ASSUME flight' = flight PROVE Sampled(Newest)'
      BY <2>7
    <3>2. PICK m \in Payload : m = Newest
      BY <2>2
    <3>3. rxCnt % 4 = 1 => rxdd[4] = Frame(m)[(rxCnt - 1) \div 4 + 1]
      <4>1. SUFFICES ASSUME rxCnt % 4 = 1 PROVE rxdd[4] = Frame(m)[(rxCnt - 1) \div 4 + 1]
        OBVIOUS
      <4>2. P - 4 \in 0..LastCnt /\ (P - 4) \div 4 = (rxCnt - 1) \div 4
        BY <1>1, <4>1 DEF P
      <4>3. QED BY <2>3, <3>2, <4>2, LineFacts
    <3>4. Sampled(m)
      BY <1>3, <2>1, <3>2
    <3>5. Sampled(m)'
      BY <1>1, <2>5, <3>3, <3>4, SampleStep
    <3>6. Newest' = m
      BY <2>6, <3>1, <3>2
    <3>7. QED BY <3>5, <3>6 DEF Sampled
  <2>14. IF txing' THEN txCnt' = Pos'
         ELSE /\ Pos' > LastCnt
              /\ gap' = IF Pos' - LastCnt <= MaxLate THEN Pos' - LastCnt ELSE MaxLate + 1
    BY <1>3, <2>5, <2>9
  <2>15. IF flight' = <<>> THEN \A i \in 1..4 : rxdd'[i] = 15
         ELSE Sampled(Newest)' /\ \A i \in 1..4 : rxdd'[i] = Line(Newest', Pos' - i + Half')
    BY <2>6, <2>7, <2>9, <2>11, <2>13
  <2>16. Inside'
    BY <2>5, <2>12, <2>14, <2>15 DEF Inside
  <2>17. QED BY <2>8, <2>16
<1>6. CASE rxCnt = LastCnt
  <2>1. ~txing /\ gap = MaxLate + 1
    BY <1>1, <1>3, <1>4, <1>6 DEF P
  <2>2. Len(flight) = IF wf THEN 1 ELSE 0
    BY <1>3, <1>6 DEF Under
  <2>3. wf => flight # <<>>
    BY <2>2
  <2>4. /\ rxState' = "IDLE" /\ turn' = "tx" /\ ~wf'
        /\ UNCHANGED <<txing, empty, fdo, txData, txCnt, rd, gap, late>>
        /\ flight' = IF wf THEN Tail(flight) ELSE flight
    BY <1>3, <1>6, <2>3, LastRx
  <2>5. flight' = <<>>
    <3>1. CASE wf
      <4>1. flight' = Tail(flight) /\ Len(flight) = 1
        BY <2>2, <2>4, <3>1
      <4>2. Len(flight') = 0
        BY <2>3, <3>1, <4>1, Popped
      <4>3. flight' \in Seq(Payload)
        BY <2>3, <3>1, <4>1, FlightLen, HeadTailProperties
      <4>4. QED BY <4>2, <4>3, EmptySeq
    <3>2. CASE ~wf
      BY <2>2, <2>4, <3>2, FlightLen
    <3>3. QED BY <3>1, <3>2
  <2>6. \A i \in 1..4 : rxdd[i] = 15
    <3>1. ASSUME flight # <<>>, NEW i \in 1..4 PROVE rxdd[i] = 15
      <4>1. P - i \in Int /\ P - i >= LastCnt - 3
        BY <1>1, <1>6 DEF P
      <4>2. Newest \in Payload /\ rxdd[i] = Line(Newest, P - i)
        BY <1>3, <3>1, NewestIn
      <4>3. QED BY <4>1, <4>2, LineFacts
    <3>2. QED BY <1>3, <3>1
  <2>7. \A i \in 1..4 : rxdd'[i] = 15
    BY <2>1, <2>6, OnWires, WiresOnes
  <2>8. TxOK'
    BY <2>1, KeepTx
  <2>9. Quiet'
    BY <2>1, <2>4, <2>5, <2>7 DEF Quiet
  <2>10. QED BY <2>8, <2>9
<1>7. QED BY <1>1, <1>5, <1>6

LEMMA BehindRx ==
  ASSUME OneLate, Types, TxOK, turn = "rx", Behind, RxCycle
  PROVE  TxOK' /\ (Behind' \/ Coming')
<1>1. /\ LastCnt = 4 * Nybbles + 7 /\ StopAt = LastCnt - 1 /\ Nybbles \in Nat /\ Nybbles >= 1
      /\ rxCnt \in Nat /\ rxCnt <= LastCnt /\ late \in {0, 1} /\ txCnt \in Nat
  <2>1. txCnt \in 0..LastCnt /\ rxCnt \in 0..LastCnt + 1 /\ rxCnt <= LastCnt
    BY DEF Types, Behind
  <2>2. QED BY <2>1, Sizes, LateIs
<1>2. Half = 0
  BY DEF Half
<1>3. /\ rxState = "CNT" /\ Under(2) /\ txing
      /\ rxCnt >= LastCnt - 3 - late + txCnt /\ (late > 0 => rxCnt = LastCnt - 3 - late + txCnt)
      /\ (Len(flight) = 2 => Sampled(flight[1]))
      /\ \A i \in 1..4 : rxdd[i] = Line(Newest, txCnt - i)
  <2>1. LastCnt - 3 - late + txCnt + Half = LastCnt - 3 - late + txCnt
    BY <1>1, <1>2
  <2>2. \A i \in 1..4 : txCnt - i + Half = txCnt - i
    BY <1>1, <1>2
  <2>3. QED BY <2>1, <2>2 DEF Behind
<1>4. flight # <<>> /\ Newest \in Payload /\ txd = Line(Newest, txCnt)
  BY <1>3, OnWires, NewestIn
<1>5. \A i \in 1..4 : rxdd'[i] = Line(Newest, txCnt - i + 1)
  BY <1>1, <1>3, <1>4, WiresShift
<1>6. flight \in Seq(Payload) /\ Len(flight) \in Nat
  BY FlightLen
<1>7. CASE rxCnt < LastCnt
  <2>1. ~wf /\ Len(flight) = 2
    <3>1. rxCnt # LastCnt
      BY <1>1, <1>7
    <3>2. QED BY <1>3, <1>7, <3>1 DEF Under
  <2>2. rxCnt = 1 => rxdd[4] = 0
    BY <1>1, <1>3
  <2>3. /\ rxState' = "CNT" /\ rxCnt' = rxCnt + 1 /\ turn' = "tx" /\ Sample /\ fifo' = fifo
        /\ UNCHANGED <<txing, empty, fdo, txData, txCnt, rd, gap, late>>
        /\ \/ rxCnt # StopAt /\ ~wf' /\ flight' = flight
           \/ rxCnt = StopAt /\ wf' /\ flight' = flight
           \/ rxCnt = StopAt /\ ~wf' /\ flight' = Tail(flight)
    BY <1>3, <1>4, <1>7, <2>1, <2>2, CountRx
  <2>4. /\ Newest' = Newest
        /\ \/ rxCnt # StopAt /\ ~wf' /\ flight' = flight /\ Len(flight') = 2
           \/ rxCnt = StopAt /\ wf' /\ flight' = flight /\ Len(flight') = 2
           \/ rxCnt = StopAt /\ ~wf' /\ Len(flight') = 1
    <3>1. CASE rxCnt # StopAt /\ ~wf' /\ flight' = flight
      BY <2>1, <3>1 DEF Newest
    <3>2. CASE rxCnt = StopAt /\ wf' /\ flight' = flight
      BY <2>1, <3>2 DEF Newest
    <3>3. CASE rxCnt = StopAt /\ ~wf' /\ flight' = Tail(flight)
      <4>1. Len(flight') = Len(flight) - 1 /\ Newest' = Newest
        BY <1>4, <2>1, <3>3, Popped
      <4>2. QED BY <2>1, <3>3, <4>1
    <3>4. QED BY <2>3, <3>1, <3>2, <3>3
  <2>5. TxOK'
    <3>1. flight' # <<>>
      <4>1. Len(flight') # 0
        BY <2>4
      <4>2. QED BY <4>1
    <3>2. QED BY <2>4, <3>1, KeepTx
  <2>6. Half' = 1
    BY <2>3 DEF Half
  <2>7. Under(2)'
    <3>1. (rxCnt' = LastCnt <=> rxCnt = StopAt) /\ (rxCnt' < LastCnt => rxCnt # StopAt)
      BY <1>1, <2>3
    <3>2. rxCnt' < LastCnt => ~wf'
      BY <2>4, <3>1
    <3>3. Len(flight') = IF rxCnt' = LastCnt /\ ~wf' THEN 2 - 1 ELSE 2
      BY <2>4, <3>1
    <3>4. QED BY <3>2, <3>3 DEF Under
  <2>8. /\ rxCnt' >= LastCnt - 3 - late' + txCnt' + Half'
        /\ (late' > 0 => rxCnt' = LastCnt - 3 - late' + txCnt' + Half')
    BY <1>1, <1>3, <2>3, <2>6
  <2>9. ASSUME Len(flight') = 2 PROVE Sampled(flight[1])' /\ flight' = flight
    <3>1. flight' = flight
      BY <2>4, <2>9
    <3>2. flight[1] \in Payload
      BY <1>6, <2>1, ElementOfSeq
    <3>3. PICK m \in Payload : m = flight[1]
      BY <3>2
    <3>4. rxCnt % 4 = 1 => rxdd[4] = Frame(m)[(rxCnt - 1) \div 4 + 1]
      <4>1. SUFFICES ASSUME rxCnt % 4 = 1 PROVE rxdd[4] = Frame(m)[(rxCnt - 1) \div 4 + 1]
        OBVIOUS
      <4>2. (rxCnt - 1) \div 4 + 1 = Nybbles + 2 /\ txCnt - 4 < 0 /\ txCnt - 4 \in Int
        BY <1>1, <1>3, <1>7, <4>1
      <4>3. Line(Newest, txCnt - 4) = 15
        BY <1>4, <4>2, LineFacts
      <4>4. Frame(m)[Nybbles + 2] = 15
        BY FrameFacts
      <4>5. QED BY <1>3, <4>2, <4>3, <4>4
    <3>5. Sampled(m)
      BY <1>3, <2>1, <3>3
    <3>6. Sampled(m)'
      BY <1>1, <2>3, <3>4, <3>5, SampleStep
    <3>7. QED BY <3>1, <3>3, <3>6 DEF Sampled
  <2>10. \A i \in 1..4 : rxdd'[i] = Line(Newest', txCnt' - i + Half')
    BY <1>5, <2>3, <2>4, <2>6
  <2>11. Behind'
    BY <1>3, <2>3, <2>7, <2>8, <2>9, <2>10 DEF Behind
  <2>12. QED BY <2>5, <2>11
<1>8. CASE rxCnt = LastCnt
  <2>1. Len(flight) = IF wf THEN 2 ELSE 1
    BY <1>3, <1>8 DEF Under
  <2>2. /\ rxState' = "IDLE" /\ turn' = "tx" /\ ~wf'
        /\ UNCHANGED <<txing, empty, fdo, txData, txCnt, rd, gap, late>>
        /\ flight' = IF wf THEN Tail(flight) ELSE flight
    BY <1>3, <1>4, <1>8, LastRx
  <2>3. Newest' = Newest /\ Len(flight') = 1
    <3>1. CASE wf
      <4>1. Len(flight') = Len(flight) - 1 /\ Newest' = Newest
        BY <1>4, <2>1, <2>2, <3>1, Popped
      <4>2. QED BY <2>1, <3>1, <4>1
    <3>2. CASE ~wf
      BY <2>1, <2>2, <3>2 DEF Newest
    <3>3. QED BY <3>1, <3>2
  <2>4. TxOK'
    <3>1. flight' # <<>>
      <4>1. Len(flight') # 0
        BY <2>3
      <4>2. QED BY <4>1
    <3>2. QED BY <2>3, <3>1, KeepTx
  <2>5. Half' = 1
    BY <2>2 DEF Half
  <2>6. txCnt' + Half' <= 4 + late' /\ (late' > 0 => txCnt' + Half' = 4 + late')
    BY <1>1, <1>3, <1>8, <2>2, <2>5
  <2>7. \A i \in 1..4 : rxdd'[i] = Line(Newest', txCnt' - i + Half')
    BY <1>5, <2>2, <2>3, <2>5
  <2>8. Coming'
    BY <1>3, <2>2, <2>3, <2>6, <2>7 DEF Coming
  <2>9. QED BY <2>4, <2>8
<1>9. QED BY <1>1, <1>7, <1>8

(***************************************************************************)
(* The transmitter's half of a cycle.                                      *)
(***************************************************************************)

\* Where the receiver is does not change.
LEMMA TxKeeps ==
  ASSUME TxCycle
  PROVE  /\ turn' = "rx" /\ Half' = 0
         /\ UNCHANGED <<rxdd, rxState, rxCnt, rxData, wf, fifo>>
BY DEF TxCycle, rxRegs, Half

LEMMA QuietTx ==
  ASSUME OneLate, Types, TxOK, turn = "tx", Quiet, TxCycle
  PROVE  TxOK' /\ (Quiet' \/ Coming')
<1>1. /\ rxState = "IDLE" /\ ~txing /\ flight = <<>> /\ ~wf /\ gap = MaxLate + 1
      /\ \A i \in 1..4 : rxdd[i] = 15
  BY DEF Quiet
<1>2. late \in {0, 1} /\ late <= MaxLate /\ MaxLate \in {0, 1}
  BY LateIs
<1>3. CASE LoadFrame
  <2>1. /\ TxOK' /\ late' = Lag(gap) /\ flight' = Append(flight, fdo) /\ fdo \in Payload
        /\ txing' /\ txCnt' = 0
    BY <1>3, LoadTx
  <2>2. late' = 0
    BY <1>1, <1>2, <2>1 DEF Lag
  <2>3. Len(flight') = 1 /\ Newest' \in Payload
    <3>1. flight' = <<fdo>>
      BY <1>1, <2>1
    <3>2. QED BY <2>1, <3>1 DEF Newest
  <2>4. \A i \in 1..4 : rxdd'[i] = Line(Newest', txCnt' - i + Half')
    <3>1. TAKE i \in 1..4
    <3>2. txCnt' - i + Half' = 0 - i + 0
      BY <2>1, TxKeeps
    <3>3. Line(Newest', 0 - i + 0) = 15
      <4>1. 0 - i + 0 \in Int /\ 0 - i + 0 < 0
        OBVIOUS
      <4>2. QED BY <2>3, <4>1, LineFacts
    <3>4. QED BY <1>1, <3>2, <3>3, TxKeeps
  <2>5. txCnt' + Half' <= 4 + late' /\ ~(late' > 0)
    BY <2>1, <2>2, TxKeeps
  <2>6. Coming'
    BY <1>1, <2>1, <2>3, <2>4, <2>5, TxKeeps DEF Coming
  <2>7. QED BY <2>1, <2>6
<1>4. CASE StayFree
  <2>1. ~txing' /\ flight' = flight /\ gap' = gap
    BY <1>1, <1>2, <1>4 DEF StayFree
  <2>2. Quiet'
    BY <1>1, <2>1, TxKeeps DEF Quiet
  <2>3. QED BY <1>4, <2>2, StayTx
<1>5. CASE Shift
  BY <1>1, <1>5 DEF Shift, Free
<1>6. QED BY <1>3, <1>4, <1>5 DEF TxCycle

LEMMA ComingTx ==
  ASSUME OneLate, Types, TxOK, turn = "tx", Coming, TxCycle
  PROVE  TxOK' /\ Coming' /\ Shift
<1>1. /\ txCnt \in Nat /\ late \in {0, 1} /\ LastCnt > 10 /\ Half = 1
  <2>1. txCnt \in 0..LastCnt /\ Half = 1
    BY DEF Types, Half
  <2>2. QED BY <2>1, Sizes, LateIs
<1>2. /\ rxState = "IDLE" /\ txing /\ Len(flight) = 1 /\ ~wf
      /\ txCnt + 1 <= 4 + late /\ (late > 0 => txCnt + 1 = 4 + late)
      /\ \A i \in 1..4 : rxdd[i] = Line(Newest, txCnt - i + 1)
  BY <1>1 DEF Coming
<1>3. ~Free
  BY <1>1, <1>2 DEF Free
<1>4. Shift /\ TxOK' /\ txCnt' = txCnt + 1 /\ UNCHANGED <<txing, flight, gap, late>>
  BY <1>3, ShiftTx DEF TxCycle, LoadFrame, StayFree
<1>5. Newest' = Newest
  BY <1>4 DEF Newest
<1>6. /\ txCnt' + Half' = txCnt + 1 /\ \A i \in 1..4 : txCnt' - i + Half' = txCnt - i + 1
  BY <1>1, <1>4, TxKeeps
<1>7. Coming'
  BY <1>2, <1>4, <1>5, <1>6, TxKeeps DEF Coming
<1>8. QED BY <1>4, <1>7

LEMMA BehindTx ==
  ASSUME OneLate, Types, TxOK, turn = "tx", Behind, TxCycle
  PROVE  TxOK' /\ Behind' /\ Shift
<1>1. /\ txCnt \in Nat /\ late \in {0, 1} /\ LastCnt > 10 /\ Half = 1 /\ LastCnt \in Nat
      /\ rxCnt \in Nat /\ rxCnt <= LastCnt
  <2>1. txCnt \in 0..LastCnt /\ Half = 1 /\ rxCnt \in 0..LastCnt + 1 /\ rxCnt <= LastCnt
    BY DEF Types, Half, Behind
  <2>2. QED BY <2>1, Sizes, LateIs
<1>2. /\ rxState = "CNT" /\ Under(2) /\ txing
      /\ rxCnt >= LastCnt - 3 - late + txCnt + 1
      /\ (late > 0 => rxCnt = LastCnt - 3 - late + txCnt + 1)
      /\ (Len(flight) = 2 => Sampled(flight[1]))
      /\ \A i \in 1..4 : rxdd[i] = Line(Newest, txCnt - i + 1)
  BY <1>1 DEF Behind
<1>3. ~Free
  BY <1>1, <1>2 DEF Free
<1>4. Shift /\ TxOK' /\ txCnt' = txCnt + 1 /\ UNCHANGED <<txing, flight, gap, late>>
  BY <1>3, ShiftTx DEF TxCycle, LoadFrame, StayFree
<1>5. Newest' = Newest
  BY <1>4 DEF Newest
<1>6. /\ LastCnt - 3 - late' + txCnt' + Half' = LastCnt - 3 - late + txCnt + 1
      /\ \A i \in 1..4 : txCnt' - i + Half' = txCnt - i + 1
  BY <1>1, <1>4, TxKeeps
<1>7. Under(2)' /\ (Len(flight') = 2 => Sampled(flight[1])')
  BY <1>2, <1>4, TxKeeps DEF Under, Sampled, Taken
<1>8. rxCnt' = rxCnt /\ rxState' = rxState /\ rxdd' = rxdd
  BY TxKeeps
<1>9. Behind'
  BY <1>2, <1>4, <1>5, <1>6, <1>7, <1>8 DEF Behind
<1>10. QED BY <1>4, <1>9

LEMMA InsideTx ==
  ASSUME OneLate, Types, TxOK, turn = "tx", Inside, TxCycle
  PROVE  TxOK' /\ (Inside' \/ Behind') /\ Len(flight) \in {0, 1}
<1> DEFINE P == rxCnt + 4 + late
<1>1. /\ LastCnt = 4 * Nybbles + 7 /\ Nybbles \in Nat /\ Nybbles >= 1 /\ Half = 1
      /\ rxCnt \in Nat /\ rxCnt <= LastCnt /\ late \in {0, 1} /\ late <= MaxLate /\ MaxLate \in {0, 1}
      /\ P \in Nat /\ txCnt \in Nat /\ txCnt <= LastCnt /\ gap \in Nat
  <2>1. txCnt \in 0..LastCnt /\ Half = 1 /\ rxCnt \in 0..LastCnt + 1 /\ rxCnt <= LastCnt /\ gap \in Nat
    BY DEF Types, Half, Inside
  <2>2. QED BY <2>1, Sizes, LateIs
<1>2. Pos = P /\ \A i \in 1..4 : Pos - i + Half = P + 1 - i
  <2>1. Pos = P
    BY <1>1 DEF Pos
  <2>2. QED BY <1>1, <2>1
<1>3. /\ rxState = "CNT" /\ Under(1)
      /\ IF txing THEN txCnt = P
         ELSE P > LastCnt /\ gap = IF P - LastCnt <= MaxLate THEN P - LastCnt ELSE MaxLate + 1
      /\ IF flight = <<>> THEN \A i \in 1..4 : rxdd[i] = 15
         ELSE Sampled(Newest) /\ \A i \in 1..4 : rxdd[i] = Line(Newest, P + 1 - i)
  BY <1>2 DEF Inside
<1>4. txing => gap = 0
  BY DEF TxOK
<1> HIDE DEF P
<1>5. Len(flight) = IF rxCnt = LastCnt /\ ~wf THEN 0 ELSE 1
  BY <1>3 DEF Under
<1>6. CASE LoadFrame
  <2>1. /\ TxOK' /\ late' = Lag(gap) /\ flight' = Append(flight, fdo) /\ fdo \in Payload
        /\ txing' /\ txCnt' = 0 /\ Half' = 0
    BY <1>6, LoadTx, TxKeeps
  <2>2. P >= LastCnt
    BY <1>1, <1>3, <1>6 DEF LoadFrame, Free
  <2>3. /\ rxCnt >= LastCnt - 3 - late' + 0 + 0
        /\ (late' > 0 => rxCnt = LastCnt - 3 - late' + 0 + 0)
    <3>1. gap = IF P - LastCnt <= MaxLate THEN P - LastCnt ELSE MaxLate + 1
      <4>1. CASE txing
        BY <1>1, <1>3, <1>4, <2>2, <4>1
      <4>2. CASE ~txing
        BY <1>3, <4>2
      <4>3. QED BY <4>1, <4>2
    <3>2. late' = IF late + 1 > gap THEN late + 1 - gap ELSE 0
      BY <2>1 DEF Lag
    <3>3. QED BY <1>1, <2>2, <3>1, <3>2 DEF P
  <2>4. flight \in Seq(Payload) /\ Len(flight) \in Nat
    BY FlightLen
  <2>5. /\ Len(flight') = Len(flight) + 1 /\ Newest' = fdo
        /\ Len(flight) = 1 => flight'[1] = flight[1]
    <3>1. /\ Len(Append(flight, fdo)) = Len(flight) + 1 /\ Append(flight, fdo)[Len(flight) + 1] = fdo
          /\ \A i \in 1..Len(flight) : Append(flight, fdo)[i] = flight[i]
      BY <2>1, <2>4, AppendProperties
    <3>2. QED BY <2>1, <3>1 DEF Newest
  <2>6. Under(2)'
    <3>1. rxCnt' = rxCnt /\ wf' = wf
      BY TxKeeps
    <3>2. rxCnt < LastCnt => ~wf
      BY <1>3 DEF Under
    <3>3. Len(flight') = IF rxCnt' = LastCnt /\ ~wf' THEN 2 - 1 ELSE 2
      BY <1>5, <2>5, <3>1
    <3>4. QED BY <3>1, <3>2, <3>3 DEF Under
  <2>7. ASSUME Len(flight') = 2 PROVE Sampled(flight[1])'
    <3>1. Len(flight) = 1 /\ flight # <<>>
      BY <1>5, <2>5, <2>7, FlightLen
    <3>2. Newest = flight[1] /\ flight'[1] = flight[1]
      BY <2>5, <3>1 DEF Newest
    <3>3. Sampled(Newest)
      BY <1>3, <3>1
    <3>4. QED BY <3>2, <3>3, TxKeeps DEF Sampled, Taken
  <2>8. \A i \in 1..4 : rxdd'[i] = Line(Newest', txCnt' - i + Half')
    <3>1. TAKE i \in 1..4
    <3>2. txCnt' - i + Half' = 0 - i + 0
      BY <2>1
    <3>3. Line(Newest', 0 - i + 0) = 15
      <4>1. 0 - i + 0 \in Int /\ 0 - i + 0 < 0
        OBVIOUS
      <4>2. Newest' \in Payload
        BY <2>1, <2>5
      <4>3. QED BY <4>1, <4>2, LineFacts
    <3>4. rxdd[i] = 15
      <4>1. ASSUME flight # <<>> PROVE rxdd[i] = 15
        <5>1. P + 1 - i \in Int /\ P + 1 - i >= LastCnt - 3
          BY <1>1, <2>2
        <5>2. rxdd[i] = Line(Newest, P + 1 - i) /\ Newest \in Payload
          BY <1>3, <4>1, NewestIn
        <5>3. QED BY <5>1, <5>2, LineFacts
      <4>2. QED BY <1>3, <4>1
    <3>5. QED BY <3>2, <3>3, <3>4, TxKeeps
  <2>9. rxCnt' = rxCnt /\ rxState' = rxState
    BY TxKeeps
  <2>10. Behind'
    BY <1>3, <2>1, <2>3, <2>6, <2>7, <2>8, <2>9 DEF Behind
  <2>11. QED BY <1>5, <2>1, <2>10
<1>7. CASE StayFree \/ Shift
  <2>1. /\ TxOK' /\ UNCHANGED <<flight, late>> /\ Half' = 0
    BY <1>7, StayTx, ShiftTx, TxKeeps DEF StayFree
  <2>2. Pos' = P + 1 /\ \A i \in 1..4 : Pos' - i + Half' = P + 1 - i
    <3>1. Pos' = rxCnt + 5 + late - 0
      BY <2>1, TxKeeps DEF Pos
    <3>2. Pos' = P + 1
      BY <1>1, <3>1 DEF P
    <3>3. QED BY <1>1, <2>1, <3>2
  <2>3. IF txing' THEN txCnt' = Pos'
        ELSE /\ Pos' > LastCnt
             /\ gap' = IF Pos' - LastCnt <= MaxLate THEN Pos' - LastCnt ELSE MaxLate + 1
    <3>1. CASE Shift
      <4>1. txing /\ txing' = txing /\ txCnt' = txCnt + 1
        BY <3>1, ShiftTx
      <4>2. QED BY <1>3, <2>2, <4>1
    <3>2. CASE StayFree
      <4>1. txing' = FALSE /\ gap' = (IF gap <= MaxLate THEN gap + 1 ELSE gap) /\ Free
        BY <3>2 DEF StayFree
      <4>2. P >= LastCnt /\ gap = IF P - LastCnt <= MaxLate THEN P - LastCnt ELSE MaxLate + 1
        <5>1. CASE txing
          BY <1>1, <1>3, <1>4, <4>1, <5>1 DEF Free
        <5>2. CASE ~txing
          BY <1>1, <1>3, <5>2
        <5>3. QED BY <5>1, <5>2
      <4>3. QED BY <1>1, <2>2, <4>1, <4>2
    <3>3. QED BY <1>7, <3>1, <3>2
  <2>4. Newest' = Newest /\ rxCnt' = rxCnt /\ wf' = wf /\ rxState' = rxState /\ rxdd' = rxdd
    BY <2>1, TxKeeps DEF Newest
  <2>5. Under(1)'
    BY <1>3, <2>1, <2>4 DEF Under
  <2>6. IF flight' = <<>> THEN \A i \in 1..4 : rxdd'[i] = 15
        ELSE Sampled(Newest)' /\ \A i \in 1..4 : rxdd'[i] = Line(Newest', Pos' - i + Half')
    <3>1. Sampled(Newest) => Sampled(Newest)'
      BY <2>4, TxKeeps DEF Sampled, Taken
    <3>2. QED BY <1>3, <2>1, <2>2, <2>4, <3>1
  <2>7. Inside'
    BY <1>3, <2>3, <2>4, <2>5, <2>6 DEF Inside
  <2>8. QED BY <1>5, <2>1, <2>7
<1>8. QED BY <1>6, <1>7 DEF TxCycle

(***************************************************************************)
(* Every step keeps the invariant.                                         *)
(***************************************************************************)
Where == Quiet \/ Coming \/ Inside \/ Behind

LEMMA SameWhere ==
  ASSUME Where, UNCHANGED <<turn, txing, txCnt, rxdd, rxState, rxCnt, rxData, wf, flight, gap, late>>
  PROVE  Where'
<1>1. Half' = Half /\ Pos' = Pos /\ Newest' = Newest
  BY DEF Half, Pos, Newest
<1>2. /\ Under(1) => Under(1)'
      /\ Under(2) => Under(2)'
  BY DEF Under
<1>3. /\ Sampled(Newest) => Sampled(Newest)'
      /\ Sampled(flight[1]) => Sampled(flight[1])'
  BY <1>1 DEF Sampled, Taken
<1>4. CASE Quiet
  BY <1>4 DEF Quiet, Where
<1>5. CASE Coming
  BY <1>1, <1>5 DEF Coming, Where
<1>6. CASE Inside
  BY <1>1, <1>2, <1>3, <1>6 DEF Inside, Where
<1>7. CASE Behind
  BY <1>1, <1>2, <1>3, <1>7 DEF Behind, Where
<1>8. QED BY <1>4, <1>5, <1>6, <1>7 DEF Where

LEMMA UsersStep ==
  ASSUME Types, TxOK, Where, (\E m \in Payload : Put(m)) \/ Pop
  PROVE  TxOK' /\ Where'
<1>1. UNCHANGED <<turn, txing, txData, txCnt, rd, rxdd, rxState, rxCnt, rxData, wf, flight, gap, late>>
  BY DEF Put, Pop, txRegs, rxRegs
<1>2. /\ rd' => ~empty'
      /\ ~empty' /\ ~rd' => Lag(gap) <= MaxLate
  <2>1. CASE \E m \in Payload : Put(m)
    BY <2>1 DEF Put, TxOK
  <2>2. CASE Pop
    BY <2>2 DEF Pop, txRegs, TxOK
  <2>3. QED BY <2>1, <2>2
<1>3. Lag(gap)' = Lag(gap) /\ Newest' = Newest
  BY <1>1 DEF Lag, Newest
<1>4. TxOK'
  BY <1>1, <1>2, <1>3 DEF TxOK
<1>5. QED BY <1>1, <1>4, SameWhere

LEMMA LinkStep == ASSUME OneLate, LinkInv, [Next]_linkVars PROVE LinkInv'
<1>1. Types /\ TxOK /\ Where /\ Types'
  BY TypesStep DEF LinkInv, Where
<1>2. CASE TxCycle
  <2>1. turn = "tx"
    BY <1>2 DEF TxCycle
  <2>2. QED BY <1>1, <1>2, <2>1, QuietTx, ComingTx, InsideTx, BehindTx DEF Where, LinkInv
<1>3. CASE RxCycle
  <2>1. turn = "rx"
    BY <1>3 DEF RxCycle
  <2>2. QED BY <1>1, <1>3, <2>1, QuietRx, ComingRx, InsideRx, BehindRx DEF Where, LinkInv
<1>4. CASE (\E m \in Payload : Put(m)) \/ Pop
  BY <1>1, <1>4, UsersStep DEF Where, LinkInv
<1>5. CASE UNCHANGED linkVars
  <2>1. UNCHANGED <<turn, txing, empty, txData, txCnt, rd, rxdd, rxState, rxCnt, rxData, wf, flight, gap, late>>
    BY <1>5 DEF linkVars, txRegs, rxRegs
  <2>2. TxOK'
    BY <1>1, <2>1 DEF TxOK, Newest, Lag
  <2>3. QED BY <1>1, <2>1, <2>2, SameWhere DEF Where, LinkInv
<1>6. QED BY <1>2, <1>3, <1>4, <1>5 DEF Next

LEMMA LinkInvHolds == ASSUME OneLate PROVE Spec => []LinkInv
<1>1. LinkInv /\ [Next]_linkVars => LinkInv'
  BY LinkStep
<1>2. QED BY <1>1, LinkInit, PTL DEF Spec

(***************************************************************************)
(* The link is a channel.                                                  *)
(***************************************************************************)
\* At most two frames are under way, one when the next is loaded.
LEMMA TwoFrames ==
  ASSUME OneLate, LinkInv
  PROVE  /\ wf => flight # <<>>
         /\ turn = "tx" /\ TxCycle /\ LoadFrame => Len(flight) < 2
<1>1. Types /\ TxOK /\ Where
  BY DEF LinkInv, Where
<1>2. wf => flight # <<>>
  <2>1. SUFFICES ASSUME wf PROVE flight # <<>>
    OBVIOUS
  <2>2. Under(1) \/ Under(2)
    BY <1>1, <2>1 DEF Where, Quiet, Coming, Inside, Behind
  <2>3. Len(flight) = 1 \/ Len(flight) = 2
    BY <2>1, <2>2 DEF Under
  <2>4. Len(flight) # 0
    BY <2>3
  <2>5. QED BY <2>4
<1>3. ASSUME turn = "tx", TxCycle, LoadFrame PROVE Len(flight) < 2
  <2>1. ~Shift
    BY <1>3 DEF LoadFrame, Shift
  <2>2. CASE Quiet
    BY <2>2, FlightLen, <1>1 DEF Quiet
  <2>3. CASE Coming \/ Behind
    BY <1>1, <1>3, <2>1, <2>3, ComingTx, BehindTx
  <2>4. CASE Inside
    <3>1. Len(flight) \in {0, 1}
      BY <1>1, <1>3, <2>4, InsideTx
    <3>2. QED BY <3>1
  <2>5. QED BY <1>1, <2>2, <2>3, <2>4 DEF Where
<1>4. QED BY <1>2, <1>3

\* What is stored is the oldest frame under way, whole.
LEMMA StoresOldest == ASSUME OneLate, LinkInv, wf PROVE flight # <<>> /\ Stored = Head(flight)
<1>1. Types /\ TxOK /\ Where /\ rxCnt = LastCnt
  BY DEF LinkInv, Where, Types
<1>2. flight \in Seq(Payload) /\ flight # <<>> /\ flight[1] \in Payload
  <2>1. flight \in Seq(Payload) /\ flight # <<>> /\ Len(flight) \in Nat
    BY <1>1, TwoFrames, FlightLen
  <2>2. 1 \in 1..Len(flight)
    BY <1>1, <2>1, NewestIn
  <2>3. QED BY <2>1, <2>2, ElementOfSeq
<1>3. Sampled(flight[1])
  <2>1. CASE Inside
    <3>1. Len(flight) = 1 /\ Sampled(Newest)
      BY <1>2, <2>1 DEF Inside, Under
    <3>2. QED BY <3>1 DEF Newest
  <2>2. CASE Behind
    BY <2>2 DEF Behind, Under
  <2>3. QED BY <1>1, <2>1, <2>2 DEF Where, Quiet, Coming
<1>4. Taken = Nybbles + 2
  BY <1>1, Sizes DEF Taken
<1>5. \A i \in 1..Nybbles + 2 : rxData[i] = Frame(flight[1])[i]
  <2>1. \A i \in 1..Nybbles + 2 : rxData[Nybbles + 2 - (Nybbles + 2) + i] = Frame(flight[1])[i]
    BY <1>3, <1>4 DEF Sampled
  <2>2. \A i \in 1..Nybbles + 2 : Nybbles + 2 - (Nybbles + 2) + i = i
    BY Sizes
  <2>3. QED BY <2>1, <2>2
<1>6. Stored = flight[1]
  BY <1>1, <1>2, <1>5, Unframed DEF Stored, Types
<1>7. Head(flight) = flight[1]
  BY <1>2
<1>8. QED BY <1>2, <1>6, <1>7

LEMMA ChannelStep == ASSUME OneLate, LinkInv, [Next]_linkVars PROVE [Channel!Next]_(Channel!vars)
<1>1. Types /\ TxOK
  BY DEF LinkInv
<1>2. ASSUME NEW m \in Payload, Put(m) PROVE Channel!Put(m)
  <2>1. empty /\ ~rd /\ fdo' = m /\ empty' = FALSE /\ rd' = rd /\ flight' = flight /\ fifo' = fifo
    BY <1>1, <1>2 DEF Put, rxRegs, TxOK
  <2>2. QED BY <2>1 DEF Channel!Put
<1>3. ASSUME Pop PROVE Channel!Pop
  BY <1>3 DEF Pop, txRegs, Channel!Pop
<1>4. ASSUME TxCycle PROVE Channel!Load \/ UNCHANGED Channel!vars
  <2>1. fifo' = fifo /\ fdo' = fdo /\ turn = "tx"
    BY <1>4 DEF TxCycle, rxRegs
  <2>2. CASE LoadFrame
    <3>1. ~empty /\ ~rd /\ fdo \in Payload /\ rd' /\ flight' = Append(flight, fdo)
      BY <1>1, <2>2, LoadTx DEF LoadFrame
    <3>2. fdo # None
      BY <3>1, RouterLinkAssumption
    <3>3. Len(flight) < 2
      BY <1>4, <2>1, <2>2, TwoFrames
    <3>4. QED BY <2>1, <3>1, <3>2, <3>3 DEF Channel!Load
  <2>3. CASE StayFree
    BY <2>1, <2>3 DEF StayFree, Channel!vars
  <2>4. CASE Shift
    BY <2>1, <2>4 DEF Shift, Channel!vars
  <2>5. QED BY <1>4, <2>2, <2>3, <2>4 DEF TxCycle
<1>5. ASSUME RxCycle PROVE Channel!Arrive \/ UNCHANGED Channel!vars
  <2>1. /\ UNCHANGED <<empty, rd, fdo>>
        /\ fifo' = IF wf THEN Append(fifo, Stored) ELSE fifo
        /\ flight' = IF (wf \/ Overrun) /\ flight # <<>> THEN Tail(flight) ELSE flight
    BY <1>5 DEF RxCycle, txRegs
  <2>2. CASE wf
    <3>1. flight # <<>> /\ Stored = Head(flight) /\ Len(fifo) < RxDepth
      BY <1>1, <2>2, StoresOldest DEF Types
    <3>2. QED BY <2>1, <2>2, <3>1 DEF Channel!Arrive
  <2>3. CASE ~wf /\ Overrun /\ flight # <<>>
    <3>1. ~(Len(fifo) < RxDepth)
      BY <1>1, <2>3, Sizes, LenProperties DEF Overrun, Types
    <3>2. QED BY <2>1, <2>3, <3>1 DEF Channel!Arrive
  <2>4. CASE ~wf /\ ~(Overrun /\ flight # <<>>)
    BY <2>1, <2>4 DEF Channel!vars
  <2>5. QED BY <2>2, <2>3, <2>4
<1>6. CASE UNCHANGED linkVars
  BY <1>6 DEF linkVars, txRegs, rxRegs, Channel!vars
<1>7. QED BY <1>2, <1>3, <1>4, <1>5, <1>6 DEF Next, Channel!Next

\* A receiver that is never more than one cycle late stores every frame whole, in order
\* and once, or loses it to a full fifo, whatever the messages and their length.
THEOREM LinkIsChannel == ASSUME OneLate PROVE Spec => ImplementsChannel
<1>1. Init => Channel!Init
  BY DEF Init, Channel!Init
<1>2. LinkInv /\ [Next]_linkVars => [Channel!Next]_(Channel!vars)
  BY ChannelStep
<1>3. QED BY <1>1, <1>2, LinkInvHolds, PTL DEF Spec, ImplementsChannel, Channel!Spec
=============================================================================
