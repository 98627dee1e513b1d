----------------------------- MODULE RouterLink -----------------------------
(***************************************************************************)
(* One link of the grid, cycle by cycle of the serial clock sclk: the      *)
(* transmitter routerTxBs.v, the four wires, and the receiver              *)
(* routerRxBs.v with its synchroniser and its fifo.  Both ends run on the  *)
(* same clk100 (grid.v); a cycle is the receiver's step followed by the    *)
(* transmitter's, so that the receiver samples the wires as they were      *)
(* before the clock edge.                                                  *)
(*                                                                         *)
(* A frame is a start nybble 0, the data nybbles, and a stop nybble F,     *)
(* four cycles each.  With the 32 data nybbles of the code, StopAt is 86   *)
(* hexadecimal and LastCnt is 87.                                          *)
(***************************************************************************)
EXTENDS Naturals, Sequences

CONSTANTS
  Nybbles,  \* data nybbles in a message; 32 in the code
  Payload,  \* the messages sent: sequences of nybbles
  None,     \* no message
  RxDepth,  \* fifocnt at which the receiver overruns; 31 in the code
  MaxLate   \* how many cycles the receiver may be behind a frame's start

ASSUME RouterLinkAssumption ==
  /\ Nybbles \in Nat \ {0}
  /\ Payload \subseteq [1..Nybbles -> 0..15]
  /\ None \notin Payload
  /\ RxDepth \in Nat \ {0}
  /\ MaxLate \in Nat

LastCnt == 4 * (Nybbles + 2) - 1
StopAt  == LastCnt - 1
Ones    == [i \in 1..(Nybbles + 2) |-> 15]
Frame(m) == <<0>> \o m \o <<15>>

VARIABLES
  turn,                             \* whose half of the cycle is next
  txing, empty, fdo, txData, txCnt, rd, \* registers of routerTxBs
  rxdd, rxState, rxCnt, rxData, wf,     \* registers of routerRxBs
  fifo,                             \* routerFifo2
  flight,                           \* history: frames loaded and not yet stored
  gap, late                         \* history: idle cycles since the last frame,
                                    \* and the receiver's lag behind its start
txRegs   == <<txing, empty, fdo, txData, txCnt, rd>>
rxRegs   == <<rxdd, rxState, rxCnt, rxData, wf, fifo>>
linkVars == <<turn, txRegs, rxRegs, flight, gap, late>>

Init ==
  /\ turn = "rx"
  /\ txing = FALSE /\ empty = TRUE /\ fdo = None /\ rd = FALSE
  /\ txData = Ones /\ txCnt = 0
  /\ rxdd = <<15, 15, 15, 15>>
  /\ rxState = "IDLE" /\ rxCnt = 0 /\ wf = FALSE
  /\ rxData = Ones
  /\ fifo = <<>> /\ flight = <<>>
  /\ gap = MaxLate + 1 /\ late = 0

txd == txData[1]

\* Lag of the receiver behind the start of the frame that is loaded after g
\* idle cycles: a frame lasts one cycle less than the receiver is busy with it.
Lag(g) == IF late + 1 > g THEN late + 1 - g ELSE 0

(***************************************************************************)
(* The router writes when it sees the buffer empty.  MaxLate states how    *)
(* close it may pack the frames.                                           *)
(***************************************************************************)
Put(m) ==
  /\ empty
  /\ Lag(gap) <= MaxLate
  /\ fdo' = m
  /\ empty' = FALSE
  /\ UNCHANGED <<turn, txing, txData, txCnt, rd, rxRegs, flight, gap, late>>

Pop ==
  /\ fifo # <<>>
  /\ fifo' = Tail(fifo)
  /\ UNCHANGED <<turn, txRegs, rxdd, rxState, rxCnt, rxData, wf, flight, gap, late>>

-----------------------------------------------------------------------------
(***************************************************************************)
(* The transmitter's half of a cycle.                                      *)
(***************************************************************************)
Free == txCnt = LastCnt \/ ~txing

LoadFrame ==
  /\ Free /\ ~empty
  /\ txing' = TRUE
  /\ txData' = Frame(fdo)
  /\ txCnt' = 0
  /\ rd' = TRUE
  /\ empty' = IF rd THEN TRUE ELSE empty
  /\ flight' = Append(flight, fdo)
  /\ late' = Lag(gap)
  /\ gap' = 0

StayFree ==
  /\ Free /\ empty
  /\ txing' = FALSE
  /\ txCnt' = 0
  /\ rd' = FALSE
  /\ gap' = IF gap <= MaxLate THEN gap + 1 ELSE gap
  /\ UNCHANGED <<txData, empty, flight, late>>

Shift ==
  /\ ~Free
  /\ txCnt' = txCnt + 1
  /\ txData' = IF txCnt % 4 = 3 THEN Append(Tail(txData), 15) ELSE txData
  /\ rd' = FALSE
  /\ empty' = IF rd THEN TRUE ELSE empty
  /\ UNCHANGED <<txing, flight, gap, late>>

TxCycle ==
  /\ turn = "tx"
  /\ turn' = "rx"
  /\ LoadFrame \/ StayFree \/ Shift
  /\ UNCHANGED <<fdo, rxRegs>>

-----------------------------------------------------------------------------
(***************************************************************************)
(* The receiver's half of a cycle.  frame_err is left out: it delays       *)
(* nothing and stops nothing.                                              *)
(***************************************************************************)
Start ==
  /\ rxState = "IDLE"
  /\ rxState' = IF rxdd[4] = 0 THEN "CNT" ELSE "IDLE"
  /\ rxCnt' = 0
  /\ wf' = FALSE
  /\ UNCHANGED rxData

FalseStart == rxCnt = 1 /\ rxdd[4] # 0

BugSampleLater ==
  /\ rxState = "CNT"
  /\ rxState' = IF rxCnt = LastCnt \/ FalseStart THEN "IDLE" ELSE "CNT"
  /\ rxCnt' = rxCnt + 1
  /\ rxData' = IF rxCnt % 4 = 2 THEN Append(Tail(rxData), rxdd[4]) ELSE rxData
  /\ wf' = (rxCnt = StopAt /\ Len(fifo) < RxDepth)

BugSampleOverfills ==
  /\ rxState = "CNT"
  /\ rxState' = IF rxCnt = LastCnt \/ FalseStart THEN "IDLE" ELSE "CNT"
  /\ rxCnt' = rxCnt + 1
  /\ rxData' = IF rxCnt % 4 = 1 THEN Append(Tail(rxData), rxdd[4]) ELSE rxData
  /\ wf' = (rxCnt = StopAt)

Sample ==
  /\ rxState = "CNT"
  /\ rxState' = IF rxCnt = LastCnt \/ FalseStart THEN "IDLE" ELSE "CNT"
  /\ rxCnt' = rxCnt + 1
  /\ rxData' = IF rxCnt % 4 = 1 THEN Append(Tail(rxData), rxdd[4]) ELSE rxData
  /\ wf' = (rxCnt = StopAt /\ Len(fifo) < RxDepth)

Overrun == rxState = "CNT" /\ rxCnt = StopAt /\ Len(fifo) >= RxDepth

\* The message without the start and the stop nybble.
Stored == SubSeq(rxData, 2, Nybbles + 1)

RxCycle ==
  /\ turn = "rx"
  /\ turn' = "tx"
  /\ rxdd' = <<txd>> \o SubSeq(rxdd, 1, 3)
  /\ Start \/ Sample
  /\ fifo' = IF wf THEN Append(fifo, Stored) ELSE fifo
  /\ flight' = IF (wf \/ Overrun) /\ flight # <<>> THEN Tail(flight) ELSE flight
  /\ UNCHANGED <<txRegs, gap, late>>

Next == (\E m \in Payload : Put(m)) \/ Pop \/ TxCycle \/ RxCycle

Spec == Init /\ [][Next]_linkVars

-----------------------------------------------------------------------------
Channel == INSTANCE LinkChannel WITH
  WireDepth <- 2,
  slot      <- IF empty \/ rd THEN None ELSE fdo,
  wire      <- flight

\* The link is a channel: while the receiver is at most one cycle behind, it
\* stores every frame whole, in order and once, or loses it because its fifo is
\* full; zeros and Fs inside a message do not confuse it.
ImplementsChannel == Channel!Spec

\* The registers and fifos have their types, and the receiver is either idle or
\* inside the frame it counts.
LinkTypeOK ==
  /\ turn \in {"rx", "tx"}
  /\ {txing, empty, rd, wf} \subseteq BOOLEAN
  /\ fdo \in Payload \cup {None}
  /\ txCnt \in 0..LastCnt
  /\ rxCnt \in 0..LastCnt + 1
  /\ rxState \in {"IDLE", "CNT"}
  /\ \A i \in 1..4 : rxdd[i] \in 0..15
  /\ Len(txData) = Nybbles + 2 /\ Len(rxData) = Nybbles + 2
  /\ Len(fifo) <= RxDepth

\* "Switch back to the idle state a little bit too soon" (routerRxBs.v:152-153):
\* when the receiver leaves a frame it still sees its stop nybble, so it cannot
\* miss the beginning of the next frame.
BackBeforeNextFrame == rxState = "CNT" /\ rxCnt = LastCnt => rxdd[4] = 15
=============================================================================
