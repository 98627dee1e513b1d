------------------------------ MODULE RouterTop ------------------------------
(***************************************************************************)
(* The router of a Butterfly grid node, routerTop.v: its Wishbone          *)
(* registers, the state machine that takes messages out of the receive     *)
(* fifos, and the task chk_match that decides where each one goes.  Every  *)
(* variable is a function of the node, so that ButterflyGrid can compose   *)
(* the routers with the links between them.                                *)
(*                                                                         *)
(* A step of a router is one clk_i cycle in which the state machine moves; *)
(* cycles spent waiting for a full transmitter are stuttering.  The write  *)
(* pulses wf and rdf and the one-cycle handshake with the transmitter are  *)
(* part of the step that starts them.                                      *)
(*                                                                         *)
(* A definition named Bug... before the one it varies is a faulty variant  *)
(* of it: PROJECT.json names the property that notices it.                 *)
(***************************************************************************)
EXTENDS Naturals, Sequences

CONSTANTS
  Cols,       \* columns of the grid; the code has 8
  Rows,       \* rows of the grid; the code has 7
  ZNodes,     \* the nodes built with HAS_ZROUTE
  FifoDepth,  \* depth of the local fifo, routerFifo3
  Id,         \* identities of messages: everything the router does not read
  NullId,     \* identity of the all-zero frame
  None        \* an empty transmit slot, or a buffer never written

(***************************************************************************)
(* Addresses.  A node is <<X, Y>>.  The bitmap controller sits in row 1    *)
(* after the last column and answers to address F1; FF is the broadcast.   *)
(***************************************************************************)
BMC  == <<15, 1>>
Node == ((1..Cols) \X (1..Rows)) \cup {BMC}
Port == {"X", "Y", "Z"}

Message == [id : Id \cup {NullId}, x : 0..15, y : 0..15, ttl : 0..63]

ASSUME GridAssumption ==
  /\ Cols \in 1..14
  /\ Rows \in 1..14
  /\ ZNodes \subseteq Node
  /\ FifoDepth \in Nat \ {0}
  /\ None \notin Message

IsBroadcast(m) == m.x = 15 /\ m.y = 15
IsForBMC(m)    == m.x = 15 /\ m.y = 1
InGrid(m)      == m.x \in 1..Cols /\ m.y \in 1..Rows
IsUnicast(m)   == IsForBMC(m) \/ InGrid(m)

VARIABLES
  state,   \* state[n]: the state register of the router's machine
  rxBuf,   \* rxBuf[n]: the message taken from a receive fifo
  txBuf,   \* txBuf[n]: the message written by the node's CPU
  txBuf2,  \* txBuf2[n]: the broadcast being sent on every port
  dpTx,    \* dpTx[n]: the CPU's message is waiting in txBuf
  snoop,   \* snoop[n]: keep a copy of what passes through
  fifo,    \* fifo[n]: the local fifo, read by the CPU
  rxFifo,  \* rxFifo[n][p]: the fifo of the receiver of port p
  txSlot   \* txSlot[n][p]: fdo of the transmitter of port p, None when empty

routerVars == <<state, rxBuf, txBuf, txBuf2, dpTx, snoop, fifo, rxFifo, txSlot>>

States == {"IDLE", "ACKRXX", "ACKRXY", "ACKRXZ",
           "CHK_MATCHX", "CHK_MATCHY", "CHK_MATCHZ", "CHK_MATCHT",
           "NACKTXX", "NACKTXY", "NACKTXZ",
           "TXGBL", "NACKTXXG", "TXGBLY", "NACKTXZG", "TXGBLZ"}

AckRx   == [p \in Port |-> CASE p = "X" -> "ACKRXX"
                             [] p = "Y" -> "ACKRXY"
                             [] p = "Z" -> "ACKRXZ"]
ChkMatch == [p \in Port |-> CASE p = "X" -> "CHK_MATCHX"
                              [] p = "Y" -> "CHK_MATCHY"
                              [] p = "Z" -> "CHK_MATCHZ"]
NackTx  == [p \in Port |-> CASE p = "X" -> "NACKTXX"
                             [] p = "Y" -> "NACKTXY"
                             [] p = "Z" -> "NACKTXZ"]
TxGbl   == [p \in Port |-> CASE p = "X" -> "TXGBL"
                             [] p = "Y" -> "TXGBLY"
                             [] p = "Z" -> "TXGBLZ"]

-----------------------------------------------------------------------------
\* Reset (routerTop.v:308-337) leaves snoop and the buffers as they were.
RouterInit(snoopers) ==
  /\ state  = [n \in Node |-> "IDLE"]
  /\ rxBuf  = [n \in Node |-> None]
  /\ txBuf  = [n \in Node |-> None]
  /\ txBuf2 = [n \in Node |-> None]
  /\ dpTx   = [n \in Node |-> FALSE]
  /\ snoop \in [Node -> BOOLEAN]
  /\ \A n \in Node : snoop[n] => n \in snoopers
  /\ fifo   = [n \in Node |-> <<>>]
  /\ rxFifo = [n \in Node |-> [p \in Port |-> <<>>]]
  /\ txSlot = [n \in Node |-> [p \in Port |-> None]]

(***************************************************************************)
(* The registers.                                                          *)
(***************************************************************************)
\* Registers 0-F and 12: software fills txBuf while dpTx is low, then sets dpTx.
WriteTxBuf(n, m) ==
  /\ ~dpTx[n]
  /\ txBuf' = [txBuf EXCEPT ![n] = m]
  /\ dpTx' = [dpTx EXCEPT ![n] = TRUE]
  /\ UNCHANGED <<state, rxBuf, txBuf2, snoop, fifo, rxFifo, txSlot>>

\* Register 11: bit 7 is snoop, bit 6 pops the local fifo.
WriteRxCtl(n, snp, pop) ==
  /\ snoop' = [snoop EXCEPT ![n] = snp]
  /\ fifo' = [fifo EXCEPT ![n] = IF pop /\ @ # <<>> THEN Tail(@) ELSE @]
  /\ UNCHANGED <<state, rxBuf, txBuf, txBuf2, dpTx, rxFifo, txSlot>>

-----------------------------------------------------------------------------
(***************************************************************************)
(* The state machine.                                                      *)
(***************************************************************************)
Goto(n, s) == state' = [state EXCEPT ![n] = s]

BugPickNoTx(n) ==
  IF rxFifo[n]["X"] # <<>> THEN "ACKRXX"
  ELSE IF rxFifo[n]["Y"] # <<>> THEN "ACKRXY"
  ELSE IF rxFifo[n]["Z"] # <<>> THEN "ACKRXZ"
  ELSE "IDLE"

\* The fixed priority of IDLE: X, then Y, then Z, then the node's own message.
Pick(n) ==
  IF rxFifo[n]["X"] # <<>> THEN "ACKRXX"
  ELSE IF rxFifo[n]["Y"] # <<>> THEN "ACKRXY"
  ELSE IF rxFifo[n]["Z"] # <<>> THEN "ACKRXZ"
  ELSE IF dpTx[n] THEN "CHK_MATCHT"
  ELSE "IDLE"

Idle(n) ==
  /\ state[n] = "IDLE"
  /\ Pick(n) # "IDLE"
  /\ Goto(n, Pick(n))
  /\ UNCHANGED <<rxBuf, txBuf, txBuf2, dpTx, snoop, fifo, rxFifo, txSlot>>

BugReceiveKeeps(n, p) ==
  /\ state[n] = AckRx[p]
  /\ rxBuf' = [rxBuf EXCEPT ![n] = Head(rxFifo[n][p])]
  /\ Goto(n, ChkMatch[p])
  /\ UNCHANGED <<txBuf, txBuf2, dpTx, snoop, fifo, rxFifo, txSlot>>

Receive(n, p) ==
  /\ state[n] = AckRx[p]
  /\ rxBuf' = [rxBuf EXCEPT ![n] = Head(rxFifo[n][p])]
  /\ rxFifo' = [rxFifo EXCEPT ![n][p] = Tail(@)]
  /\ Goto(n, ChkMatch[p])
  /\ UNCHANGED <<txBuf, txBuf2, dpTx, snoop, fifo, txSlot>>

(***************************************************************************)
(* chk_match(buff, rsttx).                                                 *)
(***************************************************************************)
Matching(n) == state[n] \in {"CHK_MATCHX", "CHK_MATCHY", "CHK_MATCHZ", "CHK_MATCHT"}
Buff(n)     == IF state[n] = "CHK_MATCHT" THEN txBuf[n] ELSE rxBuf[n]
Aged(m)     == [m EXCEPT !.ttl = @ - 1]

BugResetTxNever(n) == dpTx' = dpTx

\* rsttx: a message of the node's own lets the CPU write the next one.
ResetTx(n) == dpTx' = [dpTx EXCEPT ![n] = @ /\ state[n] # "CHK_MATCHT"]

BugStoredOverwrites(q, m) == Append(IF Len(q) < FifoDepth THEN q ELSE Tail(q), m)

\* wf: the fifo ignores a write when it is full.
Stored(q, m) == IF Len(q) < FifoDepth THEN Append(q, m) ELSE q

BugRouteImmortal(n, m) ==
  IF IsBroadcast(m) THEN "ALL"
  ELSE IF IsForBMC(m) THEN
    IF m.y # n[2] THEN "Y" ELSE IF m.x # n[1] THEN "X" ELSE "HERE"
  ELSE IF ~InGrid(m) THEN "ILLEGAL"
  ELSE IF m.x # n[1] THEN "X" ELSE IF m.y # n[2] THEN "Y" ELSE "HERE"

BugRouteYFirst(n, m) ==
  IF m.ttl = 0 THEN "EXPIRED"
  ELSE IF IsBroadcast(m) THEN "ALL"
  ELSE IF ~IsUnicast(m) THEN "ILLEGAL"
  ELSE IF m.y # n[2] THEN "Y" ELSE IF m.x # n[1] THEN "X" ELSE "HERE"

BugRouteXFirst(n, m) ==
  IF m.ttl = 0 THEN "EXPIRED"
  ELSE IF IsBroadcast(m) THEN "ALL"
  ELSE IF ~IsUnicast(m) THEN "ILLEGAL"
  ELSE IF m.x # n[1] THEN "X" ELSE IF m.y # n[2] THEN "Y" ELSE "HERE"

Route(n, m) ==
  IF m.ttl = 0 THEN "EXPIRED"
  ELSE IF IsBroadcast(m) THEN "ALL"
  ELSE IF IsForBMC(m) THEN
    IF m.y # n[2] THEN "Y" ELSE IF m.x # n[1] THEN "X" ELSE "HERE"
  ELSE IF ~InGrid(m) THEN "ILLEGAL"
  ELSE IF m.x # n[1] THEN "X"
  ELSE IF m.y # n[2] THEN "Y"
  ELSE "HERE"

\* The machine stays where it is.
BugExpireHangs(n) ==
  /\ Matching(n)
  /\ Route(n, Buff(n)) = "EXPIRED"
  /\ UNCHANGED routerVars

\* A dead message is dropped; dpTx is not reset.
Expire(n) ==
  /\ Matching(n)
  /\ Route(n, Buff(n)) = "EXPIRED"
  /\ Goto(n, "IDLE")
  /\ UNCHANGED <<rxBuf, txBuf, txBuf2, dpTx, snoop, fifo, rxFifo, txSlot>>

Discard(n) ==
  /\ Matching(n)
  /\ Route(n, Buff(n)) = "ILLEGAL"
  /\ ResetTx(n)
  /\ Goto(n, "IDLE")
  /\ UNCHANGED <<rxBuf, txBuf, txBuf2, snoop, fifo, rxFifo, txSlot>>

Accept(n) ==
  /\ Matching(n)
  /\ Route(n, Buff(n)) = "HERE"
  /\ fifo' = [fifo EXCEPT ![n] = Stored(@, Buff(n))]
  /\ ResetTx(n)
  /\ Goto(n, "IDLE")
  /\ UNCHANGED <<rxBuf, txBuf, txBuf2, snoop, rxFifo, txSlot>>

BugForwardCopies(n, p) ==
  /\ Matching(n)
  /\ Route(n, Buff(n)) = p
  /\ txSlot[n][p] = None
  /\ txSlot' = [txSlot EXCEPT ![n][p] = Aged(Buff(n))]
  /\ fifo' = [fifo EXCEPT ![n] = Stored(@, Buff(n))]
  /\ ResetTx(n)
  /\ Goto(n, NackTx[p])
  /\ UNCHANGED <<rxBuf, txBuf, txBuf2, snoop, rxFifo>>

\* txX and txY: nothing happens until the transmitter is empty.
Forward(n, p) ==
  /\ Matching(n)
  /\ Route(n, Buff(n)) = p
  /\ txSlot[n][p] = None
  /\ txSlot' = [txSlot EXCEPT ![n][p] = Aged(Buff(n))]
  /\ fifo' = [fifo EXCEPT ![n] = IF snoop[n] THEN Stored(@, Buff(n)) ELSE @]
  /\ ResetTx(n)
  /\ Goto(n, NackTx[p])
  /\ UNCHANGED <<rxBuf, txBuf, txBuf2, snoop, rxFifo>>

Broadcast(n) ==
  /\ Matching(n)
  /\ Route(n, Buff(n)) = "ALL"
  /\ txBuf2' = [txBuf2 EXCEPT ![n] = Aged(Buff(n))]
  /\ fifo' = [fifo EXCEPT ![n] = Stored(@, Buff(n))]
  /\ ResetTx(n)
  /\ Goto(n, "TXGBL")
  /\ UNCHANGED <<rxBuf, txBuf, snoop, rxFifo, txSlot>>

BugAfterFloodStops(n, p) ==
  IF p = "Y" /\ n \in ZNodes THEN "NACKTXZG" ELSE NackTx[p]

AfterFlood(n, p) ==
  IF p = "X" THEN "NACKTXXG"
  ELSE IF p = "Y" /\ n \in ZNodes THEN "NACKTXZG"
  ELSE NackTx[p]

\* TXGBL, TXGBLY and TXGBLZ: the broadcast goes out on one port after the other.
Flood(n, p) ==
  /\ state[n] = TxGbl[p]
  /\ txSlot[n][p] = None
  /\ txSlot' = [txSlot EXCEPT ![n][p] = txBuf2[n]]
  /\ Goto(n, AfterFlood(n, p))
  /\ UNCHANGED <<rxBuf, txBuf, txBuf2, dpTx, snoop, fifo, rxFifo>>

BugAfterNackStuck ==
  [s \in {"NACKTXX", "NACKTXY", "NACKTXZ", "NACKTXXG", "NACKTXZG"} |->
     CASE s = "NACKTXXG" -> "TXGBLY"
       [] s = "NACKTXZG" -> "TXGBLZ"
       [] s = "NACKTXY"  -> "NACKTXY"
       [] OTHER          -> "IDLE"]

\* The NACKTX states end the handshake with the transmitter.
AfterNack ==
  [s \in {"NACKTXX", "NACKTXY", "NACKTXZ", "NACKTXXG", "NACKTXZG"} |->
     CASE s = "NACKTXXG" -> "TXGBLY"
       [] s = "NACKTXZG" -> "TXGBLZ"
       [] OTHER          -> "IDLE"]

EndTx(n) ==
  /\ state[n] \in DOMAIN AfterNack
  /\ Goto(n, AfterNack[state[n]])
  /\ UNCHANGED <<rxBuf, txBuf, txBuf2, dpTx, snoop, fifo, rxFifo, txSlot>>

RouterStep(n) ==
  \/ Idle(n)
  \/ \E p \in Port : Receive(n, p)
  \/ Expire(n)
  \/ Discard(n)
  \/ Accept(n)
  \/ \E p \in {"X", "Y"} : Forward(n, p)
  \/ Broadcast(n)
  \/ \E p \in Port : Flood(n, p)
  \/ EndTx(n)

RouterTypeOK ==
  /\ state  \in [Node -> States]
  /\ rxBuf  \in [Node -> Message \cup {None}]
  /\ txBuf  \in [Node -> Message \cup {None}]
  /\ txBuf2 \in [Node -> Message \cup {None}]
  /\ dpTx   \in [Node -> BOOLEAN]
  /\ snoop  \in [Node -> BOOLEAN]
  /\ fifo   \in [Node -> Seq(Message)]
  /\ rxFifo \in [Node -> [Port -> Seq(Message)]]
  /\ txSlot \in [Node -> [Port -> Message \cup {None}]]
=============================================================================
