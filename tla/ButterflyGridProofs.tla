------------------------- MODULE ButterflyGridProofs -------------------------
(***************************************************************************)
(* Invariants of ButterflyGrid, proved for every grid, workload and depth  *)
(* of fifo.                                                                *)
(***************************************************************************)
EXTENDS ButterflyGrid, TLAPS

(***************************************************************************)
(* TypeOK is not inductive: a state of the machine promises that the       *)
(* buffer it reads has been filled.                                        *)
(***************************************************************************)
Flooding == {"TXGBL", "NACKTXXG", "TXGBLY", "NACKTXZG", "TXGBLZ"}

BuffersFilled ==
  \A n \in Node :
    /\ \A p \in Port : state[n] = AckRx[p] => rxFifo[n][p] # <<>>
    /\ Holding(n) => rxBuf[n] \in Message
    /\ dpTx[n] => txBuf[n] \in Message
    /\ state[n] = "CHK_MATCHT" => dpTx[n]
    /\ state[n] \in Flooding => txBuf2[n] \in Message /\ IsBroadcast(txBuf2[n])
    /\ snoop[n] => n \in Snoopers

IInv == TypeOK /\ BuffersFilled

-----------------------------------------------------------------------------
(***************************************************************************)
(* Lemmas about data.                                                      *)
(***************************************************************************)
LEMMA HeadTail ==
  ASSUME NEW S, NEW q \in Seq(S), q # <<>>
  PROVE  Head(q) \in S /\ Tail(q) \in Seq(S)
OBVIOUS

LEMMA Appended ==
  ASSUME NEW S, NEW q \in Seq(S), NEW e \in S
  PROVE  Append(q, e) \in Seq(S)
OBVIOUS

\* A fifo that ignores what it cannot take holds nothing but what was offered to it.
LEMMA StoredIn ==
  ASSUME NEW S, NEW q \in Seq(S), NEW e \in S
  PROVE  Stored(q, e) \in Seq(S) /\ Buffered(q, e) \in Seq(S)
BY Appended DEF Stored, Buffered

\* What waits in a receive fifo stays there when another message arrives.
LEMMA BufferedKeeps ==
  ASSUME NEW S, NEW q \in Seq(S), NEW e \in S, q # <<>>
  PROVE  Buffered(q, e) # <<>>
BY DEF Buffered

\* Ageing a message that is alive changes nothing but its time to live.
LEMMA AgedMessage ==
  ASSUME NEW m \in Message, m.ttl # 0
  PROVE  /\ Aged(m) \in Message
         /\ Aged(m).id = m.id /\ Aged(m).x = m.x /\ Aged(m).y = m.y
         /\ Aged(m).ttl = m.ttl - 1
BY DEF Aged, Message

LEMMA NullFrameMessage == NullFrame \in Message
BY DEF NullFrame, Message

\* The states of a router's machine that exist once per port.
LEMMA PortStates ==
  /\ AckRx["X"] = "ACKRXX" /\ AckRx["Y"] = "ACKRXY" /\ AckRx["Z"] = "ACKRXZ"
  /\ ChkMatch["X"] = "CHK_MATCHX" /\ ChkMatch["Y"] = "CHK_MATCHY"
  /\ ChkMatch["Z"] = "CHK_MATCHZ"
  /\ NackTx["X"] = "NACKTXX" /\ NackTx["Y"] = "NACKTXY" /\ NackTx["Z"] = "NACKTXZ"
  /\ TxGbl["X"] = "TXGBL" /\ TxGbl["Y"] = "TXGBLY" /\ TxGbl["Z"] = "TXGBLZ"
BY DEF AckRx, ChkMatch, NackTx, TxGbl, Port

LEMMA AfterNackStates ==
  /\ DOMAIN AfterNack = {"NACKTXX", "NACKTXY", "NACKTXZ", "NACKTXXG", "NACKTXZG"}
  /\ AfterNack["NACKTXX"] = "IDLE" /\ AfterNack["NACKTXY"] = "IDLE"
  /\ AfterNack["NACKTXZ"] = "IDLE"
  /\ AfterNack["NACKTXXG"] = "TXGBLY" /\ AfterNack["NACKTXZG"] = "TXGBLZ"
BY DEF AfterNack

LEMMA PickStates ==
  ASSUME NEW n
  PROVE  /\ Pick(n) \in {"IDLE", "ACKRXX", "ACKRXY", "ACKRXZ", "CHK_MATCHT"}
         /\ \A p \in Port : Pick(n) = AckRx[p] => rxFifo[n][p] # <<>>
         /\ Pick(n) = "CHK_MATCHT" => dpTx[n]
BY PortStates DEF Pick, Port

\* The links of the grid end at nodes.
LEMMA PeerNode ==
  ASSUME NEW n \in Node, NEW p \in Port, Linked(n, p)
  PROVE  Peer(n, p) \in Node
<1>1. ASSUME p = "X" PROVE NextX(n) \in Node
  BY <1>1, GridAssumption DEF NextX, Node, BMC
<1>2. ASSUME p = "Y" PROVE NextY(n) \in Node
  BY <1>2, GridAssumption DEF NextY, Node, BMC, Linked
<1>3. QED BY <1>1, <1>2 DEF Peer, Linked

\* The message a router is matching.
LEMMA BuffMessage ==
  ASSUME BuffersFilled, NEW n \in Node, Matching(n)
  PROVE  Buff(n) \in Message
BY DEF BuffersFilled, Matching, Holding, Buff

-----------------------------------------------------------------------------
(***************************************************************************)
(* The steps of a router.                                                  *)
(***************************************************************************)
LEMMA RouteCases ==
  ASSUME NEW n, NEW m
  PROVE  /\ Route(n, m) # "EXPIRED" => m.ttl # 0
         /\ Route(n, m) = "ALL" => IsBroadcast(m)
BY DEF Route

LEMMA RouterTypes ==
  ASSUME IInv, NEW n \in Node, RouterStep(n)
  PROVE  RouterTypeOK'
<1> USE DEF IInv, TypeOK, RouterTypeOK
<1>1. CASE Idle(n)
  BY <1>1, PickStates DEF Idle, Goto, States
<1>2. ASSUME NEW p \in Port, Receive(n, p) PROVE RouterTypeOK'
  <2>1. rxFifo[n][p] \in Seq(Message) /\ rxFifo[n][p] # <<>>
    BY <1>2 DEF Receive, BuffersFilled
  <2>2. Head(rxFifo[n][p]) \in Message /\ Tail(rxFifo[n][p]) \in Seq(Message)
    BY <2>1, HeadTail
  <2>3. ChkMatch[p] \in States
    BY PortStates DEF Port, States
  <2>4. QED BY <1>2, <2>2, <2>3 DEF Receive, Goto
<1>3. CASE Expire(n)
  BY <1>3 DEF Expire, Goto, States
<1>4. CASE Discard(n)
  BY <1>4 DEF Discard, ResetTx, Goto, States
<1>5. CASE Accept(n)
  <2>1. Stored(fifo[n], Buff(n)) \in Seq(Message)
    BY <1>5, BuffMessage, StoredIn DEF Accept
  <2>2. QED BY <1>5, <2>1 DEF Accept, ResetTx, Goto, States
<1>6. ASSUME NEW p \in {"X", "Y"}, Forward(n, p) PROVE RouterTypeOK'
  <2>1. Buff(n) \in Message /\ Buff(n).ttl # 0
    BY <1>6, BuffMessage, RouteCases DEF Forward
  <2>2. Aged(Buff(n)) \in Message /\ Stored(fifo[n], Buff(n)) \in Seq(Message)
    BY <2>1, AgedMessage, StoredIn
  <2>3. NackTx[p] \in States /\ p \in Port
    BY PortStates DEF States, Port
  <2>4. QED BY <1>6, <2>2, <2>3 DEF Forward, ResetTx, Goto
<1>7. CASE Broadcast(n)
  <2>1. Buff(n) \in Message /\ Buff(n).ttl # 0
    BY <1>7, BuffMessage, RouteCases DEF Broadcast
  <2>2. Aged(Buff(n)) \in Message /\ Stored(fifo[n], Buff(n)) \in Seq(Message)
    BY <2>1, AgedMessage, StoredIn
  <2>3. QED BY <1>7, <2>2 DEF Broadcast, ResetTx, Goto, States
<1>8. ASSUME NEW p \in Port, Flood(n, p) PROVE RouterTypeOK'
  <2>1. txBuf2[n] \in Message
    BY <1>8, PortStates DEF Flood, BuffersFilled, Flooding, Port
  <2>2. AfterFlood(n, p) \in States
    BY PortStates DEF AfterFlood, States, Port
  <2>3. QED BY <1>8, <2>1, <2>2 DEF Flood, Goto
<1>9. CASE EndTx(n)
  BY <1>9, AfterNackStates DEF EndTx, Goto, States
<1>10. QED BY <1>1, <1>2, <1>3, <1>4, <1>5, <1>6, <1>7, <1>8, <1>9 DEF RouterStep

\* A move of the machine that touches no buffer, to a state it may enter.
LEMMA GotoFills ==
  ASSUME IInv, NEW n \in Node, NEW s \in States, Goto(n, s),
         UNCHANGED <<rxBuf, txBuf, txBuf2, dpTx, snoop, rxFifo>>,
         s \notin {"CHK_MATCHX", "CHK_MATCHY", "CHK_MATCHZ"},
         \A p \in Port : s = AckRx[p] => rxFifo[n][p] # <<>>,
         s = "CHK_MATCHT" => dpTx[n],
         s \in Flooding => state[n] \in Flooding
  PROVE  BuffersFilled'
<1> SUFFICES ASSUME NEW k \in Node
             PROVE  (/\ \A p \in Port : state[k] = AckRx[p] => rxFifo[k][p] # <<>>
                     /\ Holding(k) => rxBuf[k] \in Message
                     /\ dpTx[k] => txBuf[k] \in Message
                     /\ state[k] = "CHK_MATCHT" => dpTx[k]
                     /\ state[k] \in Flooding =>
                          txBuf2[k] \in Message /\ IsBroadcast(txBuf2[k])
                     /\ snoop[k] => k \in Snoopers)'
  BY DEF BuffersFilled
<1>1. state'[k] = IF k = n THEN s ELSE state[k]
  BY DEF Goto, IInv, TypeOK, RouterTypeOK
<1>2. CASE k = n
  BY <1>1, <1>2 DEF IInv, BuffersFilled, Holding
<1>3. CASE k # n
  BY <1>1, <1>3 DEF IInv, BuffersFilled, Holding
<1>4. QED BY <1>2, <1>3

LEMMA RouterFills ==
  ASSUME IInv, NEW n \in Node, RouterStep(n)
  PROVE  BuffersFilled'
<1> USE DEF IInv, TypeOK, RouterTypeOK
<1>1. CASE Idle(n)
  <2>1. /\ Pick(n) \in States \ Flooding
        /\ Pick(n) \notin {"CHK_MATCHX", "CHK_MATCHY", "CHK_MATCHZ"}
    BY PickStates DEF States, Flooding
  <2>2. /\ \A p \in Port : Pick(n) = AckRx[p] => rxFifo[n][p] # <<>>
        /\ Pick(n) = "CHK_MATCHT" => dpTx[n]
    BY PickStates
  <2>3. Goto(n, Pick(n)) /\ UNCHANGED <<rxBuf, txBuf, txBuf2, dpTx, snoop, rxFifo>>
    BY <1>1 DEF Idle
  <2>4. QED BY <2>1, <2>2, <2>3, GotoFills
<1>2. ASSUME NEW p \in Port, Receive(n, p) PROVE BuffersFilled'
  <2>1. rxFifo[n][p] \in Seq(Message) /\ rxFifo[n][p] # <<>>
    BY <1>2 DEF Receive, BuffersFilled
  <2>2. Head(rxFifo[n][p]) \in Message
    BY <2>1, HeadTail
  <2>3. QED
    BY <1>2, <2>2, PortStates, ZenonT(60) DEF Receive, Goto, BuffersFilled, Holding, Flooding, Port
<1>3. CASE Expire(n)
  BY <1>3, PortStates DEF Expire, Goto, BuffersFilled, Holding, Flooding, Port
<1>4. CASE Discard(n)
  BY <1>4, PortStates DEF Discard, ResetTx, Goto, BuffersFilled, Holding, Flooding, Port
<1>5. CASE Accept(n)
  BY <1>5, PortStates DEF Accept, ResetTx, Goto, BuffersFilled, Holding, Flooding, Port
<1>6. ASSUME NEW p \in {"X", "Y"}, Forward(n, p) PROVE BuffersFilled'
  BY <1>6, PortStates, ZenonT(60) DEF Forward, ResetTx, Goto, BuffersFilled, Holding, Flooding, Port
<1>7. CASE Broadcast(n)
  <2>1. Buff(n) \in Message /\ Buff(n).ttl # 0 /\ IsBroadcast(Buff(n))
    BY <1>7, BuffMessage, RouteCases DEF Broadcast
  <2>2. Aged(Buff(n)) \in Message /\ IsBroadcast(Aged(Buff(n)))
    BY <2>1, AgedMessage DEF IsBroadcast
  <2>3. QED
    BY <1>7, <2>2, PortStates DEF Broadcast, ResetTx, Goto, BuffersFilled, Holding, Flooding, Port
<1>8. ASSUME NEW p \in Port, Flood(n, p) PROVE BuffersFilled'
  <2>1. AfterFlood(n, p) \in {"NACKTXX", "NACKTXY", "NACKTXZ", "NACKTXXG", "NACKTXZG"}
    BY PortStates DEF AfterFlood, Port
  <2>2. state[n] \in Flooding
    BY <1>8, PortStates DEF Flood, Flooding, Port
  <2>3. QED
    BY <1>8, <2>1, <2>2, PortStates, GotoFills DEF Flood, States, Port
<1>9. CASE EndTx(n)
  <2>1. /\ AfterNack[state[n]] \in {"IDLE", "TXGBLY", "TXGBLZ"}
        /\ AfterNack[state[n]] # "IDLE" => state[n] \in Flooding
    BY <1>9, AfterNackStates DEF EndTx, Flooding
  <2>2. QED
    BY <1>9, <2>1, PortStates, GotoFills DEF EndTx, States, Flooding, Port
<1>10. QED BY <1>1, <1>2, <1>3, <1>4, <1>5, <1>6, <1>7, <1>8, <1>9 DEF RouterStep

-----------------------------------------------------------------------------
(***************************************************************************)
(* Type correctness.                                                       *)
(***************************************************************************)
LEMMA InitIInv == Init => IInv
BY LinkAssumption, PortStates
DEF Init, RouterInit, IInv, TypeOK, RouterTypeOK, BuffersFilled, Holding, Flooding, States, Port

LEMMA NextIInv == IInv /\ [Next]_gridVars => IInv'
<1> SUFFICES ASSUME IInv, [Next]_gridVars PROVE IInv'
  OBVIOUS
<1> USE DEF IInv, TypeOK, RouterTypeOK
<1>1. ASSUME NEW n \in Node, Router(n) PROVE IInv'
  BY <1>1, RouterTypes, RouterFills DEF Router
<1>2. ASSUME NEW n \in Node, Xmit(n) PROVE IInv'
  <2>1. Head(todo[n]) \in Message /\ Tail(todo[n]) \in Seq(Message)
    BY <1>2, HeadTail DEF Xmit
  <2>2. QED
    BY <1>2, <2>1 DEF Xmit, WriteTxBuf, BuffersFilled, Holding
<1>3. ASSUME NEW n \in Node, NEW snp \in BOOLEAN, NEW pop \in BOOLEAN, RxCtl(n, snp, pop)
      PROVE  IInv'
  <2>1. fifo[n] # <<>> => /\ Tail(fifo[n]) \in Seq(Message)
                          /\ Append(got[n], Head(fifo[n])) \in Seq(Message)
    BY HeadTail, Appended
  <2>2. TypeOK'
    BY <1>3, <2>1 DEF RxCtl, WriteRxCtl
  <2>3. BuffersFilled'
    BY <1>3 DEF RxCtl, WriteRxCtl, BuffersFilled, Holding
  <2>4. QED BY <2>2, <2>3
<1>4. ASSUME NEW n \in Node, NEW p \in Port, Load(n, p) PROVE IInv'
  <2>1. Append(wire[n][p], txSlot[n][p]) \in Seq(Message)
    BY <1>4, Appended DEF Load
  <2>2. TypeOK'
    BY <1>4, <2>1 DEF Load
  <2>3. BuffersFilled'
    BY <1>4 DEF Load, BuffersFilled, Holding
  <2>4. QED BY <2>2, <2>3
<1>5. ASSUME NEW k \in Node, NEW p \in Port, NEW m \in Message,
             rxFifo' = [rxFifo EXCEPT ![k][p] = Buffered(@, m)],
             UNCHANGED routerVars \/
               UNCHANGED <<state, rxBuf, txBuf, txBuf2, dpTx, snoop, fifo, txSlot>>,
             /\ wire' \in [Node -> [Port -> Seq(Message)]]
             /\ boards' \in [Node -> Seq(Message)]
             /\ UNCHANGED <<todo, got>>
      PROVE  IInv'
  <2>1. Buffered(rxFifo[k][p], m) \in Seq(Message)
    BY StoredIn
  <2>2. rxFifo[k][p] # <<>> => Buffered(rxFifo[k][p], m) # <<>>
    BY BufferedKeeps
  <2>3. TypeOK'
    BY <1>5, <2>1 DEF routerVars
  <2>4. BuffersFilled'
    BY <1>5, <2>1, <2>2 DEF BuffersFilled, Holding, routerVars
  <2>5. QED BY <2>3, <2>4
<1>6. ASSUME NEW n \in Node, NEW p \in Port, Arrive(n, p) PROVE IInv'
  <2>1. Head(wire[n][p]) \in Message /\ Tail(wire[n][p]) \in Seq(Message)
    BY <1>6, HeadTail DEF Arrive
  <2>2. wire' \in [Node -> [Port -> Seq(Message)]]
    BY <1>6, <2>1 DEF Arrive
  <2>3. CASE Linked(n, p)
    BY <1>5, <1>6, <2>1, <2>2, <2>3, PeerNode DEF Arrive
  <2>4. CASE ~Linked(n, p)
    BY <1>6, <2>2, <2>4 DEF Arrive, BuffersFilled, Holding
  <2>5. QED BY <2>3, <2>4
<1>7. ASSUME NEW n \in Node, NEW p \in Port, MisSync(n, p) PROVE IInv'
  <2>1. Tail(wire[n][p]) \in Seq(Message)
    BY <1>7, HeadTail DEF MisSync
  <2>2. wire' \in [Node -> [Port -> Seq(Message)]]
    BY <1>7, <2>1 DEF MisSync
  <2>3. ASSUME NEW g \in Garble, rxFifo' = [rxFifo EXCEPT ![Peer(n, p)][p] = Buffered(@, g)]
        PROVE  IInv'
    BY <1>5, <1>7, <2>2, <2>3, PeerNode, LinkAssumption DEF MisSync
  <2>4. CASE UNCHANGED rxFifo
    BY <1>7, <2>2, <2>4 DEF MisSync, BuffersFilled, Holding
  <2>5. QED BY <1>7, <2>3, <2>4 DEF MisSync
<1>8. ASSUME NEW n \in Node, NEW p \in Port, FloatingRx(n, p) PROVE IInv'
  BY <1>5, <1>8, NullFrameMessage DEF FloatingRx
<1>9. ASSUME NEW n \in Node, BoardRx(n) PROVE IInv'
  <2>1. Head(boards[n]) \in Message /\ Tail(boards[n]) \in Seq(Message)
    BY <1>9, HeadTail DEF BoardRx
  <2>2. boards' \in [Node -> Seq(Message)]
    BY <1>9, <2>1 DEF BoardRx
  <2>3. "Z" \in Port
    BY DEF Port
  <2>4. QED BY <1>5, <1>9, <2>1, <2>2, <2>3 DEF BoardRx
<1>10. CASE UNCHANGED gridVars
  BY <1>10 DEF gridVars, BuffersFilled, Holding
<1>11. QED
  BY <1>1, <1>2, <1>3, <1>4, <1>6, <1>7, <1>8, <1>9, <1>10 DEF Next

\* The inductive invariant holds in every behaviour of the grid.
THEOREM Consistent == Spec => []IInv
BY InitIInv, NextIInv, PTL DEF Spec

\* Registers, fifos and links have their types in every reachable state; in
\* particular no state of chk_match reads a buffer that was never filled and no
\* time to live is decremented below zero.
THEOREM TypeCorrect == Spec => []TypeOK
<1>1. IInv => TypeOK
  BY DEF IInv
<1>2. QED BY <1>1, Consistent, PTL

-----------------------------------------------------------------------------
(***************************************************************************)
(* Nothing for another node is handed to a CPU that never snoops.          *)
(***************************************************************************)
LEMMA HereIsForNode ==
  ASSUME NEW n \in Node, NEW m \in Message, Route(n, m) \in {"HERE", "ALL"}
  PROVE  m \in ForNode(n)
<1>1. n = <<n[1], n[2]>>
  BY DEF Node, BMC
<1>2. Route(n, m) = "HERE" => m.x = n[1] /\ m.y = n[2]
  BY DEF Route
<1>3. QED BY <1>1, <1>2, RouteCases DEF ForNode

LEMMA RouterAddressed ==
  ASSUME IInv, AddressedHere, NEW k \in Node, RouterStep(k), UNCHANGED got
  PROVE  AddressedHere'
<1> USE DEF IInv, TypeOK, RouterTypeOK
<1> SUFFICES ASSUME NEW n \in Node \ Snoopers
             PROVE  fifo'[n] \in Seq(ForNode(n))
  BY DEF AddressedHere, ForNode, IsBroadcast
<1>1. fifo[n] \in Seq(ForNode(n))
  BY DEF AddressedHere
<1>2. CASE UNCHANGED fifo
  BY <1>1, <1>2
<1>3. CASE Accept(k) \/ Broadcast(k)
  <2>1. Buff(k) \in ForNode(k)
    BY <1>3, BuffMessage, HereIsForNode DEF Accept, Broadcast
  <2>2. fifo' = [fifo EXCEPT ![k] = Stored(@, Buff(k))]
    BY <1>3 DEF Accept, Broadcast
  <2>3. k = n => Stored(fifo[k], Buff(k)) \in Seq(ForNode(n))
    BY <1>1, <2>1, StoredIn
  <2>4. QED BY <1>1, <2>2, <2>3
<1>4. ASSUME NEW p \in {"X", "Y"}, Forward(k, p) PROVE fifo'[n] \in Seq(ForNode(n))
  <2>1. snoop[k] => k # n
    BY DEF BuffersFilled
  <2>2. QED BY <1>1, <1>4, <2>1 DEF Forward
<1>5. QED
  BY <1>2, <1>3, <1>4 DEF RouterStep, Idle, Receive, Expire, Discard, Flood, EndTx

\* Software that never snoops reads only broadcasts and messages for its node,
\* on every grid, whatever is sent and however the links garble it.
THEOREM AddressedHereHolds == Spec => []AddressedHere
<1>1. Init => AddressedHere
  BY DEF Init, RouterInit, AddressedHere
<1>2. IInv /\ AddressedHere /\ [Next]_gridVars => AddressedHere'
  <2> SUFFICES ASSUME IInv, AddressedHere, [Next]_gridVars PROVE AddressedHere'
    OBVIOUS
  <2> USE DEF IInv, TypeOK, RouterTypeOK
  <2>1. ASSUME NEW k \in Node, Router(k) PROVE AddressedHere'
    BY <2>1, RouterAddressed DEF Router
  <2>2. ASSUME NEW k \in Node, NEW snp \in BOOLEAN, NEW pop \in BOOLEAN, RxCtl(k, snp, pop)
        PROVE  AddressedHere'
    <3> SUFFICES ASSUME NEW n \in Node \ Snoopers
                 PROVE  fifo'[n] \in Seq(ForNode(n)) /\ got'[n] \in Seq(ForNode(n))
      BY DEF AddressedHere, ForNode, IsBroadcast
    <3>1. fifo[n] \in Seq(ForNode(n)) /\ got[n] \in Seq(ForNode(n))
      BY DEF AddressedHere
    <3>2. fifo[n] # <<>> => /\ Tail(fifo[n]) \in Seq(ForNode(n))
                            /\ Append(got[n], Head(fifo[n])) \in Seq(ForNode(n))
      BY <3>1, HeadTail, Appended
    <3>3. QED BY <2>2, <3>1, <3>2 DEF RxCtl, WriteRxCtl
  <2>3. CASE UNCHANGED <<fifo, got>>
    BY <2>3 DEF AddressedHere, ForNode, IsBroadcast
  <2>4. QED
    BY <2>1, <2>2, <2>3 DEF Next, Xmit, WriteTxBuf, Load, Arrive, MisSync, FloatingRx,
                            BoardRx, gridVars
<1>3. QED BY <1>1, <1>2, Consistent, PTL DEF Spec

-----------------------------------------------------------------------------
(***************************************************************************)
(* Dimension-order routing.                                                *)
(***************************************************************************)
\* Only unicasts are constrained, and not on the ports to other boards.
LEMMA Unconstrained ==
  ASSUME NEW n \in Node, NEW p \in Port, NEW m \in Message,
         p = "Z" \/ ~IsUnicast(m)
  PROVE  m \in InOrder(n, p)
BY DEF InOrder, IsUnicast

LEMMA NullFrameNowhere == ~IsUnicast(NullFrame)
BY GridAssumption DEF NullFrame, IsUnicast, IsForBMC, InGrid

LEMMA BroadcastNowhere ==
  ASSUME NEW m \in Message, IsBroadcast(m)
  PROVE  ~IsUnicast(m)
BY GridAssumption DEF IsBroadcast, IsUnicast, IsForBMC, InGrid, Message

\* Whether a message was made up does not change while it travels.
LEMMA AgedMadeUp ==
  ASSUME NEW m \in Message, m.ttl # 0
  PROVE  MadeUp(Aged(m)) = MadeUp(m)
BY AgedMessage DEF MadeUp

\* What a receiver out of step makes up is not constrained.
LEMMA GarbleMadeUp ==
  ASSUME NEW g \in Garble
  PROVE  g \in Message /\ MadeUp(g)
BY LinkAssumption DEF MadeUp

\* chk_match sends a message only to a port where it may be.
LEMMA RoutedInOrder ==
  ASSUME NEW n \in Node, NEW m \in Message, NEW p \in {"X", "Y"}, Route(n, m) = p
  PROVE  Aged(m) \in InOrder(n, p)
<1>1. m.ttl # 0
  BY RouteCases
<1>2. IsForBMC(m) /\ p = "X" => n[2] = 1
  BY DEF Route, IsForBMC, IsBroadcast
<1>3. InGrid(m) /\ p = "Y" => m.x = n[1]
  BY GridAssumption DEF Route, IsForBMC, InGrid
<1>4. QED BY <1>1, <1>2, <1>3, AgedMessage, AgedMadeUp DEF InOrder, IsForBMC, InGrid

\* A link does not leave the row or column.
LEMMA LinkInOrder ==
  ASSUME NEW n \in Node, NEW p \in Port, Linked(n, p), NEW m \in InOrder(n, p)
  PROVE  m \in InOrder(Peer(n, p), p)
<1>1. CASE p = "X"
  <2>1. n[2] = 1 => NextX(n)[2] = 1
    BY DEF NextX, BMC
  <2>2. QED BY <1>1, <2>1 DEF InOrder, Peer
<1>2. CASE p = "Y"
  <2>1. NextY(n)[1] = n[1]
    BY DEF NextY
  <2>2. QED BY <1>2, <2>1 DEF InOrder, Peer
<1>3. QED BY <1>1, <1>2 DEF Linked

\* The part of DimensionOrder that is about one port of one node.
InOrderAt(n, p) ==
  /\ rxFifo[n][p] \in Seq(InOrder(n, p))
  /\ txSlot[n][p] \in InOrder(n, p) \cup {None}
  /\ wire[n][p] \in Seq(InOrder(n, p))
  /\ state[n] = ChkMatch[p] => rxBuf[n] \in InOrder(n, p)

LEMMA RouterInOrder ==
  ASSUME IInv, NEW k \in Node, RouterStep(k), UNCHANGED wire,
         NEW n \in Node, NEW p \in Port, InOrderAt(n, p)
  PROVE  InOrderAt(n, p)'
<1> USE DEF IInv, TypeOK, RouterTypeOK
<1>1. InOrder(n, p)' = InOrder(n, p)
  BY DEF InOrder, MadeUp, IsForBMC, InGrid
<1>2. CASE k # n
  BY <1>1, <1>2
  DEF InOrderAt, RouterStep, Idle, Receive, Expire, Discard, Accept, Forward, Broadcast,
      Flood, EndTx, Goto
<1>3. ASSUME k = n, UNCHANGED <<rxBuf, rxFifo, txSlot>>,
             state'[n] \notin {"CHK_MATCHX", "CHK_MATCHY", "CHK_MATCHZ"}
      PROVE  InOrderAt(n, p)'
  BY <1>1, <1>3, PortStates DEF InOrderAt, Port
<1>4. CASE k = n /\ Idle(n)
  BY <1>3, <1>4, PickStates DEF Idle, Goto
<1>5. ASSUME k = n, NEW q \in Port, Receive(n, q) PROVE InOrderAt(n, p)'
  <2>1. rxFifo[n][q] # <<>>
    BY <1>5 DEF Receive, BuffersFilled
  <2>2. p = q => /\ Head(rxFifo[n][p]) \in InOrder(n, p)
                 /\ Tail(rxFifo[n][p]) \in Seq(InOrder(n, p))
    BY <2>1, HeadTail DEF InOrderAt
  <2>3. state'[n] = ChkMatch[p] => p = q
    BY <1>5, PortStates DEF Receive, Goto, Port
  <2>4. QED BY <1>1, <1>5, <2>2, <2>3 DEF InOrderAt, Receive
<1>6. CASE k = n /\ (Expire(n) \/ Discard(n) \/ Accept(n) \/ Broadcast(n))
  BY <1>3, <1>6 DEF Expire, Discard, Accept, Broadcast, Goto
<1>7. ASSUME k = n, NEW q \in {"X", "Y"}, Forward(n, q) PROVE InOrderAt(n, p)'
  <2>1. Aged(Buff(n)) \in InOrder(n, q)
    BY <1>7, BuffMessage, RoutedInOrder DEF Forward
  <2>2. state'[n] # ChkMatch[p]
    BY <1>7, PortStates DEF Forward, Goto, Port
  <2>3. txSlot'[n][p] = IF p = q THEN Aged(Buff(n)) ELSE txSlot[n][p]
    BY <1>7 DEF Forward, Port
  <2>4. QED BY <1>1, <1>7, <2>1, <2>2, <2>3 DEF InOrderAt, Forward
<1>8. ASSUME k = n, NEW q \in Port, Flood(n, q) PROVE InOrderAt(n, p)'
  <2>1. txBuf2[n] \in InOrder(n, q)
    BY <1>8, PortStates, BroadcastNowhere, Unconstrained
    DEF Flood, BuffersFilled, Flooding, Port
  <2>2. state'[n] # ChkMatch[p]
    BY <1>8, PortStates DEF Flood, AfterFlood, Goto, Port
  <2>3. txSlot'[n][p] = IF p = q THEN txBuf2[n] ELSE txSlot[n][p]
    BY <1>8 DEF Flood
  <2>4. QED BY <1>1, <1>8, <2>1, <2>2, <2>3 DEF InOrderAt, Flood
<1>9. CASE k = n /\ EndTx(n)
  <2>1. AfterNack[state[n]] \in {"IDLE", "TXGBLY", "TXGBLZ"}
    BY <1>9, AfterNackStates DEF EndTx
  <2>2. QED BY <1>3, <1>9, <2>1 DEF EndTx, Goto
<1>10. QED BY <1>2, <1>4, <1>5, <1>6, <1>7, <1>8, <1>9 DEF RouterStep

\* On every grid, and whatever receivers out of step make up, the unicasts that
\* somebody sent keep to a row before they keep to a column, and those for the
\* controller to a column before row 1.
THEOREM DimensionOrderHolds == Spec => []DimensionOrder
<1>1. Init => DimensionOrder
  BY PortStates DEF Init, RouterInit, DimensionOrder, Port
<1>2. IInv /\ DimensionOrder /\ [Next]_gridVars => DimensionOrder'
  <2> SUFFICES ASSUME IInv, DimensionOrder, [Next]_gridVars,
                      NEW n \in Node, NEW p \in Port
               PROVE  InOrderAt(n, p)'
    BY DEF DimensionOrder, InOrderAt
  <2> USE DEF IInv, TypeOK, RouterTypeOK
  <2>1. \A k \in Node, q \in Port : InOrderAt(k, q)
    BY DEF DimensionOrder, InOrderAt
  <2>2. InOrder(n, p)' = InOrder(n, p)
    BY DEF InOrder, MadeUp, IsForBMC, InGrid
  <2>3. ASSUME NEW k \in Node, Router(k) PROVE InOrderAt(n, p)'
    BY <2>1, <2>3, RouterInOrder DEF Router
  <2>4. ASSUME NEW k \in Node, NEW q \in Port, Load(k, q) PROVE InOrderAt(n, p)'
    <3>1. Append(wire[k][q], txSlot[k][q]) \in Seq(InOrder(k, q))
      BY <2>1, <2>4, Appended DEF InOrderAt, Load
    <3>2. QED BY <2>1, <2>2, <2>4, <3>1 DEF InOrderAt, Load
  <2>5. ASSUME NEW k \in Node, NEW q \in Port, NEW m \in InOrder(k, q),
               rxFifo' = [rxFifo EXCEPT ![k][q] = Buffered(@, m)],
               wire'[n][p] \in Seq(InOrder(n, p)),
               UNCHANGED <<state, rxBuf, txSlot>>
        PROVE  InOrderAt(n, p)'
    <3>1. Buffered(rxFifo[k][q], m) \in Seq(InOrder(k, q))
      BY <2>1, StoredIn DEF InOrderAt
    <3>2. QED BY <2>1, <2>2, <2>5, <3>1 DEF InOrderAt
  <2>6. ASSUME NEW k \in Node, NEW q \in Port, Arrive(k, q) PROVE InOrderAt(n, p)'
    <3>1. /\ Head(wire[k][q]) \in InOrder(k, q)
          /\ Tail(wire[k][q]) \in Seq(InOrder(k, q))
      BY <2>1, <2>6, HeadTail DEF InOrderAt, Arrive
    <3>2. wire'[n][p] \in Seq(InOrder(n, p))
      BY <2>1, <2>6, <3>1 DEF InOrderAt, Arrive
    <3>3. CASE Linked(k, q)
      BY <2>5, <2>6, <3>1, <3>2, <3>3, LinkInOrder, PeerNode DEF Arrive
    <3>4. CASE ~Linked(k, q)
      BY <2>1, <2>2, <2>6, <3>2, <3>4 DEF InOrderAt, Arrive
    <3>5. QED BY <3>3, <3>4
  <2>7. ASSUME NEW k \in Node, NEW q \in Port, FloatingRx(k, q) PROVE InOrderAt(n, p)'
    <3>1. NullFrame \in InOrder(k, q)
      BY NullFrameNowhere, NullFrameMessage, Unconstrained
    <3>2. QED BY <2>1, <2>5, <2>7, <3>1 DEF FloatingRx, InOrderAt
  <2>8. ASSUME NEW k \in Node, BoardRx(k) PROVE InOrderAt(n, p)'
    <3>1. "Z" \in Port /\ Head(boards[k]) \in InOrder(k, "Z")
      BY <2>8, HeadTail, Unconstrained DEF BoardRx, Port
    <3>2. QED BY <2>1, <2>5, <2>8, <3>1 DEF BoardRx, InOrderAt
  <2>9. CASE UNCHANGED <<state, rxBuf, rxFifo, txSlot, wire>>
    BY <2>1, <2>2, <2>9 DEF InOrderAt
  <2>10. ASSUME NEW k \in Node, NEW q \in Port, MisSync(k, q) PROVE InOrderAt(n, p)'
    <3>1. Tail(wire[k][q]) \in Seq(InOrder(k, q))
      BY <2>1, <2>10, HeadTail DEF InOrderAt, MisSync
    <3>2. wire'[n][p] \in Seq(InOrder(n, p)) /\ UNCHANGED <<state, rxBuf, txSlot>>
      BY <2>1, <2>10, <3>1 DEF InOrderAt, MisSync
    <3>3. CASE UNCHANGED rxFifo
      BY <2>1, <2>2, <3>2, <3>3 DEF InOrderAt
    <3>4. ASSUME NEW g \in Garble, rxFifo' = [rxFifo EXCEPT ![Peer(k, q)][q] = Buffered(@, g)]
          PROVE  InOrderAt(n, p)'
      <4>1. g \in InOrder(Peer(k, q), q) /\ Peer(k, q) \in Node
        BY <2>10, GarbleMadeUp, PeerNode DEF InOrder, MisSync
      <4>2. QED BY <2>5, <3>2, <3>4, <4>1
    <3>5. QED BY <2>10, <3>3, <3>4 DEF MisSync
  <2>11. QED
    BY <2>3, <2>4, <2>6, <2>7, <2>8, <2>9, <2>10
    DEF Next, Xmit, WriteTxBuf, RxCtl, WriteRxCtl, gridVars
<1>3. QED BY <1>1, <1>2, Consistent, PTL DEF Spec

-----------------------------------------------------------------------------
(***************************************************************************)
(* The time to live outlasts the journey.                                  *)
(***************************************************************************)
\* A link that chk_match chooses for a unicast exists and brings it one closer.
LEMMA OneHopCloser ==
  ASSUME NEW n \in Node, NEW m \in Message, IsUnicast(m),
         NEW p \in {"X", "Y"}, Route(n, m) = p
  PROVE  /\ Linked(n, p)
         /\ Hops(n, m) \in Nat
         /\ Hops(Peer(n, p), m) = Hops(n, m) - 1
<1>1. CASE p = "X"
  <2>1. NextX(n)[2] = n[2] /\ HopsY(NextX(n), m.y) = HopsY(n, m.y)
    BY <1>1, GridAssumption DEF NextX, HopsY, BMC, Node
  <2>2. m.x # n[1] /\ (m.x = 15 => n[2] = 1)
    BY <1>1, GridAssumption DEF Route, IsForBMC, InGrid, IsUnicast
  <2>3. HopsX(n, m.x) \in Nat /\ HopsX(NextX(n), m.x) = HopsX(n, m.x) - 1
    BY <2>1, <2>2, GridAssumption
    DEF NextX, HopsX, PlaceX, RingX, BMC, Node, IsUnicast, IsForBMC, InGrid, Message
  <2>4. HopsY(n, m.y) \in Nat
    BY GridAssumption DEF HopsY, BMC, Node, IsUnicast, IsForBMC, InGrid, Message
  <2>5. QED BY <1>1, <2>1, <2>3, <2>4 DEF Hops, Linked, Peer
<1>2. CASE p = "Y"
  <2>1. m.y # n[2] /\ n # BMC
    BY <1>2, GridAssumption DEF Route, IsForBMC, InGrid, IsUnicast, BMC
  <2>2. NextY(n)[1] = n[1] /\ n[2] \in 1..Rows /\ n[1] \in 1..Cols
    BY <2>1 DEF NextY, Node
  <2>3. HopsY(n, m.y) \in Nat /\ HopsY(NextY(n), m.y) = HopsY(n, m.y) - 1
    BY <2>1, <2>2, GridAssumption DEF NextY, HopsY, IsUnicast, IsForBMC, InGrid, Message
  <2>4. HopsX(n, m.x) \in Nat /\ HopsX(NextY(n), m.x) = HopsX(n, m.x)
    BY <1>2, <2>1, <2>2, GridAssumption
    DEF HopsX, PlaceX, RingX, NextY, Route, IsUnicast, IsForBMC, InGrid, Message
  <2>5. QED BY <1>2, <2>1, <2>3, <2>4 DEF Hops, Linked, Peer
<1>3. QED BY <1>1, <1>2

LEMMA NotUnicastCovered ==
  ASSUME NEW n, NEW m \in Message, ~IsUnicast(m)
  PROVE  m \in Covered(n)
BY DEF Covered

LEMMA AgedCovered ==
  ASSUME NEW n \in Node, NEW m \in Covered(n), NEW p \in {"X", "Y"}, Route(n, m) = p
  PROVE  Aged(m) \in Covered(Peer(n, p))
<1>1. m \in Message /\ m.ttl # 0
  BY RouteCases DEF Covered
<1>2. /\ Aged(m) \in Message /\ Aged(m).x = m.x /\ Aged(m).y = m.y
      /\ Aged(m).ttl = m.ttl - 1
  BY <1>1, AgedMessage
<1>3. /\ IsUnicast(Aged(m)) = IsUnicast(m) /\ MadeUp(Aged(m)) = MadeUp(m)
      /\ Hops(Peer(n, p), Aged(m)) = Hops(Peer(n, p), m)
  BY <1>1, <1>2, AgedMadeUp DEF IsUnicast, IsForBMC, InGrid, Hops
<1>4. IsUnicast(m) /\ ~MadeUp(m) =>
                      /\ m.ttl > Hops(n, m) /\ Hops(n, m) \in Nat
                      /\ Hops(Peer(n, p), m) = Hops(n, m) - 1
  BY <1>1, OneHopCloser DEF Covered
<1>5. m.ttl \in Nat
  BY <1>1 DEF Message
<1>6. QED BY <1>2, <1>3, <1>4, <1>5 DEF Covered

\* The part of the budget that is about one node, with what is still to be sent.
CoveredAt(n) ==
  /\ dpTx[n] => txBuf[n] \in Covered(n)
  /\ Holding(n) => rxBuf[n] \in Covered(n)
  /\ todo[n] \in Seq(Covered(n)) /\ boards[n] \in Seq(Covered(n))
  /\ \A p \in Port : rxFifo[n][p] \in Seq(Covered(n))
  /\ \A p \in Port : Linked(n, p) =>
       /\ txSlot[n][p] \in Covered(Peer(n, p)) \cup {None}
       /\ wire[n][p] \in Seq(Covered(Peer(n, p)))

LEMMA SameCovered ==
  \A n : Covered(n)' = Covered(n) /\ \A p : Covered(Peer(n, p))' = Covered(Peer(n, p))
         /\ Linked(n, p)' = Linked(n, p)
BY DEF Covered, MadeUp, IsUnicast, IsForBMC, InGrid, Hops, HopsX, HopsY, PlaceX, RingX, Peer,
       NextX, NextY, Linked, BMC

LEMMA RouterCovered ==
  ASSUME IInv, NEW k \in Node, RouterStep(k), UNCHANGED <<wire, todo, boards>>,
         NEW n \in Node, CoveredAt(n)
  PROVE  CoveredAt(n)'
<1> USE SameCovered DEF IInv, TypeOK, RouterTypeOK
<1>1. CASE k # n
  BY <1>1, SMTT(30)
  DEF CoveredAt, Holding, RouterStep, Idle, Receive, Expire, Discard, Accept, Forward,
      Broadcast, Flood, EndTx, Goto, ResetTx
<1>2. ASSUME k = n, UNCHANGED <<rxBuf, txBuf, rxFifo, txSlot>>, dpTx'[n] => dpTx[n],
             state'[n] \notin {"CHK_MATCHX", "CHK_MATCHY", "CHK_MATCHZ"}
      PROVE  CoveredAt(n)'
  BY <1>2 DEF CoveredAt, Holding
<1>3. CASE k = n /\ Idle(n)
  BY <1>2, <1>3, PickStates DEF Idle, Goto
<1>4. ASSUME k = n, NEW q \in Port, Receive(n, q) PROVE CoveredAt(n)'
  <2>1. rxFifo[n][q] # <<>>
    BY <1>4 DEF Receive, BuffersFilled
  <2>2. /\ Head(rxFifo[n][q]) \in Covered(n)
        /\ Tail(rxFifo[n][q]) \in Seq(Covered(n))
    BY <2>1, HeadTail DEF CoveredAt
  <2>3. QED BY <1>4, <2>2 DEF CoveredAt, Holding, Receive
<1>5. CASE k = n /\ (Expire(n) \/ Discard(n) \/ Accept(n) \/ Broadcast(n))
  BY <1>2, <1>5 DEF Expire, Discard, Accept, Broadcast, Goto, ResetTx
<1>6. ASSUME k = n, NEW q \in {"X", "Y"}, Forward(n, q) PROVE CoveredAt(n)'
  <2>1. Buff(n) \in Covered(n)
    BY <1>6 DEF Forward, Buff, Matching, Holding, CoveredAt, BuffersFilled
  <2>2. Aged(Buff(n)) \in Covered(Peer(n, q))
    BY <1>6, <2>1, AgedCovered DEF Forward
  <2>3. state'[n] \notin {"CHK_MATCHX", "CHK_MATCHY", "CHK_MATCHZ"}
    BY <1>6, PortStates DEF Forward, Goto
  <2>4. /\ \A p \in Port : txSlot'[n][p] = IF p = q THEN Aged(Buff(n)) ELSE txSlot[n][p]
        /\ dpTx'[n] => dpTx[n]
        /\ UNCHANGED <<rxBuf, txBuf, rxFifo>>
    BY <1>6 DEF Forward, ResetTx, Port
  <2>5. QED BY <2>2, <2>3, <2>4 DEF CoveredAt, Holding
<1>7. ASSUME k = n, NEW q \in Port, Flood(n, q) PROVE CoveredAt(n)'
  <2>1. txBuf2[n] \in Covered(Peer(n, q))
    BY <1>7, PortStates, BroadcastNowhere, NotUnicastCovered
    DEF Flood, BuffersFilled, Flooding, Port
  <2>2. state'[n] \notin {"CHK_MATCHX", "CHK_MATCHY", "CHK_MATCHZ"}
    BY <1>7, PortStates DEF Flood, AfterFlood, Goto, Port
  <2>3. /\ \A p \in Port : txSlot'[n][p] = IF p = q THEN txBuf2[n] ELSE txSlot[n][p]
        /\ UNCHANGED <<rxBuf, txBuf, dpTx, rxFifo>>
    BY <1>7 DEF Flood
  <2>4. QED BY <2>1, <2>2, <2>3 DEF CoveredAt, Holding
<1>8. CASE k = n /\ EndTx(n)
  <2>1. AfterNack[state[n]] \in {"IDLE", "TXGBLY", "TXGBLZ"}
    BY <1>8, AfterNackStates DEF EndTx
  <2>2. QED BY <1>2, <1>8, <2>1 DEF EndTx, Goto
<1>9. QED BY <1>1, <1>3, <1>4, <1>5, <1>6, <1>7, <1>8 DEF RouterStep

Budget == WorkloadCovered => \A n \in Node : CoveredAt(n)

LEMMA NextBudget == IInv /\ Budget /\ [Next]_gridVars => Budget'
<1> SUFFICES ASSUME IInv, Budget, [Next]_gridVars, WorkloadCovered,
                    NEW n \in Node
             PROVE  CoveredAt(n)'
  BY SameCovered DEF Budget, WorkloadCovered
<1> USE SameCovered DEF IInv, TypeOK, RouterTypeOK
<1>1. \A k \in Node : CoveredAt(k)
  BY DEF Budget
<1>2. ASSUME NEW k \in Node, Router(k) PROVE CoveredAt(n)'
  BY <1>1, <1>2, RouterCovered DEF Router
<1>3. ASSUME NEW k \in Node, Xmit(k) PROVE CoveredAt(n)'
  <2>1. Head(todo[k]) \in Covered(k) /\ Tail(todo[k]) \in Seq(Covered(k))
    BY <1>1, <1>3, HeadTail DEF CoveredAt, Xmit
  <2>2. QED BY <1>1, <1>3, <2>1 DEF CoveredAt, Holding, Xmit, WriteTxBuf
<1>4. ASSUME NEW k \in Node, NEW q \in Port, Load(k, q) PROVE CoveredAt(n)'
  <2>1. Linked(k, q) => Append(wire[k][q], txSlot[k][q]) \in Seq(Covered(Peer(k, q)))
    BY <1>1, <1>4, Appended DEF CoveredAt, Load
  <2>2. QED BY <1>1, <1>4, <2>1 DEF CoveredAt, Holding, Load
<1>5. ASSUME NEW k \in Node, NEW q \in Port, NEW m \in Covered(k),
             rxFifo' = [rxFifo EXCEPT ![k][q] = Buffered(@, m)],
             boards'[n] \in Seq(Covered(n)),
             \A p \in Port : Linked(n, p) => wire'[n][p] \in Seq(Covered(Peer(n, p))),
             UNCHANGED <<state, rxBuf, txBuf, dpTx, txSlot, todo>>
      PROVE  CoveredAt(n)'
  <2>1. Buffered(rxFifo[k][q], m) \in Seq(Covered(k))
    BY <1>1, StoredIn DEF CoveredAt
  <2>2. QED BY <1>1, <1>5, <2>1 DEF CoveredAt, Holding
<1>6. ASSUME NEW k \in Node, NEW q \in Port, Arrive(k, q) PROVE CoveredAt(n)'
  <2>1. Linked(k, q) => /\ Head(wire[k][q]) \in Covered(Peer(k, q))
                        /\ Tail(wire[k][q]) \in Seq(Covered(Peer(k, q)))
    BY <1>1, <1>6, HeadTail DEF CoveredAt, Arrive
  <2>2. \A p \in Port : Linked(n, p) => wire'[n][p] \in Seq(Covered(Peer(n, p)))
    BY <1>1, <1>6, <2>1 DEF CoveredAt, Arrive
  <2>3. CASE Linked(k, q)
    BY <1>1, <1>5, <1>6, <2>1, <2>2, <2>3, PeerNode DEF Arrive, CoveredAt
  <2>4. CASE ~Linked(k, q)
    BY <1>1, <1>6, <2>2, <2>4 DEF CoveredAt, Holding, Arrive
  <2>5. QED BY <2>3, <2>4
<1>7. ASSUME NEW k \in Node, NEW q \in Port, FloatingRx(k, q) PROVE CoveredAt(n)'
  <2>1. NullFrame \in Covered(k)
    BY NullFrameNowhere, NullFrameMessage, NotUnicastCovered
  <2>2. QED BY <1>1, <1>5, <1>7, <2>1 DEF FloatingRx, CoveredAt
<1>8. ASSUME NEW k \in Node, BoardRx(k) PROVE CoveredAt(n)'
  <2>1. Head(boards[k]) \in Covered(k) /\ Tail(boards[k]) \in Seq(Covered(k))
    BY <1>1, <1>8, HeadTail DEF BoardRx, CoveredAt
  <2>2. boards'[n] \in Seq(Covered(n)) /\ "Z" \in Port
    BY <1>1, <1>8, <2>1 DEF BoardRx, CoveredAt, Port
  <2>3. QED BY <1>1, <1>5, <1>8, <2>1, <2>2 DEF BoardRx, CoveredAt
<1>9. CASE UNCHANGED <<state, rxBuf, txBuf, dpTx, rxFifo, txSlot, wire, todo, boards>>
  BY <1>1, <1>9 DEF CoveredAt, Holding
<1>10. ASSUME NEW k \in Node, NEW q \in Port, MisSync(k, q) PROVE CoveredAt(n)'
  <2>1. Tail(wire[k][q]) \in Seq(Covered(Peer(k, q))) /\ Peer(k, q) \in Node
    BY <1>1, <1>10, HeadTail, PeerNode DEF CoveredAt, MisSync
  <2>2. \A p \in Port : Linked(n, p) => wire'[n][p] \in Seq(Covered(Peer(n, p)))
    BY <1>1, <1>10, <2>1 DEF CoveredAt, MisSync
  <2>3. CASE UNCHANGED rxFifo
    BY <1>1, <1>10, <2>2, <2>3 DEF CoveredAt, Holding, MisSync
  <2>4. ASSUME NEW g \in Garble, rxFifo' = [rxFifo EXCEPT ![Peer(k, q)][q] = Buffered(@, g)]
        PROVE  CoveredAt(n)'
    <3>1. g \in Covered(Peer(k, q))
      BY GarbleMadeUp DEF Covered
    <3>2. boards'[n] \in Seq(Covered(n)) /\ UNCHANGED <<state, rxBuf, txBuf, dpTx, txSlot, todo>>
      BY <1>1, <1>10 DEF CoveredAt, MisSync
    <3>3. QED BY <1>5, <2>1, <2>2, <2>4, <3>1, <3>2
  <2>5. QED BY <1>10, <2>3, <2>4 DEF MisSync
<1>11. QED
  BY <1>2, <1>3, <1>4, <1>6, <1>7, <1>8, <1>9, <1>10
  DEF Next, RxCtl, WriteRxCtl, gridVars

\* On every grid, and whatever receivers out of step make up, a unicast sent with a
\* time to live above its distance keeps it above the distance that is left, so
\* chk_match never drops it as dead.
THEOREM HopBudgetHolds == Spec => []HopBudget
<1>1. Init => Budget
  BY LinkAssumption
  DEF Init, RouterInit, Budget, CoveredAt, WorkloadCovered, Holding
<1>2. Budget => HopBudget
  BY DEF Budget, HopBudget, CoveredAt, Ahead
<1>3. QED BY <1>1, <1>2, NextBudget, Consistent, PTL DEF Spec
=============================================================================
