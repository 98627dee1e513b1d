---------------------------- MODULE ButterflyGrid ----------------------------
(***************************************************************************)
(* The Butterfly network on a chip, grid.v: one router per node, joined by *)
(* unidirectional links into one ring per row and one ring per column.     *)
(* A link is a transmitter (routerTxBs.v), four wires and a receiver       *)
(* (routerRxBs.v); RouterLink models one clock by clock, here it is the    *)
(* channel LinkChannel that RouterLink implements.  The node's CPU is any  *)
(* software that obeys the register protocol of Network.asm.               *)
(***************************************************************************)
EXTENDS RouterTop

CONSTANTS
  RxDepth,   \* messages a receive fifo takes before it overruns; 31 in the code
  WireDepth, \* frames between a transmitter and the receiver's fifo write; 2
  Workload,  \* Workload[n]: the messages the CPU of n sends, in order
  Boards,    \* Boards[n]: the messages other boards send to n's Z port
  Readers,   \* the nodes whose software takes messages out of the local fifo
  Snoopers,  \* the nodes whose software may turn snooping on
  Floating,  \* the <<n, p>> whose rxd input grid.v leaves unconnected
  Garble     \* what a receiver out of step may store; {} when frames are spaced

ASSUME LinkAssumption ==
  /\ RxDepth \in Nat \ {0}
  /\ WireDepth \in Nat \ {0}
  /\ Workload \in [Node -> Seq(Message)]
  /\ Boards \in [Node -> Seq(Message)]
  /\ Readers \subseteq Node
  /\ Snoopers \subseteq Node
  /\ Floating \subseteq Node \X Port
  /\ Garble \subseteq Message

VARIABLES
  wire,   \* wire[n][p]: frames sent on port p of n, not yet in a receive fifo
  todo,   \* todo[n]: what remains of Workload[n]
  boards, \* boards[n]: what remains of Boards[n]
  got     \* got[n]: what the CPU of n has read, in order

gridVars == <<state, rxBuf, txBuf, txBuf2, dpTx, snoop, fifo, rxFifo, txSlot,
              wire, todo, boards, got>>

(***************************************************************************)
(* Wiring.  Row 1 passes through the bitmap controller: 81 -> F1 -> 11.    *)
(***************************************************************************)
NextX(n) ==
  IF n = BMC THEN <<1, 1>>
  ELSE IF n[1] < Cols THEN <<n[1] + 1, n[2]>>
  ELSE IF n[2] = 1 THEN BMC
  ELSE <<1, n[2]>>

NextY(n) == IF n[2] < Rows THEN <<n[1], n[2] + 1>> ELSE <<n[1], 1>>

\* The Z ports lead to other boards, and the controller has no Y link.
Linked(n, p) == p = "X" \/ (p = "Y" /\ n # BMC)
Peer(n, p)   == IF p = "X" THEN NextX(n) ELSE NextY(n)

\* An input that floats low is an endless run of zeros: frames of zeros.
NullFrame == [id |-> NullId, x |-> 0, y |-> 0, ttl |-> 0]

-----------------------------------------------------------------------------
Init ==
  /\ RouterInit(Snoopers)
  /\ wire = [n \in Node |-> [p \in Port |-> <<>>]]
  /\ todo = Workload
  /\ boards = Boards
  /\ got = [n \in Node |-> <<>>]

Router(n) == RouterStep(n) /\ UNCHANGED <<wire, todo, boards, got>>

\* Xmit of Network.asm: wait until TXSTAT is clear, fill the buffer, trigger.
Xmit(n) ==
  /\ todo[n] # <<>>
  /\ WriteTxBuf(n, Head(todo[n]))
  /\ todo' = [todo EXCEPT ![n] = Tail(@)]
  /\ UNCHANGED <<wire, boards, got>>

\* Software reads the word at the front of the fifo, if any, and pops it.
RxCtl(n, snp, pop) ==
  /\ snp => n \in Snoopers
  /\ pop => n \in Readers
  /\ snp # snoop[n] \/ (pop /\ fifo[n] # <<>>)
  /\ WriteRxCtl(n, snp, pop)
  /\ got' = [got EXCEPT ![n] = IF pop /\ fifo[n] # <<>> THEN Append(@, Head(fifo[n])) ELSE @]
  /\ UNCHANGED <<wire, todo, boards>>

BugLoadKeeps(n, p) ==
  /\ txSlot[n][p] # None
  /\ Len(wire[n][p]) < WireDepth
  /\ wire' = [wire EXCEPT ![n][p] = Append(@, txSlot[n][p])]
  /\ UNCHANGED <<state, rxBuf, txBuf, txBuf2, dpTx, snoop, fifo, rxFifo, txSlot,
                 todo, boards, got>>

\* The transmitter loads its shift register, which empties the slot.
Load(n, p) ==
  /\ txSlot[n][p] # None
  /\ Len(wire[n][p]) < WireDepth
  /\ txSlot' = [txSlot EXCEPT ![n][p] = None]
  /\ wire' = [wire EXCEPT ![n][p] = Append(@, txSlot[n][p])]
  /\ UNCHANGED <<state, rxBuf, txBuf, txBuf2, dpTx, snoop, fifo, rxFifo, todo, boards, got>>

\* A full receive fifo loses the frame: nothing holds the transmitter back.
Buffered(q, m) == IF Len(q) < RxDepth THEN Append(q, m) ELSE q

Arrive(n, p) ==
  /\ wire[n][p] # <<>>
  /\ wire' = [wire EXCEPT ![n][p] = Tail(@)]
  /\ rxFifo' = IF Linked(n, p)
                 THEN [rxFifo EXCEPT ![Peer(n, p)][p] = Buffered(@, Head(wire[n][p]))]
                 ELSE rxFifo
  /\ UNCHANGED <<state, rxBuf, txBuf, txBuf2, dpTx, snoop, fifo, txSlot, todo, boards, got>>

\* A receiver that missed the start of a frame loses it, or stores something else.
MisSync(n, p) ==
  /\ Garble # {}
  /\ Linked(n, p)
  /\ wire[n][p] # <<>>
  /\ wire' = [wire EXCEPT ![n][p] = Tail(@)]
  /\ \/ UNCHANGED rxFifo
     \/ \E g \in Garble : rxFifo' = [rxFifo EXCEPT ![Peer(n, p)][p] = Buffered(@, g)]
  /\ UNCHANGED <<state, rxBuf, txBuf, txBuf2, dpTx, snoop, fifo, txSlot, todo, boards, got>>

FloatingRx(n, p) ==
  /\ <<n, p>> \in Floating
  /\ rxFifo' = [rxFifo EXCEPT ![n][p] = Buffered(@, NullFrame)]
  /\ UNCHANGED <<state, rxBuf, txBuf, txBuf2, dpTx, snoop, fifo, txSlot,
                 wire, todo, boards, got>>

BoardRx(n) ==
  /\ n \in ZNodes
  /\ boards[n] # <<>>
  /\ rxFifo' = [rxFifo EXCEPT ![n]["Z"] = Buffered(@, Head(boards[n]))]
  /\ boards' = [boards EXCEPT ![n] = Tail(@)]
  /\ UNCHANGED <<state, rxBuf, txBuf, txBuf2, dpTx, snoop, fifo, txSlot, wire, todo, got>>

Next ==
  \/ \E n \in Node : Router(n)
  \/ \E n \in Node : Xmit(n)
  \/ \E n \in Node, snp, pop \in BOOLEAN : RxCtl(n, snp, pop)
  \/ \E n \in Node, p \in Port : Load(n, p)
  \/ \E n \in Node, p \in Port : Arrive(n, p)
  \/ \E n \in Node, p \in Port : MisSync(n, p)
  \/ \E n \in Node, p \in Port : FloatingRx(n, p)
  \/ \E n \in Node : BoardRx(n)

Spec == Init /\ [][Next]_gridVars

\* The clocks run: as long as a router, a link or a sending CPU can move, one of
\* them does.  Nothing is assumed about which, nor about software that reads.
Progress ==
  \/ \E n \in Node : Router(n) \/ Xmit(n)
  \/ \E n \in Node, p \in Port : Load(n, p) \/ Arrive(n, p)

FairSpec == Spec /\ WF_gridVars(Progress)
-----------------------------------------------------------------------------
(***************************************************************************)
(* Distances, in links, along the rings a message follows.                 *)
(***************************************************************************)
PlaceX(x)   == IF x = 15 THEN Cols + 1 ELSE x
RingX(n)    == IF n[2] = 1 THEN Cols + 1 ELSE Cols
HopsX(n, x) == IF PlaceX(x) >= PlaceX(n[1]) THEN PlaceX(x) - PlaceX(n[1])
               ELSE PlaceX(x) + RingX(n) - PlaceX(n[1])
HopsY(n, y) == IF y >= n[2] THEN y - n[2] ELSE y + Rows - n[2]
Hops(n, m)  == HopsX(n, m.x) + HopsY(n, m.y)

\* The state of a router in which the message in rxBuf is still to be handled.
Holding(n) == state[n] \in {"CHK_MATCHX", "CHK_MATCHY", "CHK_MATCHZ"}

-----------------------------------------------------------------------------
(***************************************************************************)
(* Safety.                                                                 *)
(***************************************************************************)
\* Every variable has its type (registers and fifos of routerTop.v, links of grid.v).
TypeOK ==
  /\ RouterTypeOK
  /\ wire   \in [Node -> [Port -> Seq(Message)]]
  /\ todo   \in [Node -> Seq(Message)]
  /\ boards \in [Node -> Seq(Message)]
  /\ got    \in [Node -> Seq(Message)]

\* What no CPU and no other board sent, but a receiver out of step made up.
MadeUp(m) == m.id \in {g.id : g \in Garble}

(***************************************************************************)
(* What may be on port p of node n: messages for the bitmap controller     *)
(* leave their column before they use a row, all others leave their row    *)
(* before they use a column.  What a receiver out of step made up may      *)
(* appear anywhere.                                                        *)
(***************************************************************************)
InOrder(n, p) ==
  {m \in Message : \/ MadeUp(m)
                   \/ /\ p = "X" /\ IsForBMC(m) => n[2] = 1
                      /\ p = "Y" /\ InGrid(m) => m.x = n[1]}

\* Dimension-order routing (chk_match, txX, txY): no unicast that somebody sent is
\* ever on a column other than its destination's, nor a controller message on a
\* row other than row 1, wherever it was injected and whatever garbage shares the
\* fifos and routers with it.
DimensionOrder ==
  \A n \in Node, p \in Port :
    /\ rxFifo[n][p] \in Seq(InOrder(n, p))
    /\ txSlot[n][p] \in InOrder(n, p) \cup {None}
    /\ wire[n][p] \in Seq(InOrder(n, p))
    /\ state[n] = ChkMatch[p] => rxBuf[n] \in InOrder(n, p)

\* Messages that n may hand to its CPU when nobody snoops.
ForNode(n) == {m \in Message : IsBroadcast(m) \/ <<m.x, m.y>> = n}

\* Software that never turns snooping on reads only broadcasts and messages
\* addressed to its node, even when receivers lose step and store garbage.
AddressedHere ==
  \A n \in Node \ Snoopers :
    fifo[n] \in Seq(ForNode(n)) /\ got[n] \in Seq(ForNode(n))

\* Messages with a time to live that carries them from n to their destination.
\* chk_match looks at the time to live before the address, so it must exceed the
\* number of links.
Covered(n) == {m \in Message : IsUnicast(m) /\ ~MadeUp(m) => m.ttl > Hops(n, m)}

WorkloadCovered ==
  \A n \in Node : Workload[n] \in Seq(Covered(n)) /\ Boards[n] \in Seq(Covered(n))

\* Where a message on port p of n is matched next.
Ahead(n, p) == IF Linked(n, p) THEN Peer(n, p) ELSE n

\* The time to live that Network.asm puts into a message is enough: wherever a
\* unicast that somebody sent is, it still has more than the links it needs, so chk_match never
\* drops it as dead.
HopBudget ==
  WorkloadCovered =>
    \A n \in Node :
      /\ dpTx[n] => txBuf[n] \in Covered(n)
      /\ Holding(n) => rxBuf[n] \in Covered(n)
      /\ \A p \in Port : rxFifo[n][p] \in Seq(Covered(n))
      /\ \A p \in Port : Linked(n, p) =>
           /\ txSlot[n][p] \in Covered(Ahead(n, p)) \cup {None}
           /\ wire[n][p] \in Seq(Covered(Ahead(n, p)))

=============================================================================
