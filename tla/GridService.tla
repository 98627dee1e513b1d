---------------------------- MODULE GridService ----------------------------
(***************************************************************************)
(* The grid as a message service: the refinement mapping from the routers  *)
(* and links of ButterflyGrid to MessageService, for unicast messages with *)
(* snooping off, and what the service promises beyond it.                  *)
(***************************************************************************)
EXTENDS ButterflyGrid, Functions

CONSTANT Lossy \* FALSE when the fifos are deep enough for the workload

\* The part of a message that the network must not change.
Letter(m)     == [id |-> m.id, x |-> m.x, y |-> m.y]
LetterSeq(s)  == [i \in DOMAIN s |-> Letter(s[i])]

\* Every message a router or a link still has to handle.
InFlight ==
  {txBuf[n] : n \in {n \in Node : dpTx[n]}}
    \cup {rxBuf[n] : n \in {n \in Node : Holding(n)}}
    \cup ({txSlot[n][p] : n \in Node, p \in Port} \ {None})
    \cup UNION {Range(rxFifo[n][p]) \cup Range(wire[n][p]) : n \in Node, p \in Port}

Received(n) == got[n] \o fifo[n]

Addressee(l) == <<l.x, l.y>>

Service == INSTANCE MessageService WITH
  Site     <- Node,
  Letters  <- [n \in Node |-> LetterSeq(Workload[n])],
  To       <- Addressee,
  unsent   <- [n \in Node |-> LetterSeq(todo[n])],
  flying   <- {Letter(m) : m \in InFlight},
  received <- [n \in Node |-> LetterSeq(Received(n))]

\* The grid implements the message service: chk_match hands a unicast over once,
\* at its destination, and no step of a router or a link duplicates it; when the
\* fifos do not overrun, no step loses it either.
ImplementsService == Service!Spec

\* A node receives the unicasts of one source in the order they were sent, and
\* none of them twice: all of them take the same path of fifos.
InOrderOnce ==
  \A n, s \in Node :
    \A i, j \in DOMAIN Received(n), k, l \in DOMAIN Workload[s] :
      /\ i < j
      /\ Workload[s][k].id = Received(n)[i].id
      /\ Workload[s][l].id = Received(n)[j].id
      => k < l

Sent(n, k)      == Len(Workload[n]) - Len(todo[n]) >= k
Reached(n, m)   == \E i \in DOMAIN Received(n) : Received(n)[i].id = m.id

\* A CPU that polls TXSTAT is not kept waiting for ever: the router takes a
\* waiting message out of txBuf (Network.asm: "Blocks until the transmit buffer
\* is open").
XmitAccepted == \A n \in Node : dpTx[n] ~> ~dpTx[n]

\* A unicast that was given to its router arrives, when no fifo overruns.
EventuallyReceived ==
  \A n \in Node : \A k \in DOMAIN Workload[n] :
    Sent(n, k) ~> Reached(Addressee(Workload[n][k]), Workload[n][k])
=============================================================================
