------------------------------- MODULE MCGrid -------------------------------
(***************************************************************************)
(* Instances of ButterflyGrid with 2 x 2 nodes and the bitmap controller:  *)
(* faults of the links while times to live are as small as can be, and a   *)
(* broadcast storm.                                                        *)
(***************************************************************************)
EXTENDS ButterflyGrid, FiniteSets

Msg(i, a, t) == [id |-> i, x |-> a[1], y |-> a[2], ttl |-> t]
Everyone     == <<15, 15>>

Nowhere == [n \in Node |-> <<>>]
NoSet   == {}

(***************************************************************************)
(* Faults: fifos of one message; every time to live is one more than the   *)
(* links to cross.  Node 21 reaches 12 through the controller and column   *)
(* 1, another board reaches the controller from 22 through column 2.  Node *)
(* 11 snoops at will, the controller's Y input floats, and a receiver out  *)
(* of step stores a message for another node or one without a destination. *)
(***************************************************************************)
FaultWorkload == [Nowhere EXCEPT ![<<2, 1>>] = <<Msg(1, <<1, 2>>, 4)>>]
FaultBoards   == [Nowhere EXCEPT ![<<2, 2>>] = <<Msg(2, BMC, 3)>>]
Corner        == {<<2, 2>>}
FaultReaders  == {BMC, <<1, 2>>}
FaultSnoopers == {<<1, 1>>}
FaultFloating == {<<BMC, "Y">>}
FaultGarble   == {Msg(0, <<1, 1>>, 1), Msg(0, <<0, 9>>, 1)}

(***************************************************************************)
(* A broadcast of the controller.  Its one link goes to 11: nodes 21 and   *)
(* 12, and the board at the Z port of 21, get it only when 11 sends it on. *)
(***************************************************************************)
StormWorkload == [Nowhere EXCEPT ![BMC] = <<Msg(1, Everyone, 3)>>]
StormZNodes   == {<<2, 1>>}

Idling == \A n \in Node : state[n] = "IDLE" /\ ~dpTx[n]
Quiet  == /\ Idling
          /\ \A n \in Node, p \in Port :
               rxFifo[n][p] = <<>> /\ txSlot[n][p] = None /\ wire[n][p] = <<>>

\* The nodes within k links of s.
Within(s) ==
  LET near[k \in Nat] == IF k = 0 THEN {s}
                         ELSE LET b == near[k - 1]
                              IN  b \cup {NextX(n) : n \in b} \cup {NextY(n) : n \in b \ {BMC}}
  IN near

\* A broadcast dies out: every copy has lost its time to live and the routers
\* and links fall silent (chk_match drops a dead message before it looks at FF).
StormDies == <>[]Quiet

Carries(q, i) == \E k \in DOMAIN q : q[k].id = i

\* A broadcast reaches every node less than ttl links away, its sender included,
\* and every one of them that has a Z port hands it to the other board (TXGBL,
\* TXGBLY, TXGBLZ): nodes that only copy it to their CPU would not be enough.
BroadcastReaches ==
  \A s \in Node : \A k \in DOMAIN Workload[s] :
    LET m    == Workload[s][k]
        near == Within(s)[m.ttl - 1]
    IN  IsBroadcast(m) =>
          /\ <>(\A n \in near : Carries(got[n] \o fifo[n], m.id))
          /\ \A n \in near \cap ZNodes : <>Carries(wire[n]["Z"], m.id)
=============================================================================
