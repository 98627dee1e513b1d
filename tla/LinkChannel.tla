----------------------------- MODULE LinkChannel -----------------------------
(***************************************************************************)
(* A link as the grid sees it: a transmit slot, at most two frames under   *)
(* way, and a receive fifo that loses what arrives when it is full.        *)
(* RouterLink implements it; Load and Arrive of ButterflyGrid are its      *)
(* actions, one channel per port of every node.                            *)
(***************************************************************************)
EXTENDS Naturals, Sequences

CONSTANTS
  Payload,   \* what is sent
  None,      \* the empty slot
  WireDepth, \* frames under way at once
  RxDepth    \* frames the receive fifo takes

VARIABLES slot, wire, fifo

vars == <<slot, wire, fifo>>

Init == slot = None /\ wire = <<>> /\ fifo = <<>>

Put(m) ==
  /\ slot = None
  /\ slot' = m
  /\ UNCHANGED <<wire, fifo>>

Load ==
  /\ slot # None
  /\ Len(wire) < WireDepth
  /\ slot' = None
  /\ wire' = Append(wire, slot)
  /\ UNCHANGED fifo

Arrive ==
  /\ wire # <<>>
  /\ wire' = Tail(wire)
  /\ fifo' = IF Len(fifo) < RxDepth THEN Append(fifo, Head(wire)) ELSE fifo
  /\ UNCHANGED slot

Pop ==
  /\ fifo # <<>>
  /\ fifo' = Tail(fifo)
  /\ UNCHANGED <<slot, wire>>

Next == (\E m \in Payload : Put(m)) \/ Load \/ Arrive \/ Pop

Spec == Init /\ [][Next]_vars
=============================================================================
