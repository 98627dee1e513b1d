--------------------------- MODULE MCGridService ---------------------------
(***************************************************************************)
(* A grid of 2 x 2 nodes and the bitmap controller.  Node 11 sends twice   *)
(* to the far corner 22, through which both messages turn from row 1 to    *)
(* column 2; node 22 sends to the controller, column first.  They meet at  *)
(* the router of 21.                                                       *)
(***************************************************************************)
EXTENDS GridService

Msg(i, a, t) == [id |-> i, x |-> a[1], y |-> a[2], ttl |-> t]

Nowhere == [n \in Node |-> <<>>]
NoSet   == {}

ServiceWorkload ==
  [Nowhere EXCEPT ![<<1, 1>>] = <<Msg(1, <<2, 2>>, 63), Msg(2, <<2, 2>>, 63)>>,
                  ![<<2, 2>>] = <<Msg(3, BMC, 63)>>]
=============================================================================
