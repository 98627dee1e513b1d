---------------------------- MODULE MCRouterLink ----------------------------
(***************************************************************************)
(* A link with messages that look like start and stop nybbles.             *)
(***************************************************************************)
EXTENDS RouterLink

AllZero  == [i \in 1..Nybbles |-> 0]
ZeroLast == [i \in 1..Nybbles |-> IF i = Nybbles THEN 0 ELSE 15]
Messages == {AllZero, ZeroLast}
=============================================================================
