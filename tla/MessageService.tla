--------------------------- MODULE MessageService ---------------------------
(***************************************************************************)
(* What the network promises to the software that uses it: a letter given  *)
(* to the network is handed at most once, to the node it is addressed to   *)
(* and to no other; unless the network is lossy it does not vanish.        *)
(* ButterflyGrid implements this (module GridService).                     *)
(***************************************************************************)
EXTENDS Sequences

CONSTANTS
  Site,    \* where letters are sent from and received
  Letters, \* Letters[s]: what site s has to send
  To(_),   \* the site a letter is addressed to
  Lossy    \* may the network lose a letter?

VARIABLES unsent, flying, received

vars == <<unsent, flying, received>>

Init ==
  /\ unsent = Letters
  /\ flying = {}
  /\ received = [s \in Site |-> <<>>]

Send(s) ==
  /\ unsent[s] # <<>>
  /\ Head(unsent[s]) \notin flying
  /\ unsent' = [unsent EXCEPT ![s] = Tail(@)]
  /\ flying' = flying \cup {Head(unsent[s])}
  /\ UNCHANGED received

Deliver(l) ==
  /\ l \in flying
  /\ flying' = flying \ {l}
  /\ received' = [received EXCEPT ![To(l)] = Append(@, l)]
  /\ UNCHANGED unsent

Lose(l) ==
  /\ Lossy
  /\ l \in flying
  /\ flying' = flying \ {l}
  /\ UNCHANGED <<unsent, received>>

Next ==
  \/ \E s \in Site : Send(s)
  \/ \E l \in flying : Deliver(l) \/ Lose(l)

Spec == Init /\ [][Next]_vars
=============================================================================
