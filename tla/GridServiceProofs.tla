-------------------------- MODULE GridServiceProofs --------------------------
(***************************************************************************)
(* GridService, proved for every grid and workload of unicasts: the grid   *)
(* implements MessageService step by step, and messages of one source for  *)
(* one node are received in order and once.                                *)
(*                                                                         *)
(* All buffers of the grid are seen as queues, each at a place; a step of  *)
(* the grid moves the front of one queue to the back of another, drops it, *)
(* or leaves all of them.                                                  *)
(***************************************************************************)
EXTENDS GridService, ButterflyGridProofs, SequenceTheorems, FiniteSetTheorems, FiniteSets

\* The workloads the service is about: unicasts with identities of their own, no
\* traffic from other boards, no snooping and links in order.
PlainTraffic ==
  /\ Snoopers = {} /\ Floating = {} /\ Garble = {}
  /\ \A n \in Node : Boards[n] = <<>>
  /\ \A n \in Node : \A k \in DOMAIN Workload[n] : IsUnicast(Workload[n][k])
  /\ \A n, s \in Node : \A k \in DOMAIN Workload[n], l \in DOMAIN Workload[s] :
       Workload[n][k].id = Workload[s][l].id => n = s /\ k = l

LetterOf == [id : Id \cup {NullId}, x : 0..15, y : 0..15]

(***************************************************************************)
(* The places where a message can be, and the queue at each.               *)
(***************************************************************************)
Local  == {"todo", "txBuf", "rxBuf", "recv"}
Linky  == {"slot", "wire", "rxFifo"}
Place  == (Local \X Node \X {"-"}) \cup (Linky \X Node \X Port)
Flight == {c \in Place : c[1] \notin {"todo", "recv"}}

IfAny(b, m) == IF b THEN <<m>> ELSE <<>>

Content(k, n, p) ==
  CASE k = "todo"   -> todo[n]
    [] k = "txBuf"  -> IfAny(dpTx[n], txBuf[n])
    [] k = "rxBuf"  -> IfAny(Holding(n), rxBuf[n])
    [] k = "recv"   -> Received(n)
    [] k = "slot"   -> IfAny(txSlot[n][p] # None, txSlot[n][p])
    [] k = "wire"   -> wire[n][p]
    [] k = "rxFifo" -> rxFifo[n][p]

Contents     == [c \in Place |-> Content(c[1], c[2], c[3])]
LettersIn(C) == [c \in Place |-> LetterSeq(C[c])]
Queues       == LettersIn(Contents)

(***************************************************************************)
(* What is true of the queues.                                             *)
(***************************************************************************)
Unique(Q) ==
  \A c, d \in Place : \A i \in DOMAIN Q[c], j \in DOMAIN Q[d] :
    Q[c][i].id = Q[d][j].id => c = d /\ i = j

\* A letter l that s has sent gets to n through port p: the rows or columns that
\* chk_match has chosen lead from s to n, and n is not s.
Along(n, p, s, l) ==
  \/ /\ p = "X" /\ n[2] = l.y /\ IsForBMC(l)
     /\ PlaceX(s[1]) < PlaceX(n[1])
  \/ /\ p = "X" /\ n[2] = s[2] /\ InGrid(l)
     /\ HopsX(n, l.x) < HopsX(s, l.x)
  \/ /\ p = "Y" /\ n[1] = s[1] /\ IsForBMC(l)
     /\ HopsY(n, l.y) < HopsY(s, l.y)
  \/ /\ p = "Y" /\ n[1] = l.x /\ InGrid(l)
     /\ HopsY(n, l.y) < HopsY(s, l.y)

OnPath(c, s, l) ==
  CASE c[1] \in {"todo", "txBuf"} -> c[2] = s
    [] c[1] = "rxBuf"             -> \E p \in {"X", "Y"} : Along(c[2], p, s, l)
    [] c[1] = "recv"              -> c[2] = Addressee(l)
    [] c[1] = "rxFifo"            -> Along(c[2], c[3], s, l)
    [] c[1] \in {"slot", "wire"}  -> /\ Linked(c[2], c[3])
                                     /\ Along(Peer(c[2], c[3]), c[3], s, l)

OnPaths(Q) ==
  \A c \in Place : \A i \in DOMAIN Q[c] :
    \E s \in Node : \E k \in DOMAIN Workload[s] :
      Q[c][i] = Letter(Workload[s][k]) /\ OnPath(c, s, Q[c][i])

\* How many moves a letter at c still has to make.
Rank(c, l) ==
  CASE c[1] = "recv"               -> 0
    [] c[1] \in {"txBuf", "rxBuf"} -> 4 * Hops(c[2], l) + 1
    [] c[1] \in {"todo", "rxFifo"} -> 4 * Hops(c[2], l) + 2
    [] c[1] = "wire"               -> 4 * Hops(Peer(c[2], c[3]), l) + 3
    [] c[1] = "slot"               -> 4 * Hops(Peer(c[2], c[3]), l) + 4

\* Of two letters from s to one node, the one that was sent first is ahead.
Ordered(Q) ==
  \A s \in Node : \A k, l \in DOMAIN Workload[s] :
    k < l /\ Addressee(Workload[s][k]) = Addressee(Workload[s][l]) =>
      \A c, d \in Place : \A i \in DOMAIN Q[c], j \in DOMAIN Q[d] :
        /\ Q[c][i] = Letter(Workload[s][k])
        /\ Q[d][j] = Letter(Workload[s][l])
        => Rank(c, Q[c][i]) < Rank(d, Q[d][j]) \/ (c = d /\ i < j)

NoBroadcasts ==
  \A n \in Node : state[n] \notin Flooding /\ boards[n] = <<>>

QueueInv == NoBroadcasts /\ Unique(Queues) /\ OnPaths(Queues) /\ Ordered(Queues)

-----------------------------------------------------------------------------
(***************************************************************************)
(* Queues in general: R is Q after one step.                               *)
(***************************************************************************)
Moves(Q, R, c, d) ==
  /\ c # d /\ Q[c] # <<>>
  /\ R[c] = Tail(Q[c])
  /\ R[d] = Append(Q[d], Head(Q[c]))
  /\ \A e \in DOMAIN Q \ {c, d} : R[e] = Q[e]

Drops(Q, R, c) ==
  /\ Q[c] # <<>>
  /\ R[c] = Tail(Q[c])
  /\ \A e \in DOMAIN Q \ {c} : R[e] = Q[e]

\* Where an element of R was: at the front of c, or one behind in c, or where it is.
Was(Q, R, c, e, j) ==
  \/ e # c /\ j \in DOMAIN Q[e] /\ R[e][j] = Q[e][j]
  \/ e = c /\ j \in Nat \ {0} /\ j + 1 \in DOMAIN Q[e] /\ R[e][j] = Q[e][j + 1]

LEMMA MovedFrom ==
  ASSUME NEW P, NEW L, NEW Q \in [P -> Seq(L)], NEW R \in [P -> Seq(L)],
         NEW c \in P, NEW d \in P, Moves(Q, R, c, d)
  PROVE  /\ 1 \in DOMAIN Q[c]
         /\ \A e \in P : \A j \in DOMAIN R[e] :
              \/ Was(Q, R, c, e, j)
              \/ e = d /\ j = Len(Q[d]) + 1 /\ R[e][j] = Q[c][1]
         /\ \A e \in P : \A j \in DOMAIN R[e] : j \in Nat /\ j # 0
         /\ \A e \in P : \A j \in DOMAIN Q[e] : j \in Nat /\ j # 0 /\ j <= Len(Q[e])
<1>1. ASSUME NEW e \in P
      PROVE  /\ DOMAIN Q[e] = 1 .. Len(Q[e]) /\ DOMAIN R[e] = 1 .. Len(R[e])
             /\ Len(Q[e]) \in Nat /\ Len(R[e]) \in Nat
  OBVIOUS
<1>2. Q[c] \in Seq(L) /\ Q[d] \in Seq(L) /\ Len(Q[c]) > 0 /\ Q[c] # <<>> /\ Head(Q[c]) = Q[c][1]
      /\ Head(Q[c]) \in L
  BY DEF Moves
<1>3. ASSUME NEW j \in DOMAIN R[c] PROVE Was(Q, R, c, c, j)
  <2>1. R[c] = Tail(Q[c])
    BY DEF Moves
  <2>2. Len(R[c]) = Len(Q[c]) - 1 /\ \A i \in 1 .. Len(R[c]) : R[c][i] = Q[c][i + 1]
    BY <1>2, <2>1
  <2>3. DOMAIN Q[c] = 1 .. Len(Q[c]) /\ DOMAIN R[c] = 1 .. Len(R[c]) /\ Len(Q[c]) \in Nat
    BY <1>1
  <2>4. j \in 1 .. Len(R[c]) /\ j + 1 \in DOMAIN Q[c] /\ j \in Nat \ {0}
    BY <2>2, <2>3
  <2>5. QED BY <2>2, <2>4 DEF Was
<1>4. ASSUME NEW j \in DOMAIN R[d]
      PROVE  Was(Q, R, c, d, j) \/ (j = Len(Q[d]) + 1 /\ R[d][j] = Q[c][1])
  <2>1. R[d] = Append(Q[d], Head(Q[c])) /\ c # d
    BY DEF Moves
  <2>2. Len(R[d]) = Len(Q[d]) + 1 /\ (\A i \in 1 .. Len(Q[d]) : R[d][i] = Q[d][i])
        /\ R[d][Len(Q[d]) + 1] = Q[c][1]
    BY <1>2, <2>1
  <2>3. DOMAIN Q[d] = 1 .. Len(Q[d]) /\ DOMAIN R[d] = 1 .. Len(R[d]) /\ Len(Q[d]) \in Nat
    BY <1>1
  <2>4. j \in DOMAIN Q[d] \/ j = Len(Q[d]) + 1
    BY <2>2, <2>3
  <2>5. j \in DOMAIN Q[d] => R[d][j] = Q[d][j]
    BY <2>2, <2>3
  <2>6. j \in DOMAIN Q[d] => Was(Q, R, c, d, j)
    BY <2>1, <2>5 DEF Was
  <2>7. j = Len(Q[d]) + 1 => R[d][j] = Q[c][1]
    BY <2>2
  <2>8. QED BY <2>4, <2>6, <2>7
<1>5. ASSUME NEW e \in P \ {c, d}, NEW j \in DOMAIN R[e] PROVE Was(Q, R, c, e, j)
  BY DEF Was, Moves
<1>6. ASSUME NEW e \in P, NEW j \in DOMAIN R[e]
      PROVE  Was(Q, R, c, e, j) \/ (e = d /\ j = Len(Q[d]) + 1 /\ R[e][j] = Q[c][1])
  <2>1. CASE e = c BY <1>3, <2>1
  <2>2. CASE e = d BY <1>4, <2>2
  <2>3. CASE e \in P \ {c, d} BY <1>5, <2>3
  <2>4. QED BY <2>1, <2>2, <2>3
<1>7. \A e \in P : /\ \A j \in DOMAIN R[e] : j \in Nat /\ j # 0
                  /\ \A j \in DOMAIN Q[e] : j \in Nat /\ j # 0 /\ j <= Len(Q[e])
  BY <1>1
<1>8. 1 \in DOMAIN Q[c]
  BY <1>1, <1>2
<1>9. QED BY <1>6, <1>7, <1>8

LEMMA DroppedFrom ==
  ASSUME NEW P, NEW L, NEW Q \in [P -> Seq(L)], NEW R \in [P -> Seq(L)],
         NEW c \in P, Drops(Q, R, c)
  PROVE  /\ 1 \in DOMAIN Q[c]
         /\ \A e \in P : \A j \in DOMAIN R[e] : Was(Q, R, c, e, j)
         /\ \A e \in P : \A j \in DOMAIN R[e] : j \in Nat /\ j # 0
         /\ \A e \in P : \A j \in DOMAIN Q[e] : j \in Nat /\ j # 0 /\ j <= Len(Q[e])
<1>1. ASSUME NEW e \in P
      PROVE  /\ DOMAIN Q[e] = 1 .. Len(Q[e]) /\ DOMAIN R[e] = 1 .. Len(R[e])
             /\ Len(Q[e]) \in Nat /\ Len(R[e]) \in Nat
  OBVIOUS
<1>2. Q[c] \in Seq(L) /\ Len(Q[c]) > 0 /\ Q[c] # <<>>
  BY DEF Drops
<1>3. ASSUME NEW j \in DOMAIN R[c] PROVE Was(Q, R, c, c, j)
  <2>1. R[c] = Tail(Q[c])
    BY DEF Drops
  <2>2. Len(R[c]) = Len(Q[c]) - 1 /\ \A i \in 1 .. Len(R[c]) : R[c][i] = Q[c][i + 1]
    BY <1>2, <2>1
  <2>3. DOMAIN Q[c] = 1 .. Len(Q[c]) /\ DOMAIN R[c] = 1 .. Len(R[c]) /\ Len(Q[c]) \in Nat
    BY <1>1
  <2>4. j \in 1 .. Len(R[c]) /\ j + 1 \in DOMAIN Q[c] /\ j \in Nat \ {0}
    BY <2>2, <2>3
  <2>5. QED BY <2>2, <2>4 DEF Was
<1>4. ASSUME NEW e \in P \ {c}, NEW j \in DOMAIN R[e] PROVE Was(Q, R, c, e, j)
  BY DEF Was, Drops
<1>5. \A e \in P : /\ \A j \in DOMAIN R[e] : j \in Nat /\ j # 0
                  /\ \A j \in DOMAIN Q[e] : j \in Nat /\ j # 0 /\ j <= Len(Q[e])
  BY <1>1
<1>6. 1 \in DOMAIN Q[c]
  BY <1>1, <1>2
<1>7. ASSUME NEW e \in P, NEW j \in DOMAIN R[e] PROVE Was(Q, R, c, e, j)
  BY <1>3, <1>4
<1>8. QED BY <1>5, <1>6, <1>7

\* What a step does to the queues, element by element.
Arrived(Q, R, c, d, e, j) == e = d /\ j = Len(Q[d]) + 1 /\ R[e][j] = Q[c][1] /\ c # d

Steps(Q, R, c, d) ==
  /\ 1 \in DOMAIN Q[c]
  /\ \A e \in Place : \A j \in DOMAIN R[e] :
       j \in Nat /\ j # 0 /\ (Was(Q, R, c, e, j) \/ Arrived(Q, R, c, d, e, j))
  /\ \A e \in Place : \A j \in DOMAIN Q[e] : j \in Nat /\ j # 0 /\ j <= Len(Q[e])

QueueMap == [Place -> Seq(LetterOf)]

LEMMA MoveSteps ==
  ASSUME NEW Q \in QueueMap, NEW R \in QueueMap, NEW c \in Place, NEW d \in Place,
         Moves(Q, R, c, d)
  PROVE  Steps(Q, R, c, d)
<1>1. c # d
  BY DEF Moves
<1>2. Q \in [Place -> Seq(LetterOf)] /\ R \in [Place -> Seq(LetterOf)]
  BY DEF QueueMap
<1>3. /\ 1 \in DOMAIN Q[c]
      /\ \A e \in Place : \A j \in DOMAIN R[e] :
           \/ Was(Q, R, c, e, j)
           \/ e = d /\ j = Len(Q[d]) + 1 /\ R[e][j] = Q[c][1]
      /\ \A e \in Place : \A j \in DOMAIN R[e] : j \in Nat /\ j # 0
      /\ \A e \in Place : \A j \in DOMAIN Q[e] : j \in Nat /\ j # 0 /\ j <= Len(Q[e])
  BY <1>2, MovedFrom
<1>4. QED BY <1>1, <1>3 DEF Steps, Arrived

LEMMA DropSteps ==
  ASSUME NEW Q \in QueueMap, NEW R \in QueueMap, NEW c \in Place, Drops(Q, R, c)
  PROVE  Steps(Q, R, c, c)
BY DroppedFrom DEF Steps, QueueMap

\* No letter is doubled.
LEMMA StepsUnique ==
  ASSUME NEW Q \in QueueMap, NEW R \in QueueMap, NEW c \in Place, NEW d \in Place,
         Steps(Q, R, c, d), Unique(Q)
  PROVE  Unique(R)
<1> SUFFICES ASSUME NEW e \in Place, NEW f \in Place, NEW i \in DOMAIN R[e], NEW j \in DOMAIN R[f],
                    R[e][i].id = R[f][j].id
             PROVE  e = f /\ i = j
  BY DEF Unique
<1>1. /\ i \in Nat /\ i # 0 /\ j \in Nat /\ j # 0 /\ 1 \in DOMAIN Q[c]
      /\ (Was(Q, R, c, e, i) \/ Arrived(Q, R, c, d, e, i))
      /\ (Was(Q, R, c, f, j) \/ Arrived(Q, R, c, d, f, j))
  BY DEF Steps
<1>2. ASSUME NEW x \in Place, NEW y \in Place, NEW k \in DOMAIN Q[x], NEW l \in DOMAIN Q[y],
             Q[x][k].id = Q[y][l].id
      PROVE  x = y /\ k = l
  BY <1>2 DEF Unique
<1>3. ASSUME NEW x \in Place, NEW k \in Nat, k # 0, Was(Q, R, c, x, k), R[x][k].id = Q[c][1].id
      PROVE  FALSE
  <2>1. CASE x # c
    BY <1>1, <1>2, <1>3, <2>1 DEF Was
  <2>2. CASE x = c
    <3>1. k + 1 \in DOMAIN Q[c] /\ Q[c][k + 1].id = Q[c][1].id
      BY <1>3, <2>2 DEF Was
    <3>2. k + 1 = 1
      BY <1>1, <1>2, <3>1
    <3>3. QED BY <1>3, <3>2
  <2>3. QED BY <2>1, <2>2
<1>4. CASE Was(Q, R, c, e, i) /\ Was(Q, R, c, f, j)
  <2>1. CASE e = c
    <3>1. i + 1 \in DOMAIN Q[e] /\ R[e][i] = Q[e][i + 1]
      BY <1>4, <2>1 DEF Was
    <3>2. CASE f = c
      BY <1>1, <1>2, <1>4, <2>1, <3>1, <3>2 DEF Was
    <3>3. CASE f # c
      BY <1>2, <1>4, <2>1, <3>1, <3>3 DEF Was
    <3>4. QED BY <3>2, <3>3
  <2>2. CASE e # c
    <3>1. i \in DOMAIN Q[e] /\ R[e][i] = Q[e][i]
      BY <1>4, <2>2 DEF Was
    <3>2. CASE f = c
      BY <1>2, <1>4, <2>2, <3>1, <3>2 DEF Was
    <3>3. CASE f # c
      BY <1>2, <1>4, <3>1, <3>3 DEF Was
    <3>4. QED BY <3>2, <3>3
  <2>3. QED BY <2>1, <2>2
<1>5. CASE Was(Q, R, c, e, i) /\ Arrived(Q, R, c, d, f, j)
  BY <1>1, <1>3, <1>5 DEF Arrived
<1>6. CASE Arrived(Q, R, c, d, e, i) /\ Was(Q, R, c, f, j)
  BY <1>1, <1>3, <1>6 DEF Arrived
<1>7. CASE Arrived(Q, R, c, d, e, i) /\ Arrived(Q, R, c, d, f, j)
  BY <1>7 DEF Arrived
<1>8. QED BY <1>1, <1>4, <1>5, <1>6, <1>7

\* Every letter stays on the way from its source, if the one that moves does.
LEMMA StepsOnPath ==
  ASSUME NEW Q \in QueueMap, NEW R \in QueueMap, NEW c \in Place, NEW d \in Place,
         Steps(Q, R, c, d), OnPaths(Q),
         \A s \in Node : \A k \in DOMAIN Workload[s] :
           c # d /\ Q[c][1] = Letter(Workload[s][k]) /\ OnPath(c, s, Q[c][1])
             => OnPath(d, s, Q[c][1])
  PROVE  OnPaths(R)
<1> SUFFICES ASSUME NEW e \in Place, NEW j \in DOMAIN R[e]
             PROVE  \E s \in Node : \E k \in DOMAIN Workload[s] :
                      R[e][j] = Letter(Workload[s][k]) /\ OnPath(e, s, R[e][j])
  BY DEF OnPaths
<1>1. 1 \in DOMAIN Q[c] /\ (Was(Q, R, c, e, j) \/ Arrived(Q, R, c, d, e, j))
  BY DEF Steps
<1>2. CASE Was(Q, R, c, e, j)
  <2>1. PICK i \in DOMAIN Q[e] : R[e][j] = Q[e][i]
    BY <1>2 DEF Was
  <2>2. QED BY <2>1 DEF OnPaths
<1>3. CASE Arrived(Q, R, c, d, e, j)
  <2>1. R[e][j] = Q[c][1] /\ e = d /\ c # d
    BY <1>3 DEF Arrived
  <2>2. PICK s \in Node : \E k \in DOMAIN Workload[s] :
          Q[c][1] = Letter(Workload[s][k]) /\ OnPath(c, s, Q[c][1])
    BY <1>1 DEF OnPaths
  <2>3. QED BY <2>1, <2>2
<1>4. QED BY <1>1, <1>2, <1>3

-----------------------------------------------------------------------------
(***************************************************************************)
(* Ways through the grid.                                                  *)
(***************************************************************************)
\* Nodes as pairs.
LEMMA NodeParts ==
  ASSUME NEW n \in Node
  PROVE  /\ n[2] \in 1 .. Rows
         /\ n[1] \in 1 .. Cols \/ (n[1] = 15 /\ n[2] = 1)
         /\ n = <<n[1], n[2]>>
BY GridAssumption DEF Node, BMC

LEMMA HopsTypes ==
  ASSUME NEW n \in Node, NEW l \in LetterOf, IsUnicast(l)
  PROVE  HopsX(n, l.x) \in Nat /\ HopsY(n, l.y) \in Nat /\ Hops(n, l) \in Nat
<1>1. HopsY(n, l.y) \in Nat
  BY NodeParts, GridAssumption DEF HopsY, IsUnicast, IsForBMC, InGrid, LetterOf
<1>2. CASE IsForBMC(l)
  <2>1. HopsX(n, l.x) \in Nat
    BY <1>2, NodeParts, GridAssumption DEF HopsX, PlaceX, RingX, IsForBMC, LetterOf
  <2>2. QED BY <1>1, <2>1 DEF Hops
<1>3. CASE InGrid(l)
  <2>1. HopsX(n, l.x) \in Nat
    BY <1>3, NodeParts, GridAssumption DEF HopsX, PlaceX, RingX, InGrid, LetterOf
  <2>2. QED BY <1>1, <2>1 DEF Hops
<1>4. QED BY <1>2, <1>3 DEF IsUnicast

\* Away from its source a letter is nearer to its destination.
LEMMA AlongNearer ==
  ASSUME NEW n \in Node, NEW s \in Node, NEW p, NEW l \in LetterOf, IsUnicast(l), Along(n, p, s, l)
  PROVE  Hops(n, l) < Hops(s, l) /\ p \in {"X", "Y"}
<1> USE GridAssumption
<1>0. /\ HopsX(n, l.x) \in Nat /\ HopsY(n, l.y) \in Nat
      /\ HopsX(s, l.x) \in Nat /\ HopsY(s, l.y) \in Nat
  BY HopsTypes
<1>1. CASE p = "X" /\ n[2] = l.y /\ IsForBMC(l) /\ PlaceX(s[1]) < PlaceX(n[1])
  <2>1. HopsX(n, l.x) < HopsX(s, l.x)
    BY <1>1, NodeParts DEF HopsX, PlaceX, IsForBMC
  <2>2. HopsY(n, l.y) = 0
    BY <1>1, NodeParts DEF HopsY
  <2>3. QED BY <1>0, <1>1, <2>1, <2>2 DEF Hops
<1>2. CASE p = "X" /\ n[2] = s[2] /\ InGrid(l) /\ HopsX(n, l.x) < HopsX(s, l.x)
  BY <1>0, <1>2 DEF Hops, HopsY
<1>3. CASE p = "Y" /\ n[1] = s[1] /\ IsForBMC(l) /\ HopsY(n, l.y) < HopsY(s, l.y)
  <2>1. HopsX(n, l.x) = HopsX(s, l.x)
    BY <1>3, NodeParts DEF HopsX, PlaceX, IsForBMC
  <2>2. QED BY <1>0, <1>3, <2>1 DEF Hops
<1>4. CASE p = "Y" /\ n[1] = l.x /\ InGrid(l) /\ HopsY(n, l.y) < HopsY(s, l.y)
  <2>1. HopsX(n, l.x) = 0
    BY <1>4, NodeParts DEF HopsX, PlaceX, InGrid
  <2>2. QED BY <1>0, <1>4, <2>1 DEF Hops
<1>5. QED BY <1>1, <1>2, <1>3, <1>4 DEF Along

\* On the way from s to its destination, a letter gets to one node at each distance,
\* and through one port.
LEMMA AlongInjective ==
  ASSUME NEW n \in Node, NEW k \in Node, NEW s \in Node, NEW p, NEW q,
         NEW l \in LetterOf, IsUnicast(l),
         Along(n, p, s, l), Along(k, q, s, l), Hops(n, l) = Hops(k, l)
  PROVE  n = k /\ p = q
<1> USE GridAssumption
<1>0. /\ HopsX(n, l.x) \in Nat /\ HopsY(n, l.y) \in Nat
      /\ HopsX(k, l.x) \in Nat /\ HopsY(k, l.y) \in Nat
      /\ HopsX(s, l.x) \in Nat /\ HopsY(s, l.y) \in Nat
  BY HopsTypes
<1>1. CASE IsForBMC(l)
  <2>1. ~InGrid(l) /\ l.x = 15 /\ l.y = 1
    BY <1>1 DEF IsForBMC, InGrid
  <2>2. ASSUME NEW a \in Node
        PROVE  HopsX(a, 15) = Cols + 1 - PlaceX(a[1]) /\ PlaceX(a[1]) \in 1 .. Cols + 1
               /\ HopsY(a, 1) = IF a[2] = 1 THEN 0 ELSE 1 + Rows - a[2]
    BY NodeParts DEF HopsX, PlaceX, HopsY
  <2>3. CASE p = "X" /\ q = "X"
    <3>1. n[2] = 1 /\ k[2] = 1 /\ HopsY(n, 1) = 0 /\ HopsY(k, 1) = 0
      BY <2>1, <2>2, <2>3 DEF Along
    <3>2. PlaceX(n[1]) = PlaceX(k[1])
      BY <2>1, <2>2, <3>1 DEF Hops
    <3>3. n[1] = k[1]
      BY <3>2, NodeParts DEF PlaceX
    <3>4. QED BY <2>3, <3>1, <3>3, NodeParts
  <2>4. CASE p = "Y" /\ q = "Y"
    <3>1. n[1] = s[1] /\ k[1] = s[1]
      BY <2>1, <2>4 DEF Along
    <3>2. HopsY(n, 1) = HopsY(k, 1)
      BY <1>0, <2>1, <3>1, <2>2 DEF Hops
    <3>3. n[2] = k[2]
      BY <2>2, <3>2, NodeParts
    <3>4. QED BY <2>4, <3>1, <3>3, NodeParts
  <2>5. ASSUME NEW a \in Node, NEW b \in Node, Along(a, "X", s, l), Along(b, "Y", s, l)
        PROVE  Hops(a, l) < Hops(b, l)
    <3>1. a[2] = 1 /\ PlaceX(s[1]) < PlaceX(a[1]) /\ b[1] = s[1]
      BY <2>1, <2>5 DEF Along
    <3>2. HopsX(a, 15) < HopsX(b, 15) /\ HopsY(a, 1) = 0 /\ HopsY(b, 1) \in Nat
      BY <2>2, <3>1, NodeParts
    <3>3. QED BY <2>1, <2>2, <3>2 DEF Hops
  <2>6. p \in {"X", "Y"} /\ q \in {"X", "Y"}
    BY DEF Along
  <2>7. QED BY <1>0, <2>3, <2>4, <2>5, <2>6 DEF Hops
<1>2. CASE InGrid(l)
  <2>1. ~IsForBMC(l) /\ l.x \in 1 .. Cols /\ l.y \in 1 .. Rows
    BY <1>2 DEF IsForBMC, InGrid
  <2>2. CASE p = "X" /\ q = "X"
    <3>1. n[2] = s[2] /\ k[2] = s[2] /\ HopsY(n, l.y) = HopsY(k, l.y)
      BY <2>1, <2>2 DEF Along, HopsY
    <3>2. HopsX(n, l.x) = HopsX(k, l.x)
      BY <1>0, <3>1 DEF Hops
    <3>3. n[1] = k[1]
      BY <2>1, <3>1, <3>2, NodeParts DEF HopsX, PlaceX, RingX
    <3>4. QED BY <2>2, <3>1, <3>3, NodeParts
  <2>3. CASE p = "Y" /\ q = "Y"
    <3>1. n[1] = l.x /\ k[1] = l.x
      BY <2>1, <2>3 DEF Along
    <3>2. HopsX(n, l.x) = 0 /\ HopsX(k, l.x) = 0
      BY <2>1, <3>1, NodeParts DEF HopsX, PlaceX
    <3>3. HopsY(n, l.y) = HopsY(k, l.y)
      BY <1>0, <3>2 DEF Hops
    <3>4. n[2] = k[2]
      BY <2>1, <3>3, NodeParts DEF HopsY
    <3>5. QED BY <2>3, <3>1, <3>4, NodeParts
  <2>4. ASSUME NEW a \in Node, NEW b \in Node, Along(a, "X", s, l), Along(b, "Y", s, l)
        PROVE  Hops(b, l) < Hops(a, l)
    <3>1. HopsY(a, l.y) = HopsY(s, l.y) /\ HopsY(b, l.y) < HopsY(s, l.y) /\ b[1] = l.x
      BY <2>1, <2>4 DEF Along, HopsY
    <3>2. HopsX(b, l.x) = 0
      BY <2>1, <3>1, NodeParts DEF HopsX, PlaceX
    <3>3. HopsX(a, l.x) \in Nat /\ HopsY(b, l.y) \in Nat /\ HopsY(s, l.y) \in Nat
      BY HopsTypes
    <3>4. QED BY <3>1, <3>2, <3>3 DEF Hops
  <2>5. p \in {"X", "Y"} /\ q \in {"X", "Y"}
    BY DEF Along
  <2>6. QED BY <1>0, <2>2, <2>3, <2>4, <2>5 DEF Hops
<1>3. QED BY <1>1, <1>2 DEF IsUnicast

\* Two links of one kind do not end at one node.
LEMMA PeerInjective ==
  ASSUME NEW n \in Node, NEW k \in Node, NEW p \in Port, Linked(n, p), Linked(k, p),
         Peer(n, p) = Peer(k, p)
  PROVE  n = k
<1> USE GridAssumption
<1>1. CASE p = "X"
  BY <1>1, NodeParts DEF Peer, NextX, BMC
<1>2. CASE p = "Y"
  BY <1>2, NodeParts DEF Peer, NextY, BMC, Linked
<1>3. QED BY <1>1, <1>2 DEF Linked

\* On the way from s, a letter is at one place for each rank.
LEMMA RankInjective ==
  ASSUME NEW s \in Node, NEW l \in LetterOf, IsUnicast(l), NEW c \in Place, NEW d \in Place,
         OnPath(c, s, l), OnPath(d, s, l), Rank(c, l) = Rank(d, l)
  PROVE  c = d
<1>1. ASSUME NEW e \in Place
      PROVE  /\ e[2] \in Node /\ e = <<e[1], e[2], e[3]>>
             /\ e[1] \in Local => e[3] = "-"
             /\ e[1] \in Linky => e[3] \in Port
             /\ e[1] \in Local \cup Linky
             /\ Hops(e[2], l) \in Nat
             /\ e[1] \in Linky /\ Linked(e[2], e[3]) =>
                  Peer(e[2], e[3]) \in Node /\ Hops(Peer(e[2], e[3]), l) \in Nat
  <2>1. e \in Local \X Node \X {"-"} \/ e \in Linky \X Node \X Port
    BY DEF Place
  <2>2. e[2] \in Node /\ e = <<e[1], e[2], e[3]>>
    BY <2>1
  <2>3. (e[1] \in Local => e[3] = "-") /\ (e[1] \in Linky => e[3] \in Port) /\ e[1] \in Local \cup Linky
    BY <2>1 DEF Local, Linky
  <2>4. QED BY <2>2, <2>3, HopsTypes, PeerNode
<1> USE DEF Local, Linky
<1>2. CASE c[1] = "recv"
  <2>1. Rank(c, l) = 0
    BY <1>2 DEF Rank
  <2>2. d[1] = "recv"
    <3>1. d[1] \in {"slot", "wire"} => Hops(Peer(d[2], d[3]), l) \in Nat
      BY <1>1 DEF OnPath
    <3>2. QED BY <1>1, <2>1, <3>1 DEF Rank
  <2>3. c[2] = Addressee(l) /\ d[2] = Addressee(l)
    BY <1>2, <2>2 DEF OnPath
  <2>4. QED BY <1>1, <1>2, <2>2, <2>3
<1>3. ASSUME NEW e \in Place, e[1] \in {"slot", "wire"}, OnPath(e, s, l)
      PROVE  /\ Linked(e[2], e[3]) /\ Along(Peer(e[2], e[3]), e[3], s, l)
             /\ Peer(e[2], e[3]) \in Node /\ Hops(Peer(e[2], e[3]), l) \in Nat /\ e[3] \in Port
  BY <1>1, <1>3 DEF OnPath
<1>4. ASSUME c[1] \in {"slot", "wire"}, d[1] = c[1] PROVE c = d
  <2>1. Hops(Peer(c[2], c[3]), l) = Hops(Peer(d[2], d[3]), l)
    <3>1. PICK h \in Nat : h = Hops(Peer(c[2], c[3]), l)
      BY <1>3, <1>4
    <3>2. PICK g \in Nat : g = Hops(Peer(d[2], d[3]), l)
      BY <1>3, <1>4
    <3>3. \/ Rank(c, l) = 4 * h + 4 /\ Rank(d, l) = 4 * g + 4
          \/ Rank(c, l) = 4 * h + 3 /\ Rank(d, l) = 4 * g + 3
      BY <1>4, <3>1, <3>2 DEF Rank
    <3>4. h = g
      BY <3>3
    <3>5. QED BY <3>1, <3>2, <3>4
  <2>2. Peer(c[2], c[3]) = Peer(d[2], d[3]) /\ c[3] = d[3]
    BY <1>3, <1>4, <2>1, AlongInjective
  <2>3. c[2] = d[2]
    BY <1>1, <1>3, <1>4, <2>2, PeerInjective
  <2>4. QED BY <1>1, <1>4, <2>2, <2>3
<1>5. ASSUME NEW e \in Place, e[1] = "rxFifo", OnPath(e, s, l)
      PROVE  Along(e[2], e[3], s, l) /\ Hops(e[2], l) < Hops(s, l) /\ e[2] \in Node
  BY <1>1, <1>5, AlongNearer DEF OnPath
<1>6. ASSUME NEW e \in Place, e[1] = "rxBuf", OnPath(e, s, l)
      PROVE  (\E p \in {"X", "Y"} : Along(e[2], p, s, l)) /\ Hops(e[2], l) < Hops(s, l)
  BY <1>1, <1>6, AlongNearer DEF OnPath
<1>7. ASSUME NEW e \in Place, e[1] \in {"txBuf", "todo"}, OnPath(e, s, l)
      PROVE  e[2] = s
  BY <1>7 DEF OnPath
<1>8. ASSUME NEW a \in Place, NEW b \in Place, Rank(a, l) = Rank(b, l),
             OnPath(a, s, l), OnPath(b, s, l), a[1] # "recv"
      PROVE  \/ a[1] \in {"slot", "wire"} /\ b[1] = a[1]
             \/ a[1] \in {"txBuf", "rxBuf"} /\ b[1] \in {"txBuf", "rxBuf"} /\ Hops(a[2], l) = Hops(b[2], l)
             \/ a[1] \in {"todo", "rxFifo"} /\ b[1] \in {"todo", "rxFifo"} /\ Hops(a[2], l) = Hops(b[2], l)
  <2>1. ASSUME NEW e \in Place, OnPath(e, s, l)
        PROVE  \E h \in Nat :
                 \/ e[1] = "recv" /\ Rank(e, l) = 0
                 \/ e[1] \in {"txBuf", "rxBuf"} /\ h = Hops(e[2], l) /\ Rank(e, l) = 4 * h + 1
                 \/ e[1] \in {"todo", "rxFifo"} /\ h = Hops(e[2], l) /\ Rank(e, l) = 4 * h + 2
                 \/ e[1] = "wire" /\ Rank(e, l) = 4 * h + 3
                 \/ e[1] = "slot" /\ Rank(e, l) = 4 * h + 4
    <3>1. CASE e[1] \in {"slot", "wire"}
      BY <1>3, <2>1, <3>1 DEF Rank
    <3>2. CASE e[1] \in {"recv", "txBuf", "rxBuf", "todo", "rxFifo"}
      BY <1>1, <3>2 DEF Rank
    <3>3. QED BY <1>1, <3>1, <3>2
  <2>2. PICK h \in Nat :
                 \/ a[1] = "recv" /\ Rank(a, l) = 0
                 \/ a[1] \in {"txBuf", "rxBuf"} /\ h = Hops(a[2], l) /\ Rank(a, l) = 4 * h + 1
                 \/ a[1] \in {"todo", "rxFifo"} /\ h = Hops(a[2], l) /\ Rank(a, l) = 4 * h + 2
                 \/ a[1] = "wire" /\ Rank(a, l) = 4 * h + 3
                 \/ a[1] = "slot" /\ Rank(a, l) = 4 * h + 4
    BY <1>8, <2>1
  <2>3. PICK g \in Nat :
                 \/ b[1] = "recv" /\ Rank(b, l) = 0
                 \/ b[1] \in {"txBuf", "rxBuf"} /\ g = Hops(b[2], l) /\ Rank(b, l) = 4 * g + 1
                 \/ b[1] \in {"todo", "rxFifo"} /\ g = Hops(b[2], l) /\ Rank(b, l) = 4 * g + 2
                 \/ b[1] = "wire" /\ Rank(b, l) = 4 * g + 3
                 \/ b[1] = "slot" /\ Rank(b, l) = 4 * g + 4
    BY <1>8, <2>1
  <2>4. QED BY <1>8, <2>2, <2>3
<1>9. CASE c[1] \in {"txBuf", "rxBuf"} /\ d[1] \in {"txBuf", "rxBuf"} /\ Hops(c[2], l) = Hops(d[2], l)
  <2>1. CASE c[1] = "txBuf" /\ d[1] = "txBuf"
    BY <1>1, <1>7, <2>1
  <2>2. CASE c[1] # d[1]
    BY <1>1, <1>6, <1>7, <1>9, <2>2
  <2>3. CASE c[1] = "rxBuf" /\ d[1] = "rxBuf"
    BY <1>1, <1>6, <1>9, <2>3, AlongInjective
  <2>4. QED BY <1>9, <2>1, <2>2, <2>3
<1>10. CASE c[1] \in {"todo", "rxFifo"} /\ d[1] \in {"todo", "rxFifo"} /\ Hops(c[2], l) = Hops(d[2], l)
  <2>1. CASE c[1] = "todo" /\ d[1] = "todo"
    BY <1>1, <1>7, <2>1
  <2>2. CASE c[1] # d[1]
    BY <1>1, <1>5, <1>7, <1>10, <2>2
  <2>3. CASE c[1] = "rxFifo" /\ d[1] = "rxFifo"
    BY <1>1, <1>5, <1>10, <2>3, AlongInjective
  <2>4. QED BY <1>10, <2>1, <2>2, <2>3
<1>11. QED BY <1>2, <1>4, <1>8, <1>9, <1>10

-----------------------------------------------------------------------------
(***************************************************************************)
(* The order of the letters of one source.                                 *)
(***************************************************************************)
\* The way of a letter depends on its address only.
LEMMA SameAddress ==
  ASSUME NEW a, NEW b, a.x = b.x, a.y = b.y
  PROVE  /\ \A c : Rank(c, a) = Rank(c, b)
         /\ \A c, s : OnPath(c, s, a) <=> OnPath(c, s, b)
         /\ \A n : Hops(n, a) = Hops(n, b)
         /\ IsUnicast(a) <=> IsUnicast(b)
<1>1. IsForBMC(a) <=> IsForBMC(b)
  BY DEF IsForBMC
<1>2. InGrid(a) <=> InGrid(b)
  BY DEF InGrid
<1>3. \A n : Hops(n, a) = Hops(n, b)
  BY DEF Hops
<1>4. \A c : Rank(c, a) = Rank(c, b)
  BY <1>3 DEF Rank
<1>5. \A n, p, s : Along(n, p, s, a) <=> Along(n, p, s, b)
  BY <1>1, <1>2 DEF Along
<1>6. \A c, s : OnPath(c, s, a) <=> OnPath(c, s, b)
  BY <1>5 DEF OnPath, Addressee
<1>7. QED BY <1>1, <1>2, <1>3, <1>4, <1>6 DEF IsUnicast

LEMMA SentLetters ==
  ASSUME PlainTraffic, NEW s \in Node, NEW k \in DOMAIN Workload[s]
  PROVE  /\ Letter(Workload[s][k]) \in LetterOf
         /\ IsUnicast(Letter(Workload[s][k]))
         /\ Letter(Workload[s][k]).id = Workload[s][k].id
         /\ Addressee(Letter(Workload[s][k])) = Addressee(Workload[s][k])
         /\ k \in Nat
<1>1. Workload[s] \in Seq(Message)
  BY LinkAssumption
<1>2. Workload[s][k] \in Message /\ k \in Nat
  BY <1>1
<1>3. IsUnicast(Workload[s][k])
  BY DEF PlainTraffic
<1>4. IsUnicast(Letter(Workload[s][k]))
  BY <1>2, <1>3 DEF IsUnicast, IsForBMC, InGrid, Letter, Message
<1>5. QED BY <1>2, <1>4 DEF Letter, LetterOf, Message, Addressee

\* Two letters with one identity come from one place in one workload.
LEMMA SameSource ==
  ASSUME PlainTraffic, NEW s \in Node, NEW k \in DOMAIN Workload[s],
         NEW r \in Node, NEW l \in DOMAIN Workload[r],
         Letter(Workload[s][k]) = Letter(Workload[r][l])
  PROVE  s = r /\ k = l
<1>1. Workload[s][k].id = Workload[r][l].id
  BY SentLetters
<1>2. QED BY <1>1 DEF PlainTraffic

LEMMA RankNat ==
  ASSUME NEW s \in Node, NEW l \in LetterOf, IsUnicast(l), NEW c \in Place, OnPath(c, s, l)
  PROVE  Rank(c, l) \in Nat
<1>1. c \in Local \X Node \X {"-"} \/ c \in Linky \X Node \X Port
  BY DEF Place
<1>2. c[2] \in Node /\ c[1] \in Local \cup Linky /\ (c[1] \in Linky => c[3] \in Port)
  BY <1>1 DEF Local, Linky
<1>3. c[1] \in {"slot", "wire"} => Hops(Peer(c[2], c[3]), l) \in Nat
  <2>1. c[1] \in {"slot", "wire"} => c[3] \in Port /\ Linked(c[2], c[3])
    BY <1>2 DEF OnPath, Linky
  <2>2. QED BY <1>2, <2>1, PeerNode, HopsTypes
<1>4. Hops(c[2], l) \in Nat
  BY <1>2, HopsTypes
<1>5. QED BY <1>2, <1>3, <1>4 DEF Rank, Local, Linky

\* A letter in a queue is on its way from the source whose letter it is.
LEMMA OnOwnPath ==
  ASSUME PlainTraffic, NEW Q, OnPaths(Q), NEW c \in Place, NEW i \in DOMAIN Q[c],
         NEW s \in Node, NEW k \in DOMAIN Workload[s], Q[c][i] = Letter(Workload[s][k])
  PROVE  /\ OnPath(c, s, Q[c][i])
         /\ Q[c][i] \in LetterOf /\ IsUnicast(Q[c][i]) /\ Rank(c, Q[c][i]) \in Nat
<1>1. PICK r \in Node : \E l \in DOMAIN Workload[r] :
        Q[c][i] = Letter(Workload[r][l]) /\ OnPath(c, r, Q[c][i])
  BY DEF OnPaths
<1>2. r = s
  BY <1>1, SameSource
<1>3. Q[c][i] \in LetterOf /\ IsUnicast(Q[c][i])
  BY SentLetters
<1>4. QED BY <1>1, <1>2, <1>3, RankNat

\* A step that takes a letter one move further along its way keeps the order.
LEMMA StepsOrdered ==
  ASSUME PlainTraffic,
         NEW Q \in QueueMap, NEW R \in QueueMap, NEW c \in Place, NEW d \in Place,
         Steps(Q, R, c, d), OnPaths(Q), Ordered(Q),
         c # d => Rank(c, Q[c][1]) = Rank(d, Q[c][1]) + 1,
         \A s \in Node : \A k \in DOMAIN Workload[s] :
           c # d /\ Q[c][1] = Letter(Workload[s][k]) /\ OnPath(c, s, Q[c][1])
             => OnPath(d, s, Q[c][1])
  PROVE  Ordered(R)
<1> SUFFICES ASSUME NEW s \in Node, NEW k \in DOMAIN Workload[s], NEW l \in DOMAIN Workload[s],
                    k < l, Addressee(Workload[s][k]) = Addressee(Workload[s][l]),
                    NEW e \in Place, NEW f \in Place, NEW i \in DOMAIN R[e], NEW j \in DOMAIN R[f],
                    R[e][i] = Letter(Workload[s][k]), R[f][j] = Letter(Workload[s][l])
             PROVE  Rank(e, R[e][i]) < Rank(f, R[f][j]) \/ (e = f /\ i < j)
  BY DEF Ordered
<1> DEFINE a == Letter(Workload[s][k])
           b == Letter(Workload[s][l])
<1>1. a \in LetterOf /\ b \in LetterOf /\ IsUnicast(a) /\ IsUnicast(b) /\ k \in Nat /\ l \in Nat
  BY SentLetters
<1>2. Addressee(a) = Addressee(b)
  BY SentLetters
<1>3. a.x = b.x /\ a.y = b.y
  BY <1>2 DEF Addressee
<1>4. (\A p : Rank(p, a) = Rank(p, b)) /\ \A p, r : OnPath(p, r, a) <=> OnPath(p, r, b)
  BY <1>3, SameAddress
<1>5. /\ i \in Nat /\ i # 0 /\ j \in Nat /\ j # 0 /\ 1 \in DOMAIN Q[c]
      /\ (Was(Q, R, c, e, i) \/ Arrived(Q, R, c, d, e, i))
      /\ (Was(Q, R, c, f, j) \/ Arrived(Q, R, c, d, f, j))
  BY DEF Steps
<1>6. ASSUME NEW x \in Place, NEW y \in Place, NEW m \in DOMAIN Q[x], NEW n \in DOMAIN Q[y],
             Q[x][m] = a, Q[y][n] = b
      PROVE  Rank(x, a) < Rank(y, b) \/ (x = y /\ m < n)
  BY <1>6 DEF Ordered
<1>7. ASSUME NEW x \in Place, NEW m \in DOMAIN Q[x], Q[x][m] = a
      PROVE  OnPath(x, s, a) /\ Rank(x, a) \in Nat
  BY <1>7, OnOwnPath
<1>8. ASSUME NEW x \in Place, NEW m \in DOMAIN Q[x], Q[x][m] = b
      PROVE  OnPath(x, s, b) /\ Rank(x, b) \in Nat
  BY <1>8, OnOwnPath
<1>9. ASSUME NEW x \in Place, NEW m \in Nat, Was(Q, R, c, x, m)
      PROVE  \E h \in DOMAIN Q[x] : R[x][m] = Q[x][h] /\ h = IF x = c THEN m + 1 ELSE m
  BY <1>9 DEF Was
<1> HIDE DEF a, b
<1>10. R[e][i] = a /\ R[f][j] = b
  BY DEF a, b
<1>11. CASE Was(Q, R, c, e, i) /\ Was(Q, R, c, f, j)
  <2>1. PICK m \in DOMAIN Q[e] : Q[e][m] = a /\ m = IF e = c THEN i + 1 ELSE i
    BY <1>5, <1>9, <1>10, <1>11
  <2>2. PICK n \in DOMAIN Q[f] : Q[f][n] = b /\ n = IF f = c THEN j + 1 ELSE j
    BY <1>5, <1>9, <1>10, <1>11
  <2>3. Rank(e, a) < Rank(f, b) \/ (e = f /\ m < n)
    BY <1>6, <2>1, <2>2
  <2>4. e = f /\ m < n => i < j
    BY <1>5, <2>1, <2>2
  <2>5. QED BY <1>10, <2>3, <2>4
<1>12. CASE Arrived(Q, R, c, d, e, i) /\ Was(Q, R, c, f, j)
  <2>1. c # d /\ e = d /\ Q[c][1] = a
    BY <1>10, <1>12 DEF Arrived
  <2>2. PICK n \in DOMAIN Q[f] : Q[f][n] = b
    BY <1>5, <1>9, <1>10, <1>12
  <2>3. Rank(c, a) < Rank(f, b) \/ (c = f /\ 1 < n)
    BY <1>5, <1>6, <2>1, <2>2
  <2>4. Rank(c, a) = Rank(d, a) + 1 /\ Rank(c, a) \in Nat /\ Rank(f, b) \in Nat
    BY <1>5, <1>7, <1>8, <2>1, <2>2
  <2>5. OnPath(d, s, a)
    BY <1>5, <1>7, <2>1 DEF a
  <2>6. Rank(d, a) \in Nat
    BY <1>1, <2>5, RankNat
  <2>7. Rank(c, a) = Rank(c, b)
    BY <1>4
  <2>8. QED BY <1>10, <2>1, <2>3, <2>4, <2>6, <2>7
<1>13. CASE Was(Q, R, c, e, i) /\ Arrived(Q, R, c, d, f, j)
  <2>1. c # d /\ f = d /\ Q[c][1] = b /\ j = Len(Q[d]) + 1
    BY <1>10, <1>13 DEF Arrived
  <2>2. PICK m \in DOMAIN Q[e] : Q[e][m] = a /\ m = IF e = c THEN i + 1 ELSE i
    BY <1>5, <1>9, <1>10, <1>13
  <2>3. m \in Nat /\ m # 0 /\ m <= Len(Q[e])
    BY <2>2 DEF Steps
  <2>4. Rank(e, a) < Rank(c, b)
    <3>1. Rank(e, a) < Rank(c, b) \/ (e = c /\ m < 1)
      BY <1>5, <1>6, <2>1, <2>2
    <3>2. QED BY <2>3, <3>1
  <2>5. OnPath(c, s, b) /\ Rank(c, b) \in Nat /\ OnPath(e, s, a) /\ Rank(e, a) \in Nat
    BY <1>5, <1>7, <1>8, <2>1, <2>2
  <2>6. OnPath(d, s, b) /\ Rank(c, b) = Rank(d, b) + 1
    BY <2>1, <2>5 DEF b
  <2>7. OnPath(d, s, a) /\ Rank(d, a) = Rank(d, b)
    BY <1>4, <2>6
  <2>8. Rank(d, b) \in Nat
    BY <1>1, <2>6, RankNat
  <2>9. Rank(e, a) < Rank(d, b) \/ Rank(e, a) = Rank(d, a)
    BY <2>4, <2>5, <2>6, <2>7, <2>8
  <2>10. Rank(e, a) = Rank(d, a) => e = d
    BY <1>1, <2>5, <2>7, RankInjective
  <2>11. e = d => i < j
    <3>1. e = d => m = i
      BY <2>1, <2>2
    <3>2. Len(Q[d]) \in Nat
      BY DEF QueueMap
    <3>3. QED BY <2>1, <2>3, <3>1, <3>2
  <2>12. QED BY <1>10, <2>1, <2>9, <2>10, <2>11
<1>14. CASE Arrived(Q, R, c, d, e, i) /\ Arrived(Q, R, c, d, f, j)
  <2>1. a = b
    BY <1>10, <1>14 DEF Arrived
  <2>2. k = l
    BY <2>1, SameSource DEF a, b
  <2>3. QED BY <1>1, <2>2
<1>15. QED BY <1>5, <1>11, <1>12, <1>13, <1>14

-----------------------------------------------------------------------------
(***************************************************************************)
(* Letters of a queue of messages.                                         *)
(***************************************************************************)
LEMMA LetterIn ==
  ASSUME NEW m \in Message
  PROVE  Letter(m) \in LetterOf
BY DEF Letter, LetterOf, Message

LEMMA LetterSeqIn ==
  ASSUME NEW q \in Seq(Message)
  PROVE  /\ LetterSeq(q) \in Seq(LetterOf)
         /\ Len(LetterSeq(q)) = Len(q)
         /\ DOMAIN LetterSeq(q) = 1 .. Len(q) /\ DOMAIN q = 1 .. Len(q) /\ Len(q) \in Nat
         /\ \A i \in 1 .. Len(q) : LetterSeq(q)[i] = Letter(q[i])
<1>1. DOMAIN q = 1 .. Len(q) /\ Len(q) \in Nat /\ \A i \in 1 .. Len(q) : q[i] \in Message
  BY LenProperties, ElementOfSeq
<1>2. LetterSeq(q) = [i \in 1 .. Len(q) |-> Letter(q[i])]
  BY <1>1 DEF LetterSeq
<1>3. LetterSeq(q) \in [1 .. Len(q) -> LetterOf]
  BY <1>1, <1>2, LetterIn
<1>4. LetterSeq(q) \in Seq(LetterOf)
  BY <1>1, <1>3, SeqDef
<1>5. Len(LetterSeq(q)) = Len(q)
  BY <1>1, <1>3, <1>4, LenProperties
<1>6. QED BY <1>1, <1>2, <1>4, <1>5

LEMMA LetterSeqHeadTail ==
  ASSUME NEW q \in Seq(Message), q # <<>>
  PROVE  /\ LetterSeq(q) # <<>>
         /\ Head(LetterSeq(q)) = Letter(Head(q))
         /\ LetterSeq(Tail(q)) = Tail(LetterSeq(q))
<1>1. /\ Tail(q) \in Seq(Message) /\ Len(Tail(q)) = Len(q) - 1 /\ Len(q) \in Nat \ {0}
      /\ \A i \in 1 .. Len(Tail(q)) : Tail(q)[i] = q[i + 1]
  BY HeadTailProperties, EmptySeq
<1>2. /\ LetterSeq(q) \in Seq(LetterOf) /\ Len(LetterSeq(q)) = Len(q)
      /\ \A i \in 1 .. Len(q) : LetterSeq(q)[i] = Letter(q[i])
  BY LetterSeqIn
<1>3. LetterSeq(q) # <<>>
  BY <1>1, <1>2
<1>4. /\ Tail(LetterSeq(q)) \in Seq(LetterOf) /\ Len(Tail(LetterSeq(q))) = Len(q) - 1
      /\ \A i \in 1 .. Len(q) - 1 : Tail(LetterSeq(q))[i] = LetterSeq(q)[i + 1]
  BY <1>2, <1>3, HeadTailProperties
<1>5. /\ LetterSeq(Tail(q)) \in Seq(LetterOf) /\ Len(LetterSeq(Tail(q))) = Len(q) - 1
      /\ \A i \in 1 .. Len(q) - 1 : LetterSeq(Tail(q))[i] = Letter(Tail(q)[i])
  BY <1>1, LetterSeqIn
<1>6. \A i \in 1 .. Len(q) - 1 : LetterSeq(Tail(q))[i] = Tail(LetterSeq(q))[i]
  BY <1>1, <1>2, <1>4, <1>5
<1>7. LetterSeq(Tail(q)) = Tail(LetterSeq(q))
  BY <1>4, <1>5, <1>6, SeqEqual
<1>8. Head(LetterSeq(q)) = Letter(Head(q))
  BY <1>1, <1>2
<1>9. QED BY <1>3, <1>7, <1>8

LEMMA LetterSeqAppend ==
  ASSUME NEW q \in Seq(Message), NEW m \in Message
  PROVE  LetterSeq(Append(q, m)) = Append(LetterSeq(q), Letter(m))
<1>1. /\ Append(q, m) \in Seq(Message) /\ Len(Append(q, m)) = Len(q) + 1 /\ Len(q) \in Nat
      /\ \A i \in 1 .. Len(q) : Append(q, m)[i] = q[i]
      /\ Append(q, m)[Len(q) + 1] = m
  OBVIOUS
<1>2. /\ LetterSeq(q) \in Seq(LetterOf) /\ Len(LetterSeq(q)) = Len(q)
      /\ \A i \in 1 .. Len(q) : LetterSeq(q)[i] = Letter(q[i])
  BY LetterSeqIn
<1>3. Letter(m) \in LetterOf
  BY LetterIn
<1>4. /\ Append(LetterSeq(q), Letter(m)) \in Seq(LetterOf)
      /\ Len(Append(LetterSeq(q), Letter(m))) = Len(q) + 1
      /\ \A i \in 1 .. Len(q) : Append(LetterSeq(q), Letter(m))[i] = LetterSeq(q)[i]
      /\ Append(LetterSeq(q), Letter(m))[Len(q) + 1] = Letter(m)
  BY <1>2, <1>3
<1>5. /\ LetterSeq(Append(q, m)) \in Seq(LetterOf) /\ Len(LetterSeq(Append(q, m))) = Len(q) + 1
      /\ \A i \in 1 .. Len(q) + 1 : LetterSeq(Append(q, m))[i] = Letter(Append(q, m)[i])
  BY <1>1, LetterSeqIn
<1>6. ASSUME NEW i \in 1 .. Len(q) + 1
      PROVE  LetterSeq(Append(q, m))[i] = Append(LetterSeq(q), Letter(m))[i]
  <2>1. CASE i \in 1 .. Len(q)
    BY <1>1, <1>2, <1>4, <1>5, <2>1
  <2>2. CASE i = Len(q) + 1
    BY <1>1, <1>4, <1>5, <2>2
  <2>3. i \in 1 .. Len(q) \/ i = Len(q) + 1
    BY <1>1
  <2>4. QED BY <2>1, <2>2, <2>3
<1>7. QED BY <1>4, <1>5, <1>6, SeqEqual

-----------------------------------------------------------------------------
(***************************************************************************)
(* From messages to letters: C and D are the contents of the places before *)
(* and after a step.                                                       *)
(***************************************************************************)
MovesMessage(C, D, c, d, m) ==
  /\ c # d /\ C[c] # <<>> /\ Letter(m) = Letter(Head(C[c]))
  /\ D[c] = Tail(C[c])
  /\ D[d] = Append(C[d], m)
  /\ \A e \in Place \ {c, d} : D[e] = C[e]

DropsMessage(C, D, c) ==
  /\ C[c] # <<>>
  /\ D[c] = Tail(C[c])
  /\ \A e \in Place \ {c} : D[e] = C[e]

LEMMA LettersInMap ==
  ASSUME NEW C \in [Place -> Seq(Message)]
  PROVE  LettersIn(C) \in QueueMap
BY LetterSeqIn DEF LettersIn, QueueMap

LEMMA MovesLetter ==
  ASSUME NEW C \in [Place -> Seq(Message)], NEW D \in [Place -> Seq(Message)],
         NEW c \in Place, NEW d \in Place, NEW m \in Message, MovesMessage(C, D, c, d, m)
  PROVE  Moves(LettersIn(C), LettersIn(D), c, d)
<1>1. C[c] \in Seq(Message) /\ C[d] \in Seq(Message) /\ C[c] # <<>> /\ c # d
  BY DEF MovesMessage
<1>2. /\ LettersIn(C)[c] = LetterSeq(C[c]) /\ LettersIn(C)[d] = LetterSeq(C[d])
      /\ LettersIn(D)[c] = LetterSeq(Tail(C[c]))
      /\ LettersIn(D)[d] = LetterSeq(Append(C[d], m))
  BY DEF LettersIn, MovesMessage
<1>3. LettersIn(C)[c] # <<>> /\ LettersIn(D)[c] = Tail(LettersIn(C)[c])
  BY <1>1, <1>2, LetterSeqHeadTail
<1>4. LettersIn(D)[d] = Append(LettersIn(C)[d], Letter(m))
  BY <1>1, <1>2, LetterSeqAppend
<1>5. Letter(m) = Head(LettersIn(C)[c])
  BY <1>1, <1>2, LetterSeqHeadTail DEF MovesMessage
<1>6. \A e \in Place \ {c, d} : LettersIn(D)[e] = LettersIn(C)[e]
  BY DEF LettersIn, MovesMessage
<1>7. DOMAIN LettersIn(C) = Place
  BY DEF LettersIn
<1>8. QED BY <1>1, <1>3, <1>4, <1>5, <1>6, <1>7 DEF Moves

LEMMA DropsLetter ==
  ASSUME NEW C \in [Place -> Seq(Message)], NEW D \in [Place -> Seq(Message)],
         NEW c \in Place, DropsMessage(C, D, c)
  PROVE  Drops(LettersIn(C), LettersIn(D), c)
<1>1. C[c] \in Seq(Message) /\ C[c] # <<>>
  BY DEF DropsMessage
<1>2. LettersIn(C)[c] = LetterSeq(C[c]) /\ LettersIn(D)[c] = LetterSeq(Tail(C[c]))
  BY DEF LettersIn, DropsMessage
<1>3. LettersIn(C)[c] # <<>> /\ LettersIn(D)[c] = Tail(LettersIn(C)[c])
  BY <1>1, <1>2, LetterSeqHeadTail
<1>4. \A e \in Place \ {c} : LettersIn(D)[e] = LettersIn(C)[e]
  BY DEF LettersIn, DropsMessage
<1>5. DOMAIN LettersIn(C) = Place
  BY DEF LettersIn
<1>6. QED BY <1>3, <1>4, <1>5 DEF Drops

-----------------------------------------------------------------------------
(***************************************************************************)
(* The moves of a letter along its way.                                    *)
(***************************************************************************)
Advances(c, d, l) ==
  /\ Rank(c, l) = Rank(d, l) + 1
  /\ \A s \in Node : OnPath(c, s, l) => OnPath(d, s, l)

\* The places of a node.
At(k, n)       == <<k, n, "-">>
OnPort(k, n, p) == <<k, n, p>>

LEMMA Places ==
  ASSUME NEW n \in Node
  PROVE  /\ \A k \in Local : At(k, n) \in Place /\ At(k, n)[1] = k /\ At(k, n)[2] = n
         /\ \A k \in Linky, p \in Port : /\ OnPort(k, n, p) \in Place /\ OnPort(k, n, p)[1] = k
                                         /\ OnPort(k, n, p)[2] = n /\ OnPort(k, n, p)[3] = p
BY DEF Place, At, OnPort

LEMMA EachPlace ==
  ASSUME NEW c \in Place
  PROVE  \/ \E n \in Node : \E k \in Local : c = At(k, n)
         \/ \E n \in Node : \E k \in Linky : \E p \in Port : c = OnPort(k, n, p)
BY DEF Place, At, OnPort

LEMMA XmitAdvances ==
  ASSUME NEW n \in Node, NEW l \in LetterOf, IsUnicast(l)
  PROVE  Advances(At("todo", n), At("txBuf", n), l)
<1>1. Hops(n, l) \in Nat
  BY HopsTypes
<1>2. PICK h \in Nat : h = Hops(n, l)
  BY <1>1
<1>3. Rank(At("todo", n), l) = 4 * h + 2 /\ Rank(At("txBuf", n), l) = 4 * h + 1
  BY <1>2 DEF Rank, At
<1>4. Rank(At("todo", n), l) = Rank(At("txBuf", n), l) + 1
  BY <1>3
<1>5. \A s \in Node : OnPath(At("todo", n), s, l) => OnPath(At("txBuf", n), s, l)
  BY DEF OnPath, At
<1>6. QED BY <1>4, <1>5 DEF Advances

LEMMA ReceiveAdvances ==
  ASSUME NEW n \in Node, NEW p \in Port, NEW l \in LetterOf, IsUnicast(l)
  PROVE  Advances(OnPort("rxFifo", n, p), At("rxBuf", n), l)
<1>1. Hops(n, l) \in Nat
  BY HopsTypes
<1>2. PICK h \in Nat : h = Hops(n, l)
  BY <1>1
<1>3. Rank(OnPort("rxFifo", n, p), l) = 4 * h + 2 /\ Rank(At("rxBuf", n), l) = 4 * h + 1
  BY <1>2 DEF Rank, At, OnPort
<1>4. Rank(OnPort("rxFifo", n, p), l) = Rank(At("rxBuf", n), l) + 1
  BY <1>3
<1>5. \A s : Along(n, p, s, l) => p \in {"X", "Y"}
  BY DEF Along
<1>6. \A s \in Node : OnPath(OnPort("rxFifo", n, p), s, l) => OnPath(At("rxBuf", n), s, l)
  BY <1>5 DEF OnPath, At, OnPort
<1>7. QED BY <1>4, <1>6 DEF Advances

LEMMA LinkAdvances ==
  ASSUME NEW n \in Node, NEW p \in Port, Linked(n, p), NEW l \in LetterOf, IsUnicast(l)
  PROVE  /\ Advances(OnPort("slot", n, p), OnPort("wire", n, p), l)
         /\ Advances(OnPort("wire", n, p), OnPort("rxFifo", Peer(n, p), p), l)
<1>1. Hops(Peer(n, p), l) \in Nat
  BY PeerNode, HopsTypes
<1>2. PICK h \in Nat : h = Hops(Peer(n, p), l)
  BY <1>1
<1>3. /\ Rank(OnPort("slot", n, p), l) = 4 * h + 4 /\ Rank(OnPort("wire", n, p), l) = 4 * h + 3
      /\ Rank(OnPort("rxFifo", Peer(n, p), p), l) = 4 * h + 2
  BY <1>2 DEF Rank, OnPort
<1>4. /\ Rank(OnPort("slot", n, p), l) = Rank(OnPort("wire", n, p), l) + 1
      /\ Rank(OnPort("wire", n, p), l) = Rank(OnPort("rxFifo", Peer(n, p), p), l) + 1
  BY <1>3
<1>5. \A s \in Node :
        /\ OnPath(OnPort("slot", n, p), s, l) => OnPath(OnPort("wire", n, p), s, l)
        /\ OnPath(OnPort("wire", n, p), s, l) => OnPath(OnPort("rxFifo", Peer(n, p), p), s, l)
  BY DEF OnPath, OnPort
<1>6. QED BY <1>4, <1>5 DEF Advances

\* chk_match compares the address only: a message goes where its letter goes.
LEMMA RouteOfLetter ==
  ASSUME NEW n, NEW m, NEW p \in {"X", "Y", "HERE"}, Route(n, m) = p, NEW l, l = Letter(m)
  PROVE  /\ ~IsBroadcast(l)
         /\ IsForBMC(l) =>
              CASE p = "Y" -> l.y # n[2]
                [] p = "X" -> l.y = n[2] /\ l.x # n[1]
                [] p = "HERE" -> l.y = n[2] /\ l.x = n[1]
         /\ ~IsForBMC(l) /\ InGrid(l) =>
              CASE p = "X" -> l.x # n[1]
                [] p = "Y" -> l.x = n[1] /\ l.y # n[2]
                [] p = "HERE" -> l.x = n[1] /\ l.y = n[2]
<1>1. l.x = m.x /\ l.y = m.y
  BY DEF Letter
<1>2. (IsForBMC(l) <=> IsForBMC(m)) /\ (InGrid(l) <=> InGrid(m)) /\ (IsBroadcast(l) <=> IsBroadcast(m))
  BY <1>1 DEF IsForBMC, InGrid, IsBroadcast
<1>3. CASE p = "X" BY <1>1, <1>2, <1>3 DEF Route
<1>4. CASE p = "Y" BY <1>1, <1>2, <1>4 DEF Route
<1>5. CASE p = "HERE" BY <1>1, <1>2, <1>5 DEF Route
<1>6. QED BY <1>3, <1>4, <1>5

\* A link that chk_match chooses leads along the way.
LEMMA RouteAlong ==
  ASSUME NEW n \in Node, NEW s \in Node, NEW m \in Message, NEW p \in {"X", "Y"},
         Route(n, m) = p, NEW l \in LetterOf, l = Letter(m), IsUnicast(l),
         n = s \/ \E q \in {"X", "Y"} : Along(n, q, s, l)
  PROVE  Along(Peer(n, p), p, s, l)
<1> USE GridAssumption
<1>0. /\ HopsX(n, l.x) \in Nat /\ HopsY(n, l.y) \in Nat
      /\ HopsX(s, l.x) \in Nat /\ HopsY(s, l.y) \in Nat
      /\ n[2] \in 1 .. Rows /\ s[2] \in 1 .. Rows
      /\ n[1] \in 1 .. Cols \/ (n[1] = 15 /\ n[2] = 1)
      /\ s[1] \in 1 .. Cols \/ (s[1] = 15 /\ s[2] = 1)
      /\ n = <<n[1], n[2]>> /\ s = <<s[1], s[2]>>
  BY HopsTypes, NodeParts
<1>1. CASE IsForBMC(l) /\ p = "X"
  <2>1. l.x = 15 /\ l.y = 1 /\ n[2] = 1 /\ n[1] # 15 /\ n[1] \in 1 .. Cols /\ ~InGrid(l)
    BY <1>0, <1>1, RouteOfLetter DEF IsForBMC, InGrid
  <2>2. Peer(n, p)[2] = 1 /\ PlaceX(Peer(n, p)[1]) = PlaceX(n[1]) + 1
    BY <1>0, <1>1, <2>1 DEF Peer, NextX, BMC, PlaceX
  <2>3. PlaceX(s[1]) <= PlaceX(n[1])
    <3>1. PlaceX(s[1]) \in Nat /\ PlaceX(n[1]) \in Nat
      BY <1>0 DEF PlaceX
    <3>2. CASE n = s
      BY <3>1, <3>2
    <3>3. CASE n # s
      BY <2>1, <3>1, <3>3 DEF Along
    <3>4. QED BY <3>2, <3>3
  <2>4. PlaceX(s[1]) < PlaceX(Peer(n, p)[1])
    BY <1>0, <2>2, <2>3 DEF PlaceX
  <2>5. QED BY <1>1, <2>1, <2>2, <2>4 DEF Along
<1>2. CASE IsForBMC(l) /\ p = "Y"
  <2>1. l.x = 15 /\ l.y = 1 /\ n[2] # 1 /\ n[1] \in 1 .. Cols /\ ~InGrid(l)
    BY <1>0, <1>2, RouteOfLetter DEF IsForBMC, InGrid
  <2>2. Peer(n, p)[1] = n[1] /\ HopsY(Peer(n, p), l.y) = HopsY(n, l.y) - 1
    BY <1>0, <1>2, <2>1 DEF Peer, NextY, HopsY
  <2>3. n[1] = s[1] /\ HopsY(n, l.y) <= HopsY(s, l.y)
    <3>1. CASE n = s
      BY <1>0, <3>1
    <3>2. CASE n # s
      BY <1>0, <2>1, <3>2 DEF Along
    <3>3. QED BY <3>1, <3>2
  <2>4. HopsY(Peer(n, p), l.y) < HopsY(s, l.y)
    BY <1>0, <2>2, <2>3
  <2>5. QED BY <1>2, <2>2, <2>3, <2>4 DEF Along
<1>3. CASE InGrid(l) /\ p = "X"
  <2>1. /\ l.x # n[1] /\ l.x \in 1 .. Cols /\ l.y \in 1 .. Rows /\ ~IsForBMC(l)
    BY <1>0, <1>3, RouteOfLetter DEF IsForBMC, InGrid
  <2>2. Peer(n, p)[2] = n[2] /\ HopsX(Peer(n, p), l.x) = HopsX(n, l.x) - 1
    <3>1. NextX(n)[2] = n[2]
      BY <1>0 DEF NextX, BMC
    <3>2. HopsX(NextX(n), l.x) = HopsX(n, l.x) - 1
      BY <1>0, <2>1, <3>1 DEF NextX, BMC, HopsX, PlaceX, RingX
    <3>3. QED BY <1>3, <3>1, <3>2 DEF Peer
  <2>3. n[2] = s[2] /\ HopsX(n, l.x) <= HopsX(s, l.x)
    <3>1. CASE n = s
      BY <1>0, <3>1
    <3>2. CASE n # s
      BY <1>0, <2>1, <3>2 DEF Along
    <3>3. QED BY <3>1, <3>2
  <2>4. HopsX(Peer(n, p), l.x) < HopsX(s, l.x)
    BY <1>0, <2>2, <2>3
  <2>5. QED BY <1>3, <2>2, <2>3, <2>4 DEF Along
<1>4. CASE InGrid(l) /\ p = "Y"
  <2>1. /\ l.x = n[1] /\ l.y # n[2] /\ l.x \in 1 .. Cols /\ l.y \in 1 .. Rows /\ ~IsForBMC(l)
    BY <1>0, <1>4, RouteOfLetter DEF IsForBMC, InGrid
  <2>2. Peer(n, p)[1] = n[1] /\ HopsY(Peer(n, p), l.y) = HopsY(n, l.y) - 1
    BY <1>0, <1>4, <2>1 DEF Peer, NextY, HopsY
  <2>3. HopsY(n, l.y) <= HopsY(s, l.y)
    <3>1. CASE n = s
      BY <1>0, <3>1
    <3>2. CASE n # s
      BY <1>0, <2>1, <3>2 DEF Along, HopsY
    <3>3. QED BY <3>1, <3>2
  <2>4. HopsY(Peer(n, p), l.y) < HopsY(s, l.y)
    BY <1>0, <2>2, <2>3
  <2>5. QED BY <1>4, <2>1, <2>2, <2>4 DEF Along
<1>5. QED BY <1>1, <1>2, <1>3, <1>4 DEF IsUnicast

LEMMA ForwardAdvances ==
  ASSUME NEW n \in Node, NEW m \in Message, NEW p \in {"X", "Y"}, Route(n, m) = p,
         NEW l \in LetterOf, l = Letter(m), IsUnicast(l), NEW k \in {"txBuf", "rxBuf"}
  PROVE  /\ Advances(At(k, n), OnPort("slot", n, p), l)
         /\ Linked(n, p)
<1>1. l.x = m.x /\ l.y = m.y
  BY DEF Letter
<1>2. IsUnicast(m) /\ \A a : Hops(a, l) = Hops(a, m)
  BY <1>1, SameAddress
<1>3. Linked(n, p) /\ Hops(n, l) \in Nat /\ Hops(Peer(n, p), l) = Hops(n, l) - 1
  BY <1>2, OneHopCloser
<1>4. PICK h \in Nat : h = Hops(n, l)
  BY <1>3
<1>5. Rank(At(k, n), l) = 4 * h + 1 /\ Rank(OnPort("slot", n, p), l) = 4 * (h - 1) + 4
  BY <1>3, <1>4 DEF Rank, At, OnPort
<1>6. Rank(At(k, n), l) = Rank(OnPort("slot", n, p), l) + 1
  BY <1>5
<1>7. ASSUME NEW s \in Node, OnPath(At(k, n), s, l)
      PROVE  OnPath(OnPort("slot", n, p), s, l)
  <2>1. n = s \/ \E q \in {"X", "Y"} : Along(n, q, s, l)
    BY <1>7 DEF OnPath, At
  <2>2. Along(Peer(n, p), p, s, l)
    BY <2>1, RouteAlong
  <2>3. QED BY <1>3, <2>2 DEF OnPath, OnPort
<1>8. QED BY <1>3, <1>6, <1>7 DEF Advances

LEMMA AcceptAdvances ==
  ASSUME NEW n \in Node, NEW m \in Message, Route(n, m) = "HERE",
         NEW l \in LetterOf, l = Letter(m), IsUnicast(l), NEW k \in {"txBuf", "rxBuf"}
  PROVE  Advances(At(k, n), At("recv", n), l)
<1>1. l.x = n[1] /\ l.y = n[2]
  BY RouteOfLetter DEF IsUnicast
<1>2. Addressee(l) = n
  BY <1>1, NodeParts DEF Addressee
<1>3. Hops(n, l) = 0
  BY <1>1, NodeParts, GridAssumption DEF Hops, HopsX, HopsY, PlaceX
<1>4. Rank(At(k, n), l) = 1 /\ Rank(At("recv", n), l) = 0
  BY <1>3 DEF Rank, At
<1>5. \A s : OnPath(At("recv", n), s, l)
  BY <1>2 DEF OnPath, At
<1>6. QED BY <1>4, <1>5 DEF Advances

-----------------------------------------------------------------------------
(***************************************************************************)
(* What a step of the grid does to the contents of the places.             *)
(***************************************************************************)
Carries(c, d) ==
  \/ c[1] = "todo" /\ d \in Flight
  \/ c \in Flight /\ d \in Flight
  \/ c \in Flight /\ d[1] = "recv"

\* The three ways to lose a message.
Overrun ==
  \/ \E n \in Node, p \in Port : Linked(n, p) /\ wire[n][p] # <<>> /\ Len(rxFifo[Peer(n, p)][p]) >= RxDepth
  \/ \E n \in Node : Matching(n) /\ Route(n, Buff(n)) = "HERE" /\ Len(fifo[n]) >= FifoDepth
  \/ \E n \in Node : Holding(n) /\ rxBuf[n].ttl = 0

QueueStep ==
  \/ Contents' = Contents
  \/ Overrun /\ \E c \in Flight : DropsMessage(Contents, Contents', c)
  \/ \E c, d \in Place : \E m \in Message :
       /\ Carries(c, d)
       /\ MovesMessage(Contents, Contents', c, d, m)
       /\ Advances(c, d, Letter(m))

ContentsAre ==
  \A n \in Node :
    /\ Contents[At("todo", n)]  = todo[n]
    /\ Contents[At("txBuf", n)] = IfAny(dpTx[n], txBuf[n])
    /\ Contents[At("rxBuf", n)] = IfAny(Holding(n), rxBuf[n])
    /\ Contents[At("recv", n)]  = Received(n)
    /\ \A p \in Port :
         /\ Contents[OnPort("slot", n, p)]   = IfAny(txSlot[n][p] # None, txSlot[n][p])
         /\ Contents[OnPort("wire", n, p)]   = wire[n][p]
         /\ Contents[OnPort("rxFifo", n, p)] = rxFifo[n][p]

LEMMA ContentsAt ==
  ASSUME NEW n \in Node
  PROVE  /\ \A k \in Local : /\ Contents[At(k, n)] = Content(k, n, "-")
                             /\ Contents'[At(k, n)] = Content(k, n, "-")'
         /\ \A k \in Linky, p \in Port : /\ Contents[OnPort(k, n, p)] = Content(k, n, p)
                                         /\ Contents'[OnPort(k, n, p)] = Content(k, n, p)'
<1>1. ASSUME NEW k \in Local
      PROVE  Contents[At(k, n)] = Content(k, n, "-") /\ Contents'[At(k, n)] = Content(k, n, "-")'
  <2>1. At(k, n) \in Place
    BY Places
  <2>2. QED BY <2>1 DEF Contents, At
<1>2. ASSUME NEW k \in Linky, NEW p \in Port
      PROVE  /\ Contents[OnPort(k, n, p)] = Content(k, n, p)
             /\ Contents'[OnPort(k, n, p)] = Content(k, n, p)'
  <2>1. OnPort(k, n, p) \in Place
    BY Places
  <2>2. QED BY <2>1 DEF Contents, OnPort
<1>3. QED BY <1>1, <1>2

LEMMA ContentsNow == ContentsAre
BY ContentsAt DEF ContentsAre, Content, Local, Linky

LEMMA ContentsThen ==
  \A n \in Node :
    /\ Contents'[At("todo", n)]  = todo'[n]
    /\ Contents'[At("txBuf", n)] = IF dpTx'[n] THEN <<txBuf'[n]>> ELSE <<>>
    /\ Contents'[At("rxBuf", n)] = IF Holding(n)' THEN <<rxBuf'[n]>> ELSE <<>>
    /\ Contents'[At("recv", n)]  = Received(n)'
    /\ \A p \in Port :
         /\ Contents'[OnPort("slot", n, p)] = IF txSlot'[n][p] # None THEN <<txSlot'[n][p]>> ELSE <<>>
         /\ Contents'[OnPort("wire", n, p)]   = wire'[n][p]
         /\ Contents'[OnPort("rxFifo", n, p)] = rxFifo'[n][p]
BY ContentsAt, ZenonT(60) DEF Content, Local, Linky, IfAny

LEMMA ContentsTypes ==
  ASSUME IInv
  PROVE  Contents \in [Place -> Seq(Message)]
<1> USE DEF IInv, TypeOK, RouterTypeOK
<1>1. ASSUME NEW n \in Node
      PROVE  /\ todo[n] \in Seq(Message)
             /\ IfAny(dpTx[n], txBuf[n]) \in Seq(Message)
             /\ IfAny(Holding(n), rxBuf[n]) \in Seq(Message)
             /\ Received(n) \in Seq(Message)
  <2>1. dpTx[n] => txBuf[n] \in Message
    BY DEF BuffersFilled
  <2>2. Holding(n) => rxBuf[n] \in Message
    BY DEF BuffersFilled
  <2>3. got[n] \o fifo[n] \in Seq(Message)
    BY ConcatProperties
  <2>4. todo[n] \in Seq(Message)
    OBVIOUS
  <2>5. QED BY <2>1, <2>2, <2>3, <2>4 DEF IfAny, Received
<1>2. ASSUME NEW n \in Node, NEW p \in Port
      PROVE  /\ IfAny(txSlot[n][p] # None, txSlot[n][p]) \in Seq(Message)
             /\ wire[n][p] \in Seq(Message)
             /\ rxFifo[n][p] \in Seq(Message)
  <2>1. txSlot[n][p] # None => txSlot[n][p] \in Message
    OBVIOUS
  <2>2. wire[n][p] \in Seq(Message) /\ rxFifo[n][p] \in Seq(Message)
    OBVIOUS
  <2>3. QED BY <2>1, <2>2 DEF IfAny
<1>3. ASSUME NEW c \in Place PROVE Content(c[1], c[2], c[3]) \in Seq(Message)
  <2>1. c \in Local \X Node \X {"-"} \/ c \in Linky \X Node \X Port
    BY DEF Place
  <2>2. CASE c \in Local \X Node \X {"-"}
    BY <1>1, <2>2 DEF Content, Local
  <2>3. CASE c \in Linky \X Node \X Port
    BY <1>2, <2>3 DEF Content, Linky
  <2>4. QED BY <2>1, <2>2, <2>3
<1>4. QED BY <1>3 DEF Contents

\* X are the places that a step changes.
Kept(X) ==
  \A n \in Node :
    /\ At("todo", n) \in X \/ todo'[n] = todo[n]
    /\ At("txBuf", n) \in X \/ (dpTx'[n] = dpTx[n] /\ txBuf'[n] = txBuf[n])
    /\ At("rxBuf", n) \in X \/ ((Holding(n)' <=> Holding(n)) /\ rxBuf'[n] = rxBuf[n])
                          \/ (~Holding(n) /\ ~Holding(n)')
    /\ At("recv", n) \in X \/ Received(n)' = Received(n)
    /\ \A p \in Port :
         /\ OnPort("slot", n, p) \in X \/ txSlot'[n][p] = txSlot[n][p]
         /\ OnPort("wire", n, p) \in X \/ wire'[n][p] = wire[n][p]
         /\ OnPort("rxFifo", n, p) \in X \/ rxFifo'[n][p] = rxFifo[n][p]

LEMMA KeptContents ==
  ASSUME NEW X, Kept(X)
  PROVE  \A e \in Place \ X : Contents'[e] = Contents[e]
<1> SUFFICES ASSUME NEW e \in Place, e \notin X PROVE Contents'[e] = Contents[e]
  OBVIOUS
<1>1. ASSUME NEW n \in Node, NEW k \in Local, e = At(k, n) PROVE Contents'[e] = Contents[e]
  <2>1. CASE k = "todo"
    <3>1. e = At("todo", n)
      BY <1>1, <2>1
    <3>2. todo'[n] = todo[n]
      BY <3>1 DEF Kept
    <3>3. Contents[e] = todo[n]
      BY <3>1, ContentsNow DEF ContentsAre, IfAny
    <3>4. Contents'[e] = todo'[n]
      BY <3>1, ContentsThen
    <3>5. QED BY <3>2, <3>3, <3>4
  <2>2. CASE k = "txBuf"
    <3>1. e = At("txBuf", n)
      BY <1>1, <2>2
    <3>2. dpTx'[n] = dpTx[n] /\ txBuf'[n] = txBuf[n]
      BY <3>1 DEF Kept
    <3>3. Contents[e] = IF dpTx[n] THEN <<txBuf[n]>> ELSE <<>>
      BY <3>1, ContentsNow DEF ContentsAre, IfAny
    <3>4. Contents'[e] = IF dpTx'[n] THEN <<txBuf'[n]>> ELSE <<>>
      BY <3>1, ContentsThen
    <3>5. QED BY <3>2, <3>3, <3>4
  <2>3. CASE k = "rxBuf"
    <3>1. e = At("rxBuf", n)
      BY <1>1, <2>3
    <3>2. ((Holding(n)' <=> Holding(n)) /\ rxBuf'[n] = rxBuf[n]) \/ (~Holding(n) /\ ~Holding(n)')
      BY <3>1 DEF Kept
    <3>3. Contents[e] = IF Holding(n) THEN <<rxBuf[n]>> ELSE <<>>
      BY <3>1, ContentsNow DEF ContentsAre, IfAny
    <3>4. Contents'[e] = IF Holding(n)' THEN <<rxBuf'[n]>> ELSE <<>>
      BY <3>1, ContentsThen
    <3>5. QED BY <3>2, <3>3, <3>4
  <2>4. CASE k = "recv"
    <3>1. e = At("recv", n)
      BY <1>1, <2>4
    <3>2. Received(n)' = Received(n)
      BY <3>1 DEF Kept
    <3>3. Contents[e] = Received(n)
      BY <3>1, ContentsNow DEF ContentsAre, IfAny
    <3>4. Contents'[e] = Received(n)'
      BY <3>1, ContentsThen
    <3>5. QED BY <3>2, <3>3, <3>4
  <2>5. QED BY <2>1, <2>2, <2>3, <2>4 DEF Local
<1>2. ASSUME NEW n \in Node, NEW k \in Linky, NEW p \in Port, e = OnPort(k, n, p)
      PROVE  Contents'[e] = Contents[e]
  <2>1. CASE k = "slot"
    <3>1. e = OnPort("slot", n, p)
      BY <1>2, <2>1
    <3>2. txSlot'[n][p] = txSlot[n][p]
      BY <3>1 DEF Kept
    <3>3. Contents[e] = IF txSlot[n][p] # None THEN <<txSlot[n][p]>> ELSE <<>>
      BY <3>1, ContentsNow DEF ContentsAre, IfAny
    <3>4. Contents'[e] = IF txSlot'[n][p] # None THEN <<txSlot'[n][p]>> ELSE <<>>
      BY <3>1, ContentsThen
    <3>5. QED BY <3>2, <3>3, <3>4
  <2>2. CASE k = "wire"
    <3>1. e = OnPort("wire", n, p)
      BY <1>2, <2>2
    <3>2. wire'[n][p] = wire[n][p]
      BY <3>1 DEF Kept
    <3>3. Contents[e] = wire[n][p]
      BY <3>1, ContentsNow DEF ContentsAre, IfAny
    <3>4. Contents'[e] = wire'[n][p]
      BY <3>1, ContentsThen
    <3>5. QED BY <3>2, <3>3, <3>4
  <2>3. CASE k = "rxFifo"
    <3>1. e = OnPort("rxFifo", n, p)
      BY <1>2, <2>3
    <3>2. rxFifo'[n][p] = rxFifo[n][p]
      BY <3>1 DEF Kept
    <3>3. Contents[e] = rxFifo[n][p]
      BY <3>1, ContentsNow DEF ContentsAre, IfAny
    <3>4. Contents'[e] = rxFifo'[n][p]
      BY <3>1, ContentsThen
    <3>5. QED BY <3>2, <3>3, <3>4
  <2>4. QED BY <2>1, <2>2, <2>3 DEF Linky
<1>3. QED BY <1>1, <1>2, EachPlace

LEMMA KeptAll ==
  ASSUME Kept({})
  PROVE  Contents' = Contents
<1>1. \A e \in Place : Contents'[e] = Contents[e]
  BY KeptContents
<1>2. Contents = [e \in Place |-> Contents[e]] /\ Contents' = [e \in Place |-> Contents'[e]]
  BY DEF Contents
<1>3. QED BY <1>1, <1>2

\* The message at the front of a place is a unicast on its way.
LEMMA Front ==
  ASSUME IInv, PlainTraffic, OnPaths(Queues), NEW c \in Place, Contents[c] # <<>>,
         NEW m, m = Head(Contents[c])
  PROVE  /\ m \in Message /\ Letter(m) \in LetterOf
         /\ IsUnicast(Letter(m)) /\ IsUnicast(m)
         /\ c[1] \in {"slot", "wire"} => Linked(c[2], c[3])
<1>1. Contents[c] \in Seq(Message)
  BY ContentsTypes
<1>2. m \in Message /\ Letter(m) \in LetterOf
  BY <1>1, HeadTailProperties, LetterIn
<1>3. /\ Queues[c] = LetterSeq(Contents[c]) /\ LetterSeq(Contents[c]) # <<>>
      /\ LetterSeq(Contents[c]) \in Seq(LetterOf)
      /\ Head(LetterSeq(Contents[c])) = Letter(m)
  BY <1>1, LetterSeqIn, LetterSeqHeadTail DEF Queues, LettersIn
<1>4. 1 \in DOMAIN Queues[c] /\ Queues[c][1] = Letter(m)
  BY <1>3
<1>5. PICK s \in Node : \E k \in DOMAIN Workload[s] :
        Letter(m) = Letter(Workload[s][k]) /\ OnPath(c, s, Letter(m))
  BY <1>4 DEF OnPaths
<1>6. IsUnicast(Letter(m))
  BY <1>5, SentLetters
<1>7. IsUnicast(m)
  BY <1>6 DEF IsUnicast, IsForBMC, InGrid, Letter
<1>8. c[1] \in {"slot", "wire"} => Linked(c[2], c[3])
  BY <1>5 DEF OnPath
<1>9. QED BY <1>2, <1>6, <1>7, <1>8

LEMMA FlightPlaces ==
  ASSUME NEW n \in Node
  PROVE  /\ At("txBuf", n) \in Flight /\ At("rxBuf", n) \in Flight
         /\ \A k \in Linky, p \in Port : OnPort(k, n, p) \in Flight
BY Places DEF Flight, Local, Linky

LEMMA XmitMoves ==
  ASSUME IInv, PlainTraffic, OnPaths(Queues), NEW n \in Node, Xmit(n)
  PROVE  QueueStep
<1> USE DEF IInv, TypeOK, RouterTypeOK
<1> DEFINE c == At("todo", n)
           d == At("txBuf", n)
           m == Head(todo[n])
<1>1. c \in Place /\ d \in Place /\ d \in Flight /\ c # d /\ c[1] = "todo"
  BY Places, FlightPlaces DEF At, Local
<1>2. /\ todo[n] # <<>> /\ ~dpTx[n] /\ todo'[n] = Tail(todo[n])
      /\ dpTx'[n] /\ txBuf'[n] = m
  BY DEF Xmit, WriteTxBuf
<1>3. /\ Contents[c] = todo[n] /\ Contents[d] = <<>>
      /\ Contents'[c] = Tail(Contents[c]) /\ Contents'[d] = <<m>>
  BY <1>2, ContentsNow, ContentsThen DEF ContentsAre, IfAny
<1>4. m \in Message /\ Letter(m) \in LetterOf /\ IsUnicast(Letter(m))
  BY <1>1, <1>2, <1>3, Front
<1>5. Contents'[d] = Append(Contents[d], m)
  BY <1>3, <1>4
<1>6. Kept({c, d})
  BY DEF Kept, Xmit, WriteTxBuf, At, OnPort, Holding, Received
<1>7. \A e \in Place \ {c, d} : Contents'[e] = Contents[e]
  BY <1>6, KeptContents
<1>8. MovesMessage(Contents, Contents', c, d, m)
  BY <1>1, <1>2, <1>3, <1>5, <1>7 DEF MovesMessage
<1>9. Advances(c, d, Letter(m))
  BY <1>4, XmitAdvances
<1>10. QED BY <1>1, <1>4, <1>8, <1>9 DEF QueueStep, Carries

LEMMA ReceiveMoves ==
  ASSUME IInv, PlainTraffic, OnPaths(Queues), NEW n \in Node, NEW p \in Port, Receive(n, p),
         UNCHANGED <<wire, todo, boards, got>>
  PROVE  QueueStep
<1> USE DEF IInv, TypeOK, RouterTypeOK
<1> DEFINE c == OnPort("rxFifo", n, p)
           d == At("rxBuf", n)
           m == Head(rxFifo[n][p])
<1>1. c \in Place /\ d \in Place /\ c \in Flight /\ d \in Flight /\ c # d
  BY Places, FlightPlaces DEF At, OnPort, Local, Linky
<1>2. /\ rxFifo[n][p] # <<>> /\ rxFifo'[n][p] = Tail(rxFifo[n][p])
      /\ rxBuf'[n] = m /\ ~Holding(n) /\ Holding(n)'
  BY PortStates DEF Receive, BuffersFilled, Holding, Goto, Port
<1>3. /\ Contents[c] = rxFifo[n][p] /\ Contents[d] = <<>>
      /\ Contents'[c] = Tail(Contents[c]) /\ Contents'[d] = <<m>>
  BY <1>2, ContentsNow, ContentsThen, ZenonT(60) DEF ContentsAre, IfAny
<1>4. m \in Message /\ Letter(m) \in LetterOf /\ IsUnicast(Letter(m))
  BY <1>1, <1>2, <1>3, Front
<1>5. Contents'[d] = Append(Contents[d], m)
  BY <1>3, <1>4
<1>6. Kept({c, d})
  BY DEF Kept, Receive, Goto, At, OnPort, Holding, Received
<1>7. \A e \in Place \ {c, d} : Contents'[e] = Contents[e]
  BY <1>6, KeptContents
<1>8. MovesMessage(Contents, Contents', c, d, m)
  BY <1>1, <1>2, <1>3, <1>5, <1>7 DEF MovesMessage
<1>9. Advances(c, d, Letter(m))
  BY <1>4, ReceiveAdvances
<1>10. QED BY <1>1, <1>4, <1>8, <1>9 DEF QueueStep, Carries

LEMMA LoadMoves ==
  ASSUME IInv, PlainTraffic, OnPaths(Queues), NEW n \in Node, NEW p \in Port, Load(n, p)
  PROVE  QueueStep
<1> USE DEF IInv, TypeOK, RouterTypeOK
<1> DEFINE c == OnPort("slot", n, p)
           d == OnPort("wire", n, p)
           m == txSlot[n][p]
<1>1. c \in Place /\ d \in Place /\ c \in Flight /\ d \in Flight /\ c # d
      /\ c[1] = "slot" /\ c[2] = n /\ c[3] = p
  BY Places, FlightPlaces DEF OnPort, Linky
<1>2. txSlot[n][p] # None /\ txSlot'[n][p] = None /\ wire'[n][p] = Append(wire[n][p], m)
  BY DEF Load
<1>3. /\ Contents[c] = <<m>> /\ Contents[d] = wire[n][p]
      /\ Contents'[c] = <<>> /\ Contents'[d] = Append(Contents[d], m)
  BY <1>2, ContentsNow, ContentsThen DEF ContentsAre, IfAny
<1>4. m = Head(Contents[c]) /\ Contents[c] # <<>>
  BY <1>3
<1>5. m \in Message /\ Letter(m) \in LetterOf /\ IsUnicast(Letter(m)) /\ Linked(n, p)
  BY <1>1, <1>4, Front
<1>6. Contents'[c] = Tail(Contents[c])
  BY <1>3, <1>5
<1>7. Kept({c, d})
  BY DEF Kept, Load, At, OnPort, Holding, Received
<1>8. \A e \in Place \ {c, d} : Contents'[e] = Contents[e]
  BY <1>7, KeptContents
<1>9. MovesMessage(Contents, Contents', c, d, m)
  BY <1>1, <1>3, <1>4, <1>6, <1>8 DEF MovesMessage
<1>10. Advances(c, d, Letter(m))
  BY <1>5, LinkAdvances
<1>11. QED BY <1>1, <1>5, <1>9, <1>10 DEF QueueStep, Carries

LEMMA ArriveMoves ==
  ASSUME IInv, PlainTraffic, OnPaths(Queues), NEW n \in Node, NEW p \in Port, Arrive(n, p)
  PROVE  QueueStep
<1> USE DEF IInv, TypeOK, RouterTypeOK
<1> DEFINE k == Peer(n, p)
           c == OnPort("wire", n, p)
           d == OnPort("rxFifo", k, p)
           m == Head(wire[n][p])
<1>1. c \in Place /\ c \in Flight /\ c[1] = "wire" /\ c[2] = n /\ c[3] = p
  BY Places, FlightPlaces DEF Linky
<1>2. wire[n][p] # <<>> /\ wire'[n][p] = Tail(wire[n][p])
  BY DEF Arrive
<1>3. Contents[c] = wire[n][p] /\ Contents'[c] = Tail(Contents[c])
  BY <1>2, ContentsNow, ContentsThen DEF ContentsAre
<1>4. m \in Message /\ Letter(m) \in LetterOf /\ IsUnicast(Letter(m)) /\ Linked(n, p)
  BY <1>1, <1>2, <1>3, Front
<1>5. k \in Node
  BY <1>4, PeerNode
<1>6. d \in Place /\ d \in Flight /\ c # d
  BY <1>5, Places, FlightPlaces DEF OnPort, Linky
<1>7. rxFifo' = [rxFifo EXCEPT ![k][p] = Buffered(@, m)]
  BY <1>4 DEF Arrive
<1>8. rxFifo'[k][p] = Buffered(rxFifo[k][p], m)
  BY <1>5, <1>7
<1>9. Contents[d] = rxFifo[k][p] /\ Contents'[d] = rxFifo'[k][p]
  BY <1>5, ContentsNow, ContentsThen DEF ContentsAre
<1>10. \A e \in Place \ {c, d} : Contents'[e] = Contents[e]
  <2> HIDE DEF k
  <2>1. ASSUME NEW a \in Node, NEW q \in Port, OnPort("rxFifo", a, q) # d
        PROVE  rxFifo'[a][q] = rxFifo[a][q]
    <3>1. a # k \/ q # p
      BY <2>1
    <3>2. QED BY <1>5, <1>7, <3>1
  <2>2. ASSUME NEW a \in Node, NEW q \in Port, OnPort("wire", a, q) # c
        PROVE  wire'[a][q] = wire[a][q]
    <3>1. a # n \/ q # p
      BY <2>2
    <3>2. QED BY <3>1 DEF Arrive
  <2>3. UNCHANGED <<state, rxBuf, txBuf, dpTx, fifo, txSlot, todo, got>>
    BY DEF Arrive
  <2>4. Kept({c, d})
    BY <2>1, <2>2, <2>3 DEF Kept, Holding, Received
  <2>5. QED BY <2>4, KeptContents
<1>11. CASE Len(rxFifo[k][p]) < RxDepth
  <2>1. Contents'[d] = Append(Contents[d], m)
    BY <1>8, <1>9, <1>11 DEF Buffered
  <2>2. MovesMessage(Contents, Contents', c, d, m)
    BY <1>2, <1>3, <1>6, <1>10, <2>1 DEF MovesMessage
  <2>3. Advances(c, d, Letter(m))
    BY <1>4, LinkAdvances
  <2>4. QED BY <1>1, <1>4, <1>6, <2>2, <2>3 DEF QueueStep, Carries
<1>12. CASE ~(Len(rxFifo[k][p]) < RxDepth)
  <2>1. Contents'[d] = Contents[d]
    BY <1>8, <1>9, <1>12 DEF Buffered
  <2>2. \A e \in Place \ {c} : Contents'[e] = Contents[e]
    BY <1>10, <2>1
  <2>3. DropsMessage(Contents, Contents', c)
    BY <1>2, <1>3, <2>2 DEF DropsMessage
  <2>4. Len(rxFifo[k][p]) >= RxDepth
    BY <1>5, <1>12, LinkAssumption
  <2>5. Overrun
    BY <1>2, <1>4, <2>4 DEF Overrun
  <2>6. QED BY <1>1, <2>3, <2>5 DEF QueueStep
<1>13. QED BY <1>11, <1>12

\* The message that chk_match looks at.
LEMMA Matched ==
  ASSUME IInv, PlainTraffic, OnPaths(Queues), NEW n \in Node, Matching(n)
  PROVE  /\ Buff(n) \in Message /\ Letter(Buff(n)) \in LetterOf
         /\ IsUnicast(Letter(Buff(n))) /\ IsUnicast(Buff(n))
         /\ \E k \in {"txBuf", "rxBuf"} :
              /\ Contents[At(k, n)] = <<Buff(n)>>
              /\ k = "txBuf" <=> state[n] = "CHK_MATCHT"
              /\ k = "rxBuf" <=> Holding(n)
<1> DEFINE k == IF state[n] = "CHK_MATCHT" THEN "txBuf" ELSE "rxBuf"
<1>1. (state[n] = "CHK_MATCHT" => dpTx[n]) /\ (state[n] = "CHK_MATCHT" <=> ~Holding(n))
  BY DEF Matching, Holding, IInv, BuffersFilled
<1>2. Contents[At(k, n)] = <<Buff(n)>>
  BY <1>1, ContentsNow DEF ContentsAre, IfAny, Buff
<1>3. k \in {"txBuf", "rxBuf"} /\ At(k, n) \in Place
  BY Places DEF Local
<1>4. Buff(n) \in Message
  BY BuffMessage DEF IInv
<1>5. Contents[At(k, n)] # <<>> /\ Head(Contents[At(k, n)]) = Buff(n)
  BY <1>2, <1>4
<1>6. Letter(Buff(n)) \in LetterOf /\ IsUnicast(Letter(Buff(n))) /\ IsUnicast(Buff(n))
  BY <1>3, <1>5, Front
<1>7. (k = "txBuf" <=> state[n] = "CHK_MATCHT") /\ (k = "rxBuf" <=> Holding(n))
  BY <1>1
<1>8. QED BY <1>2, <1>3, <1>4, <1>6, <1>7

\* rsttx and the next state give the buffer up.
LEMMA GivenUp ==
  ASSUME IInv, NEW n \in Node, Matching(n), ResetTx(n), NEW s, Goto(n, s),
         s \notin {"CHK_MATCHX", "CHK_MATCHY", "CHK_MATCHZ"},
         UNCHANGED <<rxBuf, txBuf>>, NEW k \in {"txBuf", "rxBuf"},
         k = "txBuf" <=> state[n] = "CHK_MATCHT", k = "rxBuf" <=> Holding(n)
  PROVE  /\ Contents'[At(k, n)] = <<>>
         /\ \A a \in Node :
              /\ At("txBuf", a) = At(k, n) \/ (dpTx'[a] = dpTx[a] /\ txBuf'[a] = txBuf[a])
              /\ \/ At("rxBuf", a) = At(k, n)
                 \/ (Holding(a)' <=> Holding(a)) /\ rxBuf'[a] = rxBuf[a]
                 \/ ~Holding(a) /\ ~Holding(a)'
<1> USE DEF IInv, TypeOK, RouterTypeOK
<1>1. state'[n] = s /\ ~Holding(n)' /\ \A a \in Node \ {n} : state'[a] = state[a]
  BY DEF Goto, Holding
<1>2. dpTx'[n] = (dpTx[n] /\ state[n] # "CHK_MATCHT") /\ \A a \in Node \ {n} : dpTx'[a] = dpTx[a]
  BY DEF ResetTx
<1>3. Contents'[At(k, n)] = <<>>
  <2>1. CASE k = "txBuf"
    <3>1. ~dpTx'[n]
      BY <1>2, <2>1
    <3>2. Contents'[At("txBuf", n)] = <<>>
      BY <3>1, ContentsThen
    <3>3. QED BY <2>1, <3>2
  <2>2. CASE k = "rxBuf"
    <3>1. Contents'[At("rxBuf", n)] = <<>>
      BY <1>1, ContentsThen
    <3>2. QED BY <2>2, <3>1
  <2>3. QED BY <2>1, <2>2
<1>4. ASSUME NEW a \in Node, At("txBuf", a) # At(k, n)
      PROVE  dpTx'[a] = dpTx[a] /\ txBuf'[a] = txBuf[a]
  <2>1. a # n \/ k # "txBuf"
    BY <1>4
  <2>2. CASE a # n
    BY <1>2, <2>2
  <2>3. CASE a = n
    <3>1. state[n] # "CHK_MATCHT" /\ dpTx[n] \in BOOLEAN
      BY <2>1, <2>3
    <3>2. QED BY <1>2, <2>3, <3>1
  <2>4. QED BY <2>2, <2>3
<1>5. ASSUME NEW a \in Node, At("rxBuf", a) # At(k, n)
      PROVE  \/ (Holding(a)' <=> Holding(a)) /\ rxBuf'[a] = rxBuf[a]
             \/ ~Holding(a) /\ ~Holding(a)'
  <2>1. a # n \/ k # "rxBuf"
    BY <1>5
  <2>2. CASE a # n
    BY <1>1, <2>2 DEF Holding
  <2>3. CASE a = n
    BY <1>1, <2>1, <2>3
  <2>4. QED BY <2>2, <2>3
<1>6. QED BY <1>3, <1>4, <1>5

LEMMA ForwardMoves ==
  ASSUME IInv, PlainTraffic, OnPaths(Queues), NEW n \in Node, NEW p \in {"X", "Y"}, Forward(n, p),
         UNCHANGED <<wire, todo, boards, got>>
  PROVE  QueueStep
<1> USE DEF IInv, TypeOK, RouterTypeOK
<1> DEFINE m == Buff(n)
           d == OnPort("slot", n, p)
<1>1. Matching(n) /\ Route(n, m) = p /\ txSlot[n][p] = None /\ ResetTx(n) /\ p \in Port
  BY DEF Forward, Port
<1>2. /\ m \in Message /\ Letter(m) \in LetterOf /\ IsUnicast(Letter(m))
      /\ \E k \in {"txBuf", "rxBuf"} :
           /\ Contents[At(k, n)] = <<m>>
           /\ k = "txBuf" <=> state[n] = "CHK_MATCHT"
           /\ k = "rxBuf" <=> Holding(n)
  BY <1>1, Matched
<1>3. PICK k \in {"txBuf", "rxBuf"} :
           /\ Contents[At(k, n)] = <<m>>
           /\ k = "txBuf" <=> state[n] = "CHK_MATCHT"
           /\ k = "rxBuf" <=> Holding(n)
  BY <1>2
<1> DEFINE c == At(k, n)
<1>4. c \in Place /\ d \in Place /\ c \in Flight /\ d \in Flight /\ c # d
  BY <1>1, Places, FlightPlaces DEF At, OnPort, Local, Linky
<1>5. /\ Aged(m) \in Message /\ Aged(m).id = m.id /\ Aged(m).x = m.x /\ Aged(m).y = m.y
  BY <1>1, <1>2, RouteCases, AgedMessage
<1>6. Letter(Aged(m)) = Letter(m)
  BY <1>5 DEF Letter
<1>7. NackTx[p] \notin {"CHK_MATCHX", "CHK_MATCHY", "CHK_MATCHZ"}
  BY PortStates
<1>8. Goto(n, NackTx[p]) /\ UNCHANGED <<rxBuf, txBuf>>
  BY DEF Forward
<1>9. /\ Contents'[c] = <<>>
      /\ \A a \in Node :
              /\ At("txBuf", a) = c \/ (dpTx'[a] = dpTx[a] /\ txBuf'[a] = txBuf[a])
              /\ \/ At("rxBuf", a) = c
                 \/ (Holding(a)' <=> Holding(a)) /\ rxBuf'[a] = rxBuf[a]
                 \/ ~Holding(a) /\ ~Holding(a)'
  BY <1>1, <1>3, <1>7, <1>8, GivenUp
<1>10. txSlot' = [txSlot EXCEPT ![n][p] = Aged(m)] /\ Aged(m) # None
  BY <1>5, GridAssumption DEF Forward
<1>11. Contents[d] = <<>> /\ Contents'[d] = <<Aged(m)>>
  <2>1. txSlot'[n][p] = Aged(m)
    BY <1>1, <1>10
  <2>2. Contents'[d] = IF txSlot'[n][p] # None THEN <<txSlot'[n][p]>> ELSE <<>>
    BY <1>1, ContentsThen
  <2>3. Contents[d] = <<>>
    BY <1>1, ContentsNow DEF ContentsAre, IfAny
  <2>4. QED BY <1>10, <2>1, <2>2, <2>3
<1>12. Contents'[d] = Append(Contents[d], Aged(m)) /\ Contents'[c] = Tail(Contents[c])
       /\ Contents[c] # <<>> /\ Head(Contents[c]) = m
  BY <1>2, <1>3, <1>5, <1>9, <1>11
<1>13. Kept({c, d})
  <2>1. snoop[n] = FALSE
    BY DEF BuffersFilled, PlainTraffic
  <2>2. fifo' = fifo
    BY <2>1 DEF Forward
  <2>3. UNCHANGED <<wire, todo, got, rxFifo, fifo>>
    BY <2>2 DEF Forward
  <2>4. ASSUME NEW a \in Node, NEW q \in Port, OnPort("slot", a, q) # d
        PROVE  txSlot'[a][q] = txSlot[a][q]
    <3>1. a # n \/ q # p
      BY <2>4
    <3>2. QED BY <1>10, <3>1
  <2>5. QED BY <1>9, <2>3, <2>4 DEF Kept, Received
<1>14. \A e \in Place \ {c, d} : Contents'[e] = Contents[e]
  BY <1>13, KeptContents
<1>15. MovesMessage(Contents, Contents', c, d, Aged(m))
  BY <1>4, <1>6, <1>12, <1>14 DEF MovesMessage
<1>16. Advances(c, d, Letter(Aged(m)))
  BY <1>1, <1>2, <1>6, ForwardAdvances
<1>17. QED BY <1>4, <1>5, <1>15, <1>16 DEF QueueStep, Carries

LEMMA AppendedLater ==
  ASSUME NEW S, NEW q \in Seq(S), NEW r \in Seq(S), NEW m \in S
  PROVE  q \o Append(r, m) = Append(q \o r, m)
<1>1. /\ q \o r \in Seq(S) /\ Len(q \o r) = Len(q) + Len(r)
      /\ \A i \in 1 .. Len(q) + Len(r) : (q \o r)[i] = IF i <= Len(q) THEN q[i] ELSE r[i - Len(q)]
  BY ConcatProperties
<1>2. /\ Append(r, m) \in Seq(S) /\ Len(Append(r, m)) = Len(r) + 1
      /\ Len(q) \in Nat /\ Len(r) \in Nat
      /\ \A i \in 1 .. Len(r) : Append(r, m)[i] = r[i]
      /\ Append(r, m)[Len(r) + 1] = m
  OBVIOUS
<1>3. /\ q \o Append(r, m) \in Seq(S) /\ Len(q \o Append(r, m)) = Len(q) + (Len(r) + 1)
      /\ \A i \in 1 .. Len(q) + (Len(r) + 1) :
           (q \o Append(r, m))[i] = IF i <= Len(q) THEN q[i] ELSE Append(r, m)[i - Len(q)]
  BY <1>2, ConcatProperties
<1>4. /\ Append(q \o r, m) \in Seq(S) /\ Len(Append(q \o r, m)) = Len(q) + Len(r) + 1
      /\ \A i \in 1 .. Len(q) + Len(r) : Append(q \o r, m)[i] = (q \o r)[i]
      /\ Append(q \o r, m)[Len(q) + Len(r) + 1] = m
  BY <1>1
<1>5. ASSUME NEW i \in 1 .. Len(q) + Len(r) + 1
      PROVE  (q \o Append(r, m))[i] = Append(q \o r, m)[i]
  <2>1. CASE i <= Len(q)
    BY <1>1, <1>2, <1>3, <1>4, <2>1
  <2>2. CASE i > Len(q) /\ i <= Len(q) + Len(r)
    <3>1. i - Len(q) \in 1 .. Len(r) /\ i \in 1 .. Len(q) + Len(r)
      BY <1>2, <2>2
    <3>2. (q \o Append(r, m))[i] = r[i - Len(q)]
      BY <1>2, <1>3, <2>2, <3>1
    <3>3. QED BY <1>1, <1>2, <1>4, <2>2, <3>1, <3>2
  <2>3. CASE i = Len(q) + Len(r) + 1
    <3>1. i - Len(q) = Len(r) + 1 /\ ~(i <= Len(q))
      BY <1>2, <2>3
    <3>2. QED BY <1>2, <1>3, <1>4, <2>3, <3>1
  <2>4. QED BY <1>2, <2>1, <2>2, <2>3
<1>6. QED BY <1>2, <1>3, <1>4, <1>5, SeqEqual

LEMMA AcceptMoves ==
  ASSUME IInv, PlainTraffic, OnPaths(Queues), NEW n \in Node, Accept(n),
         UNCHANGED <<wire, todo, boards, got>>
  PROVE  QueueStep
<1> USE DEF IInv, TypeOK, RouterTypeOK
<1> DEFINE m == Buff(n)
           d == At("recv", n)
<1>1. Matching(n) /\ Route(n, m) = "HERE" /\ ResetTx(n) /\ Goto(n, "IDLE")
      /\ UNCHANGED <<rxBuf, txBuf>> /\ fifo' = [fifo EXCEPT ![n] = Stored(@, m)]
  BY DEF Accept
<1>2. /\ m \in Message /\ Letter(m) \in LetterOf /\ IsUnicast(Letter(m))
      /\ \E k \in {"txBuf", "rxBuf"} :
           /\ Contents[At(k, n)] = <<m>>
           /\ k = "txBuf" <=> state[n] = "CHK_MATCHT"
           /\ k = "rxBuf" <=> Holding(n)
  BY <1>1, Matched
<1>3. PICK k \in {"txBuf", "rxBuf"} :
           /\ Contents[At(k, n)] = <<m>>
           /\ k = "txBuf" <=> state[n] = "CHK_MATCHT"
           /\ k = "rxBuf" <=> Holding(n)
  BY <1>2
<1> DEFINE c == At(k, n)
<1>4. c \in Place /\ d \in Place /\ c \in Flight /\ d[1] = "recv" /\ c # d
  BY Places, FlightPlaces DEF At, Local
<1>5. /\ Contents'[c] = <<>>
      /\ \A a \in Node :
              /\ At("txBuf", a) = c \/ (dpTx'[a] = dpTx[a] /\ txBuf'[a] = txBuf[a])
              /\ \/ At("rxBuf", a) = c
                 \/ (Holding(a)' <=> Holding(a)) /\ rxBuf'[a] = rxBuf[a]
                 \/ ~Holding(a) /\ ~Holding(a)'
  BY <1>1, <1>3, GivenUp
<1>6. Contents'[c] = Tail(Contents[c]) /\ Contents[c] # <<>> /\ Head(Contents[c]) = m
  BY <1>2, <1>3, <1>5
<1>7. \A e \in Place \ {c, d} : Contents'[e] = Contents[e]
  <2>1. UNCHANGED <<wire, todo, got, rxFifo, txSlot>> /\ \A a \in Node \ {n} : fifo'[a] = fifo[a]
    BY DEF Accept
  <2>2. \A a \in Node \ {n} : Received(a)' = Received(a)
    BY <2>1 DEF Received
  <2>3. Kept({c, d})
    BY <1>5, <2>1, <2>2 DEF Kept
  <2>4. QED BY <2>3, KeptContents
<1>8. /\ Contents[d] = Received(n) /\ Contents'[d] = Received(n)'
      /\ fifo'[n] = Stored(fifo[n], m)
  BY <1>1, ContentsNow, ContentsThen DEF ContentsAre
<1>9. CASE Len(fifo[n]) < FifoDepth
  <2>1. Received(n)' = got[n] \o Append(fifo[n], m)
    BY <1>8, <1>9 DEF Received, Stored
  <2>2. got[n] \o Append(fifo[n], m) = Append(got[n] \o fifo[n], m)
    <3>1. got[n] \in Seq(Message) /\ fifo[n] \in Seq(Message)
      OBVIOUS
    <3>2. QED BY <1>2, <3>1, AppendedLater
  <2>3. Contents'[d] = Append(Contents[d], m)
    BY <1>8, <2>1, <2>2 DEF Received
  <2>4. MovesMessage(Contents, Contents', c, d, m)
    BY <1>4, <1>6, <1>7, <2>3 DEF MovesMessage
  <2>5. Advances(c, d, Letter(m))
    BY <1>1, <1>2, AcceptAdvances
  <2>6. QED BY <1>2, <1>4, <2>4, <2>5 DEF QueueStep, Carries
<1>10. CASE ~(Len(fifo[n]) < FifoDepth)
  <2>1. Contents'[d] = Contents[d]
    BY <1>8, <1>10 DEF Stored, Received, Accept
  <2>2. \A e \in Place \ {c} : Contents'[e] = Contents[e]
    BY <1>7, <2>1
  <2>3. DropsMessage(Contents, Contents', c)
    BY <1>6, <2>2 DEF DropsMessage
  <2>4. Len(fifo[n]) >= FifoDepth
    BY <1>10, GridAssumption
  <2>5. Overrun
    BY <1>1, <2>4 DEF Overrun
  <2>6. QED BY <1>4, <2>3, <2>5 DEF QueueStep
<1>11. QED BY <1>9, <1>10

LEMMA TakenEarlier ==
  ASSUME NEW S, NEW q \in Seq(S), NEW r \in Seq(S), r # <<>>
  PROVE  Append(q, Head(r)) \o Tail(r) = q \o r
<1>1. /\ q \o r \in Seq(S) /\ Len(q \o r) = Len(q) + Len(r)
      /\ \A i \in 1 .. Len(q) + Len(r) : (q \o r)[i] = IF i <= Len(q) THEN q[i] ELSE r[i - Len(q)]
  BY ConcatProperties
<1>2. /\ Head(r) \in S /\ Head(r) = r[1] /\ Len(q) \in Nat /\ Len(r) \in Nat \ {0}
      /\ Tail(r) \in Seq(S) /\ Len(Tail(r)) = Len(r) - 1
      /\ \A i \in 1 .. Len(r) - 1 : Tail(r)[i] = r[i + 1]
  BY HeadTailProperties, EmptySeq
<1>3. /\ Append(q, Head(r)) \in Seq(S) /\ Len(Append(q, Head(r))) = Len(q) + 1
      /\ \A i \in 1 .. Len(q) : Append(q, Head(r))[i] = q[i]
      /\ Append(q, Head(r))[Len(q) + 1] = r[1]
  BY <1>2
<1> DEFINE t == Append(q, Head(r)) \o Tail(r)
<1>4. /\ t \in Seq(S) /\ Len(t) = Len(Append(q, Head(r))) + Len(Tail(r))
      /\ \A i \in 1 .. Len(Append(q, Head(r))) + Len(Tail(r)) :
           t[i] = IF i <= Len(Append(q, Head(r))) THEN Append(q, Head(r))[i]
                  ELSE Tail(r)[i - Len(Append(q, Head(r)))]
  BY <1>2, <1>3, ConcatProperties
<1> HIDE DEF t
<1>5. /\ Len(t) = Len(q) + Len(r)
      /\ \A i \in 1 .. Len(q) + Len(r) :
           t[i] = IF i <= Len(q) + 1 THEN Append(q, Head(r))[i] ELSE Tail(r)[i - (Len(q) + 1)]
  BY <1>2, <1>3, <1>4
<1>6. ASSUME NEW i \in 1 .. Len(q) + Len(r) PROVE t[i] = (q \o r)[i]
  <2>1. CASE i <= Len(q)
    BY <1>1, <1>2, <1>3, <1>5, <2>1
  <2>2. CASE i = Len(q) + 1
    <3>1. t[i] = r[1]
      BY <1>2, <1>3, <1>5, <2>2
    <3>2. ~(i <= Len(q)) /\ i - Len(q) = 1
      BY <1>2, <2>2
    <3>3. QED BY <1>1, <3>1, <3>2
  <2>3. CASE i > Len(q) + 1
    <3>1. i - (Len(q) + 1) \in 1 .. Len(r) - 1 /\ ~(i <= Len(q)) /\ ~(i <= Len(q) + 1)
      BY <1>2, <2>3
    <3>2. (i - (Len(q) + 1)) + 1 = i - Len(q)
      BY <1>2
    <3>3. t[i] = r[i - Len(q)]
      BY <1>2, <1>5, <3>1, <3>2
    <3>4. QED BY <1>1, <3>1, <3>3
  <2>4. QED BY <1>2, <2>1, <2>2, <2>3
<1>7. t = q \o r
  BY <1>1, <1>2, <1>4, <1>5, <1>6, SeqEqual
<1>8. QED BY <1>7 DEF t

\* What software reads from the fifo it has received before.
LEMMA RxCtlKeeps ==
  ASSUME IInv, NEW n \in Node, NEW snp \in BOOLEAN, NEW pop \in BOOLEAN, RxCtl(n, snp, pop)
  PROVE  QueueStep
<1> USE DEF IInv, TypeOK, RouterTypeOK
<1>1. got[n] \in Seq(Message) /\ fifo[n] \in Seq(Message)
  OBVIOUS
<1>2. Received(n)' = Received(n)
  <2>1. CASE pop /\ fifo[n] # <<>>
    <3>1. got'[n] = Append(got[n], Head(fifo[n])) /\ fifo'[n] = Tail(fifo[n])
      BY <2>1 DEF RxCtl, WriteRxCtl
    <3>2. QED BY <1>1, <2>1, <3>1, TakenEarlier DEF Received
  <2>2. CASE ~(pop /\ fifo[n] # <<>>)
    <3>1. got'[n] = got[n] /\ fifo'[n] = fifo[n]
      BY <2>2 DEF RxCtl, WriteRxCtl
    <3>2. QED BY <3>1 DEF Received
  <2>3. QED BY <2>1, <2>2
<1>3. ASSUME NEW a \in Node PROVE Received(a)' = Received(a)
  <2>1. CASE a = n
    BY <1>2, <2>1
  <2>2. CASE a # n
    BY <2>2 DEF Received, RxCtl, WriteRxCtl
  <2>3. QED BY <2>1, <2>2
<1>4. UNCHANGED <<state, rxBuf, txBuf, dpTx, rxFifo, txSlot, wire, todo>>
  BY DEF RxCtl, WriteRxCtl
<1>5. Kept({})
  BY <1>3, <1>4 DEF Kept, Holding
<1>6. QED BY <1>5, KeptAll DEF QueueStep

LEMMA IdleKeeps ==
  ASSUME IInv, NEW n \in Node, Idle(n) \/ EndTx(n), UNCHANGED <<wire, todo, boards, got>>
  PROVE  QueueStep
<1> USE DEF IInv, TypeOK, RouterTypeOK
<1>1. ~Holding(n) /\ ~Holding(n)'
  <2>1. CASE Idle(n)
    BY <2>1, PickStates DEF Idle, Goto, Holding
  <2>2. CASE EndTx(n)
    BY <2>2, AfterNackStates DEF EndTx, Goto, Holding
  <2>3. QED BY <2>1, <2>2
<1>2. /\ \A a \in Node \ {n} : state'[a] = state[a]
      /\ UNCHANGED <<rxBuf, txBuf, dpTx, fifo, rxFifo, txSlot, wire, todo, got>>
  BY DEF Idle, EndTx, Goto
<1>3. Kept({})
  BY <1>1, <1>2 DEF Kept, Holding, Received
<1>4. QED BY <1>3, KeptAll DEF QueueStep

\* A message that dies in rxBuf is lost; one that dies in txBuf stays there.
LEMMA ExpireDrops ==
  ASSUME IInv, PlainTraffic, OnPaths(Queues), NEW n \in Node, Expire(n),
         UNCHANGED <<wire, todo, boards, got>>
  PROVE  QueueStep
<1> USE DEF IInv, TypeOK, RouterTypeOK
<1>1. /\ UNCHANGED <<rxBuf, txBuf, dpTx, fifo, rxFifo, txSlot, wire, todo, got>>
      /\ \A a \in Node \ {n} : state'[a] = state[a]
      /\ state'[n] = "IDLE" /\ Matching(n)
  BY DEF Expire, Goto
<1>2. ~Holding(n)'
  BY <1>1 DEF Holding
<1>3. CASE state[n] = "CHK_MATCHT"
  <2>1. ~Holding(n)
    BY <1>3 DEF Holding
  <2>2. Kept({})
    BY <1>1, <1>2, <2>1 DEF Kept, Holding, Received
  <2>3. QED BY <2>2, KeptAll DEF QueueStep
<1>4. CASE state[n] # "CHK_MATCHT"
  <2> DEFINE c == At("rxBuf", n)
  <2>1. Holding(n)
    BY <1>1, <1>4 DEF Holding, Matching
  <2>2. Contents[c] = <<rxBuf[n]>> /\ Contents'[c] = <<>> /\ rxBuf[n] \in Message
    BY <1>2, <2>1, ContentsNow, ContentsThen DEF ContentsAre, IfAny, BuffersFilled
  <2>3. Contents[c] # <<>> /\ Contents'[c] = Tail(Contents[c])
    BY <2>2
  <2>4. Kept({c})
    BY <1>1 DEF Kept, Holding, Received
  <2>5. \A e \in Place \ {c} : Contents'[e] = Contents[e]
    BY <2>4, KeptContents
  <2>6. DropsMessage(Contents, Contents', c) /\ c \in Flight
    BY <2>3, <2>5, FlightPlaces DEF DropsMessage
  <2>7. rxBuf[n].ttl = 0
    BY <1>4 DEF Expire, Route, Buff, IsBroadcast, IsForBMC, InGrid
  <2>8. Overrun
    BY <2>1, <2>7 DEF Overrun
  <2>9. QED BY <2>6, <2>8 DEF QueueStep
<1>5. QED BY <1>3, <1>4

LEMMA NextQueueStep ==
  ASSUME IInv, PlainTraffic, QueueInv, [Next]_gridVars
  PROVE  QueueStep /\ NoBroadcasts'
<1> USE DEF IInv, TypeOK, RouterTypeOK
<1>0. OnPaths(Queues) /\ NoBroadcasts
  BY DEF QueueInv
<1>1. ASSUME NEW n \in Node, Matching(n)
      PROVE  Route(n, Buff(n)) \notin {"ALL", "ILLEGAL"}
  <2>1. Buff(n) \in Message /\ IsUnicast(Buff(n))
    BY <1>0, <1>1, Matched
  <2>2. ~IsBroadcast(Buff(n))
    BY <2>1, BroadcastNowhere
  <2>3. QED BY <2>1, <2>2 DEF Route, IsUnicast
<1>2. ASSUME NEW n \in Node, Router(n) PROVE QueueStep /\ NoBroadcasts'
  <2>1. RouterStep(n) /\ UNCHANGED <<wire, todo, boards, got>>
    BY <1>2 DEF Router
  <2>2. ~Discard(n) /\ ~Broadcast(n)
    BY <1>1 DEF Discard, Broadcast
  <2>3. ASSUME NEW p \in Port PROVE ~Flood(n, p)
    BY <1>0, PortStates DEF Flood, NoBroadcasts, Flooding, Port
  <2>4. ASSUME NEW s \in States \ Flooding, Goto(n, s) PROVE NoBroadcasts'
    BY <1>0, <2>1, <2>4 DEF Goto, NoBroadcasts, Flooding
  <2>5. CASE Idle(n)
    <3>1. Pick(n) \in States \ Flooding /\ Goto(n, Pick(n))
      BY <2>5, PickStates DEF Idle, States, Flooding
    <3>2. QED BY <2>1, <2>4, <2>5, <3>1, IdleKeeps
  <2>6. CASE EndTx(n)
    <3>1. AfterNack[state[n]] \in States \ Flooding
      <4>1. state[n] \in {"NACKTXX", "NACKTXY", "NACKTXZ"}
        BY <1>0, <2>6, AfterNackStates DEF EndTx, NoBroadcasts, Flooding
      <4>2. QED BY <4>1, AfterNackStates DEF States, Flooding
    <3>2. Goto(n, AfterNack[state[n]])
      BY <2>6 DEF EndTx
    <3>3. QED BY <2>1, <2>4, <2>6, <3>1, <3>2, IdleKeeps
  <2>7. ASSUME NEW p \in Port, Receive(n, p) PROVE QueueStep /\ NoBroadcasts'
    <3>1. ChkMatch[p] \in States \ Flooding /\ Goto(n, ChkMatch[p])
      BY <2>7, PortStates DEF Receive, Port, States, Flooding
    <3>2. QED BY <1>0, <2>1, <2>4, <2>7, <3>1, ReceiveMoves
  <2>8. ASSUME NEW p \in {"X", "Y"}, Forward(n, p) PROVE QueueStep /\ NoBroadcasts'
    <3>1. NackTx[p] \in States \ Flooding /\ Goto(n, NackTx[p])
      BY <2>8, PortStates DEF Forward, Port, States, Flooding
    <3>2. QED BY <1>0, <2>1, <2>4, <2>8, <3>1, ForwardMoves
  <2>9. "IDLE" \in States \ Flooding
    BY DEF States, Flooding
  <2>10. CASE Accept(n)
    <3>1. Goto(n, "IDLE")
      BY <2>10 DEF Accept
    <3>2. QED BY <1>0, <2>1, <2>4, <2>9, <2>10, <3>1, AcceptMoves
  <2>11. CASE Expire(n)
    <3>1. Goto(n, "IDLE")
      BY <2>11 DEF Expire
    <3>2. QED BY <1>0, <2>1, <2>4, <2>9, <2>11, <3>1, ExpireDrops
  <2>12. QED BY <2>1, <2>2, <2>3, <2>5, <2>6, <2>7, <2>8, <2>10, <2>11 DEF RouterStep
<1>3. ASSUME UNCHANGED <<state, boards>> PROVE NoBroadcasts'
  BY <1>0, <1>3 DEF NoBroadcasts
<1>4. ASSUME NEW n \in Node, Xmit(n) PROVE QueueStep /\ NoBroadcasts'
  <2>1. UNCHANGED <<state, boards>>
    BY <1>4 DEF Xmit, WriteTxBuf
  <2>2. QED BY <1>0, <1>3, <1>4, <2>1, XmitMoves
<1>5. ASSUME NEW n \in Node, NEW snp \in BOOLEAN, NEW pop \in BOOLEAN, RxCtl(n, snp, pop)
      PROVE  QueueStep /\ NoBroadcasts'
  <2>1. UNCHANGED <<state, boards>>
    BY <1>5 DEF RxCtl, WriteRxCtl
  <2>2. QED BY <1>3, <1>5, <2>1, RxCtlKeeps
<1>6. ASSUME NEW n \in Node, NEW p \in Port, Load(n, p) PROVE QueueStep /\ NoBroadcasts'
  <2>1. UNCHANGED <<state, boards>>
    BY <1>6 DEF Load
  <2>2. QED BY <1>0, <1>3, <1>6, <2>1, LoadMoves
<1>7. ASSUME NEW n \in Node, NEW p \in Port, Arrive(n, p) PROVE QueueStep /\ NoBroadcasts'
  <2>1. UNCHANGED <<state, boards>>
    BY <1>7 DEF Arrive
  <2>2. QED BY <1>0, <1>3, <1>7, <2>1, ArriveMoves
<1>8. \A n \in Node, p \in Port : ~MisSync(n, p) /\ ~FloatingRx(n, p)
  BY DEF MisSync, FloatingRx, PlainTraffic
<1>9. \A n \in Node : ~BoardRx(n)
  BY <1>0 DEF BoardRx, NoBroadcasts
<1>10. CASE UNCHANGED gridVars
  <2>1. Kept({})
    BY <1>10 DEF gridVars, Kept, Holding, Received
  <2>2. QED BY <1>3, <1>10, <2>1, KeptAll DEF QueueStep, gridVars
<1>11. CASE Next
  BY <1>2, <1>4, <1>5, <1>6, <1>7, <1>8, <1>9, <1>11 DEF Next
<1>12. QED BY <1>10, <1>11

-----------------------------------------------------------------------------
(***************************************************************************)
(* The invariant of the queues.                                            *)
(***************************************************************************)
LEMMA PrimedQueues ==
  /\ Unique(Queues)' <=> Unique(Queues')
  /\ OnPaths(Queues)' <=> OnPaths(Queues')
  /\ Ordered(Queues)' <=> Ordered(Queues')
<1>1. Unique(Queues)' <=> Unique(Queues')
  BY DEF Unique
<1>2. OnPaths(Queues)' <=> OnPaths(Queues')
  BY DEF OnPaths
<1>3. Ordered(Queues)' <=> Ordered(Queues')
  BY DEF Ordered
<1>4. QED BY <1>1, <1>2, <1>3

ContentsTyped == Contents \in [Place -> Seq(Message)]

\* What a step does to the letters.
LEMMA LetterStep ==
  ASSUME ContentsTyped, ContentsTyped', QueueStep
  PROVE  /\ Queues \in QueueMap /\ Queues' \in QueueMap
         /\ \/ Queues' = Queues
            \/ Overrun /\ \E c \in Flight : Drops(Queues, Queues', c)
            \/ \E c, d \in Place : /\ Carries(c, d)
                                   /\ Moves(Queues, Queues', c, d)
                                   /\ Advances(c, d, Queues[c][1])
<1>1. Contents \in [Place -> Seq(Message)]
  BY DEF ContentsTyped
<1>2. Contents' \in [Place -> Seq(Message)]
  BY DEF ContentsTyped
<1>3. Queues = LettersIn(Contents) /\ Queues' = LettersIn(Contents')
  BY DEF Queues
<1>4. Queues \in QueueMap /\ Queues' \in QueueMap
  BY <1>1, <1>2, <1>3, LettersInMap
<1>5. CASE Contents' = Contents
  BY <1>3, <1>4, <1>5
<1>6. ASSUME NEW c \in Flight, DropsMessage(Contents, Contents', c)
      PROVE  Drops(Queues, Queues', c)
  <2>1. c \in Place
    BY DEF Flight
  <2>2. QED BY <1>1, <1>2, <1>3, <1>6, <2>1, DropsLetter
<1>7. ASSUME NEW c \in Place, NEW d \in Place, NEW m \in Message,
             MovesMessage(Contents, Contents', c, d, m), Advances(c, d, Letter(m))
      PROVE  Moves(Queues, Queues', c, d) /\ Advances(c, d, Queues[c][1])
  <2>1. Moves(Queues, Queues', c, d)
    BY <1>1, <1>2, <1>3, <1>7, MovesLetter
  <2>2. Contents[c] \in Seq(Message) /\ Contents[c] # <<>> /\ Letter(m) = Letter(Head(Contents[c]))
    BY <1>1, <1>7 DEF MovesMessage
  <2>3. Queues[c] = LetterSeq(Contents[c])
    BY <1>3 DEF LettersIn
  <2>4. Queues[c] \in Seq(LetterOf) /\ Queues[c] # <<>> /\ Head(Queues[c]) = Letter(m)
    BY <2>2, <2>3, LetterSeqIn, LetterSeqHeadTail
  <2>5. Queues[c][1] = Letter(m)
    BY <2>4
  <2>6. QED BY <1>7, <2>1, <2>5
<1>8. QED BY <1>4, <1>5, <1>6, <1>7 DEF QueueStep

LEMMA NextQueueInv ==
  ASSUME IInv, ContentsTyped, ContentsTyped', PlainTraffic, QueueInv, [Next]_gridVars
  PROVE  QueueInv'
<1> DEFINE Q == Queues
           R == Queues'
<1>1. QueueStep /\ NoBroadcasts'
  BY NextQueueStep
<1>2. /\ Q \in QueueMap /\ R \in QueueMap
      /\ \/ R = Q
         \/ \E c \in Flight : Drops(Q, R, c)
         \/ \E c, d \in Place : Carries(c, d) /\ Moves(Q, R, c, d) /\ Advances(c, d, Q[c][1])
  BY <1>1, LetterStep
<1>3. Unique(Q) /\ OnPaths(Q) /\ Ordered(Q)
  BY DEF QueueInv
<1>4. Unique(R) /\ OnPaths(R) /\ Ordered(R) => QueueInv'
  BY <1>1, PrimedQueues DEF QueueInv
<1> HIDE DEF Q, R
<1>5. CASE R = Q
  BY <1>3, <1>4, <1>5
<1>6. ASSUME NEW c \in Flight, Drops(Q, R, c) PROVE QueueInv'
  <2>1. c \in Place /\ Steps(Q, R, c, c)
    BY <1>2, <1>6, DropSteps DEF Flight
  <2>2. Unique(R)
    BY <1>2, <1>3, <2>1, StepsUnique
  <2>3. OnPaths(R)
    BY <1>2, <1>3, <2>1, StepsOnPath
  <2>4. Ordered(R)
    BY <1>2, <1>3, <2>1, StepsOrdered
  <2>5. QED BY <1>4, <2>2, <2>3, <2>4
<1>7. ASSUME NEW c \in Place, NEW d \in Place, Moves(Q, R, c, d), Advances(c, d, Q[c][1])
      PROVE  QueueInv'
  <2>1. Steps(Q, R, c, d)
    BY <1>2, <1>7, MoveSteps
  <2>2. /\ Rank(c, Q[c][1]) = Rank(d, Q[c][1]) + 1
        /\ \A s \in Node : OnPath(c, s, Q[c][1]) => OnPath(d, s, Q[c][1])
    BY <1>7 DEF Advances
  <2>3. Unique(R)
    BY <1>2, <1>3, <2>1, StepsUnique
  <2>4. OnPaths(R)
    BY <1>2, <1>3, <2>1, <2>2, StepsOnPath
  <2>5. Ordered(R)
    BY <1>2, <1>3, <2>1, <2>2, StepsOrdered
  <2>6. QED BY <1>4, <2>3, <2>4, <2>5
<1>8. QED BY <1>2, <1>5, <1>6, <1>7

LEMMA InitQueueInv ==
  ASSUME PlainTraffic, Init
  PROVE  QueueInv
<1>1. IInv
  BY InitIInv
<1>2. /\ \A n \in Node : /\ Contents[At("todo", n)] = Workload[n]
                         /\ Contents[At("txBuf", n)] = <<>>
                         /\ Contents[At("rxBuf", n)] = <<>>
                         /\ Contents[At("recv", n)] = <<>>
      /\ \A n \in Node, p \in Port : /\ Contents[OnPort("slot", n, p)] = <<>>
                                     /\ Contents[OnPort("wire", n, p)] = <<>>
                                     /\ Contents[OnPort("rxFifo", n, p)] = <<>>
  <2>1. \A n \in Node : Received(n) = <<>>
    <3>1. <<>> \o <<>> = <<>>
      BY EmptySeq, ConcatEmptySeq
    <3>2. QED BY <3>1 DEF Init, RouterInit, Received
  <2>2. QED BY <2>1, ContentsNow DEF ContentsAre, IfAny, Init, RouterInit, Holding
<1>3. \A c \in Place : Contents[c] # <<>> =>
        \E n \in Node : c = At("todo", n) /\ Contents[c] = Workload[n]
  BY <1>2, EachPlace DEF Local, Linky
<1>4. ASSUME NEW c \in Place, NEW i \in DOMAIN Queues[c]
      PROVE  \E n \in Node : /\ c = At("todo", n) /\ i \in DOMAIN Workload[n]
                             /\ Queues[c][i] = Letter(Workload[n][i])
  <2>1. Contents[c] \in Seq(Message) /\ Queues[c] = LetterSeq(Contents[c])
    BY <1>1, ContentsTypes DEF Queues, LettersIn
  <2>2. /\ DOMAIN Queues[c] = 1 .. Len(Contents[c]) /\ DOMAIN Contents[c] = 1 .. Len(Contents[c])
        /\ \A j \in 1 .. Len(Contents[c]) : Queues[c][j] = Letter(Contents[c][j])
    BY <2>1, LetterSeqIn
  <2>3. Contents[c] # <<>>
    BY <2>2
  <2>4. PICK n \in Node : c = At("todo", n) /\ Contents[c] = Workload[n]
    BY <1>3, <2>3
  <2>5. QED BY <2>2, <2>4
<1>5. NoBroadcasts
  BY DEF NoBroadcasts, Init, RouterInit, Flooding, PlainTraffic
<1>6. Unique(Queues)
  <2> SUFFICES ASSUME NEW c \in Place, NEW d \in Place, NEW i \in DOMAIN Queues[c],
                      NEW j \in DOMAIN Queues[d], Queues[c][i].id = Queues[d][j].id
               PROVE  c = d /\ i = j
    BY DEF Unique
  <2>1. PICK n \in Node : c = At("todo", n) /\ i \in DOMAIN Workload[n] /\ Queues[c][i] = Letter(Workload[n][i])
    BY <1>4
  <2>2. PICK s \in Node : d = At("todo", s) /\ j \in DOMAIN Workload[s] /\ Queues[d][j] = Letter(Workload[s][j])
    BY <1>4
  <2>3. Workload[n][i].id = Workload[s][j].id
    BY <2>1, <2>2, SentLetters
  <2>4. n = s /\ i = j
    BY <2>1, <2>2, <2>3 DEF PlainTraffic
  <2>5. QED BY <2>1, <2>2, <2>4
<1>7. OnPaths(Queues)
  <2> SUFFICES ASSUME NEW c \in Place, NEW i \in DOMAIN Queues[c]
               PROVE  \E s \in Node : \E k \in DOMAIN Workload[s] :
                        Queues[c][i] = Letter(Workload[s][k]) /\ OnPath(c, s, Queues[c][i])
    BY DEF OnPaths
  <2>1. PICK n \in Node : c = At("todo", n) /\ i \in DOMAIN Workload[n] /\ Queues[c][i] = Letter(Workload[n][i])
    BY <1>4
  <2>2. OnPath(c, n, Queues[c][i])
    BY <2>1 DEF OnPath, At
  <2>3. QED BY <2>1, <2>2
<1>8. Ordered(Queues)
  <2> SUFFICES ASSUME NEW s \in Node, NEW k \in DOMAIN Workload[s], NEW l \in DOMAIN Workload[s], k < l,
                      NEW c \in Place, NEW d \in Place,
                      NEW i \in DOMAIN Queues[c], NEW j \in DOMAIN Queues[d],
                      Queues[c][i] = Letter(Workload[s][k]), Queues[d][j] = Letter(Workload[s][l])
               PROVE  c = d /\ i < j
    BY DEF Ordered
  <2>1. PICK n \in Node : c = At("todo", n) /\ i \in DOMAIN Workload[n] /\ Queues[c][i] = Letter(Workload[n][i])
    BY <1>4
  <2>2. PICK r \in Node : d = At("todo", r) /\ j \in DOMAIN Workload[r] /\ Queues[d][j] = Letter(Workload[r][j])
    BY <1>4
  <2>3. n = s /\ i = k
    BY <2>1, SameSource
  <2>4. r = s /\ j = l
    BY <2>2, SameSource
  <2>5. QED BY <2>1, <2>2, <2>3, <2>4
<1>9. QED BY <1>5, <1>6, <1>7, <1>8 DEF QueueInv

\* Wherever letters are, there is one of each, it is on its way from its source to
\* its destination, and letters of one source for one node are in order.
THEOREM QueuesHold ==
  ASSUME PlainTraffic
  PROVE  Spec => []QueueInv
<1>1. Init => QueueInv
  BY InitQueueInv
<1>2. IInv => ContentsTyped
  BY ContentsTypes DEF ContentsTyped
<1>3. IInv /\ ContentsTyped /\ ContentsTyped' /\ QueueInv /\ [Next]_gridVars => QueueInv'
  BY NextQueueInv
<1>4. QED BY <1>1, <1>2, <1>3, Consistent, PTL DEF Spec

\* Nothing is received twice or out of order.
LEMMA QueuesInOrder ==
  ASSUME PlainTraffic, ContentsTyped, QueueInv
  PROVE  InOrderOnce
<1> SUFFICES ASSUME NEW n \in Node, NEW s \in Node,
                    NEW i \in DOMAIN Received(n), NEW j \in DOMAIN Received(n),
                    NEW k \in DOMAIN Workload[s], NEW l \in DOMAIN Workload[s],
                    i < j, Workload[s][k].id = Received(n)[i].id,
                    Workload[s][l].id = Received(n)[j].id
             PROVE  k < l
  BY DEF InOrderOnce
<1> DEFINE c == At("recv", n)
<1>1. c \in Place /\ Contents[c] = Received(n)
  BY Places, ContentsNow DEF ContentsAre, Local
<1>2. Received(n) \in Seq(Message)
  BY <1>1 DEF ContentsTyped
<1>3. /\ i \in DOMAIN Queues[c] /\ j \in DOMAIN Queues[c] /\ i \in Nat /\ j \in Nat
      /\ Queues[c][i] = Letter(Received(n)[i]) /\ Queues[c][j] = Letter(Received(n)[j])
  BY <1>1, <1>2, LetterSeqIn DEF Queues, LettersIn
<1>4. ASSUME NEW h \in DOMAIN Queues[c], NEW m \in DOMAIN Workload[s],
             Queues[c][h].id = Workload[s][m].id
      PROVE  Queues[c][h] = Letter(Workload[s][m]) /\ Addressee(Workload[s][m]) = n
  <2>1. PICK r \in Node : \E w \in DOMAIN Workload[r] :
          Queues[c][h] = Letter(Workload[r][w]) /\ OnPath(c, r, Queues[c][h])
    BY <1>1 DEF QueueInv, OnPaths
  <2>2. PICK w \in DOMAIN Workload[r] :
          Queues[c][h] = Letter(Workload[r][w]) /\ OnPath(c, r, Queues[c][h])
    BY <2>1
  <2>3. Workload[r][w].id = Workload[s][m].id
    BY <1>4, <2>2, SentLetters
  <2>4. r = s /\ w = m
    BY <2>3 DEF PlainTraffic
  <2>5. Addressee(Queues[c][h]) = n
    BY <2>2 DEF OnPath, At
  <2>6. QED BY <2>2, <2>4, <2>5, SentLetters
<1>5. Queues[c][i].id = Workload[s][k].id /\ Queues[c][j].id = Workload[s][l].id
  BY <1>3 DEF Letter
<1>6. /\ Queues[c][i] = Letter(Workload[s][k]) /\ Addressee(Workload[s][k]) = n
      /\ Queues[c][j] = Letter(Workload[s][l]) /\ Addressee(Workload[s][l]) = n
  BY <1>3, <1>4, <1>5
<1>7. k # l
  <2>1. k = l => Queues[c][i].id = Queues[c][j].id
    BY <1>5
  <2>2. Queues[c][i].id = Queues[c][j].id => i = j
    BY <1>1, <1>3 DEF QueueInv, Unique
  <2>3. QED BY <1>3, <2>1, <2>2
<1>8. ~(l < k)
  <2> SUFFICES ASSUME l < k PROVE FALSE
    OBVIOUS
  <2>1. Rank(c, Queues[c][j]) < Rank(c, Queues[c][i]) \/ j < i
    BY <1>1, <1>3, <1>6 DEF QueueInv, Ordered
  <2>2. Rank(c, Queues[c][j]) = 0 /\ Rank(c, Queues[c][i]) = 0
    BY DEF Rank, At
  <2>3. QED BY <1>3, <2>1, <2>2
<1>9. k \in Nat /\ l \in Nat
  BY SentLetters
<1>10. QED BY <1>7, <1>8, <1>9

\* However many fifos, hops and turns are between them, a node receives the messages
\* of another in the order they were sent, and none of them twice (chk_match, the
\* receive fifos and the links).
THEOREM InOrderOnceHolds ==
  ASSUME PlainTraffic
  PROVE  Spec => []InOrderOnce
<1>1. IInv => ContentsTyped
  BY ContentsTypes DEF ContentsTyped
<1>2. ContentsTyped /\ QueueInv => InOrderOnce
  BY QueuesInOrder
<1>3. QED BY <1>1, <1>2, Consistent, QueuesHold, PTL

-----------------------------------------------------------------------------
(***************************************************************************)
(* The grid implements the message service.                                *)
(***************************************************************************)
LEMMA RangeHeadTail ==
  ASSUME NEW L, NEW q \in Seq(L), q # <<>>
  PROVE  Range(q) = Range(Tail(q)) \cup {Head(q)}
<1>1. /\ DOMAIN q = 1 .. Len(q) /\ Len(q) \in Nat \ {0} /\ Head(q) = q[1]
      /\ DOMAIN Tail(q) = 1 .. Len(q) - 1
      /\ \A i \in 1 .. Len(q) - 1 : Tail(q)[i] = q[i + 1]
  BY HeadTailProperties, EmptySeq, LenProperties
<1>2. ASSUME NEW x \in Range(q) PROVE x \in Range(Tail(q)) \cup {Head(q)}
  <2>1. PICK i \in 1 .. Len(q) : x = q[i]
    BY <1>1 DEF Range
  <2>2. CASE i = 1
    BY <1>1, <2>1, <2>2
  <2>3. CASE i # 1
    <3>1. i - 1 \in 1 .. Len(q) - 1 /\ (i - 1) + 1 = i
      BY <1>1, <2>3
    <3>2. x = Tail(q)[i - 1]
      BY <1>1, <2>1, <3>1
    <3>3. QED BY <1>1, <3>1, <3>2 DEF Range
  <2>4. QED BY <2>2, <2>3
<1>3. ASSUME NEW x \in Range(Tail(q)) PROVE x \in Range(q)
  <2>1. PICK i \in 1 .. Len(q) - 1 : x = Tail(q)[i]
    BY <1>1 DEF Range
  <2>2. i + 1 \in 1 .. Len(q) /\ x = q[i + 1]
    BY <1>1, <2>1
  <2>3. QED BY <1>1, <2>2 DEF Range
<1>4. Head(q) \in Range(q)
  BY <1>1 DEF Range
<1>5. QED BY <1>2, <1>3, <1>4

LEMMA RangeAppend ==
  ASSUME NEW L, NEW q \in Seq(L), NEW m \in L
  PROVE  Range(Append(q, m)) = Range(q) \cup {m}
<1>1. /\ DOMAIN q = 1 .. Len(q) /\ Len(q) \in Nat
      /\ DOMAIN Append(q, m) = 1 .. Len(q) + 1
      /\ \A i \in 1 .. Len(q) : Append(q, m)[i] = q[i]
      /\ Append(q, m)[Len(q) + 1] = m
  OBVIOUS
<1>2. ASSUME NEW x \in Range(Append(q, m)) PROVE x \in Range(q) \cup {m}
  <2>1. PICK i \in 1 .. Len(q) + 1 : x = Append(q, m)[i]
    BY <1>1 DEF Range
  <2>2. i \in 1 .. Len(q) \/ i = Len(q) + 1
    BY <1>1
  <2>3. QED BY <1>1, <2>1, <2>2 DEF Range
<1>3. ASSUME NEW x \in Range(q) PROVE x \in Range(Append(q, m))
  <2>1. PICK i \in 1 .. Len(q) : x = q[i]
    BY <1>1 DEF Range
  <2>2. i \in 1 .. Len(q) + 1 /\ x = Append(q, m)[i]
    BY <1>1, <2>1
  <2>3. QED BY <1>1, <2>2 DEF Range
<1>4. m \in Range(Append(q, m))
  <2>1. Len(q) + 1 \in 1 .. Len(q) + 1
    BY <1>1
  <2>2. QED BY <1>1, <2>1 DEF Range
<1>5. QED BY <1>2, <1>3, <1>4

LEMMA RangeLetters ==
  ASSUME NEW q \in Seq(Message)
  PROVE  Range(LetterSeq(q)) = {Letter(m) : m \in Range(q)}
BY LetterSeqIn DEF Range

LEMMA RangeIfAny ==
  ASSUME NEW b \in BOOLEAN, NEW m
  PROVE  Range(IfAny(b, m)) = IF b THEN {m} ELSE {}
<1>1. DOMAIN <<m>> = {1} /\ <<m>>[1] = m /\ DOMAIN <<>> = {}
  OBVIOUS
<1>2. Range(<<m>>) = {m} /\ Range(<<>>) = {}
  BY <1>1 DEF Range
<1>3. QED BY <1>2 DEF IfAny

FlyingIn(Q) == UNION {Range(Q[c]) : c \in Flight}

LEMMA FlightIs ==
  ASSUME NEW c \in Flight
  PROVE  \E n \in Node : \/ c = At("txBuf", n) \/ c = At("rxBuf", n)
                         \/ \E p \in Port : \/ c = OnPort("slot", n, p)
                                            \/ c = OnPort("wire", n, p)
                                            \/ c = OnPort("rxFifo", n, p)
<1>1. c \in Place /\ c[1] \notin {"todo", "recv"}
  BY DEF Flight
<1>2. CASE \E n \in Node : \E k \in Local : c = At(k, n)
  <2>1. PICK n \in Node, k \in Local : c = At(k, n)
    BY <1>2
  <2>2. k \in {"txBuf", "rxBuf"}
    BY <1>1, <2>1 DEF At, Local
  <2>3. QED BY <2>1, <2>2
<1>3. CASE \E n \in Node : \E k \in Linky : \E p \in Port : c = OnPort(k, n, p)
  BY <1>3 DEF Linky
<1>4. QED BY <1>1, <1>2, <1>3, EachPlace

\* What the refinement mapping calls flying is in the places of flight.
LEMMA InFlightIs ==
  ASSUME IInv
  PROVE  {Letter(m) : m \in InFlight} = FlyingIn(Queues)
<1>1. Contents \in [Place -> Seq(Message)]
  BY ContentsTypes
<1>2. \A c \in Flight : c \in Place
  BY DEF Flight
<1>3. \A c \in Flight : Range(Queues[c]) = {Letter(m) : m \in Range(Contents[c])}
  BY <1>1, <1>2, RangeLetters DEF Queues, LettersIn
<1>4. ASSUME NEW n \in Node
      PROVE  /\ Range(Contents[At("txBuf", n)]) = IF dpTx[n] THEN {txBuf[n]} ELSE {}
             /\ Range(Contents[At("rxBuf", n)]) = IF Holding(n) THEN {rxBuf[n]} ELSE {}
             /\ \A p \in Port :
                  /\ Range(Contents[OnPort("slot", n, p)]) = {txSlot[n][p]} \ {None}
                  /\ Range(Contents[OnPort("wire", n, p)]) = Range(wire[n][p])
                  /\ Range(Contents[OnPort("rxFifo", n, p)]) = Range(rxFifo[n][p])
  <2>1. dpTx[n] \in BOOLEAN /\ Holding(n) \in BOOLEAN
    BY DEF IInv, TypeOK, RouterTypeOK, Holding
  <2>2. Range(Contents[At("txBuf", n)]) = IF dpTx[n] THEN {txBuf[n]} ELSE {}
    BY <2>1, ContentsNow, RangeIfAny DEF ContentsAre
  <2>3. Range(Contents[At("rxBuf", n)]) = IF Holding(n) THEN {rxBuf[n]} ELSE {}
    BY <2>1, ContentsNow, RangeIfAny DEF ContentsAre
  <2>4. ASSUME NEW p \in Port
        PROVE  Range(Contents[OnPort("slot", n, p)]) = {txSlot[n][p]} \ {None}
    <3>1. Contents[OnPort("slot", n, p)] = IfAny(txSlot[n][p] # None, txSlot[n][p])
      BY ContentsNow DEF ContentsAre
    <3>2. Range(IfAny(txSlot[n][p] # None, txSlot[n][p])) = IF txSlot[n][p] # None THEN {txSlot[n][p]} ELSE {}
      BY RangeIfAny
    <3>3. QED BY <3>1, <3>2
  <2>5. \A p \in Port : /\ Contents[OnPort("wire", n, p)] = wire[n][p]
                        /\ Contents[OnPort("rxFifo", n, p)] = rxFifo[n][p]
    BY ContentsNow DEF ContentsAre
  <2>6. QED BY <2>2, <2>3, <2>4, <2>5
<1>5. ASSUME NEW m \in InFlight PROVE \E c \in Flight : m \in Range(Contents[c])
  <2>1. CASE m \in {txBuf[n] : n \in {n \in Node : dpTx[n]}}
    <3>1. PICK n \in Node : dpTx[n] /\ m = txBuf[n]
      BY <2>1
    <3>2. m \in Range(Contents[At("txBuf", n)])
      BY <1>4, <3>1
    <3>3. QED BY <3>2, FlightPlaces
  <2>2. CASE m \in {rxBuf[n] : n \in {n \in Node : Holding(n)}}
    <3>1. PICK n \in Node : Holding(n) /\ m = rxBuf[n]
      BY <2>2
    <3>2. m \in Range(Contents[At("rxBuf", n)])
      BY <1>4, <3>1
    <3>3. QED BY <3>2, FlightPlaces
  <2>3. CASE m \in {txSlot[n][p] : n \in Node, p \in Port} \ {None}
    <3>1. PICK n \in Node, p \in Port : m = txSlot[n][p] /\ m # None
      BY <2>3
    <3>2. Range(Contents[OnPort("slot", n, p)]) = {txSlot[n][p]} \ {None}
      BY <1>4
    <3>3. m \in Range(Contents[OnPort("slot", n, p)])
      BY <3>1, <3>2
    <3>4. "slot" \in Linky
      BY DEF Linky
    <3>5. QED BY <3>3, <3>4, FlightPlaces
  <2>4. CASE m \in UNION {Range(rxFifo[n][p]) \cup Range(wire[n][p]) : n \in Node, p \in Port}
    <3>1. PICK n \in Node, p \in Port : m \in Range(rxFifo[n][p]) \cup Range(wire[n][p])
      BY <2>4
    <3>2. \/ m \in Range(Contents[OnPort("rxFifo", n, p)])
          \/ m \in Range(Contents[OnPort("wire", n, p)])
      BY <1>4, <3>1
    <3>3. "wire" \in Linky /\ "rxFifo" \in Linky
      BY DEF Linky
    <3>4. QED BY <3>2, <3>3, FlightPlaces
  <2>5. QED BY <2>1, <2>2, <2>3, <2>4 DEF InFlight
<1>6. ASSUME NEW c \in Flight, NEW m \in Range(Contents[c]) PROVE m \in InFlight
  <2>1. PICK n \in Node : \/ c = At("txBuf", n) \/ c = At("rxBuf", n)
                          \/ \E p \in Port : \/ c = OnPort("slot", n, p)
                                             \/ c = OnPort("wire", n, p)
                                             \/ c = OnPort("rxFifo", n, p)
    BY FlightIs
  <2>2. CASE c = At("txBuf", n)
    <3>1. dpTx[n] /\ m = txBuf[n]
      BY <1>4, <1>6, <2>2, ZenonT(60)
    <3>2. QED BY <3>1 DEF InFlight
  <2>3. CASE c = At("rxBuf", n)
    <3>1. Holding(n) /\ m = rxBuf[n]
      BY <1>4, <1>6, <2>3, ZenonT(60)
    <3>2. QED BY <3>1 DEF InFlight
  <2>4. ASSUME NEW p \in Port, c = OnPort("slot", n, p) PROVE m \in InFlight
    <3>1. Range(Contents[OnPort("slot", n, p)]) = {txSlot[n][p]} \ {None}
      BY <1>4
    <3>2. m = txSlot[n][p] /\ m # None
      BY <1>6, <2>4, <3>1
    <3>3. QED BY <3>2 DEF InFlight
  <2>5. ASSUME NEW p \in Port, c = OnPort("wire", n, p) \/ c = OnPort("rxFifo", n, p)
        PROVE  m \in InFlight
    <3>1. m \in Range(rxFifo[n][p]) \cup Range(wire[n][p])
      BY <1>4, <1>6, <2>5, ZenonT(60)
    <3> DEFINE Buffers(a, q) == Range(rxFifo[a][q]) \cup Range(wire[a][q])
    <3>2. m \in Buffers(n, p)
      BY <3>1
    <3> HIDE DEF Buffers
    <3>3. m \in UNION {Buffers(a, q) : a \in Node, q \in Port}
      BY <3>2
    <3>4. QED BY <3>3 DEF InFlight, Buffers
  <2>6. QED BY <2>1, <2>2, <2>3, <2>4, <2>5
<1>7. {Letter(m) : m \in InFlight} = UNION {{Letter(m) : m \in Range(Contents[c])} : c \in Flight}
  BY <1>5, <1>6
<1>8. FlyingIn(Queues) = UNION {{Letter(m) : m \in Range(Contents[c])} : c \in Flight}
  BY <1>3 DEF FlyingIn
<1>9. QED BY <1>7, <1>8

UnsentIn(Q)   == [n \in Node |-> Q[At("todo", n)]]
ReceivedIn(Q) == [n \in Node |-> Q[At("recv", n)]]

\* A letter at the front of a queue is nowhere else.
LEMMA FrontOnly ==
  ASSUME NEW Q \in QueueMap, Unique(Q), NEW c \in Place, Q[c] # <<>>
  PROVE  /\ Head(Q[c]) \notin Range(Tail(Q[c]))
         /\ \A e \in Place \ {c} : Head(Q[c]) \notin Range(Q[e])
<1>1. /\ Q[c] \in Seq(LetterOf) /\ Head(Q[c]) = Q[c][1] /\ 1 \in DOMAIN Q[c]
      /\ DOMAIN Q[c] = 1 .. Len(Q[c]) /\ Len(Q[c]) \in Nat \ {0}
  BY EmptySeq, LenProperties DEF QueueMap
<1>2. ASSUME Head(Q[c]) \in Range(Tail(Q[c])) PROVE FALSE
  <2>1. /\ DOMAIN Tail(Q[c]) = 1 .. Len(Q[c]) - 1
        /\ \A i \in 1 .. Len(Q[c]) - 1 : Tail(Q[c])[i] = Q[c][i + 1]
    BY <1>1, HeadTailProperties, LenProperties
  <2>2. PICK i \in 1 .. Len(Q[c]) - 1 : Q[c][1] = Q[c][i + 1]
    BY <1>1, <1>2, <2>1 DEF Range
  <2>3. i + 1 \in DOMAIN Q[c] /\ i + 1 # 1
    BY <1>1
  <2>4. i + 1 = 1
    BY <1>1, <2>2, <2>3 DEF Unique
  <2>5. QED BY <2>3, <2>4
<1>3. ASSUME NEW e \in Place \ {c}, Head(Q[c]) \in Range(Q[e]) PROVE FALSE
  <2>1. PICK i \in DOMAIN Q[e] : Q[e][i] = Q[c][1]
    BY <1>1, <1>3 DEF Range
  <2>2. QED BY <1>1, <2>1 DEF Unique
<1>4. QED BY <1>2, <1>3

\* A move changes where letters are in the same way.
LEMMA MovedRanges ==
  ASSUME NEW Q \in QueueMap, NEW R \in QueueMap, NEW c \in Place, NEW d \in Place,
         Moves(Q, R, c, d)
  PROVE  /\ Head(Q[c]) \in Range(Q[c]) /\ Q[c] # <<>>
         /\ Range(Q[c]) = Range(R[c]) \cup {Head(Q[c])}
         /\ R[c] = Tail(Q[c]) /\ R[d] = Append(Q[d], Head(Q[c]))
         /\ Range(R[d]) = Range(Q[d]) \cup {Head(Q[c])}
         /\ \A e \in Place \ {c, d} : R[e] = Q[e]
<1>1. Q[c] \in Seq(LetterOf) /\ Q[d] \in Seq(LetterOf) /\ DOMAIN Q = Place
  BY DEF QueueMap
<1>2. /\ Q[c] # <<>> /\ R[c] = Tail(Q[c]) /\ R[d] = Append(Q[d], Head(Q[c]))
      /\ \A e \in Place \ {c, d} : R[e] = Q[e]
  BY <1>1 DEF Moves
<1>3. Range(Q[c]) = Range(R[c]) \cup {Head(Q[c])}
  BY <1>1, <1>2, RangeHeadTail
<1>4. Head(Q[c]) \in LetterOf
  BY <1>1, <1>2
<1>5. Range(R[d]) = Range(Q[d]) \cup {Head(Q[c])}
  BY <1>1, <1>2, <1>4, RangeAppend
<1>6. QED BY <1>2, <1>3, <1>5

LEMMA FlyingIs ==
  ASSUME NEW Q, NEW l
  PROVE  l \in FlyingIn(Q) <=> \E c \in Flight : l \in Range(Q[c])
BY DEF FlyingIn

LEMMA EndPlaces ==
  ASSUME NEW n \in Node
  PROVE  /\ At("todo", n) \in Place \ Flight /\ At("recv", n) \in Place \ Flight
         /\ \A a : At("recv", n) # At("todo", a) /\ (At("todo", n) = At("todo", a) => n = a)
         /\ \A a : At("recv", n) = At("recv", a) => n = a
<1>1. "todo" \in Local /\ "recv" \in Local
  BY DEF Local
<1>2. At("todo", n) \in Place /\ At("recv", n) \in Place
  BY <1>1, Places
<1>3. At("todo", n)[1] = "todo" /\ At("recv", n)[1] = "recv"
  BY DEF At
<1>4. At("todo", n) \notin Flight /\ At("recv", n) \notin Flight
  BY <1>3 DEF Flight
<1>5. QED BY <1>2, <1>4 DEF At

\* From the software to the network.
LEMMA SendStep ==
  ASSUME NEW Q \in QueueMap, NEW R \in QueueMap, NEW c \in Place, NEW d \in Flight,
         Moves(Q, R, c, d), Unique(Q), NEW n \in Node, c = At("todo", n)
  PROVE  /\ UnsentIn(Q)[n] # <<>> /\ Head(UnsentIn(Q)[n]) \notin FlyingIn(Q)
         /\ UnsentIn(R) = [UnsentIn(Q) EXCEPT ![n] = Tail(@)]
         /\ FlyingIn(R) = FlyingIn(Q) \cup {Head(UnsentIn(Q)[n])}
         /\ ReceivedIn(R) = ReceivedIn(Q)
<1> DEFINE l == Head(Q[c])
<1>0. d \in Place /\ c \notin Flight /\ c # d
  BY DEF Flight, At
<1>1. /\ Q[c] # <<>> /\ R[c] = Tail(Q[c])
      /\ Range(R[d]) = Range(Q[d]) \cup {l}
      /\ \A e \in Place \ {c, d} : R[e] = Q[e]
  BY <1>0, MovedRanges
<1>2. UnsentIn(Q)[n] = Q[c]
  BY DEF UnsentIn
<1>3. l \notin FlyingIn(Q)
  BY <1>0, <1>1, FrontOnly DEF FlyingIn, Flight
<1>4. ASSUME NEW a \in Node
      PROVE  /\ a # n => R[At("todo", a)] = Q[At("todo", a)]
             /\ R[At("recv", a)] = Q[At("recv", a)]
  <2>1. /\ At("todo", a) \in Place /\ At("todo", a) # d /\ At("recv", a) \in Place
        /\ At("recv", a) # d /\ At("recv", a) # c
    BY EndPlaces
  <2>2. a # n => At("todo", a) # c
    BY EndPlaces
  <2>3. QED BY <1>1, <2>1, <2>2
<1>5. UnsentIn(R) = [UnsentIn(Q) EXCEPT ![n] = Tail(@)]
  BY <1>1, <1>4 DEF UnsentIn
<1>6. ReceivedIn(R) = ReceivedIn(Q)
  BY <1>4 DEF ReceivedIn
<1>7. ASSUME NEW e \in Flight PROVE Range(R[e]) = IF e = d THEN Range(Q[e]) \cup {l} ELSE Range(Q[e])
  BY <1>0, <1>1 DEF Flight
<1>8. FlyingIn(R) = FlyingIn(Q) \cup {l}
  BY <1>7, FlyingIs
<1>9. QED BY <1>1, <1>2, <1>3, <1>5, <1>6, <1>8

\* From place to place inside the network.
LEMMA CarryStep ==
  ASSUME NEW Q \in QueueMap, NEW R \in QueueMap, NEW c \in Flight, NEW d \in Flight,
         Moves(Q, R, c, d)
  PROVE  UnsentIn(R) = UnsentIn(Q) /\ FlyingIn(R) = FlyingIn(Q) /\ ReceivedIn(R) = ReceivedIn(Q)
<1> DEFINE l == Head(Q[c])
<1>0. d \in Place /\ c \in Place /\ c # d
  BY DEF Flight, Moves
<1>1. /\ l \in Range(Q[c]) /\ Range(Q[c]) = Range(R[c]) \cup {l}
      /\ Range(R[d]) = Range(Q[d]) \cup {l}
      /\ \A e \in Place \ {c, d} : R[e] = Q[e]
  BY <1>0, MovedRanges
<1>2. ASSUME NEW a \in Node
      PROVE  R[At("todo", a)] = Q[At("todo", a)] /\ R[At("recv", a)] = Q[At("recv", a)]
  <2>1. /\ At("todo", a) \in Place \ {c, d} /\ At("recv", a) \in Place \ {c, d}
    BY EndPlaces
  <2>2. QED BY <1>1, <2>1
<1>3. UnsentIn(R) = UnsentIn(Q) /\ ReceivedIn(R) = ReceivedIn(Q)
  BY <1>2 DEF UnsentIn, ReceivedIn
<1>4. ASSUME NEW x, x \in FlyingIn(R) PROVE x \in FlyingIn(Q)
  <2>1. PICK e \in Flight : x \in Range(R[e])
    BY <1>4, FlyingIs
  <2>2. e \in Place
    BY DEF Flight
  <2>3. x \in Range(Q[e]) \/ x \in Range(Q[c])
    BY <1>1, <2>1, <2>2
  <2>4. QED BY <2>3, FlyingIs
<1>5. ASSUME NEW x, x \in FlyingIn(Q) PROVE x \in FlyingIn(R)
  <2>1. PICK e \in Flight : x \in Range(Q[e])
    BY <1>5, FlyingIs
  <2>2. e \in Place
    BY DEF Flight
  <2>3. x \in Range(R[e]) \/ x \in Range(R[d])
    BY <1>1, <2>1, <2>2
  <2>4. QED BY <2>3, FlyingIs
<1>6. FlyingIn(R) = FlyingIn(Q)
  BY <1>4, <1>5
<1>7. QED BY <1>3, <1>6

\* Out of the network: what leaves a place of flight flies no longer.
LEMMA LandStep ==
  ASSUME NEW Q \in QueueMap, NEW R \in QueueMap, NEW c \in Flight, Q[c] # <<>>, Unique(Q),
         R[c] = Tail(Q[c]), \A e \in Flight \ {c} : R[e] = Q[e]
  PROVE  Head(Q[c]) \in FlyingIn(Q) /\ FlyingIn(R) = FlyingIn(Q) \ {Head(Q[c])}
<1> DEFINE l == Head(Q[c])
<1>0. c \in Place /\ Q[c] \in Seq(LetterOf)
  BY DEF Flight, QueueMap
<1>1. Range(Q[c]) = Range(R[c]) \cup {l} /\ l \notin Range(R[c])
  BY <1>0, RangeHeadTail, FrontOnly
<1>2. \A e \in Flight \ {c} : l \notin Range(R[e])
  BY <1>0, FrontOnly DEF Flight
<1>3. l \in FlyingIn(Q)
  BY <1>1, FlyingIs
<1>4. ASSUME NEW x, x \in FlyingIn(R) PROVE x \in FlyingIn(Q) /\ x # l
  <2>1. PICK e \in Flight : x \in Range(R[e])
    BY <1>4, FlyingIs
  <2>2. x \in Range(Q[e]) /\ x # l
    BY <1>1, <1>2, <2>1
  <2>3. QED BY <2>2, FlyingIs
<1>5. ASSUME NEW x, x \in FlyingIn(Q), x # l PROVE x \in FlyingIn(R)
  <2>1. PICK e \in Flight : x \in Range(Q[e])
    BY <1>5, FlyingIs
  <2>2. x \in Range(R[e])
    BY <1>1, <1>5, <2>1
  <2>3. QED BY <2>2, FlyingIs
<1>6. QED BY <1>3, <1>4, <1>5

\* The refinement mapping of GridService in terms of the queues.
MappingIs ==
  /\ [n \in Node |-> LetterSeq(todo[n])] = UnsentIn(Queues)
  /\ {Letter(m) : m \in InFlight} = FlyingIn(Queues)
  /\ [n \in Node |-> LetterSeq(Received(n))] = ReceivedIn(Queues)

LEMMA MappingHolds == IInv => MappingIs
<1> SUFFICES ASSUME IInv PROVE MappingIs
  OBVIOUS
<1>1. ASSUME NEW n \in Node
      PROVE  Queues[At("todo", n)] = LetterSeq(todo[n]) /\ Queues[At("recv", n)] = LetterSeq(Received(n))
  <2>1. At("todo", n) \in Place /\ At("recv", n) \in Place
    BY EndPlaces
  <2>2. Contents[At("todo", n)] = todo[n] /\ Contents[At("recv", n)] = Received(n)
    BY ContentsNow DEF ContentsAre
  <2>3. QED BY <2>1, <2>2 DEF Queues, LettersIn
<1>2. [n \in Node |-> LetterSeq(todo[n])] = UnsentIn(Queues)
  BY <1>1 DEF UnsentIn
<1>3. [n \in Node |-> LetterSeq(Received(n))] = ReceivedIn(Queues)
  BY <1>1 DEF ReceivedIn
<1>4. QED BY <1>2, <1>3, InFlightIs DEF MappingIs

\* Every step of the grid is a step of the service or none.
LEMMA ServiceStep ==
  ASSUME PlainTraffic, QueueInv, MappingIs, MappingIs',
         Queues \in QueueMap, Queues' \in QueueMap,
         \/ Queues' = Queues
         \/ Lossy = TRUE /\ \E c \in Flight : Drops(Queues, Queues', c)
         \/ \E c, d \in Place : /\ Carries(c, d)
                                /\ Moves(Queues, Queues', c, d)
                                /\ Advances(c, d, Queues[c][1])
  PROVE  [Service!Next]_(Service!vars)
<1> DEFINE Q == Queues
           R == Queues'
           unsent == [n \in Node |-> LetterSeq(todo[n])]
           flying == {Letter(m) : m \in InFlight}
           received == [n \in Node |-> LetterSeq(Received(n))]
<1>1. Unique(Q) /\ OnPaths(Q)
  BY DEF QueueInv
<1>2. unsent = UnsentIn(Q) /\ flying = FlyingIn(Q) /\ received = ReceivedIn(Q)
  BY DEF MappingIs
<1>3. unsent' = UnsentIn(R) /\ flying' = FlyingIn(R) /\ received' = ReceivedIn(R)
  BY DEF MappingIs, UnsentIn, FlyingIn, ReceivedIn
<1>4. CASE R = Q
  BY <1>2, <1>3, <1>4 DEF Service!vars
<1>5. ASSUME Lossy = TRUE, NEW c \in Flight, Drops(Q, R, c) PROVE Service!Next
  <2>1. Q[c] # <<>> /\ R[c] = Tail(Q[c]) /\ \A e \in Place \ {c} : R[e] = Q[e]
    BY <1>5 DEF Drops, QueueMap
  <2>2. Head(Q[c]) \in FlyingIn(Q) /\ FlyingIn(R) = FlyingIn(Q) \ {Head(Q[c])}
    BY <1>1, <2>1, LandStep DEF Flight
  <2>3. UnsentIn(R) = UnsentIn(Q) /\ ReceivedIn(R) = ReceivedIn(Q)
    BY <2>1, EndPlaces DEF UnsentIn, ReceivedIn
  <2>4. Service!Lose(Head(Q[c]))
    BY <1>2, <1>3, <1>5, <2>2, <2>3 DEF Service!Lose
  <2>5. QED BY <1>2, <2>2, <2>4 DEF Service!Next
<1>6. ASSUME NEW c \in Place, NEW d \in Place, Carries(c, d), Moves(Q, R, c, d),
             Advances(c, d, Q[c][1])
      PROVE  [Service!Next]_(Service!vars)
  <2>1. CASE c[1] = "todo" /\ d \in Flight
    <3>1. PICK n \in Node : c = At("todo", n)
      BY <2>1, EachPlace DEF At, OnPort, Linky
    <3>2. /\ UnsentIn(Q)[n] # <<>> /\ Head(UnsentIn(Q)[n]) \notin FlyingIn(Q)
          /\ UnsentIn(R) = [UnsentIn(Q) EXCEPT ![n] = Tail(@)]
          /\ FlyingIn(R) = FlyingIn(Q) \cup {Head(UnsentIn(Q)[n])}
          /\ ReceivedIn(R) = ReceivedIn(Q)
      BY <1>1, <1>6, <2>1, <3>1, SendStep
    <3>3. Service!Send(n)
      BY <1>2, <1>3, <3>2 DEF Service!Send
    <3>4. QED BY <3>3 DEF Service!Next
  <2>2. CASE c \in Flight /\ d \in Flight
    <3>1. UnsentIn(R) = UnsentIn(Q) /\ FlyingIn(R) = FlyingIn(Q) /\ ReceivedIn(R) = ReceivedIn(Q)
      BY <1>6, <2>2, CarryStep
    <3>2. QED BY <1>2, <1>3, <3>1 DEF Service!vars
  <2>3. CASE c \in Flight /\ d[1] = "recv"
    <3>1. PICK n \in Node : d = At("recv", n)
      BY <2>3, EachPlace DEF At, OnPort, Linky
    <3>2. /\ Q[c] # <<>> /\ R[c] = Tail(Q[c]) /\ R[d] = Append(Q[d], Head(Q[c]))
          /\ \A e \in Place \ {c, d} : R[e] = Q[e]
      BY <1>6, MovedRanges
    <3>3. d \notin Flight
      BY <3>1, EndPlaces
    <3>4. Head(Q[c]) \in FlyingIn(Q) /\ FlyingIn(R) = FlyingIn(Q) \ {Head(Q[c])}
      BY <1>1, <2>3, <3>2, <3>3, LandStep DEF Flight
    <3>5. Addressee(Head(Q[c])) = n
      <4>1. Q[c] \in Seq(LetterOf) /\ Head(Q[c]) = Q[c][1] /\ 1 \in DOMAIN Q[c]
        BY <3>2, EmptySeq, LenProperties DEF QueueMap
      <4>2. PICK s \in Node : OnPath(c, s, Q[c][1])
        BY <1>1, <4>1 DEF OnPaths
      <4>3. OnPath(d, s, Q[c][1])
        BY <1>6, <4>2 DEF Advances
      <4>4. QED BY <3>1, <4>1, <4>3 DEF OnPath, At
    <3>6. ASSUME NEW a \in Node
          PROVE  /\ R[At("todo", a)] = Q[At("todo", a)]
                 /\ a # n => R[At("recv", a)] = Q[At("recv", a)]
      <4>1. /\ At("todo", a) \in Place \ {c, d}
            /\ a # n => At("recv", a) \in Place \ {c, d}
        BY <2>3, <3>1, EndPlaces
      <4>2. QED BY <3>2, <4>1
    <3>7. UnsentIn(R) = UnsentIn(Q)
      BY <3>6 DEF UnsentIn
    <3>8. ReceivedIn(R) = [ReceivedIn(Q) EXCEPT ![n] = Append(@, Head(Q[c]))]
      BY <3>1, <3>2, <3>6 DEF ReceivedIn
    <3>9. Service!Deliver(Head(Q[c]))
      BY <1>2, <1>3, <3>4, <3>5, <3>7, <3>8 DEF Service!Deliver
    <3>10. QED BY <1>2, <3>4, <3>9 DEF Service!Next
  <2>4. QED BY <1>6, <2>1, <2>2, <2>3 DEF Carries
<1>7. QED BY <1>4, <1>5, <1>6

LEMMA InitService ==
  ASSUME Init
  PROVE  Service!Init
<1>1. LetterSeq(<<>>) = <<>>
  BY DEF LetterSeq
<1>2. \A n \in Node : todo[n] = Workload[n] /\ Received(n) = <<>>
  BY ConcatEmptySeq, EmptySeq DEF Init, RouterInit, Received
<1>3. InFlight = {}
  <2>1. ASSUME NEW n \in Node, NEW p \in Port
        PROVE  Range(rxFifo[n][p]) \cup Range(wire[n][p]) = {}
    BY DEF Init, RouterInit, Range
  <2>2. \A n \in Node : ~dpTx[n] /\ ~Holding(n) /\ \A p \in Port : txSlot[n][p] = None
    BY DEF Init, RouterInit, Holding
  <2>3. QED BY <2>1, <2>2 DEF InFlight
<1>4. [n \in Node |-> LetterSeq(todo[n])] = [n \in Node |-> LetterSeq(Workload[n])]
  BY <1>2
<1>5. {Letter(m) : m \in InFlight} = {}
  BY <1>3
<1>6. [n \in Node |-> LetterSeq(Received(n))] = [n \in Node |-> <<>>]
  BY <1>1, <1>2
<1>7. QED BY <1>4, <1>5, <1>6 DEF Service!Init

\* Whatever its fifos lose, the grid is the message service for unicasts: every step
\* of a router, a link or the software is a step of MessageService or changes nothing
\* the service shows, so nothing is delivered twice or to a node it is not for.
THEOREM GridImplementsService ==
  ASSUME PlainTraffic, Lossy = TRUE
  PROVE  Spec => ImplementsService
<1>1. Init => Service!Init
  BY InitService
<1>2. IInv => ContentsTyped /\ MappingIs
  BY ContentsTypes, MappingHolds DEF ContentsTyped
<1>3. ASSUME IInv, QueueInv, ContentsTyped, ContentsTyped', MappingIs, MappingIs', [Next]_gridVars
      PROVE  [Service!Next]_(Service!vars)
  <2>1. QueueStep
    BY <1>3, NextQueueStep
  <2>2. /\ Queues \in QueueMap /\ Queues' \in QueueMap
        /\ \/ Queues' = Queues
           \/ \E c \in Flight : Drops(Queues, Queues', c)
           \/ \E c, d \in Place : /\ Carries(c, d)
                                  /\ Moves(Queues, Queues', c, d)
                                  /\ Advances(c, d, Queues[c][1])
    BY <1>3, <2>1, LetterStep
  <2>3. QED BY <1>3, <2>2, ServiceStep
<1>4. QED
  BY <1>1, <1>2, <1>3, Consistent, QueuesHold, PTL DEF Spec, ImplementsService, Service!Spec

-----------------------------------------------------------------------------
(***************************************************************************)
(* A grid whose fifos hold the whole workload loses nothing.               *)
(***************************************************************************)
AllLetters == UNION {Range(LetterSeq(Workload[s])) : s \in Node}

DeepFifos == Cardinality(AllLetters) <= RxDepth /\ Cardinality(AllLetters) <= FifoDepth

LEMMA AllLettersFinite == IsFiniteSet(AllLetters)
<1>1. IsFiniteSet(Node)
  <2>1. IsFiniteSet(1 .. Cols) /\ IsFiniteSet(1 .. Rows)
    BY GridAssumption, FS_Interval
  <2>2. IsFiniteSet((1 .. Cols) \X (1 .. Rows))
    BY <2>1, FS_Product
  <2>3. QED BY <2>2, FS_AddElement DEF Node
<1>2. ASSUME NEW s \in Node PROVE IsFiniteSet(Range(LetterSeq(Workload[s])))
  <2>1. Workload[s] \in Seq(Message)
    BY LinkAssumption
  <2> DEFINE q == LetterSeq(Workload[s])
  <2>2. DOMAIN q = 1 .. Len(Workload[s]) /\ Len(Workload[s]) \in Nat /\ q = [i \in DOMAIN q |-> q[i]]
    BY <2>1, LetterSeqIn DEF LetterSeq
  <2>3. IsFiniteSet(1 .. Len(Workload[s]))
    BY <2>2, FS_Interval
  <2> HIDE DEF q
  <2>4. q \in Surjection(1 .. Len(Workload[s]), Range(q))
    BY <2>2 DEF Surjection, Range
  <2>5. QED BY <2>3, <2>4, FS_Surjection DEF q
<1> DEFINE Of == [s \in Node |-> Range(LetterSeq(Workload[s]))]
<1>3. IsFiniteSet(Range(Of))
  <2>1. Of \in Surjection(Node, Range(Of))
    BY DEF Surjection, Range
  <2>2. QED BY <1>1, <2>1, FS_Surjection
<1>4. AllLetters = UNION Range(Of)
  BY DEF AllLetters, Range
<1>5. \A T \in Range(Of) : IsFiniteSet(T)
  BY <1>2 DEF Range
<1>6. QED BY <1>3, <1>4, <1>5, FS_UNION

\* While one letter is elsewhere, a queue cannot hold as many as there are.
LEMMA ShortQueue ==
  ASSUME PlainTraffic, NEW Q \in QueueMap, Unique(Q), OnPaths(Q),
         NEW c \in Place, NEW d \in Place, c # d, Q[c] # <<>>
  PROVE  Len(Q[d]) < Cardinality(AllLetters)
<1>1. ASSUME NEW e \in Place, NEW i \in DOMAIN Q[e] PROVE Q[e][i] \in AllLetters
  <2>1. PICK s \in Node : \E k \in DOMAIN Workload[s] : Q[e][i] = Letter(Workload[s][k])
    BY DEF OnPaths
  <2>2. PICK k \in DOMAIN Workload[s] : Q[e][i] = Letter(Workload[s][k])
    BY <2>1
  <2>3. Q[e][i] \in Range(LetterSeq(Workload[s]))
    BY <2>2 DEF Range, LetterSeq
  <2>4. QED BY <2>3 DEF AllLetters
<1> DEFINE l == Head(Q[c])
           T == AllLetters \ {l}
           n == Len(Q[d])
<1>2. Q[c] \in Seq(LetterOf) /\ Q[d] \in Seq(LetterOf)
  BY DEF QueueMap
<1>3. 1 \in DOMAIN Q[c] /\ l = Q[c][1] /\ n \in Nat /\ DOMAIN Q[d] = 1 .. n
  BY <1>2, EmptySeq, LenProperties
<1>4. l \in AllLetters
  BY <1>1, <1>3
<1>5. IsFiniteSet(T) /\ Cardinality(T) = Cardinality(AllLetters) - 1 /\ Cardinality(AllLetters) \in Nat
  BY <1>4, AllLettersFinite, FS_RemoveElement, FS_CardinalityType
<1>6. Q[d] \in Injection(1 .. n, T)
  <2>1. \A i \in 1 .. n : Q[d][i] \in T
    <3>1. \A i \in 1 .. n : Q[d][i] # l
      BY <1>3 DEF Unique
    <3>2. QED BY <1>1, <1>3, <3>1
  <2>2. \A i, j \in 1 .. n : Q[d][i] = Q[d][j] => i = j
    BY <1>3 DEF Unique
  <2>3. Q[d] = [i \in 1 .. n |-> Q[d][i]]
    BY <1>2, <1>3, LenProperties
  <2> HIDE DEF T, n
  <2>4. Q[d] \in [1 .. n -> T]
    BY <2>1, <2>3
  <2>5. IsInjective(Q[d])
    BY <2>2, <2>4 DEF IsInjective
  <2>6. QED BY <2>4, <2>5 DEF Injection
<1>7. Cardinality(1 .. n) <= Cardinality(T)
  BY <1>5, <1>6, FS_Injection
<1>8. Cardinality(1 .. n) = n
  BY <1>3, FS_Interval
<1>9. QED BY <1>3, <1>5, <1>7, <1>8

LEMMA NoOverrun ==
  ASSUME PlainTraffic, DeepFifos, WorkloadCovered, IInv, HopBudget, QueueInv, ContentsTyped
  PROVE  ~Overrun
<1> USE DEF IInv, TypeOK, RouterTypeOK
<1>1. Queues \in QueueMap /\ Unique(Queues) /\ OnPaths(Queues)
  BY LettersInMap DEF ContentsTyped, Queues, QueueInv
<1>2. Cardinality(AllLetters) \in Nat /\ RxDepth \in Nat /\ FifoDepth \in Nat
  BY AllLettersFinite, FS_CardinalityType, LinkAssumption, GridAssumption
<1>3. ASSUME NEW c \in Place, NEW d \in Place, c # d, Contents[c] # <<>>
      PROVE  Len(Contents[d]) < Cardinality(AllLetters)
  <2>1. /\ Contents[c] \in Seq(Message) /\ Contents[d] \in Seq(Message)
        /\ Queues[c] = LetterSeq(Contents[c]) /\ Queues[d] = LetterSeq(Contents[d])
    BY DEF ContentsTyped, Queues, LettersIn
  <2>2. Queues[c] # <<>> /\ Len(Queues[d]) = Len(Contents[d])
    BY <1>3, <2>1, LetterSeqHeadTail, LetterSeqIn
  <2>3. Len(Queues[d]) < Cardinality(AllLetters)
    BY <1>1, <1>3, <2>2, ShortQueue
  <2>4. QED BY <2>2, <2>3
<1>4. ASSUME NEW n \in Node, NEW p \in Port, Linked(n, p), wire[n][p] # <<>>
      PROVE  Len(rxFifo[Peer(n, p)][p]) < RxDepth
  <2> DEFINE k == Peer(n, p)
  <2>1. k \in Node
    BY <1>4, PeerNode
  <2>2. Contents[OnPort("wire", n, p)] = wire[n][p] /\ Contents[OnPort("rxFifo", k, p)] = rxFifo[k][p]
    BY <2>1, ContentsNow DEF ContentsAre
  <2>3. OnPort("wire", n, p) \in Place /\ OnPort("rxFifo", k, p) \in Place
    BY <2>1, Places DEF Linky
  <2>4. OnPort("wire", n, p) # OnPort("rxFifo", k, p)
    BY DEF OnPort
  <2>5. Len(rxFifo[k][p]) < Cardinality(AllLetters)
    BY <1>3, <1>4, <2>2, <2>3, <2>4
  <2>6. Len(rxFifo[k][p]) \in Nat
    BY <2>1
  <2>7. QED BY <1>2, <2>5, <2>6 DEF DeepFifos
<1>5. ASSUME NEW n \in Node, Matching(n)
      PROVE  Len(fifo[n]) < FifoDepth
  <2>1. PICK k \in {"txBuf", "rxBuf"} : Contents[At(k, n)] = <<Buff(n)>>
    BY <1>1, <1>5, Matched
  <2>2. At(k, n) \in Place /\ At("recv", n) \in Place /\ At(k, n) # At("recv", n)
    BY Places DEF Local, At
  <2>3. Contents[At("recv", n)] = Received(n)
    BY ContentsNow DEF ContentsAre
  <2>4. Contents[At(k, n)] # <<>>
    BY <2>1
  <2>5. Len(Received(n)) < Cardinality(AllLetters)
    BY <1>3, <2>2, <2>3, <2>4
  <2>6. got[n] \in Seq(Message) /\ fifo[n] \in Seq(Message)
    OBVIOUS
  <2>7. Len(Received(n)) = Len(got[n]) + Len(fifo[n]) /\ Len(got[n]) \in Nat /\ Len(fifo[n]) \in Nat
    BY <2>6, ConcatProperties, LenProperties DEF Received
  <2>8. QED BY <1>2, <2>5, <2>7 DEF DeepFifos
<1>6. ASSUME NEW n \in Node, Holding(n)
      PROVE  rxBuf[n].ttl # 0
  <2>1. Matching(n) /\ Buff(n) = rxBuf[n]
    BY <1>6 DEF Holding, Matching, Buff
  <2>2. IsUnicast(rxBuf[n]) /\ rxBuf[n] \in Message
    BY <1>1, <2>1, Matched
  <2>3. rxBuf[n] \in Covered(n)
    BY <1>6 DEF HopBudget, PlainTraffic
  <2>4. rxBuf[n].ttl > Hops(n, rxBuf[n])
    BY <2>2, <2>3 DEF Covered, MadeUp, PlainTraffic
  <2>5. Hops(n, rxBuf[n]) \in Nat
    <3> DEFINE l == Letter(rxBuf[n])
    <3>1. l \in LetterOf /\ IsUnicast(l) /\ l.x = rxBuf[n].x /\ l.y = rxBuf[n].y
      BY <1>1, <2>1, Matched DEF Letter
    <3>2. Hops(n, l) \in Nat
      BY <3>1, HopsTypes
    <3>3. Hops(n, l) = Hops(n, rxBuf[n])
      BY <3>1, SameAddress
    <3>4. QED BY <3>2, <3>3
  <2>6. QED BY <2>4, <2>5
<1>7. \A n \in Node, p \in Port : Linked(n, p) => Len(rxFifo[Peer(n, p)][p]) \in Nat
  BY PeerNode
<1>8. \A n \in Node : Len(fifo[n]) \in Nat
  OBVIOUS
<1>9. QED BY <1>2, <1>4, <1>5, <1>6, <1>7, <1>8 DEF Overrun

\* With fifos that hold the whole workload and times to live that cover the ways, no
\* step of the grid loses a letter: Stored and Buffered never find a fifo full, and
\* chk_match finds no message dead.
THEOREM GridLosesNothing ==
  ASSUME PlainTraffic, DeepFifos, WorkloadCovered
  PROVE  Spec => ImplementsService
<1>1. Init => Service!Init
  BY InitService
<1>2. IInv => ContentsTyped /\ MappingIs
  BY ContentsTypes, MappingHolds DEF ContentsTyped
<1>3. ASSUME IInv, HopBudget, QueueInv, ContentsTyped, ContentsTyped', MappingIs, MappingIs',
             [Next]_gridVars
      PROVE  [Service!Next]_(Service!vars)
  <2>1. QueueStep /\ ~Overrun
    BY <1>3, NextQueueStep, NoOverrun
  <2>2. /\ Queues \in QueueMap /\ Queues' \in QueueMap
        /\ \/ Queues' = Queues
           \/ \E c, d \in Place : /\ Carries(c, d)
                                  /\ Moves(Queues, Queues', c, d)
                                  /\ Advances(c, d, Queues[c][1])
    BY <1>3, <2>1, LetterStep
  <2>3. QED BY <1>3, <2>2, ServiceStep
<1>4. QED
  BY <1>1, <1>2, <1>3, Consistent, HopBudgetHolds, QueuesHold, PTL
  DEF Spec, ImplementsService, Service!Spec
=============================================================================
