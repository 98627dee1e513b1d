------------------------- MODULE TaskSchedulerProofs -------------------------
(***************************************************************************)
(* The lists of the scheduler, for every number of TCBs and of jobs, every *)
(* sequence of FMTK_StartTask calls and every sleep, whatever callers do.  *)
(***************************************************************************)
EXTENDS TaskScheduler, TLAPS

(***************************************************************************)
(* Doubly linked rings.  R is the set of ready tasks, cl the class of each *)
(* task; nx, pv and hd are next, prev and readyQ.                          *)
(***************************************************************************)
Linked(R, cl, nx, pv) ==
  \A x \in R : /\ nx[x] \in R /\ pv[x] \in R
               /\ cl[nx[x]] = cl[x] /\ cl[pv[x]] = cl[x]
               /\ pv[nx[x]] = x /\ nx[pv[x]] = x

Heads(R, cl, hd) ==
  \A c \in Class : \/ hd[c] = -1 /\ \A x \in R : cl[x] # c
                   \/ hd[c] \in R /\ cl[hd[c]] = c

\* next and prev with t in front of h, with t in a ring of its own, and without t.
InNext(nx, pv, t, h) == [nx EXCEPT ![t] = h, ![pv[h]] = t]
InPrev(nx, pv, t, h) == [pv EXCEPT ![t] = pv[h], ![h] = t]
Self(f, t) == [f EXCEPT ![t] = t]
Put(hd, c, t) == [hd EXCEPT ![c] = t]
CutNext(nx, pv, t) == [[nx EXCEPT ![pv[t]] = nx[t]] EXCEPT ![t] = -1]
CutPrev(nx, pv, t) == [[pv EXCEPT ![nx[t]] = pv[t]] EXCEPT ![t] = -1]

\* Insertion in front of the head keeps the rings.
LEMMA InsertKeepsRing ==
  ASSUME NEW R \in SUBSET Tcb, NEW cl, NEW nx \in [Tcb -> Link], NEW pv \in [Tcb -> Link],
         NEW t \in Tcb, t \notin R, NEW h \in R, cl[h] = cl[t], Linked(R, cl, nx, pv)
  PROVE  /\ Linked(R \cup {t}, cl, InNext(nx, pv, t, h), InPrev(nx, pv, t, h))
         /\ InNext(nx, pv, t, h) \in [Tcb -> Link] /\ InPrev(nx, pv, t, h) \in [Tcb -> Link]
<1> DEFINE nx2 == InNext(nx, pv, t, h)
           pv2 == InPrev(nx, pv, t, h)
<1>1. pv[h] \in R /\ cl[pv[h]] = cl[t] /\ nx[pv[h]] = h
  BY DEF Linked
<1>2. \A x \in Tcb : nx2[x] = IF x = pv[h] THEN t ELSE IF x = t THEN h ELSE nx[x]
  BY <1>1 DEF InNext, InPrev
<1>3. \A x \in Tcb : pv2[x] = IF x = h THEN t ELSE IF x = t THEN pv[h] ELSE pv[x]
  BY <1>1 DEF InNext, InPrev
<1>4. nx2 \in [Tcb -> Link] /\ pv2 \in [Tcb -> Link]
  BY <1>1 DEF Tcb, Link, InNext, InPrev
<1> HIDE DEF nx2, pv2
<1>5. ASSUME NEW x \in R
      PROVE  /\ nx2[x] \in R \cup {t} /\ pv2[x] \in R \cup {t}
             /\ cl[nx2[x]] = cl[x] /\ cl[pv2[x]] = cl[x]
             /\ pv2[nx2[x]] = x /\ nx2[pv2[x]] = x
  <2>1. x \in Tcb /\ x # t /\ nx[x] \in R /\ pv[x] \in R /\ pv[nx[x]] = x /\ nx[pv[x]] = x
        /\ cl[nx[x]] = cl[x] /\ cl[pv[x]] = cl[x]
    BY <1>5 DEF Linked
  <2>2. nx[x] \in Tcb /\ pv[x] \in Tcb /\ pv[h] \in Tcb
    BY <2>1, <1>1
  <2>3. nx2[x] \in R \cup {t} /\ cl[nx2[x]] = cl[x] /\ pv2[nx2[x]] = x
    <3>1. CASE x = pv[h]
      BY <1>1, <1>2, <1>3, <2>1, <2>2, <3>1
    <3>2. CASE x # pv[h]
      <4>1. nx2[x] = nx[x] /\ nx[x] # h /\ nx[x] # t
        BY <1>1, <1>2, <2>1, <2>2, <3>2
      <4>2. QED BY <4>1, <1>3, <2>1, <2>2
    <3>3. QED BY <3>1, <3>2
  <2>4. pv2[x] \in R \cup {t} /\ cl[pv2[x]] = cl[x] /\ nx2[pv2[x]] = x
    <3>1. CASE x = h
      BY <1>1, <1>2, <1>3, <2>1, <2>2, <3>1
    <3>2. CASE x # h
      <4>1. pv2[x] = pv[x] /\ pv[x] # pv[h] /\ pv[x] # t
        BY <1>1, <1>3, <2>1, <2>2, <3>2
      <4>2. QED BY <4>1, <1>2, <2>1, <2>2
    <3>3. QED BY <3>1, <3>2
  <2>5. QED BY <2>3, <2>4
<1>6. /\ nx2[t] \in R \cup {t} /\ pv2[t] \in R \cup {t}
      /\ cl[nx2[t]] = cl[t] /\ cl[pv2[t]] = cl[t] /\ pv2[nx2[t]] = t /\ nx2[pv2[t]] = t
  BY <1>1, <1>2, <1>3
<1>7. QED BY <1>4, <1>5, <1>6 DEF Linked, nx2, pv2

\* A ring of one.
LEMMA NewRing ==
  ASSUME NEW R \in SUBSET Tcb, NEW cl, NEW nx \in [Tcb -> Link], NEW pv \in [Tcb -> Link],
         NEW t \in Tcb, t \notin R, Linked(R, cl, nx, pv)
  PROVE  /\ Linked(R \cup {t}, cl, Self(nx, t), Self(pv, t))
         /\ Self(nx, t) \in [Tcb -> Link] /\ Self(pv, t) \in [Tcb -> Link]
<1> DEFINE nx2 == Self(nx, t)
           pv2 == Self(pv, t)
<1>1. nx2 \in [Tcb -> Link] /\ pv2 \in [Tcb -> Link]
  BY DEF Tcb, Link, Self
<1>2. ASSUME NEW x \in R
      PROVE  nx[x] \in R /\ pv[x] \in R /\ nx2[x] = nx[x] /\ pv2[x] = pv[x]
             /\ nx2[pv[x]] = nx[pv[x]] /\ pv2[nx[x]] = pv[nx[x]]
  <2>1. nx[x] \in R /\ pv[x] \in R
    BY DEF Linked
  <2>2. x # t /\ nx[x] # t /\ pv[x] # t /\ x \in Tcb /\ nx[x] \in Tcb /\ pv[x] \in Tcb
    BY <2>1
  <2>3. QED BY <2>1, <2>2 DEF Self
<1>3. nx2[t] = t /\ pv2[t] = t
  BY DEF Self
<1> HIDE DEF nx2, pv2
<1>4. ASSUME NEW x \in R
      PROVE  /\ nx2[x] \in R \cup {t} /\ pv2[x] \in R \cup {t}
             /\ cl[nx2[x]] = cl[x] /\ cl[pv2[x]] = cl[x]
             /\ pv2[nx2[x]] = x /\ nx2[pv2[x]] = x
  BY <1>2 DEF Linked
<1>5. QED BY <1>1, <1>3, <1>4 DEF Linked, nx2, pv2

\* Removal joins the neighbours.
LEMMA RemoveKeepsRing ==
  ASSUME NEW R \in SUBSET Tcb, NEW cl, NEW nx \in [Tcb -> Link], NEW pv \in [Tcb -> Link],
         NEW t \in R, Linked(R, cl, nx, pv)
  PROVE  /\ Linked(R \ {t}, cl, CutNext(nx, pv, t), CutPrev(nx, pv, t))
         /\ CutNext(nx, pv, t) \in [Tcb -> Link] /\ CutPrev(nx, pv, t) \in [Tcb -> Link]
<1> DEFINE nx2 == CutNext(nx, pv, t)
           pv2 == CutPrev(nx, pv, t)
<1>1. t \in Tcb /\ nx[t] \in R /\ pv[t] \in R /\ pv[nx[t]] = t /\ nx[pv[t]] = t
      /\ cl[nx[t]] = cl[t] /\ cl[pv[t]] = cl[t]
  BY DEF Linked
<1>2. nx[t] \in Tcb /\ pv[t] \in Tcb /\ -1 \in Link
  BY <1>1, SchedulerAssumption, SMTT(30) DEF Link, Tcb
<1>3. \A x \in Tcb : nx2[x] = IF x = t THEN -1 ELSE IF x = pv[t] THEN nx[t] ELSE nx[x]
  BY <1>1, <1>2 DEF CutNext, CutPrev
<1>4. \A x \in Tcb : pv2[x] = IF x = t THEN -1 ELSE IF x = nx[t] THEN pv[t] ELSE pv[x]
  BY <1>1, <1>2 DEF CutNext, CutPrev
<1>5. nx2 \in [Tcb -> Link] /\ pv2 \in [Tcb -> Link]
  BY <1>1, <1>2 DEF CutNext, CutPrev
<1> HIDE DEF nx2, pv2
<1>6. ASSUME NEW x \in R \ {t}
      PROVE  /\ nx2[x] \in R \ {t} /\ pv2[x] \in R \ {t}
             /\ cl[nx2[x]] = cl[x] /\ cl[pv2[x]] = cl[x]
             /\ pv2[nx2[x]] = x /\ nx2[pv2[x]] = x
  <2>1. x \in Tcb /\ x # t /\ nx[x] \in R /\ pv[x] \in R /\ pv[nx[x]] = x /\ nx[pv[x]] = x
        /\ cl[nx[x]] = cl[x] /\ cl[pv[x]] = cl[x]
    BY <1>6 DEF Linked
  <2>2. nx[x] \in Tcb /\ pv[x] \in Tcb
    BY <2>1
  <2>3. nx2[x] \in R \ {t} /\ cl[nx2[x]] = cl[x] /\ pv2[nx2[x]] = x
    <3>1. CASE x = pv[t]
      <4>1. nx[t] # t
        BY <1>1, <2>1, <3>1
      <4>2. nx2[x] = nx[t] /\ pv2[nx[t]] = pv[t]
        BY <4>1, <1>2, <1>3, <1>4, <2>1, <3>1
      <4>3. cl[nx[t]] = cl[x] /\ nx[t] \in R \ {t}
        BY <4>1, <1>1, <3>1
      <4>4. QED BY <4>2, <4>3, <3>1
    <3>2. CASE x # pv[t]
      <4>1. nx2[x] = nx[x] /\ nx[x] # t /\ nx[x] # nx[t]
        BY <1>1, <1>3, <2>1, <3>2
      <4>2. QED BY <4>1, <1>4, <2>1, <2>2
    <3>3. QED BY <3>1, <3>2
  <2>4. pv2[x] \in R \ {t} /\ cl[pv2[x]] = cl[x] /\ nx2[pv2[x]] = x
    <3>1. CASE x = nx[t]
      BY <1>1, <1>2, <1>3, <1>4, <2>1, <3>1
    <3>2. CASE x # nx[t]
      <4>1. pv2[x] = pv[x] /\ pv[x] # t /\ pv[x] # pv[t]
        BY <1>1, <1>4, <2>1, <3>2
      <4>2. QED BY <4>1, <1>3, <2>1, <2>2
    <3>3. QED BY <3>1, <3>2
  <2>5. QED BY <2>3, <2>4
<1>7. Linked(R \ {t}, cl, nx2, pv2)
  BY <1>6 DEF Linked
<1>8. QED BY <1>1, <1>3, <1>5, <1>7 DEF nx2, pv2

(***************************************************************************)
(* A set of tasks that next does not leave holds whole classes: there is   *)
(* one ring for each class.                                                *)
(***************************************************************************)
Closed(S, nx) == \A x \in S : nx[x] \in S
Connected(R, cl, nx) ==
  \A S \in SUBSET R : Closed(S, nx) => \A x \in S, y \in R : cl[x] = cl[y] => y \in S

LEMMA InsertKeepsConnected ==
  ASSUME NEW R \in SUBSET Tcb, NEW cl, NEW nx \in [Tcb -> Link], NEW pv \in [Tcb -> Link],
         NEW t \in Tcb, t \notin R, NEW h \in R, cl[h] = cl[t], Linked(R, cl, nx, pv),
         Connected(R, cl, nx)
  PROVE  Connected(R \cup {t}, cl, InNext(nx, pv, t, h))
<1> DEFINE nx2 == InNext(nx, pv, t, h)
<1>1. pv[h] \in R /\ cl[pv[h]] = cl[t] /\ nx[pv[h]] = h
  BY DEF Linked
<1>2. \A x \in Tcb : nx2[x] = IF x = pv[h] THEN t ELSE IF x = t THEN h ELSE nx[x]
  BY <1>1 DEF InNext
<1> HIDE DEF nx2
<1>3. SUFFICES ASSUME NEW S \in SUBSET (R \cup {t}), Closed(S, nx2),
                      NEW x \in S, NEW y \in R \cup {t}, cl[x] = cl[y]
               PROVE  y \in S
  BY DEF Connected, nx2
<1> DEFINE U == S \ {t}
<1>4. U \in SUBSET R /\ \A u \in U : u \in Tcb /\ u # t
  OBVIOUS
<1>5. t \in S => h \in S
  BY <1>1, <1>2, <1>3 DEF Closed
<1>6. \A u \in U : nx[u] \in U
  <2>1. SUFFICES ASSUME NEW u \in U PROVE nx[u] \in U
    OBVIOUS
  <2>2. nx[u] \in R /\ nx2[u] \in S
    BY <1>3, <1>4 DEF Linked, Closed
  <2>3. CASE u = pv[h]
    <3>1. t \in S
      BY <1>1, <1>2, <2>2, <2>3
    <3>2. QED BY <3>1, <1>1, <1>5, <2>3
  <2>4. CASE u # pv[h]
    BY <1>2, <1>4, <2>2, <2>4
  <2>5. QED BY <2>3, <2>4
<1>7. \A u \in U, v \in R : cl[u] = cl[v] => v \in U
  BY <1>4, <1>6 DEF Connected, Closed
<1>8. \E u \in U : cl[u] = cl[x]
  <2>1. CASE x = t
    BY <1>5, <2>1
  <2>2. CASE x # t
    BY <2>2
  <2>3. QED BY <2>1, <2>2
<1>9. CASE y = t
  <2>1. pv[h] \in U
    BY <1>1, <1>3, <1>7, <1>8, <1>9
  <2>2. nx2[pv[h]] = t
    BY <1>1, <1>2
  <2>3. QED BY <2>1, <2>2, <1>3, <1>9 DEF Closed
<1>10. CASE y # t
  BY <1>3, <1>7, <1>8, <1>10
<1>11. QED BY <1>9, <1>10 DEF nx2

LEMMA NewRingConnected ==
  ASSUME NEW R \in SUBSET Tcb, NEW cl, NEW nx \in [Tcb -> Link], NEW pv,
         NEW t \in Tcb, t \notin R, Linked(R, cl, nx, pv), Connected(R, cl, nx),
         \A x \in R : cl[x] # cl[t]
  PROVE  Connected(R \cup {t}, cl, Self(nx, t))
<1> DEFINE nx2 == Self(nx, t)
<1>1. SUFFICES ASSUME NEW S \in SUBSET (R \cup {t}), Closed(S, nx2),
                      NEW x \in S, NEW y \in R \cup {t}, cl[x] = cl[y], y # x
               PROVE  y \in S
  BY DEF Connected
<1>2. x \in R /\ y \in R
  BY <1>1
<1> DEFINE U == S \ {t}
<1>3. \A u \in U : nx2[u] = nx[u] /\ nx[u] \in R /\ nx2[u] \in S
  BY <1>1 DEF Linked, Closed, Self
<1>4. Closed(U, nx) /\ U \in SUBSET R /\ x \in U
  BY <1>2, <1>3 DEF Closed
<1>5. y \in U
  BY <1>1, <1>2, <1>4 DEF Connected
<1>6. QED BY <1>5 DEF nx2

LEMMA RemoveKeepsConnected ==
  ASSUME NEW R \in SUBSET Tcb, NEW cl, NEW nx \in [Tcb -> Link], NEW pv \in [Tcb -> Link],
         NEW t \in R, Linked(R, cl, nx, pv), Connected(R, cl, nx)
  PROVE  Connected(R \ {t}, cl, CutNext(nx, pv, t))
<1> DEFINE nx2 == CutNext(nx, pv, t)
<1>1. t \in Tcb /\ nx[t] \in R /\ pv[t] \in R /\ pv[nx[t]] = t /\ nx[pv[t]] = t
  BY DEF Linked
<1>2. nx[t] \in Tcb /\ pv[t] \in Tcb /\ -1 \in Link
  BY <1>1, SchedulerAssumption DEF Link, Tcb
<1>3. \A x \in Tcb : nx2[x] = IF x = t THEN -1 ELSE IF x = pv[t] THEN nx[t] ELSE nx[x]
  BY <1>1, <1>2 DEF CutNext
<1> HIDE DEF nx2
<1>4. SUFFICES ASSUME NEW S \in SUBSET (R \ {t}), Closed(S, nx2),
                      NEW x \in S, NEW y \in R \ {t}, cl[x] = cl[y]
               PROVE  y \in S
  BY DEF Connected, nx2
<1> DEFINE U == IF pv[t] \in S THEN S \cup {t} ELSE S
<1>5. U \in SUBSET R /\ S \subseteq U
  OBVIOUS
<1>6. \A u \in S : u \in Tcb /\ u # t /\ nx2[u] \in S
  BY <1>4 DEF Closed
<1>7. \A u \in U : nx[u] \in U
  <2>1. SUFFICES ASSUME NEW u \in U PROVE nx[u] \in U
    OBVIOUS
  <2>2. CASE u = t
    <3>1. pv[t] \in S
      BY <1>6, <2>1, <2>2
    <3>2. nx2[pv[t]] = nx[t] /\ nx2[pv[t]] \in S
      BY <1>3, <1>6, <3>1
    <3>3. QED BY <3>2, <1>5, <2>2
  <2>3. CASE u # t /\ u = pv[t]
    BY <1>1, <2>1, <2>3
  <2>4. CASE u # t /\ u # pv[t]
    <3>1. u \in S
      BY <2>1, <2>4
    <3>2. nx2[u] = nx[u] /\ nx2[u] \in S
      BY <1>3, <1>6, <2>4, <3>1
    <3>3. QED BY <3>2, <1>5
  <2>5. QED BY <2>2, <2>3, <2>4
<1>8. y \in U
  BY <1>4, <1>5, <1>7 DEF Connected, Closed
<1>9. QED BY <1>8 DEF nx2

\* With its last task, a ring leaves nothing of its class.
LEMMA LastOfRing ==
  ASSUME NEW R \in SUBSET Tcb, NEW cl, NEW nx, NEW t \in R, nx[t] = t, Connected(R, cl, nx)
  PROVE  \A x \in R : cl[x] = cl[t] => x = t
<1>1. {t} \in SUBSET R /\ Closed({t}, nx)
  BY DEF Closed
<1>2. QED BY <1>1 DEF Connected

(***************************************************************************)
(* The queues of all classes.                                              *)
(***************************************************************************)
Rings(R, cl, nx, pv, hd) == Linked(R, cl, nx, pv) /\ Connected(R, cl, nx) /\ Heads(R, cl, hd)

LEMMA SameClasses ==
  ASSUME NEW R, NEW cl, NEW cl2, NEW nx, NEW pv, NEW hd, \A x \in R : cl2[x] = cl[x],
         Rings(R, cl, nx, pv, hd)
  PROVE  Rings(R, cl2, nx, pv, hd)
<1>1. Linked(R, cl2, nx, pv)
  BY DEF Rings, Linked
<1>2. Connected(R, cl2, nx)
  BY DEF Rings, Connected
<1>3. Heads(R, cl2, hd)
  BY DEF Rings, Heads
<1>4. QED BY <1>1, <1>2, <1>3 DEF Rings

\* t joins the ring of the head h of its class.
LEMMA InsertKeepsRings ==
  ASSUME NEW R \in SUBSET Tcb, NEW cl, NEW nx \in [Tcb -> Link], NEW pv \in [Tcb -> Link], NEW hd,
         NEW t \in Tcb, t \notin R, Rings(R, cl, nx, pv, hd), NEW h \in R, cl[h] = cl[t]
  PROVE  /\ Rings(R \cup {t}, cl, InNext(nx, pv, t, h), InPrev(nx, pv, t, h), hd)
         /\ InNext(nx, pv, t, h) \in [Tcb -> Link] /\ InPrev(nx, pv, t, h) \in [Tcb -> Link]
<1>1. Linked(R, cl, nx, pv) /\ Connected(R, cl, nx) /\ Heads(R, cl, hd)
  BY DEF Rings
<1>2. /\ Linked(R \cup {t}, cl, InNext(nx, pv, t, h), InPrev(nx, pv, t, h))
      /\ InNext(nx, pv, t, h) \in [Tcb -> Link] /\ InPrev(nx, pv, t, h) \in [Tcb -> Link]
  BY <1>1, InsertKeepsRing
<1>3. Connected(R \cup {t}, cl, InNext(nx, pv, t, h))
  BY <1>1, InsertKeepsConnected
<1>4. Heads(R \cup {t}, cl, hd)
  <2>1. SUFFICES ASSUME NEW c \in Class
                 PROVE  \/ hd[c] = -1 /\ \A x \in R \cup {t} : cl[x] # c
                        \/ hd[c] \in R \cup {t} /\ cl[hd[c]] = c
    BY DEF Heads
  <2>2. (hd[c] = -1 /\ \A x \in R : cl[x] # c) \/ (hd[c] \in R /\ cl[hd[c]] = c)
    BY <1>1 DEF Heads
  <2>3. QED BY <2>2
<1>5. QED BY <1>2, <1>3, <1>4 DEF Rings

\* t is the first of its class.
LEMMA FirstKeepsRings ==
  ASSUME NEW R \in SUBSET Tcb, NEW cl \in [Tcb -> Class],
         NEW nx \in [Tcb -> Link], NEW pv \in [Tcb -> Link], NEW hd \in [Class -> Link],
         NEW t \in Tcb, t \notin R, Rings(R, cl, nx, pv, hd), \A x \in R : cl[x] # cl[t],
         NEW c0, c0 = cl[t]
  PROVE  /\ Rings(R \cup {t}, cl, Self(nx, t), Self(pv, t), Put(hd, c0, t))
         /\ Self(nx, t) \in [Tcb -> Link] /\ Self(pv, t) \in [Tcb -> Link]
         /\ Put(hd, c0, t) \in [Class -> Link]
<1> DEFINE hd2 == Put(hd, c0, t)
<1>1. c0 \in Class /\ t \in Link
  BY DEF Tcb, Link
<1>2. Linked(R, cl, nx, pv) /\ Connected(R, cl, nx) /\ Heads(R, cl, hd)
  BY DEF Rings
<1>3. /\ Linked(R \cup {t}, cl, Self(nx, t), Self(pv, t))
      /\ Self(nx, t) \in [Tcb -> Link] /\ Self(pv, t) \in [Tcb -> Link]
  BY <1>2, NewRing
<1>4. Connected(R \cup {t}, cl, Self(nx, t))
  BY <1>2, NewRingConnected
<1>5. hd2 \in [Class -> Link] /\ \A c \in Class : hd2[c] = IF c = c0 THEN t ELSE hd[c]
  BY <1>1 DEF Put
<1> HIDE DEF hd2
<1>6. Heads(R \cup {t}, cl, hd2)
  <2>1. SUFFICES ASSUME NEW c \in Class
                 PROVE  \/ hd2[c] = -1 /\ \A x \in R \cup {t} : cl[x] # c
                        \/ hd2[c] \in R \cup {t} /\ cl[hd2[c]] = c
    BY DEF Heads
  <2>2. (hd[c] = -1 /\ \A x \in R : cl[x] # c) \/ (hd[c] \in R /\ cl[hd[c]] = c)
    BY <1>2 DEF Heads
  <2>3. CASE c = c0
    BY <1>5, <2>3
  <2>4. CASE c # c0
    BY <1>5, <2>2, <2>4
  <2>5. QED BY <2>3, <2>4
<1>7. QED BY <1>3, <1>4, <1>5, <1>6 DEF Rings, hd2

\* The head of a class after t has left it.
NewHead(hd, nx, t, c) == IF t # hd[c] THEN hd[c] ELSE IF t = nx[t] THEN -1 ELSE nx[t]
CutHead(hd, nx, t, c) == [hd EXCEPT ![c] = NewHead(hd, nx, t, c)]

LEMMA RemoveKeepsRings ==
  ASSUME NEW R \in SUBSET Tcb, NEW cl \in [Tcb -> Class],
         NEW nx \in [Tcb -> Link], NEW pv \in [Tcb -> Link], NEW hd \in [Class -> Link],
         NEW t \in R, Rings(R, cl, nx, pv, hd), NEW c0, c0 = cl[t]
  PROVE  /\ Rings(R \ {t}, cl, CutNext(nx, pv, t), CutPrev(nx, pv, t), CutHead(hd, nx, t, c0))
         /\ CutNext(nx, pv, t) \in [Tcb -> Link] /\ CutPrev(nx, pv, t) \in [Tcb -> Link]
         /\ CutHead(hd, nx, t, c0) \in [Class -> Link]
<1> DEFINE h == NewHead(hd, nx, t, c0)
           hd2 == CutHead(hd, nx, t, c0)
<1>1. Linked(R, cl, nx, pv) /\ Connected(R, cl, nx) /\ Heads(R, cl, hd)
  BY DEF Rings
<1>2. t \in Tcb /\ c0 \in Class /\ nx[t] \in R /\ cl[nx[t]] = c0 /\ -1 \in Link
  BY <1>1, SchedulerAssumption DEF Linked, Link
<1>3. /\ Linked(R \ {t}, cl, CutNext(nx, pv, t), CutPrev(nx, pv, t))
      /\ CutNext(nx, pv, t) \in [Tcb -> Link] /\ CutPrev(nx, pv, t) \in [Tcb -> Link]
  BY <1>1, RemoveKeepsRing
<1>4. Connected(R \ {t}, cl, CutNext(nx, pv, t))
  BY <1>1, RemoveKeepsConnected
<1>5. \/ h = -1 /\ \A x \in R \ {t} : cl[x] # c0
      \/ h \in R \ {t} /\ cl[h] = c0
  <2>1. (hd[c0] = -1 /\ \A x \in R : cl[x] # c0) \/ (hd[c0] \in R /\ cl[hd[c0]] = c0)
    BY <1>1, <1>2 DEF Heads
  <2>2. hd[c0] \in R /\ cl[hd[c0]] = c0
    BY <2>1
  <2>3. CASE t = hd[c0] /\ t = nx[t]
    <3>1. \A x \in R : cl[x] = cl[t] => x = t
      BY <1>1, <2>3, LastOfRing
    <3>2. QED BY <3>1, <2>3 DEF NewHead
  <2>4. CASE t = hd[c0] /\ t # nx[t]
    BY <1>2, <2>4 DEF NewHead
  <2>5. CASE t # hd[c0]
    BY <2>2, <2>5 DEF NewHead
  <2>6. QED BY <2>3, <2>4, <2>5
<1>6. h \in Link
  <2>1. nx[t] \in Link /\ hd[c0] \in Link
    BY <1>2
  <2>2. QED BY <1>2, <2>1 DEF NewHead
<1> HIDE DEF h
<1>7. hd2 \in [Class -> Link] /\ \A c \in Class : hd2[c] = IF c = c0 THEN h ELSE hd[c]
  BY <1>2, <1>6 DEF CutHead, h
<1> HIDE DEF hd2
<1>8. Heads(R \ {t}, cl, hd2)
  <2>1. SUFFICES ASSUME NEW c \in Class
                 PROVE  \/ hd2[c] = -1 /\ \A x \in R \ {t} : cl[x] # c
                        \/ hd2[c] \in R \ {t} /\ cl[hd2[c]] = c
    BY DEF Heads
  <2>2. CASE c = c0
    BY <1>5, <1>7, <2>2
  <2>3. CASE c # c0
    <3>1. hd2[c] = hd[c]
      BY <1>7, <2>3
    <3>2. (hd[c] = -1 /\ \A x \in R : cl[x] # c) \/ (hd[c] \in R /\ cl[hd[c]] = c)
      BY <1>1 DEF Heads
    <3>3. CASE hd[c] = -1 /\ (\A x \in R : cl[x] # c)
      BY <3>1, <3>3
    <3>4. CASE hd[c] \in R /\ cl[hd[c]] = c
      BY <3>1, <3>4, <2>3
    <3>5. QED BY <3>2, <3>3, <3>4
  <2>4. QED BY <2>2, <2>3
<1>9. QED BY <1>3, <1>4, <1>7, <1>8 DEF Rings, hd2

\* The rings of R lie in R.
LEMMA RingsFrame ==
  ASSUME NEW R, NEW cl, NEW nx, NEW pv, NEW nx2, NEW pv2, NEW hd, Rings(R, cl, nx, pv, hd),
         \A x \in R : nx2[x] = nx[x] /\ pv2[x] = pv[x]
  PROVE  Rings(R, cl, nx2, pv2, hd)
<1>1. Linked(R, cl, nx2, pv2)
  BY DEF Rings, Linked
<1>2. Connected(R, cl, nx2)
  <2>1. SUFFICES ASSUME NEW S \in SUBSET R, Closed(S, nx2), NEW x \in S, NEW y \in R, cl[x] = cl[y]
                 PROVE  y \in S
    BY DEF Connected
  <2>2. Closed(S, nx)
    BY <2>1 DEF Closed
  <2>3. QED BY <2>1, <2>2 DEF Rings, Connected
<1>3. QED BY <1>1, <1>2 DEF Rings

(***************************************************************************)
(* The timeout list.  L is the set of the tasks in it and hd the first.    *)
(* Whatever holds the first and what next leads to holds all of L.         *)
(***************************************************************************)
Neighbours(L, nx, pv) ==
  \A x \in L : /\ nx[x] \in L \cup {-1} /\ pv[x] \in L \cup {-1}
               /\ nx[x] \in L => pv[nx[x]] = x
               /\ pv[x] \in L => nx[pv[x]] = x
Onward(S, L, nx) == \A x \in S : nx[x] \in L => nx[x] \in S
Reached(L, nx, hd) == \A S \in SUBSET L : hd \in S /\ Onward(S, L, nx) => S = L
Listing(L, nx, pv, hd) ==
  /\ \/ hd = -1 /\ L = {}
     \/ hd \in L /\ pv[hd] = -1
  /\ Neighbours(L, nx, pv) /\ Reached(L, nx, hd)

LEMMA ListFrame ==
  ASSUME NEW L, NEW nx, NEW pv, NEW nx2, NEW pv2, NEW hd, Listing(L, nx, pv, hd),
         \A x \in L : nx2[x] = nx[x] /\ pv2[x] = pv[x]
  PROVE  Listing(L, nx2, pv2, hd)
<1>1. Neighbours(L, nx2, pv2)
  BY DEF Listing, Neighbours
<1>2. Reached(L, nx2, hd)
  <2>1. SUFFICES ASSUME NEW S \in SUBSET L, hd \in S, Onward(S, L, nx2) PROVE S = L
    BY DEF Reached
  <2>2. Onward(S, L, nx)
    BY <2>1 DEF Onward
  <2>3. QED BY <2>1, <2>2 DEF Listing, Reached
<1>3. QED BY <1>1, <1>2 DEF Listing

LEMMA NoTcb == -1 \notin Tcb
BY SchedulerAssumption DEF Tcb

\* PopTimeoutList: the second becomes the first.
LEMMA ListPop ==
  ASSUME NEW L \in SUBSET Tcb, NEW nx, NEW pv, NEW pv2, NEW hd \in L, Listing(L, nx, pv, hd),
         \A x \in L : pv2[x] = IF x = nx[hd] THEN -1 ELSE pv[x]
  PROVE  Listing(L \ {hd}, nx, pv2, nx[hd])
<1> DEFINE L2 == L \ {hd}
           h2 == nx[hd]
<1>1. pv[hd] = -1 /\ h2 \in L \cup {-1} /\ (h2 \in L => pv[h2] = hd)
  BY NoTcb DEF Listing, Neighbours
<1>2. h2 # hd
  BY <1>1, NoTcb
<1>3. Neighbours(L2, nx, pv2)
  <2>1. SUFFICES ASSUME NEW x \in L2
                 PROVE  /\ nx[x] \in L2 \cup {-1} /\ pv2[x] \in L2 \cup {-1}
                        /\ nx[x] \in L2 => pv2[nx[x]] = x
                        /\ pv2[x] \in L2 => nx[pv2[x]] = x
    BY DEF Neighbours
  <2>2. /\ nx[x] \in L \cup {-1} /\ pv[x] \in L \cup {-1}
        /\ nx[x] \in L => pv[nx[x]] = x
        /\ pv[x] \in L => nx[pv[x]] = x
    BY DEF Listing, Neighbours
  <2>3. nx[x] # hd
    BY <1>1, <2>2, NoTcb
  <2>4. nx[x] \in L2 => nx[x] # h2
    BY <1>1, <2>1, <2>2
  <2>5. nx[x] \in L2 \cup {-1} /\ (nx[x] \in L2 => pv2[nx[x]] = x)
    BY <2>2, <2>3, <2>4
  <2>6. pv2[x] \in L2 \cup {-1} /\ (pv2[x] \in L2 => nx[pv2[x]] = x)
    <3>1. CASE x = h2
      BY <3>1, NoTcb
    <3>2. CASE x # h2
      <4>1. pv2[x] = pv[x]
        BY <3>2
      <4>2. pv[x] # hd
        BY <2>2, <3>2
      <4>3. QED BY <2>2, <4>1, <4>2
    <3>3. QED BY <3>1, <3>2
  <2>7. QED BY <2>5, <2>6
<1>4. Reached(L2, nx, h2)
  <2>1. SUFFICES ASSUME NEW S \in SUBSET L2, h2 \in S, Onward(S, L2, nx) PROVE S = L2
    BY DEF Reached
  <2> DEFINE U == S \cup {hd}
  <2>2. Onward(U, L, nx)
    BY <2>1 DEF Onward
  <2>3. U = L
    BY <2>2 DEF Listing, Reached
  <2>4. QED BY <2>3
<1>5. h2 = -1 => L2 = {}
  <2>1. ASSUME h2 = -1 PROVE Onward({hd}, L, nx)
    BY <2>1, NoTcb DEF Onward
  <2>2. QED BY <2>1 DEF Listing, Reached
<1>6. h2 \in L => h2 \in L2 /\ pv2[h2] = -1
  BY <1>2
<1>7. QED BY <1>1, <1>3, <1>4, <1>5, <1>6 DEF Listing

\* An entry that is neither the first nor the last leaves the list.
SameOutside(L, f, g) == \A x \in Tcb : x \notin L => f[x] = g[x]
LEMMA ListRemove ==
  ASSUME NEW L \in SUBSET Tcb, NEW nx \in [Tcb -> Link], NEW pv \in [Tcb -> Link], NEW hd,
         NEW t \in L, Listing(L, nx, pv, hd), nx[t] \in L, pv[t] \in L
  PROVE  /\ Listing(L \ {t}, CutNext(nx, pv, t), CutPrev(nx, pv, t), hd)
         /\ CutNext(nx, pv, t) \in [Tcb -> Link] /\ CutPrev(nx, pv, t) \in [Tcb -> Link]
         /\ SameOutside(L, CutNext(nx, pv, t), nx) /\ SameOutside(L, CutPrev(nx, pv, t), pv)
<1> DEFINE nx2 == CutNext(nx, pv, t)
           pv2 == CutPrev(nx, pv, t)
           L2 == L \ {t}
<1>1. t \in Tcb /\ nx[t] \in L /\ pv[t] \in L /\ pv[nx[t]] = t /\ nx[pv[t]] = t
  BY DEF Listing, Neighbours
<1>2. nx[t] \in Tcb /\ pv[t] \in Tcb /\ -1 \in Link
  BY <1>1, SchedulerAssumption, SMTT(30) DEF Link, Tcb
<1>3. \A x \in Tcb : nx2[x] = IF x = t THEN -1 ELSE IF x = pv[t] THEN nx[t] ELSE nx[x]
  BY <1>1, <1>2 DEF CutNext
<1>4. \A x \in Tcb : pv2[x] = IF x = t THEN -1 ELSE IF x = nx[t] THEN pv[t] ELSE pv[x]
  BY <1>1, <1>2 DEF CutPrev
<1>5. nx2 \in [Tcb -> Link] /\ pv2 \in [Tcb -> Link]
  BY <1>1, <1>2 DEF CutNext, CutPrev
<1>6. \A x \in Tcb : x \notin L => nx2[x] = nx[x] /\ pv2[x] = pv[x]
  BY <1>1, <1>3, <1>4
<1> HIDE DEF nx2, pv2
<1>7. hd \in L2 /\ pv[hd] = -1
  BY <1>1, NoTcb DEF Listing
<1>8. t # nx[t]
  <2>1. SUFFICES ASSUME t = nx[t] PROVE FALSE
    OBVIOUS
  <2> DEFINE S == L \ {t}
  <2>2. Onward(S, L, nx)
    <3>1. SUFFICES ASSUME NEW x \in S, nx[x] \in L PROVE nx[x] # t
      BY DEF Onward
    <3>2. pv[nx[x]] = x
      BY <3>1 DEF Listing, Neighbours
    <3>3. QED BY <1>1, <2>1, <3>1, <3>2
  <2>3. QED BY <1>7, <2>2 DEF Listing, Reached
<1>9. Neighbours(L2, nx2, pv2)
  <2>1. SUFFICES ASSUME NEW x \in L2
                 PROVE  /\ nx2[x] \in L2 \cup {-1} /\ pv2[x] \in L2 \cup {-1}
                        /\ nx2[x] \in L2 => pv2[nx2[x]] = x
                        /\ pv2[x] \in L2 => nx2[pv2[x]] = x
    BY DEF Neighbours
  <2>2. /\ nx[x] \in L \cup {-1} /\ pv[x] \in L \cup {-1} /\ x \in Tcb /\ x # t
        /\ nx[x] \in L => pv[nx[x]] = x
        /\ pv[x] \in L => nx[pv[x]] = x
    BY DEF Listing, Neighbours
  <2>3. nx2[x] \in L2 \cup {-1} /\ (nx2[x] \in L2 => pv2[nx2[x]] = x)
    <3>1. CASE x = pv[t]
      <4>1. nx2[x] = nx[t] /\ nx[t] \in L2 /\ pv2[nx[t]] = pv[t]
        BY <1>1, <1>2, <1>3, <1>4, <1>8, <2>2, <3>1
      <4>2. QED BY <3>1, <4>1
    <3>2. CASE x # pv[t]
      <4>1. nx2[x] = nx[x] /\ nx[x] # t
        BY <1>1, <1>3, <2>2, <3>2
      <4>2. ASSUME nx[x] \in L PROVE nx[x] \in Tcb /\ nx[x] # nx[t]
        BY <1>1, <2>2, <4>2
      <4>3. nx[x] \in L => pv2[nx[x]] = x
        BY <1>4, <2>2, <4>1, <4>2
      <4>4. QED BY <2>2, <4>1, <4>3
    <3>3. QED BY <3>1, <3>2
  <2>4. pv2[x] \in L2 \cup {-1} /\ (pv2[x] \in L2 => nx2[pv2[x]] = x)
    <3>1. CASE x = nx[t]
      <4>1. pv[t] # t
        BY <1>1, <1>8
      <4>2. pv2[x] = pv[t] /\ pv[t] \in L2 /\ nx2[pv[t]] = nx[t]
        BY <1>1, <1>2, <1>3, <1>4, <2>2, <3>1, <4>1
      <4>3. QED BY <3>1, <4>2
    <3>2. CASE x # nx[t]
      <4>1. pv2[x] = pv[x] /\ pv[x] # t
        BY <1>1, <1>4, <2>2, <3>2
      <4>2. ASSUME pv[x] \in L PROVE pv[x] \in Tcb /\ pv[x] # pv[t]
        BY <1>1, <2>2, <4>2
      <4>3. pv[x] \in L => nx2[pv[x]] = x
        BY <1>3, <2>2, <4>1, <4>2
      <4>4. QED BY <2>2, <4>1, <4>3
    <3>3. QED BY <3>1, <3>2
  <2>5. QED BY <2>3, <2>4
<1>10. Reached(L2, nx2, hd)
  <2>1. SUFFICES ASSUME NEW S \in SUBSET L2, hd \in S, Onward(S, L2, nx2) PROVE S = L2
    BY DEF Reached
  <2> DEFINE U == IF pv[t] \in S THEN S \cup {t} ELSE S
  <2>2. U \in SUBSET L /\ hd \in U /\ S \subseteq U
    BY <2>1
  <2>3. \A u \in S : u \in Tcb /\ u # t /\ (nx2[u] \in L2 => nx2[u] \in S)
    BY <2>1 DEF Onward
  <2>4. Onward(U, L, nx)
    <3>1. SUFFICES ASSUME NEW u \in U, nx[u] \in L PROVE nx[u] \in U
      BY DEF Onward
    <3>2. CASE u = t
      <4>1. pv[t] \in S
        BY <2>3, <3>1, <3>2
      <4>2. nx2[pv[t]] = nx[t] /\ nx[t] \in L2
        BY <1>1, <1>2, <1>3, <1>8, <2>3, <4>1
      <4>3. QED BY <2>2, <2>3, <3>2, <4>1, <4>2
    <3>3. CASE u # t /\ u = pv[t]
      BY <1>1, <3>1, <3>3
    <3>4. CASE u # t /\ u # pv[t]
      <4>1. u \in S /\ nx2[u] = nx[u]
        BY <1>3, <2>3, <3>1, <3>4
      <4>2. nx[u] # t
        <5>1. pv[nx[u]] = u
          BY <2>2, <3>1 DEF Listing, Neighbours
        <5>2. QED BY <3>4, <5>1
      <4>3. QED BY <2>2, <2>3, <3>1, <4>1, <4>2
    <3>5. QED BY <3>2, <3>3, <3>4
  <2>5. U = L
    BY <2>2, <2>4 DEF Listing, Reached
  <2>6. QED BY <2>5
<1>11. pv2[hd] = -1
  <2>1. hd \in Tcb /\ hd # t /\ hd # nx[t]
    BY <1>1, <1>7, NoTcb
  <2>2. QED BY <1>4, <1>7, <2>1
<1>12. Listing(L2, nx2, pv2, hd)
  BY <1>7, <1>9, <1>10, <1>11 DEF Listing
<1>13. QED BY <1>5, <1>6, <1>12 DEF nx2, pv2, SameOutside

\* An entry between q and p; q is -1 when p is the first.
LEMMA ListInsert ==
  ASSUME NEW L \in SUBSET Tcb, NEW nx \in [Tcb -> Link], NEW pv \in [Tcb -> Link],
         NEW nx2 \in [Tcb -> Link], NEW pv2 \in [Tcb -> Link], NEW hd, NEW hd2, NEW q,
         NEW t \in Tcb, t \notin L, NEW p \in L, Listing(L, nx, pv, hd),
         (q = -1 /\ p = hd /\ hd2 = t) \/ (q \in L /\ nx[q] = p /\ hd2 = hd),
         \A x \in Tcb : nx2[x] = IF x = q THEN t ELSE IF x = t THEN p ELSE nx[x],
         \A x \in Tcb : pv2[x] = IF x = p THEN t ELSE IF x = t THEN q ELSE pv[x]
  PROVE  Listing(L \cup {t}, nx2, pv2, hd2)
<1> DEFINE L2 == L \cup {t}
<1>1. p \in Tcb /\ p # t /\ q # t /\ hd \in L /\ pv[hd] = -1
  BY NoTcb DEF Listing
<1>2. nx2[t] = p /\ pv2[p] = t /\ pv2[t] = q
  BY <1>1
<1>3. q \in L => nx[q] = p /\ pv[p] = q /\ nx2[q] = t
  BY <1>1, NoTcb DEF Listing, Neighbours
<1>4. q \notin L => pv[p] = -1 /\ q = -1
  BY <1>1
<1>5. ASSUME NEW x \in L
      PROVE  /\ nx2[x] \in L2 \cup {-1} /\ pv2[x] \in L2 \cup {-1}
             /\ nx2[x] \in L2 => pv2[nx2[x]] = x
             /\ pv2[x] \in L2 => nx2[pv2[x]] = x
  <2>1. /\ nx[x] \in L \cup {-1} /\ pv[x] \in L \cup {-1} /\ x \in Tcb /\ x # t
        /\ nx[x] \in L => pv[nx[x]] = x
        /\ pv[x] \in L => nx[pv[x]] = x
    BY DEF Listing, Neighbours
  <2>2. nx2[x] \in L2 \cup {-1} /\ (nx2[x] \in L2 => pv2[nx2[x]] = x)
    <3>1. CASE x = q
      BY <1>2, <2>1, <3>1
    <3>2. CASE x # q
      <4>1. nx2[x] = nx[x] /\ nx[x] # t
        BY <2>1, <3>2, NoTcb
      <4>2. nx[x] # p
        BY <1>3, <1>4, <2>1, <3>2, NoTcb
      <4>3. nx[x] \in L => pv2[nx[x]] = x
        BY <2>1, <4>1, <4>2
      <4>4. QED BY <2>1, <4>1, <4>3
    <3>3. QED BY <3>1, <3>2
  <2>3. pv2[x] \in L2 \cup {-1} /\ (pv2[x] \in L2 => nx2[pv2[x]] = x)
    <3>1. CASE x = p
      BY <1>2, <3>1
    <3>2. CASE x # p
      <4>1. pv2[x] = pv[x] /\ pv[x] # t
        BY <2>1, <3>2, NoTcb
      <4>2. pv[x] \in L => pv[x] # q
        BY <1>3, <2>1, <3>2
      <4>3. pv[x] \in L => nx2[pv[x]] = x
        BY <2>1, <4>1, <4>2
      <4>4. QED BY <2>1, <4>1, <4>3
    <3>3. QED BY <3>1, <3>2
  <2>4. QED BY <2>2, <2>3
<1>6. /\ nx2[t] \in L2 \cup {-1} /\ pv2[t] \in L2 \cup {-1}
      /\ nx2[t] \in L2 => pv2[nx2[t]] = t
      /\ pv2[t] \in L2 => nx2[pv2[t]] = t
  BY <1>1, <1>2, <1>3, NoTcb
<1>7. Neighbours(L2, nx2, pv2)
  BY <1>5, <1>6 DEF Neighbours
<1>8. hd2 \in L2 /\ pv2[hd2] = -1
  <2>1. CASE q = -1 /\ p = hd /\ hd2 = t
    BY <1>2, <2>1
  <2>2. CASE q \in L /\ nx[q] = p /\ hd2 = hd
    <3>1. hd # p
      BY <1>1, <1>3, <2>2, NoTcb
    <3>2. QED BY <1>1, <2>2, <3>1
  <2>3. QED BY <2>1, <2>2
<1>9. Reached(L2, nx2, hd2)
  <2>1. SUFFICES ASSUME NEW S \in SUBSET L2, hd2 \in S, Onward(S, L2, nx2) PROVE S = L2
    BY DEF Reached
  <2> DEFINE U == S \ {t}
  <2>2. U \in SUBSET L /\ \A u \in S : u \in Tcb /\ (nx2[u] \in L2 => nx2[u] \in S)
    BY <2>1 DEF Onward
  <2>3. t \in S => p \in U
    BY <1>1, <1>2, <2>2
  <2>4. hd \in U
    BY <1>1, <2>1, <2>3
  <2>5. Onward(U, L, nx)
    <3>1. SUFFICES ASSUME NEW u \in U, nx[u] \in L PROVE nx[u] \in U
      BY DEF Onward
    <3>2. CASE u = q
      <4>1. q \in L /\ nx[q] = p
        BY <2>2, <3>2, NoTcb
      <4>2. t \in S
        BY <1>3, <2>2, <3>1, <3>2, <4>1
      <4>3. QED BY <2>3, <3>2, <4>1, <4>2
    <3>3. CASE u # q
      <4>1. u \in Tcb /\ u # t /\ u \in S /\ nx2[u] = nx[u]
        BY <2>2, <3>3
      <4>2. QED BY <2>2, <3>1, <4>1
    <3>4. QED BY <3>2, <3>3
  <2>6. U = L
    BY <2>2, <2>4, <2>5 DEF Listing, Reached
  <2>7. t \in S
    <3>1. CASE q = -1 /\ p = hd /\ hd2 = t
      BY <2>1, <3>1
    <3>2. CASE q \in L /\ nx[q] = p /\ hd2 = hd
      <4>1. q \in S
        BY <2>6, <3>2
      <4>2. QED BY <1>3, <2>2, <3>2, <4>1
    <3>3. QED BY <3>1, <3>2
  <2>8. QED BY <2>6, <2>7
<1>10. QED BY <1>7, <1>8, <1>9 DEF Listing

(***************************************************************************)
(* The inductive invariant: the queues are the rings of the ready tasks,   *)
(* the timeout list holds every sleeper but the one on its way into it,    *)
(* the TCBs from freeTCB on are free, the walk is at an entry of the       *)
(* timeout list and the search at a task of its queue.                     *)
(***************************************************************************)
Ready == {t \in Tcb : place[t] = "ready"}
Listed == {t \in Tcb : place[t] = "asleep" /\ ~(at = "walk" /\ t = cur)}
Cls == [t \in Tcb |-> ClassOf(t)]

Types ==
  /\ next \in [Tcb -> Link] /\ prev \in [Tcb -> Link] /\ readyQ \in [Class -> Link]
  /\ priority \in [Tcb -> 0 .. 63] /\ place \in [Tcb -> {"ready", "asleep", "free"}]
  /\ cur \in Tcb /\ calls \in Nat
  /\ scan \in [nn : Nat, q : Class, t : Link, kk : Nat]

RingsOK == Rings(Ready, Cls, next, prev, readyQ)
ListOK == Listing(Listed, next, prev, TimeoutList)

FreeOK ==
  /\ \/ freeTCB = -1 /\ \A t \in Tcb : place[t] # "free"
     \/ freeTCB \in Tcb /\ \A t \in Tcb : place[t] = "free" <=> t >= freeTCB
  /\ \A t \in Tcb : place[t] = "free" => next[t] = IF t + 1 < NR_TCB THEN t + 1 ELSE -1

ScanOK == at = "tcb" => scan.t \in Ready /\ Cls[scan.t] = scan.q

WalkOK == at = "walk" =>
  /\ place[cur] = "asleep" /\ walk.p \in Listed
  /\ \/ walk.q = -1 /\ walk.p = TimeoutList
     \/ walk.q \in Listed /\ next[walk.q] = walk.p

SchedInv ==
  /\ Types /\ RingsOK /\ ListOK /\ FreeOK /\ ScanOK /\ WalkOK /\ place[cur] # "free"

LEMMA SchedInit == Init => SchedInv
<1> SUFFICES ASSUME Init PROVE SchedInv
  OBVIOUS
<1>1. /\ 0 \in Tcb /\ 1 \in Tcb /\ 2 \in Tcb /\ -1 \in Link /\ 0 \in Link /\ 1 \in Link /\ 2 \in Link
      /\ NR_TCB \in Nat /\ NR_TCB > 2
  BY SchedulerAssumption DEF Tcb, Link
<1>2. /\ TimeoutList = -1 /\ freeTCB = 2 /\ cur = 0 /\ calls = 0 /\ at = "task" /\ scan = NoScan
  BY DEF Init
<1>3. place = [t \in Tcb |-> IF t \in {0, 1} THEN "ready" ELSE "free"]
  BY DEF Init
<1>4. priority = [t \in Tcb |-> IF t \in {0, 1} THEN 24 ELSE 56]
  BY DEF Init
<1>5. /\ next \in [Tcb -> Link] /\ next[0] = 1 /\ next[1] = 0
      /\ \A t \in Tcb : t >= 2 => next[t] = IF t + 1 < NR_TCB THEN t + 1 ELSE -1
  <2>1. next = [t \in Tcb |->
           CASE t = 0 -> 1 [] t = 1 -> 0 [] t = NR_TCB - 1 -> -1 [] OTHER -> t + 1]
    BY DEF Init
  <2>2. QED BY <1>1, <2>1 DEF Tcb, Link
<1>6. prev \in [Tcb -> Link] /\ prev[0] = 1 /\ prev[1] = 0
  <2>1. prev = [t \in Tcb |-> CASE t = 0 -> 1 [] t = 1 -> 0 [] OTHER -> -1]
    BY DEF Init
  <2>2. QED BY <1>1, <2>1
<1>7. /\ readyQ \in [Class -> Link] /\ readyQ[3] = 0 /\ \A c \in Class : c # 3 => readyQ[c] = -1
  <2>1. readyQ = [c \in Class |-> IF c = 3 THEN 0 ELSE -1]
    BY DEF Init
  <2>2. QED BY <1>1, <2>1 DEF Class
<1>8. Ready = {0, 1}
  BY <1>1, <1>3 DEF Ready
<1>9. Cls[0] = 3 /\ Cls[1] = 3
  BY <1>1, <1>4 DEF Cls, ClassOf
<1>10. Types
  <2>1. priority \in [Tcb -> 0 .. 63] /\ place \in [Tcb -> {"ready", "asleep", "free"}]
    BY <1>3, <1>4
  <2>2. scan \in [nn : Nat, q : Class, t : Link, kk : Nat]
    BY <1>1, <1>2 DEF NoScan, Class
  <2>3. QED BY <1>1, <1>2, <1>5, <1>6, <1>7, <2>1, <2>2 DEF Types
<1>11. RingsOK
  <2>1. Linked(Ready, Cls, next, prev)
    BY <1>5, <1>6, <1>8, <1>9 DEF Linked
  <2>2. Connected(Ready, Cls, next)
    BY <1>5, <1>8 DEF Connected, Closed
  <2>3. Heads(Ready, Cls, readyQ)
    BY <1>7, <1>8, <1>9 DEF Heads
  <2>4. QED BY <2>1, <2>2, <2>3 DEF RingsOK, Rings
<1>12. ListOK
  <2>1. Listed = {}
    BY <1>3 DEF Listed
  <2>2. QED BY <1>2, <2>1 DEF ListOK, Listing, Neighbours, Reached
<1>13. FreeOK
  <2>1. \A t \in Tcb : place[t] = "free" <=> t >= 2
    BY <1>3 DEF Tcb
  <2>2. QED BY <1>1, <1>2, <1>5, <2>1 DEF FreeOK
<1>14. ScanOK /\ WalkOK /\ place[cur] # "free"
  BY <1>1, <1>2, <1>3 DEF ScanOK, WalkOK
<1>15. QED BY <1>10, <1>11, <1>12, <1>13, <1>14 DEF SchedInv

(***************************************************************************)
(* InsertIntoReadyList and RemoveFromReadyList.                            *)
(***************************************************************************)
LEMMA TcbFacts == /\ \A t \in Tcb : t \in Link /\ t >= 0 /\ t \in Int
                  /\ \A l \in Link : l \in Int /\ (l >= 0 => l \in Tcb) /\ (l < 0 => l = -1)
                  /\ -1 \in Link
BY SchedulerAssumption DEF Tcb, Link

LEMMA InsertAction ==
  ASSUME NEW R \in SUBSET Tcb, NEW cl \in [Tcb -> Class], Types, NEW t \in Tcb, t \notin R,
         NEW pv \in [Tcb -> Link], NEW c, c = cl[t], Rings(R, cl, next, pv, readyQ),
         InsertIntoReadyList(t, c, pv)
  PROVE  /\ Rings(R \cup {t}, cl, next', prev', readyQ')
         /\ next' \in [Tcb -> Link] /\ prev' \in [Tcb -> Link] /\ readyQ' \in [Class -> Link]
         /\ \A x \in Tcb : x \notin R \cup {t} => next'[x] = next[x] /\ prev'[x] = pv[x]
<1> DEFINE h == readyQ[c]
<1>1. next \in [Tcb -> Link] /\ readyQ \in [Class -> Link]
  BY DEF Types
<1>2. c \in Class /\ h \in Link
  BY <1>1
<1>3. (h = -1 /\ \A x \in R : cl[x] # c) \/ (h \in R /\ cl[h] = c)
  BY <1>2 DEF Rings, Heads
<1>4. CASE h < 0
  <2>1. h \notin R
    BY <1>4, TcbFacts
  <2>2. \A x \in R : cl[x] # c
    BY <1>3, <2>1
  <2>3. /\ next' = Self(next, t) /\ prev' = Self(pv, t) /\ readyQ' = Put(readyQ, c, t)
    BY <1>4 DEF InsertIntoReadyList, NextWith, PrevWith, Self, Put
  <2>4. /\ Rings(R \cup {t}, cl, Self(next, t), Self(pv, t), Put(readyQ, c, t))
        /\ Self(next, t) \in [Tcb -> Link] /\ Self(pv, t) \in [Tcb -> Link]
        /\ Put(readyQ, c, t) \in [Class -> Link]
    BY <1>1, <2>2, FirstKeepsRings
  <2>5. \A x \in Tcb : x \notin R \cup {t} => next'[x] = next[x] /\ prev'[x] = pv[x]
    BY <1>1, <2>3 DEF Self
  <2>6. QED BY <2>3, <2>4, <2>5
<1>5. CASE ~(h < 0)
  <2>1. h \in R /\ cl[h] = cl[t]
    BY <1>3, <1>5
  <2>2. /\ next' = InNext(next, pv, t, h) /\ prev' = InPrev(next, pv, t, h) /\ readyQ' = readyQ
    BY <1>5 DEF InsertIntoReadyList, NextWith, PrevWith, InNext, InPrev
  <2> HIDE DEF h
  <2>3. /\ Rings(R \cup {t}, cl, InNext(next, pv, t, h), InPrev(next, pv, t, h), readyQ)
        /\ InNext(next, pv, t, h) \in [Tcb -> Link] /\ InPrev(next, pv, t, h) \in [Tcb -> Link]
    BY <1>1, <2>1, InsertKeepsRings
  <2>4. pv[h] \in R
    BY <2>1 DEF Rings, Linked
  <2>5. \A x \in Tcb : x \notin R \cup {t} => next'[x] = next[x] /\ prev'[x] = pv[x]
    BY <1>1, <2>1, <2>2, <2>4 DEF InNext, InPrev
  <2>6. QED BY <1>1, <2>2, <2>3, <2>5
<1>6. QED BY <1>4, <1>5

LEMMA RemoveAction ==
  ASSUME NEW R \in SUBSET Tcb, NEW cl \in [Tcb -> Class], Types, NEW t \in R,
         Rings(R, cl, next, prev, readyQ), NEW c, c = cl[t], RemoveFromReadyList(t, c)
  PROVE  /\ Rings(R \ {t}, cl, next', prev', readyQ') /\ next'[t] = -1 /\ prev'[t] = -1
         /\ next' \in [Tcb -> Link] /\ prev' \in [Tcb -> Link] /\ readyQ' \in [Class -> Link]
         /\ \A x \in Tcb : x \notin R => next'[x] = next[x] /\ prev'[x] = prev[x]
<1>1. next \in [Tcb -> Link] /\ prev \in [Tcb -> Link] /\ readyQ \in [Class -> Link]
  BY DEF Types
<1>2. next' = CutNext(next, prev, t) /\ prev' = CutPrev(next, prev, t)
  BY DEF RemoveFromReadyList, NextWithout, PrevWithout, CutNext, CutPrev
<1>3. readyQ' = CutHead(readyQ, next, t, c)
  BY DEF RemoveFromReadyList, HeadWithout, CutHead, NewHead
<1>4. /\ Rings(R \ {t}, cl, CutNext(next, prev, t), CutPrev(next, prev, t), CutHead(readyQ, next, t, c))
      /\ CutNext(next, prev, t) \in [Tcb -> Link] /\ CutPrev(next, prev, t) \in [Tcb -> Link]
      /\ CutHead(readyQ, next, t, c) \in [Class -> Link]
  BY <1>1, RemoveKeepsRings
<1>5. prev[t] \in R /\ next[t] \in R
  BY DEF Rings, Linked
<1>6. \A x \in Tcb : x \notin R => next'[x] = next[x] /\ prev'[x] = prev[x]
  BY <1>1, <1>2, <1>5 DEF CutNext, CutPrev
<1>7. next'[t] = -1 /\ prev'[t] = -1
  BY <1>1, <1>2 DEF CutNext, CutPrev
<1>8. QED BY <1>2, <1>3, <1>4, <1>6, <1>7

(***************************************************************************)
(* The steps of the kernel.                                                *)
(***************************************************************************)
LEMMA ReadyFacts ==
  ASSUME Types
  PROVE  /\ Ready \in SUBSET Tcb /\ Cls \in [Tcb -> Class]
         /\ \A t \in Tcb : Cls[t] = ClassOf(t) /\ (t \in Ready <=> place[t] = "ready")
<1>1. \A t \in Tcb : ClassOf(t) \in Class
  <2>1. \A t \in Tcb : priority[t] \in 0 .. 63
    BY DEF Types
  <2>2. QED BY <2>1 DEF ClassOf, Class
<1>2. QED BY <1>1 DEF Ready, Cls

\* No task is in two lists.
LEMMA Apart ==
  ASSUME Types
  PROVE  /\ Ready \in SUBSET Tcb /\ Listed \in SUBSET Tcb /\ Ready \cap Listed = {}
         /\ \A t \in Tcb : place[t] = "free" => t \notin Ready /\ t \notin Listed
BY DEF Ready, Listed

\* Steps that leave the lists alone.
LEMMA KeepLists ==
  ASSUME SchedInv,
         UNCHANGED <<next, prev, readyQ, priority, place, TimeoutList, freeTCB, calls>>, Listed' = Listed,
         cur' \in Tcb, place[cur'] # "free", scan' \in [nn : Nat, q : Class, t : Link, kk : Nat],
         at' = "tcb" => scan'.t \in Ready /\ Cls[scan'.t] = scan'.q, WalkOK'
  PROVE  SchedInv'
<1>1. Ready' = Ready /\ Cls' = Cls
  BY DEF Ready, Cls, ClassOf
<1>2. Types'
  BY DEF SchedInv, Types
<1>3. RingsOK'
  BY <1>1 DEF SchedInv, RingsOK
<1>4. ListOK'
  BY DEF SchedInv, ListOK
<1>5. FreeOK'
  BY DEF SchedInv, FreeOK
<1>6. ScanOK'
  BY <1>1 DEF ScanOK
<1>7. QED BY <1>2, <1>3, <1>4, <1>5, <1>6 DEF SchedInv

LEMMA KeepOutsideWalk ==
  ASSUME SchedInv,
         UNCHANGED <<next, prev, readyQ, priority, place, TimeoutList, freeTCB, calls>>,
         at # "walk", at' # "walk",
         cur' \in Tcb, place[cur'] # "free", scan' \in [nn : Nat, q : Class, t : Link, kk : Nat],
         at' = "tcb" => scan'.t \in Ready /\ Cls[scan'.t] = scan'.q
  PROVE  SchedInv'
<1>1. Listed' = Listed /\ WalkOK'
  BY DEF Listed, WalkOK
<1>2. QED BY <1>1, KeepLists

LEMMA ScanFacts ==
  ASSUME SchedInv
  PROVE  /\ scan \in [nn : Nat, q : Class, t : Link, kk : Nat] /\ cur \in Tcb /\ place[cur] # "free"
         /\ NoScan \in [nn : Nat, q : Class, t : Link, kk : Nat]
         /\ \A x \in Ready : next[x] \in Ready /\ Cls[next[x]] = Cls[x] /\ x \in Link
         /\ \A c \in Class : readyQ[c] >= 0 => readyQ[c] \in Ready /\ Cls[readyQ[c]] = c
<1>1. NoScan \in [nn : Nat, q : Class, t : Link, kk : Nat]
  BY TcbFacts DEF NoScan, Class
<1>2. \A x \in Ready : next[x] \in Ready /\ Cls[next[x]] = Cls[x] /\ x \in Link
  BY TcbFacts DEF SchedInv, RingsOK, Rings, Linked, Ready
<1>3. ASSUME NEW c \in Class, readyQ[c] >= 0 PROVE readyQ[c] \in Ready /\ Cls[readyQ[c]] = c
  <2>1. (readyQ[c] = -1 /\ \A x \in Ready : Cls[x] # c) \/ (readyQ[c] \in Ready /\ Cls[readyQ[c]] = c)
    BY DEF SchedInv, RingsOK, Rings, Heads
  <2>2. QED BY <1>3, <2>1
<1>4. QED BY <1>1, <1>2, <1>3 DEF SchedInv, Types

LEMMA SameStep ==
  ASSUME SchedInv,
         UNCHANGED <<next, prev, readyQ, priority, place, TimeoutList, freeTCB, calls, cur, scan, at, walk>>
  PROVE  SchedInv'
<1>1. Listed' = Listed
  BY DEF Listed
<1>2. WalkOK'
  BY <1>1 DEF SchedInv, WalkOK
<1>3. QED BY <1>1, <1>2, ScanFacts, KeepLists DEF SchedInv, ScanOK

LEMMA OutsideStep == ASSUME SchedInv, Wild PROVE SchedInv'
BY SameStep DEF Wild, lists, job, times

LEMMA TickStep == ASSUME SchedInv, MissTick \/ TimerTick \/ Reschedule \/ EndTimeouts PROVE SchedInv'
<1>1. /\ UNCHANGED <<next, prev, readyQ, priority, place, TimeoutList, freeTCB, calls>>
      /\ cur' = cur /\ scan' = scan /\ at \in {"task", "timeouts"} /\ at' \in {"task", "timeouts", "select"}
  <2>1. CASE MissTick
    BY <2>1 DEF MissTick, InTask, lists, job
  <2>2. CASE TimerTick
    BY <2>2 DEF TimerTick, InTask, job
  <2>3. CASE Reschedule
    BY <2>3 DEF Reschedule, InTask, job, times
  <2>4. CASE EndTimeouts
    BY <2>4 DEF EndTimeouts, job, times
  <2>5. QED BY <2>1, <2>2, <2>3, <2>4
<1>2. QED BY <1>1, ScanFacts, KeepOutsideWalk

LEMMA SearchStep == ASSUME SchedInv, StartSelect \/ LookAtQueue \/ PassOver \/ KeepTask PROVE SchedInv'
<1>1. /\ UNCHANGED <<next, prev, readyQ, priority, place, TimeoutList, freeTCB, calls>>
      /\ cur' = cur /\ at # "walk" /\ at' # "walk"
  BY DEF StartSelect, LookAtQueue, PassOver, KeepTask, Selecting, Switch, job, times
<1>2. ASSUME NextQueue PROVE scan' \in [nn : Nat, q : Class, t : Link, kk : Nat]
  BY <1>2, ScanFacts, TcbFacts DEF NextQueue, Class
<1>3. /\ scan' \in [nn : Nat, q : Class, t : Link, kk : Nat]
      /\ at' = "tcb" => scan'.t \in Ready /\ Cls[scan'.t] = scan'.q
  <2>1. CASE StartSelect
    <3>1. StartQ(startQNdx') \in Class
      BY DEF StartQ, Class
    <3>2. QED BY <2>1, <3>1, ScanFacts DEF StartSelect
  <2>2. CASE LookAtQueue
    <3>1. CASE readyQ[scan.q] < 0
      BY <1>2, <2>2, <3>1 DEF LookAtQueue
    <3>2. CASE ~(readyQ[scan.q] < 0)
      <4>1. scan.q \in Class /\ readyQ[scan.q] \in Link
        BY ScanFacts DEF SchedInv, Types
      <4>2. readyQ[scan.q] \in Ready /\ Cls[readyQ[scan.q]] = scan.q
        BY <3>2, <4>1, ScanFacts, TcbFacts
      <4>3. First(readyQ[scan.q]) \in Ready /\ Cls[First(readyQ[scan.q])] = scan.q
            /\ First(readyQ[scan.q]) \in Link
        BY <4>2, ScanFacts DEF First
      <4>4. scan' = [scan EXCEPT !.t = First(readyQ[scan.q])]
        BY <2>2, <3>2 DEF LookAtQueue
      <4>5. QED BY <4>3, <4>4, ScanFacts
    <3>3. QED BY <3>1, <3>2
  <2>3. CASE PassOver
    <3>1. scan.t \in Ready /\ Cls[scan.t] = scan.q
      BY <2>3 DEF PassOver, SchedInv, ScanOK
    <3>2. CASE next[scan.t] # readyQ[scan.q] /\ scan.kk + 1 < NR_TCB
      <4>1. scan' = [scan EXCEPT !.t = next[scan.t], !.kk = scan.kk + 1]
        BY <2>3, <3>2 DEF PassOver
      <4>2. next[scan.t] \in Ready /\ Cls[next[scan.t]] = scan.q /\ next[scan.t] \in Link
        BY <3>1, ScanFacts
      <4>3. scan'.t = next[scan.t] /\ scan'.q = scan.q
            /\ scan' \in [nn : Nat, q : Class, t : Link, kk : Nat]
        <5> DEFINE n == next[scan.t]
                   k == scan.kk + 1
        <5>1. n \in Link /\ k \in Nat
          BY <4>2, ScanFacts
        <5>2. scan' = [scan EXCEPT !.t = n, !.kk = k]
          BY <4>1
        <5> HIDE DEF n, k
        <5>3. scan' \in [nn : Nat, q : Class, t : Link, kk : Nat] /\ scan'.t = n /\ scan'.q = scan.q
          BY <5>1, <5>2, ScanFacts
        <5>4. QED BY <5>3 DEF n
      <4>4. QED BY <4>2, <4>3
    <3>3. CASE ~(next[scan.t] # readyQ[scan.q] /\ scan.kk + 1 < NR_TCB)
      BY <1>2, <2>3, <3>3 DEF PassOver
    <3>4. QED BY <3>2, <3>3
  <2>4. CASE KeepTask
    BY <2>4, ScanFacts DEF KeepTask, Switch
  <2>5. QED BY <2>1, <2>2, <2>3, <2>4
<1>4. QED BY <1>1, <1>3, ScanFacts, KeepOutsideWalk

\* The queue starts at the task that was chosen.
LEMMA ChooseStep == ASSUME SchedInv, Choose PROVE SchedInv'
<1>1. /\ UNCHANGED <<next, prev, priority, place, TimeoutList, freeTCB, calls>>
      /\ cur' = scan.t /\ scan' = NoScan /\ at = "tcb" /\ at' = "task"
      /\ readyQ' = [readyQ EXCEPT ![scan.q] = scan.t]
  BY DEF Choose, Selecting, Switch, job, times
<1>2. scan.t \in Ready /\ Cls[scan.t] = scan.q /\ scan.q \in Class /\ scan.t \in Link
  BY ScanFacts DEF Choose, SchedInv, ScanOK
<1>3. Ready' = Ready /\ Cls' = Cls /\ Listed' = Listed
  BY <1>1 DEF Ready, Cls, ClassOf, Listed
<1>4. readyQ' \in [Class -> Link]
      /\ \A c \in Class : readyQ'[c] = IF c = scan.q THEN scan.t ELSE readyQ[c]
  BY <1>1, <1>2 DEF SchedInv, Types
<1>5. Types' /\ place'[cur'] # "free"
  BY <1>1, <1>2, <1>4, ScanFacts DEF SchedInv, Types, Ready
<1>6. Heads(Ready, Cls, readyQ')
  <2>1. SUFFICES ASSUME NEW c \in Class
                 PROVE  \/ readyQ'[c] = -1 /\ \A x \in Ready : Cls[x] # c
                        \/ readyQ'[c] \in Ready /\ Cls[readyQ'[c]] = c
    BY DEF Heads
  <2>2. (readyQ[c] = -1 /\ \A x \in Ready : Cls[x] # c) \/ (readyQ[c] \in Ready /\ Cls[readyQ[c]] = c)
    BY DEF SchedInv, RingsOK, Rings, Heads
  <2>3. CASE c = scan.q
    BY <1>2, <1>4, <2>3
  <2>4. CASE c # scan.q
    BY <1>4, <2>2, <2>4
  <2>5. QED BY <2>3, <2>4
<1>7. RingsOK'
  BY <1>1, <1>3, <1>6 DEF SchedInv, RingsOK, Rings
<1>8. ListOK' /\ FreeOK' /\ ScanOK' /\ WalkOK'
  BY <1>1, <1>3 DEF SchedInv, ListOK, FreeOK, ScanOK, WalkOK
<1>9. QED BY <1>5, <1>7, <1>8 DEF SchedInv

\* The TCBs from freeTCB on are in order, so the next one is the new freeTCB.
LEMMA StartFacts ==
  ASSUME SchedInv, MayStart, freeTCB >= 0
  PROVE  /\ freeTCB \in Tcb /\ place[freeTCB] = "free" /\ New[1] \in 0 .. 63 /\ calls + 1 \in Nat
         /\ \A t \in Tcb : place[t] = "free" <=> t >= freeTCB
<1>1. freeTCB \in Tcb /\ \A t \in Tcb : place[t] = "free" <=> t >= freeTCB
  BY TcbFacts DEF SchedInv, FreeOK
<1>2. place[freeTCB] = "free"
  BY <1>1, TcbFacts
<1>3. calls \in Nat /\ calls < Len(Starts)
  BY DEF MayStart, SchedInv, Types
<1>4. New[1] \in 0 .. 63
  <2>1. Starts \in Seq((0 .. 63) \X {0, 1} \X Job) /\ calls + 1 \in 1 .. Len(Starts)
    BY <1>3, SchedulerAssumption
  <2>2. Starts[calls + 1] \in (0 .. 63) \X {0, 1} \X Job
    BY <2>1
  <2>3. QED BY <2>2 DEF New
<1>5. QED BY <1>1, <1>2, <1>3, <1>4

\* A free TCB may get any priority.
LEMMA NewPriority ==
  ASSUME SchedInv, NEW t \in Tcb, t \notin Ready, NEW p \in 0 .. 63,
         priority' = [priority EXCEPT ![t] = p]
  PROVE  /\ priority' \in [Tcb -> 0 .. 63] /\ Cls' \in [Tcb -> Class] /\ Cls'[t] = p \div 8
         /\ \A x \in Ready : Cls'[x] = Cls[x]
         /\ Rings(Ready, Cls', next, prev, readyQ)
<1>1. priority' \in [Tcb -> 0 .. 63] /\ priority'[t] = p
      /\ \A x \in Tcb : x # t => priority'[x] = priority[x]
  BY DEF SchedInv, Types
<1>2. Cls' = [x \in Tcb |-> priority'[x] \div 8]
  BY DEF Cls, ClassOf
<1>3. \A x \in Tcb : priority'[x] \div 8 \in Class
  <2>1. \A x \in Tcb : priority'[x] \in 0 .. 63
    BY <1>1
  <2>2. QED BY <2>1 DEF Class
<1>4. Cls' \in [Tcb -> Class] /\ Cls'[t] = p \div 8
  BY <1>1, <1>2, <1>3
<1>5. \A x \in Ready : Cls'[x] = Cls[x]
  BY <1>1, <1>2 DEF Ready, Cls, ClassOf
<1>6. QED BY <1>1, <1>4, <1>5, SameClasses DEF SchedInv, RingsOK

LEMMA StartTaskStep == ASSUME SchedInv, FMTK_StartTask PROVE SchedInv'
<1> DEFINE t == freeTCB
           c == New[1] \div 8
<1>1. /\ t \in Tcb /\ place[t] = "free" /\ New[1] \in 0 .. 63 /\ calls + 1 \in Nat
      /\ \A x \in Tcb : place[x] = "free" <=> x >= t
  BY StartFacts DEF FMTK_StartTask
<1>2. /\ Described(t) /\ InsertIntoReadyList(t, c, prev) /\ freeTCB' = next[t]
      /\ place' = [place EXCEPT ![t] = "ready"]
      /\ UNCHANGED <<TimeoutList, cur, at, walk, scan>> /\ at = "task"
  BY DEF FMTK_StartTask, MayStart, InTask
<1> HIDE DEF t, c
<1>3. Types /\ prev \in [Tcb -> Link] /\ t \notin Ready /\ t \notin Listed /\ Ready \in SUBSET Tcb
      /\ Listed \in SUBSET Tcb /\ Ready \cap Listed = {}
  BY <1>1, Apart DEF SchedInv, Types
<1>4. /\ priority' \in [Tcb -> 0 .. 63] /\ Cls' \in [Tcb -> Class] /\ Cls'[t] = c
      /\ \A x \in Ready : Cls'[x] = Cls[x]
      /\ Rings(Ready, Cls', next, prev, readyQ)
  BY <1>1, <1>2, <1>3, NewPriority DEF Described, c
<1>5. /\ Rings(Ready \cup {t}, Cls', next', prev', readyQ')
      /\ next' \in [Tcb -> Link] /\ prev' \in [Tcb -> Link] /\ readyQ' \in [Class -> Link]
      /\ \A x \in Tcb : x \notin Ready \cup {t} => next'[x] = next[x] /\ prev'[x] = prev[x]
  <2> DEFINE cl == Cls'
             R == Ready
             pv == prev
  <2>1. /\ cl \in [Tcb -> Class] /\ c = cl[t] /\ Rings(R, cl, next, pv, readyQ) /\ R \in SUBSET Tcb
        /\ pv \in [Tcb -> Link] /\ InsertIntoReadyList(t, c, pv) /\ t \notin R /\ Types /\ t \in Tcb
    BY <1>1, <1>2, <1>3, <1>4
  <2> HIDE DEF cl, R, pv
  <2>2. /\ Rings(R \cup {t}, cl, next', prev', readyQ')
        /\ next' \in [Tcb -> Link] /\ prev' \in [Tcb -> Link] /\ readyQ' \in [Class -> Link]
        /\ \A x \in Tcb : x \notin R \cup {t} => next'[x] = next[x] /\ prev'[x] = pv[x]
    BY <2>1, InsertAction
  <2>3. QED BY <2>2 DEF cl, R, pv
<1>6. place' \in [Tcb -> {"ready", "asleep", "free"}] /\ place'[t] = "ready"
      /\ \A x \in Tcb : x # t => place'[x] = place[x]
  BY <1>1, <1>2, <1>3 DEF Types
<1>7. Ready' = Ready \cup {t}
  BY <1>1, <1>6 DEF Ready
<1>8. Types' /\ place'[cur'] # "free"
  BY <1>1, <1>2, <1>3, <1>4, <1>5, <1>6 DEF SchedInv, Types, Described
<1>9. RingsOK'
  BY <1>5, <1>7 DEF RingsOK
<1>10. ListOK'
  <2>1. Listed' = Listed
    BY <1>1, <1>2, <1>6 DEF Listed
  <2>2. \A x \in Listed : next'[x] = next[x] /\ prev'[x] = prev[x]
    BY <1>3, <1>5
  <2>3. Listing(Listed, next', prev', TimeoutList)
    BY <2>2, ListFrame DEF SchedInv, ListOK
  <2>4. QED BY <1>2, <2>1, <2>3 DEF ListOK
<1>11. FreeOK'
  <2>1. next[t] = IF t + 1 < NR_TCB THEN t + 1 ELSE -1
    BY <1>1 DEF SchedInv, FreeOK
  <2>2. \A x \in Tcb : place'[x] = "free" <=> x >= t + 1
    BY <1>1, <1>6, TcbFacts
  <2>3. \/ freeTCB' = -1 /\ \A x \in Tcb : place'[x] # "free"
        \/ freeTCB' \in Tcb /\ \A x \in Tcb : place'[x] = "free" <=> x >= freeTCB'
    <3>1. CASE t + 1 < NR_TCB
      BY <1>1, <1>2, <2>1, <2>2, <3>1, SchedulerAssumption DEF Tcb
    <3>2. CASE ~(t + 1 < NR_TCB)
      BY <1>1, <1>2, <2>1, <2>2, <3>2, SchedulerAssumption DEF Tcb
    <3>3. QED BY <3>1, <3>2
  <2>4. ASSUME NEW x \in Tcb, place'[x] = "free"
        PROVE  next'[x] = IF x + 1 < NR_TCB THEN x + 1 ELSE -1
    <3>1. x # t /\ place[x] = "free" /\ x \notin Ready
      BY <1>6, <2>4 DEF Ready
    <3>2. QED BY <1>5, <3>1 DEF SchedInv, FreeOK
  <2>5. QED BY <2>3, <2>4 DEF FreeOK
<1>12. ScanOK' /\ WalkOK'
  BY <1>2 DEF ScanOK, WalkOK
<1>13. QED BY <1>8, <1>9, <1>10, <1>11, <1>12 DEF SchedInv

LEMMA TooManyStep == ASSUME SchedInv, TooManyTasks PROVE SchedInv'
<1>1. freeTCB \in Tcb /\ place[freeTCB] = "free" /\ New[1] \in 0 .. 63 /\ calls + 1 \in Nat
  BY StartFacts DEF TooManyTasks
<1>2. /\ Described(freeTCB) /\ at = "task"
      /\ UNCHANGED <<next, prev, readyQ, place, TimeoutList, freeTCB, cur, at, walk, scan>>
  BY DEF TooManyTasks, MayStart, InTask, lists, times
<1>3. freeTCB \notin Ready
  BY <1>1 DEF Ready
<1>4. /\ priority' \in [Tcb -> 0 .. 63] /\ \A x \in Ready : Cls'[x] = Cls[x]
      /\ Rings(Ready, Cls', next, prev, readyQ)
  BY <1>1, <1>2, <1>3, NewPriority DEF Described
<1>5. Ready' = Ready /\ Listed' = Listed
  BY <1>2 DEF Ready, Listed
<1>6. Types' /\ RingsOK' /\ place'[cur'] # "free"
  BY <1>1, <1>2, <1>4, <1>5 DEF SchedInv, Types, RingsOK, Described
<1>7. ListOK' /\ FreeOK'
  BY <1>2, <1>5 DEF SchedInv, ListOK, FreeOK
<1>8. ScanOK' /\ WalkOK'
  BY <1>2 DEF ScanOK, WalkOK
<1>9. QED BY <1>6, <1>7, <1>8 DEF SchedInv

\* RemoveFromReadyList takes the running task out of its ring, or out of the middle
\* of the timeout list when it sleeps already.
LEMMA LeaveList ==
  ASSUME SchedInv, at = "task", ~LinksOutside, RemoveFromReadyList(cur, ClassOf(cur))
  PROVE  /\ Rings(Ready \ {cur}, Cls, next', prev', readyQ')
         /\ Listing(Listed \ {cur}, next', prev', TimeoutList) /\ cur # TimeoutList
         /\ next'[cur] = -1 /\ prev'[cur] = -1
         /\ next' \in [Tcb -> Link] /\ prev' \in [Tcb -> Link] /\ readyQ' \in [Class -> Link]
         /\ \A x \in Tcb : place[x] = "free" => next'[x] = next[x]
<1> DEFINE R == Ready
           cl == Cls
           t == cur
           L == Listed
           nx == next
           pv == prev
           hd == TimeoutList
<1>1. /\ Types /\ R \in SUBSET Tcb /\ L \in SUBSET Tcb /\ R \cap L = {} /\ cl \in [Tcb -> Class]
      /\ t \in Tcb /\ cl[t] = ClassOf(t) /\ Rings(R, cl, nx, pv, readyQ) /\ Listing(L, nx, pv, hd)
      /\ nx \in [Tcb -> Link] /\ pv \in [Tcb -> Link] /\ readyQ \in [Class -> Link]
      /\ t \in R \/ t \in L
  BY Apart, ReadyFacts DEF SchedInv, Types, RingsOK, ListOK, Ready, Listed
<1>2. nx[t] \in Link /\ pv[t] \in Link /\ nx[t] # -1 /\ pv[t] # -1
  BY <1>1, TcbFacts DEF LinksOutside
<1>3. \A x \in Tcb : place[x] = "free" => x \notin R /\ x \notin L
  BY <1>1, Apart
<1>4. RemoveFromReadyList(t, cl[t])
  BY <1>1
<1>5. t # hd
  BY <1>1, <1>2, NoTcb DEF Listing, Rings, Linked
<1>6. CASE t \in R
  <2> HIDE DEF R, cl, t, L, hd
  <2>1. /\ Rings(R \ {t}, cl, next', prev', readyQ') /\ next'[t] = -1 /\ prev'[t] = -1
        /\ next' \in [Tcb -> Link] /\ prev' \in [Tcb -> Link] /\ readyQ' \in [Class -> Link]
        /\ \A x \in Tcb : x \notin R => next'[x] = next[x] /\ prev'[x] = prev[x]
    BY <1>1, <1>4, <1>6, RemoveAction
  <2>2. L \ {t} = L /\ \A x \in L : next'[x] = nx[x] /\ prev'[x] = pv[x]
    BY <1>1, <1>6, <2>1
  <2>3. Listing(L \ {t}, next', prev', hd)
    BY <1>1, <2>2, ListFrame
  <2>4. QED BY <1>3, <1>5, <2>1, <2>3 DEF R, cl, t, L, hd
<1>7. CASE t \in L
  <2>1. next' = CutNext(nx, pv, t) /\ prev' = CutPrev(nx, pv, t)
    BY DEF RemoveFromReadyList, NextWithout, PrevWithout, CutNext, CutPrev
  <2>2. readyQ' = readyQ
    <3>1. cl[t] \in Class /\ t # readyQ[cl[t]]
      BY <1>1, <1>7, NoTcb DEF Rings, Heads
    <3>2. QED BY <1>1, <1>4, <3>1 DEF RemoveFromReadyList, HeadWithout
  <2>3. next'[t] = -1 /\ prev'[t] = -1
    BY <1>1, <1>2, <2>1 DEF CutNext, CutPrev
  <2> HIDE DEF R, cl, t, L, nx, pv, hd
  <2>4. /\ L \in SUBSET Tcb /\ nx \in [Tcb -> Link] /\ pv \in [Tcb -> Link] /\ t \in L
        /\ Listing(L, nx, pv, hd) /\ nx[t] \in L /\ pv[t] \in L
    BY <1>1, <1>2, <1>7 DEF Listing, Neighbours
  <2> DEFINE nx2 == CutNext(nx, pv, t)
             pv2 == CutPrev(nx, pv, t)
  <2>5. /\ Listing(L \ {t}, nx2, pv2, hd) /\ nx2 \in [Tcb -> Link] /\ pv2 \in [Tcb -> Link]
        /\ SameOutside(L, nx2, nx) /\ SameOutside(L, pv2, pv)
    BY <2>4, ListRemove
  <2> HIDE DEF nx2, pv2
  <2>6. next' = nx2 /\ prev' = pv2
    BY <2>1 DEF nx2, pv2
  <2>7. R \ {t} = R /\ \A x \in R : nx2[x] = nx[x] /\ pv2[x] = pv[x]
    BY <1>1, <1>7, <2>5 DEF SameOutside
  <2>8. Rings(R \ {t}, cl, nx2, pv2, readyQ')
    BY <1>1, <2>2, <2>7, RingsFrame
  <2>9. QED BY <1>1, <1>3, <1>5, <2>2, <2>3, <2>5, <2>6, <2>8 DEF R, cl, t, L, nx, hd, SameOutside
<1>8. QED BY <1>1, <1>6, <1>7

\* The running task becomes the only entry of the timeout list, or is on its way into it.
LEMMA SleepStep == ASSUME SchedInv, NEW to \in Timeouts, FMTK_Sleep(to) PROVE SchedInv'
<1>1. /\ at = "task" /\ ~LinksOutside /\ RemoveFromReadyList(cur, ClassOf(cur))
      /\ SleepFirst(to) \/ StartWalk(to)
      /\ place' = [place EXCEPT ![cur] = "asleep"]
      /\ UNCHANGED <<priority, freeTCB, calls, cur, scan>>
  BY DEF FMTK_Sleep, MaySleep, InTask, job
<1>2. Types /\ cur \in Tcb /\ place \in [Tcb -> {"ready", "asleep", "free"}] /\ place[cur] # "free"
  BY DEF SchedInv, Types
<1>3. /\ Rings(Ready \ {cur}, Cls, next', prev', readyQ')
      /\ Listing(Listed \ {cur}, next', prev', TimeoutList) /\ cur # TimeoutList
      /\ next'[cur] = -1 /\ prev'[cur] = -1
      /\ next' \in [Tcb -> Link] /\ prev' \in [Tcb -> Link] /\ readyQ' \in [Class -> Link]
      /\ \A x \in Tcb : place[x] = "free" => next'[x] = next[x]
  BY <1>1, LeaveList
<1>4. place' \in [Tcb -> {"ready", "asleep", "free"}] /\ place'[cur] = "asleep"
      /\ \A x \in Tcb : x # cur => place'[x] = place[x]
  BY <1>1, <1>2
<1>5. Ready' = Ready \ {cur} /\ Cls' = Cls
  BY <1>1, <1>4 DEF Ready, Cls, ClassOf
<1>6. Types' /\ place'[cur'] # "free"
  BY <1>1, <1>2, <1>3, <1>4 DEF SchedInv, Types
<1>7. RingsOK'
  BY <1>3, <1>5 DEF RingsOK
<1>8. FreeOK'
  <2>1. \A x \in Tcb : place'[x] = "free" <=> place[x] = "free"
    BY <1>2, <1>4
  <2>2. QED BY <1>1, <1>3, <2>1 DEF SchedInv, FreeOK
<1>9. ListOK' /\ ScanOK' /\ WalkOK'
  <2>1. CASE SleepFirst(to)
    <3>1. TimeoutList < 0 /\ TimeoutList' = cur /\ at' = "task"
      BY <1>1, <2>1 DEF SleepFirst
    <3>2. Listed = {}
      BY <3>1, TcbFacts, Apart DEF SchedInv, ListOK, Listing
    <3>3. Listed' = {cur}
      BY <1>1, <1>2, <1>4, <3>1, <3>2 DEF Listed
    <3>4. Listing({cur}, next', prev', cur)
      BY <1>2, <1>3, NoTcb DEF Listing, Neighbours, Reached, Onward
    <3>5. QED BY <3>1, <3>3, <3>4 DEF ListOK, ScanOK, WalkOK
  <2>2. CASE StartWalk(to)
    <3>1. TimeoutList >= 0 /\ TimeoutList' = TimeoutList /\ at' = "walk"
          /\ walk'.q = -1 /\ walk'.p = TimeoutList
      BY <2>2 DEF StartWalk
    <3>2. Listed' = Listed \ {cur}
      BY <1>1, <1>4, <3>1 DEF Listed
    <3>3. TimeoutList \in Listed
      BY <3>1 DEF SchedInv, ListOK, Listing
    <3>4. QED BY <1>1, <1>3, <1>4, <3>1, <3>2, <3>3 DEF ListOK, ScanOK, WalkOK
  <2>3. QED BY <1>1, <2>1, <2>2
<1>10. QED BY <1>6, <1>7, <1>8, <1>9 DEF SchedInv

LEMMA WalkOnStep == ASSUME SchedInv, WalkOn PROVE SchedInv'
<1>1. /\ at = "walk" /\ next[walk.p] >= 0 /\ walk'.q = walk.p /\ walk'.p = next[walk.p]
      /\ UNCHANGED <<next, prev, readyQ, priority, place, TimeoutList, freeTCB, calls, cur, scan, at>>
  BY DEF WalkOn, Walking, lists, job, times
<1>2. Listed' = Listed
  BY <1>1 DEF Listed
<1>3. walk.p \in Listed /\ next[walk.p] \in Listed \cup {-1} /\ place[cur] = "asleep"
  BY <1>1 DEF SchedInv, WalkOK, ListOK, Listing, Neighbours
<1>4. WalkOK'
  BY <1>1, <1>2, <1>3 DEF WalkOK
<1>5. QED BY <1>1, <1>2, <1>4, ScanFacts, KeepLists DEF SchedInv, ScanOK

LEMMA InsertStep == ASSUME SchedInv, InsertIntoTimeoutList PROVE SchedInv'
<1> DEFINE t == cur
           p == walk.p
           q == walk.q
<1>1. /\ at = "walk" /\ at' = "task" /\ next' = NextBetween(t, q, p)
      /\ prev' = [prev EXCEPT ![t] = q, ![p] = t]
      /\ TimeoutList' = IF q < 0 THEN t ELSE TimeoutList
      /\ UNCHANGED <<readyQ, priority, place, freeTCB, calls, cur, scan>>
  BY DEF InsertIntoTimeoutList, Walking, job, times
<1>2. /\ t \in Tcb /\ t \notin Listed /\ place[t] = "asleep" /\ p \in Listed
      /\ Listed \in SUBSET Tcb /\ Ready \in SUBSET Tcb /\ Ready \cap Listed = {}
      /\ next \in [Tcb -> Link] /\ prev \in [Tcb -> Link]
  BY <1>1, Apart DEF SchedInv, WalkOK, Types, Listed
<1>3. (q = -1 /\ p = TimeoutList /\ TimeoutList' = t)
      \/ (q \in Listed /\ next[q] = p /\ TimeoutList' = TimeoutList)
  BY <1>1, <1>2, TcbFacts DEF SchedInv, WalkOK
<1> HIDE DEF t, p, q
<1>4. q \in Link /\ t \in Link /\ p \in Tcb /\ p \in Link /\ p # t /\ q # t
  BY <1>2, <1>3, TcbFacts, NoTcb
<1>5. next' \in [Tcb -> Link] /\ \A x \in Tcb : next'[x] = IF x = q THEN t ELSE IF x = t THEN p ELSE next[x]
  <2>1. CASE q < 0
    <3>1. next' = [next EXCEPT ![t] = p] /\ q \notin Tcb
      BY <1>1, <1>4, <2>1, TcbFacts DEF NextBetween
    <3>2. QED BY <1>2, <1>4, <3>1
  <2>2. CASE ~(q < 0)
    <3>1. next' = [next EXCEPT ![t] = p, ![q] = t] /\ q \in Tcb
      BY <1>1, <1>2, <1>3, <2>2 DEF NextBetween
    <3>2. QED BY <1>2, <1>4, <3>1
  <2>3. QED BY <2>1, <2>2
<1>6. prev' \in [Tcb -> Link] /\ \A x \in Tcb : prev'[x] = IF x = p THEN t ELSE IF x = t THEN q ELSE prev[x]
  BY <1>1, <1>2, <1>4
<1>7. Listed' = Listed \cup {t} /\ Ready' = Ready /\ Cls' = Cls
  BY <1>1, <1>2 DEF Listed, Ready, Cls, ClassOf, t
<1>8. ListOK'
  <2> DEFINE L == Listed
             nx == next
             pv == prev
             nx2 == next'
             pv2 == prev'
             hd == TimeoutList
             hd2 == TimeoutList'
  <2>1. Listing(L, nx, pv, hd)
    BY DEF SchedInv, ListOK
  <2>2. /\ L \in SUBSET Tcb /\ nx \in [Tcb -> Link] /\ pv \in [Tcb -> Link] /\ t \in Tcb /\ t \notin L
        /\ nx2 \in [Tcb -> Link] /\ pv2 \in [Tcb -> Link] /\ p \in L
        /\ (q = -1 /\ p = hd /\ hd2 = t) \/ (q \in L /\ nx[q] = p /\ hd2 = hd)
        /\ \A x \in Tcb : nx2[x] = IF x = q THEN t ELSE IF x = t THEN p ELSE nx[x]
        /\ \A x \in Tcb : pv2[x] = IF x = p THEN t ELSE IF x = t THEN q ELSE pv[x]
    BY <1>2, <1>3, <1>5, <1>6
  <2> HIDE DEF L, nx, pv, nx2, pv2, hd, hd2
  <2>3. Listing(L \cup {t}, nx2, pv2, hd2)
    BY <2>1, <2>2, ListInsert
  <2>4. QED BY <1>7, <2>3 DEF ListOK, L, nx2, pv2, hd2
<1>9. \A x \in Tcb : x \notin Listed /\ x # t => next'[x] = next[x] /\ prev'[x] = prev[x]
  BY <1>2, <1>3, <1>5, <1>6, NoTcb
<1>10. RingsOK'
  <2>1. \A x \in Ready : next'[x] = next[x] /\ prev'[x] = prev[x]
    BY <1>2, <1>9 DEF Ready
  <2>2. Rings(Ready, Cls, next', prev', readyQ)
    BY <2>1, RingsFrame DEF SchedInv, RingsOK
  <2>3. QED BY <1>1, <1>7, <2>2 DEF RingsOK
<1>11. Types' /\ place'[cur'] # "free"
  BY <1>1, <1>5, <1>6 DEF SchedInv, Types
<1>12. FreeOK'
  <2>1. \A x \in Tcb : place[x] = "free" => x \notin Listed /\ x # t
    BY <1>2 DEF Listed
  <2>2. QED BY <1>1, <1>9, <2>1 DEF SchedInv, FreeOK
<1>13. ScanOK' /\ WalkOK'
  BY <1>1 DEF ScanOK, WalkOK
<1>14. QED BY <1>8, <1>10, <1>11, <1>12, <1>13 DEF SchedInv

LEMMA WakeStep == ASSUME SchedInv, WakeOne PROVE SchedInv'
<1> DEFINE t == TimeoutList
           pv == PrevPopped
<1>1. t \in Listed /\ t \in Tcb /\ place[t] = "asleep" /\ t \notin Ready
      /\ Ready \in SUBSET Tcb /\ Cls \in [Tcb -> Class] /\ Types /\ Cls[t] = ClassOf(t)
      /\ Listed \in SUBSET Tcb /\ Ready \cap Listed = {}
  BY Apart, ReadyFacts DEF WakeOne, SchedInv, ListOK, Listing, Listed, Ready
<1>2. /\ InsertIntoReadyList(t, Cls[t], pv) /\ TimeoutList' = next[t]
      /\ place' = [place EXCEPT ![t] = "ready"]
      /\ UNCHANGED <<priority, freeTCB, calls, cur, at, walk, scan>> /\ at = "timeouts"
  BY <1>1 DEF WakeOne, PopTimeoutList, Second, job
<1>3. next \in [Tcb -> Link] /\ prev \in [Tcb -> Link] /\ next[t] \in Listed \cup {-1} /\ next[t] \in Link
  BY <1>1 DEF Types, SchedInv, ListOK, Listing, Neighbours
<1>4. /\ pv \in [Tcb -> Link]
      /\ \A x \in Tcb : pv[x] = IF x = next[t] THEN -1 ELSE prev[x]
  <2>1. CASE next[t] >= 0
    BY <1>3, <2>1, TcbFacts DEF PrevPopped, Second
  <2>2. CASE ~(next[t] >= 0)
    BY <1>3, <2>2, TcbFacts DEF PrevPopped, Second
  <2>3. QED BY <2>1, <2>2
<1> HIDE DEF t, pv
<1>5. Rings(Ready, Cls, next, pv, readyQ)
  <2>1. \A x \in Ready : pv[x] = prev[x] /\ next[x] = next[x]
    BY <1>1, <1>3, <1>4, NoTcb
  <2>2. QED BY <2>1, RingsFrame DEF SchedInv, RingsOK
<1>6. /\ Rings(Ready \cup {t}, Cls, next', prev', readyQ')
      /\ next' \in [Tcb -> Link] /\ prev' \in [Tcb -> Link] /\ readyQ' \in [Class -> Link]
      /\ \A x \in Tcb : x \notin Ready \cup {t} => next'[x] = next[x] /\ prev'[x] = pv[x]
  <2> DEFINE R == Ready
             cl == Cls
  <2>1. /\ R \in SUBSET Tcb /\ cl \in [Tcb -> Class] /\ t \notin R /\ Rings(R, cl, next, pv, readyQ)
        /\ InsertIntoReadyList(t, cl[t], pv)
    BY <1>1, <1>2, <1>5
  <2> HIDE DEF R, cl
  <2>2. /\ Rings(R \cup {t}, cl, next', prev', readyQ')
        /\ next' \in [Tcb -> Link] /\ prev' \in [Tcb -> Link] /\ readyQ' \in [Class -> Link]
        /\ \A x \in Tcb : x \notin R \cup {t} => next'[x] = next[x] /\ prev'[x] = pv[x]
    BY <1>1, <1>4, <2>1, InsertAction
  <2>3. QED BY <2>2 DEF R, cl
<1>7. place' \in [Tcb -> {"ready", "asleep", "free"}] /\ place'[t] = "ready"
      /\ \A x \in Tcb : x # t => place'[x] = place[x]
  BY <1>1, <1>2 DEF Types
<1>8. Ready' = Ready \cup {t} /\ Cls' = Cls /\ Listed' = Listed \ {t}
  BY <1>1, <1>2, <1>7 DEF Ready, Cls, ClassOf, Listed
<1>9. Types' /\ place'[cur'] # "free"
  BY <1>1, <1>2, <1>6, <1>7 DEF SchedInv, Types
<1>10. RingsOK'
  BY <1>6, <1>8 DEF RingsOK
<1>11. ListOK'
  <2> DEFINE L == Listed
             hd == TimeoutList
             nx == next
             pv0 == prev
  <2>1. /\ L \in SUBSET Tcb /\ t \in L /\ hd = t /\ Listing(L, nx, pv0, t)
        /\ \A x \in L : pv[x] = IF x = nx[t] THEN -1 ELSE pv0[x]
    BY <1>1, <1>4 DEF SchedInv, ListOK, t
  <2> HIDE DEF L, hd, nx, pv0
  <2>2. Listing(L \ {t}, nx, pv, nx[t])
    BY <2>1, ListPop
  <2>3. \A x \in L \ {t} : next'[x] = nx[x] /\ prev'[x] = pv[x]
    BY <1>1, <1>6 DEF L, nx
  <2>4. Listing(L \ {t}, next', prev', nx[t])
    BY <2>2, <2>3, ListFrame
  <2>5. QED BY <1>2, <1>8, <2>4 DEF ListOK, L, nx
<1>12. FreeOK'
  <2>1. \A x \in Tcb : place'[x] = "free" <=> place[x] = "free"
    BY <1>1, <1>7
  <2>2. \A x \in Tcb : place[x] = "free" => x \notin Ready /\ x # t
    BY <1>1, Apart
  <2>3. QED BY <1>2, <1>6, <2>1, <2>2 DEF SchedInv, FreeOK
<1>13. ScanOK' /\ WalkOK'
  BY <1>2 DEF ScanOK, WalkOK
<1>14. QED BY <1>9, <1>10, <1>11, <1>12, <1>13 DEF SchedInv

LEMMA SchedStep == ASSUME SchedInv, [Next]_vars PROVE SchedInv'
<1>1. CASE UNCHANGED vars
  BY <1>1, SameStep DEF vars, lists, job, times
<1>2. CASE SystemCall
  BY <1>2, OutsideStep, StartTaskStep, TooManyStep, SleepStep DEF SystemCall, NoTcbLeft, SleepOutside
<1>3. CASE Walk
  BY <1>3, OutsideStep, WalkOnStep, InsertStep DEF Walk, WalkOutside
<1>4. CASE Reschedule \/ MissTick \/ TimerTick
  BY <1>4, TickStep
<1>5. CASE SchedulerIRQ
  <2>1. CASE SelectTaskToRun
    BY <2>1, SearchStep, ChooseStep DEF SelectTaskToRun
  <2>2. QED BY <1>5, <2>1, WakeStep, TickStep DEF SchedulerIRQ
<1>6. QED BY <1>1, <1>2, <1>3, <1>4, <1>5 DEF Next

LEMMA SchedInvariant == Spec => []SchedInv
<1>1. Init => SchedInv
  BY SchedInit
<1>2. SchedInv /\ [Next]_vars => SchedInv'
  BY SchedStep
<1>3. QED BY <1>1, <1>2, PTL DEF Spec

(***************************************************************************)
(* Theorems.                                                               *)
(***************************************************************************)

\* Whatever callers do, every ready queue is one whole doubly linked ring of its tasks
\* (TCB.c InsertIntoReadyList, RemoveFromReadyList, InsertIntoTimeoutList), until
\* something outside of tcbs[] is used.
THEOREM QueuesStayWhole == Spec => []RingsWhole
<1>1. SchedInv => RingsWhole
  <2>1. SUFFICES ASSUME SchedInv, NEW c \in Class
                 PROVE  /\ IF Members(c) = {} THEN readyQ[c] = -1 ELSE readyQ[c] \in Members(c)
                        /\ \A t \in Members(c) :
                             next[t] \in Members(c) /\ prev[t] \in Members(c) /\ prev[next[t]] = t
                        /\ \A S \in SUBSET Members(c) :
                             S # {} /\ (\A t \in S : next[t] \in S) => S = Members(c)
    BY DEF RingsWhole
  <2>2. \A t \in Tcb : t \in Members(c) <=> t \in Ready /\ Cls[t] = c
    BY <2>1, ReadyFacts DEF Members, SchedInv
  <2>3. Members(c) \in SUBSET Ready /\ Ready \in SUBSET Tcb
    BY <2>1, <2>2, ReadyFacts DEF Members, SchedInv
  <2>4. Linked(Ready, Cls, next, prev) /\ Connected(Ready, Cls, next) /\ Heads(Ready, Cls, readyQ)
    BY <2>1 DEF SchedInv, RingsOK, Rings
  <2>5. IF Members(c) = {} THEN readyQ[c] = -1 ELSE readyQ[c] \in Members(c)
    <3>1. (readyQ[c] = -1 /\ \A x \in Ready : Cls[x] # c) \/ (readyQ[c] \in Ready /\ Cls[readyQ[c]] = c)
      BY <2>4 DEF Heads
    <3>2. QED BY <2>2, <2>3, <3>1
  <2>6. \A t \in Members(c) :
          next[t] \in Members(c) /\ prev[t] \in Members(c) /\ prev[next[t]] = t
    BY <2>2, <2>3, <2>4 DEF Linked
  <2>7. ASSUME NEW S \in SUBSET Members(c), S # {}, \A t \in S : next[t] \in S
        PROVE  S = Members(c)
    <3>1. Closed(S, next) /\ S \in SUBSET Ready
      BY <2>3, <2>7 DEF Closed
    <3>2. \A x \in S, y \in Ready : Cls[x] = Cls[y] => y \in S
      BY <2>4, <3>1 DEF Connected
    <3>3. QED BY <2>2, <2>3, <2>7, <3>2
  <2>8. QED BY <2>5, <2>6, <2>7
<1>2. QED BY <1>1, SchedInvariant, PTL

\* tcbs[] is left only by a start without a free TCB (FMTKc.c:558), by a sleeping task
\* that sleeps again, and by a walk past the end of the timeout list (TCB.c:128).
THEOREM OnlyCallersLeaveTcbs == Spec => OutsideByCallers
<1> DEFINE Cause == \/ wild
                    \/ \A t \in Tcb : place[t] # "free"
                    \/ at = "task" /\ place[cur] = "asleep"
                    \/ at = "walk" /\ \E t \in Tcb \ {cur} : place[t] = "asleep"
<1>1. SchedInv /\ [Next]_vars => [wild' => Cause]_vars
  <2>1. SUFFICES ASSUME SchedInv, Next, wild', ~wild PROVE Cause
    OBVIOUS
  <2>2. CASE NoTcbLeft
    BY <2>1, <2>2, TcbFacts DEF NoTcbLeft, SchedInv, FreeOK
  <2>3. CASE SleepOutside
    <3>1. at = "task" /\ LinksOutside /\ cur \in Tcb /\ place[cur] \in {"ready", "asleep"}
      BY <2>1, <2>3 DEF SleepOutside, MaySleep, InTask, SchedInv, Types
    <3>2. ASSUME place[cur] = "ready" PROVE FALSE
      <4>1. cur \in Ready /\ Ready \in SUBSET Tcb
        BY <3>1, <3>2 DEF Ready
      <4>2. next[cur] \in Tcb /\ prev[cur] \in Tcb
        BY <2>1, <4>1 DEF SchedInv, RingsOK, Rings, Linked
      <4>3. QED BY <3>1, <4>2, TcbFacts DEF LinksOutside
    <3>3. QED BY <3>1, <3>2
  <2>4. CASE WalkOutside
    <3>1. at = "walk"
      BY <2>4 DEF WalkOutside, Walking
    <3>2. walk.p \in Listed
      BY <2>1, <3>1 DEF SchedInv, WalkOK
    <3>3. walk.p \in Tcb \ {cur} /\ place[walk.p] = "asleep"
      BY <3>1, <3>2 DEF Listed
    <3>4. QED BY <3>1, <3>3
  <2>5. ~(FMTK_StartTask \/ TooManyTasks \/ (\E to \in Timeouts : FMTK_Sleep(to)))
    BY <2>1 DEF FMTK_StartTask, TooManyTasks, FMTK_Sleep
  <2>6. ~(WalkOn \/ InsertIntoTimeoutList \/ Reschedule \/ MissTick \/ TimerTick)
    BY <2>1 DEF WalkOn, InsertIntoTimeoutList, Reschedule, MissTick, TimerTick
  <2>7. ~SchedulerIRQ
    BY <2>1 DEF SchedulerIRQ, WakeOne, EndTimeouts, SelectTaskToRun, StartSelect, LookAtQueue, Choose,
                PassOver, KeepTask, Selecting
  <2>8. QED BY <2>1, <2>2, <2>3, <2>4, <2>5, <2>6, <2>7 DEF Next, SystemCall, Walk
<1>2. QED BY <1>1, SchedInvariant, PTL DEF Spec, OutsideByCallers

\* Whatever callers do, SelectTaskToRun gives the processor to a ready task of this
\* processor only.
THEOREM ReadyTasksRun == Spec => SwitchesToReady
<1>1. SchedInv /\ [Next]_vars => [cur' # cur => place[cur'] = "ready" /\ affinity[cur'] = 0]_vars
  <2>1. SUFFICES ASSUME SchedInv, Next, cur' # cur PROVE place[cur'] = "ready" /\ affinity[cur'] = 0
    BY DEF vars
  <2>2. Choose
    <3>1. ~SystemCall
      BY <2>1 DEF SystemCall, NoTcbLeft, SleepOutside, FMTK_StartTask, TooManyTasks, FMTK_Sleep, Wild
    <3>2. ~(Walk \/ Reschedule \/ MissTick \/ TimerTick \/ WakeOne \/ EndTimeouts)
      BY <2>1 DEF Walk, WalkOn, WalkOutside, InsertIntoTimeoutList, Wild, Reschedule, MissTick,
                  TimerTick, WakeOne, EndTimeouts
    <3>3. ~(StartSelect \/ LookAtQueue \/ PassOver \/ KeepTask)
      BY <2>1 DEF StartSelect, LookAtQueue, PassOver, KeepTask, Switch
    <3>4. QED BY <2>1, <3>1, <3>2, <3>3 DEF Next, SchedulerIRQ, SelectTaskToRun
  <2>3. cur' = scan.t /\ affinity[scan.t] = 0 /\ scan.t \in Ready
    BY <2>1, <2>2 DEF Choose, Switch, Fit, SchedInv, ScanOK
  <2>4. QED BY <2>3 DEF Ready
<1>2. QED BY <1>1, SchedInvariant, PTL DEF Spec, SwitchesToReady

(***************************************************************************)
(* Sleeping times.                                                         *)
(***************************************************************************)

\* Only the last entry has a timeout above 0, and nobody outside of the list has one.
OnlyLast == \A t \in Tcb : timeout[t] > 0 => t \in Listed /\ next[t] = -1

\* A tick is counted in late at the start of the interrupt, in timeout at its end.
LateOK ==
  /\ at = "walk" => late[cur] > 0
  /\ \A t \in Listed : 
       IF at = "timeouts" THEN timeout[t] <= late[t] ELSE timeout[t] < late[t] /\ late[t] > 0

\* A sleeper with a time in due is the only one.
DueOK ==
  \A t \in Tcb : due[t] > 0 =>
    /\ at # "walk" /\ \A x \in Tcb : place[x] = "asleep" <=> x = t
    /\ IF at = "timeouts" THEN due[t] <= timeout[t] - missed_ticks
       ELSE due[t] <= 1 \/ due[t] <= timeout[t] - missed_ticks + 1

TimeTypes ==
  /\ timeout \in [Tcb -> Int] /\ due \in [Tcb -> Nat] /\ late \in [Tcb -> Nat]
  /\ missed_ticks \in Nat /\ walk.to \in Nat

TimeInv == TimeTypes /\ OnlyLast /\ LateOK /\ DueOK

LEMMA TimeInit == Init => TimeInv
<1> SUFFICES ASSUME Init PROVE TimeInv
  OBVIOUS
<1>1. \A t \in Tcb : timeout[t] = 0 /\ due[t] = 0 /\ place[t] # "asleep"
  BY DEF Init
<1>2. TimeTypes
  BY DEF Init, TimeTypes, NoWalk
<1>3. at = "task"
  BY DEF Init
<1>4. QED BY <1>1, <1>2, <1>3 DEF TimeInv, OnlyLast, LateOK, DueOK, Listed

\* Steps outside of the walk that leave times and sleepers alone.
LEMMA KeepTimes ==
  ASSUME SchedInv, TimeInv, UNCHANGED <<timeout, due, late, missed_ticks, walk>>,
         Listed' = Listed, at = "timeouts" <=> at' = "timeouts",
         at = "walk" <=> at' = "walk", at = "walk" => cur' = cur,
         \A x \in Tcb : place'[x] = "asleep" <=> place[x] = "asleep",
         \A x \in Listed : next'[x] = next[x]
  PROVE  TimeInv'
<1>1. TimeTypes'
  BY DEF TimeInv, TimeTypes
<1>2. OnlyLast'
  BY DEF TimeInv, OnlyLast
<1>3. LateOK'
  BY DEF TimeInv, LateOK
<1>4. DueOK'
  BY DEF TimeInv, DueOK
<1>5. QED BY <1>1, <1>2, <1>3, <1>4 DEF TimeInv

\* Links of tasks in other lists stay.
LEMMA InsertFrame ==
  ASSUME SchedInv, NEW t, NEW c \in Class, NEW pv, InsertIntoReadyList(t, c, pv),
         \A x \in Ready : pv[x] = prev[x]
  PROVE  \A x \in Tcb : x \notin Ready /\ x # t => next'[x] = next[x]
<1> DEFINE h == readyQ[c]
<1>1. next \in [Tcb -> Link] /\ h \in Link
  BY DEF SchedInv, Types
<1>2. CASE h < 0
  <2>1. next' = [next EXCEPT ![t] = t]
    BY <1>2 DEF InsertIntoReadyList, NextWith
  <2>2. QED BY <1>1, <2>1
<1>3. CASE ~(h < 0)
  <2>1. h \in Ready
    BY <1>1, <1>3, TcbFacts, ScanFacts
  <2>2. pv[h] \in Ready
    BY <2>1 DEF SchedInv, RingsOK, Rings, Linked
  <2>3. next' = [next EXCEPT ![t] = h, ![pv[h]] = t]
    BY <1>3 DEF InsertIntoReadyList, NextWith
  <2> HIDE DEF h
  <2>4. QED BY <1>1, <2>2, <2>3
<1>4. QED BY <1>2, <1>3

LEMMA RemoveFrame ==
  ASSUME SchedInv, at = "task", ~LinksOutside, RemoveFromReadyList(cur, ClassOf(cur))
  PROVE  \A x \in Listed : x # cur /\ next[x] = -1 => next'[x] = -1
<1>1. SUFFICES ASSUME NEW x \in Listed, x # cur, next[x] = -1 PROVE next'[x] = -1
  OBVIOUS
<1>2. next \in [Tcb -> Link] /\ x \in Tcb /\ cur \in Tcb /\ x \notin Ready /\ Ready \in SUBSET Tcb
      /\ (cur \in Ready \/ cur \in Listed)
  BY Apart DEF SchedInv, Types, Ready, Listed
<1>3. x # prev[cur]
  <2>1. CASE cur \in Ready
    <3>1. prev[cur] \in Ready
      BY <2>1 DEF SchedInv, RingsOK, Rings, Linked
    <3>2. QED BY <1>2, <3>1
  <2>2. CASE cur \in Listed
    <3>1. prev[cur] \in Listed => next[prev[cur]] = cur
      BY <2>2 DEF SchedInv, ListOK, Listing, Neighbours
    <3>2. QED BY <1>1, <1>2, <3>1, NoTcb
  <2>3. QED BY <1>2, <2>1, <2>2
<1>4. next' = [[next EXCEPT ![prev[cur]] = next[cur]] EXCEPT ![cur] = -1]
  BY DEF RemoveFromReadyList, NextWithout
<1>5. QED BY <1>1, <1>2, <1>3, <1>4

LEMMA StartTimes == ASSUME SchedInv, TimeInv, FMTK_StartTask \/ TooManyTasks PROVE TimeInv'
<1>1. freeTCB \in Tcb /\ place[freeTCB] = "free" /\ New[1] \in 0 .. 63
  BY StartFacts DEF FMTK_StartTask, TooManyTasks
<1>2. at = "task" /\ at' = at /\ cur' = cur /\ UNCHANGED <<timeout, due, late, missed_ticks, walk>>
  BY DEF FMTK_StartTask, TooManyTasks, MayStart, InTask, lists, times
<1>3. /\ \A x \in Tcb : place'[x] = "asleep" <=> place[x] = "asleep"
      /\ \A x \in Listed : next'[x] = next[x]
  <2>1. CASE FMTK_StartTask
    <3>1. InsertIntoReadyList(freeTCB, New[1] \div 8, prev) /\ place' = [place EXCEPT ![freeTCB] = "ready"]
      BY <2>1 DEF FMTK_StartTask
    <3>2. New[1] \div 8 \in Class
      BY <1>1 DEF Class
    <3>3. \A x \in Tcb : x \notin Ready /\ x # freeTCB => next'[x] = next[x]
      BY <3>1, <3>2, InsertFrame
    <3>4. \A x \in Listed : x \in Tcb /\ x \notin Ready /\ x # freeTCB
      BY <1>1, Apart DEF SchedInv
    <3>5. QED BY <1>1, <3>1, <3>3, <3>4 DEF SchedInv, Types
  <2>2. CASE TooManyTasks
    BY <2>2 DEF TooManyTasks, lists, times
  <2>3. QED BY <2>1, <2>2
<1>4. Listed' = Listed
  BY <1>2, <1>3 DEF Listed
<1>5. QED BY <1>2, <1>3, <1>4, KeepTimes

LEMMA SleepTimes == ASSUME SchedInv, TimeInv, NEW to \in Timeouts, FMTK_Sleep(to) PROVE TimeInv'
<1>1. /\ at = "task" /\ ~LinksOutside /\ RemoveFromReadyList(cur, ClassOf(cur))
      /\ SleepFirst(to) \/ StartWalk(to)
      /\ place' = [place EXCEPT ![cur] = "asleep"] /\ late' = [late EXCEPT ![cur] = to + 1]
      /\ UNCHANGED <<cur, missed_ticks>>
  BY DEF FMTK_Sleep, MaySleep, InTask
<1>2. /\ cur \in Tcb /\ place \in [Tcb -> {"ready", "asleep", "free"}] /\ to \in Nat
      /\ timeout \in [Tcb -> Int] /\ due \in [Tcb -> Nat] /\ late \in [Tcb -> Nat]
      /\ missed_ticks \in Nat /\ walk.to \in Nat
  BY SchedulerAssumption DEF SchedInv, Types, TimeInv, TimeTypes
<1>3. late' \in [Tcb -> Nat] /\ late'[cur] = to + 1 /\ \A x \in Tcb : x # cur => late'[x] = late[x]
  BY <1>1, <1>2
<1>4. place'[cur] = "asleep" /\ \A x \in Tcb : x # cur => place'[x] = place[x]
  BY <1>1, <1>2
<1>5. CASE SleepFirst(to)
  <2>1. /\ TimeoutList < 0 /\ at' = "task" /\ walk' = walk /\ timeout' = [timeout EXCEPT ![cur] = to]
        /\ due' = [due EXCEPT ![cur] = 1 + IF to > missed_ticks THEN to - missed_ticks ELSE 0]
    BY <1>1, <1>5 DEF SleepFirst
  <2>2. Listed = {}
    BY <2>1, TcbFacts, Apart DEF SchedInv, ListOK, Listing
  <2>3. Listed' = {cur}
    BY <1>1, <1>2, <1>4, <2>1, <2>2 DEF Listed
  <2>4. timeout' \in [Tcb -> Int] /\ timeout'[cur] = to /\ \A x \in Tcb : x # cur => timeout'[x] = timeout[x]
    BY <1>2, <2>1
  <2>5. /\ due' \in [Tcb -> Nat] /\ \A x \in Tcb : x # cur => due'[x] = due[x]
        /\ due'[cur] <= 1 \/ due'[cur] <= to - missed_ticks + 1
    BY <1>2, <2>1
  <2>6. next'[cur] = -1
    BY <1>1, LeaveList
  <2>7. OnlyLast'
    BY <2>2, <2>3, <2>4, <2>6 DEF TimeInv, OnlyLast
  <2>8. LateOK'
    BY <1>2, <1>3, <2>1, <2>3, <2>4 DEF LateOK
  <2>9. DueOK'
    <3>1. \A x \in Tcb : place[x] # "asleep"
      BY <1>1, <2>2 DEF Listed
    <3>2. \A x \in Tcb : due[x] = 0
      BY <1>2, <3>1 DEF TimeInv, DueOK
    <3>3. SUFFICES ASSUME NEW x \in Tcb, due'[x] > 0
                   PROVE  /\ \A y \in Tcb : place'[y] = "asleep" <=> y = x
                          /\ due'[x] <= 1 \/ due'[x] <= timeout'[x] - missed_ticks' + 1
      BY <2>1 DEF DueOK
    <3>4. x = cur
      BY <2>5, <3>2, <3>3
    <3>5. QED BY <1>1, <1>4, <2>4, <2>5, <3>1, <3>4
  <2>10. QED BY <1>1, <1>2, <1>3, <2>1, <2>4, <2>5, <2>7, <2>8, <2>9 DEF TimeInv, TimeTypes
<1>6. CASE StartWalk(to)
  <2>1. at' = "walk" /\ walk'.to = to /\ due' = [t \in Tcb |-> 0] /\ timeout' = timeout
    BY <1>6 DEF StartWalk
  <2>2. Listed' = Listed \ {cur}
    BY <1>1, <1>4, <2>1 DEF Listed
  <2>3. next[cur] # -1 /\ \A x \in Listed : x # cur /\ next[x] = -1 => next'[x] = -1
    BY <1>1, RemoveFrame DEF LinksOutside
  <2>4. OnlyLast'
    BY <2>1, <2>2, <2>3 DEF TimeInv, OnlyLast
  <2>5. LateOK'
    BY <1>1, <1>2, <1>3, <2>1, <2>2, Apart DEF TimeInv, LateOK, SchedInv
  <2>6. DueOK'
    BY <2>1 DEF DueOK
  <2>7. QED BY <1>1, <1>2, <1>3, <2>1, <2>4, <2>5, <2>6 DEF TimeInv, TimeTypes
<1>7. QED BY <1>1, <1>5, <1>6

LEMMA WalkOnTimes == ASSUME SchedInv, TimeInv, WalkOn PROVE TimeInv'
<1>1. /\ at = "walk" /\ walk.to > timeout[walk.p] /\ walk'.to = walk.to - timeout[walk.p]
      /\ UNCHANGED <<timeout, due, late, missed_ticks, next, place, cur, at>>
  BY DEF WalkOn, Walking, lists, times
<1>2. walk.p \in Tcb /\ Listed' = Listed
  BY <1>1, Apart DEF SchedInv, WalkOK, Listed
<1>3. timeout[walk.p] \in Int /\ walk.to \in Nat
  BY <1>2 DEF TimeInv, TimeTypes
<1>4. TimeTypes'
  BY <1>1, <1>3 DEF TimeInv, TimeTypes
<1>5. OnlyLast' /\ LateOK' /\ DueOK'
  BY <1>1, <1>2 DEF TimeInv, OnlyLast, LateOK, DueOK
<1>6. QED BY <1>4, <1>5 DEF TimeInv

LEMMA InsertTimes == ASSUME SchedInv, TimeInv, InsertIntoTimeoutList PROVE TimeInv'
<1> DEFINE p == walk.p
           q == walk.q
<1>1. /\ at = "walk" /\ at' = "task" /\ next' = NextBetween(cur, q, p) /\ walk' = NoWalk
      /\ timeout' = [timeout EXCEPT ![p] = timeout[p] - walk.to]
      /\ UNCHANGED <<due, late, missed_ticks, place, cur>>
  BY DEF InsertIntoTimeoutList, Walking, times, Shortened
<1>2. /\ cur \in Tcb /\ cur \notin Listed /\ place[cur] = "asleep" /\ p \in Listed /\ p \in Tcb
      /\ next \in [Tcb -> Link] /\ (q = -1 \/ (q \in Listed /\ q \in Tcb /\ next[q] = p))
      /\ timeout \in [Tcb -> Int] /\ walk.to \in Nat /\ timeout[cur] <= 0
  BY <1>1, Apart DEF SchedInv, WalkOK, Types, Listed, TimeInv, TimeTypes, OnlyLast
<1> HIDE DEF p, q
<1>3. Listed' = Listed \cup {cur}
  BY <1>1, <1>2 DEF Listed
<1>4. timeout' \in [Tcb -> Int] /\ \A x \in Tcb : timeout'[x] <= timeout[x]
  <2>1. timeout[p] \in Int /\ timeout[p] - walk.to \in Int /\ timeout[p] - walk.to <= timeout[p]
    BY <1>2
  <2>2. \A x \in Tcb : timeout'[x] = IF x = p THEN timeout[p] - walk.to ELSE timeout[x]
    BY <1>1, <1>2
  <2>3. \A x \in Tcb : timeout[x] \in Int
    BY <1>2
  <2>4. timeout' \in [Tcb -> Int]
    BY <1>1, <1>2, <2>1
  <2>5. QED BY <2>1, <2>2, <2>3, <2>4
<1>5. \A x \in Tcb : x # cur /\ x # q => next'[x] = next[x]
  BY <1>1, <1>2 DEF NextBetween
<1>6. OnlyLast'
  <2>1. SUFFICES ASSUME NEW x \in Tcb, timeout'[x] > 0 PROVE x \in Listed' /\ next'[x] = -1
    BY DEF OnlyLast
  <2>2. timeout[x] > 0 /\ timeout[x] \in Int
    BY <1>2, <1>4, <2>1
  <2>3. x \in Listed /\ next[x] = -1 /\ x # cur
    BY <1>2, <2>2 DEF TimeInv, OnlyLast
  <2>4. x # q
    BY <1>2, <2>3, NoTcb
  <2>5. QED BY <1>3, <1>5, <2>3, <2>4
<1>7. LateOK'
  <2>1. SUFFICES ASSUME NEW x \in Listed' PROVE timeout'[x] < late[x] /\ late[x] > 0
    BY <1>1 DEF LateOK
  <2>2. x \in Tcb /\ timeout'[x] \in Int /\ timeout[x] \in Int /\ late[x] \in Nat /\ timeout'[x] <= timeout[x]
    BY <1>2, <1>3, <1>4, <2>1, Apart DEF SchedInv, TimeInv, TimeTypes
  <2>3. timeout[x] < late[x] /\ late[x] > 0
    <3>1. CASE x = cur
      <4>1. late[x] > 0
        BY <1>1, <3>1 DEF TimeInv, LateOK
      <4>2. QED BY <1>2, <2>2, <3>1, <4>1
    <3>2. CASE x # cur
      BY <1>1, <1>3, <2>1, <3>2 DEF TimeInv, LateOK
    <3>3. QED BY <3>1, <3>2
  <2>4. QED BY <2>2, <2>3
<1>8. DueOK'
  BY <1>1 DEF TimeInv, TimeTypes, DueOK
<1>9. QED BY <1>1, <1>4, <1>6, <1>7, <1>8 DEF TimeInv, TimeTypes, NoWalk

LEMMA TickTimes == ASSUME SchedInv, TimeInv, MissTick \/ TimerTick PROVE TimeInv'
<1>1. /\ at = "task" /\ at' # "walk" /\ due' = [t \in Tcb |-> IF due[t] > 0 THEN due[t] - 1 ELSE 0]
      /\ UNCHANGED <<timeout, next, place, cur, walk>>
  BY DEF MissTick, TimerTick, InTask, Ticked, lists
<1>2. \A t \in Tcb : due[t] \in Nat /\ timeout[t] \in Int /\ late[t] \in Nat
  BY DEF TimeInv, TimeTypes
<1>3. missed_ticks \in Nat /\ Listed' = Listed /\ Listed \in SUBSET Tcb
  BY <1>1, Apart DEF TimeInv, TimeTypes, Listed, SchedInv
<1>4. due' \in [Tcb -> Nat]
  BY <1>1, <1>2
<1>5. OnlyLast'
  BY <1>1, <1>3 DEF TimeInv, OnlyLast
<1>6. CASE MissTick
  <2>1. at' = "task" /\ late' = late /\ missed_ticks' = missed_ticks + 1
    BY <1>1, <1>6 DEF MissTick
  <2>2. TimeTypes' /\ LateOK'
    BY <1>1, <1>3, <1>4, <2>1 DEF TimeInv, TimeTypes, LateOK
  <2>3. DueOK'
    <3>1. SUFFICES ASSUME NEW t \in Tcb, due'[t] > 0
                   PROVE  /\ \A x \in Tcb : place[x] = "asleep" <=> x = t
                          /\ due'[t] <= 1 \/ due'[t] <= timeout[t] - missed_ticks' + 1
      BY <1>1, <2>1 DEF DueOK
    <3>2. due[t] > 0 /\ due'[t] = due[t] - 1
      BY <1>1, <1>2, <3>1
    <3>3. (\A x \in Tcb : place[x] = "asleep" <=> x = t) /\ (due[t] <= 1 \/ due[t] <= timeout[t] - missed_ticks + 1)
      BY <1>1, <3>2 DEF TimeInv, DueOK
    <3>4. QED BY <1>2, <1>3, <2>1, <3>2, <3>3
  <2>4. QED BY <1>5, <2>2, <2>3 DEF TimeInv
<1>7. CASE TimerTick
  <2>1. /\ at' = "timeouts" /\ missed_ticks' = missed_ticks
        /\ late' = [t \in Tcb |-> IF late[t] > 0 THEN late[t] - 1 ELSE 0]
    BY <1>7 DEF TimerTick, Counted
  <2>2. TimeTypes'
    BY <1>1, <1>2, <1>3, <1>4, <2>1 DEF TimeInv, TimeTypes
  <2>3. LateOK'
    <3>1. SUFFICES ASSUME NEW t \in Listed PROVE timeout[t] <= late'[t]
      BY <1>1, <1>3, <2>1 DEF LateOK
    <3>2. timeout[t] < late[t] /\ late[t] > 0
      BY <1>1, <3>1 DEF TimeInv, LateOK
    <3>3. QED BY <1>2, <1>3, <2>1, <3>1, <3>2
  <2>4. DueOK'
    <3>1. SUFFICES ASSUME NEW t \in Tcb, due'[t] > 0
                   PROVE  /\ \A x \in Tcb : place[x] = "asleep" <=> x = t
                          /\ due'[t] <= timeout[t] - missed_ticks
      BY <1>1, <2>1 DEF DueOK
    <3>2. due[t] > 0 /\ due'[t] = due[t] - 1
      BY <1>1, <1>2, <3>1
    <3>3. (\A x \in Tcb : place[x] = "asleep" <=> x = t) /\ (due[t] <= 1 \/ due[t] <= timeout[t] - missed_ticks + 1)
      BY <1>1, <3>2 DEF TimeInv, DueOK
    <3>4. QED BY <1>2, <1>3, <3>1, <3>2, <3>3
  <2>5. QED BY <1>5, <2>2, <2>3, <2>4 DEF TimeInv
<1>8. QED BY <1>6, <1>7

\* The entry that WakeOne takes off has slept long enough.
LEMMA WakeTimes == ASSUME SchedInv, TimeInv, WakeOne PROVE TimeInv'
<1> DEFINE s == TimeoutList
<1>1. /\ s \in Listed /\ s \in Tcb /\ place[s] = "asleep" /\ timeout[s] <= 0 /\ at = "timeouts"
      /\ Listed \in SUBSET Tcb /\ Ready \in SUBSET Tcb /\ Ready \cap Listed = {} /\ Types
  BY Apart DEF WakeOne, SchedInv, ListOK, Listing, Listed
<1>2. /\ place' = [place EXCEPT ![s] = "ready"] /\ late' = [late EXCEPT ![s] = 0]
      /\ InsertIntoReadyList(s, ClassOf(s), PrevPopped)
      /\ UNCHANGED <<timeout, missed_ticks, due, at, cur, walk>>
  BY DEF WakeOne
<1>3. \A x \in Listed : x # s => next'[x] = next[x]
  <2>1. ClassOf(s) \in Class
    BY <1>1, ReadyFacts
  <2>2. \A x \in Ready : PrevPopped[x] = prev[x]
    <3>1. next[s] \in Listed \cup {-1} /\ prev \in [Tcb -> Link]
      BY <1>1 DEF SchedInv, ListOK, Listing, Neighbours, Types
    <3>2. QED BY <1>1, <3>1 DEF PrevPopped, Second
  <2>3. \A x \in Tcb : x \notin Ready /\ x # s => next'[x] = next[x]
    BY <1>2, <2>1, <2>2, InsertFrame
  <2>4. QED BY <1>1, <2>3
<1> HIDE DEF s
<1>4. \A x \in Tcb : due[x] = 0
  <2>1. SUFFICES ASSUME NEW x \in Tcb, due[x] > 0 PROVE FALSE
    BY DEF TimeInv, TimeTypes
  <2>2. x = s /\ due[x] <= timeout[x] - missed_ticks
    BY <1>1, <2>1 DEF TimeInv, DueOK
  <2>3. timeout[x] \in Int /\ due[x] \in Nat /\ missed_ticks \in Nat
    BY <2>1 DEF TimeInv, TimeTypes
  <2>4. QED BY <1>1, <2>1, <2>2, <2>3
<1>5. Listed' = Listed \ {s}
  BY <1>1, <1>2 DEF Listed, Types
<1>6. TimeTypes'
  BY <1>1, <1>2 DEF TimeInv, TimeTypes
<1>7. OnlyLast'
  BY <1>1, <1>2, <1>3, <1>5 DEF TimeInv, OnlyLast, TimeTypes
<1>8. LateOK'
  BY <1>1, <1>2, <1>5 DEF TimeInv, LateOK, TimeTypes
<1>9. DueOK'
  BY <1>2, <1>4 DEF DueOK
<1>10. QED BY <1>6, <1>7, <1>8, <1>9 DEF TimeInv

\* A first entry with a timeout is the only one.
LEMMA EndTimes == ASSUME SchedInv, TimeInv, EndTimeouts PROVE TimeInv'
<1>1. at = "timeouts" /\ at' # "timeouts" /\ at' # "walk"
      /\ UNCHANGED <<place, due, late, TimeoutList, next, cur, walk>>
  BY DEF EndTimeouts, times
<1>2. Listed' = Listed /\ Listed \in SUBSET Tcb
  BY <1>1, Apart DEF Listed, SchedInv
<1>3. \A t \in Tcb : due[t] \in Nat /\ timeout[t] \in Int /\ late[t] \in Nat
  BY DEF TimeInv, TimeTypes
<1>4. missed_ticks \in Nat
  BY DEF TimeInv, TimeTypes
<1>5. CASE TimeoutList < 0
  <2>1. UNCHANGED <<timeout, missed_ticks>> /\ Listed = {}
    BY <1>2, <1>5, TcbFacts DEF EndTimeouts, SchedInv, ListOK, Listing
  <2>2. \A t \in Tcb : due[t] = 0
    <3>1. \A t \in Tcb : place[t] # "asleep"
      BY <1>1, <2>1 DEF Listed
    <3>2. QED BY <1>3, <3>1 DEF TimeInv, DueOK
  <2>3. TimeTypes' /\ OnlyLast'
    BY <1>1, <1>2, <2>1 DEF TimeInv, TimeTypes, OnlyLast
  <2>4. LateOK' /\ DueOK'
    BY <1>1, <1>2, <2>1, <2>2 DEF LateOK, DueOK
  <2>5. QED BY <2>3, <2>4 DEF TimeInv
<1>6. CASE ~(TimeoutList < 0)
  <2> DEFINE s == TimeoutList
             v == Less(timeout[s])
  <2>1. /\ timeout[s] > 0 /\ timeout' = [timeout EXCEPT ![s] = v] /\ missed_ticks' = 0
    BY <1>6 DEF EndTimeouts
  <2>2. s \in Listed /\ s \in Tcb
    BY <1>2, <1>6, TcbFacts DEF SchedInv, ListOK, Listing
  <2>3. Listed = {s}
    <3>1. Onward({s}, Listed, next)
      BY <2>1, <2>2, <1>2, NoTcb DEF TimeInv, OnlyLast, Onward
    <3>2. QED BY <2>2, <3>1 DEF SchedInv, ListOK, Listing, Reached
  <2>4. v = timeout[s] - missed_ticks - 1 /\ v \in Int
    BY <1>3, <1>4, <2>2 DEF Less
  <2> HIDE DEF s, v
  <2>5. timeout' \in [Tcb -> Int] /\ \A t \in Tcb : timeout'[t] = IF t = s THEN v ELSE timeout[t]
    BY <2>1, <2>2, <2>4 DEF TimeInv, TimeTypes
  <2>6. TimeTypes'
    BY <1>1, <2>1, <2>5 DEF TimeInv, TimeTypes
  <2>7. OnlyLast'
    <3>1. SUFFICES ASSUME NEW t \in Tcb, timeout'[t] > 0 PROVE t \in Listed /\ next[t] = -1
      BY <1>1, <1>2 DEF OnlyLast
    <3>2. timeout[t] > 0
      BY <1>3, <1>4, <2>1, <2>2, <2>4, <2>5, <3>1
    <3>3. QED BY <3>2 DEF TimeInv, OnlyLast
  <2>8. LateOK'
    <3>1. timeout[s] <= late[s]
      BY <1>1, <2>2 DEF TimeInv, LateOK
    <3>2. v < late[s] /\ late[s] > 0
      BY <1>3, <1>4, <2>1, <2>2, <2>4, <3>1
    <3>3. QED BY <1>1, <1>2, <2>2, <2>3, <2>5, <3>2 DEF LateOK
  <2>9. DueOK'
    <3>1. SUFFICES ASSUME NEW t \in Tcb, due[t] > 0
                   PROVE  /\ \A x \in Tcb : place[x] = "asleep" <=> x = t
                          /\ due[t] <= timeout'[t] - missed_ticks' + 1
      BY <1>1 DEF DueOK
    <3>2. (\A x \in Tcb : place[x] = "asleep" <=> x = t) /\ due[t] <= timeout[t] - missed_ticks
      BY <1>1, <3>1 DEF TimeInv, DueOK
    <3>3. t = s
      BY <2>2, <3>2 DEF Listed
    <3>4. timeout'[t] = timeout[t] - missed_ticks - 1
      BY <2>2, <2>4, <2>5, <3>3
    <3>5. QED BY <1>3, <1>4, <2>1, <3>2, <3>4
  <2>10. QED BY <2>6, <2>7, <2>8, <2>9 DEF TimeInv
<1>7. QED BY <1>5, <1>6

LEMMA TimeStep == ASSUME SchedInv, TimeInv, [Next]_vars PROVE TimeInv'
<1>1. CASE UNCHANGED vars \/ Wild
  <2>1. UNCHANGED <<timeout, due, late, missed_ticks, walk, at, cur, place, next>>
    BY <1>1 DEF vars, Wild, lists, job, times
  <2>2. Listed' = Listed
    BY <2>1 DEF Listed
  <2>3. QED BY <2>1, <2>2, KeepTimes
<1>2. CASE Reschedule \/ SelectTaskToRun
  <2>1. /\ UNCHANGED <<timeout, due, late, missed_ticks, walk, place, next>>
        /\ at \notin {"timeouts", "walk"} /\ at' \notin {"timeouts", "walk"}
    BY <1>2 DEF Reschedule, InTask, SelectTaskToRun, StartSelect, LookAtQueue, Choose, PassOver,
                KeepTask, Switch, Selecting, times
  <2>2. Listed' = Listed
    BY <2>1 DEF Listed
  <2>3. QED BY <2>1, <2>2, KeepTimes
<1>3. CASE SystemCall
  BY <1>1, <1>3, StartTimes, SleepTimes DEF SystemCall, NoTcbLeft, SleepOutside
<1>4. CASE Walk
  BY <1>1, <1>4, WalkOnTimes, InsertTimes DEF Walk, WalkOutside
<1>5. CASE MissTick \/ TimerTick \/ WakeOne \/ EndTimeouts
  BY <1>5, TickTimes, WakeTimes, EndTimes
<1>6. QED BY <1>1, <1>2, <1>3, <1>4, <1>5 DEF Next, SchedulerIRQ

LEMMA TimeInvariant == Spec => []TimeInv
<1>1. Init => TimeInv
  BY TimeInit
<1>2. SchedInv /\ TimeInv /\ [Next]_vars => TimeInv'
  BY TimeStep
<1>3. QED BY <1>1, <1>2, SchedInvariant, PTL DEF Spec

\* A sleep that no other overlaps ends at the tick after those it asked for, sooner only
\* by the ticks that had been missed before it (FMTKc.c:403-410, :413).
THEOREM SleepersSleep == Spec => []SleepsLongEnough
<1>1. TimeInv => SleepsLongEnough
  BY DEF TimeInv, DueOK, SleepsLongEnough
<1>2. QED BY <1>1, TimeInvariant, PTL

\* However sleeps overlap, and also when a sleeping task sleeps again, no sleeper is kept
\* asleep beyond the counted tick after those it asked for.
THEOREM SleepersWakeInTime == Spec => []WakesInTime
<1>1. TimeInv => WakesInTime
  BY DEF TimeInv, LateOK, Listed, WakesInTime
<1>2. QED BY <1>1, TimeInvariant, PTL
=============================================================================
