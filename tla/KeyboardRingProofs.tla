------------------------- MODULE KeyboardRingProofs -------------------------
(***************************************************************************)
(* The order of scancodes in KeyboardRing, proved for any size of the ring,*)
(* any number of keys and any tasks beside the one reader.                 *)
(*                                                                         *)
(* The argument counts: heads is the number of times KeybdHead was         *)
(* advanced, n the number of times KeybdTail was.  Slot number k was the   *)
(* k-th to become the head, so the first scancode goes to slot number 1,   *)
(* while the first slot that is read is number 0, which nobody wrote.      *)
(***************************************************************************)
EXTENDS KeyboardRing, TLAPS

OneReader == \E r : Reader = {r}

Places == {"idle", "look", "looked", "get", "read", "load", "store", "done"}

TypeOK ==
  /\ cur \in Task /\ holder \in Task \cup {Free}
  /\ head \in Slot /\ tail \in Slot /\ ring \in [Slot -> Nat]
  /\ irq \in [task : Task \cup {Free}, at : {"none", "lock", "head", "buffer", "unlock"}]
  /\ pc \in [Reader -> Places]
  /\ reg \in [Reader -> [kh : Slot, kt : Slot, sc : Nat]]
  /\ key \in Nat /\ (irq.at # "none" => key > 0)
  /\ put \in Seq(Nat \ {0}) /\ got \in Seq(Nat)

Wrap(i)  == IF i < RingSize THEN i ELSE i - RingSize
Heads    == IF irq.at = "buffer" THEN Len(put) + 1 ELSE Len(put)
Nth(k)   == IF k = 0 THEN 0 ELSE put[k]     \* what slot number k was filled with

\* The ring between tail and head holds what was put and not yet passed by.
Filled(n) ==
  /\ n <= Heads /\ Heads - n < RingSize
  /\ head = Wrap(tail + (Heads - n))
  /\ \A i \in 0 .. Len(put) - n : ring[Wrap(tail + i)] = Nth(n + i)

\* What the reader holds, and what it has returned.
Reading(r, n) ==
  /\ pc[r] = "load"  => reg[r].kt = tail /\ reg[r].sc = 0 /\ (Some(r) => n < Heads)
  /\ pc[r] = "store" => reg[r].kt = tail /\ Some(r) /\ n < Heads /\ reg[r].sc = Nth(n)
  /\ pc[r] = "done"  => IF Some(r) THEN n > 0 /\ reg[r].sc = Nth(n - 1) ELSE reg[r].sc = 0

Returned(r, n) ==
  LET m == IF pc[r] = "done" /\ Some(r) THEN n - 1 ELSE n IN
  /\ Len(got) = m
  /\ \A k \in 1 .. m : got[k] = Nth(k - 1)

OrderInv == \E n \in Nat : Filled(n) /\ \A r \in Reader : Reading(r, n) /\ Returned(r, n)

-----------------------------------------------------------------------------
(***************************************************************************)
(* Arithmetic of the slots.                                                *)
(***************************************************************************)
LEMMA AfterWraps ==
  ASSUME NEW i \in Slot
  PROVE  After(i) \in Slot /\ After(i) = Wrap(i + 1)
<1>1. RingSize \in Nat /\ RingSize > 1 /\ i \in Nat /\ i < RingSize
  BY RingAssumption DEF Slot
<1>2. CASE i + 1 < RingSize
  BY <1>1, <1>2 DEF After, Wrap, Slot
<1>3. CASE i + 1 = RingSize
  BY <1>1, <1>3 DEF After, Wrap, Slot
<1>4. QED BY <1>1, <1>2, <1>3

\* Two distances from one slot lead to one slot only when they are equal.
LEMMA WrapInjective ==
  ASSUME NEW i \in Slot, NEW j \in 0 .. RingSize - 1, NEW k \in 0 .. RingSize - 1
  PROVE  /\ Wrap(i + j) \in Slot
         /\ Wrap(i + j) = Wrap(i + k) => j = k
BY RingAssumption DEF Slot, Wrap

\* Going one slot further.
LEMMA WrapFurther ==
  ASSUME NEW i \in Slot, NEW j \in 0 .. RingSize - 1
  PROVE  /\ After(Wrap(i + j)) = Wrap(i + (j + 1)) \/ j + 1 = RingSize
         /\ j + 1 = RingSize => After(Wrap(i + j)) = i
         /\ j + 1 < RingSize => Wrap(After(i) + j) = Wrap(i + (j + 1))
<1>1. Wrap(i + j) \in Slot BY WrapInjective
<1>2. After(Wrap(i + j)) = Wrap(Wrap(i + j) + 1) /\ After(i) = Wrap(i + 1)
  BY <1>1, AfterWraps
<1>3. QED BY <1>2, RingAssumption DEF Wrap, Slot

-----------------------------------------------------------------------------
(***************************************************************************)
(* Types.                                                                  *)
(***************************************************************************)
LEMMA InitTypes == Init => TypeOK
BY RingAssumption DEF Init, TypeOK, Slot, NoIrq, Places

LEMMA NextTypes == TypeOK /\ [Next]_vars => TypeOK'
<1> SUFFICES ASSUME TypeOK, [Next]_vars PROVE TypeOK'
  OBVIOUS
<1> USE DEF TypeOK
<1>1. CASE KeyPressed
  BY <1>1 DEF KeyPressed
<1>2. CASE IrqLock \/ IrqUnlock
  BY <1>2 DEF IrqLock, IrqUnlock, Then, NoIrq, Irq
<1>3. CASE IrqHead
  BY <1>3, AfterWraps DEF IrqHead, Then, Irq
<1>4. CASE IrqBuffer
  <2>1. key \in Nat \ {0}
    BY <1>4 DEF IrqBuffer, Irq
  <2>2. put' \in Seq(Nat \ {0}) /\ ring' \in [Slot -> Nat]
    BY <1>4, <2>1 DEF IrqBuffer
  <2>3. QED BY <1>4, <2>2 DEF IrqBuffer, Then, Irq
<1>5. CASE Tick
  BY <1>5 DEF Tick
<1>6. ASSUME NEW t \in Reader, Read(t) PROVE TypeOK'
  <2>1. ASSUME NEW from, NEW to \in Places, Pointers(t, from, to) PROVE TypeOK'
    <3>1. reg' \in [Reader -> [kh : Slot, kt : Slot, sc : Nat]]
      BY <2>1 DEF Pointers
    <3>2. QED BY <2>1, <3>1 DEF Pointers, Goto, RingKept
  <2>2. ASSUME NEW from, NEW to \in Places, Lock(t, from, to) PROVE TypeOK'
    BY <2>2, RingAssumption DEF Lock, Goto, RingKept
  <2>8. ASSUME NEW from, LockFails(t, from) PROVE TypeOK'
    BY <2>8 DEF LockFails, Goto, RingKept, Places
  <2>3. CASE Load(t)
    <3>1. ring[reg[t].kt] \in Nat
      OBVIOUS
    <3>2. reg' \in [Reader -> [kh : Slot, kt : Slot, sc : Nat]]
      BY <2>3, <3>1 DEF Load
    <3>3. QED BY <2>3, <3>2 DEF Load, Goto, RingKept, Places
  <2>4. CASE StoreTail(t)
    BY <2>4, AfterWraps DEF StoreTail, Advance, Goto, RingKept, Places
  <2>5. CASE Return(t)
    <3>1. got' \in Seq(Nat)
      BY <2>5 DEF Return
    <3>2. QED BY <2>5, <3>1 DEF Return, Goto, RingKept, Places
  <2>6. CASE At(t, "looked") /\ holder' = Free /\ Goto(t, IF Some(t) THEN "get" ELSE "idle")
             /\ RingKept /\ UNCHANGED <<tail, reg, got>>
    BY <2>6 DEF Goto, RingKept, Places
  <2>7. "look" \in Places /\ "looked" \in Places /\ "read" \in Places /\ "load" \in Places
    BY DEF Places
  <2>9. QED BY <1>6, <2>1, <2>2, <2>3, <2>4, <2>5, <2>6, <2>7, <2>8
            DEF Read, KeybdGetBufferStatus, KeybdGetBufferedScancode
<1>7. CASE UNCHANGED vars
  BY <1>7 DEF vars
<1>8. QED BY <1>1, <1>2, <1>3, <1>4, <1>5, <1>6, <1>7 DEF Next, KeybdIRQ

\* The registers, the ring and the scancodes have their types.
THEOREM KeyboardTypes == Spec => []TypeOK
BY InitTypes, NextTypes, PTL DEF Spec

-----------------------------------------------------------------------------
(***************************************************************************)
(* KeybdIRQ.                                                               *)
(***************************************************************************)
\* What the reader holds and has returned stays right while heads and scancodes
\* are only added.
LEMMA ReaderUndisturbed ==
  ASSUME TypeOK, NEW n \in Nat, NEW r \in Reader, n <= Heads,
         Reading(r, n), Returned(r, n), UNCHANGED <<tail, pc, reg, got>>,
         Heads' \in Nat, Heads <= Heads', Len(put) <= Len(put'),
         \A k \in 1 .. Len(put) : put'[k] = put[k]
  PROVE  Reading(r, n)' /\ Returned(r, n)'
<1>0. /\ Len(put) \in Nat /\ Len(got) \in Nat /\ Heads \in Nat
      /\ Heads = Len(put) \/ Heads = Len(put) + 1
  BY DEF TypeOK, Heads
<1>1. \A k \in 0 .. Len(put) : Nth(k)' = Nth(k)
  BY <1>0 DEF Nth
<1>2. Some(r)' = Some(r)
  BY DEF Some
<1>3. Reading(r, n)'
  <2>1. n < Heads => n \in 0 .. Len(put) /\ n < Heads'
    BY <1>0
  <2>2. n > 0 => n - 1 \in 0 .. Len(put)
    BY <1>0
  <2>3. QED BY <1>1, <1>2, <2>1, <2>2 DEF Reading
<1>4. Returned(r, n)'
  <2>1. Len(got) <= Heads
    BY <1>0 DEF Returned
  <2>2. \A k \in 1 .. Len(got) : k - 1 \in 0 .. Len(put)
    BY <1>0, <2>1
  <2>3. QED BY <1>1, <1>2, <2>2 DEF Returned
<1>5. QED BY <1>3, <1>4

LEMMA IrqHeadStep ==
  ASSUME TypeOK, NEW n \in Nat, Filled(n), IrqHead
  PROVE  Filled(n)' /\ Heads <= Heads' /\ put' = put
<1>0. /\ irq.at = "head" /\ Heads = Len(put) /\ Len(put) \in Nat /\ RingSize \in Nat
      /\ RingSize > 1 /\ tail \in Slot /\ head \in Slot
      /\ UNCHANGED <<tail, ring, put>>
  BY RingAssumption DEF IrqHead, Irq, Heads, TypeOK
<1>1. CASE Room
  <2>1. head' = After(head) /\ irq'.at = "buffer" /\ Heads' = Heads + 1
    BY <1>0, <1>1 DEF IrqHead, Then, Heads, TypeOK
  <2>2. Heads - n \in 0 .. RingSize - 1 /\ head = Wrap(tail + (Heads - n))
    BY <1>0 DEF Filled
  <2>3. (Heads - n) + 1 # RingSize
    BY <1>0, <1>1, <2>2, WrapFurther DEF Room
  <2>4. head' = Wrap(tail + (Heads - n + 1))
    BY <1>0, <2>1, <2>2, <2>3, WrapFurther
  <2>5. Heads' - n = Heads - n + 1 /\ Heads' - n < RingSize /\ n <= Heads'
    BY <1>0, <2>1, <2>2, <2>3
  <2>6. QED BY <1>0, <2>1, <2>4, <2>5, SMTT(30) DEF Filled, Wrap, Nth
<1>2. CASE ~Room
  <2>1. head' = head /\ irq'.at = "unlock" /\ Heads' = Heads
    BY <1>0, <1>2 DEF IrqHead, Then, Heads, TypeOK
  <2>2. QED BY <1>0, <2>1 DEF Filled, Wrap, Nth
<1>3. QED BY <1>1, <1>2

LEMMA IrqBufferStep ==
  ASSUME TypeOK, NEW n \in Nat, Filled(n), IrqBuffer
  PROVE  /\ Filled(n)' /\ Heads' = Heads /\ Len(put') = Len(put) + 1
         /\ \A k \in 1 .. Len(put) : put'[k] = put[k]
<1>0. /\ irq.at = "buffer" /\ Heads = Len(put) + 1 /\ Len(put) \in Nat /\ RingSize \in Nat
      /\ RingSize > 1 /\ tail \in Slot /\ head \in Slot /\ key \in Nat
      /\ ring \in [Slot -> Nat] /\ UNCHANGED <<tail, head>>
  BY RingAssumption DEF IrqBuffer, Irq, Heads, TypeOK
<1>1. /\ put' = Append(put, key) /\ Len(put') = Len(put) + 1
      /\ put'[Len(put) + 1] = key /\ \A k \in 1 .. Len(put) : put'[k] = put[k]
  BY <1>0 DEF IrqBuffer, TypeOK
<1>2. irq'.at = "unlock" /\ Heads' = Heads
  BY <1>0, <1>1 DEF IrqBuffer, Then, TypeOK, Heads
<1>3. Heads - n \in 0 .. RingSize - 1 /\ head = Wrap(tail + (Heads - n))
  BY <1>0 DEF Filled
<1>4. ASSUME NEW i \in 0 .. Len(put') - n
      PROVE  ring'[Wrap(tail + i)] = Nth(n + i)'
  <2>1. i \in 0 .. RingSize - 1
    BY <1>0, <1>1, <1>3
  <2>2. i \in 0 .. RingSize - 1 /\ Wrap(tail + i) \in Slot
    BY <1>0, <2>1, WrapInjective
  <2>3. ring' = [ring EXCEPT ![head] = key]
    BY DEF IrqBuffer
  <2>4. CASE i = Heads - n
    <3>1. ring'[Wrap(tail + i)] = key
      BY <1>0, <1>3, <2>2, <2>3, <2>4
    <3>2. Nth(n + i)' = key
      BY <1>0, <1>1, <2>4 DEF Nth
    <3>3. QED BY <3>1, <3>2
  <2>5. CASE i # Heads - n
    <3>1. i \in 0 .. Len(put) - n /\ n + i \in 0 .. Len(put)
      BY <1>0, <1>1, <2>5
    <3>2. Wrap(tail + i) # head
      BY <1>3, <2>1, <2>2, <2>5, <1>0, WrapInjective
    <3>3. ring'[Wrap(tail + i)] = ring[Wrap(tail + i)]
      BY <1>0, <2>2, <2>3, <3>2
    <3>4. Nth(n + i)' = Nth(n + i)
      BY <1>0, <1>1, <3>1 DEF Nth
    <3>5. QED BY <3>1, <3>3, <3>4 DEF Filled
  <2>6. QED BY <2>4, <2>5
<1>5. n <= Heads' /\ Heads' - n < RingSize /\ head' = Wrap(tail' + (Heads' - n))
  BY <1>0, <1>2, <1>3
<1>6. QED BY <1>0, <1>1, <1>2, <1>4, <1>5 DEF Filled, Wrap

-----------------------------------------------------------------------------
(***************************************************************************)
(* The reader.                                                             *)
(***************************************************************************)
\* A step of the reader that leaves the tail.
LEMMA ReaderKeepsTail ==
  ASSUME TypeOK, TypeOK', NEW r \in Reader, NEW n \in Nat,
         Filled(n), Reading(r, n), Returned(r, n),
         Read(r), ~StoreTail(r)
  PROVE  Filled(n)' /\ Reading(r, n)' /\ Returned(r, n)'
<1>0. /\ UNCHANGED <<head, tail, ring, irq, put>> /\ Heads \in Nat /\ Len(put) \in Nat
      /\ (Heads = Len(put) \/ Heads = Len(put) + 1)
      /\ r \in DOMAIN pc /\ r \in DOMAIN reg /\ reg[r] \in [kh : Slot, kt : Slot, sc : Nat]
      /\ tail \in Slot /\ RingSize \in Nat /\ RingSize > 1 /\ tail \in Nat /\ tail < RingSize
  <2>1. UNCHANGED <<head, tail, ring, irq, put>>
    BY DEF Read, KeybdGetBufferStatus, KeybdGetBufferedScancode, LockFails, Lock, Pointers,
           Load, Return, RingKept
  <2>2. put \in Seq(Nat \ {0}) /\ Len(put) \in Nat
    BY DEF TypeOK
  <2>3. r \in DOMAIN pc /\ r \in DOMAIN reg /\ reg[r] \in [kh : Slot, kt : Slot, sc : Nat]
    BY DEF TypeOK
  <2>4. /\ tail \in Slot /\ RingSize \in Nat /\ RingSize > 1 /\ tail \in Nat /\ tail < RingSize
    BY RingAssumption DEF TypeOK, Slot
  <2>5. QED BY <2>1, <2>2, <2>3, <2>4 DEF Heads
<1>1. Heads' = Heads /\ \A k \in Nat : Nth(k)' = Nth(k)
  BY <1>0 DEF Heads, Nth
<1>2. Filled(n)'
  BY <1>0, <1>1 DEF Filled, Wrap, Nth
<1>3. CASE \E from, to : Lock(r, from, to) /\ to \in {"look", "read"} /\ from \in {"idle", "get"}
  <2>1. PICK from, to : Lock(r, from, to) /\ to \in {"look", "read"} /\ from \in {"idle", "get"}
    BY <1>3
  <2>2. /\ pc[r] \in {"idle", "get"} /\ pc'[r] \in {"look", "read"}
        /\ reg' = reg /\ got' = got /\ tail' = tail
    BY <1>0, <2>1 DEF Lock, Goto, At
  <2>3. Reading(r, n)'
    BY <2>2 DEF Reading
  <2>4. Returned(r, n)'
    BY <1>1, <2>2 DEF Returned
  <2>5. QED BY <1>2, <2>3, <2>4
<1>4. CASE \E from : LockFails(r, from) /\ from \in {"idle", "get"}
  BY <1>0, <1>1, <1>2, <1>4 DEF LockFails, Goto, At, Reading, Returned, Some
<1>5. CASE At(r, "looked") /\ holder' = Free /\ Goto(r, IF Some(r) THEN "get" ELSE "idle")
             /\ RingKept /\ UNCHANGED <<tail, reg, got>>
  BY <1>0, <1>1, <1>2, <1>5 DEF Goto, At, Reading, Returned, Some
<1>6. CASE Pointers(r, "look", "looked")
  BY <1>0, <1>1, <1>2, <1>6 DEF Pointers, Goto, At, Reading, Returned, Some
<1>7. CASE Pointers(r, "read", "load")
  <2>1. reg'[r].kh = head /\ reg'[r].kt = tail /\ reg'[r].sc = 0
    BY <1>0, <1>7 DEF Pointers
  <2>2. Some(r)' => n < Heads
    <3>1. n = Heads => head = tail
      BY <1>0, RingAssumption, SMTT(30) DEF Filled, Wrap, TypeOK, Slot
    <3>2. QED BY <1>0, <2>1, <3>1 DEF Filled, Some
  <2>3. Reading(r, n)' /\ Returned(r, n)'
    BY <1>0, <1>1, <1>7, <2>1, <2>2 DEF Pointers, Goto, At, Reading, Returned
  <2>4. QED BY <1>2, <2>3
<1>8. CASE Load(r)
  <2>1. CASE Some(r)
    <3>1. n < Heads /\ reg[r].kt = tail /\ n \in 0 .. Len(put)
      BY <1>0, <1>8, <2>1 DEF Load, At, Reading, Filled
    <3>2. reg'[r].sc = ring[tail] /\ reg'[r].kt = reg[r].kt /\ reg'[r].kh = reg[r].kh
      BY <1>0, <1>8, <2>1, <3>1 DEF Load
    <3>3. ring[tail] = Nth(n)
      <4>1. 0 \in 0 .. Len(put) - n /\ Wrap(tail + 0) = tail /\ n + 0 = n
        BY <3>1, <1>0 DEF Wrap
      <4>2. ring[Wrap(tail + 0)] = Nth(n + 0)
        BY <4>1 DEF Filled
      <4>3. QED BY <4>1, <4>2
    <3>4. Reading(r, n)' /\ Returned(r, n)'
      BY <1>0, <1>1, <1>8, <2>1, <3>1, <3>2, <3>3 DEF Load, At, Goto, Reading, Returned, Some
    <3>5. QED BY <1>2, <3>4
  <2>2. CASE ~Some(r)
    BY <1>0, <1>1, <1>2, <1>8, <2>2 DEF Load, At, Goto, Reading, Returned, Some
  <2>3. QED BY <2>1, <2>2
<1>9. CASE Return(r)
  <2>1. Reading(r, n)' /\ pc[r] = "done" /\ pc'[r] = "idle"
    BY <1>0, <1>9 DEF Return, At, Goto, Reading
  <2>2. Returned(r, n)'
    <3>1. CASE Some(r)
      <4>1. n > 0 /\ reg[r].sc = Nth(n - 1)
        BY <2>1, <3>1 DEF Reading
      <4>2. got' = Append(got, Nth(n - 1)) /\ got \in Seq(Nat) /\ Len(got) = n - 1
        BY <1>9, <2>1, <3>1, <4>1 DEF Return, Returned, TypeOK
      <4>3. Len(got') = n /\ got'[n] = Nth(n - 1) /\ \A k \in 1 .. n - 1 : got'[k] = got[k]
        BY <4>1, <4>2
      <4>4. \A k \in 1 .. n - 1 : got[k] = Nth(k - 1)
        BY <2>1, <3>1 DEF Returned
      <4>5. \A k \in 1 .. n : got'[k] = Nth(k - 1)
        BY <4>1, <4>3, <4>4
      <4>6. QED BY <1>0, <1>1, <2>1, <4>3, <4>5 DEF Returned
    <3>3. CASE ~Some(r)
      BY <1>0, <1>1, <1>9, <2>1, <3>3 DEF Return, Returned
    <3>4. QED BY <3>1, <3>3
  <2>3. QED BY <1>2, <2>1, <2>2
<1>10. QED BY <1>3, <1>4, <1>5, <1>6, <1>7, <1>8, <1>9
           DEF Read, KeybdGetBufferStatus, KeybdGetBufferedScancode

\* The tail moves on: one slot less between tail and head.
LEMMA StoreTailStep ==
  ASSUME TypeOK, NEW r \in Reader, NEW n \in Nat,
         Filled(n), Reading(r, n), Returned(r, n), StoreTail(r)
  PROVE  Filled(n + 1)' /\ Reading(r, n + 1)' /\ Returned(r, n + 1)'
<1>1. /\ UNCHANGED <<head, ring, irq, put, reg, got>> /\ tail' = After(tail)
      /\ pc[r] = "store" /\ pc'[r] = "done" /\ reg[r].kt = tail
      /\ Some(r) /\ n < Heads /\ reg[r].sc = Nth(n)
  BY DEF StoreTail, Advance, At, Goto, RingKept, Reading, TypeOK
<1>2. /\ Len(put) \in Nat /\ (Heads = Len(put) \/ Heads = Len(put) + 1)
      /\ RingSize \in Nat /\ RingSize > 1 /\ tail \in Slot
  BY RingAssumption DEF TypeOK, Heads
<1>3. Heads' = Heads /\ (\A k \in Nat : Nth(k)' = Nth(k)) /\ Some(r)' = Some(r)
  BY <1>1 DEF Heads, Nth, Some
<1>4. ASSUME NEW j \in 0 .. RingSize - 1, j + 1 < RingSize
      PROVE  Wrap(tail' + j) = Wrap(tail + (j + 1))
  BY <1>1, <1>2, <1>4, WrapFurther
<1>5. Filled(n + 1)'
  <2>1. n + 1 <= Heads' /\ Heads' - (n + 1) < RingSize
    BY <1>1, <1>2, <1>3 DEF Filled
  <2>2. head' = Wrap(tail' + (Heads' - (n + 1)))
    <3>1. /\ Heads - (n + 1) \in 0 .. RingSize - 1 /\ (Heads - (n + 1)) + 1 < RingSize
          /\ (Heads - (n + 1)) + 1 = Heads - n
      BY <1>1, <1>2 DEF Filled
    <3>2. Wrap(tail' + (Heads - (n + 1))) = Wrap(tail + (Heads - n))
      BY <1>4, <3>1
    <3>3. QED BY <1>1, <1>3, <3>2 DEF Filled
  <2>3. ASSUME NEW i \in 0 .. Len(put') - (n + 1)
        PROVE  ring'[Wrap(tail' + i)] = Nth(n + 1 + i)'
    <3>1. /\ i \in 0 .. RingSize - 1 /\ i + 1 < RingSize /\ i + 1 \in 0 .. Len(put) - n
          /\ n + (i + 1) = n + 1 + i /\ n + 1 + i \in Nat
      BY <1>1, <1>2, <2>3 DEF Filled
    <3>2. ring[Wrap(tail + (i + 1))] = Nth(n + (i + 1))
      BY <3>1 DEF Filled
    <3>3. QED BY <1>1, <1>3, <1>4, <3>1, <3>2
  <2>4. QED BY <1>1, <2>1, <2>2, <2>3 DEF Filled, Wrap, Nth
<1>6. Reading(r, n + 1)'
  BY <1>1, <1>2, <1>3 DEF Reading
<1>7. Returned(r, n + 1)'
  BY <1>1, <1>2, <1>3 DEF Returned
<1>8. QED BY <1>5, <1>6, <1>7

-----------------------------------------------------------------------------
LEMMA InitOrder == Init => OrderInv
<1> SUFFICES ASSUME Init PROVE OrderInv
  OBVIOUS
<1>1. Heads = 0 /\ Len(put) = 0 /\ Len(got) = 0 /\ RingSize > 1
  BY RingAssumption DEF Init, Heads, NoIrq
<1>2. Filled(0)
  BY <1>1, RingAssumption DEF Init, Filled, Wrap, Nth, Slot
<1>3. ASSUME NEW r \in Reader PROVE Reading(r, 0) /\ Returned(r, 0)
  BY <1>1 DEF Init, Reading, Returned
<1>4. QED BY <1>2, <1>3 DEF OrderInv

LEMMA NextOrder ==
  ASSUME OneReader, TypeOK, TypeOK', OrderInv, [Next]_vars
  PROVE  OrderInv'
<1>1. PICK n \in Nat : Filled(n) /\ \A r \in Reader : Reading(r, n) /\ Returned(r, n)
  BY DEF OrderInv
<1>2. /\ Len(put) \in Nat /\ Heads \in Nat /\ Heads' \in Nat /\ n <= Heads
  BY <1>1, SMTT(30) DEF TypeOK, Heads, Filled
<1>3. CASE KeyPressed \/ IrqLock \/ IrqUnlock \/ Tick \/ UNCHANGED vars
  <2>1. UNCHANGED <<head, tail, ring, put, pc, reg, got>> /\ Heads' = Heads
    BY <1>3 DEF KeyPressed, IrqLock, IrqUnlock, Irq, Then, Tick, vars, NoIrq, Heads, TypeOK
  <2>2. Filled(n)'
    BY <1>1, <2>1 DEF Filled, Wrap, Nth
  <2>3. ASSUME NEW r \in Reader PROVE Reading(r, n)' /\ Returned(r, n)'
    BY <1>1, <1>2, <2>1, ReaderUndisturbed
  <2>4. QED BY <2>2, <2>3 DEF OrderInv
<1>4. CASE IrqHead
  <2>1. Filled(n)' /\ Heads <= Heads' /\ put' = put
    BY <1>1, <1>4, IrqHeadStep
  <2>2. UNCHANGED <<tail, pc, reg, got>>
    BY <1>4 DEF IrqHead
  <2>3. ASSUME NEW r \in Reader PROVE Reading(r, n)' /\ Returned(r, n)'
    BY <1>1, <1>2, <2>1, <2>2, ReaderUndisturbed
  <2>4. QED BY <2>1, <2>3 DEF OrderInv
<1>5. CASE IrqBuffer
  <2>1. /\ Filled(n)' /\ Heads' = Heads /\ Len(put') = Len(put) + 1
        /\ \A k \in 1 .. Len(put) : put'[k] = put[k]
    BY <1>1, <1>5, IrqBufferStep
  <2>2. UNCHANGED <<tail, pc, reg, got>> /\ Heads <= Heads' /\ Len(put) <= Len(put')
    BY <1>2, <1>5, <2>1 DEF IrqBuffer
  <2>3. ASSUME NEW r \in Reader PROVE Reading(r, n)' /\ Returned(r, n)'
    BY <1>1, <1>2, <2>1, <2>2, ReaderUndisturbed
  <2>4. QED BY <2>1, <2>3 DEF OrderInv
<1>6. ASSUME NEW r \in Reader, Read(r) PROVE OrderInv'
  <2>1. \A k \in Reader : k = r
    BY DEF OneReader
  <2>2. CASE StoreTail(r)
    <3>1. Filled(n + 1)' /\ Reading(r, n + 1)' /\ Returned(r, n + 1)'
      BY <1>1, <2>2, StoreTailStep
    <3>2. n + 1 \in Nat
      OBVIOUS
    <3>3. QED BY <2>1, <3>1, <3>2 DEF OrderInv
  <2>3. CASE ~StoreTail(r)
    <3>1. Filled(n)' /\ Reading(r, n)' /\ Returned(r, n)'
      BY <1>1, <1>6, <2>3, ReaderKeepsTail
    <3>2. QED BY <2>1, <3>1 DEF OrderInv
  <2>4. QED BY <2>2, <2>3
<1>7. QED BY <1>3, <1>4, <1>5, <1>6 DEF Next, KeybdIRQ

\* What was returned is the beginning of what was put.
LEMMA OrderInvInOrder ==
  ASSUME OneReader, TypeOK, OrderInv
  PROVE  InOrder
<1>1. PICK n \in Nat : Filled(n) /\ \A r \in Reader : Reading(r, n) /\ Returned(r, n)
  BY DEF OrderInv
<1>2. PICK r \in Reader : TRUE
  BY DEF OneReader
<1>3. Len(put) \in Nat /\ Len(got) \in Nat /\ (Heads = Len(put) \/ Heads = Len(put) + 1) /\ n <= Heads
  BY <1>1 DEF TypeOK, Heads, Filled
<1>4. Reading(r, n) /\ Returned(r, n)
  BY <1>1
<1>5. Len(got) <= Heads /\ \A k \in 1 .. Len(got) : got[k] = Nth(k - 1)
  BY <1>3, <1>4 DEF Reading, Returned
<1> DEFINE all == <<0>> \o put
<1>6. put \in Seq(Nat \ {0}) /\ got \in Seq(Nat)
  BY DEF TypeOK
<1>7. /\ all \in Seq(Nat) /\ Len(all) = Len(put) + 1
      /\ \A k \in 1 .. Len(put) + 1 : all[k] = Nth(k - 1)
  BY <1>6 DEF Nth
<1> HIDE DEF all
<1>8. Len(got) <= Len(all) /\ \A k \in 1 .. Len(got) : got[k] = all[k]
  BY <1>3, <1>5, <1>7
<1>9. SubSeq(got, 1, Len(got)) = SubSeq(all, 1, Len(got))
  BY <1>3, <1>6, <1>7, <1>8
<1>10. QED BY <1>8, <1>9 DEF InOrder, IsPrefix, all

\* With one reader the scancodes are taken out in the order in which KeybdIRQ put
\* them, after one that nobody put, each once and none left out, whatever the interleaving of the reader,
\* KeybdIRQ and the timer, and although the lock does not always exclude
\* (KeybdIRQ, KeybdGetBufferedScancode).
THEOREM ScancodesInOrder == ASSUME OneReader PROVE Spec => []InOrder
<1>1. TypeOK /\ TypeOK' /\ OrderInv /\ [Next]_vars => OrderInv'
  BY NextOrder
<1>2. TypeOK /\ OrderInv => InOrder
  BY OrderInvInOrder
<1>3. QED BY <1>1, <1>2, InitTypes, NextTypes, InitOrder, PTL DEF Spec
=============================================================================
