----------------------------- MODULE KeyboardRing -----------------------------
(***************************************************************************)
(* keybd.c of the FMTK kernel: KeybdIRQ puts scancodes into the ring of    *)
(* the job with the focus, tasks of the job take them out, kbd_sema guards *)
(* the ring.  KeybdIRQ enables interrupts again (cli), so that the timer   *)
(* changes the task in the middle of it, and it locks under the TCB of the *)
(* task it interrupted, which may be in the guarded section itself.        *)
(*                                                                         *)
(* LockSemaphore is one step here (KernelLock has its own steps): it       *)
(* succeeds when the semaphore is free or the task's own.                  *)
(***************************************************************************)
EXTENDS Integers, Sequences, FiniteSets, SequencesExt

CONSTANTS Task, Reader,   \* the tasks, and those that read the keyboard
          Free,           \* what an unlocked semaphore holds
          RingSize,       \* 32
          MaxKeys         \* bound: keys that are pressed

ASSUME RingAssumption ==
  Reader \subseteq Task /\ Free \notin Task /\ RingSize \in Nat \ {0, 1} /\ MaxKeys \in Nat

VARIABLES
  cur,               \* the running task
  holder,            \* kbd_sema
  head, tail, ring,  \* KeybdHead, KeybdTail, KeybdBuffer
  irq,               \* KeybdIRQ: the task it interrupted, its place, its key
  pc, reg,           \* of each reader: its place, and its kh, kt and sc
  key,               \* keys pressed so far; they are numbered
  put, got           \* scancodes put into the ring, and taken out by readers

vars == <<cur, holder, head, tail, ring, irq, pc, reg, key, put, got>>

Slot == 0 .. RingSize - 1
NoIrq == [task |-> Free, at |-> "none"]

\* Job control blocks start with an empty ring; no key has number 0.
Init ==
  /\ cur \in Task /\ holder = Free /\ irq = NoIrq
  /\ head = 0 /\ tail = 0 /\ ring = [i \in Slot |-> 0]
  /\ pc = [t \in Reader |-> "idle"] /\ reg = [t \in Reader |-> [kh |-> 0, kt |-> 0, sc |-> 0]]
  /\ key = 0 /\ put = <<>> /\ got = <<>>

After(i)  == (i + 1) % RingSize            \* kh++; kh &= 31
CanLock(t) == holder \in {Free, t}

(***************************************************************************)
(* KeybdIRQ.  A key comes when the routine for the one before has ended.   *)
(* Until the receive register is cleared the routine tries again, so that  *)
(* a failed lock only delays the key.                                      *)
(***************************************************************************)
Irq(at) == irq.task = cur /\ irq.at = at
Then(at) == irq' = [irq EXCEPT !.at = at]

KeyPressed ==
  /\ irq = NoIrq /\ key < MaxKeys
  /\ key' = key + 1 /\ irq' = [task |-> cur, at |-> "lock"]
  /\ UNCHANGED <<cur, holder, head, tail, ring, pc, reg, put, got>>

IrqLock ==
  /\ Irq("lock") /\ CanLock(cur)
  /\ holder' = cur /\ Then("head")
  /\ UNCHANGED <<cur, head, tail, ring, pc, reg, key, put, got>>

BugRoom == TRUE
Room == After(head) # tail

IrqHead ==                                 \* the head is stored before the scancode
  /\ Irq("head")
  /\ IF Room THEN head' = After(head) /\ Then("buffer")
     ELSE head' = head /\ Then("unlock")
  /\ UNCHANGED <<cur, holder, tail, ring, pc, reg, key, put, got>>

IrqBuffer ==
  /\ Irq("buffer") /\ Then("unlock")
  /\ ring' = [ring EXCEPT ![head] = key] /\ put' = Append(put, key)
  /\ UNCHANGED <<cur, holder, head, tail, pc, reg, key, got>>

IrqUnlock ==
  /\ Irq("unlock") /\ holder' = Free /\ irq' = NoIrq
  /\ UNCHANGED <<cur, head, tail, ring, pc, reg, key, put, got>>

(***************************************************************************)
(* The loop of KeybdGetBufferedChar: KeybdGetBufferStatus, and when it     *)
(* says that there is a scancode, KeybdGetBufferedScancode.                *)
(***************************************************************************)
At(t, place) == cur = t /\ irq.task # t /\ pc[t] = place
Goto(t, place) == pc' = [pc EXCEPT ![t] = place]
RingKept == UNCHANGED <<head, ring, irq, key, put, cur>>

\* A lock that fails: no scancode, or scancode 0.
LockFails(t, place) ==
  /\ At(t, place) /\ ~CanLock(t) /\ Goto(t, "idle")
  /\ RingKept /\ UNCHANGED <<holder, tail, reg, got>>

Lock(t, from, to) ==
  /\ At(t, from) /\ CanLock(t) /\ holder' = t /\ Goto(t, to)
  /\ RingKept /\ UNCHANGED <<tail, reg, got>>

Pointers(t, from, to) ==
  /\ At(t, from) /\ Goto(t, to)
  /\ reg' = [reg EXCEPT ![t].kh = head, ![t].kt = tail, ![t].sc = 0]
  /\ RingKept /\ UNCHANGED <<holder, tail, got>>

Some(t) == reg[t].kh # reg[t].kt

KeybdGetBufferStatus(t) ==
  \/ LockFails(t, "idle") \/ Lock(t, "idle", "look") \/ Pointers(t, "look", "looked")
  \/ /\ At(t, "looked") /\ holder' = Free /\ Goto(t, IF Some(t) THEN "get" ELSE "idle")
     /\ RingKept /\ UNCHANGED <<tail, reg, got>>

Load(t) ==
  /\ At(t, "load") /\ Goto(t, IF Some(t) THEN "store" ELSE "done")
  /\ reg' = IF Some(t) THEN [reg EXCEPT ![t].sc = ring[reg[t].kt]] ELSE reg
  /\ RingKept /\ UNCHANGED <<holder, tail, got>>

Advance(t) == After(reg[t].kt)

StoreTail(t) ==
  /\ At(t, "store") /\ Goto(t, "done") /\ tail' = Advance(t)
  /\ RingKept /\ UNCHANGED <<holder, reg, got>>

Return(t) ==
  /\ At(t, "done") /\ holder' = Free /\ Goto(t, "idle")
  /\ got' = IF Some(t) THEN Append(got, reg[t].sc) ELSE got
  /\ RingKept /\ UNCHANGED <<tail, reg>>

KeybdGetBufferedScancode(t) ==
  \/ LockFails(t, "get") \/ Lock(t, "get", "read") \/ Pointers(t, "read", "load")
  \/ Load(t) \/ StoreTail(t) \/ Return(t)

\* The timer tick, also in KeybdIRQ.
BugTick ==
  /\ cur' \in IF irq = NoIrq THEN Task ELSE {cur}
  /\ UNCHANGED <<holder, head, tail, ring, irq, pc, reg, key, put, got>>

Tick ==
  /\ cur' \in Task
  /\ UNCHANGED <<holder, head, tail, ring, irq, pc, reg, key, put, got>>

KeybdIRQ == IrqLock \/ IrqHead \/ IrqBuffer \/ IrqUnlock
Read(t)  == KeybdGetBufferStatus(t) \/ KeybdGetBufferedScancode(t)

Next == KeyPressed \/ KeybdIRQ \/ Tick \/ \E t \in Reader : Read(t)

Spec == Init /\ [][Next]_vars

\* The scheduler gives every task its turn, and a turn is long enough for a step.
FairSpec ==
  /\ Spec /\ SF_vars(KeybdIRQ)
  /\ \A t \in Task : WF_vars(Tick /\ cur' = t)
  /\ \A t \in Reader : SF_vars(Read(t))

(***************************************************************************)
(* Properties.                                                             *)
(***************************************************************************)

\* With one reader, the ring loses, repeats and reorders nothing that was put
\* into it, although KeybdIRQ takes the reader's own lock and unlocks it in the
\* middle of its section.  The head is advanced before the scancode is stored, so
\* that the first scancode a reader takes is the 0 of the slot that nobody wrote,
\* and each key is taken when the next one came.
InOrder == IsPrefix(got, <<0>> \o put)

\* The semaphore is unlocked again, also when the interrupt routine waits for it
\* under another task: cli lets the timer take the processor from the routine and
\* give it to the holder.
LockReleased == holder # Free ~> holder = Free
=============================================================================
