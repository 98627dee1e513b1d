--------------------------- MODULE KernelLockProofs ---------------------------
(***************************************************************************)
(* What KernelLock guarantees for every number of tasks and semaphores,    *)
(* every sharing of lines and every retry count, with ticks and key        *)
(* presses at any instruction.                                             *)
(***************************************************************************)
EXTENDS KernelLock, TLAPS

(***************************************************************************)
(* Type correctness, and what each caller asks for at each place.          *)
(***************************************************************************)
Asking == {"lwar", "swcr", "status", "held"}

Asks ==
  /\ \A c \in Caller : pc[c] \in Asking => want[c] \in Sema
  /\ \A t \in Task : pc[t] \notin {"switch", "return"}
  /\ pc[Key] # "switch" /\ (pc[Key] \in Asking => want[Key] = Kbd)
  /\ (pc[Timer] \in Asking => want[Timer] = Sys) /\ (pc[Timer] # "idle" => busy)
  /\ (under = Free <=> pc[Key] = "idle") /\ (under = Timer => pc[Timer] # "idle")

Typed == TypeOK /\ Asks

LEMMA SemaFacts ==
  /\ Kbd \in Sema /\ Sys \in Sema /\ Free \notin Sema
  /\ \A t \in Task : Wanted[t] \subseteq Sema
  /\ Key \in Caller /\ Timer \in Caller /\ Task \subseteq Caller
  /\ Free \notin Task /\ Key \notin Task /\ Timer \notin Task /\ Key # Timer
  /\ Free # Key /\ Free # Timer /\ Kbd # Sys
<1>1. \A t \in Task : Wanted[t] \subseteq Sema BY DEF Sema
<1>2. {Kbd, Sys} \subseteq Sema BY DEF Sema
<1> QED BY <1>1, <1>2, LockAssumption DEF Caller

LEMMA ReserveType ==
  ASSUME TypeOK, NEW s \in Sema, NEW bk \in Reserve(s)
  PROVE  bk \in [{0, 1} -> Sema \cup {Free}] /\ \A b \in {0, 1} : bk[b] \in {bucket[b], s}
<1>1. CASE Chosen(s) = {} BY <1>1 DEF Reserve, TypeOK
<1>2. CASE \E b \in Chosen(s) : bk = [bucket EXCEPT ![b] = s]
  BY <1>2 DEF TypeOK, Chosen
<1> QED BY <1>1, <1>2 DEF Reserve

LEMMA EmptyType ==
  ASSUME NEW bk \in [{0, 1} -> Sema \cup {Free}], NEW s \in Sema
  PROVE  /\ Empty(bk, s) \in [{0, 1} -> Sema \cup {Free}]
         /\ \A b \in {0, 1} : Empty(bk, s)[b] = IF InLine(bk[b], s) THEN Free ELSE bk[b]
BY DEF Empty

LEMMA RunsCaller ==
  ASSUME TypeOK PROVE Runs \in Caller /\ Name(Runs) = cur /\ Runs \in {Key, Timer, cur}
<1>1. Runs \in {Key, Timer, cur} /\ Runs \in Caller BY SemaFacts DEF TypeOK, Runs
<1>2. CASE pc[Timer] # "idle" BY <1>2, SemaFacts DEF TypeOK, Runs, Name
<1>3. CASE pc[Timer] = "idle" BY <1>3, SemaFacts DEF TypeOK, Runs, Name
<1> QED BY <1>1, <1>2, <1>3

\* A step of a caller in LockSemaphore or UnlockSemaphore leaves who runs.
LEMMA LockStepKeeps ==
  ASSUME Typed, NEW c \in Caller, LockStep(c)
  PROVE  /\ Runs = c /\ Runs' = c /\ cur' = cur /\ under' = under /\ busy' = busy /\ shared' = shared
         /\ pc[c] \in Asking /\ pc' = [pc EXCEPT ![c] = pc'[c]]
         /\ (pc'[Timer] = "idle" <=> pc[Timer] = "idle")
<1> USE DEF Running, Goto, End, Asking, AfterUnlock, AfterLoad
<1>1. /\ Runs = c /\ cur' = cur /\ under' = under /\ busy' = busy /\ pc[c] \in Asking
      /\ shared' = shared
  BY DEF LockStep, Exhausted, Lwar, Swcr, Status, Unlock
<1>2. \E p : pc' = [pc EXCEPT ![c] = p] /\ (p # "idle" \/ c # Timer)
  BY SemaFacts DEF LockStep, Exhausted, Lwar, Swcr, Status, Unlock
<1>3. pc' = [pc EXCEPT ![c] = pc'[c]] BY <1>2 DEF Typed, TypeOK
<1>4. pc'[Timer] = "idle" <=> pc[Timer] = "idle"
  BY <1>1, <1>2, SemaFacts DEF Typed, TypeOK
<1>5. Runs' = c BY <1>1, <1>4 DEF Runs
<1> QED BY <1>1, <1>3, <1>4, <1>5

LEMMA LockStepTyped == ASSUME Typed, NEW c \in Caller, LockStep(c) PROVE Typed'
<1> USE SemaFacts DEF Typed, TypeOK, Running, Goto, End, Asking, Place
<1>1. Runs = c /\ cur' = cur /\ under' = under /\ busy' = busy /\ pc[c] \in Asking
      /\ pc' = [pc EXCEPT ![c] = pc'[c]] /\ want[c] \in Sema
  BY LockStepKeeps DEF Asks
<1>2. disturbed' \subseteq Sema
  BY DEF LockStep, Exhausted, Lwar, Swcr, Status, Unlock, Disturb, Exposed, Released
<1>3. CASE Exhausted(c) BY <1>1, <1>2, <1>3 DEF Exhausted, Asks
<1>4. CASE Lwar(c)
  <2>1. bucket' \in [{0, 1} -> Sema \cup {Free}] BY <1>1, <1>4, ReserveType DEF Lwar
  <2>2. pc'[c] \in {"held", "swcr", "lwar"} BY <1>4 DEF Lwar, AfterLoad
  <2>3. TypeOK' BY <1>1, <1>2, <1>4, <2>1, <2>2 DEF Lwar
  <2>4. Asks' BY <1>1, <1>4, <2>2 DEF Lwar, Asks
  <2> QED BY <2>3, <2>4
<1>5. CASE Swcr(c)
  <2>1. bucket' \in [{0, 1} -> Sema \cup {Free}] BY <1>1, <1>5, EmptyType DEF Swcr
  <2>2. status' \in BOOLEAN BY <1>5 DEF Swcr, Reserved
  <2>3. TypeOK' BY <1>1, <1>2, <1>5, <2>1, <2>2 DEF Swcr
  <2>4. Asks' BY <1>1, <1>5 DEF Swcr, Asks
  <2> QED BY <2>3, <2>4
<1>6. CASE Status(c) BY <1>1, <1>2, <1>6 DEF Status, Asks
<1>7. CASE Unlock(c)
  <2>1. pc'[c] \in {"switch", "return", "idle"} /\ (c \in Task => pc'[c] = "idle")
        /\ (c = Key => pc'[c] = "return") /\ (c = Timer => pc'[c] = "switch")
    BY <1>7 DEF Unlock, AfterUnlock, Caller
  <2>2. TypeOK' BY <1>1, <1>2, <1>7, <2>1 DEF Unlock
  <2>3. Asks' BY <1>1, <1>7, <2>1 DEF Unlock, Asks
  <2> QED BY <2>2, <2>3
<1> QED BY <1>3, <1>4, <1>5, <1>6, <1>7 DEF LockStep

\* The steps of tasks outside of the lock, and of the interrupt routines.
Other ==
  \/ RefusedTick \/ Tick \/ RestoreContext \/ KeyPressed \/ KeyReturn
  \/ \E t \in Task : Call(t) \/ SystemCall(t) \/ SystemReturn(t) \/ Reschedule(t)

LEMMA OtherTyped == ASSUME Typed, Other PROVE Typed'
<1> USE SemaFacts DEF Typed, TypeOK, Running, Goto, Begin, End, Asking, Place
<1>1. Retries \subseteq Int BY LockAssumption
<1>2. ASSUME Interrupt PROVE lost' \subseteq Sema /\ status' = FALSE
  BY <1>2, RunsCaller DEF Interrupt, Asks
<1>3. ASSUME Disturb({}) PROVE disturbed' \subseteq Sema BY <1>3 DEF Disturb
<1>4. CASE RefusedTick BY <1>2, <1>4 DEF RefusedTick, Asks
<1>5. CASE Tick BY <1>1, <1>2, <1>3, <1>5 DEF Tick, Asks
<1>6. CASE RestoreContext
  <2>1. under # Timer BY <1>6 DEF RestoreContext, Runs
  <2>2. pc' = [pc EXCEPT ![Timer] = "idle"] /\ want' = [want EXCEPT ![Timer] = Free]
        /\ busy' = FALSE /\ under' = under
    BY <1>6 DEF RestoreContext
  <2>5. disturbed' \subseteq Sema /\ cur' \in Task BY <1>3, <1>6 DEF RestoreContext
  <2>6. pc' \in [Caller -> Place] /\ want' \in [Caller -> Sema \cup {Free}] BY <2>2
  <2>7. tries' \in [Caller -> Int] BY <1>6 DEF RestoreContext
  <2>3. TypeOK' BY <1>6, <2>2, <2>5, <2>6, <2>7 DEF RestoreContext
  <2>4. Asks' BY <2>1, <2>2 DEF Asks
  <2> QED BY <2>3, <2>4
<1>7. CASE KeyPressed
  <2>1. Runs \in {Timer, cur} /\ (Runs = Timer => pc[Timer] # "idle")
    BY <1>7 DEF KeyPressed, Runs
  <2>2. under' \in Task \cup {Timer} /\ (under' = Timer => pc[Timer] # "idle")
    BY <1>7, <2>1 DEF KeyPressed
  <2>3. CASE Begin(Key, Kbd) BY <1>1, <1>2, <1>3, <1>7, <2>2, <2>3 DEF KeyPressed, Asks
  <2>4. CASE End(Key, "return") BY <1>2, <1>3, <1>7, <2>2, <2>4 DEF KeyPressed, Asks
  <2> QED BY <1>7, <2>3, <2>4 DEF KeyPressed
<1>8. CASE KeyReturn
  <2>1. pc' = [pc EXCEPT ![Key] = "idle"] /\ want' = [want EXCEPT ![Key] = Free]
        /\ busy' = busy /\ under' = Free
    BY <1>8 DEF KeyReturn
  <2>5. disturbed' \subseteq Sema BY <1>3, <1>8 DEF KeyReturn
  <2>6. pc' \in [Caller -> Place] /\ want' \in [Caller -> Sema \cup {Free}] BY <2>1
  <2>7. tries' \in [Caller -> Int] BY <1>8 DEF KeyReturn
  <2>2. TypeOK' BY <1>8, <2>1, <2>5, <2>6, <2>7 DEF KeyReturn
  <2>3. Asks' BY <2>1 DEF Asks
  <2> QED BY <2>2, <2>3
<1>9. ASSUME NEW t \in Task, Call(t) PROVE Typed' BY <1>1, <1>3, <1>9 DEF Call, Asks
<1>10. ASSUME NEW t \in Task, SystemCall(t) PROVE Typed' BY <1>2, <1>10 DEF SystemCall, Asks
<1>11. ASSUME NEW t \in Task, SystemReturn(t) PROVE Typed'
  <2>1. pc[Timer] = "idle" BY <1>11 DEF SystemReturn, Runs
  <2> QED BY <1>11, <2>1 DEF SystemReturn, Asks
<1>12. ASSUME NEW t \in Task, Reschedule(t) PROVE Typed'
  BY <1>2, <1>3, <1>12 DEF Reschedule, Asks
<1> QED BY <1>4, <1>5, <1>6, <1>7, <1>8, <1>9, <1>10, <1>11, <1>12 DEF Other

LEMMA TypeStep == Typed /\ [Next]_vars => Typed'
<1> SUFFICES ASSUME Typed, [Next]_vars PROVE Typed' OBVIOUS
<1>1. CASE Other BY <1>1, OtherTyped
<1>2. CASE \E c \in Caller : LockStep(c) BY <1>2, LockStepTyped
<1>3. CASE UNCHANGED vars BY <1>3 DEF vars, Typed, TypeOK, Asks
<1> QED BY <1>1, <1>2, <1>3 DEF Next, Other

LEMMA TypeInit == Init => Typed
<1> SUFFICES ASSUME Init PROVE Typed OBVIOUS
<1>1. TypeOK
  <2>1. sema \in [Sema -> Task \cup {Free}] /\ bucket \in [{0, 1} -> Sema \cup {Free}]
    BY DEF Init
  <2>2. /\ pc \in [Caller -> Place] /\ want \in [Caller -> Sema \cup {Free}]
        /\ tries \in [Caller -> Int]
    BY DEF Init, Place
  <2> QED BY <2>1, <2>2 DEF Init, TypeOK
<1>2. Asks BY SemaFacts DEF Init, Asks, Asking
<1> QED BY <1>1, <1>2 DEF Typed

\* The variables of the lock keep their types.
THEOREM LockTypes == Spec => []TypeOK
<1>1. Typed => TypeOK BY DEF Typed
<1> QED BY <1>1, TypeInit, TypeStep, PTL DEF Spec

(***************************************************************************)
(* The inductive invariant.  StatusInv: when the status is set and the     *)
(* running caller is about to read it, its store set it and its word is    *)
(* still there.  HeldInv: a holder of an undisturbed lock owns the word.   *)
(* StaleInv: while an undisturbed lock is taken, the buckets refuse the    *)
(* store of everybody who saw it free.  BackInv: a word was stored by a    *)
(* call under way, or its status was lost.  SwitchInv and TickLocks: no    *)
(* task is left behind with sys_sema.                                      *)
(***************************************************************************)
StatusInv == status /\ pc[Runs] = "status" => sema[want[Runs]] = cur

HeldInv ==
  \A c \in Caller : pc[c] = "held" /\ want[c] \notin disturbed => sema[want[c]] = Name(c)

StaleInv ==
  \A c \in Caller : pc[c] = "swcr" /\ want[c] \notin disturbed /\ sema[want[c]] # Free
                      => ~Reserved(want[c])

Behind(c, s) ==
  want[c] = s /\ Name(c) = sema[s] /\ (pc[c] = "held" \/ (Running(c, "status") /\ status))

BackInv == \A s \in Sema \ lost : sema[s] # Free => \E c \in Caller : Behind(c, s)

SwitchInv == pc[Timer] = "switch" /\ Sys \notin lost => sema[Sys] = Free

LockInv == StatusInv /\ HeldInv /\ StaleInv /\ BackInv /\ SwitchInv /\ TickLocks

\* A history that Disturb writes grows with S while somebody is past the load.
LEMMA DisturbKeeps ==
  ASSUME NEW S, Disturb(S), NEW c \in Caller,
         pc'[c] \in {"swcr", "status", "held"}, want'[c] \notin disturbed'
  PROVE  want'[c] \notin disturbed /\ want'[c] \notin S
BY DEF Disturb, InUse

\* The name a caller locks in is the same until it is through.
LEMMA NameKeeps ==
  ASSUME Typed, [Next]_vars, NEW c \in Caller, pc[c] \in Asking
  PROVE  Name(c)' = Name(c)
<1> USE SemaFacts DEF Typed, TypeOK, Running
<1>1. CASE UNCHANGED vars BY <1>1 DEF vars, Name
<1>2. ASSUME NEW d \in Caller, LockStep(d) PROVE Name(c)' = Name(c)
  BY <1>2, LockStepKeeps DEF Name
<1>3. CASE RestoreContext
  <2>1. c # Timer /\ under # Timer /\ under' = under
    BY <1>3 DEF RestoreContext, Runs, Asking
  <2>2. c = Key => under \in Task BY <2>1 DEF Asks, Asking
  <2> QED BY <2>1, <2>2 DEF Name, Caller
<1>4. CASE KeyPressed \/ KeyReturn
  <2>1. c # Key /\ cur' = cur BY <1>4 DEF KeyPressed, KeyReturn, Asks, Asking
  <2> QED BY <2>1 DEF Name
<1>5. CASE RefusedTick \/ Tick \/ \E t \in Task : Call(t) \/ SystemCall(t) \/ SystemReturn(t) \/ Reschedule(t)
  BY <1>5 DEF RefusedTick, Tick, Call, SystemCall, SystemReturn, Reschedule, Name
<1> QED BY <1>1, <1>2, <1>3, <1>4, <1>5 DEF Next

\* What all steps outside of LockSemaphore and UnlockSemaphore have in common.
LEMMA OtherFacts ==
  ASSUME Typed, Other
  PROVE  /\ sema' = sema /\ bucket' = bucket /\ shared' = shared
         /\ \A c \in Caller : pc'[c] \in {"swcr", "status", "held"} =>
              pc'[c] = pc[c] /\ want'[c] = want[c] /\ Name(c)' = Name(c)
                /\ (want[c] \notin disturbed' => want[c] \notin disturbed)
         /\ \A c \in Caller : pc[c] \in Asking => pc'[c] = pc[c] /\ want'[c] = want[c]
         /\ lost \subseteq lost'
         /\ (status' => status /\ Runs' = Runs /\ pc[Runs] = "idle")
         /\ (status /\ pc[Runs] = "status" => want[Runs] \in lost')
<1> USE SemaFacts DEF Typed, TypeOK, Running, Goto, Begin, End
<1>1. sema' = sema /\ bucket' = bucket /\ shared' = shared
  BY DEF Other, RefusedTick, Tick, RestoreContext, KeyPressed, KeyReturn,
         Call, SystemCall, SystemReturn, Reschedule
<1>2. [Next]_vars BY DEF Other, Next
<1>3. ASSUME NEW c \in Caller, pc[c] \in Asking PROVE pc'[c] = pc[c] /\ want'[c] = want[c]
  <2>1. CASE RefusedTick \/ \E t \in Task : SystemCall(t) \/ SystemReturn(t)
    BY <2>1 DEF RefusedTick, SystemCall, SystemReturn
  <2>2. CASE Tick \/ \E t \in Task : Reschedule(t)
    <3>1. pc[Timer] = "idle" BY <2>2 DEF Tick, Reschedule, Asks
    <3> QED BY <1>3, <2>2, <3>1 DEF Tick, Reschedule, Asking
  <2>3. CASE RestoreContext BY <1>3, <2>3 DEF RestoreContext, Asking
  <2>4. CASE KeyPressed
    <3>1. pc[Key] = "idle" BY <2>4 DEF KeyPressed, Asks
    <3> QED BY <1>3, <2>4, <3>1 DEF KeyPressed, Asking
  <2>5. CASE KeyReturn BY <1>3, <2>5 DEF KeyReturn, Asking
  <2>6. CASE \E t \in Task : Call(t) BY <1>3, <2>6 DEF Call, Asking
  <2> QED BY <2>1, <2>2, <2>3, <2>4, <2>5, <2>6 DEF Other
<1>4. ASSUME NEW c \in Caller, pc'[c] \in {"swcr", "status", "held"} PROVE pc[c] = pc'[c]
  BY <1>4 DEF Other, RefusedTick, Tick, RestoreContext, KeyPressed, KeyReturn,
              Call, SystemCall, SystemReturn, Reschedule
<1>5. ASSUME NEW c \in Caller, pc'[c] \in {"swcr", "status", "held"}
      PROVE  /\ pc'[c] = pc[c] /\ want'[c] = want[c] /\ Name(c)' = Name(c)
             /\ (want[c] \notin disturbed' => want[c] \notin disturbed)
  <2>1. pc[c] = pc'[c] /\ pc[c] \in Asking BY <1>4, <1>5 DEF Asking
  <2>2. want'[c] = want[c] /\ Name(c)' = Name(c) BY <1>2, <1>3, <2>1, NameKeeps
  <2>3. disturbed' = disturbed \/ Disturb({})
    BY DEF Other, RefusedTick, Tick, RestoreContext, KeyPressed, KeyReturn,
           Call, SystemCall, SystemReturn, Reschedule
  <2>4. want[c] \notin disturbed' => want[c] \notin disturbed
    BY <1>5, <2>2, <2>3, DisturbKeeps
  <2> QED BY <2>1, <2>2, <2>4
<1>6. lost \subseteq lost'
  BY DEF Other, RefusedTick, Tick, RestoreContext, KeyPressed, KeyReturn,
         Call, SystemCall, SystemReturn, Reschedule, Interrupt
<1>7. ASSUME status' PROVE status /\ Runs' = Runs /\ pc[Runs] = "idle"
  <2>1. PICK t \in Task : Call(t)
    BY <1>7 DEF Other, RefusedTick, Tick, RestoreContext, KeyPressed, KeyReturn,
                SystemCall, SystemReturn, Reschedule, Interrupt
  <2>2. pc'[Timer] = pc[Timer] /\ Runs = t /\ cur' = cur /\ under' = under BY <2>1 DEF Call
  <2> QED BY <1>7, <2>1, <2>2 DEF Call, Runs
<1>8. ASSUME status, pc[Runs] = "status" PROVE want[Runs] \in lost'
  <2>1. CASE Interrupt BY <1>8, <2>1 DEF Interrupt
  <2>2. CASE ~Interrupt
    BY <1>8, <2>2 DEF Other, RefusedTick, Tick, RestoreContext, KeyPressed, KeyReturn,
         Call, SystemCall, SystemReturn, Reschedule
  <2> QED BY <2>1, <2>2
<1> QED BY <1>1, <1>3, <1>5, <1>6, <1>7, <1>8

LEMMA OtherLock == ASSUME Typed, LockInv, Other PROVE LockInv'
<1> USE SemaFacts DEF Typed, TypeOK
<1>0. /\ sema' = sema /\ bucket' = bucket /\ shared' = shared
      /\ \A c \in Caller : pc'[c] \in {"swcr", "status", "held"} =>
           pc'[c] = pc[c] /\ want'[c] = want[c] /\ Name(c)' = Name(c)
             /\ (want[c] \notin disturbed' => want[c] \notin disturbed)
      /\ \A c \in Caller : pc[c] \in Asking => pc'[c] = pc[c] /\ want'[c] = want[c]
      /\ lost \subseteq lost'
      /\ (status' => status /\ Runs' = Runs /\ pc[Runs] = "idle")
      /\ (status /\ pc[Runs] = "status" => want[Runs] \in lost')
  BY OtherFacts
<1>1. StatusInv' BY <1>0, RunsCaller DEF StatusInv
<1>2. HeldInv' BY <1>0 DEF LockInv, HeldInv
<1>3. StaleInv' BY <1>0 DEF LockInv, StaleInv, Reserved, InLine
<1>4. BackInv'
  <2> SUFFICES ASSUME NEW s \in Sema \ lost', sema[s] # Free
               PROVE  \E c \in Caller : Behind(c, s)'
    BY <1>0 DEF BackInv
  <2>1. PICK c \in Caller : Behind(c, s) BY <1>0 DEF LockInv, BackInv
  <2>2. pc[c] = "held" /\ want[c] = s /\ Name(c) = sema[s]
    BY <1>0, <2>1 DEF Behind, Running
  <2>3. pc'[c] = "held" /\ want'[c] = s BY <1>0, <2>2 DEF Asking
  <2> QED BY <1>0, <2>2, <2>3 DEF Behind
<1>5. CASE \E t \in Task : Reschedule(t)
  <2>1. PICK t \in Task : Reschedule(t) BY <1>5
  <2>2. Runs = t /\ pc[t] = "idle" /\ ~busy /\ cur' = cur
    BY <2>1 DEF Reschedule, Running
  <2>3. pc[Timer] = "idle" /\ cur = t BY <2>2 DEF Asks, Runs
  <2>4. ASSUME Sys \notin lost, NEW c \in Caller, Behind(c, Sys) PROVE Name(c) # cur
    <3>1. c # Key /\ c # Timer BY <2>3, <2>4 DEF Behind, Running, Asks, Asking
    <3>2. c \in Task /\ Name(c) = c BY <3>1 DEF Caller, Name
    <3>3. c # t BY <2>2, <2>4 DEF Behind, Running
    <3> QED BY <2>3, <3>2, <3>3
  <2>5. Sys \notin lost => sema[Sys] = Free
    BY <2>4 DEF LockInv, BackInv, TickLocks, Behind
  <2>6. SwitchInv' /\ TickLocks' BY <1>0, <2>2, <2>5 DEF SwitchInv, TickLocks
  <2> QED BY <1>1, <1>2, <1>3, <1>4, <2>6 DEF LockInv
<1>6. CASE ~\E t \in Task : Reschedule(t)
  <2>1. pc'[Timer] = "switch" => pc[Timer] = "switch"
    BY <1>6 DEF Other, RefusedTick, Tick, RestoreContext, KeyPressed, KeyReturn, Goto,
                Begin, End, Call, SystemCall, SystemReturn
  <2>2. SwitchInv' BY <1>0, <2>1 DEF LockInv, SwitchInv
  <2>3. CASE RestoreContext
    <3>1. pc[Timer] = "switch" \/ cur' = cur BY <2>3 DEF RestoreContext
    <3> QED BY <1>0, <1>1, <1>2, <1>3, <1>4, <2>2, <3>1 DEF LockInv, SwitchInv, TickLocks
  <2>4. CASE ~RestoreContext
    <3>1. cur' = cur
      BY <1>6, <2>4 DEF Other, RefusedTick, Tick, KeyPressed, KeyReturn,
                        Call, SystemCall, SystemReturn
    <3> QED BY <1>0, <1>1, <1>2, <1>3, <1>4, <2>2, <3>1 DEF LockInv, TickLocks
  <2> QED BY <2>3, <2>4
<1> QED BY <1>5, <1>6

\* What all steps of LockSemaphore and UnlockSemaphore have in common.
LEMMA LockStepFacts ==
  ASSUME Typed, NEW c \in Caller, LockStep(c)
  PROVE  /\ Runs = c /\ Runs' = c /\ cur' = cur /\ Name(c) = cur /\ shared' = shared
         /\ pc[c] \in Asking /\ want[c] \in Sema /\ want[c] # Free
         /\ \A d \in Caller : d # c => pc'[d] = pc[d] /\ want'[d] = want[d]
         /\ \A d \in Caller : pc[d] \in Asking => Name(d)' = Name(d)
<1> USE SemaFacts DEF Typed, TypeOK
<1>1. /\ Runs = c /\ Runs' = c /\ cur' = cur /\ pc[c] \in Asking /\ shared' = shared
      /\ pc' = [pc EXCEPT ![c] = pc'[c]]
  BY LockStepKeeps
<1>2. Name(c) = cur BY <1>1, RunsCaller
<1>3. want[c] \in Sema /\ want[c] # Free BY <1>1 DEF Asks
<1>4. [Next]_vars BY DEF Next
<1>5. ASSUME NEW d \in Caller, d # c PROVE pc'[d] = pc[d] /\ want'[d] = want[d]
  BY <1>1, <1>5 DEF LockStep, Exhausted, Lwar, Swcr, Status, Unlock, End
<1>6. ASSUME NEW d \in Caller, pc[d] \in Asking PROVE Name(d)' = Name(d)
  BY <1>4, <1>6, NameKeeps
<1> QED BY <1>1, <1>2, <1>3, <1>5, <1>6

\* Running out of tries and testing the status leave words and buckets.
LEMMA PlainLock ==
  ASSUME Typed, LockInv, NEW c \in Caller, Exhausted(c) \/ Status(c)
  PROVE  LockInv'
<1> USE SemaFacts DEF Typed, TypeOK, Running, Goto, End
<1>0. LockStep(c) BY DEF LockStep
<1>1. /\ Runs = c /\ Runs' = c /\ cur' = cur /\ Name(c) = cur /\ pc[c] \in Asking
      /\ \A d \in Caller : d # c => pc'[d] = pc[d] /\ want'[d] = want[d]
      /\ \A d \in Caller : pc[d] \in Asking => Name(d)' = Name(d)
  BY <1>0, LockStepFacts
<1>2. /\ sema' = sema /\ bucket' = bucket /\ shared' = shared /\ status' = status /\ lost' = lost
      /\ Disturb({}) /\ pc'[c] \notin {"swcr", "status"}
      /\ pc'[c] # "switch"
      /\ (pc[c] = "status" /\ status => pc'[c] = "held" /\ want'[c] = want[c])
      /\ (pc'[c] = "held" => pc[c] = "status" /\ status /\ want'[c] = want[c])
      /\ pc[c] # "held"
  BY DEF Exhausted, Status
<1>3. StatusInv' BY <1>1, <1>2 DEF StatusInv
<1>4. HeldInv'
  <2> SUFFICES ASSUME NEW d \in Caller, pc'[d] = "held", want'[d] \notin disturbed'
               PROVE  sema[want'[d]] = Name(d)'
    BY <1>2 DEF HeldInv
  <2>1. want'[d] \notin disturbed BY <1>2, DisturbKeeps
  <2>2. CASE d = c BY <1>1, <1>2, <2>2 DEF LockInv, StatusInv
  <2>3. CASE d # c BY <1>1, <2>1, <2>3 DEF LockInv, HeldInv, Asking
  <2> QED BY <2>2, <2>3
<1>5. StaleInv'
  <2> SUFFICES ASSUME NEW d \in Caller, pc'[d] = "swcr", want'[d] \notin disturbed',
                      sema[want'[d]] # Free
               PROVE  ~Reserved(want'[d])
    BY <1>2 DEF StaleInv, Reserved, InLine
  <2>1. want'[d] \notin disturbed /\ d # c BY <1>2, DisturbKeeps
  <2> QED BY <1>1, <2>1 DEF LockInv, StaleInv
<1>6. BackInv'
  <2> SUFFICES ASSUME NEW s \in Sema \ lost, sema[s] # Free
               PROVE  \E d \in Caller : Behind(d, s)'
    BY <1>2 DEF BackInv
  <2>1. PICK d \in Caller : Behind(d, s) BY DEF LockInv, BackInv
  <2>2. pc'[d] = "held" /\ want'[d] = want[d] BY <1>1, <1>2, <2>1 DEF Behind
  <2>3. pc[d] \in Asking BY <2>1 DEF Behind, Asking
  <2> QED BY <1>1, <1>2, <2>1, <2>2, <2>3 DEF Behind
<1>7. SwitchInv' BY <1>1, <1>2 DEF LockInv, SwitchInv
<1>8. TickLocks' BY <1>1, <1>2 DEF LockInv, TickLocks
<1> QED BY <1>3, <1>4, <1>5, <1>6, <1>7, <1>8 DEF LockInv

LEMMA LwarLock == ASSUME Typed, LockInv, NEW c \in Caller, Lwar(c) PROVE LockInv'
<1> USE SemaFacts DEF Typed, TypeOK, Running, Goto
<1>0. LockStep(c) BY DEF LockStep
<1>1. /\ Runs = c /\ Runs' = c /\ cur' = cur /\ Name(c) = cur /\ pc[c] \in Asking
      /\ want[c] \in Sema /\ want[c] # Free
      /\ \A d \in Caller : d # c => pc'[d] = pc[d] /\ want'[d] = want[d]
      /\ \A d \in Caller : pc[d] \in Asking => Name(d)' = Name(d)
  BY <1>0, LockStepFacts
<1>2. /\ sema' = sema /\ want' = want /\ lost' = lost /\ status' = status /\ shared' = shared
      /\ Disturb(Exposed(c)) /\ bucket' \in Reserve(want[c]) /\ pc[c] = "lwar"
      /\ pc'[c] = AfterLoad(cur, sema[want[c]])
  BY DEF Lwar
<1>3. /\ pc'[c] = "held" => sema[want[c]] = cur
      /\ pc'[c] = "swcr" => sema[want[c]] = Free
      /\ pc'[c] \in {"held", "swcr", "lwar"}
  BY <1>2 DEF AfterLoad
<1>4. StatusInv' BY <1>1, <1>3 DEF StatusInv
<1>5. HeldInv'
  <2> SUFFICES ASSUME NEW d \in Caller, pc'[d] = "held", want'[d] \notin disturbed'
               PROVE  sema[want[d]] = Name(d)'
    BY <1>2 DEF HeldInv
  <2>1. want[d] \notin disturbed BY <1>2, DisturbKeeps
  <2>2. CASE d = c BY <1>1, <1>3, <2>2
  <2>3. CASE d # c BY <1>1, <2>1, <2>3 DEF LockInv, HeldInv, Asking
  <2> QED BY <2>2, <2>3
<1>6. StaleInv'
  <2> SUFFICES ASSUME NEW d \in Caller, pc'[d] = "swcr", want'[d] \notin disturbed',
                      sema[want[d]] # Free, Reserved(want[d])'
               PROVE  FALSE
    BY <1>2 DEF StaleInv
  <2>1. d # c /\ pc[d] = "swcr" /\ want[d] \in Sema BY <1>1, <1>3 DEF Asks, Asking
  <2>2. want[d] \notin disturbed /\ want[d] \notin Exposed(c) BY <1>2, DisturbKeeps
  <2>3. ~InLine(want[c], want[d]) BY <2>1, <2>2 DEF Exposed
  <2>4. ~Reserved(want[d]) BY <2>1, <2>2 DEF LockInv, StaleInv
  <2>5. \A b \in {0, 1} : bucket'[b] \in {bucket[b], want[c]} BY <1>1, <1>2, ReserveType
  <2>6. InLine(bucket'[0], want[d]) \/ InLine(bucket'[1], want[d]) BY <1>2 DEF Reserved, InLine
  <2> QED BY <2>3, <2>4, <2>5, <2>6 DEF Reserved
<1>7. BackInv'
  <2> SUFFICES ASSUME NEW s \in Sema \ lost, sema[s] # Free
               PROVE  \E d \in Caller : Behind(d, s)'
    BY <1>2 DEF BackInv
  <2>1. PICK d \in Caller : Behind(d, s) BY DEF LockInv, BackInv
  <2>2. pc'[d] = "held" /\ pc[d] \in Asking BY <1>1, <1>2, <2>1 DEF Behind, Asking
  <2> QED BY <1>1, <1>2, <2>1, <2>2 DEF Behind
<1>8. SwitchInv' BY <1>1, <1>2, <1>3 DEF LockInv, SwitchInv
<1>9. TickLocks' BY <1>1, <1>2 DEF LockInv, TickLocks
<1> QED BY <1>4, <1>5, <1>6, <1>7, <1>8, <1>9 DEF LockInv

LEMMA SwcrLock == ASSUME Typed, LockInv, NEW c \in Caller, Swcr(c) PROVE LockInv'
<1> USE SemaFacts DEF Typed, TypeOK, Running, Goto
<1> DEFINE w == want[c]
<1>0. LockStep(c) BY DEF LockStep
<1>1. /\ Runs = c /\ Runs' = c /\ cur' = cur /\ Name(c) = cur /\ pc[c] \in Asking
      /\ w \in Sema /\ w # Free
      /\ \A d \in Caller : d # c => pc'[d] = pc[d] /\ want'[d] = want[d]
      /\ \A d \in Caller : pc[d] \in Asking => Name(d)' = Name(d)
  BY <1>0, LockStepFacts
<1>2. /\ want' = want /\ lost' = lost /\ shared' = shared /\ status' = Reserved(w) /\ Disturb({})
      /\ bucket' = Empty(bucket, w) /\ pc[c] = "swcr" /\ pc'[c] = "status"
      /\ sema' = IF Reserved(w) THEN [sema EXCEPT ![w] = cur] ELSE sema
  BY DEF Swcr
<1>3. \A s \in Sema : s # w => sema'[s] = sema[s] BY <1>2
<1>4. Reserved(w) => sema'[w] = cur BY <1>1, <1>2
<1>5. ~Reserved(w) => sema' = sema BY <1>2
<1>6. \A b \in {0, 1} : bucket'[b] = IF InLine(bucket[b], w) THEN Free ELSE bucket[b]
  BY <1>1, <1>2, EmptyType
<1>7. StatusInv' BY <1>1, <1>2, <1>4 DEF StatusInv
<1>8. HeldInv'
  <2> SUFFICES ASSUME NEW d \in Caller, pc'[d] = "held", want'[d] \notin disturbed'
               PROVE  sema'[want[d]] = Name(d)'
    BY <1>2 DEF HeldInv
  <2>1. d # c /\ pc[d] = "held" /\ want[d] \in Sema /\ want[d] \notin disturbed
    BY <1>1, <1>2, DisturbKeeps DEF Asks, Asking
  <2>2. sema[want[d]] = Name(d) /\ Name(d)' = Name(d) /\ Name(d) # Free
    BY <1>1, <2>1 DEF LockInv, HeldInv, Asking, Name
  <2>3. CASE want[d] # w BY <1>3, <2>1, <2>2, <2>3
  <2>4. CASE want[d] = w /\ ~Reserved(w) BY <1>5, <2>2, <2>4
  <2>5. CASE want[d] = w /\ Reserved(w)
    <3>1. sema[w] = Free BY <1>2, <2>1, <2>5 DEF LockInv, StaleInv
    <3> QED BY <2>2, <2>5, <3>1
  <2> QED BY <2>3, <2>4, <2>5
<1>9. StaleInv'
  <2> SUFFICES ASSUME NEW d \in Caller, pc'[d] = "swcr", want'[d] \notin disturbed',
                      sema'[want[d]] # Free, Reserved(want[d])'
               PROVE  FALSE
    BY <1>2 DEF StaleInv
  <2>1. d # c /\ pc[d] = "swcr" /\ want[d] \in Sema /\ want[d] \notin disturbed
    BY <1>1, <1>2, DisturbKeeps DEF Asks, Asking
  <2>2. PICK b \in {0, 1} : InLine(bucket'[b], want[d]) BY <1>2 DEF Reserved, InLine
  <2>3. bucket'[b] = bucket[b] /\ ~InLine(bucket[b], w) BY <1>6, <2>1, <2>2 DEF InLine
  <2>4. want[d] # w BY <2>2, <2>3
  <2>5. sema[want[d]] # Free BY <1>3, <2>1, <2>4
  <2>6. ~Reserved(want[d]) BY <2>1, <2>5 DEF LockInv, StaleInv
  <2> QED BY <2>2, <2>3, <2>6 DEF Reserved
<1>10. BackInv'
  <2> SUFFICES ASSUME NEW s \in Sema \ lost, sema'[s] # Free
               PROVE  \E d \in Caller : Behind(d, s)'
    BY <1>2 DEF BackInv
  <2>1. CASE s = w /\ Reserved(w)
    <3>1. Behind(c, s)' BY <1>1, <1>2, <1>4, <2>1 DEF Behind
    <3> QED BY <3>1
  <2>2. CASE s # w \/ ~Reserved(w)
    <3>1. sema'[s] = sema[s] BY <1>3, <1>5, <2>2
    <3>2. PICK d \in Caller : Behind(d, s) BY <3>1 DEF LockInv, BackInv
    <3>3. pc[d] = "held" BY <1>1, <1>2, <3>2 DEF Behind
    <3>4. Behind(d, s)' BY <1>1, <1>2, <3>1, <3>2, <3>3 DEF Behind, Asking
    <3> QED BY <3>4
  <2> QED BY <2>1, <2>2
<1>11. SwitchInv'
  <2> SUFFICES ASSUME pc'[Timer] = "switch", Sys \notin lost PROVE sema'[Sys] = Free
    BY <1>2 DEF SwitchInv
  <2>1. c # Timer /\ pc[Timer] = "switch" BY <1>1, <1>2
  <2>2. c = Key BY <1>1, <2>1 DEF Runs
  <2>3. w = Kbd BY <1>1, <2>2 DEF Asks
  <2> QED BY <1>3, <2>1, <2>3 DEF LockInv, SwitchInv
<1>12. TickLocks'
  <2>1. sema'[Sys] \in {sema[Sys], cur} BY <1>3, <1>4, <1>5
  <2> QED BY <1>1, <1>2, <2>1 DEF LockInv, TickLocks
<1> QED BY <1>7, <1>8, <1>9, <1>10, <1>11, <1>12 DEF LockInv

LEMMA UnlockLock == ASSUME Typed, LockInv, NEW c \in Caller, Unlock(c) PROVE LockInv'
<1> USE SemaFacts DEF Typed, TypeOK, Running, Goto, End
<1> DEFINE w == want[c]
<1>0. LockStep(c) BY DEF LockStep
<1>1. /\ Runs = c /\ Runs' = c /\ cur' = cur /\ pc[c] \in Asking /\ w \in Sema
      /\ \A d \in Caller : d # c => pc'[d] = pc[d] /\ want'[d] = want[d]
      /\ \A d \in Caller : pc[d] \in Asking => Name(d)' = Name(d)
  BY <1>0, LockStepFacts
<1>2. /\ sema' = [sema EXCEPT ![w] = Free] /\ bucket' = bucket /\ status' = status /\ shared' = shared
      /\ lost' = lost \ {w} /\ Disturb(Released(c)) /\ pc[c] = "held"
      /\ pc'[c] = AfterUnlock(c)
  BY DEF Unlock
<1>3. pc'[c] \in {"switch", "return", "idle"} /\ (pc'[c] = "switch" => c = Timer)
  BY <1>2 DEF AfterUnlock
<1>4. sema'[w] = Free /\ \A s \in Sema : s # w => sema'[s] = sema[s] BY <1>1, <1>2
<1>5. StatusInv' BY <1>1, <1>3 DEF StatusInv
<1>6. HeldInv'
  <2> SUFFICES ASSUME NEW d \in Caller, pc'[d] = "held", want'[d] \notin disturbed'
               PROVE  sema'[want'[d]] = Name(d)'
    BY DEF HeldInv
  <2>1. d # c BY <1>3
  <2>2. pc[d] = "held" /\ want'[d] = want[d] /\ want[d] \in Sema
    BY <1>1, <2>1 DEF Asks, Asking
  <2>3. want[d] \notin disturbed /\ want[d] \notin Released(c)
    BY <1>2, <2>2, DisturbKeeps
  <2>4. want[d] # w BY <2>1, <2>2, <2>3 DEF Released
  <2> QED BY <1>1, <1>4, <2>2, <2>3, <2>4 DEF LockInv, HeldInv, Asking
<1>7. StaleInv'
  <2> SUFFICES ASSUME NEW d \in Caller, pc'[d] = "swcr", want'[d] \notin disturbed',
                      sema'[want'[d]] # Free
               PROVE  ~Reserved(want'[d])
    BY <1>2 DEF StaleInv, Reserved, InLine
  <2>1. d # c BY <1>3
  <2>2. pc[d] = "swcr" /\ want'[d] = want[d] /\ want[d] \in Sema
    BY <1>1, <2>1 DEF Asks, Asking
  <2>3. want[d] \notin disturbed BY <1>2, <2>2, DisturbKeeps
  <2>4. sema[want[d]] # Free BY <1>4, <2>2
  <2> QED BY <2>2, <2>3, <2>4 DEF LockInv, StaleInv
<1>8. BackInv'
  <2> SUFFICES ASSUME NEW s \in Sema \ lost', sema'[s] # Free
               PROVE  \E d \in Caller : Behind(d, s)'
    BY DEF BackInv
  <2>1. s # w /\ s \notin lost /\ sema'[s] = sema[s] BY <1>2, <1>4
  <2>2. PICK d \in Caller : Behind(d, s) BY <2>1 DEF LockInv, BackInv
  <2>3. d # c /\ pc[d] = "held" BY <1>1, <1>2, <2>1, <2>2 DEF Behind
  <2>4. Behind(d, s)' BY <1>1, <2>1, <2>2, <2>3 DEF Behind, Asking
  <2> QED BY <2>4
<1>9. SwitchInv'
  <2> SUFFICES ASSUME pc'[Timer] = "switch", Sys \notin lost' PROVE sema'[Sys] = Free
    BY DEF SwitchInv
  <2>1. CASE c = Timer BY <1>1, <1>4, <2>1 DEF Asks
  <2>2. CASE c # Timer BY <1>1, <1>2, <1>4, <2>2 DEF LockInv, SwitchInv
  <2> QED BY <2>1, <2>2
<1>10. TickLocks' BY <1>1, <1>2, <1>4 DEF LockInv, TickLocks
<1> QED BY <1>5, <1>6, <1>7, <1>8, <1>9, <1>10 DEF LockInv

LEMMA LockInit == Init => LockInv
<1> SUFFICES ASSUME Init PROVE LockInv OBVIOUS
<1>1. \A c \in Caller : pc[c] = "idle" BY DEF Init
<1>2. \A s \in Sema : sema[s] = Free BY DEF Init
<1>3. StatusInv BY DEF Init, StatusInv
<1> QED BY <1>1, <1>2, <1>3, SemaFacts
    DEF LockInv, HeldInv, StaleInv, BackInv, SwitchInv, TickLocks

LEMMA LockNext == Typed /\ LockInv /\ [Next]_vars => (Typed /\ LockInv)'
<1> SUFFICES ASSUME Typed, LockInv, [Next]_vars PROVE LockInv' BY TypeStep
<1>1. CASE Other BY <1>1, OtherLock
<1>2. ASSUME NEW c \in Caller, LockStep(c) PROVE LockInv'
  BY <1>2, PlainLock, LwarLock, SwcrLock, UnlockLock DEF LockStep
<1>3. CASE UNCHANGED vars
  BY <1>3 DEF vars, LockInv, StatusInv, HeldInv, StaleInv, BackInv, Behind, SwitchInv,
              TickLocks, Runs, Name, Running, Reserved, InLine
<1> QED BY <1>1, <1>2, <1>3 DEF Next, Other

LEMMA LockAlways == Spec => [](Typed /\ LockInv)
<1>1. Init => Typed /\ LockInv BY TypeInit, LockInit
<1> QED BY <1>1, LockNext, PTL DEF Spec

\* LockSemaphore never reports a lock that its task does not own.
THEOREM LockSuccess == Spec => SuccessOwns
<1> DEFINE A == \A c \in Caller : pc[c] # "held" /\ pc'[c] = "held" => sema'[want'[c]] = Name(c)'
<1>1. Typed /\ LockInv /\ [Next]_vars => [A]_vars
  <2> SUFFICES ASSUME Typed, LockInv, Next,
                      NEW d \in Caller, pc[d] # "held", pc'[d] = "held"
               PROVE  sema'[want'[d]] = Name(d)'
    OBVIOUS
  <2> USE SemaFacts DEF Typed, TypeOK, Running, Goto, End
  <2>1. CASE Other BY <2>1, OtherFacts
  <2>2. ASSUME NEW c \in Caller, LockStep(c) PROVE sema'[want'[d]] = Name(d)'
    <3>1. /\ Runs = c /\ cur' = cur /\ Name(c) = cur /\ pc[c] \in Asking
          /\ \A e \in Caller : e # c => pc'[e] = pc[e]
          /\ \A e \in Caller : pc[e] \in Asking => Name(e)' = Name(e)
      BY <2>2, LockStepFacts
    <3>2. d = c BY <3>1
    <3>3. CASE Lwar(c)
      <4>1. sema[want[c]] = cur BY <3>2, <3>3 DEF Lwar, AfterLoad
      <4> QED BY <3>1, <3>2, <3>3, <4>1 DEF Lwar
    <3>4. CASE Status(c) BY <3>1, <3>2, <3>4 DEF Status, LockInv, StatusInv
    <3>5. CASE Exhausted(c) \/ Swcr(c) \/ Unlock(c)
      BY <3>2, <3>5 DEF Exhausted, Swcr, Unlock, AfterUnlock
    <3> QED BY <2>2, <3>3, <3>4, <3>5 DEF LockStep
  <2> QED BY <2>1, <2>2 DEF Next, Other
<1> QED BY <1>1, LockAlways, PTL DEF Spec, SuccessOwns

\* A section keeps its semaphore until an interrupt routine unlocks it or a
\* store from before the lock is let through.
THEOREM LockHolds == Spec => []HeldStays
<1>1. Typed /\ LockInv => HeldStays BY DEF LockInv, HeldInv, HeldStays
<1> QED BY <1>1, LockAlways, PTL

\* Until then the lock excludes, between any number of tasks and both interrupts.
THEOREM LockExcludes == Spec => []MutualExclusion
<1>1. Typed /\ LockInv => MutualExclusion BY DEF LockInv, HeldInv, MutualExclusion
<1> QED BY <1>1, LockAlways, PTL

\* Nothing stays locked behind a failed call but what an interrupt between the
\* store and the test of its status hid from it.
THEOREM LockFailsClean == Spec => []FailedOwnsNothing
<1>1. Typed /\ LockInv => FailedOwnsNothing
  BY DEF LockInv, BackInv, Behind, FailedOwnsNothing
<1> QED BY <1>1, LockAlways, PTL

\* The tick never finds sys_sema locked for a task other than the one it
\* interrupts, if no such store was hidden.
THEOREM TickAlwaysLocks == Spec => []TickLocks
<1>1. Typed /\ LockInv => TickLocks BY DEF LockInv
<1> QED BY <1>1, LockAlways, PTL
=============================================================================
