------------------------------ MODULE KernelLock ------------------------------
(***************************************************************************)
(* LockSemaphore and UnlockSemaphore of the FMTK kernel on one DSD7: a     *)
(* load-and-reserve (lwar), a conditional store (swcr), and a status bit,  *)
(* bit 0 of csr $0C, which every interrupt and every return from one       *)
(* clears.  The reservation is kept by the memory controller mpmc2 in two  *)
(* buckets; it belongs to the processor, not to the task.                  *)
(*                                                                         *)
(* Three kinds of callers: tasks, directly or inside a system call; the    *)
(* timer tick, which locks sys_sema and then changes the task; and the     *)
(* keyboard interrupt, which locks kbd_sema.  Both interrupt routines run  *)
(* with interrupts enabled, and lock as the task that runs (csr $10).      *)
(*                                                                         *)
(* One step is one access to what callers share: the semaphore word, the   *)
(* buckets, the status bit, csr $10.                                       *)
(***************************************************************************)
EXTENDS Integers

CONSTANTS
  Task,          \* the tasks, each by the address of its TCB
  Key,           \* KeybdIRQ as a caller, and
  Timer,         \* FMTK_SchedulerIRQ
  Wanted,        \* the semaphores that each task locks (kbd_sema, iof_sema, sys_sema)
  Kbd,           \* kbd_sema, which KeybdIRQ locks
  Sys,           \* sys_sema, which FMTK_SchedulerIRQ locks
  Layouts,       \* what the linker may put into one 16 byte line
  Free,          \* what an unlocked semaphore holds (0)
  Retries        \* the retry counts of the callers

Caller == Task \cup {Key, Timer}
Sema   == {Kbd, Sys} \cup UNION {Wanted[t] : t \in Task}

ASSUME LockAssumption ==
  /\ Free \notin Caller /\ Free \notin Sema /\ Retries \subseteq Int
  /\ Key \notin Task /\ Timer \notin Task /\ Key # Timer /\ Kbd # Sys

VARIABLES
  sema,      \* the semaphore words
  bucket,    \* the addresses in the two reservation buckets, or Free
  status,    \* bit 0 of csr $0C
  busy,      \* bit 1 of csr $0C: a tick or a system call is being served
  cur,       \* csr $10, the running task
  under,     \* what KeybdIRQ interrupted: a task, the tick, or Free for none
  pc,        \* where each caller is, see Place
  want,      \* its semaphore (r18), or Free
  tries,     \* its retries (r19)
  shared,    \* the semaphores in one line, each other one has its own; never changes
  lost,      \* history: stored by a call whose status an interrupt cleared
  disturbed  \* history: locks that were not left to their holder, see Disturb

vars == <<sema, bucket, status, busy, cur, under, pc, want, tries, shared, lost, disturbed>>

\* idle: outside; lwar: at .0001; swcr: saw the word free; status: stored
\* conditionally; held: LockSemaphore returned 1; switch, return: the interrupt
\* routine is through, with or without a change of task.
Place == {"idle", "lwar", "swcr", "status", "held", "switch", "return"}

TypeOK ==
  /\ sema \in [Sema -> Task \cup {Free}]
  /\ bucket \in [{0, 1} -> Sema \cup {Free}]
  /\ status \in BOOLEAN /\ busy \in BOOLEAN /\ cur \in Task
  /\ under \in Task \cup {Timer, Free}
  /\ pc \in [Caller -> Place] /\ want \in [Caller -> Sema \cup {Free}]
  /\ tries \in [Caller -> Int]
  /\ lost \subseteq Sema /\ disturbed \subseteq Sema

\* FMTKInitialize unlocks the semaphores.
Init ==
  /\ sema = [s \in Sema |-> Free] /\ bucket = [b \in {0, 1} |-> Free]
  /\ status = FALSE /\ busy = FALSE /\ cur \in Task /\ under = Free
  /\ pc = [c \in Caller |-> "idle"] /\ want = [c \in Caller |-> Free]
  /\ tries = [c \in Caller |-> 0] /\ shared \in Layouts
  /\ lost = {} /\ disturbed = {}

(***************************************************************************)
(* The memory controller.  Reserve: an address in a bucket stays there,    *)
(* otherwise an empty bucket is taken, the first one first, otherwise      *)
(* either.  A conditional store succeeds when a bucket holds an address of *)
(* its line, and empties every such bucket; no other store does.           *)
(***************************************************************************)
Chosen(s) ==
  IF s \in {bucket[0], bucket[1]} THEN {}
  ELSE IF bucket[0] = Free THEN {0}
  ELSE IF bucket[1] = Free THEN {1} ELSE {0, 1}

\* What the buckets may hold after lwar of s.
Reserve(s) ==
  IF Chosen(s) = {} THEN {bucket} ELSE {[bucket EXCEPT ![b] = s] : b \in Chosen(s)}

InLine(a, s) == a = s \/ {a, s} \subseteq shared \ {Free}
Reserved(s)  == InLine(bucket[0], s) \/ InLine(bucket[1], s)

BugEmpty(bk, s) == bk
Empty(bk, s) == [b \in {0, 1} |-> IF InLine(bk[b], s) THEN Free ELSE bk[b]]

(***************************************************************************)
(* Who runs: an interrupt routine over what it interrupted.  KeybdIRQ over *)
(* a task is switched away and back to together with that task.  A caller  *)
(* locks in the name of a task.                                            *)
(***************************************************************************)
Runs ==
  IF pc[Timer] # "idle" THEN (IF under = Timer THEN Key ELSE Timer)
  ELSE (IF under = cur THEN Key ELSE cur)

Name(c) ==
  IF c \in Task THEN c ELSE IF c = Key /\ under \in Task THEN under ELSE cur

Running(c, place) == Runs = c /\ pc[c] = place
Goto(c, place)    == pc' = [pc EXCEPT ![c] = place]

Begin(c, s) ==
  /\ Goto(c, "lwar") /\ want' = [want EXCEPT ![c] = s]
  /\ \E r \in Retries : tries' = [tries EXCEPT ![c] = r]

End(c, place) ==
  /\ Goto(c, place) /\ want' = [want EXCEPT ![c] = Free] /\ tries' = [tries EXCEPT ![c] = 0]

\* Somebody is past the load for s.
InUse(s) == \E c \in Caller : want[c] = s /\ pc[c] \in {"swcr", "status", "held"}

(***************************************************************************)
(* What befalls a lock, kept until nobody is past the load for it.         *)
(* Exposed: s is locked, a caller that saw it free has yet to store, and   *)
(* its store would go through, because c reserves the line again.          *)
(* Released: c unlocks what somebody else holds as well.                   *)
(***************************************************************************)
Exposed(c) ==
  {s \in Sema : /\ InLine(want[c], s) /\ sema[s] # Free
                /\ \E d \in Caller \ {c} : pc[d] = "swcr" /\ want[d] = s}

Released(c) == {s \in Sema : s = want[c] /\ \E d \in Caller \ {c} : pc[d] = "held" /\ want[d] = s}

Disturb(S) == disturbed' = {s \in disturbed \cup S : InUse(s)'}

(***************************************************************************)
(* LockSemaphore and UnlockSemaphore, step by step, for each caller.       *)
(***************************************************************************)

\* ble r19,r0,.0004: it returns 0; a tick misses, KeybdIRQ drops the scancode
Exhausted(c) ==
  /\ Running(c, "lwar") /\ tries[c] <= 0
  /\ End(c, IF c \in Task THEN "idle" ELSE "return")
  /\ UNCHANGED <<sema, bucket, status, busy, cur, under, lost, shared>>
  /\ Disturb({})

\* Where the loaded word leads: "already locked by this task", "not free", free.
BugAfterLoad(t, word) == IF word = t THEN "held" ELSE "swcr"
AfterLoad(t, word) == CASE word = t -> "held" [] word = Free -> "swcr" [] OTHER -> "lwar"

BugLwar(c) ==
  /\ Running(c, "lwar") /\ tries[c] > 0
  /\ bucket' \in Reserve(want[c]) /\ Goto(c, AfterLoad(cur, sema[want[c]]))
  /\ UNCHANGED <<sema, status, busy, cur, under, want, tries, lost, shared>>
  /\ Disturb(Exposed(c))

Lwar(c) ==
  /\ Running(c, "lwar") /\ tries[c] > 0
  /\ tries' = [tries EXCEPT ![c] = @ - 1]
  /\ bucket' \in Reserve(want[c]) /\ Goto(c, AfterLoad(cur, sema[want[c]]))
  /\ UNCHANGED <<sema, status, busy, cur, under, want, lost, shared>>
  /\ Disturb(Exposed(c))

BugSwcr(c) ==
  /\ Running(c, "swcr") /\ Goto(c, "status")
  /\ sema' = IF Reserved(want[c]) THEN [sema EXCEPT ![want[c]] = cur] ELSE sema
  /\ bucket' = Empty(bucket, want[c])
  /\ UNCHANGED <<status, busy, cur, under, want, tries, lost, shared>>
  /\ Disturb({})

Swcr(c) ==
  /\ Running(c, "swcr") /\ Goto(c, "status")
  /\ status' = Reserved(want[c])
  /\ sema' = IF Reserved(want[c]) THEN [sema EXCEPT ![want[c]] = cur] ELSE sema
  /\ bucket' = Empty(bucket, want[c])
  /\ UNCHANGED <<busy, cur, under, want, tries, lost, shared>>
  /\ Disturb({})

BugStatus(c) ==
  /\ Running(c, "status") /\ Goto(c, "held")
  /\ UNCHANGED <<sema, bucket, status, busy, cur, under, want, tries, lost, shared>>
  /\ Disturb({})

Status(c) ==
  /\ Running(c, "status") /\ Goto(c, IF status THEN "held" ELSE "lwar")
  /\ UNCHANGED <<sema, bucket, status, busy, cur, under, want, tries, lost, shared>>
  /\ Disturb({})

AfterUnlock(c) == IF c = Timer THEN "switch" ELSE IF c = Key THEN "return" ELSE "idle"

BugUnlock(c) ==
  /\ Running(c, "held") /\ End(c, AfterUnlock(c))
  /\ UNCHANGED <<sema, bucket, status, busy, cur, under, lost, shared>>
  /\ Disturb(Released(c))

Unlock(c) ==
  /\ Running(c, "held") /\ End(c, AfterUnlock(c))
  /\ sema' = [sema EXCEPT ![want[c]] = Free]
  /\ lost' = lost \ {want[c]}
  /\ UNCHANGED <<bucket, status, busy, cur, under, shared>>
  /\ Disturb(Released(c))

LockStep(c) == Exhausted(c) \/ Lwar(c) \/ Swcr(c) \/ Status(c) \/ Unlock(c)

(***************************************************************************)
(* Tasks: they lock one semaphore at a time; in a system call they set the *)
(* busy bit first, and clear it with the status when it returns.           *)
(***************************************************************************)
Call(t) ==
  /\ Running(t, "idle")
  /\ \E s \in Wanted[t] : Begin(t, s)
  /\ UNCHANGED <<sema, bucket, status, busy, cur, under, lost, shared>>
  /\ Disturb({})

\* Every interrupt clears the status; a store that set it is not reported then.
Interrupt ==
  /\ status' = FALSE
  /\ lost' = IF status /\ pc[Runs] = "status" THEN lost \cup {want[Runs]} ELSE lost

SystemCall(t) ==
  /\ Running(t, "idle") /\ ~busy /\ busy' = TRUE /\ Interrupt
  /\ UNCHANGED <<sema, bucket, cur, under, pc, want, tries, disturbed, shared>>

SystemReturn(t) ==
  /\ Running(t, "idle") /\ busy /\ busy' = FALSE /\ status' = FALSE
  /\ UNCHANGED <<sema, bucket, cur, under, pc, want, tries, lost, disturbed, shared>>

(***************************************************************************)
(* FMTK_SchedulerIRQ: refused while busy; otherwise it locks sys_sema, may *)
(* change the task, unlocks, and returns through RestoreContext.  int #2   *)
(* asks for the change of task without the lock.                           *)
(***************************************************************************)
RefusedTick ==
  /\ busy /\ Interrupt
  /\ UNCHANGED <<sema, bucket, busy, cur, under, pc, want, tries, disturbed, shared>>

Tick ==
  /\ ~busy /\ busy' = TRUE /\ Interrupt /\ Begin(Timer, Sys)
  /\ UNCHANGED <<sema, bucket, cur, under, shared>>
  /\ Disturb({})

Reschedule(t) ==
  /\ Running(t, "idle") /\ ~busy /\ busy' = TRUE /\ Interrupt /\ End(Timer, "switch")
  /\ UNCHANGED <<sema, bucket, cur, under, shared>>
  /\ Disturb({})

RestoreContext ==
  /\ Runs = Timer /\ pc[Timer] \in {"switch", "return"} /\ End(Timer, "idle")
  /\ busy' = FALSE /\ status' = FALSE
  /\ IF pc[Timer] = "switch" THEN cur' \in Task ELSE cur' = cur
  /\ UNCHANGED <<sema, bucket, under, lost, shared>>
  /\ Disturb({})

(***************************************************************************)
(* KeybdIRQ, one at a time: with a job in focus it locks kbd_sema.         *)
(***************************************************************************)
KeyPressed ==
  /\ under = Free /\ under' = (IF Runs = Timer THEN Timer ELSE cur) /\ Interrupt
  /\ Begin(Key, Kbd) \/ End(Key, "return")
  /\ UNCHANGED <<sema, bucket, busy, cur, shared>>
  /\ Disturb({})

KeyReturn ==
  /\ Running(Key, "return") /\ End(Key, "idle") /\ under' = Free /\ status' = FALSE
  /\ UNCHANGED <<sema, bucket, busy, cur, lost, shared>>
  /\ Disturb({})

Next ==
  \/ RefusedTick \/ Tick \/ RestoreContext \/ KeyPressed \/ KeyReturn
  \/ \E c \in Caller : LockStep(c)
  \/ \E t \in Task : Call(t) \/ SystemCall(t) \/ SystemReturn(t) \/ Reschedule(t)

Spec == Init /\ [][Next]_vars

\* A turn of a task, and of KeybdIRQ over it, is longer than an instruction.
Fairness ==
  SF_vars(LockStep(Key) \/ KeyReturn) /\ \A t \in Task : SF_vars(LockStep(t))

FairSpec == Spec /\ Fairness

(***************************************************************************)
(* Properties.                                                             *)
(***************************************************************************)

\* LockSemaphore reports success only when the word it was called for holds its
\* task: the status bit of another caller's store, or of a store before an
\* interrupt, is never taken for its own.
SuccessOwns ==
  [][\A c \in Caller : pc[c] # "held" /\ pc'[c] = "held" => sema'[want'[c]] = Name(c)']_vars

\* The section keeps its semaphore until UnlockSemaphore, whatever interrupts
\* and other tasks do, with two exceptions of the code: an interrupt routine that
\* finds it "already locked by this task" unlocks it, and a store delayed since
\* before the lock goes through when somebody reserves the line meanwhile.
HeldStays == \A c \in Caller : pc[c] = "held" => sema[want[c]] = Name(c) \/ want[c] \in disturbed

\* Nobody is in the section that one semaphore guards for two tasks, with the
\* same exceptions, and after them not before the section is empty.
MutualExclusion ==
  \A c, d \in Caller :
    pc[c] = "held" /\ pc[d] = "held" /\ want[c] = want[d]
      => Name(c) = Name(d) \/ want[c] \in disturbed

\* A semaphore is locked for somebody: a word that holds a task was stored by a
\* call that returned 1 and has not unlocked or that is about to test its status.
\* Only a store whose status an interrupt cleared may stay behind a failed call.
FailedOwnsNothing ==
  \A s \in Sema \ lost :
    sema[s] # Free =>
      \E c \in Caller : /\ want[c] = s /\ Name(c) = sema[s]
                        /\ pc[c] = "held" \/ (Running(c, "status") /\ status)

\* The tick finds sys_sema free or locked in the name of the task it interrupts,
\* so that it never has to give up because of another task, although tasks lock
\* sys_sema outside of system calls, where they can be interrupted and switched.
TickLocks == Sys \in lost \/ sema[Sys] \in {Free, cur}

\* A call returns as long as every task gets its turn again and again: the other
\* callers may take its reservation and the lock each time, but never a try.
LockReturns ==
  (\A t \in Task : []<><<RestoreContext /\ cur' = t>>_vars)
    => \A t \in Task : []<>(pc[t] \notin {"lwar", "swcr", "status"})

\* "lock failed, go try again": a caller that finds the status clear did not store.
FailedStored ==
  \A c \in Caller : Running(c, "status") /\ ~status => sema[want[c]] # Name(c)
=============================================================================
