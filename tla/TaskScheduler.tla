---------------------------- MODULE TaskScheduler ----------------------------
(***************************************************************************)
(* The scheduler of the FMTK kernel of the DSD7 (TCB.c, FMTKc.c): a ring   *)
(* of ready tasks for each of eight priority classes, the list of sleeping *)
(* tasks, the timer interrupt and the system calls that move tasks.        *)
(*                                                                         *)
(* Bit 1 of the semaphore register ($0C) is set while the kernel works: a  *)
(* timer or rescheduling interrupt is then refused, and so is the int #2   *)
(* at the end of FMTK_Sleep.  A system call, whose only loop is the walk   *)
(* along the timeout list, and the interrupt exclude everything else.      *)
(* LockSemaphore(&sys_sema) is always free here.  Calls that ask for -1    *)
(* retries (KillTask, SetTaskPriority) fail at once and change nothing.    *)
(*                                                                         *)
(* -1 is any index outside of tcbs[]: TCB.c:133 also stores, as the prev   *)
(* of a new first entry, the distance of a null pointer from tcbs.         *)
(***************************************************************************)
EXTENDS Integers, Sequences

CONSTANTS NR_TCB,     \* 256
          NR_JCB,     \* 51
          Starts,     \* <<priority, affinity, job>> of the FMTK_StartTask calls, in order
          JobSlots,   \* 8: tasks of a job
          Timeouts,   \* what tasks ask FMTK_Sleep for
          Careless,   \* what callers do: see MayStart and MaySleep
          MaxMissed   \* bound: ticks missed in a row

Class == 0 .. 7
Tcb == 0 .. NR_TCB - 1
Job == 0 .. NR_JCB - 1
Link == -1 .. NR_TCB - 1

ASSUME SchedulerAssumption ==
  /\ NR_TCB \in Nat /\ NR_TCB > 2 /\ NR_JCB \in Nat /\ JobSlots \in Nat
  /\ Starts \in Seq((0 .. 63) \X {0, 1} \X Job)
  /\ Timeouts \subseteq Nat /\ Careless \subseteq {"again", "overlap", "exhaust"} /\ MaxMissed \in Nat

VARIABLES
  next, prev,          \* of a TCB: its neighbours in the list it is in
  running,             \* of a TCB: status has TS_RUNNING
  timeout, priority, affinity,
  readyQ, TimeoutList, freeTCB,
  cur,                 \* the running TCB
  startQNdx, missed_ticks,
  tasks,               \* of a job: how many of its slots are used
  calls,               \* FMTK_StartTask calls so far
  at,                  \* where the kernel is; "task" outside of it
  walk,                \* InsertIntoTimeoutList: q, p and what is left of the timeout
  scan,                \* SelectTaskToRun: queues tried, the queue, the TCB looked at, TCBs tried
  wild,                \* something outside of tcbs[] was used; nothing is known from then on
  place,               \* the list each task belongs to
  due, late            \* ticks before which and within which a sleeper should wake; see Times

lists == <<next, prev, running, timeout, readyQ, TimeoutList>>
job == <<priority, affinity, freeTCB, tasks, calls>>
times == <<place, due, late>>
vars == <<lists, job, times, cur, startQNdx, missed_ticks, at, walk, scan, wild>>

ClassOf(t) == priority[t] \div 8
NoScan == [nn |-> 0, q |-> 0, t |-> -1, kk |-> 0]
NoWalk == [q |-> -1, p |-> -1, to |-> 0]

\* FMTKInitialize up to its first FMTK_StartTask: tasks 0 and 1 (of the other
\* processor) are ready and running.
Init ==
  /\ next = [t \in Tcb |-> CASE t = 0 -> 1 [] t = 1 -> 0 [] t = NR_TCB - 1 -> -1 [] OTHER -> t + 1]
  /\ prev = [t \in Tcb |-> CASE t = 0 -> 1 [] t = 1 -> 0 [] OTHER -> -1]
  /\ running = [t \in Tcb |-> t \in {0, 1}]
  /\ timeout = [t \in Tcb |-> 0]
  /\ priority = [t \in Tcb |-> IF t \in {0, 1} THEN 24 ELSE 56]
  /\ affinity = [t \in Tcb |-> IF t = 1 THEN 1 ELSE 0]
  /\ readyQ = [c \in Class |-> IF c = 3 THEN 0 ELSE -1]
  /\ TimeoutList = -1 /\ freeTCB = 2 /\ cur = 0 /\ startQNdx = 0 /\ missed_ticks = 0
  /\ tasks = [j \in Job |-> 0] /\ calls = 0
  /\ at = "task" /\ walk = NoWalk /\ scan = NoScan /\ wild = FALSE
  /\ place = [t \in Tcb |-> IF t \in {0, 1} THEN "ready" ELSE "free"]
  /\ due = [t \in Tcb |-> 0] /\ late = [t \in Tcb |-> 0]

(***************************************************************************)
(* TCB.c.  Each of these gives the lists their new value.                  *)
(***************************************************************************)

BugNotAlone(t, c, pv) ==
  LET h == readyQ[c] IN
  IF h < 0 THEN pv ELSE [pv EXCEPT ![t] = pv[h], ![h] = t]

\* The ring with t at its tail, which is before the head; pv is prev so far.
NextWith(t, c, pv) ==
  LET h == readyQ[c] IN
  IF h < 0 THEN [next EXCEPT ![t] = t] ELSE [next EXCEPT ![t] = h, ![pv[h]] = t]
PrevWith(t, c, pv) ==
  LET h == readyQ[c] IN
  IF h < 0 THEN [pv EXCEPT ![t] = t] ELSE [pv EXCEPT ![t] = pv[h], ![h] = t]

InsertIntoReadyList(t, c, pv) ==
  /\ next' = NextWith(t, c, pv) /\ prev' = PrevWith(t, c, pv)
  /\ readyQ' = IF readyQ[c] < 0 THEN [readyQ EXCEPT ![c] = t] ELSE readyQ
  /\ running' = [running EXCEPT ![t] = FALSE]

\* The list t is in without t, and t without neighbours.
NextWithout(t) == [[next EXCEPT ![prev[t]] = next[t]] EXCEPT ![t] = -1]
BugPrevWithout(t) == [prev EXCEPT ![t] = -1]
PrevWithout(t) == [[prev EXCEPT ![next[t]] = prev[t]] EXCEPT ![t] = -1]
HeadWithout(t, c) ==
  IF t # readyQ[c] THEN readyQ[c] ELSE IF t = next[t] THEN -1 ELSE next[t]

RemoveFromReadyList(t, c) ==
  /\ next' = NextWithout(t) /\ prev' = PrevWithout(t)
  /\ readyQ' = [readyQ EXCEPT ![c] = HeadWithout(t, c)]
  /\ running' = [running EXCEPT ![t] = FALSE]

\* The second entry becomes the first.
Second == next[TimeoutList]
PopTimeoutList == TimeoutList' = Second
PrevPopped == IF Second >= 0 THEN [prev EXCEPT ![Second] = -1] ELSE prev

(***************************************************************************)
(* System calls of the running task.                                       *)
(***************************************************************************)
InTask == at = "task" /\ ~wild
Wild == wild' = TRUE /\ UNCHANGED <<lists, job, times, cur, startQNdx, missed_ticks, at, walk, scan>>

\* Careful callers start no task when the TCBs are used up, do not sleep while
\* another task does, and wait after FMTK_Sleep until they are awake.
MayStart == InTask /\ calls < Len(Starts) /\ ("exhaust" \in Careless \/ freeTCB >= 0)
MaySleep ==
  /\ InTask
  /\ "again" \in Careless \/ place[cur] = "ready"
  /\ "overlap" \in Careless \/ TimeoutList < 0

\* A TCB is taken from the free list, also when there is none; it goes back
\* when the job has no slot for the task.
New == Starts[calls + 1]
NewJob == New[3]
Described(t) ==
  /\ priority' = [priority EXCEPT ![t] = New[1]]
  /\ affinity' = [affinity EXCEPT ![t] = New[2]]
  /\ calls' = calls + 1

NoTcbLeft == MayStart /\ freeTCB < 0 /\ Wild

FMTK_StartTask ==
  /\ MayStart /\ freeTCB >= 0 /\ tasks[NewJob] < JobSlots
  /\ Described(freeTCB) /\ InsertIntoReadyList(freeTCB, New[1] \div 8, prev)
  /\ tasks' = [tasks EXCEPT ![NewJob] = @ + 1] /\ freeTCB' = next[freeTCB]
  /\ place' = [place EXCEPT ![freeTCB] = "ready"]
  /\ UNCHANGED <<timeout, TimeoutList, cur, startQNdx, missed_ticks, at, walk, scan, wild, due, late>>

TooManyTasks ==
  /\ MayStart /\ freeTCB >= 0 /\ tasks[NewJob] >= JobSlots /\ Described(freeTCB)
  /\ UNCHANGED <<lists, times, freeTCB, tasks, cur, startQNdx, missed_ticks, at, walk, scan, wild>>

(***************************************************************************)
(* FMTK_Sleep: the running task leaves its ring, and a loop finds its      *)
(* place, behind q and before p, in a timeout list that is not empty.      *)
(* Only an entry of an empty list gets its timeout.  The task runs on      *)
(* until the next timer interrupt, because the int #2 is refused.          *)
(*                                                                         *)
(* Times: a sleep of n that no other overlaps should end at its tick n + 1,*)
(* sooner by the ticks that were missed before it; no sleep should end     *)
(* later than its tick n + 1.                                              *)
(***************************************************************************)
LinksOutside == next[cur] < 0 \/ prev[cur] < 0
SleepOutside == MaySleep /\ LinksOutside /\ Wild

SleepFirst(to) ==
  /\ TimeoutList < 0 /\ TimeoutList' = cur /\ timeout' = [timeout EXCEPT ![cur] = to]
  /\ due' = [due EXCEPT ![cur] = 1 + IF to > missed_ticks THEN to - missed_ticks ELSE 0]
  /\ UNCHANGED <<at, walk>>

StartWalk(to) ==
  /\ TimeoutList >= 0 /\ at' = "walk" /\ walk' = [q |-> -1, p |-> TimeoutList, to |-> to]
  /\ due' = [t \in Tcb |-> 0]
  /\ UNCHANGED <<TimeoutList, timeout>>

FMTK_Sleep(to) ==
  /\ MaySleep /\ ~LinksOutside /\ RemoveFromReadyList(cur, ClassOf(cur))
  /\ SleepFirst(to) \/ StartWalk(to)
  /\ place' = [place EXCEPT ![cur] = "asleep"] /\ late' = [late EXCEPT ![cur] = to + 1]
  /\ UNCHANGED <<job, cur, startQNdx, missed_ticks, scan, wild>>

Walking == at = "walk" /\ ~wild
WalkOn ==
  /\ Walking /\ walk.to > timeout[walk.p] /\ next[walk.p] >= 0
  /\ walk' = [q |-> walk.p, p |-> next[walk.p], to |-> walk.to - timeout[walk.p]]
  /\ UNCHANGED <<lists, job, times, cur, startQNdx, missed_ticks, at, scan, wild>>

WalkOutside == Walking /\ walk.to > timeout[walk.p] /\ next[walk.p] < 0 /\ Wild

\* The timeouts count from one entry to the next: p has less to wait for.
BugShortened(p, to) == [timeout EXCEPT ![p] = @ + to]
Shortened(p, to) == [timeout EXCEPT ![p] = @ - to]

NextBetween(t, q, p) ==
  IF q < 0 THEN [next EXCEPT ![t] = p] ELSE [next EXCEPT ![t] = p, ![q] = t]

InsertIntoTimeoutList ==
  /\ Walking /\ walk.to <= timeout[walk.p]
  /\ next' = NextBetween(cur, walk.q, walk.p)
  /\ prev' = [prev EXCEPT ![cur] = walk.q, ![walk.p] = cur]
  /\ timeout' = Shortened(walk.p, walk.to)
  /\ TimeoutList' = IF walk.q < 0 THEN cur ELSE TimeoutList
  /\ at' = "task" /\ walk' = NoWalk
  /\ UNCHANGED <<running, readyQ, job, times, cur, startQNdx, missed_ticks, scan, wild>>

Walk == WalkOn \/ WalkOutside \/ InsertIntoTimeoutList

(***************************************************************************)
(* FMTK_SchedulerIRQ: the timer tick and the explicit request, int #2.     *)
(***************************************************************************)
Ticked == due' = [t \in Tcb |-> IF due[t] > 0 THEN due[t] - 1 ELSE 0]
Counted == late' = [t \in Tcb |-> IF late[t] > 0 THEN late[t] - 1 ELSE 0]
Preempted == running' = [running EXCEPT ![cur] = FALSE]

\* A task of priority 0 is not switched out and no timeout is counted.
MissTick ==
  /\ InTask /\ priority[cur] = 0 /\ missed_ticks < MaxMissed
  /\ missed_ticks' = missed_ticks + 1 /\ Ticked
  /\ UNCHANGED <<lists, job, cur, startQNdx, at, walk, scan, wild, place, late>>

TimerTick ==
  /\ InTask /\ priority[cur] # 0 /\ Preempted /\ at' = "timeouts" /\ Ticked /\ Counted
  /\ UNCHANGED <<next, prev, timeout, readyQ, TimeoutList, job, cur, startQNdx, missed_ticks,
                 walk, scan, wild, place>>

Reschedule ==
  /\ InTask /\ Preempted /\ at' = "select"
  /\ UNCHANGED <<next, prev, timeout, readyQ, TimeoutList, job, times, cur, startQNdx,
                 missed_ticks, walk, scan, wild>>

\* InsertIntoReadyList(PopTimeoutList()), once for each entry that is due.
WakeOne ==
  /\ at = "timeouts" /\ TimeoutList >= 0 /\ timeout[TimeoutList] <= 0
  /\ PopTimeoutList /\ InsertIntoReadyList(TimeoutList, ClassOf(TimeoutList), PrevPopped)
  /\ place' = [place EXCEPT ![TimeoutList] = "ready"] /\ late' = [late EXCEPT ![TimeoutList] = 0]
  /\ UNCHANGED <<timeout, job, cur, startQNdx, missed_ticks, at, walk, scan, wild, due>>

BugTwice(n) == n - missed_ticks - 2
BugOnlyMissed(n) == n - missed_ticks
Less(n) == n - missed_ticks - 1

\* Priorities 1 and 2 are not switched out either.
EndTimeouts ==
  /\ at = "timeouts"
  /\ \/ TimeoutList < 0 /\ UNCHANGED <<timeout, missed_ticks>>
     \/ /\ TimeoutList >= 0 /\ timeout[TimeoutList] > 0
        /\ timeout' = [timeout EXCEPT ![TimeoutList] = Less(@)] /\ missed_ticks' = 0
  /\ IF priority[cur] > 2 THEN at' = "select" /\ running' = running
     ELSE at' = "task" /\ running' = [running EXCEPT ![cur] = TRUE]
  /\ UNCHANGED <<next, prev, readyQ, TimeoutList, job, times, cur, startQNdx, walk, scan, wild>>

(***************************************************************************)
(* SelectTaskToRun.  The search starts at queue startQ[startQNdx].  In a   *)
(* queue it starts at the head, or behind it when the head is the running  *)
(* task, and ends when it is at the head again.                            *)
(***************************************************************************)
BugStartQ(i) == 0
StartQ(i) ==
  CASE i = 3 -> 1 [] i = 7 -> 2 [] i = 11 -> 3 [] i = 13 -> 1 [] i = 15 -> 4
    [] i = 19 -> 5 [] i = 23 -> 6 [] i = 25 -> 1 [] i = 27 -> 7 [] OTHER -> 0

Selecting == UNCHANGED <<next, prev, timeout, TimeoutList, job, times, missed_ticks, walk, wild>>

StartSelect ==
  /\ at = "select" /\ at' = "queue"
  /\ startQNdx' = (startQNdx + 1) % 32
  /\ scan' = [NoScan EXCEPT !.q = StartQ(startQNdx')]
  /\ UNCHANGED <<running, readyQ, cur>> /\ Selecting

NextQueue == scan' = [nn |-> scan.nn + 1, q |-> (scan.q + 1) % 8, t |-> -1, kk |-> 0]

First(h) == IF h # cur THEN h ELSE next[h]

LookAtQueue ==
  /\ at = "queue" /\ scan.nn < 8
  /\ IF readyQ[scan.q] < 0 THEN NextQueue /\ at' = at
     ELSE scan' = [scan EXCEPT !.t = First(readyQ[scan.q])] /\ at' = "tcb"
  /\ UNCHANGED <<running, readyQ, cur, startQNdx>> /\ Selecting

BugFit(t) == ~running[t]
Fit(t) == ~running[t] /\ affinity[t] = 0

Switch(t) ==
  /\ cur' = t /\ running' = [running EXCEPT ![t] = TRUE] /\ at' = "task" /\ scan' = NoScan

Choose ==
  /\ at = "tcb" /\ Fit(scan.t)
  /\ readyQ' = [readyQ EXCEPT ![scan.q] = scan.t] /\ Switch(scan.t)
  /\ UNCHANGED startQNdx /\ Selecting

PassOver ==
  /\ at = "tcb" /\ ~Fit(scan.t)
  /\ IF next[scan.t] # readyQ[scan.q] /\ scan.kk + 1 < NR_TCB
     THEN scan' = [scan EXCEPT !.t = next[@], !.kk = @ + 1] /\ at' = at
     ELSE NextQueue /\ at' = "queue"
  /\ UNCHANGED <<running, readyQ, cur, startQNdx>> /\ Selecting

KeepTask ==                                \* GetRunningTCB(): no other is ready
  /\ at = "queue" /\ scan.nn = 8 /\ Switch(cur)
  /\ UNCHANGED <<readyQ, startQNdx>> /\ Selecting

SelectTaskToRun == StartSelect \/ LookAtQueue \/ Choose \/ PassOver \/ KeepTask
SchedulerIRQ == WakeOne \/ EndTimeouts \/ SelectTaskToRun
SystemCall ==
  NoTcbLeft \/ FMTK_StartTask \/ TooManyTasks \/ SleepOutside \/ \E to \in Timeouts : FMTK_Sleep(to)

Next == SystemCall \/ Walk \/ Reschedule \/ MissTick \/ TimerTick \/ SchedulerIRQ

Spec == Init /\ [][Next]_vars

\* A system call and the interrupt routine run to their end, and some timer
\* interrupt does not fall into another system call.
FairSpec == Spec /\ WF_vars(Walk \/ SchedulerIRQ) /\ SF_vars(TimerTick)

(***************************************************************************)
(* Properties.                                                             *)
(***************************************************************************)

\* The tasks that a queue should hold.
Members(c) == {t \in Tcb : place[t] = "ready" /\ ClassOf(t) = c}

\* Every queue is one doubly linked ring of exactly its tasks, so that the search
\* of SelectTaskToRun meets every one of them: no smaller part leads back to itself.
RingsWhole ==
  \A c \in Class :
    /\ IF Members(c) = {} THEN readyQ[c] = -1 ELSE readyQ[c] \in Members(c)
    /\ \A t \in Members(c) :
         next[t] \in Members(c) /\ prev[t] \in Members(c) /\ prev[next[t]] = t
    /\ \A S \in SUBSET Members(c) :
         S # {} /\ (\A t \in S : next[t] \in S) => S = Members(c)

\* tcbs[] is left only by a task that is started when every TCB is in use, by a
\* sleeping task that sleeps again, and by a task that sleeps while another does.
\* The rings, the wake-up and the search never leave it, and no TCB is lost.
OutsideByCallers ==
  [][wild' => \/ wild
              \/ \A t \in Tcb : place[t] # "free"
              \/ at = "task" /\ place[cur] = "asleep"
              \/ at = "walk" /\ \E t \in Tcb \ {cur} : place[t] = "asleep"]_vars

\* The processor is given to a ready task of this processor, never to a sleeping one.
SwitchesToReady == [][cur' # cur => place[cur'] = "ready" /\ affinity[cur'] = 0]_vars

\* A sleeper that no other sleep overlapped is not ready before the tick after those
\* it asked for, less the ones missed when it began: FMTKc.c:404 takes these from it.
SleepsLongEnough == \A t \in Tcb : due[t] > 0 => place[t] = "asleep"

\* However sleeps overlap, a sleeper is ready at the counted tick after those it
\* asked for: the differences of the timeout list never add up to more.
WakesInTime == \A t \in Tcb : place[t] = "asleep" /\ at \notin {"timeouts", "walk"} => late[t] > 0

\* As long as tcbs[] is not left, a sleeping task wakes up.
Awakes == \A t \in Tcb : place[t] = "asleep" ~> place[t] = "ready" \/ wild

\* A ready task of this processor runs, whatever its priority.
EveryTaskRuns == \A t \in Tcb : place[t] = "ready" /\ affinity[t] = 0 ~> cur = t \/ wild
=============================================================================
