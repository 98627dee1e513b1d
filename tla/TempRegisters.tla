---------------------------- MODULE TempRegisters ----------------------------
(***************************************************************************)
(* Register.cpp of the DSD C compiler: the temporary registers of an       *)
(* expression.  They are handed out in rotation; when the next one is      *)
(* still in use a push instruction spills it, and validate pops it back.   *)
(*                                                                         *)
(* The state is a record "al", because the code generator calls several of *)
(* these routines in a row.  The instructions they emit are executed at    *)
(* once on a machine of registers and a stack (fields regs and mem): the   *)
(* code of an expression has no branches, so emitting it and running it    *)
(* are the same thing.                                                     *)
(***************************************************************************)
EXTENDS Integers, Sequences, SequencesExt

CONSTANTS FirstTemp,    \* r3
          LastTemp,     \* r10
          MaxRegStack,  \* MAX_REG_STACK
          Junk          \* what a register holds that nobody set

ASSUME TempAssumption ==
  /\ FirstTemp \in Nat \ {0, 1} /\ LastTemp \in Nat /\ FirstTemp <= LastTemp
  /\ MaxRegStack \in Nat \ {0}

Temp   == FirstTemp .. LastTemp
Result == 1                        \* r1 returns the value of a function
Number == 0 .. MaxRegStack

(***************************************************************************)
(* Addressing modes: an immediate, memory relative to the frame pointer or *)
(* at a fixed address (direct), a register, memory at a register (with an  *)
(* offset: indx) or at the sum of two.  deep and deep2 are the numbers of  *)
(* the temporaries, val and val2 (not in the code) say which values the    *)
(* registers ought to hold.                                                *)
(***************************************************************************)
Immed        == [mode |-> "immed"]
Local        == [mode |-> "local"]
Direct       == [mode |-> "direct"]
Reg(r, n, v) == [mode |-> "reg", preg |-> r, deep |-> n, val |-> v]
Ind(ap)      == [ap EXCEPT !.mode = "ind"]
Indx(ap)     == [ap EXCEPT !.mode = "indx"]
Indx2(ap, bp) ==
  [mode |-> "indx2", preg |-> ap.preg, deep |-> ap.deep, val |-> ap.val,
   sreg |-> bp.preg, deep2 |-> bp.deep, val2 |-> bp.val]

\* Registers an operand reads, each with the number of its temporary and the
\* value it ought to hold.
Reads(ap) ==
  CASE ap.mode \in {"reg", "ind", "indx"} -> {<<ap.preg, ap.deep, ap.val>>}
    [] ap.mode = "indx2" -> {<<ap.preg, ap.deep, ap.val>>, <<ap.sreg, ap.deep2, ap.val2>>}
    [] OTHER -> {}

(***************************************************************************)
(* initRegStack.  reg_stack keeps <<register, number>> of what is pushed;  *)
(* its pointer is the length, except that it may fall to -1, which is      *)
(* reported as a fatal error like the ones the code detects itself.        *)
(***************************************************************************)
FreshNumber == [reg |-> 0, isPushed |-> FALSE]
NoSave == [ptr |-> 0, alloc |-> <<>>, inUse |-> <<>>]

initRegStack ==
  [next |-> FirstTemp, inUse |-> [r \in Temp |-> -1],
   alloc |-> [n \in Number |-> FreshNumber], ptr |-> 0,
   stack |-> <<>>, stacked |-> [i \in Number |-> <<0, 0>>], save |-> NoSave,
   regs |-> [r \in Temp \cup {Result} |-> Junk], mem |-> <<>>, fatal |-> ""]

Fatal(al, why) == IF al.fatal = "" THEN [al EXCEPT !.fatal = why] ELSE al

Up(r)   == IF r >= LastTemp THEN FirstTemp ELSE r + 1
Down(r) == IF r <= FirstTemp THEN LastTemp ELSE r - 1

PushValue(al, v) == [al EXCEPT !.mem = <<v>> \o al.mem]

GenerateTempRegPush(al, r, n) ==
  IF al.alloc[n].isPushed
  THEN Fatal(al, "GenerateTempRegPush(): register already pushed")
  ELSE IF Len(al.stack) = MaxRegStack
  THEN Fatal(al, "GenerateTempRegPush(): register stack overflow")
  ELSE [PushValue(al, al.regs[r]) EXCEPT !.stack = <<<<r, n>>>> \o al.stack,
                                         !.alloc[n].isPushed = TRUE]

\* On an empty stack the code compares with what lies below the array; that
\* counts as a fatal error here.
GenerateTempRegPop(al, r, n) ==
  IF al.stack = <<>> THEN Fatal(al, "GenerateTempRegPop(): below the stack")
  ELSE IF Head(al.stack)[2] # n THEN Fatal(al, "GenerateTempRegPop()/2")
  ELSE IF al.inUse[r] >= 0 THEN Fatal(al, "GenerateTempRegPop():register still in use")
  ELSE [al EXCEPT !.stack = Tail(al.stack), !.inUse[r] = n,
                  !.regs[r] = Head(al.mem), !.mem = Tail(al.mem),
                  !.alloc[n].isPushed = FALSE]

(***************************************************************************)
(* GetTempRegister: the next register in the rotation, spilled first when  *)
(* it is in use.  LastAlloc is the AMODE it returns, meant to hold v.      *)
(***************************************************************************)
BugSpill(al) == al
Spill(al) ==
  IF al.inUse[al.next] >= 0 THEN GenerateTempRegPush(al, al.next, al.inUse[al.next]) ELSE al

GetTempRegister(al) ==
  LET sp == Spill(al) IN
  IF sp.ptr = MaxRegStack THEN Fatal(sp, "GetTempRegister(): register stack overflow")
  ELSE [sp EXCEPT !.inUse[al.next] = al.ptr,
                  !.alloc[al.ptr] = [reg |-> al.next, isPushed |-> FALSE],
                  !.next = Up(al.next), !.ptr = al.ptr + 1]

LastAlloc(al, v) == Reg(al.alloc[al.ptr - 1].reg, al.ptr - 1, v)

\* validate: pop back the registers of an operand that were spilled.
PopBack(al, r, n) ==
  IF r \in Temp /\ al.alloc[n].isPushed THEN GenerateTempRegPop(al, r, n) ELSE al

validate(al, ap) ==
  CASE ap.mode \in {"reg", "ind", "indx"} -> PopBack(al, ap.preg, ap.deep)
    [] ap.mode = "indx2" -> PopBack(PopBack(al, ap.preg, ap.deep), ap.sreg, ap.deep2)
    [] OTHER -> al

(***************************************************************************)
(* ReleaseTempRegister: after validate, a register that is not in use ends *)
(* the release; of two registers the second is released first, and only    *)
(* one number is given back.                                               *)
(***************************************************************************)
InUse(al, r) == r \in Temp /\ al.inUse[r] # -1
FreeReg(al, r) == [al EXCEPT !.inUse[r] = -1, !.next = Down(al.next)]

ReleasePreg(al, r) ==
  IF ~InUse(al, r) THEN al
  ELSE IF al.ptr = 0 THEN Fatal(al, "ReleaseTempRegister(): no registers are allocated")
  ELSE IF al.alloc[al.inUse[r]].isPushed
       THEN Fatal(al, "ReleaseTempRegister(): register on stack")
  ELSE [FreeReg(al, r) EXCEPT !.ptr = al.ptr - 1]

BugReleaseTempRegister(al, ap) ==
  IF ap.mode \in {"immed", "local", "direct"} THEN al ELSE ReleasePreg(validate(al, ap), ap.preg)

ReleaseTempRegister(al, ap) ==
  LET v == validate(al, ap) IN
  CASE ap.mode \in {"reg", "ind", "indx"} -> ReleasePreg(v, ap.preg)
    [] ap.mode = "indx2" ->
         IF ap.sreg \notin Temp THEN ReleasePreg(v, ap.preg)
         ELSE IF InUse(v, ap.sreg) THEN ReleasePreg(FreeReg(v, ap.sreg), ap.preg)
         ELSE v
    [] OTHER -> v

(***************************************************************************)
(* TempInvalidate before a call: keep the lists in the save area (there is *)
(* one), push every temporary that is in a register, mark it void.         *)
(* TempRevalidate(al, sp) pops sp of them and takes the lists back.        *)
(***************************************************************************)
BugPushLive(al, sp, n) ==
  LET r == al.alloc[n].reg IN
  IF al.inUse[r] # -1 /\ ~al.alloc[n].isPushed
  THEN <<[GenerateTempRegPush(al, r, n) EXCEPT !.stacked[sp] = <<r, n>>], sp + 1>>
  ELSE <<al, sp>>

PushLive(al, sp, n) ==                       \* <<al, sp>> after number n
  LET r == al.alloc[n].reg IN
  IF al.inUse[r] # -1 /\ ~al.alloc[n].isPushed
  THEN <<[GenerateTempRegPush(al, r, n) EXCEPT !.stacked[sp] = <<r, n>>, !.inUse[r] = -1],
         sp + 1>>
  ELSE <<al, sp>>

BugTempInvalidate(al) ==
  LET kept == [al EXCEPT !.save = [ptr |-> al.ptr, alloc |-> al.alloc, inUse |-> al.inUse]]
  IN  FoldLeft(LAMBDA acc, i : PushLive(acc[1], acc[2], i - 1), <<kept, 0>>,
               [i \in 1 .. al.ptr - 1 |-> i])

TempInvalidate(al) ==
  LET kept == [al EXCEPT !.save = [ptr |-> al.ptr, alloc |-> al.alloc, inUse |-> al.inUse]]
  IN  FoldLeft(LAMBDA acc, i : PushLive(acc[1], acc[2], i - 1), <<kept, 0>>,
               [i \in 1 .. al.ptr |-> i])

TempRevalidate(al, sp) ==
  LET popped == FoldLeft(LAMBDA acc, e : GenerateTempRegPop(acc, e[1], e[2]), al,
                         [i \in 1 .. sp |-> al.stacked[sp - i]])
  IN  [popped EXCEPT !.ptr = al.save.ptr, !.alloc = al.save.alloc, !.inUse = al.save.inUse]
=============================================================================
