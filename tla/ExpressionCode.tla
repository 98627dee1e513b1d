---------------------------- MODULE ExpressionCode ----------------------------
(***************************************************************************)
(* The expression part of the DSD C compiler's code generator              *)
(* (CodeGenerator.cpp, DSD7.cpp) over the temporary registers.  The        *)
(* recursion of GenerateExpression is a stack of frames, one for each node *)
(* whose operands are being generated; which expression the programmer     *)
(* wrote is left open, so every expression up to the bounds is compiled.   *)
(* Instructions take effect on the machine of TempRegisters as they are    *)
(* generated.                                                              *)
(***************************************************************************)
EXTENDS TempRegisters, FiniteSets

CONSTANTS Programs,      \* bound: kinds of nodes that occur together, and how many
          MaxNodes,      \* bound: nodes of the largest expression
          MaxDepth,      \* bound: nesting of the expression
          MaxCallDepth   \* bound: calls within the arguments of calls

Kind == {"constant", "variable", "unary", "binary", "deref", "index", "call", "no_temps"}

ASSUME BoundsAssumption ==
  /\ MaxNodes \in Nat /\ MaxDepth \in Nat /\ MaxCallDepth \in Nat
  /\ Programs \subseteq [kinds : SUBSET Kind, size : 0 .. MaxNodes]

VARIABLES al,       \* the allocator and the machine
          frames,   \* the nodes whose operands are being generated, innermost first
          flags,    \* the modes the caller of GenerateExpression accepts
          result,   \* what GenerateExpression returned, or NoMode while it runs
          nodes,    \* how many nodes were generated
          program,  \* the member of Programs that is compiled
          passed    \* history: registers passed to a callee that uses no temporaries

vars == <<al, frames, flags, result, nodes, program, passed>>

REG     == {"reg"}
IMMED   == {"reg", "immed"}                                        \* F_REG | F_IMMED
ALL     == {"reg", "immed", "local", "direct", "ind", "indx", "indx2"}   \* F_ALL

NoMode == [mode |-> "none"]
Top    == frames[1]
Calls  == {i \in DOMAIN frames : frames[i].node = "call"}

Init ==
  /\ al = initRegStack /\ frames = <<[node |-> "stmt"]>> /\ flags = ALL
  /\ result = NoMode /\ nodes = 0 /\ program \in Programs /\ passed = {}

\* Names of values: of a node, of what is loaded from memory, of a call.
Value  == nodes + 1
Loaded == MaxNodes + Value
Answer == 2 * MaxNodes + Value

Set(a, r, v) == [a EXCEPT !.regs[r] = v]

(***************************************************************************)
(* MakeLegalAmode: keep the operand when its mode is acceptable, otherwise *)
(* release its registers ("maybe we can use it") and load the value v into *)
(* a new temporary.  The result is <<allocator, operand>>.                 *)
(***************************************************************************)
MakeLegalAmode(a, ap, f, v) ==
  IF ap.mode \in f THEN <<a, ap>>
  ELSE LET g  == GetTempRegister(ReleaseTempRegister(a, ap))
           to == LastAlloc(g, v)
       IN  <<Set(g, to.preg, v), to>>

\* What GenerateSignExtend makes of the flags: a signed value in memory that is
\* narrower than a word is loaded into a register to be extended.
Narrow(f) == {f, REG}

(***************************************************************************)
(* GenerateExpression: a leaf returns at once, other nodes ask for their   *)
(* first operand.                                                          *)
(***************************************************************************)
Generating ==
  frames # <<>> /\ result = NoMode /\ al.fatal = "" /\ nodes < program.size
Nested     == Generating /\ Len(frames) < MaxDepth
Count      == nodes' = nodes + 1 /\ UNCHANGED <<program, passed>>

\* A constant (en_icon), a local variable (a reference to an en_autocon).
Leaf(ap, f) ==
  /\ Generating /\ Count /\ UNCHANGED <<frames, flags>>
  /\ LET g == MakeLegalAmode(al, ap, f, Value) IN al' = g[1] /\ result' = g[2]

Enter(node, a, extra, f) ==
  /\ Nested /\ Count /\ UNCHANGED result
  /\ frames' = <<[node |-> node, want |-> flags, left |-> NoMode, extra |-> extra]>> \o frames
  /\ al' = a /\ flags' = f

\* GenerateUnary and GenerateBinary take the destination first.
EnterWithDest(node) ==
  LET g == GetTempRegister(al) IN Enter(node, g, LastAlloc(g, Value), REG)

\* GenerateDereference of a computed address, GenerateIndex.
EnterAddress(node) == Enter(node, al, NoMode, IMMED)

\* GenerateFunctionCall of a named function with one parameter: SaveTemporaries
\* comes before the parameter.  It does nothing for a callee declared __no_temps;
\* those of the kernel return nothing, so that the call is the whole statement.
EnterCall ==
  /\ Cardinality(Calls) < MaxCallDepth
  /\ LET s == TempInvalidate(al) IN Enter("call", s[1], s[2], IMMED)

EnterNoTemps == Len(frames) = 1 /\ Enter("no_temps", al, 0, IMMED)

Expression ==
  \/ "constant" \in program.kinds /\ Leaf(Immed, flags)
  \/ "variable" \in program.kinds /\ \E f \in Narrow(flags) : Leaf(Local, f)
  \/ \E node \in program.kinds \cap {"unary", "binary"} : EnterWithDest(node)
  \/ \E node \in program.kinds \cap {"deref", "index"} : EnterAddress(node)
  \/ "call" \in program.kinds /\ EnterCall
  \/ "no_temps" \in program.kinds /\ EnterNoTemps

(***************************************************************************)
(* What follows when an operand of the innermost node was generated.       *)
(***************************************************************************)
Returned(node) == result # NoMode /\ al.fatal = "" /\ frames # <<>> /\ Top.node = node
First(node)  == Returned(node) /\ Top.left = NoMode
BothOf(node) == Returned(node) /\ Top.left # NoMode

Second(f) ==
  /\ frames' = [frames EXCEPT ![1].left = result]
  /\ flags' = f /\ result' = NoMode /\ UNCHANGED <<al, nodes, program, passed>>

Return(g) ==
  /\ al' = g[1] /\ result' = g[2] /\ frames' = Tail(frames)
  /\ UNCHANGED <<flags, nodes, program>>
Leave(g) == Return(g) /\ UNCHANGED passed

Emit(dest) == Set(al, dest.preg, dest.val)

Unary  == Returned("unary") /\ Leave(<<ReleaseTempRegister(Emit(Top.extra), result), Top.extra>>)

LeftOperand == First("binary") /\ Second(IMMED)

Binary ==
  /\ BothOf("binary")
  /\ Leave(<<ReleaseTempRegister(ReleaseTempRegister(Emit(Top.extra), result), Top.left),
             Top.extra>>)

\* A constant address is addressed directly.
Deref ==
  /\ Returned("deref")
  /\ \E f \in Narrow(Top.want) :
       Leave(MakeLegalAmode(al, IF result.mode = "reg" THEN Ind(result) ELSE Direct, f, Loaded))

IndexLeft == First("index") /\ Second(IF result.mode = "immed" THEN REG ELSE ALL)

\* The addressing mode of GenerateIndex for a left operand in a register and a
\* right one in register or memory: both registers are transported forward.  With
\* a right operand at a fixed address the code indexes that address by the left
\* register and does not load it.
Index ==
  /\ BothOf("index")
  /\ LET right == MakeLegalAmode(al, result, REG, Loaded)
         sum   == CASE Top.left.mode = "immed"             -> <<al, Indx(result)>>
                    [] result.mode \in {"immed", "direct"} -> <<al, Indx(Top.left)>>
                    [] result.mode = "ind"                 -> <<al, Indx2(result, Top.left)>>
                    [] OTHER                               -> <<right[1], Indx2(Top.left, right[2])>>
     IN  \E f \in Narrow(Top.want) : Leave(MakeLegalAmode(sum[1], sum[2], f, Answer))

\* The parameter is passed and its register not released; the call destroys the
\* temporaries; the parameter is removed and RestoreTemporaries pops.
Call ==
  /\ Returned("call")
  /\ LET called == [al EXCEPT !.regs = [r \in Temp \cup {Result} |->
                                          IF r = Result THEN Answer ELSE Junk]]
     IN  Leave(<<TempRevalidate(called, Top.extra), Reg(Result, 0, Answer)>>)

\* RestoreTemporaries does nothing either: the parameter's register stays in use.
NoTempsCall ==
  /\ Returned("no_temps")
  /\ Return(<<Set(al, Result, Answer), Reg(Result, 0, Answer)>>)
  /\ passed' = {r \in Temp : \E o \in Reads(result) : o[1] = r}

\* An expression statement releases the result.
Statement ==
  /\ Returned("stmt")
  /\ al' = ReleaseTempRegister(al, result) /\ frames' = <<>>
  /\ result' = NoMode
  /\ UNCHANGED <<flags, nodes, program, passed>>

Operation ==
  \/ Unary \/ LeftOperand \/ Binary \/ Deref \/ IndexLeft \/ Index \/ Call \/ NoTempsCall
Next      == Expression \/ Operation \/ Statement

Spec == Init /\ [][Next]_vars

(***************************************************************************)
(* Properties.  Held is what the generator still has to use: the operands  *)
(* of the nodes under way and the one just returned, as <<register,        *)
(* number, value>>; Operands is what the next instruction reads, for the   *)
(* nodes whose instruction comes before the release of the operands: an    *)
(* address mode is released, that is validated, before it is loaded.       *)
(***************************************************************************)
TwoOperands == {"binary", "index"}
Held == Reads(result) \cup
        UNION {Reads(frames[i].left) : i \in {j \in DOMAIN frames : frames[j].node \in TwoOperands}}

Readers == {"unary", "binary", "call", "no_temps"}
Operands ==
  IF result = NoMode \/ frames = <<>> \/ Top.node \notin Readers THEN {}
  ELSE Reads(result) \cup IF Top.node = "binary" THEN Reads(Top.left) ELSE {}

\* None of the compiler's own checks fails (fatal in Register.cpp): what is
\* popped is what was pushed last, and registers are not popped into one another,
\* in the order in which operators, address modes and calls release them.
NoFatal == al.fatal = ""

\* Every temporary that the next instruction reads holds the value it was loaded
\* or computed with, whatever was generated in between (GenerateBinary reads ap1
\* after generating ap2; a call in ap2 saves and restores it), as long as at most
\* one register is on the stack.  With two of them GenerateBinary may read the
\* register of an ap1 that was spilled: validate pops it after the instruction.
TempsInRegisters ==
  Len(al.stack) < 2 => \A o \in Operands : o[1] \in Temp => al.regs[o[1]] = o[3]

\* A temporary loses its register only by being pushed: the rotation never hands
\* out the register of a value that is still needed without spilling it first.
LiveInPlace ==
  \A o \in Held : o[1] \in Temp /\ ~al.alloc[o[2]].isPushed => al.regs[o[1]] = o[3]

\* What checkstack (which nothing calls) asks at the end of a statement, as far as
\* the code keeps it: the stack that the generated pushes and pops leave is level;
\* every register was given back, but for the parameter of a callee that uses no
\* temporaries; and without calls and index modes, which lose track of them, the
\* rotation is back at r3 and no number is given.
AllReleased ==
  frames = <<>> /\ al.fatal = "" =>
    /\ al.stack = <<>> /\ al.mem = <<>>
    /\ {r \in Temp : al.inUse[r] # -1} = passed
    /\ program.kinds \cap {"call", "index", "no_temps"} = {} => al.next = FirstTemp /\ al.ptr = 0
=============================================================================
