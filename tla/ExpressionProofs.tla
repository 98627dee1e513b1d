--------------------------- MODULE ExpressionProofs ---------------------------
(***************************************************************************)
(* ExpressionCode, proved for expressions of constants, variables, unary   *)
(* and binary operators and dereferences, of any depth and with any number *)
(* of registers from three on, spills included.  Indexing and calls are    *)
(* left to TLC: an index mode gives back one number for two registers, so  *)
(* that numbers and registers no longer go together, and what a call saves *)
(* and restores is a fold over a list.                                     *)
(***************************************************************************)
EXTENDS ExpressionCode, SequenceTheorems, TLAPS

\* The expression that is compiled has operators and dereferences only.
Simple == program.kinds \subseteq {"constant", "variable", "unary", "binary", "deref"}

\* A temporary has a number for each node that may need one.
EnoughNumbers == MaxNodes <= MaxRegStack

\* A binary operator has a destination and two operands (r3 to r10 are eight).
ThreeRegisters == LastTemp - FirstTemp >= 2

(***************************************************************************)
(* The allocator.  Temporaries are numbered in the order in which they are *)
(* taken and given back in the opposite order; the oldest ones are on the  *)
(* stack, the others in registers that follow each other in the rotation.  *)
(***************************************************************************)
Data == Nat \cup {Junk}
Cell == [reg : Int, isPushed : BOOLEAN]

Allocator ==
  [next : Temp, inUse : [Temp -> Int],
   alloc : [Number -> Cell], ptr : Number,
   stack : Seq(Int \X Int), stacked : {[i \in Number |-> <<0, 0>>]}, save : {NoSave},
   regs : [Temp \cup {Result} -> Data], mem : Seq(Data), fatal : {""}]

Width   == LastTemp - FirstTemp + 1
Turn(r, d) == IF r + d <= LastTemp THEN r + d ELSE r + d - Width

Pushed(a) == Len(a.stack)

Stacked(a) ==
  /\ Pushed(a) <= a.ptr /\ Len(a.mem) = Pushed(a)
  /\ \A i \in 1 .. Pushed(a) : a.stack[i][2] = Pushed(a) - i

Rotation(a) ==
  /\ \A n \in 0 .. a.ptr - 1 :
       a.alloc[n].reg \in Temp /\ (a.alloc[n].isPushed <=> n < Pushed(a))
  /\ \A n \in 0 .. a.ptr - 2 : a.alloc[n + 1].reg = Up(a.alloc[n].reg)
  /\ a.ptr > 0 => a.next = Up(a.alloc[a.ptr - 1].reg)

Window(a) ==
  /\ \A n \in Pushed(a) .. a.ptr - 1 :
       /\ n + Width >= a.ptr
       /\ a.inUse[a.alloc[n].reg] = n
       /\ a.next = Turn(a.alloc[n].reg, a.ptr - n)
  /\ \A r \in Temp : a.inUse[r] # -1 =>
       a.inUse[r] \in Pushed(a) .. a.ptr - 1 /\ a.alloc[a.inUse[r]].reg = r

\* The rotation starts at the first register.
Begins(a) == IF a.ptr = 0 THEN a.next = FirstTemp ELSE a.alloc[0].reg = FirstTemp

Sound(a) == a \in Allocator /\ Stacked(a) /\ Rotation(a) /\ Window(a) /\ Begins(a)

\* What b leaves as it was in a: the registers named by the first m temporaries,
\* and what those of them hold that are in a register.
Keeps(a, b, m) ==
  \A n \in 0 .. m - 1 :
    /\ b.alloc[n].reg = a.alloc[n].reg
    /\ n >= Pushed(b) => n >= Pushed(a) /\ b.regs[a.alloc[n].reg] = a.regs[a.alloc[n].reg]

(***************************************************************************)
(* The frames.  base[i] temporaries were in use when frame i was entered.  *)
(***************************************************************************)
InRegister == [mode : {"reg", "ind"}, preg : Temp, deep : Number, val : Nat]

NodeFrame ==
  [node : {"unary", "binary", "deref"}, want : {REG, IMMED, ALL},
   left : InRegister \cup {NoMode}, extra : InRegister \cup {NoMode}]
StmtFrame == [node |-> "stmt"]

IsTemp(a, ap, n) == ap \in InRegister /\ ap.deep = n /\ ap.preg = a.alloc[n].reg

Taken(ap) == IF ap.mode \in {"reg", "ind"} THEN 1 ELSE 0

Takes(f) == CASE f.node = "unary"  -> 1
              [] f.node = "binary" -> 1 + Taken(f.left)
              [] OTHER             -> 0

Expects(f) == CASE f.node = "stmt"  -> ALL
                [] f.node = "deref" -> IMMED
                [] f.node = "unary" -> REG
                [] OTHER            -> IF f.left = NoMode THEN REG ELSE IMMED

\* The destination and the left operand of f, entered with b temporaries in use.
Fits(a, f, b) ==
  /\ f.node \in {"unary", "binary"} => IsTemp(a, f.extra, b) /\ f.extra.mode = "reg"
  /\ f.node \in {"unary", "deref"} => f.left = NoMode
  /\ f.node = "binary" /\ f.left # NoMode =>
       /\ IsTemp(a, f.left, b + 1) /\ f.left.mode = "reg"
       /\ b + 1 >= Pushed(a) => a.regs[f.left.preg] = f.left.val

Frames == Seq(NodeFrame \cup {StmtFrame})

Chain(fr, base) ==
  /\ fr[Len(fr)] = StmtFrame /\ base[Len(fr)] = 0
  /\ \A i \in 1 .. Len(fr) - 1 :
       /\ fr[i] \in NodeFrame /\ fr[i].want = Expects(fr[i + 1])
       /\ base[i] = base[i + 1] + Takes(fr[i + 1])
  /\ \A i, j \in 1 .. Len(fr) : i < j => base[j] + Takes(fr[j]) <= base[i]

AllFit(a, fr, base) == \A i \in 1 .. Len(fr) : Fits(a, fr[i], base[i])

Nest(base) ==
  /\ Chain(frames, base) /\ AllFit(al, frames, base)
  /\ al.ptr = base[1] + Takes(Top) + Taken(result)

ResultOK ==
  \/ result = NoMode /\ flags = Expects(Top)
  \/ result \in {Immed, Local, Direct} /\ result.mode \in Expects(Top)
  \/ /\ al.ptr > 0 /\ IsTemp(al, result, al.ptr - 1) /\ result.mode \in Expects(Top)
     /\ al.regs[result.preg] = result.val

Counted ==
  /\ program \in Programs /\ nodes \in 0 .. MaxNodes
  /\ al.ptr <= nodes /\ (result.mode = "immed" => al.ptr < nodes)
  /\ passed = {}

IInv ==
  /\ Sound(al) /\ Counted
  /\ frames \in Frames
  /\ frames = <<>> => al.ptr = 0 /\ result = NoMode
  /\ frames # <<>> => ResultOK /\ \E base \in [1 .. Len(frames) -> Nat] : Nest(base)

-----------------------------------------------------------------------------

(***************************************************************************)
(* One routine of the allocator at a time.                                 *)
(***************************************************************************)
\* The fields of a sound allocator.
LEMMA Fields ==
  ASSUME NEW a \in Allocator
  PROVE  /\ a.next \in Temp /\ a.ptr \in Number /\ a.fatal = "" /\ a.save = NoSave
         /\ a.inUse \in [Temp -> Int] /\ a.regs \in [Temp \cup {Result} -> Data]
         /\ a.alloc \in [Number -> Cell]
         /\ a.stack \in Seq(Int \X Int) /\ a.mem \in Seq(Data)
         /\ a.stacked = [i \in Number |-> <<0, 0>>]
         /\ Pushed(a) \in Nat
<1>1. /\ a.next \in Temp /\ a.ptr \in Number /\ a.fatal = "" /\ a.save = NoSave
      /\ a.inUse \in [Temp -> Int] /\ a.regs \in [Temp \cup {Result} -> Data]
  BY DEF Allocator
<1>2. a.alloc \in [Number -> Cell]
  BY DEF Allocator
<1>3. a.stack \in Seq(Int \X Int) /\ a.mem \in Seq(Data)
  BY DEF Allocator
<1>4. a.stacked = [i \in Number |-> <<0, 0>>]
  BY DEF Allocator
<1>5. Pushed(a) \in Nat
  BY <1>3, LenProperties DEF Pushed
<1>6. QED BY <1>1, <1>2, <1>3, <1>4, <1>5

LEMMA Registers ==
  /\ Temp \subseteq Int /\ FirstTemp \in Temp /\ LastTemp \in Temp
  /\ \A r \in Temp : Up(r) \in Temp /\ Down(r) \in Temp /\ Down(Up(r)) = r
                     /\ r # Result /\ r # -1
  /\ Number \subseteq Nat
BY TempAssumption DEF Temp, Up, Down, Number, Result

\* The register of a temporary that is in one, and the next one in the rotation.
LEMMA Turning ==
  ASSUME NEW r \in Temp, NEW d \in Nat, d # 0, d <= Width
  PROVE  /\ Turn(r, d) = r => d = Width
         /\ d = Width => Turn(r, d) = r
         /\ d < Width => Up(Turn(r, d)) = Turn(r, d + 1)
         /\ d > 1 => Down(Turn(r, d)) = Turn(r, d - 1)
         /\ Turn(r, 1) = Up(r)
<1>1. /\ r \in Int /\ FirstTemp <= r /\ r <= LastTemp /\ FirstTemp \in Int /\ LastTemp \in Int
      /\ Width = LastTemp - FirstTemp + 1
  BY TempAssumption DEF Temp, Width
<1>2. (Turn(r, d) = r => d = Width) /\ (d = Width => Turn(r, d) = r)
  BY <1>1 DEF Turn
<1>3. d < Width => Up(Turn(r, d)) = Turn(r, d + 1)
  BY <1>1 DEF Turn, Up
<1>4. d > 1 => Down(Turn(r, d)) = Turn(r, d - 1)
  BY <1>1 DEF Turn, Down
<1>5. Turn(r, 1) = Up(r)
  BY <1>1 DEF Turn, Up
<1>6. QED BY <1>2, <1>3, <1>4, <1>5

\* Two temporaries in registers are in different ones.
LEMMA Apart ==
  ASSUME NEW a, Sound(a), NEW m \in Pushed(a) .. a.ptr - 1, NEW n \in Pushed(a) .. a.ptr - 1,
         a.alloc[m].reg = a.alloc[n].reg
  PROVE  m = n
BY DEF Sound, Window

\* Three temporaries in a row name different registers, pushed or not.
LEMMA Neighbours ==
  ASSUME ThreeRegisters, NEW a, Sound(a), NEW n \in Nat
  PROVE  /\ n + 1 < a.ptr => a.alloc[n + 1].reg # a.alloc[n].reg
         /\ n + 2 < a.ptr => a.alloc[n + 2].reg # a.alloc[n].reg
<1>1. a.ptr \in Nat
  BY Fields, Registers DEF Sound
<1>2. n + 1 < a.ptr => a.alloc[n].reg \in Temp /\ a.alloc[n + 1].reg = Up(a.alloc[n].reg)
  BY <1>1 DEF Sound, Rotation
<1>3. n + 2 < a.ptr => a.alloc[n + 2].reg = Up(a.alloc[n + 1].reg)
  <2>1. n + 2 < a.ptr => n + 1 \in 0 .. a.ptr - 2 /\ (n + 1) + 1 = n + 2
    BY <1>1
  <2>2. QED BY <2>1 DEF Sound, Rotation
<1>4. \A r \in Temp : Up(r) # r /\ Up(Up(r)) # r
  BY TempAssumption DEF Temp, Up, ThreeRegisters
<1>5. QED BY <1>1, <1>2, <1>3, <1>4

LEMMA KeepsTwice ==
  ASSUME NEW a, NEW b, NEW c, NEW m \in Nat, NEW k \in Nat, k <= m,
         Keeps(a, b, m), Keeps(b, c, k)
  PROVE  Keeps(a, c, k)
BY DEF Keeps

\* Spill leaves the allocator as it is, or pushes the oldest temporary that is
\* in a register, which is the one in the next register.
LEMMA Spilled ==
  ASSUME NEW a, Sound(a), a.ptr < MaxRegStack
  PROVE  \/ a.inUse[a.next] = -1 /\ Spill(a) = a
            /\ (Pushed(a) = a.ptr \/ Pushed(a) + Width > a.ptr)
         \/ /\ a.inUse[a.next] = Pushed(a) /\ Pushed(a) + Width = a.ptr /\ Pushed(a) < a.ptr
            /\ a.alloc[Pushed(a)].reg = a.next
            /\ Spill(a) = [a EXCEPT !.mem = <<a.regs[a.next]>> \o a.mem,
                                    !.stack = <<<<a.next, Pushed(a)>>>> \o a.stack,
                                    !.alloc[Pushed(a)].isPushed = TRUE]
<1> DEFINE n == a.inUse[a.next]
           K == Pushed(a)
<1>a. a \in Allocator /\ K <= a.ptr
  BY DEF Sound, Stacked
<1>b. Width \in Nat /\ Width # 0 /\ MaxRegStack \in Nat
  BY TempAssumption DEF Width
<1>1. /\ a.next \in Temp /\ a.ptr \in Nat /\ K \in Nat /\ K <= a.ptr /\ n \in Int /\ Width \in Nat
      /\ Width # 0 /\ MaxRegStack \in Nat
  BY <1>a, <1>b, Fields, Registers
<1>2. CASE n = -1
  <2>1. Spill(a) = a
    BY <1>2 DEF Spill
  <2>2. ASSUME K # a.ptr PROVE K + Width > a.ptr
    <3>1. K \in Pushed(a) .. a.ptr - 1
      BY <1>1, <2>2
    <3>2. K + Width >= a.ptr /\ a.inUse[a.alloc[K].reg] = K /\ a.alloc[K].reg \in Temp
          /\ a.next = Turn(a.alloc[K].reg, a.ptr - K)
      BY <3>1, <1>1 DEF Sound, Window, Rotation
    <3>3. a.ptr - K # Width
      <4> SUFFICES ASSUME a.ptr - K = Width PROVE FALSE
        OBVIOUS
      <4>1. Turn(a.alloc[K].reg, Width) = a.alloc[K].reg
        BY <1>1, <3>2, Turning
      <4>2. QED BY <4>1, <3>2, <1>1, <1>2
    <3>4. QED BY <1>1, <3>2, <3>3
  <2>3. QED BY <1>2, <2>1, <2>2
<1>3. CASE n # -1
  <2>1. n \in Pushed(a) .. a.ptr - 1 /\ a.alloc[n].reg = a.next
    BY <1>1, <1>3 DEF Sound, Window
  <2>2. n + Width >= a.ptr /\ a.next = Turn(a.alloc[n].reg, a.ptr - n)
    BY <2>1 DEF Sound, Window
  <2>3. n + Width = a.ptr
    <3>1. a.ptr - n \in Nat /\ a.ptr - n # 0 /\ a.ptr - n <= Width
      BY <1>1, <2>1, <2>2
    <3>2. QED BY <1>1, <2>1, <2>2, <3>1, Turning
  <2>4. n = K
    <3>1. K \in Pushed(a) .. a.ptr - 1
      BY <1>1, <2>1
    <3>2. K + Width >= a.ptr
      BY <3>1 DEF Sound, Window
    <3>3. QED BY <1>1, <2>1, <2>3, <3>2
  <2>5. ~a.alloc[n].isPushed
    <3>1. n \in 0 .. a.ptr - 1
      BY <1>1, <2>1
    <3>2. QED BY <3>1, <2>1, <1>1 DEF Sound, Rotation
  <2>6. Len(a.stack) # MaxRegStack
    BY <1>1, <2>1, <2>4 DEF Pushed
  <2>7. Spill(a) = GenerateTempRegPush(a, a.next, n)
    BY <1>1, <2>1 DEF Spill
  <2>8. a.alloc \in [Number -> Cell]
    BY Fields DEF Sound
  <2>9. Spill(a) = [PushValue(a, a.regs[a.next]) EXCEPT
                      !.stack = <<<<a.next, n>>>> \o a.stack, !.alloc[n].isPushed = TRUE]
    BY <2>5, <2>6, <2>7 DEF GenerateTempRegPush
  <2>10. QED BY <2>9, <2>4, <2>3, <2>1, <1>1 DEF PushValue
<1>4. QED BY <1>2, <1>3

\* A push in front of a sequence.
LEMMA InFront ==
  ASSUME NEW S, NEW s \in Seq(S), NEW x \in S
  PROVE  /\ <<x>> \o s \in Seq(S) /\ Len(<<x>> \o s) = Len(s) + 1 /\ Len(s) \in Nat
         /\ (<<x>> \o s)[1] = x
         /\ \A i \in 1 .. Len(s) : (<<x>> \o s)[i + 1] = s[i]
OBVIOUS

\* The record updates of GetTempRegister and GenerateTempRegPush, and what they leave.
TakeNext(a, n, e, r, u) == [a EXCEPT !.inUse[r] = n, !.alloc[n] = e, !.next = u, !.ptr = n + 1]
Marked(a, n)            == [a.alloc EXCEPT ![n] = [a.alloc[n] EXCEPT !.isPushed = TRUE]]
PushOn(a, n, s, m)      == [a EXCEPT !.mem = m, !.stack = s, !.alloc[n].isPushed = TRUE]

LEMMA TakenFields ==
  ASSUME NEW a \in Allocator, NEW n \in Number, n + 1 \in Number, NEW e \in Cell,
         NEW r \in Temp, NEW u \in Temp, NEW g,
         g = TakeNext(a, n, e, r, u)
  PROVE  /\ g \in Allocator /\ g.ptr = n + 1 /\ g.next = u /\ g.regs = a.regs
         /\ g.inUse = [a.inUse EXCEPT ![r] = n] /\ g.alloc = [a.alloc EXCEPT ![n] = e]
         /\ g.stack = a.stack /\ g.mem = a.mem
<1> DEFINE A == [a.alloc EXCEPT ![n] = e]
           B == [a.inUse EXCEPT ![r] = n]
<1>1. g = [a EXCEPT !.inUse = B, !.alloc = A, !.next = u, !.ptr = n + 1]
  BY DEF Allocator, TakeNext
<1>2. A \in [Number -> Cell]
  BY Fields
<1>3. B \in [Temp -> Int]
  <2>1. n \in Int
    BY Registers
  <2>2. a.inUse \in [Temp -> Int]
    BY Fields
  <2>3. QED BY <2>1, <2>2
<1> HIDE DEF A, B
<1>4. g \in Allocator /\ g.ptr = n + 1 /\ g.next = u /\ g.regs = a.regs /\ g.inUse = B /\ g.alloc = A
      /\ g.stack = a.stack /\ g.mem = a.mem
  BY <1>1, <1>2, <1>3 DEF Allocator
<1>5. QED BY <1>4 DEF A, B

LEMMA PushedFields ==
  ASSUME NEW a \in Allocator, NEW n \in Number, NEW s \in Seq(Int \X Int), NEW m \in Seq(Data), NEW g,
         g = PushOn(a, n, s, m)
  PROVE  /\ g \in Allocator /\ g.ptr = a.ptr /\ g.next = a.next /\ g.regs = a.regs
         /\ g.inUse = a.inUse /\ g.alloc = Marked(a, n) /\ g.stack = s /\ g.mem = m
<1> DEFINE e == [a.alloc[n] EXCEPT !.isPushed = TRUE]
           A == [a.alloc EXCEPT ![n] = e]
<1>1. g = [a EXCEPT !.mem = m, !.stack = s, !.alloc = A]
  BY DEF Allocator, PushOn
<1>2. A \in [Number -> Cell]
  <2>1. a.alloc[n] \in Cell /\ a.alloc \in [Number -> Cell]
    BY Fields
  <2>2. e \in Cell
    BY <2>1 DEF Cell
  <2> HIDE DEF e
  <2>3. QED BY <2>1, <2>2
<1> HIDE DEF A
<1>3. g \in Allocator /\ g.ptr = a.ptr /\ g.next = a.next /\ g.regs = a.regs /\ g.inUse = a.inUse
      /\ g.alloc = A /\ g.stack = s /\ g.mem = m
  BY <1>1, <1>2 DEF Allocator
<1>4. QED BY <1>3 DEF A, Marked

\* GetTempRegister gives the next number and the next register, which no
\* temporary that is still in a register has.
LEMMA Got ==
  ASSUME NEW a, Sound(a), a.ptr < MaxRegStack, NEW v
  PROVE  /\ Sound(GetTempRegister(a))
         /\ GetTempRegister(a).ptr = a.ptr + 1 /\ GetTempRegister(a).regs = a.regs
         /\ GetTempRegister(a).alloc[a.ptr].reg = a.next
         /\ Pushed(GetTempRegister(a)) <= a.ptr
         /\ Keeps(a, GetTempRegister(a), a.ptr)
         /\ LastAlloc(GetTempRegister(a), v) = Reg(a.next, a.ptr, v)
<1> DEFINE g == GetTempRegister(a)
           new == [reg |-> a.next, isPushed |-> FALSE]
<1> HIDE DEF g, new
<1>1. a \in Allocator /\ Stacked(a) /\ Rotation(a) /\ Window(a)
  BY DEF Sound
<1>2. /\ a.next \in Temp /\ a.ptr \in Number /\ a.ptr \in Nat /\ Pushed(a) \in Nat /\ Pushed(a) <= a.ptr /\ Width \in Nat
      /\ a.ptr + 1 \in Number /\ a.inUse \in [Temp -> Int] /\ Up(a.next) \in Temp /\ a.next \in Int
      /\ a.alloc \in [Number -> Cell] /\ Pushed(a) \in Number
      /\ a.regs \in [Temp \cup {Result} -> Data] /\ new \in Cell
  <2>1. a.next \in Temp /\ a.ptr \in Number /\ Pushed(a) \in Nat /\ a.inUse \in [Temp -> Int]
        /\ a.alloc \in [Number -> Cell]
        /\ a.regs \in [Temp \cup {Result} -> Data]
    BY <1>1, Fields
  <2>2. a.ptr \in Nat /\ a.ptr + 1 \in Number /\ Pushed(a) <= a.ptr /\ Pushed(a) \in Number /\ Width \in Nat
    BY <1>1, <2>1, TempAssumption DEF Number, Stacked, Width
  <2>3. Up(a.next) \in Temp /\ a.next \in Int
    BY <2>1, Registers
  <2>4. new \in Cell
    BY <2>3 DEF Cell, new
  <2>5. QED BY <2>1, <2>2, <2>3, <2>4
<1>n. a.ptr \in Nat /\ Pushed(a) \in Nat /\ Pushed(a) <= a.ptr /\ Width \in Nat /\ Width # 0 /\ a.ptr # MaxRegStack
  BY <1>2, TempAssumption DEF Width
<1>3. a.stack \in Seq(Int \X Int) /\ a.mem \in Seq(Data) /\ Len(a.mem) = Pushed(a) /\ Len(a.stack) = Pushed(a)
      /\ \A i \in 1 .. Pushed(a) : a.stack[i][2] = Pushed(a) - i
  BY <1>1, Fields DEF Stacked, Pushed
<1>4. /\ g \in Allocator /\ g.ptr = a.ptr + 1 /\ g.next = Up(a.next) /\ g.regs = a.regs
      /\ g.inUse = [a.inUse EXCEPT ![a.next] = a.ptr]
      /\ g.alloc[a.ptr] = new
      /\ \A n \in 0 .. a.ptr - 1 :
           g.alloc[n].reg = a.alloc[n].reg /\ (g.alloc[n].isPushed <=> n < Pushed(g))
      /\ Pushed(g) \in Nat /\ Pushed(a) <= Pushed(g) /\ Pushed(g) <= a.ptr /\ Pushed(g) + Width >= a.ptr + 1
      /\ Len(g.mem) = Pushed(g)
      /\ \A i \in 1 .. Pushed(g) : g.stack[i][2] = Pushed(g) - i
      /\ \A n \in Pushed(g) .. a.ptr - 1 : a.alloc[n].reg # a.next
      /\ \A n \in Pushed(a) .. Pushed(g) - 1 : a.alloc[n].reg = a.next
  <2>1. CASE a.inUse[a.next] = -1 /\ Spill(a) = a
             /\ (Pushed(a) = a.ptr \/ Pushed(a) + Width > a.ptr)
    <3>1. g = TakeNext(a, a.ptr, new, a.next, Up(a.next))
      <4>1. a.ptr # MaxRegStack /\ Spill(a) = a
        BY <2>1, <1>2
      <4>2. QED BY <4>1, Zenon DEF GetTempRegister, TakeNext, g, new
    <3>3. /\ g \in Allocator /\ g.ptr = a.ptr + 1 /\ g.next = Up(a.next) /\ g.regs = a.regs
          /\ g.inUse = [a.inUse EXCEPT ![a.next] = a.ptr]
          /\ g.alloc = [a.alloc EXCEPT ![a.ptr] = new] /\ g.stack = a.stack /\ g.mem = a.mem
      <4>1. a.ptr + 1 \in Number /\ a \in Allocator /\ a.ptr \in Number /\ new \in Cell
            /\ a.next \in Temp /\ Up(a.next) \in Temp
        BY <1>1, <1>2
      <4>2. QED BY <3>1, <4>1, TakenFields, SMTT(30)
    <3>4. Pushed(g) = Pushed(a) /\ Pushed(g) + Width >= a.ptr + 1
      BY <3>3, <2>1, <1>n DEF Pushed
    <3>5. \A n \in 0 .. a.ptr - 1 : g.alloc[n] = a.alloc[n]
      BY <3>3, <1>2 DEF Number
    <3>6. \A n \in 0 .. a.ptr - 1 : a.alloc[n].isPushed <=> n < Pushed(a)
      BY <1>1 DEF Rotation
    <3>7. ASSUME NEW n \in Pushed(a) .. a.ptr - 1 PROVE a.alloc[n].reg # a.next
      BY <2>1, <1>1, <1>2 DEF Window
    <3>8. g.alloc[a.ptr] = new
      BY <3>3, <1>2
    <3>9. QED BY <3>3, <3>4, <3>5, <3>6, <3>7, <3>8, <1>2, <1>3, SMTT(30)
  <2>2. CASE /\ a.inUse[a.next] = Pushed(a) /\ Pushed(a) + Width = a.ptr /\ Pushed(a) < a.ptr
             /\ a.alloc[Pushed(a)].reg = a.next
             /\ Spill(a) = [a EXCEPT !.mem = <<a.regs[a.next]>> \o a.mem,
                                     !.stack = <<<<a.next, Pushed(a)>>>> \o a.stack,
                                     !.alloc[Pushed(a)].isPushed = TRUE]
    <3> DEFINE st == <<<<a.next, Pushed(a)>>>> \o a.stack
               me == <<a.regs[a.next]>> \o a.mem
               sp == [a EXCEPT !.mem = me, !.stack = st, !.alloc[Pushed(a)].isPushed = TRUE]
    <3>0. /\ st \in Seq(Int \X Int) /\ Len(st) = Pushed(a) + 1 /\ st[1] = <<a.next, Pushed(a)>>
          /\ \A i \in 1 .. Pushed(a) : st[i + 1] = a.stack[i]
      <4>1. <<a.next, Pushed(a)>> \in Int \X Int
        BY <1>2
      <4>2. QED BY <4>1, <1>3, InFront
    <3>00. me \in Seq(Data) /\ Len(me) = Pushed(a) + 1
      <4>1. a.regs[a.next] \in Data
        BY <1>2
      <4>2. QED BY <4>1, <1>3, InFront
    <3>2. Spill(a) = sp
      BY <2>2
    <3> HIDE DEF st, me, sp
    <3>1. /\ sp \in Allocator /\ sp.mem = me /\ sp.stack = st /\ sp.regs = a.regs
          /\ sp.alloc = Marked(a, Pushed(a))
          /\ sp.ptr = a.ptr /\ sp.next = a.next /\ sp.inUse = a.inUse
      <4>1. sp = PushOn(a, Pushed(a), st, me)
        BY DEF sp, PushOn
      <4>2. a \in Allocator /\ Pushed(a) \in Number /\ st \in Seq(Int \X Int) /\ me \in Seq(Data)
        BY <1>1, <1>2, <3>0, <3>00
      <4>3. QED BY <4>1, <4>2, PushedFields
    <3>3. g = TakeNext(sp, a.ptr, new, a.next, Up(a.next))
      <4>1. sp.ptr # MaxRegStack
        BY <3>1, <1>2
      <4>2. QED BY <4>1, <3>2, Zenon DEF GetTempRegister, TakeNext, g, new
    <3>5. /\ g \in Allocator /\ g.ptr = a.ptr + 1 /\ g.next = Up(a.next) /\ g.regs = a.regs
          /\ g.inUse = [a.inUse EXCEPT ![a.next] = a.ptr]
          /\ g.alloc = [sp.alloc EXCEPT ![a.ptr] = new] /\ g.stack = st /\ g.mem = me
      <4>1. g \in Allocator /\ g.ptr = a.ptr + 1 /\ g.next = Up(a.next) /\ g.regs = sp.regs
            /\ g.inUse = [sp.inUse EXCEPT ![a.next] = a.ptr]
            /\ g.alloc = [sp.alloc EXCEPT ![a.ptr] = new] /\ g.stack = sp.stack /\ g.mem = sp.mem
        <5>1. a.ptr + 1 \in Number /\ sp \in Allocator /\ a.ptr \in Number /\ new \in Cell
              /\ a.next \in Temp /\ Up(a.next) \in Temp
          BY <3>1, <1>2
        <5>2. QED BY <3>3, <5>1, TakenFields
      <4>2. QED BY <4>1, <3>1
    <3>6. Pushed(g) = Pushed(a) + 1 /\ Pushed(g) + Width >= a.ptr + 1 /\ Len(g.mem) = Pushed(a) + 1 /\ Pushed(a) + 1 <= a.ptr
      BY <3>5, <3>0, <3>00, <2>2, <1>n, SMTT(30) DEF Pushed
    <3>7. \A i \in 1 .. Pushed(a) + 1 : g.stack[i][2] = Pushed(a) + 1 - i
      <4> SUFFICES ASSUME NEW i \in 1 .. Pushed(a) + 1 PROVE st[i][2] = Pushed(a) + 1 - i
        BY <3>5
      <4>1. CASE i = 1
        BY <4>1, <3>0, <1>2
      <4>2. CASE i # 1
        <5>1. i - 1 \in 1 .. Pushed(a) /\ (i - 1) + 1 = i /\ Pushed(a) - (i - 1) = Pushed(a) + 1 - i
          BY <4>2, <1>n
        <5>2. st[i] = a.stack[i - 1]
          BY <5>1, <3>0
        <5>3. a.stack[i - 1][2] = Pushed(a) - (i - 1)
          BY <5>1, <1>3
        <5>4. QED BY <5>1, <5>2, <5>3
      <4>3. QED BY <4>1, <4>2
    <3>8. ASSUME NEW n \in 0 .. a.ptr - 1
          PROVE  g.alloc[n].reg = a.alloc[n].reg /\ (g.alloc[n].isPushed <=> n < Pushed(a) + 1)
      <4>1. g.alloc[n] = IF n = Pushed(a) THEN [a.alloc[Pushed(a)] EXCEPT !.isPushed = TRUE] ELSE a.alloc[n]
        <5>1. n \in Number /\ a.ptr # n /\ a.alloc \in [Number -> Cell] /\ Pushed(a) \in Number /\ a.ptr \in Number
          <6>1. n \in Nat /\ n < a.ptr /\ a.ptr \in Number
            BY <1>2, <1>n
          <6>2. n \in Number /\ a.ptr # n
            BY <6>1, TempAssumption DEF Number
          <6>3. QED BY <6>1, <6>2, <1>2
        <5>2. QED BY <5>1, <3>5, <3>1, ZenonT(40) DEF Marked
      <4>2. a.alloc[n].isPushed <=> n < Pushed(a)
        BY <1>1 DEF Rotation
      <4>3. a.alloc[n] \in Cell /\ a.alloc[Pushed(a)] \in Cell
        <5>1. n \in Number /\ Pushed(a) \in Number /\ a.alloc \in [Number -> Cell]
          <6>1. n \in Nat /\ n < a.ptr /\ a.ptr \in Number
            BY <1>2, <1>n
          <6>2. n \in Number
            BY <6>1, TempAssumption DEF Number
          <6>3. QED BY <6>2, <1>2
        <5>2. QED BY <5>1
      <4>4. n < Pushed(a) + 1 <=> (n = Pushed(a) \/ n < Pushed(a))
        BY <1>n
      <4>5. QED BY <4>1, <4>2, <4>3, <4>4 DEF Cell
    <3>9. ASSUME NEW n \in Pushed(a) + 1 .. a.ptr - 1 PROVE a.alloc[n].reg # a.next
      <4>1. a.inUse[a.alloc[n].reg] = n
        BY <1>1, <1>2 DEF Window
      <4>2. QED BY <4>1, <2>2, <1>2
    <3>10. g.alloc[a.ptr] = new
      BY <3>5, <3>1, <1>2 DEF Marked
    <3>11. \A n \in Pushed(a) .. Pushed(a) : a.alloc[n].reg = a.next
      BY <2>2, <1>2
    <3>12. QED BY <3>5, <3>6, <3>7, <3>8, <3>9, <3>10, <3>11, <1>2, SMTT(30)
  <2>3. QED BY <2>1, <2>2, Spilled
<1> HIDE DEF g
<1>q. \A n \in 0 .. a.ptr - 1 : g.alloc[n].reg = a.alloc[n].reg
  BY <1>4
<1>p. \A n \in 0 .. a.ptr - 1 : g.alloc[n].isPushed <=> n < Pushed(g)
  BY <1>4
<1>f. \A n \in Pushed(g) .. a.ptr - 1 : a.alloc[n].reg # a.next
  BY <1>4
<1>m. /\ Pushed(g) \in Nat /\ Pushed(a) <= Pushed(g) /\ Pushed(g) <= a.ptr /\ Pushed(g) + Width >= a.ptr + 1
      /\ g.ptr = a.ptr + 1 /\ g.next = Up(a.next)
  BY <1>4
<1>5. Stacked(g)
  BY <1>4, <1>2 DEF Stacked
<1>6. Rotation(g)
  <2>1. ASSUME NEW n \in 0 .. a.ptr
        PROVE  g.alloc[n].reg \in Temp /\ (g.alloc[n].isPushed <=> n < Pushed(g))
    <3>1. CASE n = a.ptr
      BY <3>1, <1>4, <1>2, <1>n DEF new
    <3>2. CASE n # a.ptr
      <4>1. n \in 0 .. a.ptr - 1
        BY <3>2, <1>n
      <4>2. a.alloc[n].reg \in Temp
        BY <4>1, <1>1 DEF Rotation
      <4>3. QED BY <4>1, <4>2, <1>q, <1>p
    <3>3. QED BY <3>1, <3>2
  <2>2. ASSUME NEW n \in 0 .. a.ptr - 1
        PROVE  g.alloc[n + 1].reg = Up(g.alloc[n].reg)
    <3>0. g.alloc[n].reg = a.alloc[n].reg
      BY <1>q
    <3>1. CASE n = a.ptr - 1
      <4>1. n + 1 = a.ptr /\ a.ptr > 0
        BY <3>1, <1>n
      <4>2. a.next = Up(a.alloc[n].reg)
        BY <4>1, <3>1, <1>1 DEF Rotation
      <4>3. g.alloc[a.ptr].reg = a.next
        BY <1>4 DEF new
      <4>4. QED BY <4>1, <4>2, <4>3, <3>0
    <3>2. CASE n # a.ptr - 1
      <4>1. n \in 0 .. a.ptr - 2 /\ n + 1 \in 0 .. a.ptr - 1
        BY <3>2, <1>n
      <4>2. a.alloc[n + 1].reg = Up(a.alloc[n].reg)
        BY <4>1, <1>1 DEF Rotation
      <4>3. g.alloc[n + 1].reg = a.alloc[n + 1].reg
        BY <4>1, <1>q
      <4>4. QED BY <4>2, <4>3, <3>0
    <3>3. QED BY <3>1, <3>2
  <2>3. g.next = Up(g.alloc[g.ptr - 1].reg)
    <3>1. g.alloc[a.ptr].reg = a.next /\ g.ptr - 1 = a.ptr
      BY <1>4, <1>m, <1>n DEF new
    <3>2. QED BY <3>1, <1>m
  <2>4. g.ptr - 1 = a.ptr /\ g.ptr - 2 = a.ptr - 1
    BY <1>m, <1>n
  <2>5. QED BY <2>1, <2>2, <2>3, <2>4 DEF Rotation
<1>7. Window(g)
  <2>1. ASSUME NEW n \in Pushed(g) .. a.ptr
        PROVE  /\ n + Width >= a.ptr + 1
               /\ g.inUse[g.alloc[n].reg] = n
               /\ g.next = Turn(g.alloc[n].reg, a.ptr + 1 - n)
    <3>1. CASE n = a.ptr
      <4>1. g.alloc[a.ptr].reg = a.next /\ g.inUse[a.next] = a.ptr
        BY <1>4, <1>2 DEF new
      <4>2. g.next = Turn(a.next, 1)
        <5>1. 1 \in Nat /\ 1 # 0 /\ 1 <= Width /\ a.next \in Temp
          BY <1>n, <1>2
        <5>2. QED BY <5>1, Turning, <1>m
      <4>3. a.ptr + 1 - n = 1 /\ n + Width >= a.ptr + 1
        BY <3>1, <1>n
      <4>4. QED BY <3>1, <4>1, <4>2, <4>3
    <3>2. CASE n # a.ptr
      <4>1. n \in Pushed(a) .. a.ptr - 1 /\ n \in Pushed(g) .. a.ptr - 1 /\ n \in 0 .. a.ptr - 1 /\ n \in Nat
        BY <3>2, <1>m, <1>n
      <4>2. a.inUse[a.alloc[n].reg] = n /\ a.next = Turn(a.alloc[n].reg, a.ptr - n) /\ a.alloc[n].reg \in Temp
        BY <4>1, <1>1 DEF Window, Rotation
      <4>3. a.ptr - n \in Nat /\ a.ptr - n # 0 /\ a.ptr - n < Width
        BY <4>1, <1>m, <1>n
      <4>4. Up(a.next) = Turn(a.alloc[n].reg, (a.ptr - n) + 1)
        <5>1. a.ptr - n <= Width
          BY <4>3, <1>n
        <5>2. QED BY <4>2, <4>3, <5>1, Turning
      <4>5. (a.ptr - n) + 1 = a.ptr + 1 - n
        BY <4>1, <1>n
      <4>6. g.alloc[n].reg = a.alloc[n].reg /\ a.alloc[n].reg # a.next
        BY <4>1, <1>q, <1>f
      <4>7. g.inUse[a.alloc[n].reg] = n
        BY <4>2, <4>6, <1>4, <1>2
      <4>8. n + Width >= a.ptr + 1
        BY <4>1, <1>m, <1>n
      <4>9. QED BY <4>2, <4>4, <4>5, <4>6, <4>7, <4>8, <1>m
    <3>3. QED BY <3>1, <3>2
  <2>2. ASSUME NEW r \in Temp, g.inUse[r] # -1
        PROVE  g.inUse[r] \in Pushed(g) .. a.ptr /\ g.alloc[g.inUse[r]].reg = r
    <3>1. CASE r = a.next
      <4>1. g.inUse[r] = a.ptr
        BY <3>1, <1>4, <1>2
      <4>2. g.alloc[a.ptr].reg = a.next
        BY <1>4 DEF new
      <4>3. a.ptr \in Pushed(g) .. a.ptr
        BY <1>m, <1>n
      <4>4. QED BY <3>1, <4>1, <4>2, <4>3
    <3>2. CASE r # a.next
      <4>1. g.inUse[r] = a.inUse[r] /\ a.inUse[r] \in Pushed(a) .. a.ptr - 1 /\ a.alloc[a.inUse[r]].reg = r
        BY <3>2, <2>2, <1>4, <1>2, <1>1 DEF Window
      <4>2. a.inUse[r] >= Pushed(g)
        BY <4>1, <3>2, <1>4, <1>m, <1>n
      <4>3. a.inUse[r] \in Pushed(g) .. a.ptr /\ a.inUse[r] \in 0 .. a.ptr - 1
        BY <4>1, <4>2, <1>m, <1>n
      <4>4. QED BY <4>1, <4>3, <1>q
    <3>3. QED BY <3>1, <3>2
  <2>3. QED BY <2>1, <2>2, <1>4, <1>2 DEF Window
<1>8. Keeps(a, g, a.ptr)
  <2>1. ASSUME NEW n \in 0 .. a.ptr - 1, n >= Pushed(g)
        PROVE  n >= Pushed(a) /\ g.regs[a.alloc[n].reg] = a.regs[a.alloc[n].reg]
    BY <2>1, <1>m, <1>n, <1>4
  <2>2. QED BY <2>1, <1>q DEF Keeps
<1>9. LastAlloc(g, v) = Reg(a.next, a.ptr, v)
  <2>1. g.ptr - 1 = a.ptr /\ g.alloc[a.ptr].reg = a.next
    BY <1>4, <1>m, <1>n DEF new
  <2>2. QED BY <2>1 DEF LastAlloc
<1>10. g.alloc[a.ptr].reg = a.next /\ g.regs = a.regs
  BY <1>4 DEF new
<1>b. Begins(g)
  <2>1. g.ptr # 0 /\ g.alloc[a.ptr].reg = a.next /\ Begins(a)
    BY <1>m, <1>n, <1>10 DEF Sound
  <2>2. CASE a.ptr = 0
    BY <2>1, <2>2 DEF Begins
  <2>3. CASE a.ptr # 0
    <3>1. 0 \in 0 .. a.ptr - 1
      BY <2>3, <1>n
    <3>2. g.alloc[0].reg = a.alloc[0].reg
      BY <3>1, <1>q
    <3>3. QED BY <2>1, <2>3, <3>2 DEF Begins
  <2>4. QED BY <2>2, <2>3
<1>11. Sound(g)
  BY <1>4, <1>5, <1>6, <1>7, <1>b DEF Sound
<1>12. QED BY <1>m, <1>8, <1>9, <1>10, <1>11 DEF g

\* GenerateTempRegPop of the last temporary, when all of them are on the stack.
PopsLast(a, v, r) ==
  /\ v \in Allocator /\ v.ptr = a.ptr /\ v.next = a.next
  /\ Pushed(v) = a.ptr - 1 /\ Len(v.mem) = a.ptr - 1
  /\ \A i \in 1 .. a.ptr - 1 : v.stack[i][2] = a.ptr - 1 - i
  /\ v.inUse[r] = a.ptr - 1 /\ \A q \in Temp \ {r} : v.inUse[q] = -1
  /\ \A n \in 0 .. a.ptr - 1 :
       v.alloc[n].reg = a.alloc[n].reg /\ (v.alloc[n].isPushed <=> n < a.ptr - 1)
  /\ \A q \in Temp \ {r} : v.regs[q] = a.regs[q]

LEMMA Popped ==
  ASSUME NEW a, Sound(a), Pushed(a) = a.ptr, a.ptr # 0, NEW r \in Temp, r = a.alloc[a.ptr - 1].reg,
         NEW v, v = GenerateTempRegPop(a, r, a.ptr - 1)
  PROVE  PopsLast(a, v, r)
<1>1. a \in Allocator /\ Stacked(a) /\ Rotation(a) /\ Window(a)
  BY DEF Sound
<1>2. /\ a.stack \in Seq(Int \X Int) /\ a.mem \in Seq(Data) /\ Len(a.stack) = a.ptr
      /\ Len(a.mem) = a.ptr /\ a.ptr \in Number /\ a.inUse \in [Temp -> Int]
      /\ a.regs \in [Temp \cup {Result} -> Data] /\ a.alloc \in [Number -> Cell] /\ a.next \in Temp
  BY <1>1, Fields DEF Stacked, Pushed
<1>3. a.ptr \in Nat /\ a.ptr - 1 \in Number /\ a.ptr - 1 \in Nat /\ a.ptr > 0 /\ a.ptr - 1 \in Int
  <2>1. a.ptr \in Nat
    BY <1>2, Registers
  <2>2. QED BY <2>1, <1>2, TempAssumption, SMTT(30) DEF Number
<1>4. \A q \in Temp : a.inUse[q] = -1
  BY <1>1, <1>3 DEF Window
<1>5. /\ a.stack # <<>> /\ Head(a.stack)[2] = a.ptr - 1
      /\ Tail(a.stack) \in Seq(Int \X Int) /\ Len(Tail(a.stack)) = a.ptr - 1
      /\ \A i \in 1 .. a.ptr - 1 : Tail(a.stack)[i] = a.stack[i + 1]
  <2>1. a.stack # <<>> /\ Head(a.stack) = a.stack[1]
    BY <1>2, <1>3
  <2>2. a.stack[1][2] = a.ptr - 1
    BY <1>1, <1>2, <1>3 DEF Stacked
  <2>3. Tail(a.stack) \in Seq(Int \X Int) /\ Len(Tail(a.stack)) = a.ptr - 1
        /\ \A i \in 1 .. a.ptr - 1 : Tail(a.stack)[i] = a.stack[i + 1]
    BY <2>1, <1>2, <1>3, HeadTailProperties
  <2>4. QED BY <2>1, <2>2, <2>3
<1>6. a.mem # <<>> /\ Head(a.mem) \in Data /\ Tail(a.mem) \in Seq(Data) /\ Len(Tail(a.mem)) = a.ptr - 1
  <2>1. a.mem # <<>>
    BY <1>2, <1>3
  <2>2. QED BY <2>1, <1>2, <1>3, HeadTailProperties
<1> DEFINE st == Tail(a.stack)
           me == Tail(a.mem)
           x  == Head(a.mem)
<1>7. v = [a EXCEPT !.stack = st, !.inUse[r] = a.ptr - 1, !.regs[r] = x, !.mem = me,
                    !.alloc[a.ptr - 1].isPushed = FALSE]
  <2>1. ~(a.inUse[r] >= 0)
    BY <1>4
  <2>2. QED BY <2>1, <1>5, Zenon DEF GenerateTempRegPop
<1> HIDE DEF st, me, x
<1>8. /\ st \in Seq(Int \X Int) /\ me \in Seq(Data) /\ x \in Data /\ Len(st) = a.ptr - 1
      /\ Len(me) = a.ptr - 1 /\ \A i \in 1 .. a.ptr - 1 : st[i] = a.stack[i + 1]
  BY <1>5, <1>6 DEF st, me, x
<1> DEFINE e == [a.alloc[a.ptr - 1] EXCEPT !.isPushed = FALSE]
           A == [a.alloc EXCEPT ![a.ptr - 1] = e]
           I == [a.inUse EXCEPT ![r] = a.ptr - 1]
           R == [a.regs EXCEPT ![r] = x]
<1>9. v = [a EXCEPT !.stack = st, !.inUse = I, !.regs = R, !.mem = me, !.alloc = A]
  BY <1>7, <1>1 DEF Allocator
<1>10. A \in [Number -> Cell] /\ \A n \in Number : A[n] = IF n = a.ptr - 1 THEN e ELSE a.alloc[n]
  <2>1. a.alloc[a.ptr - 1] \in Cell
    BY <1>2, <1>3
  <2>2. e \in Cell
    BY <2>1 DEF Cell
  <2> HIDE DEF e
  <2>3. QED BY <2>2, <1>2, <1>3
<1>11. I \in [Temp -> Int] /\ R \in [Temp \cup {Result} -> Data]
  BY <1>2, <1>3, <1>8
<1>12. I[r] = a.ptr - 1 /\ \A q \in Temp \ {r} : I[q] = -1
  BY <1>2, <1>4
<1>13. \A q \in Temp \ {r} : R[q] = a.regs[q]
  BY <1>2
<1>14. e.reg = a.alloc[a.ptr - 1].reg /\ e.isPushed = FALSE
  <2>1. a.alloc[a.ptr - 1] \in Cell
    BY <1>2, <1>3
  <2>2. QED BY <2>1 DEF Cell
<1> HIDE DEF e, A, I, R
<1>15. /\ v \in Allocator /\ v.ptr = a.ptr /\ v.next = a.next /\ v.stack = st /\ v.mem = me
       /\ v.inUse = I /\ v.regs = R /\ v.alloc = A
  BY <1>9, <1>1, <1>8, <1>10, <1>11, ZenonT(60) DEF Allocator
<1>16. \A i \in 1 .. a.ptr - 1 : v.stack[i][2] = a.ptr - 1 - i
  <2> SUFFICES ASSUME NEW i \in 1 .. a.ptr - 1 PROVE st[i][2] = a.ptr - 1 - i
    BY <1>15
  <2>1. i + 1 \in 1 .. a.ptr /\ a.ptr - (i + 1) = a.ptr - 1 - i
    BY <1>3
  <2>2. a.stack[i + 1][2] = a.ptr - (i + 1)
    BY <2>1, <1>1 DEF Stacked
  <2>3. QED BY <2>1, <2>2, <1>8
<1>17. ASSUME NEW n \in 0 .. a.ptr - 1
       PROVE  v.alloc[n].reg = a.alloc[n].reg /\ (v.alloc[n].isPushed <=> n < a.ptr - 1)
  <2>1. n \in Number
    BY <1>2, <1>3, TempAssumption DEF Number
  <2>2. a.alloc[n].isPushed
    BY <1>1, <1>3 DEF Rotation
  <2>3. v.alloc[n] = IF n = a.ptr - 1 THEN e ELSE a.alloc[n]
    BY <2>1, <1>10, <1>15
  <2>4. CASE n = a.ptr - 1
    BY <2>3, <2>4, <1>14, <1>3, SMTT(30)
  <2>5. CASE n # a.ptr - 1
    BY <2>2, <2>3, <2>5, <1>3, SMTT(30)
  <2>6. QED BY <2>4, <2>5
<1>18. Pushed(v) = a.ptr - 1 /\ Len(v.mem) = a.ptr - 1
  BY <1>15, <1>8 DEF Pushed
<1>19. QED BY <1>12, <1>13, <1>15, <1>16, <1>17, <1>18 DEF PopsLast

DropNext(a, r) == [a EXCEPT !.inUse[r] = -1, !.next = Down(a.next), !.ptr = a.ptr - 1]

LEMMA DroppedFields ==
  ASSUME NEW a \in Allocator, a.ptr # 0, NEW r \in Temp, NEW g, g = DropNext(a, r)
  PROVE  /\ g \in Allocator /\ g.ptr = a.ptr - 1 /\ g.next = Down(a.next) /\ g.regs = a.regs
         /\ g.inUse = [a.inUse EXCEPT ![r] = -1] /\ g.alloc = a.alloc
         /\ g.stack = a.stack /\ g.mem = a.mem
<1> DEFINE B == [a.inUse EXCEPT ![r] = -1]
<1>1. g = [a EXCEPT !.inUse = B, !.next = Down(a.next), !.ptr = a.ptr - 1]
  BY DEF Allocator, DropNext
<1>2. B \in [Temp -> Int]
  <2>1. a.inUse \in [Temp -> Int]
    BY Fields
  <2>2. QED BY <2>1
<1>3. Down(a.next) \in Temp
  BY Fields, Registers
<1>4. a.ptr - 1 \in Number
  <2>1. a.ptr \in Number
    BY Fields
  <2>2. QED BY <2>1, TempAssumption DEF Number
<1> HIDE DEF B
<1>5. g \in Allocator /\ g.ptr = a.ptr - 1 /\ g.next = Down(a.next) /\ g.regs = a.regs /\ g.inUse = B
      /\ g.alloc = a.alloc /\ g.stack = a.stack /\ g.mem = a.mem
  BY <1>1, <1>2, <1>3, <1>4 DEF Allocator
<1>6. QED BY <1>5 DEF B

\* ReleaseTempRegister of the last temporary gives back its number and its
\* register; a spilled one is popped before, and nothing else is lost by that.
LEMMA Released ==
  ASSUME NEW a, Sound(a), a.ptr # 0, NEW ap \in InRegister,
         ap.deep = a.ptr - 1, ap.preg = a.alloc[a.ptr - 1].reg
  PROVE  /\ Sound(ReleaseTempRegister(a, ap))
         /\ ReleaseTempRegister(a, ap).ptr = a.ptr - 1
         /\ Keeps(a, ReleaseTempRegister(a, ap), a.ptr - 1)
         /\ \A q \in Temp \ {ap.preg} : ReleaseTempRegister(a, ap).regs[q] = a.regs[q]
<1> DEFINE r == ap.preg
           v == validate(a, ap)
           g == ReleaseTempRegister(a, ap)
<1>1. a \in Allocator /\ Stacked(a) /\ Rotation(a) /\ Window(a)
  BY DEF Sound
<1>2. ap.mode \in {"reg", "ind"} /\ r \in Temp
  BY DEF InRegister
<1>3. a.ptr \in Nat /\ a.ptr - 1 \in Nat /\ Pushed(a) \in Nat /\ Pushed(a) <= a.ptr
      /\ a.ptr - 1 \in 0 .. a.ptr - 1
  <2>1. a.ptr \in Nat /\ Pushed(a) \in Nat
    BY <1>1, Fields, Registers
  <2>2. QED BY <2>1, <1>1 DEF Stacked
<1>4. v = PopBack(a, r, a.ptr - 1)
  BY <1>2 DEF validate
<1>5. a.alloc[a.ptr - 1].isPushed <=> Pushed(a) = a.ptr
  <2>1. a.alloc[a.ptr - 1].isPushed <=> a.ptr - 1 < Pushed(a)
    BY <1>1, <1>3 DEF Rotation
  <2>2. a.ptr - 1 < Pushed(a) <=> Pushed(a) = a.ptr
    BY <1>3
  <2>3. QED BY <2>1, <2>2
<1> HIDE DEF v, g, r
<1>6. /\ v \in Allocator /\ v.ptr = a.ptr /\ v.next = a.next
      /\ Pushed(v) \in Nat /\ Pushed(v) <= a.ptr - 1 /\ Len(v.mem) = Pushed(v)
      /\ \A i \in 1 .. Pushed(v) : v.stack[i][2] = Pushed(v) - i
      /\ v.inUse[r] = a.ptr - 1
      /\ \A n \in 0 .. a.ptr - 1 :
           v.alloc[n].reg = a.alloc[n].reg /\ (v.alloc[n].isPushed <=> n < Pushed(v))
      /\ \A q \in Temp \ {r} : v.regs[q] = a.regs[q]
      /\ \A q \in Temp \ {r} : v.inUse[q] # -1 =>
           v.inUse[q] \in Pushed(v) .. a.ptr - 2 /\ a.alloc[v.inUse[q]].reg = q
      /\ \A n \in Pushed(v) .. a.ptr - 2 :
           /\ n >= Pushed(a) /\ n + Width >= a.ptr /\ a.alloc[n].reg # r
           /\ v.inUse[a.alloc[n].reg] = n /\ a.next = Turn(a.alloc[n].reg, a.ptr - n)
  <2>1. CASE Pushed(a) = a.ptr
    <3>1. v = GenerateTempRegPop(a, r, a.ptr - 1)
      <4>1. r \in Temp /\ a.alloc[a.ptr - 1].isPushed
        BY <2>1, <1>2, <1>5
      <4>2. QED BY <4>1, <1>4 DEF PopBack
    <3>2. PopsLast(a, v, r)
      <4>1. r \in Temp /\ r = a.alloc[a.ptr - 1].reg
        BY <1>2 DEF r
      <4>2. QED BY <2>1, <3>1, <4>1, Popped
    <3>3. \A n \in Pushed(v) .. a.ptr - 2 : FALSE
      BY <3>2, <1>3 DEF PopsLast
    <3>5. \A n \in 0 .. a.ptr - 1 :
            v.alloc[n].reg = a.alloc[n].reg /\ (v.alloc[n].isPushed <=> n < Pushed(v))
      BY <3>2 DEF PopsLast
    <3>6. \A i \in 1 .. Pushed(v) : v.stack[i][2] = Pushed(v) - i
      BY <3>2 DEF PopsLast
    <3>7. /\ v \in Allocator /\ v.ptr = a.ptr /\ v.next = a.next
          /\ Pushed(v) \in Nat /\ Pushed(v) <= a.ptr - 1 /\ Len(v.mem) = Pushed(v)
          /\ \A q \in Temp \ {r} : v.regs[q] = a.regs[q]
      BY <3>2, <1>3 DEF PopsLast
    <3>4. v.inUse[r] = a.ptr - 1 /\ \A q \in Temp \ {r} : v.inUse[q] = -1
      BY <3>2 DEF PopsLast
    <3>8. QED BY <3>3, <3>4, <3>5, <3>6, <3>7
  <2>2. CASE Pushed(a) # a.ptr
    <3>1. v = a
      BY <2>2, <1>4, <1>5 DEF PopBack
    <3>2. Pushed(a) <= a.ptr - 1 /\ a.ptr - 1 \in Pushed(a) .. a.ptr - 1
      BY <2>2, <1>3
    <3>3. a.inUse[r] = a.ptr - 1
      BY <3>2, <1>1 DEF Window, r
    <3>4. ASSUME NEW n \in 0 .. a.ptr - 1 PROVE a.alloc[n].isPushed <=> n < Pushed(a)
      BY <1>1 DEF Rotation
    <3>5. ASSUME NEW q \in Temp \ {r}, a.inUse[q] # -1
          PROVE  a.inUse[q] \in Pushed(a) .. a.ptr - 2 /\ a.alloc[a.inUse[q]].reg = q
      <4>1. a.inUse[q] \in Pushed(a) .. a.ptr - 1 /\ a.alloc[a.inUse[q]].reg = q
        BY <3>5, <1>1 DEF Window
      <4>2. a.inUse[q] # a.ptr - 1
        BY <4>1 DEF r
      <4>3. QED BY <4>1, <4>2, <1>3
    <3>6. ASSUME NEW n \in Pushed(a) .. a.ptr - 2
          PROVE  /\ n >= Pushed(a) /\ n + Width >= a.ptr /\ a.alloc[n].reg # r
                 /\ a.inUse[a.alloc[n].reg] = n /\ a.next = Turn(a.alloc[n].reg, a.ptr - n)
      <4>1. n \in Pushed(a) .. a.ptr - 1 /\ n # a.ptr - 1 /\ n >= Pushed(a)
        BY <1>3
      <4>2. n + Width >= a.ptr /\ a.inUse[a.alloc[n].reg] = n
            /\ a.next = Turn(a.alloc[n].reg, a.ptr - n)
        BY <4>1, <1>1 DEF Window
      <4>3. QED BY <4>1, <4>2, <3>3
    <3>7. Len(a.mem) = Pushed(a) /\ \A i \in 1 .. Pushed(a) : a.stack[i][2] = Pushed(a) - i
      BY <1>1 DEF Stacked
    <3>8. QED BY <3>1, <3>2, <3>3, <3>4, <3>5, <3>6, <3>7, <1>1, <1>3
  <2>3. QED BY <2>1, <2>2
<1>n. Pushed(v) \in Nat /\ Pushed(v) <= a.ptr - 1 /\ v.ptr = a.ptr
  BY <1>6
<1>w. ASSUME NEW n \in Pushed(v) .. a.ptr - 2
      PROVE  /\ n >= Pushed(a) /\ n + Width >= a.ptr /\ a.alloc[n].reg # r
             /\ v.inUse[a.alloc[n].reg] = n /\ a.next = Turn(a.alloc[n].reg, a.ptr - n)
  BY <1>6
<1>r. \A n \in 0 .. a.ptr - 1 : v.alloc[n].reg = a.alloc[n].reg
  BY <1>6
<1>p. \A n \in 0 .. a.ptr - 1 : v.alloc[n].isPushed <=> n < Pushed(v)
  BY <1>6
<1>7. g = DropNext(v, r)
  <2>1. g = ReleasePreg(v, r)
    BY <1>2 DEF g, v, r, ReleaseTempRegister
  <2>2. InUse(v, r) /\ v.ptr # 0
    BY <1>2, <1>3, <1>6 DEF InUse
  <2>3. ~v.alloc[v.inUse[r]].isPushed
    <3>1. v.alloc[a.ptr - 1].isPushed <=> a.ptr - 1 < Pushed(v)
      BY <1>p, <1>3
    <3>2. ~(a.ptr - 1 < Pushed(v))
      BY <1>n, <1>3
    <3>3. QED BY <3>1, <3>2, <1>6
  <2>4. g = [FreeReg(v, r) EXCEPT !.ptr = v.ptr - 1]
    BY <2>1, <2>2, <2>3 DEF ReleasePreg
  <2>5. v \in Allocator
    BY <1>6
  <2>6. QED BY <2>4, <2>5 DEF FreeReg, DropNext, Allocator
<1>8. /\ g \in Allocator /\ g.ptr = a.ptr - 1 /\ g.next = Down(a.next) /\ g.regs = v.regs
      /\ g.inUse = [v.inUse EXCEPT ![r] = -1] /\ g.alloc = v.alloc
      /\ g.stack = v.stack /\ g.mem = v.mem
  <2>1. v \in Allocator /\ v.ptr = a.ptr /\ v.next = a.next
    BY <1>6
  <2>2. /\ g \in Allocator /\ g.ptr = v.ptr - 1 /\ g.next = Down(v.next) /\ g.regs = v.regs
        /\ g.inUse = [v.inUse EXCEPT ![r] = -1] /\ g.alloc = v.alloc
        /\ g.stack = v.stack /\ g.mem = v.mem
    BY <2>1, <1>2, <1>7, DroppedFields
  <2>3. QED BY <2>1, <2>2
<1>9. Pushed(g) = Pushed(v)
  BY <1>8 DEF Pushed
<1>10. Stacked(g)
  BY <1>6, <1>8, <1>9 DEF Stacked
<1>11. a.next = Up(r) /\ g.next = r
  <2>1. a.next = Up(r)
    BY <1>1, <1>3 DEF Rotation, r
  <2>2. QED BY <2>1, <1>2, <1>8, Registers
<1>12. Rotation(g)
  <2>1. ASSUME NEW n \in 0 .. a.ptr - 2
        PROVE  g.alloc[n].reg \in Temp /\ (g.alloc[n].isPushed <=> n < Pushed(g))
    <3>1. n \in 0 .. a.ptr - 1
      BY <1>3
    <3>2. a.alloc[n].reg \in Temp
      BY <3>1, <1>1 DEF Rotation
    <3>3. QED BY <3>1, <3>2, <1>8, <1>9, <1>r, <1>p
  <2>2. ASSUME NEW n \in 0 .. a.ptr - 3
        PROVE  g.alloc[n + 1].reg = Up(g.alloc[n].reg)
    <3>1. n \in 0 .. a.ptr - 2 /\ n \in 0 .. a.ptr - 1 /\ n + 1 \in 0 .. a.ptr - 1
      BY <1>3
    <3>2. a.alloc[n + 1].reg = Up(a.alloc[n].reg)
      BY <3>1, <1>1 DEF Rotation
    <3>3. QED BY <3>1, <3>2, <1>8, <1>r
  <2>3. ASSUME g.ptr > 0
        PROVE  g.next = Up(g.alloc[g.ptr - 1].reg)
    <3>1. a.ptr - 2 \in 0 .. a.ptr - 2 /\ a.ptr - 2 \in 0 .. a.ptr - 1 /\ g.ptr - 1 = a.ptr - 2
          /\ (a.ptr - 2) + 1 = a.ptr - 1
      BY <2>3, <1>3, <1>8
    <3>2. a.alloc[(a.ptr - 2) + 1].reg = Up(a.alloc[a.ptr - 2].reg)
      BY <3>1, <1>1 DEF Rotation
    <3>3. g.alloc[a.ptr - 2].reg = a.alloc[a.ptr - 2].reg
      BY <3>1, <1>8, <1>r
    <3>4. QED BY <3>1, <3>2, <3>3, <1>11 DEF r
  <2>4. g.ptr - 1 = a.ptr - 2 /\ g.ptr - 2 = a.ptr - 3
    BY <1>8, <1>3
  <2>5. QED BY <2>1, <2>2, <2>3, <2>4 DEF Rotation
<1>13. Window(g)
  <2>1. ASSUME NEW n \in Pushed(g) .. a.ptr - 2
        PROVE  /\ n + Width >= a.ptr - 1
               /\ g.inUse[g.alloc[n].reg] = n
               /\ g.next = Turn(g.alloc[n].reg, a.ptr - 1 - n)
    <3>1. n \in Pushed(v) .. a.ptr - 2 /\ n \in 0 .. a.ptr - 1 /\ n \in Nat
      BY <1>9, <1>n, <1>3
    <3>2. /\ n + Width >= a.ptr /\ a.alloc[n].reg # r
          /\ v.inUse[a.alloc[n].reg] = n /\ a.next = Turn(a.alloc[n].reg, a.ptr - n)
      BY <3>1, <1>w
    <3>3. g.alloc[n].reg = a.alloc[n].reg /\ a.alloc[n].reg \in Temp
      BY <3>1, <1>8, <1>r, <1>1 DEF Rotation
    <3>4. g.inUse[a.alloc[n].reg] = n
      <4>1. v.inUse \in [Temp -> Int]
        BY <1>6, Fields
      <4>2. QED BY <4>1, <3>2, <3>3, <1>8
    <3>5. a.ptr - n \in Nat /\ a.ptr - n > 1 /\ a.ptr - n # 0 /\ a.ptr - n <= Width
          /\ (a.ptr - n) - 1 = a.ptr - 1 - n /\ n + Width >= a.ptr - 1
      BY <3>1, <3>2, <1>3, TempAssumption DEF Width
    <3>6. Down(a.next) = Turn(a.alloc[n].reg, (a.ptr - n) - 1)
      BY <3>2, <3>3, <3>5, Turning
    <3>7. QED BY <3>3, <3>4, <3>5, <3>6, <1>8
  <2>2. ASSUME NEW q \in Temp, g.inUse[q] # -1
        PROVE  g.inUse[q] \in Pushed(g) .. a.ptr - 2 /\ g.alloc[g.inUse[q]].reg = q
    <3>0. v.inUse \in [Temp -> Int]
      BY <1>6, Fields
    <3>1. q # r /\ g.inUse[q] = v.inUse[q]
      BY <2>2, <3>0, <1>8
    <3>2. v.inUse[q] \in Pushed(v) .. a.ptr - 2 /\ a.alloc[v.inUse[q]].reg = q
      BY <3>1, <2>2, <1>6
    <3>3. v.inUse[q] \in 0 .. a.ptr - 1
      BY <3>2, <1>n, <1>3
    <3>4. g.alloc[v.inUse[q]].reg = a.alloc[v.inUse[q]].reg
      BY <3>3, <1>8, <1>r
    <3>5. QED BY <3>1, <3>2, <3>4, <1>9
  <2>3. g.ptr - 1 = a.ptr - 2 /\ \A n \in Nat : g.ptr - n = a.ptr - 1 - n
    BY <1>8, <1>3
  <2>4. \A n \in Pushed(g) .. a.ptr - 2 : n \in Nat
    BY <1>n, <1>9, <1>3
  <2>5. QED BY <2>1, <2>2, <2>3, <2>4, <1>8 DEF Window
<1>14. Keeps(a, g, a.ptr - 1)
  <2> SUFFICES ASSUME NEW n \in 0 .. (a.ptr - 1) - 1
               PROVE  /\ g.alloc[n].reg = a.alloc[n].reg
                      /\ n >= Pushed(g) => n >= Pushed(a) /\ g.regs[a.alloc[n].reg] = a.regs[a.alloc[n].reg]
    BY DEF Keeps
  <2>1. n \in 0 .. a.ptr - 1 /\ n \in 0 .. a.ptr - 2
    BY <1>3
  <2>2. g.alloc[n].reg = a.alloc[n].reg /\ a.alloc[n].reg \in Temp
    BY <2>1, <1>8, <1>r, <1>1 DEF Rotation
  <2>3. ASSUME n >= Pushed(g)
        PROVE  n >= Pushed(a) /\ g.regs[a.alloc[n].reg] = a.regs[a.alloc[n].reg]
    <3>1. n \in Pushed(v) .. a.ptr - 2
      BY <2>1, <2>3, <1>9, <1>n, <1>3
    <3>2. n >= Pushed(a) /\ a.alloc[n].reg # r
      BY <3>1, <1>w
    <3>3. v.regs[a.alloc[n].reg] = a.regs[a.alloc[n].reg]
      BY <3>2, <2>2, <1>6
    <3>4. QED BY <3>2, <3>3, <1>8
  <2>4. QED BY <2>2, <2>3
<1>b. Begins(g)
  <2>1. g.ptr = a.ptr - 1 /\ g.next = r /\ g.alloc[0].reg = a.alloc[0].reg /\ 0 \in 0 .. a.ptr - 1
    BY <1>3, <1>8, <1>11, <1>r
  <2>2. a.alloc[0].reg = FirstTemp
    BY DEF Sound, Begins
  <2>3. CASE a.ptr = 1
    <3>1. r = a.alloc[0].reg /\ g.ptr = 0
      BY <2>1, <2>3 DEF r
    <3>2. QED BY <2>1, <2>2, <3>1 DEF Begins
  <2>4. CASE a.ptr # 1
    <3>1. g.ptr # 0
      BY <2>1, <2>4, <1>3
    <3>2. QED BY <2>1, <2>2, <3>1 DEF Begins
  <2>5. QED BY <2>3, <2>4
<1>15. Sound(g)
  BY <1>8, <1>10, <1>12, <1>13, <1>b DEF Sound
<1>q. \A q \in Temp \ {r} : v.regs[q] = a.regs[q]
  BY <1>6
<1>16. \A q \in Temp \ {ap.preg} : g.regs[q] = a.regs[q]
  <2>1. \A q \in Temp \ {r} : g.regs[q] = a.regs[q]
    BY <1>q, <1>8
  <2>2. QED BY <2>1 DEF r
<1>17. QED BY <1>8, <1>14, <1>15, <1>16 DEF g

\* An instruction changes one register of the machine and nothing of the allocator.
LEMMA SetFields ==
  ASSUME NEW a, Sound(a), NEW r \in Temp, NEW v \in Nat
  PROVE  /\ Sound(Set(a, r, v)) /\ Set(a, r, v).ptr = a.ptr /\ Set(a, r, v).alloc = a.alloc
         /\ Pushed(Set(a, r, v)) = Pushed(a)
         /\ Set(a, r, v).regs[r] = v
         /\ \A q \in Temp \ {r} : Set(a, r, v).regs[q] = a.regs[q]
<1> DEFINE R == [a.regs EXCEPT ![r] = v]
           g == Set(a, r, v)
<1>1. a \in Allocator /\ a.regs \in [Temp \cup {Result} -> Data]
  BY Fields DEF Sound
<1>2. g = [a EXCEPT !.regs = R]
  BY <1>1 DEF Set, Allocator
<1>3. /\ R \in [Temp \cup {Result} -> Data] /\ R[r] = v
      /\ \A q \in Temp \ {r} : R[q] = a.regs[q]
  BY <1>1 DEF Data
<1> HIDE DEF R, g
<1>4. /\ g \in Allocator /\ g.ptr = a.ptr /\ g.alloc = a.alloc /\ g.stack = a.stack /\ g.mem = a.mem
      /\ g.inUse = a.inUse /\ g.next = a.next /\ g.regs = R
  BY <1>1, <1>2, <1>3 DEF Allocator
<1>5. Pushed(g) = Pushed(a)
  BY <1>4 DEF Pushed
<1>6. Stacked(g)
  BY <1>4, <1>5 DEF Sound, Stacked
<1>7. Rotation(g)
  BY <1>4, <1>5 DEF Sound, Rotation
<1>8. Window(g)
  BY <1>4, <1>5 DEF Sound, Window
<1>b. Begins(g)
  BY <1>4 DEF Sound, Begins
<1>9. Sound(g)
  BY <1>4, <1>6, <1>7, <1>8, <1>b DEF Sound
<1>10. QED BY <1>3, <1>4, <1>5, <1>9 DEF g

\* Writing the register of temporary n, pushed or not, leaves the older ones.
LEMMA SetKeeps ==
  ASSUME NEW a, Sound(a), NEW n \in 0 .. a.ptr - 1, NEW v \in Nat
  PROVE  Keeps(a, Set(a, a.alloc[n].reg, v), n)
<1> DEFINE r == a.alloc[n].reg
<1>0. a.ptr \in Nat /\ Pushed(a) \in Nat
  BY Fields, Registers DEF Sound
<1>1. r \in Temp
  BY DEF Sound, Rotation
<1> HIDE DEF r
<1>2. /\ Set(a, r, v).alloc = a.alloc /\ Pushed(Set(a, r, v)) = Pushed(a)
      /\ \A q \in Temp \ {r} : Set(a, r, v).regs[q] = a.regs[q]
  BY <1>1, SetFields
<1>3. ASSUME NEW k \in 0 .. n - 1, k >= Pushed(a)
      PROVE  Set(a, r, v).regs[a.alloc[k].reg] = a.regs[a.alloc[k].reg]
  <2>1. k \in Pushed(a) .. a.ptr - 1 /\ n \in Pushed(a) .. a.ptr - 1 /\ k # n /\ k \in 0 .. a.ptr - 1
    BY <1>0, <1>3
  <2>2. a.alloc[k].reg # r
    BY <2>1, Apart DEF r
  <2>3. a.alloc[k].reg \in Temp
    BY <2>1 DEF Sound, Rotation
  <2>4. QED BY <2>2, <2>3, <1>2
<1>4. QED BY <1>2, <1>3 DEF Keeps, r

-----------------------------------------------------------------------------
(***************************************************************************)
(* Operands.                                                               *)
(***************************************************************************)
LEMMA Modes ==
  /\ Immed.mode = "immed" /\ Local.mode = "local" /\ Direct.mode = "direct" /\ NoMode.mode = "none"
  /\ \A ap \in InRegister : ap.mode \in {"reg", "ind"} /\ Taken(ap) = 1
                            /\ ap # NoMode /\ ap # Immed /\ ap # Local /\ ap # Direct
  /\ Taken(Immed) = 0 /\ Taken(Local) = 0 /\ Taken(Direct) = 0 /\ Taken(NoMode) = 0
  /\ Immed # NoMode /\ Local # NoMode /\ Direct # NoMode /\ Direct # Immed
BY DEF Immed, Local, Direct, NoMode, InRegister, Taken

\* The narrowed flags of a set of flags.
LEMMA Narrowed ==
  ASSUME NEW f \in {REG, IMMED, ALL}, NEW n \in Narrow(f)
  PROVE  n \in {REG, IMMED, ALL} /\ n \subseteq f
BY DEF Narrow, REG, IMMED, ALL

LEMMA RegIsTemp ==
  ASSUME NEW r \in Temp, NEW n \in Number, NEW v \in Nat
  PROVE  /\ Reg(r, n, v) \in InRegister /\ Reg(r, n, v).preg = r /\ Reg(r, n, v).deep = n
         /\ Reg(r, n, v).val = v /\ Reg(r, n, v).mode = "reg"
BY DEF Reg, InRegister

\* The value v is loaded into a new temporary.
LEMMA LoadNew ==
  ASSUME NEW a, Sound(a), a.ptr < MaxRegStack, NEW v \in Nat, NEW g, NEW to,
         g = GetTempRegister(a), to = LastAlloc(g, v)
  PROVE  /\ Sound(Set(g, to.preg, v)) /\ Keeps(a, Set(g, to.preg, v), a.ptr)
         /\ Set(g, to.preg, v).ptr = a.ptr + 1
         /\ IsTemp(Set(g, to.preg, v), to, a.ptr) /\ to.mode = "reg"
         /\ Set(g, to.preg, v).regs[to.preg] = to.val
<1>1. a.next \in Temp /\ a.ptr \in Number /\ a.ptr \in Nat
  BY Fields, Registers DEF Sound
<1>2. /\ Sound(g) /\ g.ptr = a.ptr + 1 /\ g.alloc[a.ptr].reg = a.next /\ Keeps(a, g, a.ptr)
      /\ to = Reg(a.next, a.ptr, v)
  BY Got
<1>3. to \in InRegister /\ to.preg = a.next /\ to.deep = a.ptr /\ to.val = v /\ to.mode = "reg"
  BY <1>1, <1>2, RegIsTemp
<1>4. /\ Sound(Set(g, a.next, v)) /\ Set(g, a.next, v).ptr = g.ptr
      /\ Set(g, a.next, v).alloc = g.alloc /\ Set(g, a.next, v).regs[a.next] = v
  <2>1. Sound(g) /\ a.next \in Temp /\ v \in Nat
    BY <1>1, <1>2
  <2>2. QED BY <2>1, SetFields
<1>5. Keeps(g, Set(g, a.next, v), a.ptr)
  <2>1. a.ptr \in 0 .. g.ptr - 1
    BY <1>1, <1>2
  <2>2. Keeps(g, Set(g, g.alloc[a.ptr].reg, v), a.ptr)
    BY <2>1, <1>2, SetKeeps
  <2>3. QED BY <2>2, <1>2
<1>6. Keeps(a, Set(g, a.next, v), a.ptr)
  BY <1>1, <1>2, <1>5, KeepsTwice
<1>7. IsTemp(Set(g, a.next, v), to, a.ptr)
  BY <1>2, <1>3, <1>4 DEF IsTemp
<1>8. QED BY <1>2, <1>3, <1>4, <1>6, <1>7

\* What MakeLegalAmode returns for an operand and the value v.
LEMMA Legal ==
  ASSUME NEW a, Sound(a), NEW f, f \in {REG, IMMED, ALL}, NEW v \in Nat, NEW ap, NEW m,
         m = a.ptr - Taken(ap), m < MaxRegStack,
         \/ ap \in {Immed, Local, Direct}
         \/ a.ptr # 0 /\ IsTemp(a, ap, a.ptr - 1) /\ a.regs[ap.preg] = ap.val,
         NEW g, g = MakeLegalAmode(a, ap, f, v)
  PROVE  /\ Sound(g[1]) /\ Keeps(a, g[1], m) /\ g[1].ptr = m + Taken(g[2]) /\ g[2].mode \in f
         /\ \/ g[2] \in {Immed, Local, Direct} /\ g[2] = ap
            \/ IsTemp(g[1], g[2], m) /\ g[1].regs[g[2].preg] = g[2].val
<1>1. a.ptr \in Nat
  BY Fields, Registers DEF Sound
<1>2. ap \in {Immed, Local, Direct} => Taken(ap) = 0
  BY Modes
<1>3. IsTemp(a, ap, a.ptr - 1) => Taken(ap) = 1 /\ ap \in InRegister
  BY Modes DEF IsTemp
<1>4. CASE ap.mode \in f
  <2>1. g[1] = a /\ g[2] = ap
    BY <1>4 DEF MakeLegalAmode
  <2>2. m \in Nat /\ m <= a.ptr /\ a.ptr = m + Taken(ap)
    BY <1>1, <1>2, <1>3
  <2>3. Keeps(a, a, m)
    BY DEF Keeps
  <2>4. IsTemp(a, ap, a.ptr - 1) => m = a.ptr - 1
    BY <1>3, <1>1
  <2>5. QED BY <2>1, <2>2, <2>3, <2>4, <1>4
<1>5. CASE ap.mode \notin f
  <2> DEFINE r  == ReleaseTempRegister(a, ap)
             h  == GetTempRegister(r)
             to == LastAlloc(h, v)
  <2>1. g[1] = Set(h, to.preg, v) /\ g[2] = to
    BY <1>5 DEF MakeLegalAmode
  <2>2. Sound(r) /\ r.ptr = m /\ Keeps(a, r, m) /\ m \in Nat
    <3>1. CASE ap \in {Immed, Local, Direct}
      <4>1. r = a
        BY <3>1, Modes DEF ReleaseTempRegister, validate
      <4>2. QED BY <4>1, <3>1, <1>1, <1>2 DEF Keeps
    <3>2. CASE a.ptr # 0 /\ IsTemp(a, ap, a.ptr - 1)
      <4>1. m = a.ptr - 1 /\ m \in Nat
        BY <3>2, <1>1, <1>3
      <4>2. ap \in InRegister /\ ap.deep = a.ptr - 1 /\ ap.preg = a.alloc[a.ptr - 1].reg
        BY <3>2 DEF IsTemp
      <4>3. QED BY <4>1, <4>2, <3>2, Released
    <3>3. QED BY <3>1, <3>2
  <2> HIDE DEF r
  <2>3. /\ Sound(Set(h, to.preg, v)) /\ Keeps(r, Set(h, to.preg, v), r.ptr)
        /\ Set(h, to.preg, v).ptr = r.ptr + 1
        /\ IsTemp(Set(h, to.preg, v), to, r.ptr) /\ to.mode = "reg"
        /\ Set(h, to.preg, v).regs[to.preg] = to.val
    <3>1. r.ptr < MaxRegStack /\ Sound(r)
      BY <2>2
    <3>2. QED BY <3>1, LoadNew
  <2> HIDE DEF h, to
  <2>4. Keeps(a, g[1], m)
    BY <2>1, <2>2, <2>3, KeepsTwice
  <2>5. Taken(to) = 1 /\ "reg" \in f
    BY <2>3, Modes DEF IsTemp, REG, IMMED, ALL
  <2>6. QED BY <2>1, <2>2, <2>3, <2>4, <2>5
<1>6. QED BY <1>4, <1>5

-----------------------------------------------------------------------------
(***************************************************************************)
(* The nest of frames.                                                     *)
(***************************************************************************)
LEMMA FrameKinds ==
  /\ StmtFrame.node = "stmt" /\ Takes(StmtFrame) = 0 /\ StmtFrame \notin NodeFrame
  /\ \A f \in NodeFrame : /\ f.node \in {"unary", "binary", "deref"}
                          /\ f.want \in {REG, IMMED, ALL}
                          /\ f.left \in InRegister \cup {NoMode}
                          /\ f.extra \in InRegister \cup {NoMode}
                          /\ Takes(f) \in Nat
  /\ \A f \in NodeFrame \cup {StmtFrame} : Expects(f) \in {REG, IMMED, ALL} /\ Takes(f) \in Nat
<1>1. StmtFrame.node = "stmt" /\ Takes(StmtFrame) = 0 /\ Expects(StmtFrame) = ALL
  BY DEF StmtFrame, Takes, Expects
<1>2. ASSUME NEW f \in NodeFrame
      PROVE  /\ f.node \in {"unary", "binary", "deref"} /\ f.want \in {REG, IMMED, ALL}
             /\ f.left \in InRegister \cup {NoMode} /\ f.extra \in InRegister \cup {NoMode}
  BY DEF NodeFrame
<1>3. ASSUME NEW f \in NodeFrame
      PROVE  Takes(f) \in Nat /\ Expects(f) \in {REG, IMMED, ALL}
  <2>1. Taken(f.left) \in Nat
    BY DEF Taken
  <2>2. Takes(f) \in Nat
    BY <2>1, <1>2 DEF Takes
  <2>3. Expects(f) \in {REG, IMMED, ALL}
    BY <1>2 DEF Expects
  <2>4. QED BY <2>2, <2>3
<1>4. StmtFrame \notin NodeFrame
  BY <1>1, <1>2
<1>5. QED BY <1>1, <1>2, <1>3, <1>4

\* What a step leaves of the first m temporaries is enough for the frames that
\* own none but these.
LEMMA FitsKept ==
  ASSUME NEW a, NEW c, NEW m \in Nat, Keeps(a, c, m), NEW f \in NodeFrame \cup {StmtFrame},
         NEW b \in Nat, b + Takes(f) <= m, Fits(a, f, b)
  PROVE  Fits(c, f, b)
<1>1. f.node \in {"unary", "binary"} => IsTemp(c, f.extra, b) /\ f.extra.mode = "reg"
  <2> SUFFICES ASSUME f.node \in {"unary", "binary"} PROVE IsTemp(c, f.extra, b) /\ f.extra.mode = "reg"
    OBVIOUS
  <2>1. Takes(f) >= 1
    BY DEF Takes, Taken
  <2>2. Takes(f) \in Nat
    BY FrameKinds
  <2>3. b \in 0 .. m - 1
    BY <2>1, <2>2
  <2>4. c.alloc[b].reg = a.alloc[b].reg
    BY <2>3 DEF Keeps
  <2>5. QED BY <2>4 DEF Fits, IsTemp
<1>2. f.node \in {"unary", "deref"} => f.left = NoMode
  BY DEF Fits
<1>3. f.node = "binary" /\ f.left # NoMode =>
       /\ IsTemp(c, f.left, b + 1) /\ f.left.mode = "reg"
       /\ b + 1 >= Pushed(c) => c.regs[f.left.preg] = f.left.val
  <2> SUFFICES ASSUME f.node = "binary", f.left # NoMode
               PROVE  /\ IsTemp(c, f.left, b + 1) /\ f.left.mode = "reg"
                      /\ b + 1 >= Pushed(c) => c.regs[f.left.preg] = f.left.val
    OBVIOUS
  <2>1. IsTemp(a, f.left, b + 1) /\ f.left.mode = "reg"
        /\ (b + 1 >= Pushed(a) => a.regs[f.left.preg] = f.left.val)
    BY DEF Fits
  <2>2. Takes(f) = 2
    BY <2>1 DEF Takes, Taken
  <2>3. b + 1 \in 0 .. m - 1
    BY <2>2
  <2>4. c.alloc[b + 1].reg = a.alloc[b + 1].reg
    BY <2>3 DEF Keeps
  <2>5. ASSUME b + 1 >= Pushed(c) PROVE c.regs[f.left.preg] = f.left.val
    <3>1. b + 1 >= Pushed(a) /\ c.regs[a.alloc[b + 1].reg] = a.regs[a.alloc[b + 1].reg]
      BY <2>3, <2>5 DEF Keeps
    <3>2. f.left.preg = a.alloc[b + 1].reg
      BY <2>1 DEF IsTemp
    <3>3. QED BY <2>1, <3>1, <3>2
  <2>6. QED BY <2>1, <2>4, <2>5 DEF IsTemp
<1>4. QED BY <1>1, <1>2, <1>3 DEF Fits

LEMMA FramesBelow ==
  ASSUME NEW fr \in Frames, fr # <<>>, NEW base \in [1 .. Len(fr) -> Nat], Chain(fr, base)
  PROVE  /\ Len(fr) \in Nat \ {0} /\ 1 \in 1 .. Len(fr)
         /\ \A i \in 1 .. Len(fr) : fr[i] \in NodeFrame \cup {StmtFrame} /\ base[i] \in Nat
         /\ \A i \in 1 .. Len(fr) : base[i] + Takes(fr[i]) <= base[1] + Takes(fr[1])
         /\ fr[1].node = "stmt" <=> Len(fr) = 1
<1>1. Len(fr) \in Nat \ {0} /\ 1 \in 1 .. Len(fr) /\ fr[1] \in NodeFrame \cup {StmtFrame}
  BY DEF Frames
<1>2. \A i \in 1 .. Len(fr) : fr[i] \in NodeFrame \cup {StmtFrame} /\ base[i] \in Nat
  BY DEF Frames
<1>3. ASSUME NEW i \in 1 .. Len(fr), i # 1
      PROVE  base[i] + Takes(fr[i]) <= base[1] + Takes(fr[1])
  <2>1. 1 < i
    BY <1>3, <1>1
  <2>2. base[i] + Takes(fr[i]) <= base[1]
    BY <2>1, <1>1 DEF Chain
  <2>3. Takes(fr[1]) \in Nat /\ Takes(fr[i]) \in Nat /\ base[1] \in Nat /\ base[i] \in Nat
    BY <1>1, <1>2, FrameKinds
  <2>4. QED BY <2>2, <2>3
<1>4. \A i \in 1 .. Len(fr) : base[i] + Takes(fr[i]) <= base[1] + Takes(fr[1])
  <2>1. base[1] + Takes(fr[1]) \in Nat
    BY <1>1, <1>2, FrameKinds
  <2>2. QED BY <1>3, <2>1
<1>5. fr[1].node = "stmt" <=> Len(fr) = 1
  <2>1. CASE Len(fr) = 1
    BY <2>1, FrameKinds DEF Chain
  <2>2. CASE Len(fr) # 1
    <3>0. Len(fr) \in Nat \ {0}
      BY <1>1
    <3>1. 1 \in 1 .. Len(fr) - 1
      <4>1. PICK n \in Nat : n = Len(fr)
        BY <3>0
      <4>2. n # 0 /\ n # 1
        BY <4>1, <3>0, <2>2
      <4>3. QED BY <4>1, <4>2
    <3>2. fr[1] \in NodeFrame
      BY <3>1 DEF Chain
    <3>3. fr[1].node # "stmt"
      BY <3>2, FrameKinds
    <3>4. QED BY <2>2, <3>3
  <2>3. QED BY <2>1, <2>2
<1>6. QED BY <1>1, <1>2, <1>4, <1>5

LEMMA AllFitKept ==
  ASSUME NEW fr \in Frames, fr # <<>>, NEW base \in [1 .. Len(fr) -> Nat], Chain(fr, base),
         NEW a, NEW c, NEW m \in Nat, m = base[1] + Takes(fr[1]), Keeps(a, c, m),
         AllFit(a, fr, base)
  PROVE  AllFit(c, fr, base)
<1> SUFFICES ASSUME NEW i \in 1 .. Len(fr) PROVE Fits(c, fr[i], base[i])
  BY DEF AllFit
<1>1. fr[i] \in NodeFrame \cup {StmtFrame} /\ base[i] \in Nat /\ base[i] + Takes(fr[i]) <= m
  BY FramesBelow
<1>2. Fits(a, fr[i], base[i])
  BY DEF AllFit
<1>3. QED BY <1>1, <1>2, FitsKept

Onto(f, fr) == <<f>> \o fr

\* A node is entered with m temporaries in use.
LEMMA Entered ==
  ASSUME NEW fr \in Frames, fr # <<>>, NEW base \in [1 .. Len(fr) -> Nat], Chain(fr, base),
         NEW a, NEW c, NEW m \in Nat, m = base[1] + Takes(fr[1]), Keeps(a, c, m),
         AllFit(a, fr, base),
         NEW f \in NodeFrame, f.want = Expects(fr[1]), Fits(c, f, m), NEW g, g = Onto(f, fr)
  PROVE  /\ g \in Frames /\ g # <<>> /\ g[1] = f
         /\ \E b \in [1 .. Len(g) -> Nat] : b[1] = m /\ Chain(g, b) /\ AllFit(c, g, b)
<1> DEFINE b == [i \in 1 .. Len(fr) + 1 |-> IF i = 1 THEN m ELSE base[i - 1]]
<1>1. /\ g \in Frames /\ Len(g) = Len(fr) + 1 /\ g[1] = f /\ Len(fr) \in Nat \ {0}
      /\ \A i \in 1 .. Len(fr) : g[i + 1] = fr[i]
  <2>1. fr \in Seq(NodeFrame \cup {StmtFrame}) /\ f \in NodeFrame \cup {StmtFrame}
    BY DEF Frames
  <2>2. QED BY <2>1, InFront, FramesBelow DEF Frames, Onto
<1>2. \A i \in 2 .. Len(fr) + 1 : i - 1 \in 1 .. Len(fr) /\ (i - 1) + 1 = i
  BY <1>1
<1>3. \A i \in 2 .. Len(fr) + 1 : g[i] = fr[i - 1]
  BY <1>1, <1>2
<1>4. b \in [1 .. Len(g) -> Nat] /\ b[1] = m /\ \A i \in 2 .. Len(fr) + 1 : b[i] = base[i - 1]
  BY <1>1, <1>2
<1> HIDE DEF b
<1>5. g[Len(g)] = StmtFrame /\ b[Len(g)] = 0
  <2>1. Len(g) \in 2 .. Len(fr) + 1 /\ Len(g) - 1 = Len(fr)
    BY <1>1
  <2>2. QED BY <2>1, <1>3, <1>4 DEF Chain
<1>6. ASSUME NEW i \in 1 .. Len(g) - 1
      PROVE  g[i] \in NodeFrame /\ g[i].want = Expects(g[i + 1])
             /\ b[i] = b[i + 1] + Takes(g[i + 1])
  <2>1. CASE i = 1
    <3>1. 2 \in 2 .. Len(fr) + 1 /\ 2 - 1 = 1
      BY <1>1
    <3>2. g[2] = fr[1] /\ b[2] = base[1]
      BY <3>1, <1>3, <1>4
    <3>3. QED BY <2>1, <3>2, <1>1, <1>4
  <2>2. CASE i # 1
    <3>1. /\ i \in 2 .. Len(fr) + 1 /\ i + 1 \in 2 .. Len(fr) + 1 /\ (i + 1) - 1 = (i - 1) + 1
          /\ i - 1 \in 1 .. Len(fr) - 1
      BY <2>2, <1>1
    <3>2. g[i] = fr[i - 1] /\ g[i + 1] = fr[(i - 1) + 1] /\ b[i] = base[i - 1]
          /\ b[i + 1] = base[(i - 1) + 1]
      BY <3>1, <1>3, <1>4
    <3>3. fr[i - 1] \in NodeFrame /\ fr[i - 1].want = Expects(fr[(i - 1) + 1])
          /\ base[i - 1] = base[(i - 1) + 1] + Takes(fr[(i - 1) + 1])
      BY <3>1 DEF Chain
    <3>4. QED BY <3>2, <3>3
  <2>3. QED BY <2>1, <2>2
<1>7. ASSUME NEW i \in 1 .. Len(g), NEW j \in 1 .. Len(g), i < j
      PROVE  b[j] + Takes(g[j]) <= b[i]
  <2>1. j \in 2 .. Len(fr) + 1 /\ j - 1 \in 1 .. Len(fr)
    BY <1>1, <1>7
  <2>2. b[j] = base[j - 1] /\ g[j] = fr[j - 1]
    BY <2>1, <1>3, <1>4
  <2>3. CASE i = 1
    BY <2>1, <2>2, <2>3, <1>4, FramesBelow
  <2>4. CASE i # 1
    <3>1. i \in 2 .. Len(fr) + 1 /\ i - 1 \in 1 .. Len(fr) /\ i - 1 < j - 1
      BY <2>1, <2>4, <1>1, <1>7
    <3>2. b[i] = base[i - 1]
      BY <3>1, <1>4
    <3>3. base[j - 1] + Takes(fr[j - 1]) <= base[i - 1]
      BY <3>1, <2>1 DEF Chain
    <3>4. QED BY <2>2, <3>2, <3>3
  <2>5. QED BY <2>3, <2>4
<1>8. Chain(g, b)
  BY <1>5, <1>6, <1>7 DEF Chain
<1>9. AllFit(c, g, b)
  <2>1. AllFit(c, fr, base)
    BY AllFitKept
  <2>2. ASSUME NEW i \in 1 .. Len(g) PROVE Fits(c, g[i], b[i])
    <3>1. CASE i = 1
      BY <3>1, <1>1, <1>4
    <3>2. CASE i # 1
      <4>1. i \in 2 .. Len(fr) + 1 /\ i - 1 \in 1 .. Len(fr)
        BY <3>2, <1>1
      <4>2. QED BY <4>1, <2>1, <1>3, <1>4 DEF AllFit
    <3>3. QED BY <3>1, <3>2
  <2>3. QED BY <2>2 DEF AllFit
<1>10. g # <<>>
  BY <1>1
<1>11. QED BY <1>1, <1>4, <1>8, <1>9, <1>10

\* A node is left: its own temporaries may change, those of the others are kept.
LEMMA Left ==
  ASSUME NEW fr \in Frames, fr # <<>>, NEW base \in [1 .. Len(fr) -> Nat], Chain(fr, base),
         fr[1].node # "stmt", NEW a, NEW c, Keeps(a, c, base[1]), AllFit(a, fr, base)
  PROVE  /\ Tail(fr) \in Frames /\ Tail(fr) # <<>> /\ fr[1] \in NodeFrame
         /\ fr[1].want = Expects(Tail(fr)[1])
         /\ \E b \in [1 .. Len(Tail(fr)) -> Nat] :
              /\ b[1] + Takes(Tail(fr)[1]) = base[1]
              /\ Chain(Tail(fr), b) /\ AllFit(c, Tail(fr), b)
<1> DEFINE g == Tail(fr)
           b == [i \in 1 .. Len(fr) - 1 |-> base[i + 1]]
<1>0. Len(fr) \in Nat \ {0} /\ Len(fr) # 1 /\ 1 \in 1 .. Len(fr)
  BY FramesBelow
<1>1. Len(fr) \in Nat /\ Len(fr) > 1 /\ base[1] \in Nat
  <2>1. PICK n \in Nat : n = Len(fr)
    BY <1>0
  <2>2. n # 0 /\ n # 1
    BY <2>1, <1>0
  <2>3. QED BY <2>1, <2>2, <1>0
<1>2. g \in Frames /\ Len(g) = Len(fr) - 1 /\ \A i \in 1 .. Len(fr) - 1 : g[i] = fr[i + 1]
  BY HeadTailProperties DEF Frames
<1> HIDE DEF g
<1>3. b \in [1 .. Len(g) -> Nat] /\ \A i \in 1 .. Len(fr) - 1 : b[i] = base[i + 1]
  <2>1. \A i \in 1 .. Len(fr) - 1 : i + 1 \in 1 .. Len(fr)
    BY <1>1
  <2>2. QED BY <2>1, <1>2
<1> HIDE DEF b
<1>4. 1 \in 1 .. Len(fr) - 1
  BY <1>1
<1>5. fr[1] \in NodeFrame /\ fr[1].want = Expects(g[1]) /\ b[1] + Takes(g[1]) = base[1]
  <2>1. fr[1] \in NodeFrame /\ fr[1].want = Expects(fr[1 + 1]) /\ base[1] = base[1 + 1] + Takes(fr[1 + 1])
    BY <1>4 DEF Chain
  <2>2. QED BY <2>1, <1>2, <1>3, <1>4
<1>6. g[Len(g)] = StmtFrame /\ b[Len(g)] = 0
  <2>1. Len(g) \in 1 .. Len(fr) - 1 /\ Len(g) + 1 = Len(fr)
    BY <1>1, <1>2
  <2>2. QED BY <2>1, <1>2, <1>3 DEF Chain
<1>7. ASSUME NEW i \in 1 .. Len(g) - 1
      PROVE  g[i] \in NodeFrame /\ g[i].want = Expects(g[i + 1])
             /\ b[i] = b[i + 1] + Takes(g[i + 1])
  <2>1. i \in 1 .. Len(fr) - 1 /\ i + 1 \in 1 .. Len(fr) - 1
    BY <1>1, <1>2
  <2>2. g[i] = fr[i + 1] /\ g[i + 1] = fr[(i + 1) + 1] /\ b[i] = base[i + 1]
        /\ b[i + 1] = base[(i + 1) + 1]
    BY <2>1, <1>2, <1>3
  <2>3. fr[i + 1] \in NodeFrame /\ fr[i + 1].want = Expects(fr[(i + 1) + 1])
        /\ base[i + 1] = base[(i + 1) + 1] + Takes(fr[(i + 1) + 1])
    BY <2>1 DEF Chain
  <2>4. QED BY <2>2, <2>3
<1>8. ASSUME NEW i \in 1 .. Len(g), NEW j \in 1 .. Len(g), i < j
      PROVE  b[j] + Takes(g[j]) <= b[i]
  <2>1. i \in 1 .. Len(fr) - 1 /\ j \in 1 .. Len(fr) - 1 /\ i + 1 \in 1 .. Len(fr)
        /\ j + 1 \in 1 .. Len(fr) /\ i + 1 < j + 1
    BY <1>1, <1>2, <1>8
  <2>2. base[j + 1] + Takes(fr[j + 1]) <= base[i + 1]
    BY <2>1 DEF Chain
  <2>3. QED BY <2>1, <2>2, <1>2, <1>3
<1>9. Chain(g, b)
  BY <1>6, <1>7, <1>8 DEF Chain
<1>10. ASSUME NEW i \in 1 .. Len(g) PROVE Fits(c, g[i], b[i])
  <2>1. i \in 1 .. Len(fr) - 1 /\ i + 1 \in 1 .. Len(fr) /\ 1 < i + 1
    BY <1>1, <1>2
  <2>2. base[i + 1] + Takes(fr[i + 1]) <= base[1] /\ fr[i + 1] \in NodeFrame \cup {StmtFrame}
        /\ base[i + 1] \in Nat
    BY <2>1, FramesBelow DEF Chain
  <2>3. Fits(a, fr[i + 1], base[i + 1])
    BY <2>1 DEF AllFit
  <2>4. Fits(c, fr[i + 1], base[i + 1])
    BY <2>2, <2>3, <1>1, FitsKept
  <2>5. QED BY <2>1, <2>4, <1>2, <1>3
<1>11. AllFit(c, g, b)
  BY <1>10 DEF AllFit
<1>12. g # <<>>
  BY <1>1, <1>2
<1>13. QED BY <1>2, <1>3, <1>5, <1>9, <1>11, <1>12 DEF g

-----------------------------------------------------------------------------
(***************************************************************************)
(* Every step keeps the invariant.                                         *)
(***************************************************************************)
LEMMA Numbers ==
  ASSUME IInv
  PROVE  /\ nodes \in Nat /\ MaxNodes \in Nat /\ MaxRegStack \in Nat /\ al.ptr \in Nat
         /\ al.ptr <= nodes /\ nodes <= MaxNodes /\ Value \in Nat /\ Loaded \in Nat
         /\ program.size \in Nat /\ program.size <= MaxNodes /\ program \in Programs
<1>1. program \in Programs /\ nodes \in 0 .. MaxNodes /\ al.ptr <= nodes /\ Sound(al)
  BY DEF IInv, Counted
<1>2. MaxNodes \in Nat /\ MaxRegStack \in Nat /\ Programs \subseteq [kinds : SUBSET Kind, size : 0 .. MaxNodes]
  BY BoundsAssumption, TempAssumption
<1>3. program.size \in 0 .. MaxNodes
  BY <1>1, <1>2
<1>4. al.ptr \in Nat
  BY <1>1, Fields, Registers DEF Sound
<1>5. QED BY <1>1, <1>2, <1>3, <1>4 DEF Value, Loaded

LEMMA Results ==
  ASSUME IInv, frames # <<>>
  PROVE  /\ result = NoMode => flags = Expects(Top)
         /\ result # NoMode => result.mode \in Expects(Top)
         /\ \/ result = NoMode
            \/ result \in {Immed, Local, Direct}
            \/ al.ptr > 0 /\ IsTemp(al, result, al.ptr - 1) /\ al.regs[result.preg] = result.val
BY Modes DEF IInv, ResultOK, IsTemp

\* The frames of IInv, with what their numbers say.
LEMMA Frames1 ==
  ASSUME IInv, frames # <<>>, NEW base \in [1 .. Len(frames) -> Nat], Nest(base)
  PROVE  /\ frames \in Frames /\ Chain(frames, base) /\ AllFit(al, frames, base)
         /\ al.ptr = base[1] + Takes(Top) + Taken(result)
         /\ base[1] \in Nat /\ Takes(Top) \in Nat /\ Taken(result) \in {0, 1}
         /\ Top \in NodeFrame \cup {StmtFrame} /\ Fits(al, Top, base[1])
         /\ Expects(Top) \in {REG, IMMED, ALL}
         /\ Top.node # "stmt" => Top \in NodeFrame
         /\ Top.node = "stmt" => Len(frames) = 1 /\ base[1] = 0
<1>1. frames \in Frames /\ Chain(frames, base) /\ AllFit(al, frames, base)
      /\ al.ptr = base[1] + Takes(Top) + Taken(result)
  BY DEF IInv, Nest
<1>2. /\ 1 \in 1 .. Len(frames) /\ base[1] \in Nat /\ Top \in NodeFrame \cup {StmtFrame}
      /\ Top.node = "stmt" <=> Len(frames) = 1
  BY <1>1, FramesBelow DEF Top
<1>3. Takes(Top) \in Nat /\ Taken(result) \in {0, 1} /\ Expects(Top) \in {REG, IMMED, ALL}
  BY <1>2, FrameKinds DEF Taken
<1>4. Fits(al, Top, base[1])
  BY <1>1, <1>2 DEF AllFit, Top
<1>5. Top.node # "stmt" => Top \in NodeFrame
  BY <1>2, FrameKinds
<1>6. Top.node = "stmt" => Len(frames) = 1 /\ base[1] = 0
  BY <1>1, <1>2 DEF Chain
<1>7. QED BY <1>1, <1>2, <1>3, <1>4, <1>5, <1>6

LEMMA LeafKeeps ==
  ASSUME IInv, EnoughNumbers, NEW ap \in {Immed, Local, Direct}, NEW f \in Narrow(flags), Leaf(ap, f)
  PROVE  IInv'
<1>1. frames # <<>> /\ result = NoMode /\ nodes < program.size
  BY DEF Leaf, Generating
<1>2. PICK base \in [1 .. Len(frames) -> Nat] : Nest(base)
  BY <1>1 DEF IInv
<1>3. /\ frames \in Frames /\ Chain(frames, base) /\ AllFit(al, frames, base)
      /\ al.ptr = base[1] + Takes(Top) + Taken(result) /\ base[1] \in Nat /\ Takes(Top) \in Nat
      /\ Expects(Top) \in {REG, IMMED, ALL}
  BY <1>1, <1>2, Frames1
<1>4. flags = Expects(Top)
  BY <1>1, Results
<1>5. Taken(result) = 0 /\ Taken(ap) = 0 /\ ap # NoMode
  BY <1>1, Modes
<1>f. f \in {REG, IMMED, ALL} /\ f \subseteq flags
  BY <1>3, <1>4, Narrowed
<1> DEFINE g == MakeLegalAmode(al, ap, f, Value)
<1>6. /\ al' = g[1] /\ result' = g[2] /\ frames' = frames /\ flags' = flags
      /\ nodes' = nodes + 1 /\ program' = program /\ passed' = passed
  BY DEF Leaf, Count
<1>7. /\ nodes \in Nat /\ MaxNodes \in Nat /\ MaxRegStack \in Nat /\ al.ptr \in Nat
      /\ al.ptr <= nodes /\ Value \in Nat /\ program.size \in Nat /\ program.size <= MaxNodes
      /\ program \in Programs
  BY Numbers
<1> HIDE DEF g
<1>8. /\ Sound(g[1]) /\ Keeps(al, g[1], al.ptr) /\ g[1].ptr = al.ptr + Taken(g[2])
      /\ g[2].mode \in flags
      /\ \/ g[2] \in {Immed, Local, Direct} /\ g[2] = ap
         \/ IsTemp(g[1], g[2], al.ptr) /\ g[1].regs[g[2].preg] = g[2].val
  <2>1. al.ptr = al.ptr - Taken(ap) /\ al.ptr < MaxRegStack
    BY <1>1, <1>5, <1>7 DEF EnoughNumbers
  <2>2. Sound(al)
    BY DEF IInv
  <2>3. g = MakeLegalAmode(al, ap, f, Value)
    BY DEF g
  <2>4. /\ Sound(g[1]) /\ Keeps(al, g[1], al.ptr) /\ g[1].ptr = al.ptr + Taken(g[2])
        /\ g[2].mode \in f
        /\ \/ g[2] \in {Immed, Local, Direct} /\ g[2] = ap
           \/ IsTemp(g[1], g[2], al.ptr) /\ g[1].regs[g[2].preg] = g[2].val
    BY <2>1, <2>2, <2>3, <1>7, <1>f, Legal
  <2>5. QED BY <2>4, <1>f
<1>9. Taken(g[2]) \in {0, 1} /\ (g[2].mode = "immed" => Taken(g[2]) = 0)
  BY DEF Taken
<1>10. Counted'
  <2>1. passed = {}
    BY DEF IInv, Counted
  <2>2. QED BY <2>1, <1>1, <1>6, <1>7, <1>8, <1>9 DEF Counted
<1>11. ResultOK'
  <2>1. CASE g[2] \in {Immed, Local, Direct}
    BY <2>1, <1>4, <1>6, <1>8 DEF ResultOK, Top
  <2>2. CASE IsTemp(g[1], g[2], al.ptr) /\ g[1].regs[g[2].preg] = g[2].val
    <3>1. Taken(g[2]) = 1
      BY <2>2, Modes DEF IsTemp
    <3>2. g[1].ptr - 1 = al.ptr /\ g[1].ptr > 0
      BY <3>1, <1>7, <1>8
    <3>3. QED BY <2>2, <3>2, <1>4, <1>6, <1>8 DEF ResultOK, Top
  <2>3. QED BY <2>1, <2>2, <1>8
<1>12. Nest(base)'
  <2>1. al.ptr = base[1] + Takes(frames[1])
    BY <1>3, <1>5 DEF Top
  <2>2. AllFit(g[1], frames, base)
    BY <2>1, <1>1, <1>3, <1>7, <1>8, AllFitKept
  <2>3. g[1].ptr = base[1] + Takes(frames[1]) + Taken(g[2])
    BY <2>1, <1>8
  <2>4. QED BY <2>2, <2>3, <1>3, <1>6 DEF Nest, Top
<1>13. QED BY <1>1, <1>2, <1>3, <1>6, <1>8, <1>10, <1>11, <1>12 DEF IInv

\* A node that is entered with the frame f and the allocator c.
LEMMA EnterKeeps ==
  ASSUME IInv, Nested, NEW c, Sound(c), Keeps(al, c, al.ptr), NEW f \in NodeFrame,
         f.want = flags, f.left = NoMode, Fits(c, f, al.ptr), c.ptr = al.ptr + Takes(f),
         Takes(f) \in {0, 1}, NEW fl, fl = Expects(f),
         al' = c, frames' = <<f>> \o frames, flags' = fl, Count, UNCHANGED result
  PROVE  IInv'
<1>1. frames # <<>> /\ result = NoMode /\ nodes < program.size
  BY DEF Nested, Generating
<1>2. PICK base \in [1 .. Len(frames) -> Nat] : Nest(base)
  BY <1>1 DEF IInv
<1>3. /\ frames \in Frames /\ Chain(frames, base) /\ AllFit(al, frames, base)
      /\ al.ptr = base[1] + Takes(Top) + Taken(result)
  BY <1>1, <1>2, Frames1
<1>4. flags = Expects(frames[1]) /\ Taken(result) = 0
  BY <1>1, Results, Modes DEF Top
<1>5. /\ nodes \in Nat /\ MaxNodes \in Nat /\ al.ptr \in Nat /\ base[1] \in Nat /\ Takes(Top) \in Nat
      /\ al.ptr <= nodes /\ program.size \in Nat /\ program.size <= MaxNodes
      /\ program \in Programs
  BY <1>1, <1>2, Numbers, Frames1
<1>6. al.ptr = base[1] + Takes(frames[1])
  BY <1>3, <1>4, <1>5 DEF Top
<1>7. /\ frames' \in Frames /\ frames' # <<>> /\ frames'[1] = f
      /\ \E b \in [1 .. Len(frames') -> Nat] :
           b[1] = al.ptr /\ Chain(frames', b) /\ AllFit(c, frames', b)
  <2> DEFINE g == frames'
             m == al.ptr
             a == al
             fr == frames
  <2>1. /\ fr \in Frames /\ fr # <<>> /\ Chain(fr, base) /\ AllFit(a, fr, base)
        /\ m \in Nat /\ m = base[1] + Takes(fr[1]) /\ Keeps(a, c, m)
        /\ f \in NodeFrame /\ f.want = Expects(fr[1]) /\ Fits(c, f, m) /\ g = Onto(f, fr)
        /\ base \in [1 .. Len(fr) -> Nat]
    BY <1>1, <1>2, <1>3, <1>4, <1>5, <1>6 DEF Onto
  <2> HIDE DEF g, m, a, fr
  <2>2. /\ g \in Frames /\ g # <<>> /\ g[1] = f
        /\ \E b \in [1 .. Len(g) -> Nat] : b[1] = m /\ Chain(g, b) /\ AllFit(c, g, b)
    BY <2>1, Entered
  <2>3. QED BY <2>2 DEF g, m, a, fr
<1>8. PICK b \in [1 .. Len(frames') -> Nat] :
        b[1] = al.ptr /\ Chain(frames', b) /\ AllFit(c, frames', b)
  BY <1>7
<1>9. Nest(b)'
  <2>1. Top' = f /\ Taken(result)' = 0
    BY <1>4, <1>7 DEF Top
  <2>2. al'.ptr = b[1] + Takes(f) + 0
    BY <1>5, <1>8
  <2>3. QED BY <2>1, <2>2, <1>8 DEF Nest
<1>10. ResultOK'
  BY <1>1, <1>7 DEF ResultOK, Top
<1>11. Counted'
  <2>1. result'.mode # "immed"
    BY <1>1, Modes
  <2>2. nodes' \in 0 .. MaxNodes /\ al'.ptr <= nodes' /\ program' \in Programs
    BY <1>1, <1>5 DEF Count
  <2>3. passed' = {}
    BY DEF IInv, Counted, Count
  <2>4. QED BY <2>1, <2>2, <2>3 DEF Counted
<1>12. QED BY <1>7, <1>8, <1>9, <1>10, <1>11 DEF IInv

LEMMA FrameTypes ==
  ASSUME NEW node \in {"unary", "binary", "deref"}, NEW w \in {REG, IMMED, ALL},
         NEW e \in InRegister \cup {NoMode}, NEW f,
         f = [node |-> node, want |-> w, left |-> NoMode, extra |-> e]
  PROVE  /\ f \in NodeFrame /\ f.node = node /\ f.want = w /\ f.left = NoMode /\ f.extra = e
         /\ Takes(f) = IF node = "deref" THEN 0 ELSE 1
         /\ Expects(f) = IF node = "deref" THEN IMMED ELSE REG
<1>1. f \in NodeFrame /\ f.node = node /\ f.want = w /\ f.left = NoMode /\ f.extra = e
  BY DEF NodeFrame
<1>2. Taken(f.left) = 0
  BY <1>1, Modes
<1>3. QED BY <1>1, <1>2 DEF Takes, Expects

LEMMA EnterWithDestKeeps ==
  ASSUME IInv, EnoughNumbers, NEW node \in {"unary", "binary"}, EnterWithDest(node)
  PROVE  IInv'
<1> DEFINE g == GetTempRegister(al)
           d == LastAlloc(g, Value)
           f == [node |-> node, want |-> flags, left |-> NoMode, extra |-> d]
<1>1. /\ Nested /\ Count /\ UNCHANGED result /\ frames' = <<f>> \o frames
      /\ al' = g /\ flags' = REG
  BY DEF EnterWithDest, Enter
<1>2. frames # <<>> /\ result = NoMode /\ nodes < program.size
  BY <1>1 DEF Nested, Generating
<1>3. /\ nodes \in Nat /\ MaxNodes \in Nat /\ MaxRegStack \in Nat /\ al.ptr \in Nat
      /\ al.ptr <= nodes /\ Value \in Nat /\ program.size \in Nat /\ program.size <= MaxNodes
  BY Numbers
<1>4. Sound(al) /\ al.ptr < MaxRegStack
  BY <1>2, <1>3 DEF IInv, EnoughNumbers
<1>5. flags \in {REG, IMMED, ALL}
  <2>1. PICK base \in [1 .. Len(frames) -> Nat] : Nest(base)
    BY <1>2 DEF IInv
  <2>2. QED BY <2>1, <1>2, Results, Frames1
<1>6. /\ Sound(g) /\ g.ptr = al.ptr + 1 /\ g.alloc[al.ptr].reg = al.next
      /\ Keeps(al, g, al.ptr) /\ d = Reg(al.next, al.ptr, Value)
  BY <1>4, Got
<1>7. d \in InRegister /\ d.preg = al.next /\ d.deep = al.ptr /\ d.mode = "reg"
  <2>1. al.next \in Temp /\ al.ptr \in Number
    BY <1>4, Fields DEF Sound
  <2>2. QED BY <2>1, <1>3, <1>6, RegIsTemp
<1> HIDE DEF g, d, f
<1>8. f = [node |-> node, want |-> flags, left |-> NoMode, extra |-> d]
  BY DEF f
<1>9. /\ f \in NodeFrame /\ f.node = node /\ f.want = flags /\ f.left = NoMode /\ f.extra = d
      /\ Takes(f) = 1 /\ Expects(f) = REG
  <2>1. node \in {"unary", "binary", "deref"} /\ node # "deref" /\ d \in InRegister \cup {NoMode}
    BY <1>7
  <2>2. QED BY <2>1, <1>5, <1>8, FrameTypes
<1>10. Fits(g, f, al.ptr)
  BY <1>6, <1>7, <1>9 DEF Fits, IsTemp
<1>11. QED BY <1>1, <1>6, <1>9, <1>10, EnterKeeps

LEMMA EnterAddressKeeps ==
  ASSUME IInv, EnterAddress("deref")
  PROVE  IInv'
<1> DEFINE f == [node |-> "deref", want |-> flags, left |-> NoMode, extra |-> NoMode]
<1>1. /\ Nested /\ Count /\ UNCHANGED result /\ frames' = <<f>> \o frames
      /\ al' = al /\ flags' = IMMED
  BY DEF EnterAddress, Enter
<1>2. frames # <<>> /\ result = NoMode
  BY <1>1 DEF Nested, Generating
<1>3. flags \in {REG, IMMED, ALL}
  <2>1. PICK base \in [1 .. Len(frames) -> Nat] : Nest(base)
    BY <1>2 DEF IInv
  <2>2. QED BY <2>1, <1>2, Results, Frames1
<1> HIDE DEF f
<1>4. /\ f \in NodeFrame /\ f.node = "deref" /\ f.want = flags /\ f.left = NoMode
      /\ Takes(f) = 0 /\ Expects(f) = IMMED
  <2>1. f = [node |-> "deref", want |-> flags, left |-> NoMode, extra |-> NoMode]
    BY DEF f
  <2>2. QED BY <2>1, <1>3, FrameTypes
<1>5. Fits(al, f, al.ptr)
  BY <1>4 DEF Fits
<1>6. Sound(al) /\ Keeps(al, al, al.ptr) /\ al.ptr = al.ptr + Takes(f)
  BY <1>4, Numbers DEF IInv, Keeps
<1>7. QED BY <1>1, <1>4, <1>5, <1>6, EnterKeeps

\* A node is left with the operand ap and the allocator c.
LEMMA LeaveKeeps ==
  ASSUME IInv, frames # <<>>, Top.node # "stmt",
         NEW base \in [1 .. Len(frames) -> Nat], Nest(base),
         NEW c, Sound(c), Keeps(al, c, base[1]), NEW ap, c.ptr = base[1] + Taken(ap),
         ap.mode \in Top.want,
         \/ ap \in {Immed, Local, Direct}
         \/ IsTemp(c, ap, base[1]) /\ c.regs[ap.preg] = ap.val,
         c.ptr <= nodes, ap.mode = "immed" => c.ptr < nodes,
         NEW g, g[1] = c, g[2] = ap, Leave(g)
  PROVE  IInv'
<1>1. /\ al' = c /\ result' = ap /\ frames' = Tail(frames)
      /\ flags' = flags /\ nodes' = nodes /\ program' = program /\ passed' = passed
  BY DEF Leave, Return
<1>2. /\ frames \in Frames /\ Chain(frames, base) /\ AllFit(al, frames, base) /\ base[1] \in Nat
  BY Frames1
<1>3. /\ Tail(frames) \in Frames /\ Tail(frames) # <<>> /\ Top.want = Expects(Tail(frames)[1])
      /\ \E b \in [1 .. Len(Tail(frames)) -> Nat] :
           /\ b[1] + Takes(Tail(frames)[1]) = base[1]
           /\ Chain(Tail(frames), b) /\ AllFit(c, Tail(frames), b)
  <2> DEFINE fr == frames
             a == al
  <2>1. /\ fr \in Frames /\ fr # <<>> /\ base \in [1 .. Len(fr) -> Nat] /\ Chain(fr, base)
        /\ fr[1].node # "stmt" /\ Keeps(a, c, base[1]) /\ AllFit(a, fr, base)
    BY <1>2 DEF Top
  <2> HIDE DEF fr, a
  <2>2. /\ Tail(fr) \in Frames /\ Tail(fr) # <<>> /\ fr[1].want = Expects(Tail(fr)[1])
        /\ \E b \in [1 .. Len(Tail(fr)) -> Nat] :
             /\ b[1] + Takes(Tail(fr)[1]) = base[1]
             /\ Chain(Tail(fr), b) /\ AllFit(c, Tail(fr), b)
    BY <2>1, Left
  <2>3. QED BY <2>2 DEF fr, a, Top
<1>4. PICK b \in [1 .. Len(frames') -> Nat] :
        /\ b[1] + Takes(frames'[1]) = base[1]
        /\ Chain(frames', b) /\ AllFit(c, frames', b)
  BY <1>1, <1>3
<1>5. Nest(b)'
  <2>1. Top' = frames'[1] /\ Taken(result)' = Taken(ap)
    BY <1>1 DEF Top
  <2>2. al'.ptr = b[1] + Takes(frames'[1]) + Taken(ap)
    BY <1>1, <1>4
  <2>3. QED BY <2>1, <2>2, <1>1, <1>4 DEF Nest
<1>6. ResultOK'
  <2>1. result'.mode \in Expects(Top)'
    BY <1>1, <1>3 DEF Top
  <2>2. CASE ap \in {Immed, Local, Direct}
    BY <2>1, <2>2, <1>1 DEF ResultOK
  <2>3. CASE IsTemp(c, ap, base[1]) /\ c.regs[ap.preg] = ap.val
    <3>1. Taken(ap) = 1
      BY <2>3, Modes DEF IsTemp
    <3>2. c.ptr > 0 /\ c.ptr - 1 = base[1]
      BY <3>1, <1>2
    <3>3. QED BY <2>1, <2>3, <3>2, <1>1 DEF ResultOK
  <2>4. QED BY <2>2, <2>3
<1>7. Counted'
  BY <1>1 DEF IInv, Counted
<1>8. frames' \in Frames /\ frames' # <<>>
  BY <1>1, <1>3
<1>9. QED BY <1>1, <1>4, <1>5, <1>6, <1>7, <1>8 DEF IInv

\* An operand that returned, seen from the node that asked for it.
LEMMA Operand ==
  ASSUME IInv, frames # <<>>, result # NoMode,
         NEW base \in [1 .. Len(frames) -> Nat], Nest(base)
  PROVE  /\ result.mode \in Expects(Top)
         /\ Expects(Top) = REG => result.mode = "reg"
         /\ Expects(Top) = IMMED => result.mode = "reg" \/ result = Immed
         /\ result.mode \in {"reg", "ind"} =>
              /\ IsTemp(al, result, base[1] + Takes(Top)) /\ al.regs[result.preg] = result.val
              /\ al.ptr = base[1] + Takes(Top) + 1
         /\ result.mode \notin {"reg", "ind"} =>
              result \in {Immed, Local, Direct} /\ al.ptr = base[1] + Takes(Top)
<1>1. /\ al.ptr = base[1] + Takes(Top) + Taken(result) /\ base[1] \in Nat /\ Takes(Top) \in Nat
  BY Frames1
<1>2. result.mode \in Expects(Top)
  BY Results
<1>3. CASE result \in {Immed, Local, Direct}
  <2>1. result.mode \notin {"reg", "ind"} /\ Taken(result) = 0
    BY <1>3, Modes
  <2>2. Expects(Top) # REG
    BY <2>1, <1>2 DEF REG
  <2>3. Expects(Top) = IMMED => result = Immed
    BY <1>2, <1>3, Modes DEF IMMED
  <2>4. QED BY <1>1, <1>2, <1>3, <2>1, <2>2, <2>3
<1>4. CASE IsTemp(al, result, al.ptr - 1) /\ al.regs[result.preg] = result.val
  <2>1. result.mode \in {"reg", "ind"} /\ Taken(result) = 1
    BY <1>4, Modes DEF IsTemp
  <2>2. al.ptr - 1 = base[1] + Takes(Top) /\ al.ptr = base[1] + Takes(Top) + 1
    BY <1>1, <2>1
  <2>3. (Expects(Top) = REG => result.mode = "reg") /\ (Expects(Top) = IMMED => result.mode = "reg")
    BY <1>2, <2>1 DEF REG, IMMED
  <2>4. QED BY <1>2, <1>4, <2>1, <2>2, <2>3
<1>5. QED BY <1>3, <1>4, Results

LEMMA UnaryKeeps ==
  ASSUME IInv, ThreeRegisters, Unary
  PROVE  IInv'
<1> DEFINE d == Top.extra
           e == Set(al, d.preg, d.val)
           c == ReleaseTempRegister(e, result)
<1>1. frames # <<>> /\ result # NoMode /\ Top.node = "unary"
  BY DEF Unary, Returned
<1>2. PICK base \in [1 .. Len(frames) -> Nat] : Nest(base)
  BY <1>1 DEF IInv
<1>3. /\ base[1] \in Nat /\ Top \in NodeFrame /\ Fits(al, Top, base[1])
  BY <1>1, <1>2, Frames1
<1>4. IsTemp(al, d, base[1]) /\ d.mode = "reg" /\ d \in InRegister /\ d.preg \in Temp /\ d.val \in Nat
  BY <1>1, <1>3 DEF Fits, IsTemp, InRegister
<1>5. Takes(Top) = 1 /\ Expects(Top) = REG
  BY <1>1 DEF Takes, Expects
<1>6. /\ IsTemp(al, result, base[1] + 1) /\ al.ptr = base[1] + 2
  <2>1. result.mode = "reg" /\ (result.mode \in {"reg", "ind"} =>
              /\ IsTemp(al, result, base[1] + Takes(Top))
              /\ al.ptr = base[1] + Takes(Top) + 1)
    BY <1>1, <1>2, <1>5, Operand
  <2>2. base[1] + 1 + 1 = base[1] + 2
    BY <1>3
  <2>3. QED BY <2>1, <2>2, <1>5
<1>7. Sound(al)
  BY DEF IInv
<1>8. d.preg # result.preg
  <2>1. al.alloc[base[1] + 1].reg # al.alloc[base[1]].reg
    BY <1>3, <1>6, <1>7, Neighbours
  <2>2. QED BY <2>1, <1>4, <1>6 DEF IsTemp
<1>9. /\ Sound(e) /\ e.ptr = al.ptr /\ e.alloc = al.alloc /\ e.regs[d.preg] = d.val
  <2> HIDE DEF d
  <2>1. d.preg \in Temp /\ d.val \in Nat
    BY <1>4
  <2>2. QED BY <2>1, <1>7, SetFields
<1>10. Keeps(al, e, base[1])
  <2>1. base[1] \in 0 .. al.ptr - 1
    BY <1>3, <1>6
  <2>2. Keeps(al, Set(al, al.alloc[base[1]].reg, d.val), base[1])
    BY <2>1, <1>4, <1>7, SetKeeps
  <2>3. QED BY <2>2, <1>4 DEF IsTemp
<1> HIDE DEF e
<1>11. /\ Sound(c) /\ c.ptr = base[1] + 1 /\ Keeps(e, c, base[1] + 1)
       /\ \A q \in Temp \ {result.preg} : c.regs[q] = e.regs[q]
  <2>1. e.ptr # 0 /\ e.ptr - 1 = base[1] + 1
    BY <1>3, <1>6, <1>9
  <2>2. result \in InRegister /\ result.deep = base[1] + 1 /\ result.preg = e.alloc[base[1] + 1].reg
    BY <1>6, <1>9 DEF IsTemp
  <2>3. /\ result \in InRegister /\ result.deep = e.ptr - 1
        /\ result.preg = e.alloc[e.ptr - 1].reg /\ e.ptr # 0 /\ Sound(e)
    BY <2>1, <2>2, <1>9
  <2>4. QED BY <2>1, <2>3, Released
<1> HIDE DEF c
<1>12. Keeps(al, c, base[1])
  <2>1. Keeps(e, c, base[1])
    BY <1>3, <1>11 DEF Keeps
  <2>2. QED BY <2>1, <1>3, <1>10, KeepsTwice
<1>13. IsTemp(c, d, base[1]) /\ c.regs[d.preg] = d.val
  <2>1. c.alloc[base[1]].reg = e.alloc[base[1]].reg
    BY <1>3, <1>11 DEF Keeps
  <2>2. c.regs[d.preg] = d.val
    BY <1>4, <1>8, <1>9, <1>11
  <2>3. QED BY <2>1, <2>2, <1>4, <1>9 DEF IsTemp
<1>14. Taken(d) = 1 /\ d.mode \in Top.want
  <2>1. Top.want \in {REG, IMMED, ALL}
    BY <1>3, FrameKinds
  <2>2. QED BY <2>1, <1>4 DEF Taken, REG, IMMED, ALL
<1>15. Leave(<<c, d>>)
  BY DEF Unary, Emit, c, e
<1>16. c.ptr <= nodes /\ d.mode # "immed"
  BY <1>3, <1>4, <1>6, <1>11, Numbers
<1> HIDE DEF d
<1>17. Top.node # "stmt" /\ <<c, d>>[1] = c /\ <<c, d>>[2] = d /\ c.ptr = base[1] + Taken(d)
  BY <1>1, <1>11, <1>14
<1>18. QED BY <1>1, <1>2, <1>11, <1>12, <1>13, <1>14, <1>15, <1>16, <1>17, LeaveKeeps

Filled(f, ap) == [f EXCEPT !.left = ap]

LEMMA FilledFields ==
  ASSUME NEW f \in NodeFrame, NEW ap \in InRegister
  PROVE  /\ Filled(f, ap) \in NodeFrame /\ Filled(f, ap).node = f.node /\ Filled(f, ap).want = f.want
         /\ Filled(f, ap).left = ap /\ Filled(f, ap).extra = f.extra
BY DEF NodeFrame, Filled

Topped(fr, f) == [fr EXCEPT ![1] = f]

\* The innermost frame gets its left operand.
LEMMA ChainFilled ==
  ASSUME NEW fr \in Frames, fr # <<>>, NEW base \in [1 .. Len(fr) -> Nat], Chain(fr, base),
         fr[1].node # "stmt", NEW a, AllFit(a, fr, base),
         NEW f \in NodeFrame, f.want = fr[1].want, Fits(a, f, base[1]),
         NEW g, g = Topped(fr, f)
  PROVE  g \in Frames /\ g # <<>> /\ g[1] = f /\ Len(g) = Len(fr) /\ Chain(g, base) /\ AllFit(a, g, base)
<1>1. /\ Len(fr) \in Nat \ {0} /\ Len(fr) # 1 /\ 1 \in 1 .. Len(fr)
      /\ \A i \in 1 .. Len(fr) : base[i] \in Nat
  BY FramesBelow
<1>2. fr \in Seq(NodeFrame \cup {StmtFrame}) /\ f \in NodeFrame \cup {StmtFrame}
  BY DEF Frames
<1>3. /\ g \in Seq(NodeFrame \cup {StmtFrame}) /\ Len(g) = Len(fr) /\ g[1] = f
      /\ \A i \in 2 .. Len(fr) : g[i] = fr[i]
  BY <1>1, <1>2 DEF Topped
<1>4. PICK n \in Nat : n = Len(fr) /\ n > 1
  <2>1. PICK n \in Nat : n = Len(fr)
    BY <1>1
  <2>2. n # 0 /\ n # 1
    BY <1>1, <2>1
  <2>3. QED BY <2>1, <2>2
<1>5. g \in Frames /\ g # <<>>
  BY <1>1, <1>3 DEF Frames
<1>6. g[Len(g)] = StmtFrame /\ base[Len(g)] = 0
  BY <1>3, <1>4 DEF Chain
<1>7. ASSUME NEW i \in 1 .. Len(g) - 1
      PROVE  g[i] \in NodeFrame /\ g[i].want = Expects(g[i + 1])
             /\ base[i] = base[i + 1] + Takes(g[i + 1])
  <2>1. i + 1 \in 2 .. Len(fr) /\ i \in 1 .. Len(fr) - 1 /\ (i = 1 \/ i \in 2 .. Len(fr))
    BY <1>3, <1>4
  <2>2. g[i + 1] = fr[i + 1] /\ g[i].want = fr[i].want
    BY <2>1, <1>3
  <2>3. fr[i] \in NodeFrame /\ fr[i].want = Expects(fr[i + 1])
        /\ base[i] = base[i + 1] + Takes(fr[i + 1])
    BY <2>1 DEF Chain
  <2>4. g[i] \in NodeFrame
    BY <2>1, <2>3, <1>3
  <2>5. QED BY <2>2, <2>3, <2>4
<1>8. ASSUME NEW i \in 1 .. Len(g), NEW j \in 1 .. Len(g), i < j
      PROVE  base[j] + Takes(g[j]) <= base[i]
  <2>1. j \in 2 .. Len(fr) /\ i \in 1 .. Len(fr) /\ j \in 1 .. Len(fr)
    BY <1>3, <1>4, <1>8
  <2>2. g[j] = fr[j]
    BY <2>1, <1>3
  <2>3. base[j] + Takes(fr[j]) <= base[i]
    BY <2>1, <1>8 DEF Chain
  <2>4. QED BY <2>2, <2>3
<1>9. Chain(g, base)
  BY <1>6, <1>7, <1>8 DEF Chain
<1>10. ASSUME NEW i \in 1 .. Len(g) PROVE Fits(a, g[i], base[i])
  <2>1. CASE i = 1
    BY <2>1, <1>3
  <2>2. CASE i # 1
    <3>1. i \in 2 .. Len(fr) /\ i \in 1 .. Len(fr)
      BY <2>2, <1>3, <1>4
    <3>2. QED BY <3>1, <1>3 DEF AllFit
  <2>3. QED BY <2>1, <2>2
<1>11. QED BY <1>3, <1>5, <1>9, <1>10 DEF AllFit

LEMMA LeftOperandKeeps ==
  ASSUME IInv, LeftOperand
  PROVE  IInv'
<1> DEFINE f == Filled(Top, result)
<1>1. /\ frames # <<>> /\ result # NoMode /\ Top.node = "binary" /\ Top.left = NoMode
      /\ flags' = IMMED /\ result' = NoMode /\ al' = al /\ nodes' = nodes /\ program' = program
      /\ passed' = passed
      /\ frames' = [frames EXCEPT ![1].left = result]
  BY DEF LeftOperand, First, Returned, Second
<1>2. PICK base \in [1 .. Len(frames) -> Nat] : Nest(base)
  BY <1>1 DEF IInv
<1>3. /\ frames \in Frames /\ Chain(frames, base) /\ AllFit(al, frames, base)
      /\ base[1] \in Nat /\ Top \in NodeFrame /\ Fits(al, Top, base[1])
  BY <1>1, <1>2, Frames1
<1>4. Takes(Top) = 1 /\ Expects(Top) = REG
  BY <1>1, Modes DEF Takes, Expects
<1>5. /\ result.mode = "reg" /\ IsTemp(al, result, base[1] + 1) /\ al.ptr = base[1] + 2
      /\ al.regs[result.preg] = result.val /\ result \in InRegister
  <2>1. result.mode = "reg" /\ (result.mode \in {"reg", "ind"} =>
              /\ IsTemp(al, result, base[1] + Takes(Top)) /\ al.regs[result.preg] = result.val
              /\ al.ptr = base[1] + Takes(Top) + 1)
    BY <1>1, <1>2, <1>4, Operand
  <2>2. base[1] + 1 + 1 = base[1] + 2
    BY <1>3
  <2>3. QED BY <2>1, <2>2, <1>4 DEF IsTemp
<1>6. /\ f \in NodeFrame /\ f.node = "binary" /\ f.want = Top.want /\ f.left = result
      /\ f.extra = Top.extra
  BY <1>1, <1>3, <1>5, FilledFields
<1>7. frames' = [frames EXCEPT ![1] = f]
  <2>1. 1 \in 1 .. Len(frames)
    BY <1>1, <1>3, FramesBelow
  <2>2. QED BY <2>1, <1>1 DEF Filled, Top
<1> HIDE DEF f
<1>8. Takes(f) = 2 /\ Expects(f) = IMMED
  <2>1. Taken(result) = 1 /\ result # NoMode
    BY <1>5, Modes
  <2>2. QED BY <2>1, <1>6 DEF Takes, Expects
<1>9. Fits(al, f, base[1])
  <2>1. IsTemp(al, Top.extra, base[1]) /\ Top.extra.mode = "reg"
    BY <1>1, <1>3 DEF Fits
  <2>2. QED BY <2>1, <1>5, <1>6 DEF Fits
<1>10. /\ frames' \in Frames /\ frames' # <<>> /\ frames'[1] = f /\ Len(frames') = Len(frames)
       /\ Chain(frames', base) /\ AllFit(al, frames', base)
  <2> DEFINE fr == frames
             a == al
             g == frames'
  <2>1. /\ fr \in Frames /\ fr # <<>> /\ base \in [1 .. Len(fr) -> Nat] /\ Chain(fr, base)
        /\ fr[1].node # "stmt" /\ AllFit(a, fr, base) /\ f \in NodeFrame /\ f.want = fr[1].want
        /\ Fits(a, f, base[1]) /\ g = Topped(fr, f)
    BY <1>1, <1>3, <1>6, <1>7, <1>9 DEF Top, Topped
  <2> HIDE DEF fr, a, g
  <2>2. g \in Frames /\ g # <<>> /\ g[1] = f /\ Len(g) = Len(fr) /\ Chain(g, base) /\ AllFit(a, g, base)
    BY <2>1, ChainFilled
  <2>3. QED BY <2>2 DEF fr, a, g
<1>11. Nest(base)'
  <2>1. Top' = f /\ Taken(result)' = 0
    BY <1>1, <1>10, Modes DEF Top
  <2>2. al'.ptr = base[1] + Takes(f) + 0
    BY <1>1, <1>3, <1>5, <1>8
  <2>3. QED BY <2>1, <2>2, <1>1, <1>10 DEF Nest
<1>12. ResultOK'
  BY <1>1, <1>8, <1>10 DEF ResultOK, Top
<1>13. Counted'
  BY <1>1, Modes DEF IInv, Counted
<1>14. base \in [1 .. Len(frames') -> Nat]
  BY <1>10
<1>15. QED BY <1>1, <1>10, <1>11, <1>12, <1>13, <1>14 DEF IInv

LEMMA BinaryKeeps ==
  ASSUME IInv, ThreeRegisters, Binary
  PROVE  IInv'
<1> DEFINE d == Top.extra
           l == Top.left
           e == Set(al, d.preg, d.val)
           r == ReleaseTempRegister(e, result)
           c == ReleaseTempRegister(r, l)
<1>1. frames # <<>> /\ result # NoMode /\ Top.node = "binary" /\ l # NoMode
  BY DEF Binary, BothOf, Returned
<1>2. PICK base \in [1 .. Len(frames) -> Nat] : Nest(base)
  BY <1>1 DEF IInv
<1>3. /\ base[1] \in Nat /\ Top \in NodeFrame /\ Fits(al, Top, base[1])
  BY <1>1, <1>2, Frames1
<1>4. IsTemp(al, d, base[1]) /\ d.mode = "reg" /\ d \in InRegister /\ d.preg \in Temp /\ d.val \in Nat
  BY <1>1, <1>3 DEF Fits, IsTemp, InRegister
<1>5. IsTemp(al, l, base[1] + 1) /\ l \in InRegister /\ l.preg \in Temp
  BY <1>1, <1>3 DEF Fits, IsTemp, InRegister
<1>6. Takes(Top) = 2 /\ Expects(Top) = IMMED
  <2>1. Taken(l) = 1
    BY <1>5, Modes
  <2>2. QED BY <2>1, <1>1 DEF Takes, Expects
<1>7. Sound(al)
  BY DEF IInv
<1>8. \/ result = Immed /\ al.ptr = base[1] + 2
      \/ IsTemp(al, result, base[1] + 2) /\ al.ptr = base[1] + 3
  <2>1. /\ result.mode = "reg" \/ result = Immed
        /\ result.mode \in {"reg", "ind"} =>
              IsTemp(al, result, base[1] + Takes(Top)) /\ al.ptr = base[1] + Takes(Top) + 1
        /\ result.mode \notin {"reg", "ind"} => al.ptr = base[1] + Takes(Top)
    BY <1>1, <1>2, <1>6, Operand
  <2>2. base[1] + 2 + 1 = base[1] + 3 /\ Immed.mode = "immed"
    BY <1>3, Modes
  <2>3. QED BY <2>1, <2>2, <1>6
<1>9. /\ Sound(e) /\ e.ptr = al.ptr /\ e.alloc = al.alloc /\ e.regs[d.preg] = d.val
  <2> HIDE DEF d
  <2>1. d.preg \in Temp /\ d.val \in Nat
    BY <1>4
  <2>2. QED BY <2>1, <1>7, SetFields
<1>10. Keeps(al, e, base[1])
  <2>1. base[1] \in 0 .. al.ptr - 1
    BY <1>3, <1>8
  <2>2. Keeps(al, Set(al, al.alloc[base[1]].reg, d.val), base[1])
    BY <2>1, <1>4, <1>7, SetKeeps
  <2>3. QED BY <2>2, <1>4 DEF IsTemp
<1> HIDE DEF e
<1>11. d.preg # l.preg
  <2>1. al.alloc[base[1] + 1].reg # al.alloc[base[1]].reg
    BY <1>3, <1>7, <1>8, Neighbours
  <2>2. QED BY <2>1, <1>4, <1>5 DEF IsTemp
<1>12. /\ Sound(r) /\ r.ptr = base[1] + 2 /\ Keeps(e, r, base[1] + 2) /\ r.regs[d.preg] = d.val
  <2>1. CASE result = Immed /\ al.ptr = base[1] + 2
    <3>1. r = e
      BY <2>1, Modes DEF ReleaseTempRegister, validate
    <3>2. QED BY <3>1, <2>1, <1>9 DEF Keeps
  <2>2. CASE IsTemp(al, result, base[1] + 2) /\ al.ptr = base[1] + 3
    <3>1. e.ptr # 0 /\ e.ptr - 1 = base[1] + 2
      BY <2>2, <1>3, <1>9
    <3>2. /\ result \in InRegister /\ result.deep = e.ptr - 1
          /\ result.preg = e.alloc[e.ptr - 1].reg /\ e.ptr # 0 /\ Sound(e)
      BY <2>2, <3>1, <1>9 DEF IsTemp
    <3>3. /\ Sound(r) /\ r.ptr = base[1] + 2 /\ Keeps(e, r, base[1] + 2)
          /\ \A q \in Temp \ {result.preg} : r.regs[q] = e.regs[q]
      BY <3>1, <3>2, Released
    <3>4. d.preg # result.preg
      <4>1. al.alloc[base[1] + 2].reg # al.alloc[base[1]].reg
        BY <2>2, <1>3, <1>7, Neighbours
      <4>2. QED BY <4>1, <2>2, <1>4 DEF IsTemp
    <3>5. QED BY <3>3, <3>4, <1>4, <1>9
  <2>3. QED BY <2>1, <2>2, <1>8
<1> HIDE DEF r
<1>13. r.alloc[base[1]].reg = al.alloc[base[1]].reg
       /\ r.alloc[base[1] + 1].reg = al.alloc[base[1] + 1].reg
  <2>1. base[1] \in 0 .. (base[1] + 2) - 1 /\ base[1] + 1 \in 0 .. (base[1] + 2) - 1
    BY <1>3
  <2>2. QED BY <2>1, <1>9, <1>12 DEF Keeps
<1>14. /\ Sound(c) /\ c.ptr = base[1] + 1 /\ Keeps(r, c, base[1] + 1) /\ c.regs[d.preg] = d.val
  <2>1. r.ptr # 0 /\ r.ptr - 1 = base[1] + 1
    BY <1>3, <1>12
  <2>2. /\ l \in InRegister /\ l.deep = r.ptr - 1 /\ l.preg = r.alloc[r.ptr - 1].reg
        /\ r.ptr # 0 /\ Sound(r)
    BY <2>1, <1>5, <1>12, <1>13 DEF IsTemp
  <2> HIDE DEF l
  <2>3. /\ Sound(c) /\ c.ptr = base[1] + 1 /\ Keeps(r, c, base[1] + 1)
        /\ \A q \in Temp \ {l.preg} : c.regs[q] = r.regs[q]
    BY <2>1, <2>2, Released
  <2>4. QED BY <2>3, <1>4, <1>11, <1>12
<1> HIDE DEF c
<1>15. Keeps(al, c, base[1])
  <2>1. Keeps(e, r, base[1]) /\ Keeps(r, c, base[1])
    BY <1>3, <1>12, <1>14, SMTT(30) DEF Keeps
  <2>2. Keeps(al, r, base[1])
    BY <2>1, <1>3, <1>10, KeepsTwice
  <2>3. QED BY <2>1, <2>2, <1>3, KeepsTwice
<1>16. IsTemp(c, d, base[1])
  <2>1. c.alloc[base[1]].reg = r.alloc[base[1]].reg
    BY <1>3, <1>14 DEF Keeps
  <2>2. QED BY <2>1, <1>4, <1>13 DEF IsTemp
<1>17. Taken(d) = 1 /\ d.mode \in Top.want
  <2>1. Top.want \in {REG, IMMED, ALL}
    BY <1>3, FrameKinds
  <2>2. QED BY <2>1, <1>4 DEF Taken, REG, IMMED, ALL
<1>18. Leave(<<c, d>>)
  BY DEF Binary, Emit, c, r, e
<1>19. c.ptr <= nodes /\ d.mode # "immed"
  BY <1>3, <1>4, <1>8, <1>14, Numbers, SMTT(30)
<1> HIDE DEF d, l
<1>20. Top.node # "stmt" /\ <<c, d>>[1] = c /\ <<c, d>>[2] = d /\ c.ptr = base[1] + Taken(d)
  BY <1>1, <1>14, <1>17
<1>21. QED BY <1>1, <1>2, <1>14, <1>15, <1>16, <1>17, <1>18, <1>19, <1>20, LeaveKeeps

LEMMA IndFields ==
  ASSUME NEW ap \in InRegister
  PROVE  /\ Ind(ap) \in InRegister /\ Ind(ap).deep = ap.deep /\ Ind(ap).preg = ap.preg
         /\ Ind(ap).val = ap.val /\ Ind(ap).mode = "ind"
BY DEF Ind, InRegister

LEMMA DerefKeeps ==
  ASSUME IInv, EnoughNumbers, Deref
  PROVE  IInv'
<1> DEFINE ap == IF result.mode = "reg" THEN Ind(result) ELSE Direct
<1>1. frames # <<>> /\ result # NoMode /\ Top.node = "deref"
      /\ \E f \in Narrow(Top.want) : Leave(MakeLegalAmode(al, ap, f, Loaded))
  BY DEF Deref, Returned
<1>w. PICK w \in Narrow(Top.want) : Leave(MakeLegalAmode(al, ap, w, Loaded))
  BY <1>1
<1> DEFINE g == MakeLegalAmode(al, ap, w, Loaded)
<1>2. PICK base \in [1 .. Len(frames) -> Nat] : Nest(base)
  BY <1>1 DEF IInv
<1>3. /\ base[1] \in Nat /\ Top \in NodeFrame
  BY <1>1, <1>2, Frames1
<1>4. Takes(Top) = 0 /\ Expects(Top) = IMMED
  BY <1>1 DEF Takes, Expects
<1>5. \/ result = Immed /\ al.ptr = base[1]
      \/ /\ result.mode = "reg" /\ IsTemp(al, result, base[1]) /\ al.regs[result.preg] = result.val
         /\ al.ptr = base[1] + 1
  <2>1. /\ result.mode = "reg" \/ result = Immed
        /\ result.mode \in {"reg", "ind"} =>
              /\ IsTemp(al, result, base[1] + Takes(Top)) /\ al.regs[result.preg] = result.val
              /\ al.ptr = base[1] + Takes(Top) + 1
        /\ result.mode \notin {"reg", "ind"} => al.ptr = base[1] + Takes(Top)
    BY <1>1, <1>2, <1>4, Operand
  <2>2. base[1] + 0 = base[1] /\ Immed.mode = "immed"
    BY <1>3, Modes
  <2>3. QED BY <2>1, <2>2, <1>4
<1>6. /\ nodes \in Nat /\ MaxNodes \in Nat /\ MaxRegStack \in Nat /\ nodes <= MaxNodes
      /\ al.ptr \in Nat /\ al.ptr <= nodes /\ Loaded \in Nat
  BY Numbers
<1>7. base[1] < nodes
  BY <1>3, <1>5, <1>6, Modes DEF IInv, Counted
<1>8. Sound(al) /\ w \in {REG, IMMED, ALL} /\ w \subseteq Top.want
  <2>1. Top.want \in {REG, IMMED, ALL}
    BY <1>3, FrameKinds
  <2>2. QED BY <2>1, <1>w, Narrowed DEF IInv
<1>9. /\ base[1] = al.ptr - Taken(ap)
      /\ \/ ap \in {Immed, Local, Direct}
         \/ al.ptr # 0 /\ IsTemp(al, ap, al.ptr - 1) /\ al.regs[ap.preg] = ap.val
      /\ ap # Immed
  <2>1. CASE result = Immed /\ al.ptr = base[1]
    <3>1. ap = Direct
      BY <2>1, Modes
    <3>2. Taken(ap) = 0 /\ ap # Immed
      BY <3>1, Modes
    <3>3. QED BY <3>1, <3>2, <2>1, <1>3
  <2>2. CASE /\ result.mode = "reg" /\ IsTemp(al, result, base[1]) /\ al.regs[result.preg] = result.val
             /\ al.ptr = base[1] + 1
    <3>1. result \in InRegister /\ ap = Ind(result)
      BY <2>2 DEF IsTemp
    <3>2. /\ ap \in InRegister /\ ap.deep = result.deep /\ ap.preg = result.preg /\ ap.val = result.val
      BY <3>1, IndFields
    <3> HIDE DEF ap
    <3>3. Taken(ap) = 1 /\ ap # Immed
      BY <3>2, Modes
    <3>4. al.ptr - 1 = base[1] /\ al.ptr # 0
      BY <2>2, <1>3
    <3>5. IsTemp(al, ap, al.ptr - 1) /\ al.regs[ap.preg] = ap.val
      BY <3>2, <3>4, <2>2 DEF IsTemp
    <3>6. QED BY <3>3, <3>4, <3>5
  <2>3. QED BY <2>1, <2>2, <1>5
<1>10. base[1] < MaxRegStack
  BY <1>3, <1>6, <1>7 DEF EnoughNumbers
<1> HIDE DEF ap
<1>11. g = MakeLegalAmode(al, ap, w, Loaded) /\ Leave(g)
  BY <1>w DEF ap
<1> HIDE DEF g
<1>12. /\ Sound(g[1]) /\ Keeps(al, g[1], base[1]) /\ g[1].ptr = base[1] + Taken(g[2])
       /\ g[2].mode \in w
       /\ \/ g[2] \in {Immed, Local, Direct} /\ g[2] = ap
          \/ IsTemp(g[1], g[2], base[1]) /\ g[1].regs[g[2].preg] = g[2].val
  BY <1>6, <1>8, <1>9, <1>10, <1>11, Legal
<1>13. g[2].mode # "immed"
  <2>1. CASE g[2] \in {Immed, Local, Direct} /\ g[2] = ap
    BY <2>1, <1>9, Modes
  <2>2. CASE IsTemp(g[1], g[2], base[1])
    BY <2>2, Modes DEF IsTemp
  <2>3. QED BY <2>1, <2>2, <1>12
<1>14. Taken(g[2]) \in {0, 1}
  BY DEF Taken
<1>15. g[1].ptr <= nodes /\ Top.node # "stmt" /\ g[2].mode \in Top.want
  BY <1>1, <1>3, <1>6, <1>7, <1>8, <1>12, <1>14
<1> DEFINE c == g[1]
           q == g[2]
<1>16. /\ Sound(c) /\ Keeps(al, c, base[1]) /\ c.ptr = base[1] + Taken(q) /\ q.mode \in Top.want
       /\ \/ q \in {Immed, Local, Direct}
          \/ IsTemp(c, q, base[1]) /\ c.regs[q.preg] = q.val
       /\ c.ptr <= nodes /\ (q.mode = "immed" => c.ptr < nodes)
       /\ g[1] = c /\ g[2] = q
  BY <1>12, <1>13, <1>15
<1> HIDE DEF c, q
<1>17. QED BY <1>1, <1>2, <1>11, <1>15, <1>16, LeaveKeeps

LEMMA StatementKeeps ==
  ASSUME IInv, Statement
  PROVE  IInv'
<1>1. /\ frames # <<>> /\ result # NoMode /\ Top.node = "stmt"
      /\ al' = ReleaseTempRegister(al, result) /\ frames' = <<>> /\ result' = NoMode
      /\ nodes' = nodes /\ program' = program /\ passed' = passed
  BY DEF Statement, Returned
<1>2. PICK base \in [1 .. Len(frames) -> Nat] : Nest(base)
  BY <1>1 DEF IInv
<1>3. base[1] = 0 /\ Takes(Top) = 0
  BY <1>1, <1>2, Frames1 DEF Takes
<1>4. Sound(al)
  BY DEF IInv
<1>5. Sound(al') /\ al'.ptr = 0
  <2>1. CASE result.mode \notin {"reg", "ind"}
    <3>1. result \in {Immed, Local, Direct} /\ al.ptr = 0
      <4>1. result \in {Immed, Local, Direct} /\ al.ptr = base[1] + Takes(Top)
        BY <2>1, <1>1, <1>2, Operand
      <4>2. QED BY <4>1, <1>3
    <3>2. ReleaseTempRegister(al, result) = al
      BY <3>1, Modes DEF ReleaseTempRegister, validate
    <3>3. QED BY <3>1, <3>2, <1>1, <1>4
  <2>2. CASE result.mode \in {"reg", "ind"}
    <3>1. IsTemp(al, result, 0) /\ al.ptr = 1
      <4>1. IsTemp(al, result, base[1] + Takes(Top)) /\ al.ptr = base[1] + Takes(Top) + 1
        BY <2>2, <1>1, <1>2, Operand
      <4>2. QED BY <4>1, <1>3
    <3>2. /\ al.ptr # 0 /\ al.ptr - 1 = 0 /\ result \in InRegister /\ result.deep = al.ptr - 1
          /\ result.preg = al.alloc[al.ptr - 1].reg
      BY <3>1 DEF IsTemp
    <3>3. Sound(ReleaseTempRegister(al, result)) /\ ReleaseTempRegister(al, result).ptr = al.ptr - 1
      BY <3>2, <1>4, Released
    <3>4. QED BY <3>2, <3>3, <1>1
  <2>3. QED BY <2>1, <2>2
<1>6. Counted'
  <2>1. program \in Programs /\ nodes \in 0 .. MaxNodes /\ passed = {}
    BY DEF IInv, Counted
  <2>2. nodes \in Nat
    BY Numbers
  <2>3. QED BY <2>1, <2>2, <1>1, <1>5, Modes DEF Counted
<1>7. frames' \in Frames
  BY <1>1 DEF Frames
<1>8. QED BY <1>1, <1>5, <1>6, <1>7 DEF IInv

LEMMA InitIInv ==
  ASSUME Init
  PROVE  IInv
<1>1. /\ al = initRegStack /\ frames = <<StmtFrame>> /\ flags = ALL /\ result = NoMode
      /\ nodes = 0 /\ program \in Programs /\ passed = {}
  BY DEF Init, StmtFrame
<1>2. 0 \in Number /\ FirstTemp \in Temp
  BY TempAssumption DEF Number, Temp
<1>3. /\ initRegStack.ptr = 0 /\ initRegStack.stack = <<>> /\ initRegStack.mem = <<>>
      /\ initRegStack.inUse = [r \in Temp |-> -1] /\ initRegStack.next = FirstTemp
  BY DEF initRegStack
<1>4. initRegStack \in Allocator
  <2>1. [r \in Temp |-> -1] \in [Temp -> Int]
    OBVIOUS
  <2>2. [n \in Number |-> FreshNumber] \in [Number -> Cell]
    BY DEF FreshNumber, Cell
  <2>3. [r \in Temp \cup {Result} |-> Junk] \in [Temp \cup {Result} -> Data]
    BY DEF Data
  <2>4. <<>> \in Seq(Int \X Int) /\ <<>> \in Seq(Data)
    OBVIOUS
  <2>5. QED BY <2>1, <2>2, <2>3, <2>4, <1>2 DEF initRegStack, Allocator
<1>5. Pushed(initRegStack) = 0
  BY <1>3 DEF Pushed
<1>6. Stacked(initRegStack)
  BY <1>3, <1>5 DEF Stacked
<1>7. Rotation(initRegStack)
  BY <1>3, <1>5 DEF Rotation
<1>8. Window(initRegStack)
  BY <1>3, <1>5 DEF Window
<1>b. Begins(initRegStack)
  BY <1>3 DEF Begins
<1>9. Sound(al)
  BY <1>1, <1>4, <1>6, <1>7, <1>8, <1>b DEF Sound
<1>10. Counted
  BY <1>1, <1>3, Modes, BoundsAssumption DEF Counted
<1>11. frames \in Frames /\ Len(frames) = 1 /\ frames[1] = StmtFrame /\ frames # <<>>
  BY <1>1 DEF Frames
<1>12. Takes(Top) = 0 /\ Expects(Top) = ALL /\ Fits(al, Top, 0)
  BY <1>11, FrameKinds DEF Top, Takes, Expects, Fits
<1>13. ResultOK
  BY <1>1, <1>12 DEF ResultOK
<1>14. \E base \in [1 .. Len(frames) -> Nat] : Nest(base)
  <2> DEFINE base == [i \in 1 .. 1 |-> 0]
  <2>1. base \in [1 .. Len(frames) -> Nat] /\ base[1] = 0
    BY <1>11
  <2>2. Chain(frames, base)
    BY <2>1, <1>11 DEF Chain
  <2>3. AllFit(al, frames, base)
    BY <2>1, <1>11, <1>12 DEF AllFit, Top
  <2>4. al.ptr = base[1] + Takes(Top) + Taken(result)
    BY <2>1, <1>1, <1>3, <1>12, Modes
  <2>5. Nest(base)
    BY <2>2, <2>3, <2>4 DEF Nest
  <2>6. QED BY <2>1, <2>5
<1>15. QED BY <1>9, <1>10, <1>11, <1>13, <1>14 DEF IInv

\* One expression is compiled, all the way.
LEMMA SameProgram ==
  ASSUME [Next]_vars
  PROVE  program' = program
BY DEF Next, Expression, Leaf, EnterWithDest, EnterAddress, EnterCall, EnterNoTemps, Enter, Count,
       Operation, Unary, LeftOperand, Binary, Deref, IndexLeft, Index, Call, NoTempsCall, Second,
       Leave, Return, Statement, vars

LEMMA NextIInv ==
  ASSUME Simple, EnoughNumbers, ThreeRegisters, IInv, [Next]_vars
  PROVE  IInv'
<1>1. program.kinds \subseteq {"constant", "variable", "unary", "binary", "deref"}
  BY DEF Simple
<1>2. CASE Expression
  <2>1. CASE Leaf(Immed, flags)
    <3>1. flags \in Narrow(flags)
      BY DEF Narrow
    <3>2. QED BY <2>1, <3>1, LeafKeeps
  <2>2. CASE \E f \in Narrow(flags) : Leaf(Local, f)
    BY <2>2, LeafKeeps
  <2>3. CASE \E node \in program.kinds \cap {"unary", "binary"} : EnterWithDest(node)
    BY <2>3, EnterWithDestKeeps
  <2>4. CASE \E node \in program.kinds \cap {"deref", "index"} : EnterAddress(node)
    BY <2>4, <1>1, EnterAddressKeeps
  <2>5. QED BY <2>1, <2>2, <2>3, <2>4, <1>1, <1>2 DEF Expression
<1>3. CASE Operation
  <2>1. frames # <<>> => Top.node \notin {"index", "call", "no_temps"}
    <3> SUFFICES ASSUME frames # <<>> PROVE Top.node \notin {"index", "call", "no_temps"}
      OBVIOUS
    <3>1. PICK base \in [1 .. Len(frames) -> Nat] : Nest(base)
      BY DEF IInv
    <3>2. Top \in NodeFrame \cup {StmtFrame}
      BY <3>1, Frames1
    <3>3. QED BY <3>2, FrameKinds
  <2>2. ~IndexLeft /\ ~Index /\ ~Call /\ ~NoTempsCall
    BY <2>1 DEF IndexLeft, Index, Call, NoTempsCall, First, BothOf, Returned
  <2>3. QED BY <2>2, <1>3, UnaryKeeps, LeftOperandKeeps, BinaryKeeps, DerefKeeps DEF Operation
<1>4. CASE Statement
  BY <1>4, StatementKeeps
<1>5. CASE UNCHANGED vars
  BY <1>5 DEF vars, IInv, Counted, ResultOK, Nest, Top
<1>6. QED BY <1>2, <1>3, <1>4, <1>5 DEF Next

-----------------------------------------------------------------------------
(***************************************************************************)
(* The theorems.                                                           *)
(***************************************************************************)
\* The temporaries in use, the stack of the spilled ones and the nodes under
\* way always agree, for every expression of the fragment and every number of
\* registers from three on.
THEOREM ExpressionInvariant ==
  ASSUME EnoughNumbers, ThreeRegisters
  PROVE  Spec /\ Simple => []IInv
<1>1. Init => IInv
  BY InitIInv
<1>2. Simple /\ IInv /\ [Next]_vars => IInv'
  BY NextIInv
<1>3. Simple /\ [Next]_vars => Simple'
  BY SameProgram DEF Simple
<1>4. QED BY <1>1, <1>2, <1>3, PTL DEF Spec

\* No fatal error of Register.cpp is reached: the list of numbers and the stack
\* do not overflow, and every pop finds what it expects (GetTempRegister,
\* GenerateTempRegPush, GenerateTempRegPop, ReleaseTempRegister).
THEOREM ExpressionNoFatal ==
  ASSUME EnoughNumbers, ThreeRegisters
  PROVE  Spec /\ Simple => []NoFatal
<1>1. IInv => NoFatal
  BY Fields DEF IInv, Sound, NoFatal
<1>2. QED BY <1>1, ExpressionInvariant, PTL

\* What a temporary that is named by an operand holds.
LEMMA ReadsTemp ==
  ASSUME NEW ap \in InRegister \cup {NoMode, Immed, Local, Direct}, NEW o \in Reads(ap)
  PROVE  ap \in InRegister /\ o[1] = ap.preg /\ o[2] = ap.deep /\ o[3] = ap.val
<1>1. ap \in InRegister
  BY Modes DEF Reads
<1>2. QED BY <1>1, Modes DEF Reads

\* The left operand of the node i.
LEMMA LeftOf ==
  ASSUME IInv, frames # <<>>, NEW i \in DOMAIN frames, frames[i].node \in TwoOperands,
         NEW o \in Reads(frames[i].left)
  PROVE  /\ o[2] \in 1 .. al.ptr - 1
         /\ o[2] >= Pushed(al) => al.regs[o[1]] = o[3]
<1>1. PICK base \in [1 .. Len(frames) -> Nat] : Nest(base)
  BY DEF IInv
<1>2. /\ frames \in Frames /\ Chain(frames, base) /\ AllFit(al, frames, base) /\ al.ptr \in Nat
      /\ al.ptr = base[1] + Takes(Top) + Taken(result) /\ Taken(result) \in {0, 1}
      /\ base[1] \in Nat /\ Takes(Top) \in Nat
  BY <1>1, Frames1, Numbers
<1>3. i \in 1 .. Len(frames)
  BY <1>2 DEF Frames
<1>4. /\ frames[i] \in NodeFrame \cup {StmtFrame} /\ base[i] \in Nat
      /\ base[i] + Takes(frames[i]) <= base[1] + Takes(frames[1])
  BY <1>2, <1>3, FramesBelow
<1>5. frames[i].node = "binary" /\ frames[i] \in NodeFrame
  BY <1>4, FrameKinds DEF TwoOperands
<1>6. frames[i].left \in InRegister /\ o[1] = frames[i].left.preg
      /\ o[2] = frames[i].left.deep /\ o[3] = frames[i].left.val
  <2>1. frames[i].left \in InRegister \cup {NoMode, Immed, Local, Direct}
    BY <1>5, FrameKinds
  <2>2. QED BY <2>1, ReadsTemp
<1>7. Fits(al, frames[i], base[i])
  BY <1>2, <1>3 DEF AllFit
<1>8. frames[i].left # NoMode
  BY <1>6, Modes
<1>9. /\ IsTemp(al, frames[i].left, base[i] + 1)
      /\ base[i] + 1 >= Pushed(al) => al.regs[frames[i].left.preg] = frames[i].left.val
  BY <1>5, <1>7, <1>8 DEF Fits
<1>10. Takes(frames[i]) = 2
  <2>1. Taken(frames[i].left) = 1
    BY <1>6, Modes
  <2>2. QED BY <2>1, <1>5 DEF Takes
<1>11. o[2] = base[i] + 1
  BY <1>6, <1>9 DEF IsTemp
<1>12. base[i] + 2 <= al.ptr
  BY <1>2, <1>4, <1>10 DEF Top
<1>13. QED BY <1>2, <1>4, <1>6, <1>9, <1>11, <1>12, SMTT(30)

\* What the operand that returned holds.
LEMMA ResultHolds ==
  ASSUME IInv, NEW o \in Reads(result)
  PROVE  al.regs[o[1]] = o[3]
<1>1. result # NoMode
  BY Modes DEF Reads
<1>2. frames # <<>>
  BY <1>1 DEF IInv
<1>3. \/ result \in {Immed, Local, Direct}
      \/ IsTemp(al, result, al.ptr - 1) /\ al.regs[result.preg] = result.val
  BY <1>1, <1>2, Results
<1>4. result \in InRegister \cup {NoMode, Immed, Local, Direct}
  BY <1>3 DEF IsTemp
<1>5. result \in InRegister /\ o[1] = result.preg /\ o[3] = result.val
  BY <1>4, ReadsTemp
<1>6. result \notin {Immed, Local, Direct}
  BY <1>5, Modes
<1>7. QED BY <1>3, <1>5, <1>6

\* A value that is needed leaves its register only by being pushed: the
\* rotation of GetTempRegister spills before it hands a register out again.
THEOREM ExpressionLiveInPlace ==
  ASSUME EnoughNumbers, ThreeRegisters
  PROVE  Spec /\ Simple => []LiveInPlace
<1>1. ASSUME IInv PROVE LiveInPlace
  <2> SUFFICES ASSUME NEW o \in Held, ~al.alloc[o[2]].isPushed
               PROVE  al.regs[o[1]] = o[3]
    BY DEF LiveInPlace
  <2>1. CASE o \in Reads(result)
    BY <1>1, <2>1, ResultHolds
  <2>2. CASE o \notin Reads(result)
    <3>1. PICK i \in DOMAIN frames : frames[i].node \in TwoOperands /\ o \in Reads(frames[i].left)
      BY <2>2 DEF Held
    <3>2. frames # <<>>
      BY <3>1
    <3>3. o[2] \in 1 .. al.ptr - 1 /\ (o[2] >= Pushed(al) => al.regs[o[1]] = o[3])
      BY <1>1, <3>1, <3>2, LeftOf
    <3>4. o[2] >= Pushed(al)
      <4>1. al.ptr \in Nat /\ Pushed(al) \in Nat /\ Rotation(al)
        BY <1>1, Numbers, Fields DEF IInv, Sound
      <4>2. o[2] \in 0 .. al.ptr - 1
        BY <3>3, <4>1
      <4>3. ~(o[2] < Pushed(al))
        BY <4>1, <4>2 DEF Rotation
      <4>4. QED BY <4>1, <4>2, <4>3
    <3>5. QED BY <3>3, <3>4
  <2>3. QED BY <2>1, <2>2
<1>2. QED BY <1>1, ExpressionInvariant, PTL

\* While at most one temporary is on the stack, GenerateBinary reads both its
\* operands in their registers: the one that is pushed is never the left one.
THEOREM ExpressionTempsInRegisters ==
  ASSUME EnoughNumbers, ThreeRegisters
  PROVE  Spec /\ Simple => []TempsInRegisters
<1>1. ASSUME IInv PROVE TempsInRegisters
  <2> SUFFICES ASSUME Len(al.stack) < 2, NEW o \in Operands PROVE al.regs[o[1]] = o[3]
    BY DEF TempsInRegisters
  <2>1. CASE o \in Reads(result)
    BY <1>1, <2>1, ResultHolds
  <2>2. CASE o \notin Reads(result)
    <3>1. frames # <<>> /\ Top.node \in TwoOperands /\ o \in Reads(Top.left)
      BY <2>2 DEF Operands, TwoOperands
    <3>2. 1 \in DOMAIN frames
      BY <1>1, <3>1 DEF IInv, Frames
    <3>3. o[2] \in 1 .. al.ptr - 1 /\ (o[2] >= Pushed(al) => al.regs[o[1]] = o[3])
      BY <1>1, <3>1, <3>2, LeftOf DEF Top
    <3>4. Pushed(al) \in Nat /\ Pushed(al) < 2 /\ al.ptr \in Nat
      BY <1>1, Numbers, Fields DEF IInv, Sound, Pushed
    <3>5. QED BY <3>3, <3>4
  <2>3. QED BY <2>1, <2>2
<1>2. QED BY <1>1, ExpressionInvariant, PTL

\* When the statement ends every temporary was given back, the stack is level
\* and the rotation is where it began: no spill of an operator or a dereference
\* is left behind.
THEOREM ExpressionAllReleased ==
  ASSUME EnoughNumbers, ThreeRegisters
  PROVE  Spec /\ Simple => []AllReleased
<1>1. ASSUME IInv PROVE AllReleased
  <2> SUFFICES ASSUME frames = <<>>
               PROVE  /\ al.stack = <<>> /\ al.mem = <<>>
                      /\ {r \in Temp : al.inUse[r] # -1} = passed
                      /\ al.next = FirstTemp /\ al.ptr = 0
    BY DEF AllReleased
  <2>1. al.ptr = 0 /\ al \in Allocator /\ Stacked(al) /\ Window(al) /\ Begins(al) /\ passed = {}
    BY <1>1 DEF IInv, Sound, Counted
  <2>2. al.stack \in Seq(Int \X Int) /\ al.mem \in Seq(Data) /\ Pushed(al) \in Nat
    BY <2>1, Fields
  <2>3. Pushed(al) = 0 /\ Len(al.mem) = 0 /\ Len(al.stack) = 0
    BY <2>1, <2>2 DEF Stacked, Pushed
  <2>4. \A r \in Temp : al.inUse[r] = -1
    BY <2>1, <2>3 DEF Window
  <2>5. {r \in Temp : al.inUse[r] # -1} = passed
    BY <2>1, <2>4
  <2>6. al.stack = <<>> /\ al.mem = <<>>
    BY <2>2, <2>3
  <2>7. al.next = FirstTemp
    BY <2>1 DEF Begins
  <2>8. QED BY <2>1, <2>5, <2>6, <2>7
<1>2. QED BY <1>1, ExpressionInvariant, PTL
=============================================================================
