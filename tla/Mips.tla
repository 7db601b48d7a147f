-------------------------------- MODULE Mips ---------------------------------
(***************************************************************************)
(* The instructions of the simulated processor: machine/mipssim.cc and     *)
(* mipssim.h, as functions of the registers.  Fetching, memory accesses    *)
(* and exceptions are in Cpu.                                              *)
(*                                                                         *)
(* A byte has ByteBits bits (8 in the code), a word four bytes, a half     *)
(* word (and an immediate operand) two.  A register holds a word, kept as  *)
(* the unsigned number of its bits; Signed reads it as an int.             *)
(***************************************************************************)
EXTENDS Integers, SequencesExt, Bitwise, TLC

CONSTANT ByteBits

ASSUME ByteBitsAssumption == ByteBits \in Nat \ {0, 1}

WordBits == 4 * ByteBits
HalfBits == 2 * ByteBits
Words == 0 .. 2^WordBits - 1
SignBit == 2^(WordBits - 1)

\* int and unsigned arithmetic keep the low WordBits bits.
Wrap(n) == n % 2^WordBits
Negative(w) == w >= SignBit
Signed(w) == IF Negative(w) THEN w - 2^WordBits ELSE w
Complement(w) == 2^WordBits - 1 - w

\* The low bits of w, sign-extended to a word.
Extended(w, bits) ==
    LET low == w % 2^bits
    IN  IF low >= 2^(bits - 1) THEN Wrap(low - 2^bits) ELSE low

(***************************************************************************)
(* The registers (machine.h): 0 to 31 are general purpose.                 *)
(***************************************************************************)
StackReg == 29
RetAddrReg == 31
HiReg == 32
LoReg == 33
PCReg == 34
NextPCReg == 35
PrevPCReg == 36
LoadReg == 37
LoadValueReg == 38
BadVAddrReg == 39
GPRegs == 0 .. 31
Registers == 0 .. 39

(***************************************************************************)
(* Instruction::Decode.  The bits of an instruction are given as the       *)
(* record of their fields: op (31:26), rs (25:21), rt (20:16), rd (15:11), *)
(* shamt (10:6) and funct (5:0).                                           *)
(***************************************************************************)
Reserved(n) == [k \in 1 .. n |-> "RES"]
Unimplemented(n) == [k \in 1 .. n |-> "UNIMP"]

opTable ==
    << "SPECIAL", "BCOND", "J", "JAL", "BEQ", "BNE", "BLEZ", "BGTZ",
       "ADDI", "ADDIU", "SLTI", "SLTIU", "ANDI", "ORI", "XORI", "LUI" >>
    \o Unimplemented(4) \o Reserved(12)
    \o << "LB", "LH", "LWL", "LW", "LBU", "LHU", "LWR", "RES",
          "SB", "SH", "SWL", "SW", "RES", "RES", "SWR", "RES" >>
    \o Unimplemented(4) \o Reserved(4) \o Unimplemented(4) \o Reserved(4)

specialTable ==
    << "SLL", "RES", "SRL", "SRA", "SLLV", "RES", "SRLV", "SRAV",
       "JR", "JALR", "RES", "RES", "SYSCALL", "UNIMP", "RES", "RES",
       "MFHI", "MTHI", "MFLO", "MTLO" >> \o Reserved(4)
    \o << "MULT", "MULTU", "DIV", "DIVU" >> \o Reserved(4)
    \o << "ADD", "ADDU", "SUB", "SUBU", "AND", "OR", "XOR", "NOR",
          "RES", "RES", "SLT", "SLTU" >> \o Reserved(20)

BranchConditions == (0 :> "BLTZ") @@ (1 :> "BGEZ") @@ (16 :> "BLTZAL") @@ (17 :> "BGEZAL")

\* A jump's index has 26 of 32 bits, WordBits - 6 in general; a shift amount
\* is below the width of a word.
Decode(f) ==
    LET bits == ((f.rs * 2^5 + f.rt) * 2^5 + f.rd) * 2^11 + f.shamt * 2^6 + f.funct
        code == opTable[f.op + 1]
    IN  [rs |-> f.rs, rt |-> f.rt, rd |-> f.rd,
         opCode |-> CASE code = "SPECIAL" -> specialTable[f.funct + 1]
                      [] code = "BCOND" -> IF f.rt \in DOMAIN BranchConditions
                                           THEN BranchConditions[f.rt] ELSE "UNIMP"
                      [] OTHER -> code,
         extra |-> CASE code = "SPECIAL" -> f.shamt % WordBits
                     [] code \in {"J", "JAL"} -> bits % 2^(WordBits - 6)
                     [] OTHER -> Extended(bits, HalfBits)]

(***************************************************************************)
(* Arithmetic.  a and b are words.                                         *)
(***************************************************************************)
AddOverflows(a, b) ==
    /\ Negative(a) = Negative(b)
    /\ Negative(a) # Negative(Wrap(a + b))

SubOverflows(a, b) ==
    /\ Negative(a) # Negative(b)
    /\ Negative(a) # Negative(Wrap(a - b))

Abs(n) == IF n < 0 THEN -n ELSE n

\* C's division of ints rounds towards 0, and so the remainder has the sign
\* of the dividend.
Quotient(a, b) ==
    LET q == Abs(a) \div Abs(b) IN IF (a < 0) = (b < 0) THEN q ELSE -q

\* <<Hi, Lo>> after DIV and DIVU.
Div(a, b, signedArith) ==
    LET x == IF signedArith THEN Signed(a) ELSE a
        y == IF signedArith THEN Signed(b) ELSE b
    IN  IF b = 0 THEN <<0, 0>>
        ELSE <<Wrap(x - Quotient(x, y) * y), Wrap(Quotient(x, y))>>

\* The most negative int divided by -1 is no int: undefined, and a trap of
\* the host that ends the simulator.
DivTrapsHost(a, b) == a = SignBit /\ b = 2^WordBits - 1

\* (Mutant of MultTurn: the carry of the low word is lost.)
MultTurnNoCarry(s) ==
    LET odd == s.a % 2 = 1
    IN  IF s.done THEN s
        ELSE [done |-> s.a = 1,
              lo |-> IF odd THEN Wrap(s.lo + s.bLo) ELSE s.lo,
              hi |-> IF odd THEN Wrap(s.hi + s.bHi) ELSE s.hi,
              bHi |-> Wrap(2 * s.bHi) + (IF Negative(s.bLo) THEN 1 ELSE 0),
              bLo |-> Wrap(2 * s.bLo),
              a |-> Wrap(Signed(s.a) \div 2)]

\* One turn of Mult's loop: a's lowest bit decides whether the shifted b,
\* in <<bHi, bLo>>, is added to <<hi, lo>>.
MultTurn(s) ==
    LET odd == s.a % 2 = 1
        lo == Wrap(s.lo + s.bLo)
        hi == Wrap(s.hi + s.bHi + (IF lo < s.bLo THEN 1 ELSE 0))
    IN  IF s.done THEN s
        ELSE [done |-> s.a = 1,
              lo |-> IF odd THEN lo ELSE s.lo,
              hi |-> IF odd THEN hi ELSE s.hi,
              bHi |-> Wrap(2 * s.bHi) + (IF Negative(s.bLo) THEN 1 ELSE 0),
              bLo |-> Wrap(2 * s.bLo),
              a |-> Wrap(Signed(s.a) \div 2)]

\* <<Hi, Lo>> after MULT and MULTU.
Mult(a, b, signedArith) ==
    LET Positive(w) == IF signedArith /\ Negative(w) THEN Wrap(-w) ELSE w
        negative == signedArith /\ Negative(a) # Negative(b)
        turns[i \in 0 .. WordBits] ==
            IF i = 0 THEN [done |-> FALSE, lo |-> 0, hi |-> 0, bHi |-> 0,
                           bLo |-> Positive(b), a |-> Positive(a)]
            ELSE LET s == turns[i - 1] IN MultTurn(s)
        end == turns[WordBits]
        lo == Wrap(Complement(end.lo) + 1)
    IN  CASE a = 0 \/ b = 0 -> <<0, 0>>
          [] negative -> <<Wrap(Complement(end.hi) + (IF lo = 0 THEN 1 ELSE 0)), lo>>
          [] OTHER -> <<end.hi, end.lo>>

SetLess(op, a, b) ==
    LET less == IF op \in {"SLT", "SLTI"} THEN Signed(a) < Signed(b) ELSE a < b
    IN  IF less THEN 1 ELSE 0

ShiftLeft(w, n) == Wrap(w * 2^n)

\* SRA and SRAV shift the sign in, SRL and SRLV zeroes.
ShiftRight(op, w, n) ==
    IF op \in {"SRA", "SRAV"} THEN Wrap(Signed(w) \div 2^n) ELSE w \div 2^n

\* ANDI, ORI and XORI do not extend the immediate's sign.
Logic(op, a, b) ==
    LET x == IF op \in {"ANDI", "ORI", "XORI"} THEN b % 2^HalfBits ELSE b
    IN  CASE op \in {"AND", "ANDI"} -> a & x
          [] op \in {"OR", "ORI"} -> a | x
          [] op = "NOR" -> Complement(a | x)
          [] op \in {"XOR", "XORI"} -> a ^^ x

(***************************************************************************)
(* Machine::OneInstruction for an instruction i and registers r.           *)
(***************************************************************************)
Immediates == {"ADDI", "ADDIU", "SLTI", "SLTIU", "ANDI", "ORI", "XORI", "LUI"}
Adds == {"ADD", "ADDI", "ADDIU", "ADDU"}
Loads == {"LB", "LBU", "LH", "LHU", "LW", "LWL", "LWR"}
Stores == {"SB", "SH", "SW", "SWL", "SWR"}
Links == {"BGEZAL", "BLTZAL", "JAL"}

Operand(r, i) == IF i.opCode \in Immediates THEN i.extra ELSE r[i.rt]

\* What an arithmetic, logic, shift or move instruction puts in its register.
Result(r, i) ==
    LET op == i.opCode
        a == r[i.rs]
        b == Operand(r, i)
    IN  CASE op \in Adds -> Wrap(a + b)
          [] op \in {"SUB", "SUBU"} -> Wrap(a - b)
          [] op \in {"SLT", "SLTI", "SLTIU", "SLTU"} -> SetLess(op, a, b)
          [] op = "LUI" -> Wrap(b * 2^HalfBits)
          [] op = "SLL" -> ShiftLeft(b, i.extra)
          [] op = "SLLV" -> ShiftLeft(b, a % WordBits)
          [] op \in {"SRA", "SRL"} -> ShiftRight(op, b, i.extra)
          [] op \in {"SRAV", "SRLV"} -> ShiftRight(op, b, a % WordBits)
          [] op = "MFHI" -> r[HiReg]
          [] op = "MFLO" -> r[LoReg]
          [] OTHER -> Logic(op, a, b)

\* The registers after the switch statement, before the delayed load.
Written(r, i) ==
    LET op == i.opCode
        HiLo(pair) == [r EXCEPT ![HiReg] = pair[1], ![LoReg] = pair[2]]
    IN  CASE op \in {"MULT", "MULTU"} -> HiLo(Mult(r[i.rs], r[i.rt], op = "MULT"))
          [] op \in {"DIV", "DIVU"} -> HiLo(Div(r[i.rs], r[i.rt], op = "DIV"))
          [] op = "MTHI" -> [r EXCEPT ![HiReg] = r[i.rs]]
          [] op = "MTLO" -> [r EXCEPT ![LoReg] = r[i.rs]]
          [] op \in Links -> [r EXCEPT ![RetAddrReg] = Wrap(r[NextPCReg] + 4)]
          [] op = "JALR" -> [r EXCEPT ![i.rd] = Wrap(r[NextPCReg] + 4)]
          [] op \in Immediates -> [r EXCEPT ![i.rt] = Result(r, i)]
          [] op \in Loads \cup Stores \cup {"J", "JR", "BEQ", "BNE", "BGEZ", "BGTZ",
                                          "BLEZ", "BLTZ"} -> r
          [] OTHER -> [r EXCEPT ![i.rd] = Result(r, i)]

BranchTaken(r, i) ==
    LET a == r[i.rs]
    IN  CASE i.opCode = "BEQ" -> a = r[i.rt]
          [] i.opCode = "BNE" -> a # r[i.rt]
          [] i.opCode \in {"BGEZ", "BGEZAL"} -> ~Negative(a)
          [] i.opCode \in {"BLTZ", "BLTZAL"} -> Negative(a)
          [] i.opCode = "BGTZ" -> Signed(a) > 0
          [] i.opCode = "BLEZ" -> Signed(a) <= 0
          [] OTHER -> FALSE

\* The next NextPC, after the link register was written: a jump stays in the
\* region the four highest bits of the address give.
PcAfter(r, i) ==
    LET next == Wrap(r[NextPCReg] + 4)
    IN  CASE BranchTaken(r, i) -> Wrap(r[NextPCReg] + 4 * i.extra)
          [] i.opCode \in {"J", "JAL"} ->
                (next - (next % 2^(WordBits - 4))) | (4 * i.extra)
          [] i.opCode \in {"JR", "JALR"} -> r[i.rs]
          [] OTHER -> next

\* The address and the size of a load's or a store's memory access.
Address(r, i) == Wrap(r[i.rs] + i.extra)
Size(i) ==
    CASE i.opCode \in {"LB", "LBU", "SB"} -> 1
      [] i.opCode \in {"LH", "LHU", "SH"} -> 2
      [] OTHER -> 4

\* The value a load gives its register, value being what it read.  LWL and
\* LWR run only on whole words: LWR replaces the lowest byte of the register,
\* or of what the previous instruction has loaded into it.
Loaded(r, i, value) ==
    LET old == IF r[LoadReg] = i.rt THEN r[LoadValueReg] ELSE r[i.rt]
    IN  CASE i.opCode \in {"LB", "LH"} -> Extended(value, ByteBits * Size(i))
          [] i.opCode = "LWR" ->
                old - (old % 2^ByteBits) + (value \div 2^(3 * ByteBits))
          [] OTHER -> value

\* The value a store puts into the memory, where value is: SWR replaces the
\* highest byte of the word.
Stored(r, i, value) ==
    IF i.opCode = "SWR"
    THEN (value % 2^(3 * ByteBits)) + Wrap(r[i.rt] * 2^(3 * ByteBits))
    ELSE r[i.rt] % 2^(ByteBits * Size(i))

DelayedLoad(r, nextReg, nextValue) ==
    [[r EXCEPT ![r[LoadReg]] = r[LoadValueReg]]
        EXCEPT ![LoadReg] = nextReg, ![LoadValueReg] = nextValue, ![0] = 0]

\* The registers after instruction i, whose load read value.
Executed(r, i, value) ==
    LET w == Written(r, i)
        d == IF i.opCode \in Loads THEN DelayedLoad(w, i.rt, Loaded(r, i, value))
                                   ELSE DelayedLoad(w, 0, 0)
    IN  [d EXCEPT ![PrevPCReg] = r[PCReg], ![PCReg] = r[NextPCReg],
                  ![NextPCReg] = PcAfter(w, i)]

\* The exceptions the instruction raises before it has used the memory.
Raises(r, i) ==
    CASE i.opCode = "SYSCALL" -> "Syscall"
      [] i.opCode \in {"RES", "UNIMP"} -> "IllegalInstr"
      [] \/ i.opCode \in {"ADD", "ADDI"} /\ AddOverflows(r[i.rs], Operand(r, i))
         \/ i.opCode = "SUB" /\ SubOverflows(r[i.rs], r[i.rt]) -> "Overflow"
      [] OTHER -> "No"

\* What ends the simulator: the assertions of LWL, LWR, SWL and SWR, which
\* run on whole words only, and a division the host cannot do.
Aborts(r, i) ==
    \/ i.opCode \in {"LWL", "LWR", "SWL", "SWR"} /\ Address(r, i) % 4 # 0
    \/ i.opCode = "DIV" /\ DivTrapsHost(r[i.rs], r[i.rt])
==============================================================================
