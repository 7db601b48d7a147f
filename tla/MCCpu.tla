-------------------------------- MODULE MCCpu --------------------------------
(***************************************************************************)
(* Small programs for the machine, with words of 12 bits.  In memory an    *)
(* instruction is its number in Listing; word 0 is a SLL, as on a MIPS.    *)
(***************************************************************************)
EXTENDS Cpu

IFormat(op, rs, rt, imm) ==
    [op |-> op, rs |-> rs, rt |-> rt, rd |-> (imm % 2^16) \div 2^11,
     shamt |-> ((imm % 2^16) \div 2^6) % 2^5, funct |-> imm % 2^6]
RFormat(funct, rs, rt, rd, shamt) ==
    [op |-> 0, rs |-> rs, rt |-> rt, rd |-> rd, shamt |-> shamt, funct |-> funct]

Nop == RFormat(0, 0, 0, 0, 0)
SYSCALL == RFormat(12, 0, 0, 0, 0)
ADDIU(rt, rs, imm) == IFormat(9, rs, rt, imm)
LW(rt, imm) == IFormat(35, 0, rt, imm)
LWS(rt, imm) == IFormat(35, StackReg, rt, imm)
SW(rt, rs, imm) == IFormat(43, rs, rt, imm)
Clear(rd) == RFormat(33, 0, 0, rd, 0)

\* Arithmetic on registers 4 and 5, and on 4 and an immediate, into register 3.
Functions3 == << 0, 1, 2, 3, 4, 6, 7, 16, 17, 18, 19, 24, 25, 26, 27, 32, 33, 34, 35, 36, 37,
                 38, 39, 42, 43 >>
Arithmetic ==
    [k \in DOMAIN Functions3 |-> RFormat(Functions3[k], 4, 5, 3, 9)]
    \o [k \in 1 .. 16 |-> IFormat(7 + (k + 1) \div 2, 4, 3, IF k % 2 = 0 THEN -1 ELSE 21)]
\* Loads and stores at what register 4 points to.
Accesses == [k \in 1 .. 16 |-> IFormat(31 + k, 4, 5, 0)]
\* Branches and jumps to address 20.
Jumps ==
    [k \in 1 .. 4 |-> IFormat(3 + k, 4, 0, 2)] \o [k \in 1 .. 5 |-> IFormat(1, 4, (k % 3) + 16 * (k \div 4), 2)]
    \o << IFormat(2, 0, 0, 5), IFormat(3, 0, 0, 5), RFormat(8, 4, 0, 31, 0), RFormat(9, 4, 0, 31, 0) >>

Listing ==
    << SYSCALL, LW(2, 28), LW(4, 20), LW(4, 24), LW(4, 28), LW(5, 20), LW(5, 24), LW(5, 28), LW(6, 24),
       SW(4, 2, 0), SW(5, StackReg, -4), SW(6, 0, 24), Clear(2), ADDIU(2, 0, 1), ADDIU(2, 0, 17),
       ADDIU(2, 0, 24), ADDIU(2, 0, 25), ADDIU(4, 0, 1), ADDIU(4, 0, 28), ADDIU(6, 0, 1),
       ADDIU(6, 0, 24), LWS(4, -32), LWS(5, -32), LWS(2, -28) >> \o Arithmetic \o Accesses \o Jumps
Word(i) == LET l == Listing IN CHOOSE w \in DOMAIN l : l[w] = i
MCFields(w) ==
    CASE w = 0 -> Nop
      [] w \in DOMAIN Listing -> Listing[w]
      [] OTHER -> IFormat(20, 0, 0, 0)

Program(code, data) ==
    [code |-> [virtualAddr |-> 0, words |-> code],
     initData |-> [virtualAddr |-> 4 * Len(code), words |-> data],
     uninitData |-> 4]

Load45 == << Word(LW(4, 20)), Word(LW(5, 24)), Word(Clear(2)) >>
Halt == << Word(SYSCALL) >>
Operation(w, data) == Program(Load45 \o <<w>> \o Halt, data)
Load4 == << Word(LW(4, 28)), Word(Clear(2)) >>
HaltOrExit == << Word(ADDIU(6, 0, 1)), Word(SYSCALL), Word(ADDIU(2, 0, 1)), Word(SYSCALL) >>
Jump(w, data) == Program(Load4 \o <<w>> \o HaltOrExit, data)
\* Two threads, of which one at a time has a stack.
Thread ==
    Program(<< Word(ADDIU(2, 0, 17)), Word(ADDIU(6, 0, 24)), Word(LW(5, 28)), Word(SYSCALL),
               Word(ADDIU(2, 0, 17)), Word(SYSCALL),
               Word(SW(5, StackReg, -4)), Word(ADDIU(2, 0, 1)), Word(SYSCALL) >>, <<>>)
Process ==
    Program(<< Word(ADDIU(2, 0, 24)), Word(ADDIU(4, 0, 28)), Word(LW(6, 24)), Word(SYSCALL),
               Word(SW(6, 0, 24)), Word(ADDIU(2, 0, 1)), Word(SYSCALL) >>, <<5>>)
\* A thread gets a page while its main thread goes on.
Heap ==
    Program(<< Word(ADDIU(2, 0, 17)), Word(ADDIU(6, 0, 24)), Word(SYSCALL),
               Word(SW(5, StackReg, -4)), Word(ADDIU(2, 0, 1)), Word(SYSCALL),
               Word(ADDIU(2, 0, 25)), Word(ADDIU(4, 0, 1)), Word(SYSCALL), Word(SW(4, 2, 0)),
               Word(ADDIU(2, 0, 1)), Word(SYSCALL) >>, <<>>)

\* Call type with pointer p in registers 4 and 5; three instructions before the
\* halt can be skipped.
Call(p, type) ==
    Program(<< Word(LWS(2, -28)), Word(LWS(4, -32)), Word(LWS(5, -32)), Word(SYSCALL),
               Word(Clear(2)), Word(Clear(2)), Word(Clear(2)), Word(SYSCALL) >>, <<p, type>>)

Operations == {Word(i) : i \in Range(Arithmetic \o Accesses)}
JumpWords == {Word(i) : i \in Range(Jumps)}
Edges == {0, 1, 20, 2^11 - 1, 2^11, 2^12 - 1}
MCPrograms == {Process, Heap}
Immediate == {Word(i) : i \in Range(SubSeq(Arithmetic, Len(Functions3) + 1, Len(Arithmetic)) \o Accesses)}
\* Pointers to zeroes, to the last byte and outside of the address space.
Pointers == {32, 79, 2^11}
CallTypes == (DOMAIN Calls \cup {1, 3}) \ {SC_Threadcreate, SC_Forkexec}
MCBootPrograms ==
    {Operation(w, <<x, y>>) : w \in Operations \ Immediate, x, y \in Edges}
    \cup {Operation(w, <<x, 20>>) : w \in Immediate, x \in Edges}
    \cup {Jump(w, <<x>>) : w \in JumpWords, x \in {0, 20, 2^12 - 1}}
    \cup {Call(p, type) : p \in Pointers, type \in CallTypes} \cup {Call(0, SC_Sendprocess)}
    \cup {Thread, Process, Heap}
MCStrings == {<<>>, <<3>>}
==============================================================================
