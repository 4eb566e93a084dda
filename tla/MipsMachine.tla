---------------------------- MODULE MipsMachine ----------------------------
(***************************************************************************)
(* The simulated processor (machine/mipssim.cc, machine/translate.cc): one *)
(* action per kind of instruction, the delayed load, the traps, the        *)
(* interrupts between two instructions, and the switch between two user    *)
(* programs that share the registers.                                      *)
(*                                                                         *)
(* A word has four bytes of ByteBits bits: everything the code does with   *)
(* masks and shifts of 8, 16, 24 and 32 is done here with ByteBits times   *)
(* 1, 2, 3 and 4.  Words are their unsigned values; ToInt reads one as an  *)
(* int.  Memory is little endian, and SIM_FIX is defined (Makefile).       *)
(*                                                                         *)
(* Instructions are decoded: Decode's fields, with extra sign-extended. The *)
(* text of a program is kept apart from mainMemory, so the inputs are      *)
(* programs that do not use their own text as data; a program that leaves  *)
(* its text is followed no further.  Load makes every page valid and       *)
(* writable, so Translate fails only with AddressErrorException.           *)
(***************************************************************************)
EXTENDS Integers, Sequences, FiniteSetsExt, Bitwise

CONSTANTS
    Threads,
    ByteBits,
    GeneralRegs,   \* the general registers the programs use, 0 among them
    PageSize,
    Inputs,        \* [text, pageTable, regs, memory]: what the threads start from
    SC_Halt, SC_Exit, SC_Add, SC_Send, SC_Receive,
    OtherCalls,    \* the system calls that put a result in r2
    Results,       \* the results they return
    NULL

W == 4 * ByteBits
ToInt(w) == IF w >= 2^(W - 1) THEN w - 2^W ELSE w
ToWord(n) == n % 2^W
Negative(w) == w >= 2^(W - 1)   \* w & SIGN_BIT

R31 == 31
HiReg == 32
LoReg == 33
PCReg == 34
NextPCReg == 35
PrevPCReg == 36
LoadReg == 37
LoadValueReg == 38
BadVAddrReg == 39
NumTotalRegs == GeneralRegs \cup 32..39

VARIABLES
    running,        \* the machine has not halted
    registers,
    mainMemory,
    currentThread,
    userRegisters,  \* of the threads that are not running
    finished,       \* the threads that called Exit
    input,          \* the member of Inputs this behaviour started from
    note            \* history: what each thread's last instruction was about

vars == <<running, registers, mainMemory, currentThread, userRegisters,
          finished, input, note>>

NoNote == [due |-> NULL, landed |-> NULL, half |-> NULL, stored |-> NULL, product |-> NULL]

RegistersOf(t) == IF t = currentThread THEN registers ELSE userRegisters[t]

\* The PCs are as InitRegisters leaves them; the general registers hold what
\* earlier instructions of the program could have put there.
InitRegisters(t) ==
    [r \in NumTotalRegs |-> CASE r \in DOMAIN input.regs[t] -> input.regs[t][r]
                              [] r = NextPCReg -> 4
                              [] OTHER -> 0]

Init ==
    /\ input \in Inputs
    /\ running = TRUE
    /\ userRegisters = [t \in Threads |-> InitRegisters(t)]
    /\ currentThread \in Threads
    /\ registers = userRegisters[currentThread]
    /\ mainMemory = input.memory
    /\ finished = {}
    /\ note = [t \in Threads |-> NoNote]

-----------------------------------------------------------------------------
(* Memory *)

Translates(addr, size) ==
    /\ addr % size = 0
    /\ addr \div PageSize < Len(input.pageTable[currentThread])

\* Faulty: the page table is not restored with a program's registers.
PhysAddrOfOne(t, addr) ==
    input.pageTable[CHOOSE u \in Threads : TRUE][(addr \div PageSize) + 1] * PageSize + (addr % PageSize)

PhysAddr(t, addr) ==
    input.pageTable[t][(addr \div PageSize) + 1] * PageSize + (addr % PageSize)

\* "size" bytes from virtual address addr of thread t, the lowest first.
Bytes(t, addr, size) ==
    MapThenSumSet(LAMBDA k : mainMemory[PhysAddr(t, addr + k)] * 2^(k * ByteBits), 0..(size - 1))

ReadMem(addr, size) == Bytes(currentThread, addr, size)

WriteMem(addr, size, value) ==
    LET first == PhysAddr(currentThread, addr) IN
    mainMemory' = [p \in DOMAIN mainMemory |->
                     IF p \in first..(first + size - 1)
                     THEN (value \div 2^((p - first) * ByteBits)) % 2^ByteBits
                     ELSE mainMemory[p]]

-----------------------------------------------------------------------------
(* The end of an instruction *)

DelayedLoad(regs, nextReg, nextValue) ==
    [regs EXCEPT ![regs[LoadReg]] = regs[LoadValueReg],
                 ![LoadReg] = nextReg, ![LoadValueReg] = nextValue, ![0] = 0]

AdvancePC(regs, pcAfter) ==
    [regs EXCEPT ![PrevPCReg] = regs[PCReg], ![PCReg] = regs[NextPCReg], ![NextPCReg] = pcAfter]

IncPC(regs) == AdvancePC(regs, ToWord(regs[NextPCReg] + 4))

\* What is noted after an instruction; an interrupt lands the load it finds due.
Note(n) == note' = [note EXCEPT ![currentThread] = [n EXCEPT !.landed = note[currentThread].due]]

NoteInterrupt ==
    LET due == note[currentThread].due IN
    note' = [note EXCEPT ![currentThread].landed = due, ![currentThread].due = NULL]

pcNext == ToWord(registers[NextPCReg] + 4)

Retire(regs, pcAfter, nextLoadReg, nextLoadValue) ==
    /\ registers' = AdvancePC(DelayedLoad(regs, nextLoadReg, nextLoadValue), pcAfter)
    /\ UNCHANGED <<running, currentThread, userRegisters, finished, input>>

\* An instruction that stays in the registers.
Compute(regs, pcAfter) ==
    /\ Retire(regs, pcAfter, 0, 0)
    /\ UNCHANGED mainMemory
    /\ Note(NoNote)

SetReg(r, value) == Compute([registers EXCEPT ![r] = value], pcNext)

\* Faulty: a trap leaves the load in progress to the kernel.
TrapKeepingLoad(badVAddr) == [registers EXCEPT ![BadVAddrReg] = badVAddr]

\* The registers ExceptionHandler finds.
RaiseException(badVAddr) == DelayedLoad([registers EXCEPT ![BadVAddrReg] = badVAddr], 0, 0)

\* The handler prints a message and returns: the instruction starts over.
UnexpectedException(badVAddr) ==
    /\ registers' = RaiseException(badVAddr)
    /\ Note(NoNote)
    /\ UNCHANGED <<running, mainMemory, currentThread, userRegisters, finished, input>>

-----------------------------------------------------------------------------
(* The instruction at PC *)

Alive == running /\ currentThread \notin finished

instr == input.text[currentThread][(registers[PCReg] \div 4) + 1]

Fetched(opCodes) ==
    /\ Alive
    /\ Translates(registers[PCReg], 4)
    /\ registers[PCReg] \div 4 < Len(input.text[currentThread])
    /\ instr.opCode \in opCodes

FetchFault ==
    /\ Alive
    /\ ~Translates(registers[PCReg], 4)
    /\ UnexpectedException(registers[PCReg])

rs == registers[instr.rs]
rt == registers[instr.rt]
extra == ToWord(instr.extra)
halfExtra == instr.extra % 2^(W \div 2)       \* extra & 0xffff
branchTo == ToWord(registers[NextPCReg] + 4 * instr.extra)
loadAddr == ToWord(rs + instr.extra)
link == pcNext

Overflow ==
    LET sum == CASE instr.opCode = "ADD" -> ToInt(rs) + ToInt(rt)
                 [] instr.opCode = "ADDI" -> ToInt(rs) + instr.extra
                 [] instr.opCode = "SUB" -> ToInt(rs) - ToInt(rt)
    IN sum # ToInt(ToWord(sum))

Add ==
    /\ Fetched({"ADD", "ADDI", "SUB"})
    /\ IF Overflow
       THEN UnexpectedException(0)
       ELSE CASE instr.opCode = "ADD" -> SetReg(instr.rd, ToWord(rs + rt))
              [] instr.opCode = "ADDI" -> SetReg(instr.rt, ToWord(rs + extra))
              [] instr.opCode = "SUB" -> SetReg(instr.rd, ToWord(rs - rt))

AddUnsigned ==
    \/ Fetched({"ADDIU"}) /\ SetReg(instr.rt, ToWord(rs + extra))
    \/ Fetched({"ADDU"}) /\ SetReg(instr.rd, ToWord(rs + rt))
    \/ Fetched({"SUBU"}) /\ SetReg(instr.rd, ToWord(rs - rt))

Logic ==
    \/ Fetched({"AND"}) /\ SetReg(instr.rd, rs & rt)
    \/ Fetched({"ANDI"}) /\ SetReg(instr.rt, rs & halfExtra)
    \/ Fetched({"OR"}) /\ SetReg(instr.rd, rs | rt)
    \/ Fetched({"ORI"}) /\ SetReg(instr.rt, rs | halfExtra)
    \/ Fetched({"XOR"}) /\ SetReg(instr.rd, rs ^^ rt)
    \/ Fetched({"XORI"}) /\ SetReg(instr.rt, rs ^^ halfExtra)
    \/ Fetched({"NOR"}) /\ SetReg(instr.rd, 2^W - 1 - (rs | rt))
    \/ Fetched({"LUI"}) /\ SetReg(instr.rt, ToWord(extra * 2^(W \div 2)))

\* SRL and SRLV shift "tmp", an int: their sign bit is copied as well.
Shift ==
    /\ Fetched({"SLL", "SLLV", "SRA", "SRAV", "SRL", "SRLV"})
    /\ LET by == IF instr.opCode \in {"SLL", "SRA", "SRL"} THEN instr.extra ELSE rs % W
       IN SetReg(instr.rd, IF instr.opCode \in {"SLL", "SLLV"}
                           THEN ToWord(rt * 2^by)
                           ELSE ToWord(ToInt(rt) \div 2^by))

SetLess ==
    LET Truth(b) == IF b THEN 1 ELSE 0 IN
    \/ Fetched({"SLT"}) /\ SetReg(instr.rd, Truth(ToInt(rs) < ToInt(rt)))
    \/ Fetched({"SLTI"}) /\ SetReg(instr.rt, Truth(ToInt(rs) < instr.extra))
    \/ Fetched({"SLTU"}) /\ SetReg(instr.rd, Truth(rs < rt))
    \/ Fetched({"SLTIU"}) /\ SetReg(instr.rt, Truth(rs < extra))

BranchTaken(value) ==
    CASE instr.opCode = "BEQ" -> value = rt
      [] instr.opCode = "BNE" -> value # rt
      [] instr.opCode \in {"BGEZ", "BGEZAL"} -> ~Negative(value)
      [] instr.opCode \in {"BLTZ", "BLTZAL"} -> Negative(value)
      [] instr.opCode = "BGTZ" -> ToInt(value) > 0
      [] instr.opCode = "BLEZ" -> ToInt(value) <= 0

\* The linking branches write R31 before they test rs.
Branch ==
    LET regs == IF instr.opCode \in {"BGEZAL", "BLTZAL"}
                THEN [registers EXCEPT ![R31] = link] ELSE registers
    IN /\ Fetched({"BEQ", "BNE", "BGEZ", "BGEZAL", "BLTZ", "BLTZAL", "BGTZ", "BLEZ"})
       /\ Compute(regs, IF BranchTaken(regs[instr.rs]) THEN branchTo ELSE pcNext)

Jump ==
    LET region == pcNext - (pcNext % 2^(W - 4))
        linked(r) == [registers EXCEPT ![r] = link]
    IN \/ Fetched({"J"}) /\ Compute(registers, region + 4 * instr.extra)
       \/ Fetched({"JAL"}) /\ Compute(linked(R31), region + 4 * instr.extra)
       \/ Fetched({"JR"}) /\ Compute(registers, rs)
       \/ Fetched({"JALR"}) /\ Compute(linked(instr.rd), linked(instr.rd)[instr.rs])

MoveHiLo ==
    \/ Fetched({"MFHI"}) /\ SetReg(instr.rd, registers[HiReg])
    \/ Fetched({"MFLO"}) /\ SetReg(instr.rd, registers[LoReg])
    \/ Fetched({"MTHI"}) /\ SetReg(HiReg, rs)
    \/ Fetched({"MTLO"}) /\ SetReg(LoReg, rs)

Reserved == Fetched({"RES", "UNIMP"}) /\ UnexpectedException(0)

-----------------------------------------------------------------------------
(* Division and multiplication *)

\* C divides towards zero.
Quotient(a, b) ==
    LET abs(n) == IF n < 0 THEN -n ELSE n
        q == abs(a) \div abs(b)
    IN IF (a < 0) = (b < 0) THEN q ELSE -q

\* The host's division of the least int by -1 traps: the simulator dies.
Divide ==
    LET a == IF instr.opCode = "DIV" THEN ToInt(rs) ELSE rs
        b == IF instr.opCode = "DIV" THEN ToInt(rt) ELSE rt
        HiLo(hi, lo) == Compute([registers EXCEPT ![HiReg] = ToWord(hi), ![LoReg] = ToWord(lo)], pcNext)
    IN /\ Fetched({"DIV", "DIVU"})
       /\ CASE b = 0 -> HiLo(0, 0)
            [] a = -(2^(W - 1)) /\ b = -1 ->
                 /\ running' = FALSE
                 /\ UNCHANGED <<registers, mainMemory, currentThread, userRegisters, finished, input, note>>
            [] OTHER -> HiLo(a - b * Quotient(a, b), Quotient(a, b))

\* The loop of Mult: step[i] is the state after i iterations.
MultLoop(a, b) ==
    LET step[i \in 0..W] ==
          IF i = 0 THEN [a |-> a, bHi |-> 0, bLo |-> b, hi |-> 0, lo |-> 0, break |-> FALSE]
          ELSE LET s == step[i - 1]
                   odd == s.a % 2 = 1
                   lo == ToWord(s.lo + s.bLo)
                   carry == IF lo < s.bLo THEN 1 ELSE 0
               IN IF s.break THEN s
                  ELSE [a |-> ToWord(ToInt(s.a) \div 2),
                        bHi |-> ToWord(2 * s.bHi + (IF Negative(s.bLo) THEN 1 ELSE 0)),
                        bLo |-> ToWord(2 * s.bLo),
                        hi |-> IF odd THEN ToWord(s.hi + carry + s.bHi) ELSE s.hi,
                        lo |-> IF odd THEN lo ELSE s.lo,
                        break |-> s.a = 1]
    IN step[W]

\* Faulty: the two's complement of the double word forgets the carry out of lo.
MultLosingCarry(a, b, signedArith) ==
    LET abs(n) == IF signedArith /\ Negative(n) THEN ToWord(-n) ELSE n
        p == MultLoop(abs(a), abs(b))
    IN IF signedArith /\ Negative(a) # Negative(b)
       THEN [hi |-> 2^W - 1 - p.hi, lo |-> ToWord(-p.lo)]
       ELSE [hi |-> p.hi, lo |-> p.lo]

Mult(a, b, signedArith) ==
    LET abs(n) == IF signedArith /\ Negative(n) THEN ToWord(-n) ELSE n
        p == MultLoop(abs(a), abs(b))
        lo == ToWord(2^W - 1 - p.lo + 1)
    IN CASE a = 0 \/ b = 0 -> [hi |-> 0, lo |-> 0]
         [] signedArith /\ Negative(a) # Negative(b) ->
              [hi |-> ToWord(2^W - 1 - p.hi + (IF lo = 0 THEN 1 ELSE 0)), lo |-> lo]
         [] OTHER -> [hi |-> p.hi, lo |-> p.lo]

Multiply ==
    LET signedArith == instr.opCode = "MULT"
        p == Mult(rs, rt, signedArith)
        factor(w) == IF signedArith THEN ToInt(w) ELSE w
    IN /\ Fetched({"MULT", "MULTU"})
       /\ Retire([registers EXCEPT ![HiReg] = p.hi, ![LoReg] = p.lo], pcNext, 0, 0)
       /\ UNCHANGED mainMemory
       /\ Note([NoNote EXCEPT !.product = factor(rs) * factor(rt)])

-----------------------------------------------------------------------------
(* Loads *)

\* The loaded value reaches the register one instruction later.
LoadValue(value, n) ==
    /\ Retire(registers, pcNext, instr.rt, value)
    /\ UNCHANGED mainMemory
    /\ Note(n)

SignExtend(value, bits) == IF value >= 2^(bits - 1) THEN ToWord(value - 2^bits) ELSE value

LoadPart ==
    LET size == IF instr.opCode \in {"LB", "LBU"} THEN 1 ELSE 2
        value == ReadMem(loadAddr, size)
    IN /\ Fetched({"LB", "LBU", "LH", "LHU"})
       /\ IF ~Translates(loadAddr, size)
          THEN UnexpectedException(loadAddr)
          ELSE LoadValue(IF instr.opCode \in {"LB", "LH"}
                         THEN SignExtend(value, size * ByteBits) ELSE value, NoNote)

LoadWord ==
    /\ Fetched({"LW"})
    /\ IF ~Translates(loadAddr, 4)
       THEN UnexpectedException(loadAddr)
       ELSE LET value == ReadMem(loadAddr, 4)
            IN LoadValue(value, [NoNote EXCEPT !.due = [reg |-> instr.rt, value |-> value]])

byte == loadAddr % 4
aligned == loadAddr - byte

\* The address of the word whose half this instruction moves, and the note of
\* an instruction that moves the other half of it, to or from the same register.
base == ToWord(IF instr.opCode \in {"LWL", "SWL"} THEN loadAddr - 3 ELSE loadAddr)
thisHalf == [opCode |-> instr.opCode, reg |-> instr.rt, base |-> base,
             value |-> IF instr.opCode \in {"SWL", "SWR"} THEN rt ELSE 0]
otherHalf == [thisHalf EXCEPT !.opCode = CASE instr.opCode = "LWL" -> "LWR" [] instr.opCode = "LWR" -> "LWL"
                                           [] instr.opCode = "SWL" -> "SWR" [] instr.opCode = "SWR" -> "SWL"]
Completes == note[currentThread].half = otherHalf

\* Faulty: the register, without the load on its way to it.
PendingInRegister == rt

\* What the register will hold when the load before this one has landed.
Pending ==
    IF registers[LoadReg] = instr.rt THEN registers[LoadValueReg] ELSE rt

LoadSide ==
    LET value == ReadMem(aligned, 4)
        left == (3 - byte) * ByteBits
        right == (4 - byte) * ByteBits
        merged == IF instr.opCode = "LWL"
                  THEN (Pending % 2^left) + ToWord(value * 2^left)
                  ELSE Pending - (Pending % 2^right) + (value \div 2^(W - right))
    IN /\ Fetched({"LWL", "LWR"})
       /\ IF ~Translates(aligned, 4)
          THEN UnexpectedException(aligned)
          ELSE LoadValue(merged,
                 IF Completes
                 THEN [NoNote EXCEPT !.due = [reg |-> instr.rt, value |-> Bytes(currentThread, base, 4)]]
                 ELSE [NoNote EXCEPT !.half = thisHalf])

-----------------------------------------------------------------------------
(* Stores *)

\* An instruction that stores "value"; n is what it notes.
Store(addr, size, value, n) ==
    IF ~Translates(addr, size)
    THEN UnexpectedException(addr)
    ELSE /\ Retire(registers, pcNext, 0, 0)
         /\ WriteMem(addr, size, value)
         /\ Note(n)

StoreWord ==
    LET size == CASE instr.opCode = "SB" -> 1 [] instr.opCode = "SH" -> 2 [] instr.opCode = "SW" -> 4
    IN Fetched({"SB", "SH", "SW"}) /\ Store(loadAddr, size, rt, NoNote)

\* The bytes of the register that SWL and SWR put in the aligned word "value".
MergeSide(value) ==
    LET left == (3 - byte) * ByteBits
        right == byte * ByteBits
    IN IF instr.opCode = "SWL"
       THEN value - (value % 2^(W - left)) + (rt \div 2^left)
       ELSE (value % 2^right) + ToWord(rt * 2^right)

StoreSide ==
    /\ Fetched({"SWL", "SWR"})
    /\ IF ~Translates(aligned, 4)
       THEN UnexpectedException(aligned)
       ELSE Store(aligned, 4, MergeSide(ReadMem(aligned, 4)),
              IF Completes THEN [NoNote EXCEPT !.stored = [base |-> base, value |-> rt]]
                           ELSE [NoNote EXCEPT !.half = thisHalf])

-----------------------------------------------------------------------------
(* System calls, and the kernel between two instructions *)

\* The call's number is in r2 once the load in progress has landed.
called == RaiseException(0)[2]

Halt ==
    /\ Fetched({"SYSCALL"}) /\ called = SC_Halt
    /\ running' = FALSE
    /\ registers' = RaiseException(0)
    /\ Note(NoNote)
    /\ UNCHANGED <<mainMemory, currentThread, userRegisters, finished, input>>

\* A load that landed in r2 is overwritten by the result.
NoteResult ==
    LET due == note[currentThread].due IN
    note' = [note EXCEPT ![currentThread] =
              [NoNote EXCEPT !.landed = IF due # NULL /\ due.reg = 2 THEN NULL ELSE due]]

\* SC_Add returns its result, and then runs into ASSERTNOTREACHED.
SysAdd ==
    LET regs == RaiseException(0) IN
    /\ Fetched({"SYSCALL"}) /\ called = SC_Add
    /\ running' = FALSE
    /\ registers' = IncPC([regs EXCEPT ![2] = ToWord(regs[4] + regs[5])])
    /\ NoteResult
    /\ UNCHANGED <<mainMemory, currentThread, userRegisters, finished, input>>

\* Exit of the first process halts the machine; another's does not return.
Exit ==
    /\ Fetched({"SYSCALL"}) /\ called = SC_Exit
    /\ \/ running' = FALSE /\ UNCHANGED finished
       \/ finished' = finished \cup {currentThread} /\ UNCHANGED running
    /\ registers' = RaiseException(0)
    /\ Note(NoNote)
    /\ UNCHANGED <<mainMemory, currentThread, userRegisters, input>>

ReturnFrom(regs) ==
    /\ registers' = regs
    /\ UNCHANGED <<running, mainMemory, currentThread, userRegisters, finished, input>>

SystemCall ==
    /\ Fetched({"SYSCALL"}) /\ called \in OtherCalls
    /\ \E result \in Results :
        ReturnFrom(IncPC([RaiseException(0) EXCEPT ![2] = result]))
    /\ NoteResult

\* These return no result.  SocketReceive advances the PC when it succeeds, and
\* so does its caller.
SocketCall ==
    /\ Fetched({"SYSCALL"}) /\ called \in {SC_Send, SC_Receive}
    /\ \/ ReturnFrom(IncPC(RaiseException(0)))
       \/ called = SC_Receive /\ ReturnFrom(IncPC(IncPC(RaiseException(0))))
    /\ Note(NoNote)

\* A number that no case names: a message, and the instruction starts over.
UnexpectedCall ==
    /\ Fetched({"SYSCALL"})
    /\ called \notin {SC_Halt, SC_Exit, SC_Add, SC_Send, SC_Receive} \cup OtherCalls
    /\ UnexpectedException(0)

-----------------------------------------------------------------------------
(* Interrupts and the switch, between two instructions *)

\* The registers once CheckIfDue has found an interrupt due: the load in progress
\* lands before any handler runs.
RegistersInHandler == DelayedLoad(registers, 0, 0)

\* An interrupt whose handler leaves the CPU to the program.
CheckIfDue ==
    /\ Alive
    /\ registers' = RegistersInHandler
    /\ NoteInterrupt
    /\ UNCHANGED <<running, mainMemory, currentThread, userRegisters, finished, input>>

\* Faulty: the loop over the registers ends with the general ones.
SaveGeneralRegisters(regs) ==
    [r \in NumTotalRegs |-> IF r < HiReg THEN regs[r] ELSE userRegisters[currentThread][r]]

SaveUserState(regs) == regs

\* Scheduler::Run: in OneTick, after the timer's interrupt, or in a call that
\* waits, whose trap has landed the load already.
Switch(t) ==
    /\ running
    /\ t # currentThread /\ t \notin finished
    /\ userRegisters' = [userRegisters EXCEPT ![currentThread] = SaveUserState(RegistersInHandler)]
    /\ registers' = userRegisters[t]
    /\ currentThread' = t
    /\ NoteInterrupt
    /\ UNCHANGED <<running, mainMemory, finished, input>>

Next ==
    \/ FetchFault \/ Add \/ AddUnsigned \/ Logic \/ Shift \/ SetLess \/ Branch \/ Jump
    \/ Divide \/ Multiply \/ MoveHiLo \/ Reserved
    \/ LoadPart \/ LoadWord \/ LoadSide \/ StoreWord \/ StoreSide
    \/ Halt \/ SysAdd \/ Exit \/ SystemCall \/ SocketCall \/ UnexpectedCall
    \/ CheckIfDue
    \/ \E t \in Threads : Switch(t)

Spec == Init /\ [][Next]_vars

-----------------------------------------------------------------------------
(* Properties *)

Words == 0..(2^W - 1)

\* Registers and memory hold words and bytes; r0 is zero.
TypeOK ==
    /\ running \in BOOLEAN
    /\ registers \in [NumTotalRegs -> Words] /\ registers[0] = 0
    /\ userRegisters \in [Threads -> [NumTotalRegs -> Words]]
    /\ mainMemory \in [DOMAIN mainMemory -> 0..(2^ByteBits - 1)]
    /\ currentThread \in Threads /\ finished \subseteq Threads
    /\ DOMAIN note = Threads

\* What a program loads, by LW or by LWL and LWR on either side of a word of any
\* address and with any interrupt or program in between, is in the register once
\* its next instruction is over, whatever that instruction is, a trap included;
\* or, if an interrupt or a switch comes before that instruction, at once, so that
\* the instruction may overwrite it (OneInstruction, DelayedLoad, RaiseException,
\* CheckIfDue, SaveUserState).  What it stores by SWL and SWR is in its memory.
UnalignedAccess ==
    \A t \in Threads :
        /\ note[t].landed # NULL /\ note[t].landed.reg # 0 =>
             RegistersOf(t)[note[t].landed.reg] = note[t].landed.value
        /\ note[t].stored # NULL =>
             Bytes(t, note[t].stored.base, 4) = note[t].stored.value

\* HI and LO hold the exact double-length product, signed for MULT and unsigned for
\* MULTU, the least int included (Mult).
MultIsExact ==
    \A t \in Threads :
        note[t].product # NULL =>
            RegistersOf(t)[HiReg] * 2^W + RegistersOf(t)[LoReg] = note[t].product % 2^(2 * W)

\* Nothing a program executes and no interrupt in it changes another program's
\* registers or memory; and a switch changes nobody's, the PCs, HI and LO
\* included, but that the load in progress in the program that leaves is over
\* (Translate, RestoreState, SaveUserState, RestoreUserState).
Isolation ==
    [][\A t \in Threads :
        t # currentThread \/ currentThread' # currentThread =>
            /\ LET landing == IF t = currentThread
                              THEN {registers[LoadReg], LoadReg, LoadValueReg} ELSE {}
               IN \A r \in NumTotalRegs \ landing : RegistersOf(t)'[r] = RegistersOf(t)[r]
            /\ \A i \in DOMAIN input.pageTable[t] :
                \A p \in 0..(PageSize - 1) :
                    LET addr == input.pageTable[t][i] * PageSize + p IN
                    mainMemory'[addr] = mainMemory[addr]]_vars

=============================================================================
