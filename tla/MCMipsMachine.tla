--------------------------- MODULE MCMipsMachine ---------------------------
(***************************************************************************)
(* Short programs for MipsMachine, with 8-bit words and pages of two words.*)
(* The first thread runs each program of Programs against each companion   *)
(* of the second.  Text is in virtual pages 0 and 1, data in pages 2 and 3,*)
(* whose frames are not next to each other.                                *)
(***************************************************************************)
EXTENDS MipsMachine, TLC

CONSTANTS t1, t2

I(opCode, s, t, d, x) == [opCode |-> opCode, rs |-> s, rt |-> t, rd |-> d, extra |-> x]

\* Register 3 points to the data, register 2 holds an unaligned address in it that
\* starts in page 2 and ends in page 3; the others hold data.
Regs(a, b) == (0 :> 0) @@ (1 :> a) @@ (2 :> b) @@ (3 :> 16) @@ (4 :> 100) @@ (5 :> 60) @@ (31 :> 12)

Boundary == {1, 2, 85, 127, 128, 129, 255}

\* One instruction on boundary values, and two that read what it leaves.
OnRegisters ==
    {<<I(op, 1, 2, 5, 0), I("MFHI", 0, 0, 4, 0), I("MFLO", 0, 0, 5, 0)>> :
        op \in {"MULT", "MULTU", "DIV", "DIVU"}}
Arithmetic ==
    {<<I(op, 1, 2, 5, x)>> : op \in {"ADD", "ADDI", "ADDIU", "ADDU", "SUB", "SUBU", "SLT", "SLTI",
                                     "SLTIU", "SLTU", "SLL", "SLLV", "SRA", "SRAV", "SRL", "SRLV"},
                             x \in {1, 7}}
    \cup {<<I(op, 1, 2, 5, x), I("MTHI", 5, 0, 0, 0), I("MTLO", 2, 0, 0, 0)>> :
            op \in {"AND", "ANDI", "OR", "ORI", "XOR", "XORI", "NOR", "LUI"}, x \in {-6}}
Branching ==
    {<<I(op, 1, 2, 0, x), I("ADDIU", 1, 4, 0, 1), I(back, 1, 4, 4, 1), I("ADDIU", 1, 5, 0, 1)>> :
        op \in {"BEQ", "BNE", "BGEZ", "BGEZAL", "BGTZ", "BLEZ", "BLTZ", "BLTZAL", "J", "JAL", "RES"},
        back \in {"JR", "JALR", "UNIMP"}, x \in {2, 3}}

\* A load and what may follow it in its delay slot.
Pair(l, r, reg, x) == <<I(l, 3, reg, 0, x + 3), I(r, 3, reg, 0, x)>>
InDelaySlot ==
    {I("ADDU", 1, 2, 4, 0), I("ADDIU", 0, 4, 0, 5), I("LW", 3, 4, 0, 4), I("LB", 4, 4, 0, 0),
     I("SYSCALL", 0, 0, 0, 0), I("LH", 3, 5, 0, 1), I("JAL", 0, 0, 0, 3), I("SW", 3, 4, 0, 0),
     I("ADD", 1, 1, 4, 0), I("RES", 0, 0, 0, 0)}
Loads ==
    {Pair("LWL", "LWR", reg, x) \o <<i, I("ADDU", 0, 4, 5, 0)>> : reg \in {2, 4}, x \in {0, 1, 3}, i \in InDelaySlot}
    \cup {Pair("LWR", "LWL", 4, x - 3) \o <<i>> : x \in {4, 5}, i \in InDelaySlot}
    \cup {<<I("LW", 3, 4, 0, 0), I("LW", 3, 4, 0, 4), i>> : i \in InDelaySlot}
    \cup {<<I("LW", 3, reg, 0, x), i, I(part, 3, 4, 0, 2)>> :
            reg \in {2, 4}, x \in {0, 4}, i \in InDelaySlot, part \in {"LB", "LBU", "LH", "LHU"}}
Stores ==
    {Pair("SWL", "SWR", reg, x) : reg \in {1, 4}, x \in 0..4}
    \cup {Pair("SWR", "SWL", 4, x - 3) : x \in 3..4}
    \cup {<<I("LW", 3, 4, 0, 4)>> \o Pair("SWL", "SWR", 4, 1) \o <<I("LW", 3, 5, 0, 0)>>}
    \cup {<<I(op, 3, 4, 0, x), I("LW", 3, 4, 0, 0)>> : op \in {"SB", "SH", "SW"}, x \in {0, 2, -8}}
    \cup {<<I(op, 5, 4, 0, 0)>> : op \in {"SWL", "LWL", "SW"}}   \* beyond the page table

Companions ==
    {<<I("LW", 3, 1, 0, 4), I("ADDIU", 0, 2, 0, 5), I("SYSCALL", 0, 0, 0, 0)>>,
     Pair("LWL", "LWR", 4, 1) \o <<I("SW", 3, 4, 0, 4)>>}

Memory == [p \in 0..63 |-> (p + p \div 4) % 4]

Input(text, companion, a, b) ==
    [text |-> (t1 :> text) @@ (t2 :> companion),
     pageTable |-> (t1 :> <<0, 1, 4, 2>>) @@ (t2 :> <<6, 7, 3, 5>>),
     regs |-> (t1 :> Regs(a, b)) @@ (t2 :> Regs(1, 17)),
     memory |-> Memory]

SmallInputs ==
    {Input(text, <<>>, a, b) : text \in OnRegisters, a \in {0} \cup Boundary, b \in {0} \cup Boundary}
    \cup {Input(text, <<>>, a, b) : text \in Arithmetic, a \in {1, 127, 200}, b \in {1, 128}}
    \cup {Input(text, <<>>, a, 1) : text \in Branching, a \in {0, 1, 200}}
    \cup {Input(text, companion, 90, sc) :
            text \in Loads \cup Stores, companion \in Companions, sc \in {0, 1, 7, 42, 47, 48, 99}}

=============================================================================
