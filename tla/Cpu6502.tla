------------------------------ MODULE Cpu6502 ------------------------------
(* The processor core, emulator/cpu_core.c: one instruction of a 6502 or a *)
(* 65C02 as a function from a processor's state to the next.  The core's   *)
(* globals are a record: the registers, the status bits, the two pending   *)
(* flags, and the scratch values ea and value.  The bus it reads and       *)
(* writes is the record's world; a read may change it too.  Of the cycles  *)
(* an instruction takes, a parameter stands for the core's tables.         *)
EXTENDS Integers, Sequences, Bits

CONSTANTS
  CpuVariant,         \* cpu_variant: "nmos" or "65C02"
  CpuCycles(_),       \* ticktable: of an opcode, the cycles its instruction takes
  CpuRead(_, _),      \* of a world and an address: the byte, and the world after the read
  CpuWrite(_, _, _)   \* of a world, an address and a byte: the world

CpuByte(n) == n % 256
CpuWord(n) == n % 65536
CpuBit(b, k) == (b \div 2 ^ k) % 2
Complement(b) == 255 - b

CpuStart(world) == [a |-> 0, x |-> 0, y |-> 0, sp |-> 0, pc |-> 0,
                    n |-> 0, v |-> 0, d |-> 0, i |-> 0, z |-> 0, c |-> 0,
                    wai |-> FALSE, stp |-> FALSE, ea |-> 0, value |-> 0, world |-> world]

\* The status as PHP pushes it, and as PLP takes it back: bit 4 tells only a push of
\* BRK's or PHP's from one of an interrupt's.
CpuStatus(s, break) == 128 * s.n + 64 * s.v + 32 + 16 * break + 8 * s.d + 4 * s.i + 2 * s.z + s.c

WithStatus(s, b) == [s EXCEPT !.n = CpuBit(b, 7), !.v = CpuBit(b, 6), !.d = CpuBit(b, 3),
                              !.i = CpuBit(b, 2), !.z = CpuBit(b, 1), !.c = CpuBit(b, 0)]

NZ(s, b) == [s EXCEPT !.n = CpuBit(b, 7), !.z = IF CpuByte(b) = 0 THEN 1 ELSE 0]

----
\* Memory and the stack

CpuLoad(s, address) ==
  LET r == CpuRead(s.world, CpuWord(address)) IN [s EXCEPT !.value = r.value, !.world = r.world]

CpuStore(s, address, b) == [s EXCEPT !.world = CpuWrite(@, CpuWord(address), CpuByte(b))]

Push8(s, b) == [CpuStore(s, 256 + s.sp, b) EXCEPT !.sp = CpuByte(@ - 1)]
Push16(s, w) == Push8(Push8(s, w \div 256), CpuByte(w))

Pull8(s) == CpuLoad([s EXCEPT !.sp = CpuByte(@ + 1)], 256 + CpuByte(s.sp + 1))
Pull16(s) == LET lo == Pull8(s)  hi == Pull8(lo) IN [hi EXCEPT !.value = lo.value + 256 * @]

\* The address that two bytes of memory hold, in ea.
Pointer(s, low, high) ==
  LET lo == CpuLoad(s, low)  hi == CpuLoad(lo, high) IN [hi EXCEPT !.ea = lo.value + 256 * hi.value]

JumpVector(s, at) == LET p == Pointer(s, at, at + 1) IN [p EXCEPT !.pc = p.ea]

----
\* Addressing modes: ea, and pc behind the operand

OperandByte(s) == [CpuLoad(s, s.pc) EXCEPT !.pc = CpuWord(@ + 1)]
OperandWord(s) == [Pointer(s, s.pc, s.pc + 1) EXCEPT !.pc = CpuWord(@ + 2)]
Indexed(s, by) == [s EXCEPT !.ea = CpuWord(@ + by)]

ModeZeroPage(s, by) == LET o == OperandByte(s) IN [o EXCEPT !.ea = CpuByte(o.value + by)]

ModeRelative(s) ==
  LET o == OperandByte(s) IN [o EXCEPT !.ea = IF o.value >= 128 THEN o.value - 256 ELSE o.value]

\* JMP (addr): the NMOS part fetches the high byte from the start of the same page.
ModeIndirect(s, samePage) ==
  LET o == OperandWord(s)
      next == IF samePage THEN 256 * (o.ea \div 256) + CpuByte(o.ea + 1) ELSE o.ea + 1
  IN Pointer(o, o.ea, next)

ModeIndexedIndirect(s) == LET o == Indexed(OperandWord(s), s.x) IN Pointer(o, o.ea, o.ea + 1)

\* (zp), (zp,X) and (zp),Y: the pointer wraps around in zero page.
ModeZeroPagePointer(s, before, behind) ==
  LET o == OperandByte(s)  zp == CpuByte(o.value + before)
  IN Indexed(Pointer(o, zp, CpuByte(zp + 1)), behind)

Address(mode, s) ==
  CASE mode \in {"imp", "acc"} -> s
    [] mode = "imm" -> [s EXCEPT !.ea = s.pc, !.pc = CpuWord(@ + 1)]
    [] mode = "zp" -> ModeZeroPage(s, 0)
    [] mode = "zpx" -> ModeZeroPage(s, s.x)
    [] mode = "zpy" -> ModeZeroPage(s, s.y)
    [] mode = "rel" -> ModeRelative(s)
    [] mode = "abso" -> OperandWord(s)
    [] mode = "absx" -> Indexed(OperandWord(s), s.x)
    [] mode = "absy" -> Indexed(OperandWord(s), s.y)
    [] mode = "ind" -> ModeIndirect(s, TRUE)
    [] mode = "ind_65c02" -> ModeIndirect(s, FALSE)
    [] mode = "ind_absx" -> ModeIndexedIndirect(s)
    [] mode = "ind_zp" -> ModeZeroPagePointer(s, 0, 0)
    [] mode = "indx" -> ModeZeroPagePointer(s, s.x, 0)
    [] mode = "indy" -> ModeZeroPagePointer(s, 0, s.y)

GetValue(mode, s) == IF mode = "acc" THEN [s EXCEPT !.value = s.a] ELSE CpuLoad(s, s.ea)
PutValue(mode, s, b) == IF mode = "acc" THEN [s EXCEPT !.a = CpuByte(b)] ELSE CpuStore(s, s.ea, b)

----
\* Arithmetic

Overflow(a, b, sum) == IF CpuBit(a, 7) = CpuBit(b, 7) /\ CpuBit(a, 7) # CpuBit(sum, 7) THEN 1 ELSE 0

\* In decimal mode the NMOS part takes N and Z from the binary sum, the 65C02 from the
\* decimal one; both take V from the binary one.
Sum(s, b, decimal, carry, bin) ==
  LET t == [s EXCEPT !.v = Overflow(s.a, b, bin), !.c = carry, !.a = decimal]
  IN NZ(t, IF CpuVariant = "nmos" THEN bin ELSE decimal)

Adc(s) ==
  LET m == s.value
      bin == s.a + m + s.c
      lo == (s.a % 16) + (m % 16) + s.c
      hi == s.a \div 16 + m \div 16 + (IF lo > 9 THEN 1 ELSE 0)
      digits == 16 * ((IF hi > 9 THEN hi - 10 ELSE hi) % 16) + ((IF lo > 9 THEN lo - 10 ELSE lo) % 16)
  IN IF s.d = 1 THEN Sum(s, m, digits, IF hi > 9 THEN 1 ELSE 0, bin)
     ELSE Sum(s, m, CpuByte(bin), bin \div 256, CpuByte(bin))

Sbc(s) ==
  LET m == Complement(s.value)
      bin == s.a + m + s.c
      lo == (s.a % 16) - (s.value % 16) - (1 - s.c)
      hi == s.a \div 16 - s.value \div 16 - (IF lo < 0 THEN 1 ELSE 0)
      digits == 16 * ((IF hi < 0 THEN hi + 10 ELSE hi) % 16) + ((IF lo < 0 THEN lo + 10 ELSE lo) % 16)
  IN IF s.d = 1 THEN Sum(s, m, digits, IF hi < 0 THEN 0 ELSE 1, bin)
     ELSE Sum(s, m, CpuByte(bin), bin \div 256, CpuByte(bin))

Compare(s, register) ==
  [NZ(s, CpuByte(register - s.value)) EXCEPT !.c = IF register >= s.value THEN 1 ELSE 0]

ToA(s, b) == NZ([s EXCEPT !.a = b], b)
ToX(s, b) == NZ([s EXCEPT !.x = b], b)
ToY(s, b) == NZ([s EXCEPT !.y = b], b)

\* What a read-modify-write instruction makes of a byte: the byte, and the carry.
Shifted(op, b, c) ==
  CASE op = "asl" -> <<CpuByte(2 * b), CpuBit(b, 7)>>
    [] op = "lsr" -> <<b \div 2, CpuBit(b, 0)>>
    [] op = "rol" -> <<CpuByte(2 * b) + c, CpuBit(b, 7)>>
    [] op = "ror" -> <<b \div 2 + 128 * c, CpuBit(b, 0)>>
    [] op = "inc" -> <<CpuByte(b + 1), c>>
    [] op = "dec" -> <<CpuByte(b - 1), c>>

Modify(op, mode, s) ==
  LET g == GetValue(mode, s)  r == Shifted(op, g.value, g.c)
  IN PutValue(mode, NZ([g EXCEPT !.c = r[2]], r[1]), r[1])

ReadOp(op, mode, s) ==
  LET g == GetValue(mode, s) IN
  CASE op = "adc" -> Adc(g)
    [] op = "sbc" -> Sbc(g)
    [] op = "and" -> ToA(g, AndByte(g.a, g.value))
    [] op = "ora" -> ToA(g, OrByte(g.a, g.value))
    [] op = "eor" -> ToA(g, XorByte(g.a, g.value))
    [] op = "cmp" -> Compare(g, g.a)
    [] op = "cpx" -> Compare(g, g.x)
    [] op = "cpy" -> Compare(g, g.y)
    [] op = "lda" -> ToA(g, g.value)
    [] op = "ldx" -> ToX(g, g.value)
    [] op = "ldy" -> ToY(g, g.value)
    [] op = "bit" -> [NZ(g, AndByte(g.a, g.value)) EXCEPT !.n = CpuBit(g.value, 7), !.v = CpuBit(g.value, 6)]
    [] op = "bit_imm" -> [g EXCEPT !.z = NZ(g, AndByte(g.a, g.value)).z]
    [] op = "trb" -> PutValue(mode, [g EXCEPT !.z = NZ(g, AndByte(g.a, g.value)).z], AndByte(g.value, Complement(g.a)))
    [] op = "tsb" -> PutValue(mode, [g EXCEPT !.z = NZ(g, AndByte(g.a, g.value)).z], OrByte(g.value, g.a))

ModifyOps == {"asl", "lsr", "rol", "ror", "inc", "dec"}
ReadOps == {"adc", "sbc", "and", "ora", "eor", "cmp", "cpx", "cpy", "lda", "ldx", "ldy",
            "bit", "bit_imm", "trb", "tsb"}

\* The undocumented instructions of the NMOS part are two documented ones in a row.
Pair == [dcp |-> <<"dec", "cmp">>, isb |-> <<"inc", "sbc">>, slo |-> <<"asl", "ora">>,
         rla |-> <<"rol", "and">>, sre |-> <<"lsr", "eor">>, rra |-> <<"ror", "adc">>]

StoreOps == [sta |-> "a", stx |-> "x", sty |-> "y"]

----
\* Branches, the single bits of zero page, and control

Branch(s, taken) == IF taken THEN [s EXCEPT !.pc = CpuWord(@ + s.ea)] ELSE s

BranchOps ==
  [bcc |-> <<"c", 0>>, bcs |-> <<"c", 1>>, bne |-> <<"z", 0>>, beq |-> <<"z", 1>>,
   bpl |-> <<"n", 0>>, bmi |-> <<"n", 1>>, bvc |-> <<"v", 0>>, bvs |-> <<"v", 1>>]

FlagOps ==
  [clc |-> <<"c", 0>>, sec |-> <<"c", 1>>, cld |-> <<"d", 0>>, sed |-> <<"d", 1>>,
   cli |-> <<"i", 0>>, sei |-> <<"i", 1>>, clv |-> <<"v", 0>>]

\* RMB, SMB, BBR and BBS: the bit's number is in the opcode.
BitOps(op, opcode, s) ==
  LET k == (opcode \div 16) % 8
      rel == ModeRelative(s)
      g == CpuLoad(IF op \in {"bbr", "bbs"} THEN [rel EXCEPT !.ea = s.ea] ELSE s, s.ea)
      set == CpuBit(g.value, k)
  IN CASE op = "rmb" -> CpuStore(g, s.ea, g.value - set * 2 ^ k)
       [] op = "smb" -> CpuStore(g, s.ea, g.value + (1 - set) * 2 ^ k)
       [] op = "bbr" -> Branch([g EXCEPT !.ea = rel.ea], set = 0)
       [] op = "bbs" -> Branch([g EXCEPT !.ea = rel.ea], set = 1)

Interrupt(s, vector, break) ==
  LET p == Push8(Push16([s EXCEPT !.wai = FALSE], s.pc), CpuStatus(s, break))
  IN JumpVector([p EXCEPT !.i = 1], vector)

Nmi6502(s) == Interrupt(s, 65530, 0)
Irq6502(s) == Interrupt(s, 65534, 0)

\* A BRK is two bytes long; on the 65C02 it clears D.
Brk(s) == LET t == Interrupt([s EXCEPT !.pc = CpuWord(@ + 1)], 65534, 1)
          IN IF CpuVariant = "nmos" THEN t ELSE [t EXCEPT !.d = 0]

Reset6502(s) ==
  [JumpVector(s, 65532) EXCEPT !.a = 0, !.x = 0, !.y = 0, !.sp = 253, !.wai = FALSE, !.stp = FALSE]

\* The processor after its first reset.
CpuPowered(world) == Reset6502(CpuStart(world))

Control(op, s) ==
  CASE op = "nop" -> s
    [] op = "brk" -> Brk(s)
    [] op = "jmp" -> [s EXCEPT !.pc = s.ea]
    [] op = "jsr" -> [Push16(s, CpuWord(s.pc - 1)) EXCEPT !.pc = s.ea]
    [] op = "rts" -> LET p == Pull16(s) IN [p EXCEPT !.pc = CpuWord(p.value + 1)]
    [] op = "rti" -> LET p == Pull8(s)  q == Pull16(WithStatus(p, p.value)) IN [q EXCEPT !.pc = q.value]
    [] op = "bra" -> Branch(s, TRUE)
    [] op = "wai" -> [s EXCEPT !.wai = TRUE]
    [] op = "stp" -> [s EXCEPT !.stp = TRUE]
    [] op = "php" -> Push8(s, CpuStatus(s, 1))
    [] op = "plp" -> LET p == Pull8(s) IN WithStatus(p, p.value)
    [] op = "pha" -> Push8(s, s.a)
    [] op = "phx" -> Push8(s, s.x)
    [] op = "phy" -> Push8(s, s.y)
    [] op = "pla" -> LET p == Pull8(s) IN ToA(p, p.value)
    [] op = "plx" -> LET p == Pull8(s) IN ToX(p, p.value)
    [] op = "ply" -> LET p == Pull8(s) IN ToY(p, p.value)
    [] op = "tax" -> ToX(s, s.a)
    [] op = "tay" -> ToY(s, s.a)
    [] op = "tsx" -> ToX(s, s.sp)
    [] op = "txa" -> ToA(s, s.x)
    [] op = "txs" -> [s EXCEPT !.sp = s.x]
    [] op = "tya" -> ToA(s, s.y)
    [] op = "inx" -> ToX(s, CpuByte(s.x + 1))
    [] op = "iny" -> ToY(s, CpuByte(s.y + 1))
    [] op = "dex" -> ToX(s, CpuByte(s.x - 1))
    [] op = "dey" -> ToY(s, CpuByte(s.y - 1))

Operation(op, mode, opcode, s) ==
  CASE op \in ReadOps -> ReadOp(op, mode, s)
    [] op \in ModifyOps -> Modify(op, mode, s)
    [] op \in DOMAIN Pair -> ReadOp(Pair[op][2], mode, Modify(Pair[op][1], mode, s))
    [] op \in DOMAIN StoreOps -> PutValue(mode, s, s[StoreOps[op]])
    [] op = "stz" -> PutValue(mode, s, 0)
    [] op = "lax" -> ReadOp("ldx", mode, ReadOp("lda", mode, s))
    [] op = "sax" -> PutValue(mode, PutValue(mode, PutValue(mode, s, s.a), s.x), AndByte(s.a, s.x))
    [] op \in DOMAIN BranchOps -> Branch(s, s[BranchOps[op][1]] = BranchOps[op][2])
    [] op \in DOMAIN FlagOps -> [s EXCEPT ![FlagOps[op][1]] = FlagOps[op][2]]
    [] op \in {"rmb", "smb", "bbr", "bbs"} -> BitOps(op, opcode, s)
    [] OTHER -> Control(op, s)

----
\* The dispatch tables, indexed by the opcode + 1

AddrtableNmos == <<
  "imp", "indx", "imp", "indx", "zp", "zp", "zp", "zp", "imp", "imm", "acc", "imm", "abso", "abso", "abso", "abso",
  "rel", "indy", "imp", "indy", "zpx", "zpx", "zpx", "zpx", "imp", "absy", "imp", "absy", "absx", "absx", "absx", "absx",
  "abso", "indx", "imp", "indx", "zp", "zp", "zp", "zp", "imp", "imm", "acc", "imm", "abso", "abso", "abso", "abso",
  "rel", "indy", "imp", "indy", "zpx", "zpx", "zpx", "zpx", "imp", "absy", "imp", "absy", "absx", "absx", "absx", "absx",
  "imp", "indx", "imp", "indx", "zp", "zp", "zp", "zp", "imp", "imm", "acc", "imm", "abso", "abso", "abso", "abso",
  "rel", "indy", "imp", "indy", "zpx", "zpx", "zpx", "zpx", "imp", "absy", "imp", "absy", "absx", "absx", "absx", "absx",
  "imp", "indx", "imp", "indx", "zp", "zp", "zp", "zp", "imp", "imm", "acc", "imm", "ind", "abso", "abso", "abso",
  "rel", "indy", "imp", "indy", "zpx", "zpx", "zpx", "zpx", "imp", "absy", "imp", "absy", "absx", "absx", "absx", "absx",
  "imm", "indx", "imm", "indx", "zp", "zp", "zp", "zp", "imp", "imm", "imp", "imm", "abso", "abso", "abso", "abso",
  "rel", "indy", "imp", "indy", "zpx", "zpx", "zpy", "zpy", "imp", "absy", "imp", "absy", "absx", "absx", "absy", "absy",
  "imm", "indx", "imm", "indx", "zp", "zp", "zp", "zp", "imp", "imm", "imp", "imm", "abso", "abso", "abso", "abso",
  "rel", "indy", "imp", "indy", "zpx", "zpx", "zpy", "zpy", "imp", "absy", "imp", "absy", "absx", "absx", "absy", "absy",
  "imm", "indx", "imm", "indx", "zp", "zp", "zp", "zp", "imp", "imm", "imp", "imm", "abso", "abso", "abso", "abso",
  "rel", "indy", "imp", "indy", "zpx", "zpx", "zpx", "zpx", "imp", "absy", "imp", "absy", "absx", "absx", "absx", "absx",
  "imm", "indx", "imm", "indx", "zp", "zp", "zp", "zp", "imp", "imm", "imp", "imm", "abso", "abso", "abso", "abso",
  "rel", "indy", "imp", "indy", "zpx", "zpx", "zpx", "zpx", "imp", "absy", "imp", "absy", "absx", "absx", "absx", "absx">>

OptableNmos == <<
  "brk", "ora", "nop", "slo", "nop", "ora", "asl", "slo", "php", "ora", "asl", "nop", "nop", "ora", "asl", "slo",
  "bpl", "ora", "nop", "slo", "nop", "ora", "asl", "slo", "clc", "ora", "nop", "slo", "nop", "ora", "asl", "slo",
  "jsr", "and", "nop", "rla", "bit", "and", "rol", "rla", "plp", "and", "rol", "nop", "bit", "and", "rol", "rla",
  "bmi", "and", "nop", "rla", "nop", "and", "rol", "rla", "sec", "and", "nop", "rla", "nop", "and", "rol", "rla",
  "rti", "eor", "nop", "sre", "nop", "eor", "lsr", "sre", "pha", "eor", "lsr", "nop", "jmp", "eor", "lsr", "sre",
  "bvc", "eor", "nop", "sre", "nop", "eor", "lsr", "sre", "cli", "eor", "nop", "sre", "nop", "eor", "lsr", "sre",
  "rts", "adc", "nop", "rra", "nop", "adc", "ror", "rra", "pla", "adc", "ror", "nop", "jmp", "adc", "ror", "rra",
  "bvs", "adc", "nop", "rra", "nop", "adc", "ror", "rra", "sei", "adc", "nop", "rra", "nop", "adc", "ror", "rra",
  "nop", "sta", "nop", "sax", "sty", "sta", "stx", "sax", "dey", "nop", "txa", "nop", "sty", "sta", "stx", "sax",
  "bcc", "sta", "nop", "nop", "sty", "sta", "stx", "sax", "tya", "sta", "txs", "nop", "nop", "sta", "nop", "nop",
  "ldy", "lda", "ldx", "lax", "ldy", "lda", "ldx", "lax", "tay", "lda", "tax", "nop", "ldy", "lda", "ldx", "lax",
  "bcs", "lda", "nop", "lax", "ldy", "lda", "ldx", "lax", "clv", "lda", "tsx", "lax", "ldy", "lda", "ldx", "lax",
  "cpy", "cmp", "nop", "dcp", "cpy", "cmp", "dec", "dcp", "iny", "cmp", "dex", "nop", "cpy", "cmp", "dec", "dcp",
  "bne", "cmp", "nop", "dcp", "nop", "cmp", "dec", "dcp", "cld", "cmp", "nop", "dcp", "nop", "cmp", "dec", "dcp",
  "cpx", "sbc", "nop", "isb", "cpx", "sbc", "inc", "isb", "inx", "sbc", "nop", "sbc", "cpx", "sbc", "inc", "isb",
  "beq", "sbc", "nop", "isb", "nop", "sbc", "inc", "isb", "sed", "sbc", "nop", "isb", "nop", "sbc", "inc", "isb">>

Addrtable65C02 == <<
  "imp", "indx", "imm", "imp", "zp", "zp", "zp", "zp", "imp", "imm", "acc", "imp", "abso", "abso", "abso", "zp",
  "rel", "indy", "ind_zp", "imp", "zp", "zpx", "zpx", "zp", "imp", "absy", "acc", "imp", "abso", "absx", "absx", "zp",
  "abso", "indx", "imm", "imp", "zp", "zp", "zp", "zp", "imp", "imm", "acc", "imp", "abso", "abso", "abso", "zp",
  "rel", "indy", "ind_zp", "imp", "zpx", "zpx", "zpx", "zp", "imp", "absy", "acc", "imp", "absx", "absx", "absx", "zp",
  "imp", "indx", "imm", "imp", "zp", "zp", "zp", "zp", "imp", "imm", "acc", "imp", "abso", "abso", "abso", "zp",
  "rel", "indy", "ind_zp", "imp", "zpx", "zpx", "zpx", "zp", "imp", "absy", "imp", "imp", "abso", "absx", "absx", "zp",
  "imp", "indx", "imm", "imp", "zp", "zp", "zp", "zp", "imp", "imm", "acc", "imp", "ind_65c02", "abso", "abso", "zp",
  "rel", "indy", "ind_zp", "imp", "zpx", "zpx", "zpx", "zp", "imp", "absy", "imp", "imp", "ind_absx", "absx", "absx", "zp",
  "rel", "indx", "imm", "imp", "zp", "zp", "zp", "zp", "imp", "imm", "imp", "imp", "abso", "abso", "abso", "zp",
  "rel", "indy", "ind_zp", "imp", "zpx", "zpx", "zpy", "zp", "imp", "absy", "imp", "imp", "abso", "absx", "absx", "zp",
  "imm", "indx", "imm", "imp", "zp", "zp", "zp", "zp", "imp", "imm", "imp", "imp", "abso", "abso", "abso", "zp",
  "rel", "indy", "ind_zp", "imp", "zpx", "zpx", "zpy", "zp", "imp", "absy", "imp", "imp", "absx", "absx", "absy", "zp",
  "imm", "indx", "imm", "imp", "zp", "zp", "zp", "zp", "imp", "imm", "imp", "imp", "abso", "abso", "abso", "zp",
  "rel", "indy", "ind_zp", "imp", "zpx", "zpx", "zpx", "zp", "imp", "absy", "imp", "imp", "abso", "absx", "absx", "zp",
  "imm", "indx", "imm", "imp", "zp", "zp", "zp", "zp", "imp", "imm", "imp", "imp", "abso", "abso", "abso", "zp",
  "rel", "indy", "ind_zp", "imp", "zpx", "zpx", "zpx", "zp", "imp", "absy", "imp", "imp", "abso", "absx", "absx", "zp">>

Optable65C02 == <<
  "brk", "ora", "nop", "nop", "tsb", "ora", "asl", "rmb", "php", "ora", "asl", "nop", "tsb", "ora", "asl", "bbr",
  "bpl", "ora", "ora", "nop", "trb", "ora", "asl", "rmb", "clc", "ora", "inc", "nop", "trb", "ora", "asl", "bbr",
  "jsr", "and", "nop", "nop", "bit", "and", "rol", "rmb", "plp", "and", "rol", "nop", "bit", "and", "rol", "bbr",
  "bmi", "and", "and", "nop", "bit", "and", "rol", "rmb", "sec", "and", "dec", "nop", "bit", "and", "rol", "bbr",
  "rti", "eor", "nop", "nop", "nop", "eor", "lsr", "rmb", "pha", "eor", "lsr", "nop", "jmp", "eor", "lsr", "bbr",
  "bvc", "eor", "eor", "nop", "nop", "eor", "lsr", "rmb", "cli", "eor", "phy", "nop", "nop", "eor", "lsr", "bbr",
  "rts", "adc", "nop", "nop", "stz", "adc", "ror", "rmb", "pla", "adc", "ror", "nop", "jmp", "adc", "ror", "bbr",
  "bvs", "adc", "adc", "nop", "stz", "adc", "ror", "rmb", "sei", "adc", "ply", "nop", "jmp", "adc", "ror", "bbr",
  "bra", "sta", "nop", "nop", "sty", "sta", "stx", "smb", "dey", "bit_imm", "txa", "nop", "sty", "sta", "stx", "bbs",
  "bcc", "sta", "sta", "nop", "sty", "sta", "stx", "smb", "tya", "sta", "txs", "nop", "stz", "sta", "stz", "bbs",
  "ldy", "lda", "ldx", "nop", "ldy", "lda", "ldx", "smb", "tay", "lda", "tax", "nop", "ldy", "lda", "ldx", "bbs",
  "bcs", "lda", "lda", "nop", "ldy", "lda", "ldx", "smb", "clv", "lda", "tsx", "nop", "ldy", "lda", "ldx", "bbs",
  "cpy", "cmp", "nop", "nop", "cpy", "cmp", "dec", "smb", "iny", "cmp", "dex", "wai", "cpy", "cmp", "dec", "bbs",
  "bne", "cmp", "cmp", "nop", "nop", "cmp", "dec", "smb", "cld", "cmp", "phx", "stp", "nop", "cmp", "dec", "bbs",
  "cpx", "sbc", "nop", "nop", "cpx", "sbc", "inc", "smb", "inx", "sbc", "nop", "nop", "cpx", "sbc", "inc", "bbs",
  "beq", "sbc", "sbc", "nop", "nop", "sbc", "inc", "smb", "sed", "sbc", "plx", "nop", "nop", "sbc", "inc", "bbs">>

Addrtable == IF CpuVariant = "nmos" THEN AddrtableNmos ELSE Addrtable65C02
Optable == IF CpuVariant = "nmos" THEN OptableNmos ELSE Optable65C02

\* What the opcode that was fetched does.
Fetched(f) ==
  LET mode == Addrtable[f.value + 1] IN Operation(Optable[f.value + 1], mode, f.value, Address(mode, f))

\* step6502: nothing while WAI or STP waits, or else one instruction.
Step6502(s) ==
  IF s.wai \/ s.stp THEN s
  ELSE [Fetched(OperandByte(s)) EXCEPT !.ea = 0, !.value = 0]

\* The cycles that step6502 adds to clockticks6502; a wait is one.
StepCycles(s) ==
  IF s.wai \/ s.stp THEN 1 ELSE CpuCycles(CpuRead(s.world, s.pc).value)

----
\* The chip on a board's bus, emulator/chips/cpu_65c02.c.  The lines are a record: res,
\* nmi, irq, and whether a cycle is due; its memory of them is prevRes and prevNmi.  It
\* runs an instruction when its first cycle is due, and owes the others.

CpuChip(world) == [core |-> CpuStart(world), owed |-> 0, prevRes |-> FALSE, prevNmi |-> FALSE]

\* A reset and an NMI act on their edge, an IRQ on its level, at an instruction's end and
\* unless it is masked; any interrupt, masked or not, ends a WAI.
LinesReset(core, reset) == IF reset THEN Reset6502(core) ELSE core
LinesNmi(core, edge) == IF edge THEN Nmi6502(core) ELSE core
LinesWake(core, lines) == IF lines.irq \/ lines.nmi THEN [core EXCEPT !.wai = FALSE] ELSE core
LinesIrq(core, wanted) == IF wanted /\ core.i = 0 THEN Irq6502(core) ELSE core
CpuLines(chip, lines) ==
  LET reset == lines.res /\ ~chip.prevRes
      owed == IF reset THEN 0 ELSE chip.owed
      nmi == LinesNmi(LinesReset(chip.core, reset), lines.nmi /\ ~chip.prevNmi)
  IN [core |-> [LinesIrq(LinesWake(nmi, lines), lines.irq /\ owed = 0) EXCEPT !.ea = 0, !.value = 0],
      owed |-> owed, prevRes |-> lines.res, prevNmi |-> lines.nmi]

CpuCycle(c, due) ==
  IF ~due THEN c
  ELSE IF c.owed > 0 THEN [c EXCEPT !.owed = @ - 1]
  ELSE [c EXCEPT !.core = Step6502(@), !.owed = StepCycles(c.core) - 1]
CpuTick(chip, lines) == CpuCycle(CpuLines(chip, lines), lines.cycle)

\* cpu_65c02_reset
CpuReset(chip) == [CpuChip(chip.core.world) EXCEPT !.core = Reset6502(chip.core)]

=============================================================================
