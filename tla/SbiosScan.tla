------------------------------ MODULE SbiosScan ------------------------------
(***************************************************************************)
(* loader/loader.c getSBIOSCallTable: finds the table of SBIOS calls by         *)
(* reading the first instructions of the SBIOS.  It follows what a few          *)
(* instructions put into the registers, remembers from which address a          *)
(* register was loaded, and takes the address behind the first jump through a   *)
(* loaded register.  Beside it runs the processor itself, with the number of    *)
(* the call being 0; each step appends one instruction.  The processor's        *)
(* registers are followed as far as the instructions are those the scan knows.  *)
(***************************************************************************)
EXTENDS Integers

CONSTANTS
  Word,          \* 2^32: the registers' range, a multiple of 4
  Immediates,    \* immediate values of addiu and lw
  MaxCode        \* NUMBER_OF_INSTRUCTIONS_CHECKED

VARIABLES
  regs, load,    \* what the scan knows of the registers
  cpu,           \* the processor's registers: a value, the address it was loaded from, or
                 \* "unknown" when other instructions or loads contributed to it
  jumpBase, found,
  jumped,        \* the processor's register at the jump that ended the scan
  steps

vars == <<regs, load, cpu, jumpBase, found, jumped, steps>>

Registers == 0..2
Value(v) == [kind |-> "value", v |-> v % Word]
Loaded(a) == [kind |-> "loaded", v |-> a % Word]
Unknown == [kind |-> "unknown", v |-> 0]
Known(r) == cpu[r].kind = "value"

(* Register 0 of the processor is always zero. *)
Write(rt, w) == cpu' = IF rt = 0 THEN cpu ELSE [cpu EXCEPT ![rt] = w]

Step == ~found /\ steps < MaxCode /\ steps' = steps + 1

(* Instructions whose result goes to a register of its own.  No compiler       *)
(* writes register 0 but for the sll that is a nop.                            *)
Targets == Registers \ {0}

addiu ==
  /\ Step
  /\ \E rs \in Registers, rt \in Targets, i \in Immediates :
       /\ regs' = [regs EXCEPT ![rt] = (regs[rs] + i) % Word]
       /\ Write(rt, IF Known(rs) THEN Value(cpu[rs].v + i) ELSE Unknown)
  /\ UNCHANGED <<load, jumpBase, found, jumped>>

lui ==
  /\ Step
  /\ \E rt \in Targets, i \in Immediates :
       /\ regs' = [regs EXCEPT ![rt] = (i * (Word \div 4)) % Word]
       /\ Write(rt, Value(i * (Word \div 4)))
  /\ UNCHANGED <<load, jumpBase, found, jumped>>

(* addu and subu. *)
addu ==
  /\ Step
  /\ \E rs \in Registers, rt \in Registers, rd \in Targets, sign \in {1, -1} :
       /\ regs' = [regs EXCEPT ![rd] = (regs[rs] + sign * regs[rt]) % Word]
       /\ Write(rd, IF Known(rs) /\ Known(rt) THEN Value(cpu[rs].v + sign * cpu[rt].v) ELSE Unknown)
  /\ UNCHANGED <<load, jumpBase, found, jumped>>

sll_Ignored ==
  /\ Step
  /\ \E rt \in Registers, rd \in Registers :
       Write(rd, IF Known(rt) THEN Value(cpu[rt].v * 4) ELSE Unknown)
  /\ UNCHANGED <<regs, load, jumpBase, found, jumped>>

sll ==
  /\ Step
  /\ \E rt \in Registers, rd \in Registers :
       /\ regs' = IF rd # 0 THEN [regs EXCEPT ![rd] = (regs[rt] * 4) % Word] ELSE regs
       /\ Write(rd, IF Known(rt) THEN Value(cpu[rt].v * 4) ELSE Unknown)
  /\ UNCHANGED <<load, jumpBase, found, jumped>>

lw ==
  /\ Step
  /\ \E rs \in Registers, rt \in Targets, i \in Immediates :
       /\ load' = [load EXCEPT ![rt] = (regs[rs] + i) % Word]
       /\ Write(rt, IF Known(rs) THEN Loaded(cpu[rs].v + i) ELSE Unknown)
  /\ UNCHANGED <<regs, jumpBase, found, jumped>>

(* An instruction the scan does not look at: an ori or daddu computes a value    *)
(* from other registers, and after a branch or a call any register may differ   *)
(* from what the code in line, which the scan reads on, has put into it.        *)
OtherInstruction ==
  /\ Step
  /\ \E written \in SUBSET Targets :
       cpu' = [r \in Registers |-> IF r \in written THEN Unknown ELSE cpu[r]]
  /\ UNCHANGED <<regs, load, jumpBase, found, jumped>>

(* jr goes on when the register was never loaded, jalr stops. *)
jr ==
  /\ Step
  /\ \E rs \in Targets :
       IF load[rs] # 0
       THEN jumpBase' = load[rs] /\ found' = TRUE /\ jumped' = cpu[rs]
       ELSE UNCHANGED <<jumpBase, found, jumped>>
  /\ UNCHANGED <<regs, load, cpu>>

jalr ==
  /\ Step
  /\ \E rs \in Targets :
       /\ jumpBase' = IF load[rs] # 0 THEN load[rs] ELSE jumpBase
       /\ found' = TRUE /\ jumped' = cpu[rs]
  /\ UNCHANGED <<regs, load, cpu>>

Init ==
  /\ regs = [r \in Registers |-> 0] /\ load = [r \in Registers |-> 0]
  /\ cpu = [r \in Registers |-> Value(0)]
  /\ jumpBase = 0 /\ found = FALSE /\ jumped = Unknown /\ steps = 0

Next == addiu \/ lui \/ addu \/ sll \/ lw \/ OtherInstruction \/ jr \/ jalr

Spec == Init /\ [][Next]_vars

-----------------------------------------------------------------------------
(* When the scan ends at a jump through a register the processor loaded, from  *)
(* an address computed in line by instructions the scan knows, the scan took    *)
(* that address: the table of SBIOS calls disabled and started by the loader is *)
(* the one the SBIOS uses.  Of code that computes the address in another way,    *)
(* or jumps through a register that was loaded once and computed since, nothing *)
(* is said: the scan goes wrong there without notice.                           *)
TableFound == (found /\ jumped.kind = "loaded") => jumpBase = jumped.v
=============================================================================
