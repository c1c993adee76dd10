------------------------------- MODULE Decode -------------------------------
(***************************************************************************)
(* The Decode stage of 721sim as a function of the instruction             *)
(* (decode.cc): which flags, function unit, operands and issue queue an    *)
(* instruction is given, and which instructions raise a trap here.  The    *)
(* rest of the pipeline acts on nothing else.                              *)
(*                                                                         *)
(* An instruction is told apart by its opcode, by the function code fn     *)
(* below it where decode() looks at one, and by whether rd is register 0   *)
(* of the file that it names.  Which register each operand is, and the     *)
(* size of a load or store, are left out.                                  *)
(***************************************************************************)

FunctionCodes == [
  OP_JAL      |-> {"-"}, OP_JALR      |-> {"-"}, OP_BRANCH |-> {"-"},
  OP_LOAD     |-> {"-"}, OP_STORE     |-> {"-"},
  OP_LOAD_FP  |-> {"-"}, OP_STORE_FP  |-> {"-"},
  OP_OP       |-> {"-", "MULDIV"}, OP_OP_32     |-> {"-", "MULDIV"},
  OP_OP_IMM   |-> {"-", "NOP"},    OP_OP_IMM_32 |-> {"-", "NOP"},
  OP_LUI      |-> {"-"}, OP_AUIPC     |-> {"-"},
  OP_OP_FP    |-> {"binary", "FCOMP", "unary", "I2FP", "FP2I", "reserved"},
  OP_MADD     |-> {"-"}, OP_MSUB |-> {"-"}, OP_NMADD |-> {"-"}, OP_NMSUB |-> {"-"},
  OP_SYSTEM   |-> {"CSR", "CSR_IMM", "SRET", "SCALL", "SBREAK", "reserved"},
  OP_MISC_MEM |-> {"-"},
  OP_AMO      |-> {"LR", "SC", "RMW", "LR_badwidth", "SC_badwidth", "reserved"},
  unknown     |-> {"-"}]

Instructions == UNION {[op : {o}, fn : FunctionCodes[o], rd0 : BOOLEAN] :
                         o \in DOMAIN FunctionCodes}

AllFlags == {"F_CTRL", "F_UNCOND", "F_COND", "F_MEM", "F_FMEM", "F_LOAD", "F_STORE",
             "F_DISP", "F_ICOMP", "F_FCOMP", "F_LONGLAT", "F_TRAP", "F_CSR", "F_AMO"}

Units == {"FU_BR", "FU_LS", "FU_LS_FP", "FU_ALU_S", "FU_ALU_C", "FU_ALU_FP"}

(* Only a branch or a jump takes a checkpoint.                              *)
Checkpoint(i) == i.op \in {"OP_JAL", "OP_JALR", "OP_BRANCH"}

MulDiv(i)  == i.op \in {"OP_OP", "OP_OP_32"} /\ i.fn = "MULDIV"
Integer    == {"OP_OP", "OP_OP_32", "OP_OP_IMM", "OP_OP_IMM_32", "OP_LUI", "OP_AUIPC"}
FusedFP    == {"OP_MADD", "OP_MSUB", "OP_NMADD", "OP_NMSUB"}
ArithFP    == FusedFP \cup {"OP_OP_FP"}
Reserve(i) == i.fn \in {"LR", "LR_badwidth"}
StoreIf(i) == i.fn \in {"SC", "SC_badwidth"}

(* An unknown opcode keeps the flags and the function unit that were left   *)
(* in its place of the payload.                                             *)
Flags(i, left) ==
  CASE i.op \in {"OP_JAL", "OP_JALR"}     -> {"F_CTRL", "F_UNCOND"}
    [] i.op = "OP_BRANCH"                 -> {"F_CTRL", "F_COND"}
    [] i.op = "OP_LOAD"                   -> {"F_MEM", "F_LOAD", "F_DISP"}
    [] i.op = "OP_STORE"                  -> {"F_MEM", "F_STORE", "F_DISP"}
    [] i.op = "OP_LOAD_FP"                -> {"F_MEM", "F_FMEM", "F_LOAD", "F_DISP"}
    [] i.op = "OP_STORE_FP"               -> {"F_MEM", "F_FMEM", "F_STORE", "F_DISP"}
    [] i.op \in Integer                   -> {"F_ICOMP"} \cup {f \in {"F_LONGLAT"} : MulDiv(i)}
    [] i.op \in ArithFP                   -> {"F_FCOMP"}
    [] i.op = "OP_SYSTEM"                 -> {"F_TRAP", "F_CSR"}
    [] i.op = "OP_MISC_MEM"               -> {"F_TRAP"}
    [] i.op = "OP_AMO"                    -> {"F_AMO"}
          \cup {f \in {"F_MEM", "F_LOAD", "F_DISP"}  : Reserve(i)}
          \cup {f \in {"F_MEM", "F_STORE", "F_DISP"} : StoreIf(i)}
    [] i.op = "unknown"                   -> left

Unit(i, left) ==
  CASE Checkpoint(i)                                -> "FU_BR"
    [] i.op \in {"OP_LOAD", "OP_STORE"}             -> "FU_LS"
    [] i.op = "OP_AMO" /\ (Reserve(i) \/ StoreIf(i)) -> "FU_LS"
    [] i.op \in {"OP_LOAD_FP", "OP_STORE_FP"}       -> "FU_LS_FP"
    [] MulDiv(i)                                    -> "FU_ALU_C"
    [] i.op \in ArithFP                             -> "FU_ALU_FP"
    [] i.op = "unknown"                             -> left
    [] OTHER                                        -> "FU_ALU_S"

(* What decode() gives up on: it posts a trap, or takes the word for data   *)
(* that a wrong prediction has made the processor fetch.                    *)
Illegal(i) ==
  \/ i.op = "OP_AMO" /\ i.fn \in {"LR_badwidth", "SC_badwidth", "reserved"}
  \/ i.op = "OP_SYSTEM" /\ i.fn = "reserved"

Traps(i) == Illegal(i) \/ (i.op = "OP_SYSTEM" /\ i.fn \in {"SCALL", "SBREAK"})

Nop(i) == i.op \in {"OP_OP_IMM", "OP_OP_IMM_32"} /\ i.fn = "NOP"

(* Does the instruction wait in the issue queue, or is it complete as soon  *)
(* as it is dispatched?                                                     *)
ToIQ(i) == ~ (Traps(i) \/ Nop(i) \/ i.op \in {"OP_MISC_MEM", "unknown"})

(* The operands: A, B and D are sources, C is the destination.  Register 0  *)
(* of the integer file is never a destination; that of the floating-point   *)
(* file is.                                                                 *)
DestOnly  == {"OP_JAL", "OP_LUI", "OP_AUIPC"}
OneSource == {"OP_JALR", "OP_LOAD", "OP_LOAD_FP", "OP_OP_IMM", "OP_OP_IMM_32"}
NoDest    == {"OP_BRANCH", "OP_STORE", "OP_STORE_FP"}

Operands(i) ==
  CASE Nop(i)                                -> {"A"}
    [] ~ ToIQ(i) /\ ~ Nop(i)                 -> {}
    [] ToIQ(i) /\ i.op \in DestOnly          -> {"C"}
    [] ToIQ(i) /\ i.op \in OneSource         -> {"A", "C"}
    [] i.op \in NoDest                       -> {"A", "B"}
    [] i.op \in {"OP_OP", "OP_OP_32"}        -> {"A", "B", "C"}
    [] i.op \in FusedFP                      -> {"A", "B", "C", "D"}
    [] i.fn \in {"binary", "FCOMP"}          -> {"A", "B", "C"}
    [] i.fn \in {"unary", "I2FP", "FP2I"}    -> {"A", "C"}
    [] i.op = "OP_OP_FP" /\ i.fn = "reserved" -> {}
    [] i.fn = "CSR"                          -> {"A", "C"}
    [] i.fn = "CSR_IMM"                      -> {"C"}
    [] i.fn = "SRET"                         -> {}
    [] i.fn = "LR"                           -> {"A", "C"}
    [] i.fn \in {"SC", "RMW"}                -> {"A", "B", "C"}

WritesFP(i) == \/ i.op = "OP_LOAD_FP" \/ i.op \in FusedFP
               \/ i.op = "OP_OP_FP" /\ i.fn \in {"binary", "unary", "I2FP"}

HasDest(i) == "C" \in Operands(i) /\ (i.rd0 => WritesFP(i))

(* The macros of payload.h that look at the flags.                          *)
IsBranch(flags) == "F_CTRL" \in flags
IsLoad(flags)   == "F_LOAD" \in flags
IsStore(flags)  == "F_STORE" \in flags
IsMemOp(flags)  == "F_MEM" \in flags
IsFPOp(flags)   == {"F_FCOMP", "F_FMEM"} \cap flags # {}
IsAmo(flags)    == "F_AMO" \in flags
IsCsr(flags)    == "F_CSR" \in flags

=============================================================================
