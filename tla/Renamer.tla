------------------------------ MODULE Renamer ------------------------------
(***************************************************************************)
(* The register renamer of 721sim (renamer.cc) together with the pipeline  *)
(* state that drives it: the DISPATCH latch between rename2 and dispatch,  *)
(* the payload of every instruction in the Active List, and the branch     *)
(* mask an instruction carries while it is in the issue queue or in an     *)
(* execution lane.                                                         *)
(*                                                                         *)
(* One action is one iteration of a stage's loop over its bundle: the body *)
(* of rename2's and dispatch's loops, one lane of writeback, one call of   *)
(* retire.  The stalls of rename2 and dispatch are tested for the whole    *)
(* bundle in the code, which implies the per-instruction tests used here,  *)
(* so every execution of the code is a behaviour of this module.           *)
(***************************************************************************)
EXTENDS Integers, Sequences, FiniteSets

CONSTANTS
  NLog,            (* n_log_regs: number of logical registers               *)
  NPhys,           (* n_phys_regs: number of physical registers             *)
  NBranches,       (* n_branches: number of branch checkpoints (GBM width)  *)
  NActive,         (* n_active: number of Active List entries               *)
  DispatchWidth,   (* dispatch_width: size of the DISPATCH latch            *)
  UopKinds         (* the kinds of instructions that arrive at rename2      *)

Invalid == -1      \* UINT64_MAX, or a field the instruction does not have

Log       == 0 .. NLog - 1
Phys      == 0 .. NPhys - 1
BranchIDs == 0 .. NBranches - 1
ALIndex   == 0 .. NActive - 1
FLSize    == NPhys - NLog
FLIndex   == 0 .. FLSize - 1
Phase     == {0, 1}

(***************************************************************************)
(* What decode leaves in the payload: the destination and a source, as     *)
(* logical registers, and whether the instruction is a branch that needs a *)
(* checkpoint.  One source stands for the operands A, B and D, which       *)
(* rename2 treats alike and independently.                                 *)
(***************************************************************************)
AllKinds == [logical : Log \cup {Invalid},
             src     : Log \cup {Invalid},
             branch  : BOOLEAN]

ASSUME RenamerAssumption ==
  /\ NLog \in Nat \ {0}
  /\ NPhys \in Nat /\ NPhys > NLog
  /\ NBranches \in 1 .. 64
  /\ NActive \in Nat \ {0}
  /\ DispatchWidth \in Nat \ {0}
  /\ UopKinds \subseteq AllKinds

(* A renamed instruction: its destination mapping (has_dest is             *)
(* logical # Invalid), its renamed source and the checkpoint it owns.      *)
Uop == {u \in [logical   : Log \cup {Invalid},
               physical  : Phys \cup {Invalid},
               src       : Log \cup {Invalid},
               psrc      : Phys \cup {Invalid},
               branch_ID : BranchIDs \cup {Invalid}] :
          u.logical = Invalid <=> u.physical = Invalid}

NoUop == [logical |-> Invalid, physical |-> Invalid, src |-> Invalid,
          psrc |-> Invalid, branch_ID |-> Invalid]

HasDest(u)  == u.logical # Invalid
IsBranch(u) == u.branch_ID # Invalid

(* exception stands for the two flags, exception and load_violation, that  *)
(* make retire squash the pipeline instead of committing.                  *)
ALEntry  == [uop : Uop, completed : BOOLEAN, exception : BOOLEAN]
NoEntry  == [uop |-> NoUop, completed |-> FALSE, exception |-> FALSE]
InPipe   == [valid : BOOLEAN, branch_mask : SUBSET BranchIDs]
NotInPipe == [valid |-> FALSE, branch_mask |-> {}]

(* An entry of the DISPATCH latch.                                          *)
Latched == [uop : Uop, branch_mask : SUBSET BranchIDs]

Checkpoint == [shadow_map_table     : [Log -> Phys],
               free_list_head       : FLIndex,
               free_list_head_phase : Phase,
               gbm                  : SUBSET BranchIDs]
NoCheckpoint == [shadow_map_table     |-> [l \in Log |-> 0],
                 free_list_head       |-> 0,
                 free_list_head_phase |-> 0,
                 gbm                  |-> {}]

VARIABLES
  rmt, amt,                                        \* the two map tables
  flList, flHead, flTail, flHeadPhase, flTailPhase, \* fl
  alList, alHead, alTail, alHeadPhase, alTailPhase, \* al
  GBM, checkpoints,
  latch,      \* DISPATCH[]: renamed instructions, in program order
  exec        \* per AL entry: is the instruction in the IQ, a lane or the LSU

mapVars  == <<rmt, amt>>
flVars   == <<flList, flHead, flTail, flHeadPhase, flTailPhase>>
alVars   == <<alList, alHead, alTail, alHeadPhase, alTailPhase>>
brVars   == <<GBM, checkpoints>>
vars     == <<mapVars, flVars, alVars, brVars, latch, exec>>

----------------------------------------------------------------------------
(* Circular pointers with a phase bit that flips at every wrap.             *)
(*                                                                          *)
(* An operator whose comment begins "Mutant" is not the code: it is the     *)
(* mistake that a property of RenamerProperties is shown to catch.          *)

NextIndex(i, size)    == IF i + 1 = size THEN 0 ELSE i + 1
NextPhase(i, p, size) == IF i + 1 = size THEN 1 - p ELSE p

(* free_list_regs_available()                                               *)
FreeRegs == IF flHeadPhase = flTailPhase THEN flTail - flHead
                                         ELSE flTail - flHead + FLSize

(* get_free_al_entry_count()                                                *)
FreeEntries == IF alHeadPhase = alTailPhase THEN NActive - (alTail - alHead)
                                            ELSE alHead - alTail

InFlight(i) == IF alHeadPhase = alTailPhase THEN alHead <= i /\ i < alTail
                                            ELSE alHead <= i \/ i < alTail

----------------------------------------------------------------------------
Init ==
  /\ amt = [l \in Log |-> NLog - 1 - l]
  /\ rmt = amt
  /\ flList = [i \in FLIndex |-> NLog + i]
  /\ flHead = 0 /\ flTail = 0 /\ flHeadPhase = 0 /\ flTailPhase = 1
  /\ alList = [i \in ALIndex |-> NoEntry]
  /\ alHead = 0 /\ alTail = 0 /\ alHeadPhase = 0 /\ alTailPhase = 0
  /\ GBM = {}
  /\ checkpoints = [b \in BranchIDs |-> NoCheckpoint]
  /\ latch = <<>>
  /\ exec = [i \in ALIndex |-> NotInPipe]

----------------------------------------------------------------------------
(* The Rename stage, for one instruction: rename the source through the     *)
(* RMT, then pop a register for the destination, take the GBM as branch     *)
(* mask and, for a branch, a checkpoint that includes its own destination.  *)

(* Mutant: stall_reg() is not asked.                                        *)
NeverStallReg(kind) == FALSE

StallReg(kind)    == kind.logical # Invalid /\ FreeRegs < 1
(* A GBM with all 64 bits set stalls even a bundle without branches.        *)
StallBranch(kind) == GBM = 0 .. 63 \/ (kind.branch /\ GBM = BranchIDs)

(* Mutant: the destination is renamed before the sources.                   *)
RenameSourceLate(kind) == IF kind.src = Invalid THEN Invalid ELSE rmt'[kind.src]

RenameSource(kind) == IF kind.src = Invalid THEN Invalid ELSE rmt[kind.src]

RenameDest(kind) ==
  IF kind.logical = Invalid
  THEN UNCHANGED <<rmt, flHead, flHeadPhase>>
  ELSE /\ rmt' = [rmt EXCEPT ![kind.logical] = flList[flHead]]
       /\ flHead' = NextIndex(flHead, FLSize)
       /\ flHeadPhase' = NextPhase(flHead, flHeadPhase, FLSize)

RenamedUop(kind, id) ==
  [logical   |-> kind.logical,
   physical  |-> IF kind.logical = Invalid THEN Invalid ELSE flList[flHead],
   src       |-> kind.src,
   psrc      |-> RenameSource(kind),
   branch_ID |-> id]

(* allocate_gbm_bit() returns the lowest bit that is clear.                 *)
AllocatedBit(b) == b \notin GBM /\ \A c \in BranchIDs \ GBM : b <= c

(* Mutant: the checkpoint is taken before the branch renames its own        *)
(* destination.                                                             *)
CheckpointBeforeDest == [shadow_map_table     |-> rmt,
                         free_list_head       |-> flHead,
                         free_list_head_phase |-> flHeadPhase,
                         gbm                  |-> GBM']

CheckpointState == [shadow_map_table     |-> rmt',
                    free_list_head       |-> flHead',
                    free_list_head_phase |-> flHeadPhase',
                    gbm                  |-> GBM']

TakeCheckpoint(b) ==
  /\ GBM' = GBM \cup {b}
  /\ checkpoints' = [checkpoints EXCEPT ![b] = CheckpointState]

Latch(u) == latch' = Append(latch, [uop |-> u, branch_mask |-> GBM])

Rename(kind) ==
  /\ Len(latch) < DispatchWidth
  /\ ~ StallBranch(kind)
  /\ ~ StallReg(kind)
  /\ RenameDest(kind)
  /\ \/ /\ ~ kind.branch
        /\ Latch(RenamedUop(kind, Invalid))
        /\ UNCHANGED brVars
     \/ /\ kind.branch
        /\ \E b \in BranchIDs : /\ AllocatedBit(b)
                                /\ Latch(RenamedUop(kind, b))
                                /\ TakeCheckpoint(b)
  /\ UNCHANGED <<amt, flList, flTail, flTailPhase, alVars, exec>>

----------------------------------------------------------------------------
(* The Dispatch stage, for one instruction.  A NOP, a fence or an           *)
(* instruction that already trapped skips the issue queue and is complete   *)
(* at once; none of these has a destination or a checkpoint.  One that an   *)
(* earlier stage or the disabled FPU traps is marked with its exception.    *)

StallDispatch == FreeEntries < 1

Dispatch ==
  /\ latch # <<>>
  /\ ~ StallDispatch
  /\ LET u == Head(latch).uop IN
     \E skipIQ, fault \in BOOLEAN :
       /\ skipIQ => ~ HasDest(u) /\ ~ IsBranch(u)
       /\ alList' = [alList EXCEPT ![alTail] =
                      [uop |-> u, completed |-> skipIQ, exception |-> fault]]
       /\ exec' = [exec EXCEPT ![alTail] =
                    IF skipIQ THEN NotInPipe
                    ELSE [valid |-> TRUE,
                          branch_mask |-> Head(latch).branch_mask]]
  /\ alTail' = NextIndex(alTail, NActive)
  /\ alTailPhase' = NextPhase(alTail, alTailPhase, NActive)
  /\ latch' = Tail(latch)
  /\ UNCHANGED <<mapVars, flVars, alHead, alHeadPhase, brVars>>

----------------------------------------------------------------------------
(* set_exception() and set_load_violation(): any instruction in the Active  *)
(* List may be marked, whether or not it has completed: a store that        *)
(* computes its address late marks a younger load.                          *)

MarkFault(i) ==
  /\ InFlight(i)
  /\ ~ alList[i].exception
  /\ alList' = [alList EXCEPT ![i].exception = TRUE]
  /\ UNCHANGED <<mapVars, flVars, alHead, alTail, alHeadPhase, alTailPhase,
                 brVars, latch, exec>>

----------------------------------------------------------------------------
(* The Writeback stage of one lane.                                         *)

ClearBit(S, b) == S \ {b}

(* The instruction leaves its lane and its Active List entry is complete.   *)
SetComplete(i) == alList' = [alList EXCEPT ![i].completed = TRUE]

Complete(i) ==
  /\ exec[i].valid
  /\ ~ IsBranch(alList[i].uop)
  /\ SetComplete(i)
  /\ exec' = [exec EXCEPT ![i] = NotInPipe]
  /\ UNCHANGED <<mapVars, flVars, alHead, alTail, alHeadPhase, alTailPhase,
                 brVars, latch>>

(* Mutant: resolve() clears the bit in the GBM only, not in the checkpoints. *)
KeepCheckpoints(b) == checkpoints

ClearCheckpoints(b) ==
  [c \in BranchIDs |-> [checkpoints[c] EXCEPT !.gbm = ClearBit(@, b)]]

(* Mutant: the branch masks in the issue queue and the lanes keep the bit.  *)
KeepExec(i, b) == [exec EXCEPT ![i] = NotInPipe]

ClearExec(i, b) ==
  [j \in ALIndex |-> IF j = i THEN NotInPipe
                     ELSE [exec[j] EXCEPT !.branch_mask = ClearBit(@, b)]]

(* A correctly predicted branch frees its bit everywhere: in the GBM, in    *)
(* every checkpoint's GBM and in every branch mask of the pipeline.         *)
ResolveCorrect(i) ==
  /\ exec[i].valid
  /\ IsBranch(alList[i].uop)
  /\ LET b == alList[i].uop.branch_ID IN
     /\ GBM' = ClearBit(GBM, b)
     /\ checkpoints' = ClearCheckpoints(b)
     /\ latch' = [k \in DOMAIN latch |->
          [latch[k] EXCEPT !.branch_mask = ClearBit(@, b)]]
     /\ exec' = ClearExec(i, b)
  /\ SetComplete(i)
  /\ UNCHANGED <<mapVars, flVars, alHead, alTail, alHeadPhase, alTailPhase>>

(* Mutant: equal pointers are taken for an empty list.                      *)
InferTailPhaseEmpty(head, tail, headPhase) ==
  IF head <= tail THEN headPhase ELSE 1 - headPhase

(* The phase of the restored tail is inferred from the two pointers: the    *)
(* list still holds the branch, so equal pointers mean that it is full.     *)
InferTailPhase(head, tail, headPhase) ==
  IF head < tail THEN headPhase ELSE 1 - headPhase

(* A mispredicted branch restores the RMT, the free list head, the Active   *)
(* List tail and the GBM; the frontend up to the DISPATCH latch is          *)
(* squashed, and in the rest of the pipeline every instruction whose mask   *)
(* has the branch's bit.                                                    *)
ResolveMispredict(i) ==
  /\ exec[i].valid
  /\ IsBranch(alList[i].uop)
  /\ LET b  == alList[i].uop.branch_ID
         cp == checkpoints[b] IN
     /\ GBM' = ClearBit(cp.gbm, b)
     /\ rmt' = cp.shadow_map_table
     /\ flHead' = cp.free_list_head
     /\ flHeadPhase' = cp.free_list_head_phase
     /\ exec' = [j \in ALIndex |->
          IF j = i \/ b \in exec[j].branch_mask THEN NotInPipe ELSE exec[j]]
  /\ alTail' = NextIndex(i, NActive)
  /\ alTailPhase' = InferTailPhase(alHead, NextIndex(i, NActive), alHeadPhase)
  /\ latch' = <<>>
  /\ SetComplete(i)
  /\ UNCHANGED <<amt, flList, flTail, flTailPhase, alHead, alHeadPhase,
                 checkpoints>>

----------------------------------------------------------------------------
(* The Retire stage, for the instruction at the head of the Active List.    *)

HeadCompleted == FreeEntries < NActive /\ alList[alHead].completed

(* Mutant: commit() does not call retire_from_active_list().                *)
KeepHead == UNCHANGED <<alHead, alHeadPhase>>

RetireHead == /\ alHead' = NextIndex(alHead, NActive)
              /\ alHeadPhase' = NextPhase(alHead, alHeadPhase, NActive)

(* Mutant: the register of the committing instruction is freed, not the one *)
(* it replaces in the AMT.                                                  *)
FreeNewRegister(u) == u.physical

FreedRegister(u) == amt[u.logical]

(* commit(): the AMT takes the new mapping and the register it replaces     *)
(* goes back to the free list.                                              *)
Commit ==
  /\ HeadCompleted
  /\ ~ alList[alHead].exception
  /\ LET u == alList[alHead].uop IN
     IF HasDest(u)
     THEN /\ amt' = [amt EXCEPT ![u.logical] = u.physical]
          /\ flList' = [flList EXCEPT ![flTail] = FreedRegister(u)]
          /\ flTail' = NextIndex(flTail, FLSize)
          /\ flTailPhase' = NextPhase(flTail, flTailPhase, FLSize)
     ELSE UNCHANGED <<amt, flList, flTail, flTailPhase>>
  /\ RetireHead
  /\ UNCHANGED <<rmt, flHead, flHeadPhase, alList, alTail, alTailPhase,
                 brVars, latch, exec>>

(* squash_complete() for an exception or a load violation: the renamer goes *)
(* back to the committed state and the whole pipeline is emptied.           *)
Squash ==
  /\ HeadCompleted
  /\ alList[alHead].exception
  /\ alTail' = alHead /\ alTailPhase' = alHeadPhase
  /\ alList' = [i \in ALIndex |-> NoEntry]
  /\ flHead' = flTail /\ flHeadPhase' = 1 - flTailPhase
  /\ rmt' = amt
  /\ GBM' = {}
  /\ checkpoints' = [b \in BranchIDs |-> NoCheckpoint]
  /\ latch' = <<>>
  /\ exec' = [i \in ALIndex |-> NotInPipe]
  /\ UNCHANGED <<amt, flList, flTail, flTailPhase, alHead, alHeadPhase>>

----------------------------------------------------------------------------
Writeback(i) == Complete(i) \/ ResolveCorrect(i) \/ ResolveMispredict(i)

Next ==
  \/ \E kind \in UopKinds : Rename(kind)
  \/ Dispatch
  \/ \E i \in ALIndex : MarkFault(i)
  \/ \E i \in ALIndex : Complete(i)
  \/ \E i \in ALIndex : ResolveCorrect(i)
  \/ \E i \in ALIndex : ResolveMispredict(i)
  \/ Commit
  \/ Squash

Spec == Init /\ [][Next]_vars

============================================================================
