------------------------- MODULE RenamerProperties -------------------------
(***************************************************************************)
(* What the renamer promises the pipeline.  The properties are stated over *)
(* the instructions in flight in program order: first those in the Active  *)
(* List from head to tail, then those in the DISPATCH latch.               *)
(***************************************************************************)
EXTENDS Renamer

Used == NActive - FreeEntries

Entry(k) == IF alHead + k < NActive THEN alHead + k ELSE alHead + k - NActive

FlightSize == Used + Len(latch)
Flight     == 0 .. FlightSize - 1

(* The instructions in flight, in program order.                            *)
InstAt(k) == IF k < Used THEN alList[Entry(k)].uop ELSE latch[k - Used + 1].uop
Insts     == [k \in Flight |-> InstAt(k)]

(* The branch mask an instruction carries; the instructions that are in the *)
(* latch, the issue queue or a lane; the branches not resolved yet.         *)
MaskAt(k) == IF k < Used THEN exec[Entry(k)].branch_mask
                         ELSE latch[k - Used + 1].branch_mask
InPipeAt(k) == k < Used => exec[Entry(k)].valid
Pending     == {k \in Flight : InPipeAt(k)}
Unresolved  == {k \in Pending : IsBranch(Insts[k])}

(* p holds the value of l that program order gives to position k of the     *)
(* instructions f over the committed map m: the destination of the youngest *)
(* older writer of l, or the committed register when none of them writes l. *)
MappedBefore(f, m, k, l, p) ==
  \/ /\ \A j \in 0 .. k - 1 : f[j].logical # l
     /\ p = m[l]
  \/ \E j \in 0 .. k - 1 :
       /\ f[j].logical = l
       /\ \A i \in j + 1 .. k - 1 : f[i].logical # l
       /\ p = f[j].physical

(* How many of the instructions older than position k have a destination.   *)
DestsBefore(f, k) == Cardinality({j \in 0 .. k - 1 : HasDest(f[j])})

(* The free-list slot that lies n places after the tail, and the phase of a *)
(* head pointer there: with n = 0 the list is full.                         *)
Slot(n)      == IF flTail + n < FLSize THEN flTail + n ELSE flTail + n - FLSize
SlotPhase(n) == IF flTail + n < FLSize THEN 1 - flTailPhase ELSE flTailPhase

(* The checkpoint IDs of the branches in U older than position k.           *)
IDsBefore(f, U, k) == {f[j].branch_ID : j \in {i \in U : i < k}}

----------------------------------------------------------------------------
TypeOK ==
  /\ rmt \in [Log -> Phys]
  /\ amt \in [Log -> Phys]
  /\ flList \in [FLIndex -> Phys]
  /\ flHead \in FLIndex /\ flTail \in FLIndex
  /\ flHeadPhase \in Phase /\ flTailPhase \in Phase
  /\ alList \in [ALIndex -> ALEntry]
  /\ alHead \in ALIndex /\ alTail \in ALIndex
  /\ alHeadPhase \in Phase /\ alTailPhase \in Phase
  /\ GBM \in SUBSET BranchIDs
  /\ checkpoints \in [BranchIDs -> Checkpoint]
  /\ latch \in Seq(Latched)
  /\ exec \in [ALIndex -> InPipe]

(* No physical register is lost and none is in two places: the committed    *)
(* mappings and the slots of the free list together name every register     *)
(* exactly once, whatever was renamed, rolled back, committed or squashed   *)
(* (renamer.cc: rename_rdst, commit, resolve, squash).                      *)
RegistersConserved ==
  /\ \A l, m \in Log : l # m => amt[l] # amt[m]
  /\ \A i, j \in FLIndex : i # j => flList[i] # flList[j]
  /\ \A l \in Log, i \in FLIndex : amt[l] # flList[i]

(* The slots between the free list's tail and its head hold, in program     *)
(* order, the destinations of the instructions in flight.  This is why      *)
(* moving the head pointer back (a misprediction) or onto the tail (a       *)
(* squash) frees exactly the registers of the squashed instructions, and    *)
(* why a commit may overwrite the slot at the tail.                         *)
AllocationOrder ==
  /\ FreeRegs + DestsBefore(Insts, FlightSize) = FLSize
  /\ \A k \in Flight : HasDest(Insts[k]) =>
       Insts[k].physical = flList[Slot(DestsBefore(Insts, k))]

(* The RMT is the committed map overlaid, in program order, by every        *)
(* instruction in flight, also right after a rollback to a checkpoint and   *)
(* after commits that happened since the checkpoint was taken.              *)
RenameMapPrecise ==
  \A l \in Log : MappedBefore(Insts, amt, FlightSize, l, rmt[l])

(* As long as an instruction is in flight, its renamed source names the     *)
(* register that program order prescribes: it is never freed and given to   *)
(* another instruction under its feet.                                      *)
SourcesPrecise ==
  \A k \in Flight : Insts[k].src # Invalid =>
    MappedBefore(Insts, amt, k, Insts[k].src, Insts[k].psrc)

(* The checkpoint of every unresolved branch restores the RMT and the free  *)
(* list to the state just after that branch, whatever has been committed    *)
(* or resolved since it was taken.                                          *)
CheckpointsPrecise ==
  \A k \in Unresolved :
    LET cp == checkpoints[Insts[k].branch_ID]
        n  == DestsBefore(Insts, k + 1) IN
    /\ \A l \in Log :
         MappedBefore(Insts, amt, k + 1, l, cp.shadow_map_table[l])
    /\ cp.free_list_head = Slot(n)
    /\ cp.free_list_head_phase = SlotPhase(n)

(* The GBM holds the unresolved branches in flight, no two of which share   *)
(* a bit; the mask of every instruction in the latch, the issue queue or a  *)
(* lane holds those older than it; and a checkpoint's GBM holds those older *)
(* than its branch that are unresolved now, and the branch itself.          *)
BranchMasksPrecise ==
  /\ GBM = IDsBefore(Insts, Unresolved, FlightSize)
  /\ \A j, k \in Unresolved :
       j # k => Insts[j].branch_ID # Insts[k].branch_ID
  /\ \A k \in Pending : MaskAt(k) = IDsBefore(Insts, Unresolved, k)
  /\ \A k \in Unresolved : checkpoints[Insts[k].branch_ID].gbm
                              = IDsBefore(Insts, Unresolved, k + 1)

(* Squashing by branch mask and truncating the Active List agree: the       *)
(* instructions in the issue queue and the lanes are exactly those between  *)
(* head and tail that have not completed.  One squashed by mistake would    *)
(* never complete; one left behind would complete somebody else's entry.    *)
PipeMatchesActiveList ==
  \A i \in ALIndex : exec[i].valid <=> InFlight(i) /\ ~ alList[i].completed

(* The renamer's own assertions and fatal exits are out of reach: the next  *)
(* register to allocate is in neither map (rename_rdst), a commit finds     *)
(* room in the free list, and head and tail never pass each other.          *)
NoFatalExit ==
  /\ FreeRegs > 0 => \A l \in Log : rmt[l] # flList[flHead]
                                    /\ amt[l] # flList[flHead]
  /\ FreeEntries < NActive /\ HasDest(alList[alHead].uop) => FreeRegs < FLSize
  /\ FreeRegs \in 0 .. FLSize
  /\ FreeEntries \in 0 .. NActive

----------------------------------------------------------------------------
(* The abstraction: the Active List and the DISPATCH latch as one sequence. *)
Mapped(u) == [logical |-> u.logical, physical |-> u.physical, src |-> u.src,
              psrc |-> u.psrc, branch |-> IsBranch(u)]

FlightSeq == [k \in 1 .. Used |-> Mapped(alList[Entry(k - 1)].uop)]
             \o [k \in DOMAIN latch |-> Mapped(latch[k].uop)]

Abstract == INSTANCE RegisterMapping
              WITH None <- Invalid, Capacity <- NActive + DispatchWidth,
                   committed <- amt, flight <- FlightSeq

(* The renamer implements RegisterMapping: a source is renamed as program   *)
(* order demands, a destination is a register nobody can still name, and a  *)
(* recovery from a checkpoint drops exactly the instructions younger than   *)
(* the branch, however branches, commits and squashes interleave.           *)
ImplementsRegisterMapping == Abstract!Spec

----------------------------------------------------------------------------
(* Every cycle runs the Writeback stage of every lane, Dispatch and Retire. *)
(* The issue queue and the lanes are taken to deliver every instruction to  *)
(* Writeback: an instruction waits only for older ones.                     *)
Fairness ==
  /\ \A i \in ALIndex : WF_vars(Writeback(i))
  /\ WF_vars(Dispatch)
  /\ WF_vars(Commit \/ Squash)

FairSpec == Spec /\ Fairness

(* Every checkpoint is given back: a branch bit in use is eventually free,  *)
(* so Rename never waits for a checkpoint forever.                          *)
CheckpointsReleased == \A b \in BranchIDs : b \in GBM ~> b \notin GBM

(* Every instruction that reaches the Active List leaves it: the head moves *)
(* on or the list is emptied by a squash.                                   *)
HeadRetires ==
  \A i \in ALIndex : (alHead = i /\ InFlight(i)) ~> (alHead # i \/ ~ InFlight(i))

============================================================================
