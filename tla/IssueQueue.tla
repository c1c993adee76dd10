----------------------------- MODULE IssueQueue -----------------------------
(***************************************************************************)
(* The unified issue queue of 721sim (issue_queue.cc).  An instruction is  *)
(* in three structures at once: an entry of q[], the free list fl[] of the *)
(* entries that hold none, and a doubly linked list in dispatch order.     *)
(*                                                                         *)
(* select_and_issue() and squash() walk over q[] and take instructions out *)
(* of the structures they walk on, so that each iteration of their loops   *)
(* is a step; nothing else runs until the loop is done.                    *)
(*                                                                         *)
(* An operator whose comment begins "Mutant" is not the code: it is the    *)
(* mistake that a property of IssueQueueProperties is shown to catch.      *)
(***************************************************************************)
EXTENDS Integers, FiniteSets

CONSTANTS
  Size,            \* size: entries of q[] and of fl[]
  NumParts,        \* num_parts: partitions for round-robin priority
  NLanes,          \* num_lanes: execution lanes
  Tags,            \* physical registers
  NBranches,       \* number of branch checkpoint IDs
  Incoming         \* the instructions that dispatch() may be given

Lanes     == 0 .. NLanes - 1
Slots     == 0 .. Size - 1
BranchIDs == 0 .. NBranches - 1
Nil       == -1
PartSize == Size \div NumParts

(***************************************************************************)
(* What an instruction brings: the tags of its operands that are valid and *)
(* not ready, the lanes it can execute in and its branch mask.  With       *)
(* PRESTEER its lane is chosen at dispatch, and lanes is a singleton.      *)
(***************************************************************************)
Insts == [wait        : SUBSET Tags,
          lanes       : SUBSET Lanes \ {{}},
          branch_mask : SUBSET BranchIDs]

ASSUME IssueQueueAssumption ==
  /\ Size \in Nat \ {0}
  /\ NumParts \in Nat \ {0} /\ Size % NumParts = 0
  /\ NLanes \in Nat \ {0}
  /\ NBranches \in Nat
  /\ Incoming \subseteq Insts /\ Incoming # {}

Entry == [valid : BOOLEAN, inst : Insts,
          prev : Slots \cup {Nil}, next : Slots \cup {Nil}]

NoEntry == [valid |-> FALSE, inst |-> CHOOSE inst \in Incoming : TRUE,
            prev |-> Nil, next |-> Nil]

VARIABLES
  q, length, oldest, youngest,
  fl, flHead, flTail, flLength,
  partNext,     \* part_next
  ageBased,     \* IDEAL_AGE_BASED, set by an option before the simulation starts
  rr,           \* the lanes whose Register Read stage holds an instruction
  loop          \* the loop in progress, with its induction variables

flVars   == <<fl, flHead, flTail, flLength>>
listVars == <<q, length, oldest, youngest>>
vars     == <<listVars, flVars, partNext, ageBased, rr, loop>>

(* The loop that runs, the branch it squashes, and its two counters.         *)
Loops     == [in : {"none", "select", "squash"}, b : BranchIDs \cup {Nil},
              i : Slots, j : Slots]
Idle      == [in |-> "none", b |-> Nil, i |-> 0, j |-> 0]
InLoop(n) == loop.in = n

Inc(i) == IF i + 1 = Size THEN 0 ELSE i + 1

Init ==
  /\ q = [i \in Slots |-> NoEntry]
  /\ length = 0 /\ oldest = Nil /\ youngest = Nil
  /\ fl = [i \in Slots |-> i]
  /\ flHead = 0 /\ flTail = 0 /\ flLength = Size
  /\ partNext = 0
  /\ ageBased \in BOOLEAN
  /\ rr = {}
  /\ loop = Idle

----------------------------------------------------------------------------
(* dispatch(): the entry at the head of the free list becomes the youngest. *)
(* Its caller has asked stall().                                            *)

Stall(bundle) == flLength < bundle

(* Mutant: the entry is not linked behind the youngest one.                 *)
NoLink(free, inst) ==
  [q EXCEPT ![free] = [valid |-> TRUE, inst |-> inst,
                       prev |-> youngest, next |-> Nil]]

Link(free, inst) ==
  [i \in Slots |->
    IF i = free THEN [valid |-> TRUE, inst |-> inst,
                      prev |-> youngest, next |-> Nil]
    ELSE IF i = youngest THEN [q[i] EXCEPT !.next = free]
    ELSE q[i]]

Dispatch(inst) ==
  /\ InLoop("none")
  /\ ~ Stall(1)
  /\ LET free == fl[flHead] IN
     /\ q' = Link(free, inst)
     /\ oldest' = IF oldest = Nil THEN free ELSE oldest
     /\ youngest' = free
  /\ length' = length + 1
  /\ flHead' = Inc(flHead)
  /\ flLength' = flLength - 1
  /\ UNCHANGED <<fl, flTail, partNext, ageBased, rr, loop>>

(* wakeup(): the tag is broadcast to every valid entry.                     *)
Wakeup(tag) ==
  /\ InLoop("none")
  /\ q' = [i \in Slots |-> IF q[i].valid
                           THEN [q[i] EXCEPT !.inst.wait = @ \ {tag}]
                           ELSE q[i]]
  /\ UNCHANGED <<length, oldest, youngest, flVars, partNext, ageBased, rr, loop>>

----------------------------------------------------------------------------
(* remove(): the entry goes to the tail of the free list and is unlinked;   *)
(* its own two links are left as they are.                                  *)

(* Mutant: unlinking the entry also resets its own link.                    *)
UnlinkAndReset(i) ==
  [k \in Slots |->
    IF k = i THEN [q[i] EXCEPT !.valid = FALSE, !.next = Nil]
    ELSE IF k = q[i].next THEN [q[k] EXCEPT !.prev = q[i].prev]
    ELSE IF k = q[i].prev THEN [q[k] EXCEPT !.next = q[i].next]
    ELSE q[k]]

Unlink(i) ==
  [k \in Slots |->
    IF k = i THEN [q[i] EXCEPT !.valid = FALSE]
    ELSE IF k = q[i].next THEN [q[k] EXCEPT !.prev = q[i].prev]
    ELSE IF k = q[i].prev THEN [q[k] EXCEPT !.next = q[i].next]
    ELSE q[k]]

(* Mutant: the entry is pushed at the head of the free list.                *)
PushAtHead(i) == [fl EXCEPT ![flHead] = i]

PushFree(i) == [fl EXCEPT ![flTail] = i]

Remove(i) ==
  /\ q' = Unlink(i)
  /\ length' = length - 1
  /\ fl' = PushFree(i)
  /\ flTail' = Inc(flTail)
  /\ flLength' = flLength + 1
  /\ oldest' = IF oldest = i THEN q[i].next ELSE oldest
  /\ youngest' = IF youngest = i THEN q[i].prev ELSE youngest
  /\ UNCHANGED flHead

KeepQueue == UNCHANGED <<listVars, flVars>>

----------------------------------------------------------------------------
(* select_and_issue().  It runs right after register_read() has moved every *)
(* instruction on to the Execute stage, so that all lanes are free.         *)

(* Mutant: the scan starts with the youngest instruction of the age list.   *)
ScanFromYoungest == IF ageBased THEN youngest ELSE partNext

ScanStart == IF ageBased THEN oldest ELSE partNext

StartSelect ==
  /\ InLoop("none")
  /\ ageBased => oldest # Nil
  /\ rr' = {}
  /\ loop' = [in |-> "select", b |-> Nil, i |-> ScanStart, j |-> 0]
  /\ KeepQueue /\ UNCHANGED <<partNext, ageBased>>

FreeLanes(i) == q[i].inst.lanes \ rr

(* Mutant: the operands are not looked at.                                  *)
ReadyAlways(i) == q[i].valid

Ready(i) == q[i].valid /\ q[i].inst.wait = {}

CanIssue(i) == Ready(i) /\ FreeLanes(i) # {}

(* The instruction goes to the lowest free lane among its candidates.       *)
Issue(i) ==
  /\ \E l \in FreeLanes(i) : /\ \A m \in FreeLanes(i) : l <= m
                             /\ rr' = rr \cup {l}
  /\ Remove(i)

ScanDone == loop.j + 1 = Size \/ (ageBased /\ q'[loop.i].next = Nil)

(* The entry may just have been removed, and its link is still followed.    *)
ScanNext == IF ageBased THEN q'[loop.i].next ELSE Inc(loop.i)

NextPart == IF partNext + PartSize = Size THEN 0 ELSE partNext + PartSize

SelectStep ==
  /\ InLoop("select")
  /\ IF CanIssue(loop.i) THEN Issue(loop.i) ELSE KeepQueue /\ UNCHANGED rr
  /\ IF ScanDone
     THEN loop' = Idle /\ partNext' = NextPart /\ UNCHANGED ageBased
     ELSE /\ loop' = [loop EXCEPT !.i = ScanNext, !.j = @ + 1]
          /\ UNCHANGED <<partNext, ageBased>>

----------------------------------------------------------------------------
(* squash(), clear_branch_bit() and flush().                                *)

StartSquash(b) ==
  /\ InLoop("none")
  /\ loop' = [in |-> "squash", b |-> b, i |-> 0, j |-> 0]
  /\ KeepQueue /\ UNCHANGED <<partNext, ageBased, rr>>

(* Mutant: an entry is skipped after a removal, as when removing from an    *)
(* array that closes the gap.                                               *)
SkipAfterRemoval(i) == IF q[i].valid /\ ~ q'[i].valid THEN i + 2 ELSE i + 1

SquashNext(i) == i + 1

SquashStep ==
  /\ InLoop("squash")
  /\ IF q[loop.i].valid /\ loop.b \in q[loop.i].inst.branch_mask
     THEN Remove(loop.i)
     ELSE KeepQueue
  /\ loop' = IF SquashNext(loop.i) < Size
             THEN [loop EXCEPT !.i = SquashNext(loop.i)] ELSE Idle
  /\ UNCHANGED <<partNext, ageBased, rr>>

(* Every entry loses the bit, also those that hold no instruction.          *)
ClearBranchBit(b) ==
  /\ InLoop("none")
  /\ q' = [i \in Slots |-> [q[i] EXCEPT !.inst.branch_mask = @ \ {b}]]
  /\ UNCHANGED <<length, oldest, youngest, flVars, partNext, ageBased, rr, loop>>

(* A flush leaves the links as they are; part of it is the flush of the     *)
(* lanes that squash_complete() does together with it.                      *)
Flush ==
  /\ InLoop("none")
  /\ q' = [i \in Slots |-> [q[i] EXCEPT !.valid = FALSE]]
  /\ length' = 0 /\ oldest' = Nil /\ youngest' = Nil
  /\ fl' = [i \in Slots |-> i]
  /\ flHead' = 0 /\ flTail' = 0 /\ flLength' = Size
  /\ rr' = {}
  /\ UNCHANGED <<partNext, ageBased, loop>>

----------------------------------------------------------------------------
Next ==
  \/ \E inst \in Incoming : Dispatch(inst)
  \/ \E tag \in Tags : Wakeup(tag)
  \/ StartSelect
  \/ SelectStep
  \/ \E b \in BranchIDs : StartSquash(b)
  \/ SquashStep
  \/ \E b \in BranchIDs : ClearBranchBit(b)
  \/ Flush

Spec == Init /\ [][Next]_vars

=============================================================================
