----------------------------- MODULE FetchUnit -----------------------------
(***************************************************************************)
(* The fetch unit of 721sim (fetchunit.cc) with its branch queue (bq.cc)   *)
(* and the payload ring (payload.cc) that every instruction in flight      *)
(* holds a place of: speculative branch history, misfetches, serializing   *)
(* instructions, recovery from mispredictions and complete squashes.       *)
(*                                                                         *)
(* Behind the DECODE latch the pipeline is one sequence of instructions in *)
(* program order.  What a fetch bundle holds, what is predicted for its    *)
(* branches and when the instruction cache delivers it are choices.  One   *)
(* history stands for the two registers of the conditional and the         *)
(* indirect predictor, which are always updated together.                  *)
(*                                                                         *)
(* An operator whose comment begins "Mutant" is not the code: it is the    *)
(* mistake that a property of FetchUnitProperties is shown to catch.       *)
(***************************************************************************)
EXTENDS Integers, Sequences, FiniteSets, SequencesExt

CONSTANTS
  InstrPerCycle,   \* instr_per_cycle
  Window,          \* bound: instructions behind the DECODE latch
  InFlight,        \* total_inflight_instr
  BQSize,          \* bq_size
  HistoryBits,     \* cb_bhr_length, ib_bhr_length
  Kinds            \* the kinds of instructions that are fetched

AllKinds == {"op",      \* no branch, does not serialize
             "br",      \* a conditional branch
             "jr",      \* an indirect jump, call or return
             "ser",     \* AMO or SYSTEM: serializes
             "fault"}   \* raised an exception when it was fetched

ASSUME FetchUnitAssumption ==
  /\ InstrPerCycle \in Nat \ {0} /\ Window \in Nat \ {0}
  /\ InFlight \in Nat /\ BQSize \in Nat \ {0} /\ HistoryBits \in Nat \ {0}
  /\ Kinds \subseteq AllKinds

(* Decode keeps room for twice its bundle in the fetch queue, so the queue  *)
(* is never quite full and the payload has one place more than can be used. *)
(* A whole bundle fits behind DECODE.                                       *)
ASSUME RoomAssumption ==
  /\ InFlight > 2 * InstrPerCycle + Window
  /\ BQSize >= InstrPerCycle + Window \/ Kinds \cap {"br", "jr"} = {}
  /\ Window >= InstrPerCycle

(* No odd number but 1 divides a power of two.                              *)
IsPow2(n) == \A d \in 2 .. n : n % d = 0 => d % 2 = 0

(* Two entries for each instruction, rounded up to a power of two.          *)
PaySize == CHOOSE n \in 2 * InFlight .. 4 * InFlight - 1 : IsPow2(n)

BQIndex   == 0 .. BQSize - 1
PayIndex  == 0 .. PaySize - 1
Slots     == 0 .. InstrPerCycle - 1
Histories == [1 .. HistoryBits -> BOOLEAN]
None      == -1

VARIABLES
  fetch_active,
  bhr,              \* the speculative branch history
  status,           \* fetch2_status
  FETCH2,           \* the latch between Fetch1 and Fetch2, slot by slot
  DECODE,           \* the latch between Fetch2 and Decode
  window,           \* the instructions behind it, the oldest first
  bq, bqHead, bqHeadPhase, bqTail, bqTailPhase,
  payHead, payTail, payLength

bqVars  == <<bq, bqHead, bqHeadPhase, bqTail, bqTailPhase>>
payVars == <<payHead, payTail, payLength>>
vars    == <<fetch_active, bhr, status, FETCH2, DECODE, window, bqVars, payVars>>

Bubble == [kind |-> "none", taken |-> FALSE, resolved |-> FALSE,
           pay |-> 0, tag |-> 0, phase |-> 0]

Inst(kind, taken) == [Bubble EXCEPT !.kind = kind, !.taken = taken]

IsBranch(i) == i.kind \in {"br", "jr"}
Stops(i)    == i.kind \in {"ser", "fault"}

NoStatus  == [valid |-> FALSE, bhr |-> [b \in 1 .. HistoryBits |-> FALSE],
              pay |-> 0, flaw |-> None]
NoFetch2  == [pos \in Slots |-> Bubble]

(* A branch queue entry is not initialized before it is first pushed.       *)
Init ==
  /\ fetch_active = TRUE
  /\ bhr = [b \in 1 .. HistoryBits |-> FALSE]
  /\ status = NoStatus /\ FETCH2 = NoFetch2 /\ DECODE = <<>> /\ window = <<>>
  /\ bq \in [BQIndex -> [bhr : Histories, taken : {FALSE}]]
  /\ bqHead = 0 /\ bqHeadPhase = 0 /\ bqTail = 0 /\ bqTailPhase = 0
  /\ payHead = 0 /\ payTail = 0 /\ payLength = 0

----------------------------------------------------------------------------
(* Helpers.                                                                 *)

(* A conditional branch shifts its outcome into the history.                *)
Shift(h, i) == IF i.kind = "br" THEN Append(Tail(h), i.taken) ELSE h

(* The histories along some instructions, after the first n of them.        *)
Along(h, insts) ==
  LET f[n \in 0 .. Len(insts)] ==
        IF n = 0 THEN h ELSE Shift(f[n - 1], insts[n])
  IN f

After(h, insts) == Along(h, insts)[Len(insts)]

(* The branches among some instructions, and those before the k-th place.   *)
Branches(insts)  == {k \in DOMAIN insts : IsBranch(insts[k])}
Before(insts, k) == Cardinality({j \in Branches(insts) : j < k})

(* The instructions of FETCH2 up to the first slot that is not valid.       *)
Walked(F) == CHOOSE n \in 0 .. InstrPerCycle :
               /\ \A p \in 0 .. n - 1 : F[p].kind # "none"
               /\ n < InstrPerCycle => F[n].kind = "none"

Walk(F) == [k \in 1 .. Walked(F) |-> F[k - 1]]

(* Mutant: the length is left as it was.                                    *)
PayTailOnly(tail) == payTail' = tail /\ UNCHANGED <<payHead, payLength>>

(* rollback() and restore() of the payload recompute the length, which      *)
(* reads 0 for a full ring.                                                 *)
PayTo(tail) ==
  /\ payTail' = tail
  /\ payLength' = (PaySize + tail - payHead) % PaySize
  /\ UNCHANGED payHead

PayAfter(i) == (i.pay + 2) % PaySize

PayPop ==
  /\ payHead' = (payHead + 2) % PaySize
  /\ payLength' = payLength - 2
  /\ UNCHANGED payTail

(* Mutant: only the status is squashed, not the latch.                      *)
KeepSlots == FETCH2

Squashed == NoFetch2

SquashFetch2 == status' = NoStatus /\ FETCH2' = Squashed

----------------------------------------------------------------------------
(* Fetch1.  A bundle ends with a taken branch, with an instruction that     *)
(* faults, at the number of branches that can be predicted, or when it is   *)
(* full.  If the BTB is wrong about an instruction of it the history is     *)
(* updated for branches that are not there, or not for those that are.      *)
BundleInsts == {Inst(kind, FALSE) : kind \in Kinds} \cup
               {Inst(kind, TRUE) : kind \in Kinds \cap {"br"}}

EndsBundle(i) == i.kind \in {"jr", "fault"} \/ i.taken

Bundles ==
  {b \in UNION {[1 .. n -> BundleInsts] : n \in 1 .. InstrPerCycle} :
     /\ \A k \in 1 .. Len(b) - 1 : ~ EndsBundle(b[k])
     /\ Len(b) < InstrPerCycle => EndsBundle(b[Len(b)]) \/ b[Len(b)].kind = "br"}

Fetch1 ==
  /\ fetch_active /\ ~ status.valid
  /\ \E b \in Bundles, flaw \in {None} \cup Slots, h \in Histories :
       /\ flaw < Len(b)
       /\ flaw = None => h = After(bhr, b)
       /\ bhr' = h
       /\ status' = [valid |-> TRUE, bhr |-> bhr, pay |-> payTail, flaw |-> flaw]
       /\ FETCH2' = [pos \in Slots |->
            IF pos < Len(b)
            THEN [b[pos + 1] EXCEPT !.pay = (payTail + 2 * pos) % PaySize]
            ELSE FETCH2[pos]]
       /\ payTail' = (payTail + 2 * Len(b)) % PaySize
       /\ payLength' = payLength + 2 * Len(b)
  /\ UNCHANGED <<fetch_active, DECODE, window, bqVars, payHead>>

----------------------------------------------------------------------------
(* Fetch2.  Predecode runs every cycle that the bundle is there.            *)

Serializers(insts) == {k \in DOMAIN insts : insts[k].kind = "ser"}

(* Mutant: what follows a serializing instruction stays in the bundle.      *)
CutNothing(insts) == insts

(* What is left of the bundle, cut after its first serializing instruction: *)
(* the slot after that one is invalidated, and the walk ends there.         *)
Cut(insts) ==
  IF Serializers(insts) = {} THEN insts
  ELSE SubSeq(insts, 1, CHOOSE k \in Serializers(insts) :
                          \A j \in Serializers(insts) : k <= j)

CutSlots ==
  LET n == Len(Cut(Walk(FETCH2))) IN
  IF Serializers(Walk(FETCH2)) # {} /\ n < InstrPerCycle
  THEN [FETCH2 EXCEPT ![n] = Bubble] ELSE FETCH2

PredecodePay ==
  LET insts == Walk(FETCH2) IN
  IF Serializers(insts) # {} THEN PayTo(PayAfter(Last(Cut(insts)))) ELSE UNCHANGED payVars

(* Misfetch: the fetch unit goes back to before the bundle.                 *)
Fetch2Misfetch ==
  /\ status.valid /\ status.flaw # None /\ status.flaw < Len(Cut(Walk(FETCH2)))
  /\ fetch_active' = TRUE
  /\ SquashFetch2
  /\ bhr' = status.bhr
  /\ PayTo(status.pay)
  /\ UNCHANGED <<DECODE, window, bqVars>>

Predecoded ==
  /\ status.valid /\ ~ (status.flaw # None /\ status.flaw < Len(Cut(Walk(FETCH2))))
  /\ fetch_active' = (fetch_active /\ \A i \in ToSet(Cut(Walk(FETCH2))) : ~ Stops(i))
  /\ PredecodePay
  /\ UNCHANGED <<bhr, window>>

(* The bundle in DECODE has not advanced.                                   *)
Fetch2Stall ==
  /\ DECODE # <<>>
  /\ Predecoded
  /\ FETCH2' = CutSlots
  /\ UNCHANGED <<status, DECODE, bqVars>>

(* The n-th place of the branch queue behind the tail.                      *)
TagAfter(n)   == (bqTail + n) % BQSize

(* Mutant: every branch of a bundle gets the phase of the first.            *)
PhaseOfTail(n) == bqTailPhase

PhaseAfter(n) == IF bqTail + n >= BQSize THEN 1 - bqTailPhase ELSE bqTailPhase

(* Mutant: a branch records the history before its whole bundle.            *)
BundleHistory(insts, k) == status.bhr

(* The history just before the k-th instruction of the bundle.              *)
PreciseHistory(insts, k) == Along(status.bhr, insts)[k - 1]

(* The bundle moves to DECODE and its branches to the branch queue.         *)
Fetch2Advance ==
  /\ DECODE = <<>>
  /\ Predecoded
  /\ LET insts == Cut(Walk(FETCH2))
         Place(k) == TagAfter(Before(insts, k))
         pushed == Before(insts, Len(insts) + 1) IN
     /\ DECODE' = [k \in DOMAIN insts |->
          IF IsBranch(insts[k])
          THEN [insts[k] EXCEPT !.tag = Place(k), !.phase = PhaseAfter(Before(insts, k))]
          ELSE insts[k]]
     /\ bq' = [t \in BQIndex |->
          IF \E k \in Branches(insts) : Place(k) = t
          THEN LET k == CHOOSE k \in Branches(insts) : Place(k) = t
               IN [bhr |-> PreciseHistory(insts, k), taken |-> insts[k].taken]
          ELSE bq[t]]
     /\ bqTail' = TagAfter(pushed)
     /\ bqTailPhase' = PhaseAfter(pushed)
     /\ FETCH2' = [pos \in Slots |-> IF pos < Len(insts) THEN Bubble ELSE CutSlots[pos]]
  /\ status' = NoStatus
  /\ UNCHANGED <<bqHead, bqHeadPhase>>

(* Decode takes the whole bundle when there is room for it.                 *)
Decode ==
  /\ DECODE # <<>> /\ Len(window) + Len(DECODE) <= Window
  /\ window' = window \o DECODE
  /\ DECODE' = <<>>
  /\ UNCHANGED <<fetch_active, bhr, status, FETCH2, bqVars, payVars>>

----------------------------------------------------------------------------
(* A branch resolves.  On a misprediction the branch queue is rolled back   *)
(* to the branch, which is pushed again, and everything younger goes.       *)
ResolveCorrect(k) ==
  /\ IsBranch(window[k]) /\ ~ window[k].resolved
  /\ window' = [window EXCEPT ![k].resolved = TRUE]
  /\ UNCHANGED <<fetch_active, bhr, status, FETCH2, DECODE, bqVars, payVars>>

(* Mutant: fetching goes on only if it was going on.                        *)
StayInactive == fetch_active

Reactivated == TRUE

Mispredict(k) ==
  LET i == window[k]
      r == [i EXCEPT !.resolved = TRUE,
                     !.taken = IF i.kind = "br" THEN ~ i.taken ELSE @] IN
  /\ IsBranch(i) /\ ~ i.resolved
  /\ window' = Append(SubSeq(window, 1, k - 1), r)
  /\ DECODE' = <<>>
  /\ bqTail' = (i.tag + 1) % BQSize
  /\ bqTailPhase' = IF i.tag + 1 = BQSize THEN 1 - i.phase ELSE i.phase
  /\ bq' = [bq EXCEPT ![i.tag].taken = r.taken]
  /\ bhr' = Shift(bq[i.tag].bhr, r)
  /\ fetch_active' = Reactivated
  /\ SquashFetch2
  /\ PayTo(PayAfter(i))
  /\ UNCHANGED <<bqHead, bqHeadPhase>>

----------------------------------------------------------------------------
(* Retire.                                                                  *)
CommitOp ==
  /\ window # <<>> /\ Head(window).kind = "op"
  /\ window' = Tail(window)
  /\ PayPop
  /\ UNCHANGED <<fetch_active, bhr, status, FETCH2, DECODE, bqVars>>

CommitBranch ==
  /\ window # <<>> /\ IsBranch(Head(window)) /\ Head(window).resolved
  /\ bqHead' = (bqHead + 1) % BQSize
  /\ bqHeadPhase' = IF bqHead + 1 = BQSize THEN 1 - bqHeadPhase ELSE bqHeadPhase
  /\ window' = Tail(window)
  /\ PayPop
  /\ UNCHANGED <<fetch_active, bhr, status, FETCH2, DECODE, bq, bqTail, bqTailPhase>>

(* flush(): the branch queue empties, and the history is the one in the     *)
(* entry at its head, whether or not there was a branch in it.              *)
Flush ==
  /\ bqTail' = bqHead /\ bqTailPhase' = bqHeadPhase
  /\ bhr' = bq[bqHead].bhr
  /\ fetch_active' = TRUE
  /\ SquashFetch2
  /\ UNCHANGED <<bq, bqHead, bqHeadPhase>>

(* The fetch unit alone is flushed: "the pipeline is now empty".            *)
CommitSerializer ==
  /\ window # <<>> /\ Head(window).kind = "ser"
  /\ Flush
  /\ window' = Tail(window)
  /\ PayPop
  /\ UNCHANGED DECODE

(* An exception or a load violation: everything goes.                       *)
SquashComplete ==
  /\ window # <<>> /\ ~ IsBranch(Head(window))
  /\ Flush
  /\ DECODE' = <<>> /\ window' = <<>>
  /\ payHead' = 0 /\ payTail' = 0 /\ payLength' = 0

----------------------------------------------------------------------------
Next ==
  \/ Fetch1
  \/ Fetch2Misfetch
  \/ Fetch2Stall
  \/ Fetch2Advance
  \/ Decode
  \/ \E k \in DOMAIN window : ResolveCorrect(k)
  \/ \E k \in DOMAIN window : Mispredict(k)
  \/ CommitOp
  \/ CommitBranch
  \/ CommitSerializer
  \/ SquashComplete

Spec == Init /\ [][Next]_vars

=============================================================================
