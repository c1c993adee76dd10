--------------------------- MODULE RenamerProofs ---------------------------
(***************************************************************************)
(* Proofs about the renamer, for every size of its structures: what its    *)
(* rings and its operators on sequences of instructions do, its types, its *)
(* safety, and that it implements RegisterMapping.                         *)
(*                                                                         *)
(* The parts of the inductive invariant support each other: a commit keeps *)
(* the registers conserved because AllocationOrder says what the slot at   *)
(* the tail holds; a misprediction keeps the RMT precise because the       *)
(* checkpoint is; and the checkpoint belongs to the branch because no two  *)
(* unresolved branches share a bit.                                        *)
(***************************************************************************)
EXTENDS RenamerProperties, FiniteSetTheorems, FunctionTheorems, SequenceTheorems, TLAPS

----------------------------------------------------------------------------
(* MappedBefore                                                            *)

(* Before the first instruction, the committed map counts.                  *)
LEMMA MappedZero ==
  ASSUME NEW f, NEW m, NEW l, NEW p
  PROVE  MappedBefore(f, m, 0, l, p) <=> p = m[l]
  BY DEF MappedBefore

(* One more instruction overlays the map with its destination.              *)
LEMMA MappedStep ==
  ASSUME NEW f, NEW m, NEW k \in Nat, NEW l, NEW p
  PROVE  MappedBefore(f, m, k + 1, l, p) <=>
           IF f[k].logical = l THEN p = f[k].physical
                               ELSE MappedBefore(f, m, k, l, p)
<1>1. 0 .. (k + 1) - 1 = 0 .. k /\ 0 .. k = (0 .. k - 1) \cup {k}
  OBVIOUS
<1>2. CASE f[k].logical = l
  <2>1. ASSUME MappedBefore(f, m, k + 1, l, p) PROVE p = f[k].physical
    <3>1. PICK j \in 0 .. k : /\ f[j].logical = l
                              /\ \A i \in j + 1 .. k : f[i].logical # l
                              /\ p = f[j].physical
      BY <1>1, <1>2, <2>1 DEF MappedBefore
    <3>2. j = k
      BY <1>2, <3>1
    <3>3. QED
      BY <3>1, <3>2
  <2>2. ASSUME p = f[k].physical PROVE MappedBefore(f, m, k + 1, l, p)
    <3>1. k \in 0 .. (k + 1) - 1 /\ k + 1 .. (k + 1) - 1 = {}
      OBVIOUS
    <3>2. QED
      BY <1>2, <2>2, <3>1 DEF MappedBefore
  <2>3. QED
    BY <1>2, <2>1, <2>2
<1>3. CASE f[k].logical # l
  <2>1. ASSUME NEW j \in 0 .. k - 1
        PROVE  (\A i \in j + 1 .. k - 1 : f[i].logical # l) <=>
               (\A i \in j + 1 .. (k + 1) - 1 : f[i].logical # l)
    <3>1. j + 1 .. (k + 1) - 1 = (j + 1 .. k - 1) \cup {k}
      OBVIOUS
    <3>2. QED
      BY <1>3, <3>1
  <2>2. QED
    BY <1>1, <1>3, <2>1 DEF MappedBefore
<1>4. QED
  BY <1>2, <1>3

(* Only the instructions before the position count.                         *)
LEMMA MappedAgree ==
  ASSUME NEW f, NEW g, NEW m, NEW k \in Nat, NEW l, NEW p,
         \A j \in 0 .. k - 1 : f[j] = g[j]
  PROVE  MappedBefore(f, m, k, l, p) <=> MappedBefore(g, m, k, l, p)
<1>1. \A j \in 0 .. k - 1 : \A i \in j + 1 .. k - 1 : f[i] = g[i]
  OBVIOUS
<1>2. QED
  BY <1>1 DEF MappedBefore

(* Committing the oldest instruction moves its destination into the map and *)
(* changes no mapping.                                                      *)
LEMMA MappedShift ==
  ASSUME NEW f, NEW g, NEW m, NEW n, NEW k \in Nat, NEW l, NEW p,
         \A j \in 0 .. k - 1 : g[j] = f[j + 1],
         n[l] = IF f[0].logical = l THEN f[0].physical ELSE m[l],
         MappedBefore(f, m, k + 1, l, p)
  PROVE  MappedBefore(g, n, k, l, p)
<1>1. CASE \A j \in 0 .. k : f[j].logical # l
  <2>1. p = m[l] /\ n[l] = m[l]
    BY <1>1 DEF MappedBefore
  <2>2. \A j \in 0 .. k - 1 : g[j].logical # l
    BY <1>1
  <2>3. QED
    BY <2>1, <2>2 DEF MappedBefore
<1>2. CASE \E j \in 0 .. k : f[j].logical = l
  <2>1. PICK j \in 0 .. k : /\ f[j].logical = l
                            /\ \A i \in j + 1 .. k : f[i].logical # l
                            /\ p = f[j].physical
    BY <1>2 DEF MappedBefore
  <2>2. CASE j = 0
    <3>1. p = n[l]
      BY <2>1, <2>2
    <3>2. \A i \in 0 .. k - 1 : g[i].logical # l
      BY <2>1, <2>2
    <3>3. QED
      BY <3>1, <3>2 DEF MappedBefore
  <2>3. CASE j # 0
    <3>1. j - 1 \in 0 .. k - 1 /\ g[j - 1] = f[j]
      BY <2>3
    <3>2. \A i \in (j - 1) + 1 .. k - 1 : g[i].logical # l
      BY <2>1, <2>3
    <3>3. QED
      BY <2>1, <3>1, <3>2 DEF MappedBefore
  <2>4. QED
    BY <2>2, <2>3
<1>3. QED
  BY <1>1, <1>2

----------------------------------------------------------------------------
(* DestsBefore                                                             *)

LEMMA DestsFinite ==
  ASSUME NEW f, NEW k \in Nat
  PROVE  /\ IsFiniteSet({j \in 0 .. k - 1 : HasDest(f[j])})
         /\ DestsBefore(f, k) \in Nat
         /\ DestsBefore(f, k) <= k
<1>1. IsFiniteSet(0 .. k - 1) /\ Cardinality(0 .. k - 1) = k
  BY FS_Interval
<1>2. {j \in 0 .. k - 1 : HasDest(f[j])} \in SUBSET (0 .. k - 1)
  OBVIOUS
<1>3. QED
  BY <1>1, <1>2, FS_Subset, FS_CardinalityType DEF DestsBefore

LEMMA DestsZero ==
  ASSUME NEW f
  PROVE  DestsBefore(f, 0) = 0
<1>1. {j \in 0 .. 0 - 1 : HasDest(f[j])} = {}
  OBVIOUS
<1>2. QED
  BY <1>1, FS_EmptySet DEF DestsBefore

LEMMA DestsStep ==
  ASSUME NEW f, NEW k \in Nat
  PROVE  DestsBefore(f, k + 1) =
           DestsBefore(f, k) + (IF HasDest(f[k]) THEN 1 ELSE 0)
<1> DEFINE S == {j \in 0 .. k - 1 : HasDest(f[j])}
           T == {j \in 0 .. (k + 1) - 1 : HasDest(f[j])}
<1>1. IsFiniteSet(S) /\ k \notin S
  BY DestsFinite
<1>2. CASE HasDest(f[k])
  <2>1. T = S \cup {k}
    BY <1>2
  <2>2. QED
    BY <1>1, <1>2, <2>1, FS_AddElement, DestsFinite DEF DestsBefore
<1>3. CASE ~ HasDest(f[k])
  <2>1. T = S
    BY <1>3
  <2>2. DestsBefore(f, k) \in Nat
    BY DestsFinite
  <2>3. QED
    BY <1>3, <2>1, <2>2 DEF DestsBefore
<1>4. QED
  BY <1>2, <1>3

LEMMA DestsMonotone ==
  ASSUME NEW f, NEW k \in Nat, NEW i \in Nat, i <= k
  PROVE  DestsBefore(f, i) <= DestsBefore(f, k)
<1>1. {j \in 0 .. i - 1 : HasDest(f[j])}
        \in SUBSET {j \in 0 .. k - 1 : HasDest(f[j])}
  OBVIOUS
<1>2. QED
  BY <1>1, FS_Subset, DestsFinite DEF DestsBefore

(* A destination before position k has a slot of its own below k's.         *)
LEMMA DestsStrict ==
  ASSUME NEW f, NEW k \in Nat, NEW i \in Nat, i < k, HasDest(f[i])
  PROVE  DestsBefore(f, i) < DestsBefore(f, k)
<1>1. i + 1 \in Nat /\ i + 1 <= k
  OBVIOUS
<1>2. DestsBefore(f, i + 1) = DestsBefore(f, i) + 1
  BY DestsStep
<1>3. DestsBefore(f, i + 1) <= DestsBefore(f, k)
  BY <1>1, DestsMonotone
<1>4. DestsBefore(f, i) \in Nat /\ DestsBefore(f, k) \in Nat
  BY DestsFinite
<1>5. QED
  BY <1>2, <1>3, <1>4

LEMMA DestsAgree ==
  ASSUME NEW f, NEW g, NEW k \in Nat, \A j \in 0 .. k - 1 : f[j] = g[j]
  PROVE  DestsBefore(f, k) = DestsBefore(g, k)
<1>1. {j \in 0 .. k - 1 : HasDest(f[j])} = {j \in 0 .. k - 1 : HasDest(g[j])}
  OBVIOUS
<1>2. QED
  BY <1>1 DEF DestsBefore

(* Dropping the oldest instruction lowers every count by its destination.   *)
LEMMA DestsShift ==
  ASSUME NEW f, NEW g, NEW k \in Nat, \A j \in 0 .. k - 1 : g[j] = f[j + 1]
  PROVE  DestsBefore(f, k + 1) =
           DestsBefore(g, k) + (IF HasDest(f[0]) THEN 1 ELSE 0)
<1> DEFINE S == {j \in 0 .. k - 1 : HasDest(g[j])}
           T == {j \in 0 .. (k + 1) - 1 : HasDest(f[j])}
           F == [j \in S |-> j + 1]
<1>1. IsFiniteSet(S) /\ IsFiniteSet(T) /\ Cardinality(S) \in Nat
  <2>1. k + 1 \in Nat
    OBVIOUS
  <2>2. QED
    BY <2>1, DestsFinite, FS_CardinalityType
<1>2. F \in Bijection(S, T \ {0})
  <2>1. \A j \in S : j + 1 \in T \ {0}
    OBVIOUS
  <2>2. \A a, b \in S : F[a] = F[b] => a = b
    OBVIOUS
  <2>3. \A t \in T \ {0} : t - 1 \in S /\ F[t - 1] = t
    <3> SUFFICES ASSUME NEW t \in T \ {0} PROVE t - 1 \in S /\ F[t - 1] = t
      OBVIOUS
    <3>1. t \in 1 .. k /\ HasDest(f[t])
      OBVIOUS
    <3>2. t - 1 \in 0 .. k - 1 /\ g[t - 1] = f[t]
      BY <3>1
    <3>3. QED
      BY <3>1, <3>2
  <2>4. F \in [S -> T \ {0}]
    BY <2>1
  <2>5. QED
    BY <2>2, <2>3, <2>4, Fun_IsBij
<1>3. Cardinality(T \ {0}) = Cardinality(S)
  BY <1>1, <1>2, FS_Bijection DEF ExistsBijection
<1>4. 0 \in T <=> HasDest(f[0])
  OBVIOUS
<1>5. Cardinality(T) \in Nat
  BY <1>1, FS_CardinalityType
<1>6. CASE HasDest(f[0])
  <2>1. Cardinality(T \ {0}) = Cardinality(T) - 1
    BY <1>1, <1>4, <1>6, FS_RemoveElement
  <2>2. QED
    BY <1>1, <1>3, <1>5, <1>6, <2>1 DEF DestsBefore
<1>7. CASE ~ HasDest(f[0])
  <2>1. T \ {0} = T
    BY <1>4, <1>7
  <2>2. QED
    BY <1>1, <1>3, <1>7, <2>1 DEF DestsBefore
<1>8. QED
  BY <1>6, <1>7

----------------------------------------------------------------------------
(* IDsBefore                                                               *)

LEMMA IDsAgree ==
  ASSUME NEW f, NEW g, NEW k \in Nat, NEW U \in SUBSET Nat, NEW V \in SUBSET Nat,
         \A j \in 0 .. k - 1 : f[j] = g[j] /\ (j \in U <=> j \in V)
  PROVE  IDsBefore(f, U, k) = IDsBefore(g, V, k)
<1>1. /\ \A i \in U : i < k <=> i \in 0 .. k - 1
      /\ \A i \in V : i < k <=> i \in 0 .. k - 1
  <2>1. \A i \in Nat : i < k <=> i \in 0 .. k - 1
    OBVIOUS
  <2>2. QED
    BY <2>1
<1>2. {i \in U : i < k} = {i \in V : i < k}
  BY <1>1
<1>3. \A j \in {i \in U : i < k} : f[j] = g[j]
  BY <1>1
<1>4. QED
  BY <1>2, <1>3 DEF IDsBefore

LEMMA IDsStep ==
  ASSUME NEW f, NEW k \in Nat, NEW U \in SUBSET Nat
  PROVE  IDsBefore(f, U, k + 1) =
           IDsBefore(f, U, k) \cup (IF k \in U THEN {f[k].branch_ID} ELSE {})
<1>1. {i \in U : i < k + 1} =
        {i \in U : i < k} \cup (IF k \in U THEN {k} ELSE {})
  <2>1. \A i \in Nat : i < k + 1 <=> i < k \/ i = k
    OBVIOUS
  <2>2. \A i \in U : i < k + 1 <=> i < k \/ i = k
    BY <2>1
  <2>3. ~ (k < k)
    OBVIOUS
  <2>4. QED
    BY <2>2, <2>3
<1>2. QED
  BY <1>1 DEF IDsBefore

(* Dropping an instruction that is not in U.                                *)
LEMMA IDsShift ==
  ASSUME NEW f, NEW g, NEW k \in Nat, NEW U \in SUBSET Nat, NEW V \in SUBSET Nat,
         0 \notin U,
         \A j \in 0 .. k - 1 : g[j] = f[j + 1] /\ (j \in V <=> j + 1 \in U)
  PROVE  IDsBefore(f, U, k + 1) = IDsBefore(g, V, k)
<1>1. ASSUME NEW x \in IDsBefore(f, U, k + 1) PROVE x \in IDsBefore(g, V, k)
  <2>1. PICK j \in U : j < k + 1 /\ x = f[j].branch_ID
    BY DEF IDsBefore
  <2>2. j # 0 /\ j - 1 \in 0 .. k - 1 /\ j - 1 \in V /\ g[j - 1] = f[j]
    <3>1. j \in Nat /\ j # 0
      BY <2>1
    <3>2. j - 1 \in 0 .. k - 1 /\ (j - 1) + 1 = j
      BY <2>1, <3>1
    <3>3. QED
      BY <3>1, <3>2, <2>1
  <2>3. QED
    BY <2>1, <2>2 DEF IDsBefore
<1>2. ASSUME NEW x \in IDsBefore(g, V, k) PROVE x \in IDsBefore(f, U, k + 1)
  <2>1. PICK j \in V : j < k /\ x = g[j].branch_ID
    BY DEF IDsBefore
  <2>2. j \in 0 .. k - 1
    BY <2>1
  <2>3. j + 1 \in U /\ j + 1 < k + 1 /\ x = f[j + 1].branch_ID
    BY <2>1, <2>2
  <2>4. QED
    BY <2>3 DEF IDsBefore
<1>3. QED
  BY <1>1, <1>2

----------------------------------------------------------------------------
(* The rings, the latches and the types.                                    *)
LEMMA RingPointer ==
  ASSUME NEW size \in Nat \ {0}, NEW i \in 0 .. size - 1, NEW p \in Phase
  PROVE  /\ NextIndex(i, size) \in 0 .. size - 1
         /\ NextPhase(i, p, size) \in Phase
  BY DEF NextIndex, NextPhase, Phase

LEMMA SizesPositive ==
  /\ FLSize \in Nat \ {0}
  /\ NActive \in Nat \ {0}
  /\ FLIndex = 0 .. FLSize - 1
  /\ ALIndex = 0 .. NActive - 1
  /\ Invalid \notin Log /\ Invalid \notin Phys /\ Invalid \notin BranchIDs
  BY RenamerAssumption DEF FLSize, FLIndex, ALIndex, Invalid, Log, Phys, BranchIDs

LEMMA LatchAppend ==
  ASSUME TypeOK, NEW u \in Uop, Latch(u)
  PROVE  latch' \in Seq(Latched)
<1>1. latch \in Seq(Latched) /\ [uop |-> u, branch_mask |-> GBM] \in Latched
  BY DEF TypeOK, Latched
<1>2. QED
  BY <1>1, AppendProperties DEF Latch

(* A renamed instruction is well formed.                                    *)
LEMMA RenamedUopType ==
  ASSUME TypeOK, NEW kind \in UopKinds, NEW id \in BranchIDs \cup {Invalid}
  PROVE  RenamedUop(kind, id) \in Uop
<1>1. kind.logical \in Log \cup {Invalid} /\ kind.src \in Log \cup {Invalid}
  BY RenamerAssumption DEF AllKinds
<1>2. RenameSource(kind) \in Phys \cup {Invalid}
  BY <1>1 DEF RenameSource, TypeOK
<1>3. flList[flHead] \in Phys
  BY DEF TypeOK
<1>4. QED
  BY <1>1, <1>2, <1>3, SizesPositive DEF RenamedUop, Uop

LEMMA TypeInit == Init => TypeOK
<1> SUFFICES ASSUME Init PROVE TypeOK
  OBVIOUS
<1>1. amt \in [Log -> Phys] /\ flList \in [FLIndex -> Phys]
  BY RenamerAssumption DEF Init, Log, Phys, FLIndex, FLSize
<1>2. NoEntry \in ALEntry /\ NotInPipe \in InPipe
  BY DEF NoEntry, ALEntry, NoUop, Uop, NotInPipe, InPipe
<1>3. NoCheckpoint \in Checkpoint
  BY SizesPositive, RenamerAssumption
     DEF NoCheckpoint, Checkpoint, Phase, Phys
<1>4. QED
  BY <1>1, <1>2, <1>3, SizesPositive DEF Init, TypeOK, Phase

LEMMA TypeStep == TypeOK /\ [Next]_vars => TypeOK'
<1> SUFFICES ASSUME TypeOK, [Next]_vars PROVE TypeOK'
  OBVIOUS
<1>1. ASSUME NEW kind \in UopKinds, Rename(kind) PROVE TypeOK'
  <2>1. /\ rmt' \in [Log -> Phys]
        /\ flHead' \in FLIndex /\ flHeadPhase' \in Phase
    <3>1. CASE kind.logical = Invalid
      BY <3>1, <1>1 DEF Rename, RenameDest, TypeOK
    <3>2. CASE kind.logical # Invalid
      <4>1. kind.logical \in Log
        BY <3>2, RenamerAssumption DEF AllKinds
      <4>2. RenameDest(kind) /\ flHead \in FLIndex /\ flHeadPhase \in Phase
        BY <3>2, <1>1 DEF Rename, TypeOK
      <4>3. flHead' \in FLIndex /\ flHeadPhase' \in Phase
        BY <4>2, RingPointer, SizesPositive DEF RenameDest
      <4>4. rmt' \in [Log -> Phys]
        BY <4>1, <4>2 DEF RenameDest, TypeOK
      <4>5. QED
        BY <4>3, <4>4
    <3>3. QED
      BY <3>1, <3>2
  <2>2. CASE ~ kind.branch
    <3>1. latch' \in Seq(Latched)
      BY <2>2, <1>1, RenamedUopType, LatchAppend DEF Rename
    <3>2. QED
      BY <2>1, <2>2, <3>1, <1>1 DEF Rename, TypeOK, brVars, alVars
  <2>3. CASE kind.branch
    <3>1. PICK b \in BranchIDs : Latch(RenamedUop(kind, b)) /\ TakeCheckpoint(b)
      BY <2>3, <1>1 DEF Rename
    <3>2. GBM' \in SUBSET BranchIDs /\ checkpoints' \in [BranchIDs -> Checkpoint]
      BY <3>1, <2>1 DEF TakeCheckpoint, CheckpointState, Checkpoint, TypeOK
    <3>3. latch' \in Seq(Latched)
      BY <3>1, RenamedUopType, LatchAppend
    <3>4. QED
      BY <3>2, <3>3, <2>1, <1>1 DEF Rename, TypeOK, alVars
  <2>4. QED
    BY <2>2, <2>3
<1>2. ASSUME Dispatch PROVE TypeOK'
  <2>1. Head(latch) \in Latched /\ Tail(latch) \in Seq(Latched)
    <3>1. latch \in Seq(Latched) /\ latch # <<>>
      BY <1>2 DEF Dispatch, TypeOK
    <3>2. QED
      BY <3>1, HeadTailProperties
  <2>2. alTail' \in ALIndex /\ alTailPhase' \in Phase
    BY <1>2, RingPointer, SizesPositive DEF Dispatch, TypeOK
  <2>3. alList' \in [ALIndex -> ALEntry] /\ exec' \in [ALIndex -> InPipe]
    BY <1>2, <2>1 DEF Dispatch, TypeOK, ALEntry, InPipe, NotInPipe, Latched
  <2>4. QED
    BY <2>1, <2>2, <2>3, <1>2 DEF Dispatch, TypeOK, mapVars, flVars, brVars
<1>3. ASSUME NEW i \in ALIndex, MarkFault(i) PROVE TypeOK'
  BY <1>3 DEF MarkFault, TypeOK, ALEntry, mapVars, flVars, brVars
<1>4. ASSUME NEW i \in ALIndex, Complete(i) PROVE TypeOK'
  BY <1>4 DEF Complete, SetComplete, TypeOK, ALEntry, InPipe, NotInPipe,
              mapVars, flVars, brVars
<1>5. ASSUME NEW i \in ALIndex, ResolveCorrect(i) PROVE TypeOK'
  <2> DEFINE b == alList[i].uop.branch_ID
  <2>1. alList' \in [ALIndex -> ALEntry]
    BY <1>5 DEF ResolveCorrect, SetComplete, TypeOK, ALEntry
  <2>2. GBM' \in SUBSET BranchIDs /\ checkpoints' \in [BranchIDs -> Checkpoint]
    <3>1. ASSUME NEW x \in Checkpoint
          PROVE  [x EXCEPT !.gbm = ClearBit(@, b)] \in Checkpoint
      BY DEF Checkpoint, ClearBit
    <3>2. QED
      BY <3>1, <1>5 DEF ResolveCorrect, ClearCheckpoints, ClearBit, TypeOK
  <2>3. latch' \in Seq(Latched)
    <3>1. latch \in [1 .. Len(latch) -> Latched] /\ Len(latch) \in Nat
          /\ DOMAIN latch = 1 .. Len(latch)
      BY LenProperties DEF TypeOK
    <3>2. latch' = [k \in 1 .. Len(latch) |->
                     [latch[k] EXCEPT !.branch_mask = ClearBit(@, b)]]
      BY <3>1, <1>5 DEF ResolveCorrect
    <3>3. ASSUME NEW x \in Latched
          PROVE  [x EXCEPT !.branch_mask = ClearBit(@, b)] \in Latched
      BY DEF Latched, ClearBit
    <3>4. latch' \in [1 .. Len(latch) -> Latched]
      BY <3>1, <3>2, <3>3
    <3>5. QED
      BY <3>1, <3>4, SeqDef
  <2>4. exec' \in [ALIndex -> InPipe]
    BY <1>5 DEF ResolveCorrect, ClearExec, ClearBit, TypeOK, InPipe, NotInPipe
  <2>5. QED
    BY <2>1, <2>2, <2>3, <2>4, <1>5
       DEF ResolveCorrect, TypeOK, mapVars, flVars
<1>6. ASSUME NEW i \in ALIndex, ResolveMispredict(i) PROVE TypeOK'
  <2> DEFINE b == alList[i].uop.branch_ID
  <2>1. checkpoints[b] \in Checkpoint
    BY <1>6 DEF ResolveMispredict, IsBranch, TypeOK, ALEntry, Uop
  <2>2. alList' \in [ALIndex -> ALEntry]
    BY <1>6 DEF ResolveMispredict, SetComplete, TypeOK, ALEntry
  <2>3. exec' \in [ALIndex -> InPipe]
    BY <1>6 DEF ResolveMispredict, TypeOK, InPipe, NotInPipe
  <2>4. alTail' \in ALIndex
    BY <1>6, SizesPositive DEF ResolveMispredict, NextIndex
  <2>5. alTailPhase' \in Phase
    BY <1>6 DEF ResolveMispredict, InferTailPhase, TypeOK, Phase
  <2>6. QED
    BY <2>1, <2>2, <2>3, <2>4, <2>5, <1>6
       DEF ResolveMispredict, ClearBit, TypeOK, Checkpoint
<1>7. ASSUME Commit PROVE TypeOK'
  <2>1. alHead' \in ALIndex /\ alHeadPhase' \in Phase
    BY <1>7, RingPointer, SizesPositive DEF Commit, RetireHead, TypeOK
  <2>2. /\ amt' \in [Log -> Phys] /\ flList' \in [FLIndex -> Phys]
        /\ flTail' \in FLIndex /\ flTailPhase' \in Phase
    <3>1. CASE ~ HasDest(alList[alHead].uop)
      BY <3>1, <1>7 DEF Commit, TypeOK
    <3>2. CASE HasDest(alList[alHead].uop)
      <4>1. /\ alList[alHead].uop.logical \in Log
            /\ alList[alHead].uop.physical \in Phys
        BY <3>2 DEF HasDest, TypeOK, ALEntry, Uop
      <4>2. flTail' \in FLIndex /\ flTailPhase' \in Phase
        BY <3>2, <1>7, RingPointer, SizesPositive DEF Commit, TypeOK
      <4>3. QED
        BY <3>2, <4>1, <4>2, <1>7 DEF Commit, FreedRegister, TypeOK
    <3>3. QED
      BY <3>1, <3>2
  <2>3. QED
    BY <2>1, <2>2, <1>7 DEF Commit, TypeOK, brVars
<1>8. ASSUME Squash PROVE TypeOK'
  <2>1. NoEntry \in ALEntry /\ NotInPipe \in InPipe
    BY DEF NoEntry, ALEntry, NoUop, Uop, NotInPipe, InPipe
  <2>2. NoCheckpoint \in Checkpoint
    BY SizesPositive, RenamerAssumption
       DEF NoCheckpoint, Checkpoint, Phase, Phys
  <2>3. QED
    BY <2>1, <2>2, <1>8 DEF Squash, TypeOK, Phase
<1>9. CASE UNCHANGED vars
  BY <1>9 DEF vars, mapVars, flVars, alVars, brVars, TypeOK
<1>10. QED
  BY <1>1, <1>2, <1>3, <1>4, <1>5, <1>6, <1>7, <1>8, <1>9 DEF Next

(* Every variable keeps its type.                                           *)
THEOREM TypeCorrect == Spec => []TypeOK
  BY TypeInit, TypeStep, PTL DEF Spec

----------------------------------------------------------------------------
(* The ring pointers, in terms of counts.                                  *)

Ranges == FreeRegs \in 0 .. FLSize /\ FreeEntries \in 0 .. NActive

(* The Active List holds Used entries from the head on, and the tail points *)
(* just behind them.                                                        *)
LEMMA ActiveListRing ==
  ASSUME TypeOK, Ranges
  PROVE  /\ Used \in 0 .. NActive
         /\ \A k \in 0 .. NActive - 1 : Entry(k) \in ALIndex
         /\ \A j, k \in 0 .. NActive - 1 : Entry(j) = Entry(k) => j = k
         /\ alTail = Entry(Used)
         /\ \A i \in ALIndex : InFlight(i) <=> \E k \in 0 .. Used - 1 : i = Entry(k)
<1>1. /\ NActive \in Nat \ {0}
      /\ alHead \in 0 .. NActive - 1 /\ alTail \in 0 .. NActive - 1
      /\ FreeEntries \in 0 .. NActive
      /\ alHeadPhase \in {0, 1} /\ alTailPhase \in {0, 1}
  BY SizesPositive DEF TypeOK, Ranges, Phase
<1>2. Used \in 0 .. NActive /\ alTail = Entry(Used)
  BY <1>1 DEF FreeEntries, Used, Entry
<1>3. \A k \in 0 .. NActive - 1 : Entry(k) \in ALIndex
  BY <1>1, SizesPositive DEF Entry
<1>4. \A j, k \in 0 .. NActive - 1 : Entry(j) = Entry(k) => j = k
  BY <1>1 DEF Entry
<1>5. ASSUME NEW i \in ALIndex
      PROVE  InFlight(i) <=> \E k \in 0 .. Used - 1 : i = Entry(k)
  <2>1. i \in 0 .. NActive - 1
    BY <1>5, SizesPositive
  <2>2. ASSUME InFlight(i) PROVE \E k \in 0 .. Used - 1 : i = Entry(k)
    <3>1. CASE i >= alHead
      <4>1. i - alHead \in 0 .. Used - 1
        BY <1>1, <2>1, <2>2, <3>1 DEF InFlight, FreeEntries, Used
      <4>2. i = Entry(i - alHead)
        BY <1>1, <2>1, <3>1 DEF Entry
      <4>3. QED
        BY <4>1, <4>2
    <3>2. CASE i < alHead
      <4>1. i - alHead + NActive \in 0 .. Used - 1
        BY <1>1, <2>1, <2>2, <3>2 DEF InFlight, FreeEntries, Used
      <4>2. i = Entry(i - alHead + NActive)
        BY <1>1, <2>1, <3>2 DEF Entry
      <4>3. QED
        BY <4>1, <4>2
    <3>3. QED
      BY <1>1, <2>1, <3>1, <3>2
  <2>3. ASSUME NEW k \in 0 .. Used - 1, i = Entry(k) PROVE InFlight(i)
    BY <1>1, <1>2, <2>1, <2>3 DEF InFlight, FreeEntries, Used, Entry
  <2>4. QED
    BY <2>2, <2>3
<1>6. QED
  BY <1>2, <1>3, <1>4, <1>5

(* The free list's head lies as many slots behind the tail as there are     *)
(* registers out of the list.                                               *)
LEMMA FreeListRing ==
  ASSUME TypeOK
  PROVE  /\ \A n \in 0 .. FLSize :
              FreeRegs + n = FLSize <=> flHead = Slot(n) /\ flHeadPhase = SlotPhase(n)
         /\ \A n \in 0 .. FLSize : Slot(n) \in FLIndex /\ SlotPhase(n) \in Phase
         /\ \A j, k \in 0 .. FLSize - 1 : Slot(j) = Slot(k) => j = k
         /\ Slot(0) = flTail
<1>1. /\ FLSize \in Nat \ {0}
      /\ flHead \in 0 .. FLSize - 1 /\ flTail \in 0 .. FLSize - 1
      /\ flHeadPhase \in {0, 1} /\ flTailPhase \in {0, 1}
  BY SizesPositive DEF TypeOK, Phase
<1>2. ASSUME NEW n \in 0 .. FLSize
      PROVE  FreeRegs + n = FLSize <=> flHead = Slot(n) /\ flHeadPhase = SlotPhase(n)
  BY <1>1 DEF FreeRegs, Slot, SlotPhase
<1>3. \A n \in 0 .. FLSize : Slot(n) \in FLIndex /\ SlotPhase(n) \in Phase
  BY <1>1, SizesPositive DEF Slot, SlotPhase, Phase
<1>4. \A j, k \in 0 .. FLSize - 1 : Slot(j) = Slot(k) => j = k
  BY <1>1 DEF Slot
<1>5. Slot(0) = flTail
  BY <1>1 DEF Slot
<1>6. QED
  BY <1>2, <1>3, <1>4, <1>5

(* Moving the tail by one slot renumbers the slots.                         *)
LEMMA SlotAfterPush ==
  ASSUME TypeOK,
         flTail' = NextIndex(flTail, FLSize),
         flTailPhase' = NextPhase(flTail, flTailPhase, FLSize)
  PROVE  \A n \in 0 .. FLSize - 1 :
           Slot(n)' = Slot(n + 1) /\ SlotPhase(n)' = SlotPhase(n + 1)
<1>1. FLSize \in Nat \ {0} /\ flTail \in 0 .. FLSize - 1 /\ flTailPhase \in {0, 1}
  BY SizesPositive DEF TypeOK, Phase
<1>2. QED
  BY <1>1 DEF NextIndex, NextPhase, Slot, SlotPhase

(* The instructions in flight are well formed.                              *)
LEMMA FlightTyped ==
  ASSUME TypeOK, Ranges
  PROVE  /\ FlightSize \in Nat /\ Len(latch) \in Nat
         /\ FlightSize = Used + Len(latch)
         /\ Flight = 0 .. FlightSize - 1
         /\ Insts \in [Flight -> Uop]
         /\ \A k \in Flight : Insts[k] = InstAt(k)
<1>1. Used \in 0 .. NActive /\ \A k \in 0 .. NActive - 1 : Entry(k) \in ALIndex
  BY ActiveListRing
<1>2. Len(latch) \in Nat /\ \A j \in 1 .. Len(latch) : latch[j] \in Latched
  BY LenProperties, ElementOfSeq DEF TypeOK
<1>3. FlightSize \in Nat
  BY <1>1, <1>2, SizesPositive DEF FlightSize
<1>4. ASSUME NEW k \in Flight PROVE InstAt(k) \in Uop
  <2>1. CASE k < Used
    <3>1. Entry(k) \in ALIndex
      BY <1>1, <1>3, <2>1, SizesPositive DEF Flight
    <3>2. QED
      BY <2>1, <3>1 DEF InstAt, TypeOK, ALEntry
  <2>2. CASE ~ (k < Used)
    <3>1. k - Used + 1 \in 1 .. Len(latch)
      BY <1>1, <1>2, <1>3, <2>2, SizesPositive DEF Flight, FlightSize
    <3>2. QED
      BY <1>2, <2>2, <3>1 DEF InstAt, Latched
  <2>3. QED
    BY <2>1, <2>2
<1>5. QED
  BY <1>2, <1>3, <1>4 DEF Insts, Flight, FlightSize

----------------------------------------------------------------------------
(* What each action does to the sequence of instructions in flight.        *)

(* Rename appends one instruction, with the GBM as its branch mask.         *)
LEMMA RenameFlight ==
  ASSUME TypeOK, Ranges, NEW u \in Uop, Latch(u), UNCHANGED <<alVars, exec>>
  PROVE  /\ FlightSize' = FlightSize + 1
         /\ Flight' = Flight \cup {FlightSize}
         /\ FreeEntries' = FreeEntries
         /\ \A k \in Flight : /\ Insts'[k] = Insts[k]
                              /\ MaskAt(k)' = MaskAt(k)
                              /\ InPipeAt(k)' <=> InPipeAt(k)
         /\ Insts'[FlightSize] = u
         /\ \A k \in Flight' \ Flight : MaskAt(k)' = GBM /\ InPipeAt(k)'
<1> DEFINE e == [uop |-> u, branch_mask |-> GBM]
<1>1. /\ Used' = Used /\ FreeEntries' = FreeEntries
      /\ \A k : Entry(k)' = Entry(k)
      /\ alList' = alList /\ exec' = exec
  BY DEF alVars, Used, FreeEntries, Entry
<1>2. /\ Used \in Nat /\ Len(latch) \in Nat /\ FlightSize = Used + Len(latch)
      /\ FlightSize \in Nat /\ Flight = 0 .. FlightSize - 1
  BY ActiveListRing, FlightTyped, SizesPositive
<1>3. /\ Len(latch') = Len(latch) + 1
      /\ \A j \in 1 .. Len(latch) : latch'[j] = latch[j]
      /\ latch'[Len(latch) + 1] = e
  <2>1. latch \in Seq(Latched) /\ e \in Latched /\ latch' = Append(latch, e)
    BY DEF TypeOK, Latched, Latch
  <2>2. QED
    BY <2>1, AppendProperties
<1>4. FlightSize' = FlightSize + 1 /\ Flight' = Flight \cup {FlightSize}
      /\ Flight' \ Flight = {FlightSize}
  BY <1>1, <1>2, <1>3 DEF FlightSize, Flight
<1>5. ASSUME NEW k \in Flight
      PROVE  /\ InstAt(k)' = InstAt(k)
             /\ MaskAt(k)' = MaskAt(k)
             /\ InPipeAt(k)' <=> InPipeAt(k)
  <2>1. ~ (k < Used) => k - Used + 1 \in 1 .. Len(latch)
    BY <1>2
  <2>2. QED
    BY <1>1, <1>3, <2>1 DEF InstAt, MaskAt, InPipeAt
<1>6. /\ ~ (FlightSize < Used) /\ FlightSize - Used + 1 = Len(latch) + 1
  BY <1>2
<1>7. ASSUME NEW k, k = FlightSize
      PROVE  InstAt(k)' = u /\ MaskAt(k)' = GBM /\ InPipeAt(k)'
  BY <1>1, <1>3, <1>6, <1>7 DEF InstAt, MaskAt, InPipeAt
<1>8. \A k \in Flight : Insts'[k] = Insts[k]
  BY <1>4, <1>5 DEF Insts
<1>9. Insts'[FlightSize] = u
  BY <1>4, <1>7 DEF Insts
<1>10. QED
  BY <1>1, <1>4, <1>5, <1>7, <1>8, <1>9

(* Dispatch moves the head of the latch to the tail of the Active List; the *)
(* instruction leaves the pipeline only if it has neither a destination nor *)
(* a checkpoint.                                                            *)
LEMMA DispatchFlight ==
  ASSUME TypeOK, Ranges, Dispatch
  PROVE  /\ FlightSize' = FlightSize /\ Flight' = Flight /\ Insts' = Insts
         /\ FreeEntries' \in 0 .. NActive
         /\ Used' = Used + 1 /\ Used < NActive
         /\ Used \in Flight /\ alTail = Entry(Used)
         /\ \A k : Entry(k)' = Entry(k)
         /\ \A k \in Flight : /\ MaskAt(k)' = MaskAt(k) \/ ~ InPipeAt(k)'
                              /\ InPipeAt(k)' => InPipeAt(k)
                              /\ ~ InPipeAt(k)' /\ InPipeAt(k) => ~ IsBranch(Insts[k])
<1>1. /\ NActive \in Nat \ {0} /\ ALIndex = 0 .. NActive - 1
      /\ alHead \in ALIndex /\ alTail \in ALIndex
      /\ alHeadPhase \in {0, 1} /\ alTailPhase \in {0, 1}
      /\ FreeEntries \in 1 .. NActive
      /\ alTail' = NextIndex(alTail, NActive)
      /\ alTailPhase' = NextPhase(alTail, alTailPhase, NActive)
      /\ alHead' = alHead /\ alHeadPhase' = alHeadPhase
  BY SizesPositive DEF Dispatch, StallDispatch, TypeOK, Ranges, Phase
<1>2. FreeEntries' = FreeEntries - 1
  BY <1>1 DEF FreeEntries, NextIndex, NextPhase
<1>3. Used' = Used + 1 /\ Used \in 0 .. NActive - 1
  BY <1>1, <1>2 DEF Used
<1>4. /\ latch \in Seq(Latched) /\ latch # <<>> /\ latch' = Tail(latch)
      /\ Len(latch) \in Nat \ {0}
      /\ Head(latch) = latch[1] /\ Head(latch) \in Latched
      /\ Len(latch') = Len(latch) - 1
      /\ \A j \in 1 .. Len(latch') : latch'[j] = latch[j + 1]
  <2>1. latch \in Seq(Latched) /\ latch # <<>> /\ latch' = Tail(latch)
    BY DEF Dispatch, TypeOK
  <2>2. QED
    BY <2>1, HeadTailProperties, EmptySeq, LenProperties
<1>5. FlightSize' = FlightSize /\ FlightSize = Used + Len(latch)
      /\ Flight = 0 .. FlightSize - 1 /\ Flight' = Flight /\ Used \in Flight
  BY <1>3, <1>4 DEF FlightSize, Flight
<1>6. /\ \A k : Entry(k)' = Entry(k)
      /\ alTail = Entry(Used)
      /\ \A k \in 0 .. NActive - 1 : Entry(k) \in ALIndex
      /\ \A j, k \in 0 .. NActive - 1 : Entry(j) = Entry(k) => j = k
  BY <1>1, ActiveListRing DEF Entry
<1>7. PICK skipIQ \in BOOLEAN, fault \in BOOLEAN :
        LET u == Head(latch).uop IN
        /\ skipIQ => ~ HasDest(u) /\ ~ IsBranch(u)
        /\ alList' = [alList EXCEPT ![alTail] =
                       [uop |-> u, completed |-> skipIQ, exception |-> fault]]
        /\ exec' = [exec EXCEPT ![alTail] =
                     IF skipIQ THEN NotInPipe
                     ELSE [valid |-> TRUE,
                           branch_mask |-> Head(latch).branch_mask]]
  BY DEF Dispatch
<1>8. /\ alList' = [alList EXCEPT ![alTail] = alList'[alTail]]
      /\ alList'[alTail].uop = Head(latch).uop
      /\ exec' = [exec EXCEPT ![alTail] = exec'[alTail]]
      /\ exec'[alTail].valid = ~ skipIQ
      /\ ~ skipIQ => exec'[alTail].branch_mask = Head(latch).branch_mask
      /\ alTail \in DOMAIN alList /\ alTail \in DOMAIN exec
  BY <1>1, <1>7 DEF TypeOK, NotInPipe
<1>9. ASSUME NEW k \in Flight, k < Used
      PROVE  /\ InstAt(k)' = InstAt(k) /\ MaskAt(k)' = MaskAt(k)
             /\ InPipeAt(k)' <=> InPipeAt(k)
  <2>1. Entry(k) \in ALIndex /\ Entry(k) # alTail
    <3>1. k \in 0 .. NActive - 1 /\ Used \in 0 .. NActive - 1 /\ k # Used
      BY <1>1, <1>3, <1>5, <1>9
    <3>2. QED
      BY <3>1, <1>6
  <2>2. alList'[Entry(k)] = alList[Entry(k)] /\ exec'[Entry(k)] = exec[Entry(k)]
    BY <2>1, <1>8 DEF TypeOK
  <2>3. k < Used' /\ Entry(k)' = Entry(k)
    BY <1>3, <1>5, <1>6, <1>9
  <2>4. QED
    BY <1>9, <2>2, <2>3 DEF InstAt, MaskAt, InPipeAt
<1>10. ASSUME NEW k \in Flight, k = Used
       PROVE  /\ InstAt(k)' = InstAt(k)
              /\ InPipeAt(k) /\ (InPipeAt(k)' <=> ~ skipIQ)
              /\ ~ skipIQ => MaskAt(k)' = MaskAt(k)
              /\ InstAt(k) = Head(latch).uop
  <2>1. ~ (k < Used) /\ k < Used' /\ k - Used + 1 = 1 /\ Entry(k)' = alTail
    BY <1>3, <1>6, <1>10
  <2>2. QED
    BY <1>4, <1>8, <2>1 DEF InstAt, MaskAt, InPipeAt
<1>11. ASSUME NEW k \in Flight, k > Used
       PROVE  /\ InstAt(k)' = InstAt(k) /\ MaskAt(k)' = MaskAt(k)
              /\ InPipeAt(k)' /\ InPipeAt(k)
  <2>1. ~ (k < Used) /\ ~ (k < Used')
        /\ k - Used' + 1 \in 1 .. Len(latch')
        /\ (k - Used' + 1) + 1 = k - Used + 1
    BY <1>3, <1>4, <1>5, <1>11
  <2>2. latch'[k - Used' + 1] = latch[k - Used + 1]
    BY <1>4, <2>1
  <2>3. QED
    BY <2>1, <2>2 DEF InstAt, MaskAt, InPipeAt
<1>12. \A k \in Flight : k < Used \/ k = Used \/ k > Used
  BY <1>3, <1>5
<1>13. \A k \in Flight : InstAt(k)' = InstAt(k) /\ Insts[k] = InstAt(k)
  BY <1>9, <1>10, <1>11, <1>12 DEF Insts
<1>14. Insts' = Insts
  BY <1>5, <1>13 DEF Insts
<1>15. ASSUME NEW k \in Flight
       PROVE  /\ MaskAt(k)' = MaskAt(k) \/ ~ InPipeAt(k)'
              /\ InPipeAt(k)' => InPipeAt(k)
              /\ ~ InPipeAt(k)' /\ InPipeAt(k) => ~ IsBranch(Insts[k])
  <2>1. CASE k = Used
    BY <1>7, <1>10, <1>13, <2>1
  <2>2. CASE k # Used
    BY <1>9, <1>11, <1>12, <2>2
  <2>3. QED
    BY <2>1, <2>2
<1>16. FreeEntries' \in 0 .. NActive
  BY <1>1, <1>2
<1>17. Used < NActive
  BY <1>1, <1>3
<1>18. QED
  BY <1>3, <1>5, <1>6, <1>14, <1>15, <1>16, <1>17

(* A step that moves no pointer and no instruction.                         *)
LEMMA SameFlight ==
  ASSUME TypeOK, Ranges,
         UNCHANGED <<alHead, alTail, alHeadPhase, alTailPhase>>,
         \A i \in ALIndex : alList'[i].uop = alList[i].uop,
         Len(latch') = Len(latch),
         \A j \in 1 .. Len(latch) : latch'[j].uop = latch[j].uop
  PROVE  /\ Used' = Used /\ FlightSize' = FlightSize /\ Flight' = Flight
         /\ Insts' = Insts /\ FreeEntries' = FreeEntries
         /\ \A k : Entry(k)' = Entry(k)
<1>1. /\ Used' = Used /\ FreeEntries' = FreeEntries
      /\ FlightSize' = FlightSize /\ Flight' = Flight
      /\ \A k : Entry(k)' = Entry(k)
  BY DEF Used, FreeEntries, FlightSize, Flight, Entry
<1>2. ASSUME NEW k \in Flight PROVE InstAt(k)' = InstAt(k)
  <2>1. Used \in 0 .. NActive /\ Len(latch) \in Nat /\ NActive \in Nat
        /\ Flight = 0 .. (Used + Len(latch)) - 1
        /\ \A j \in 0 .. NActive - 1 : Entry(j) \in ALIndex
    BY ActiveListRing, FlightTyped, SizesPositive
  <2>2. CASE k < Used
    <3>1. Entry(k) \in ALIndex
      BY <2>1, <2>2
    <3>2. QED
      BY <1>1, <2>2, <3>1 DEF InstAt
  <2>3. CASE ~ (k < Used)
    <3>1. k - Used + 1 \in 1 .. Len(latch)
      BY <2>1, <2>3
    <3>2. QED
      BY <1>1, <2>3, <3>1 DEF InstAt
  <2>4. QED
    BY <2>2, <2>3
<1>3. Insts' = Insts
  BY <1>1, <1>2 DEF Insts
<1>4. QED
  BY <1>1, <1>3

(* Commit removes the oldest instruction, which has left the pipeline.      *)
LEMMA CommitFlight ==
  ASSUME TypeOK, Ranges, HeadCompleted, RetireHead,
         UNCHANGED <<alList, alTail, alTailPhase, latch, exec>>
  PROVE  /\ Used >= 1 /\ Used' = Used - 1 /\ FlightSize' = FlightSize - 1
         /\ FreeEntries' \in 0 .. NActive
         /\ 0 \in Flight /\ Insts[0] = alList[alHead].uop /\ Entry(0) = alHead
         /\ \A k \in 0 .. NActive - 2 : Entry(k)' = Entry(k + 1)
         /\ \A k \in Flight' : /\ k \in Nat /\ k + 1 \in Flight
                               /\ Insts'[k] = Insts[k + 1]
                               /\ MaskAt(k)' = MaskAt(k + 1)
                               /\ InPipeAt(k)' <=> InPipeAt(k + 1)
<1>1. /\ NActive \in Nat \ {0}
      /\ alHead \in 0 .. NActive - 1 /\ alTail \in 0 .. NActive - 1
      /\ alHeadPhase \in {0, 1} /\ alTailPhase \in {0, 1}
      /\ FreeEntries \in 0 .. NActive - 1
      /\ alHead' = NextIndex(alHead, NActive)
      /\ alHeadPhase' = NextPhase(alHead, alHeadPhase, NActive)
      /\ alTail' = alTail /\ alTailPhase' = alTailPhase
      /\ latch' = latch /\ alList' = alList /\ exec' = exec
  BY SizesPositive DEF HeadCompleted, RetireHead, TypeOK, Ranges, Phase
<1>2. FreeEntries' = FreeEntries + 1
  BY <1>1 DEF FreeEntries, NextIndex, NextPhase
<1>3. Used \in 1 .. NActive /\ Used' = Used - 1
  BY <1>1, <1>2 DEF Used
<1>4. ASSUME NEW k \in 0 .. NActive - 2 PROVE Entry(k)' = Entry(k + 1)
  BY <1>1 DEF Entry, NextIndex
<1>5. Len(latch) \in Nat /\ FlightSize = Used + Len(latch)
      /\ FlightSize' = Used' + Len(latch)
      /\ Flight = 0 .. FlightSize - 1 /\ Flight' = 0 .. FlightSize' - 1
  BY <1>1, FlightTyped DEF FlightSize, Flight
<1>6. Entry(0) = alHead /\ 0 \in Flight /\ Insts[0] = alList[alHead].uop
  BY <1>1, <1>3, <1>5 DEF Entry, Insts, InstAt
<1>7. ASSUME NEW k \in Flight'
      PROVE  /\ k \in Nat /\ k + 1 \in Flight
             /\ InstAt(k)' = InstAt(k + 1)
             /\ MaskAt(k)' = MaskAt(k + 1)
             /\ InPipeAt(k)' <=> InPipeAt(k + 1)
  <2>1. k \in Nat /\ k + 1 \in Flight
    BY <1>3, <1>5
  <2>2. CASE k < Used'
    <3>1. k + 1 < Used /\ Entry(k)' = Entry(k + 1)
      BY <1>1, <1>3, <1>4, <2>1, <2>2
    <3>2. QED
      BY <1>1, <2>1, <2>2, <3>1 DEF InstAt, MaskAt, InPipeAt
  <2>3. CASE ~ (k < Used')
    <3>1. ~ (k + 1 < Used) /\ (k + 1) - Used + 1 = k - Used' + 1
      BY <1>1, <1>3, <2>1, <2>3
    <3>2. QED
      BY <1>1, <2>1, <2>3, <3>1 DEF InstAt, MaskAt, InPipeAt
  <2>4. QED
    BY <2>2, <2>3
<1>8. \A k \in Flight' : Insts'[k] = Insts[k + 1]
  BY <1>7 DEF Insts
<1>9. Used >= 1 /\ FlightSize' = FlightSize - 1 /\ FreeEntries' \in 0 .. NActive
  BY <1>1, <1>2, <1>3, <1>5
<1>10. QED
  BY <1>3, <1>4, <1>6, <1>7, <1>8, <1>9

(* A misprediction at position n leaves the instructions up to n; the phase *)
(* inferred for the tail is the right one.                                  *)
LEMMA MispredictFlight ==
  ASSUME TypeOK, Ranges, NEW n \in 0 .. Used - 1,
         alTail' = NextIndex(Entry(n), NActive),
         alTailPhase' = InferTailPhase(alHead, NextIndex(Entry(n), NActive),
                                       alHeadPhase),
         UNCHANGED <<alHead, alHeadPhase>>,
         \A i \in ALIndex : alList'[i].uop = alList[i].uop,
         latch' = <<>>
  PROVE  /\ Used' = n + 1 /\ FlightSize' = n + 1 /\ FreeEntries' \in 0 .. NActive
         /\ Flight' = 0 .. n
         /\ \A k : Entry(k)' = Entry(k)
         /\ \A k \in Flight' : /\ k \in Flight /\ k < Used /\ Insts'[k] = Insts[k]
<1>1. /\ NActive \in Nat \ {0}
      /\ alHead \in 0 .. NActive - 1 /\ alHeadPhase \in {0, 1}
      /\ Used \in 0 .. NActive /\ n \in 0 .. NActive - 1
      /\ alHead' = alHead /\ alHeadPhase' = alHeadPhase
  BY SizesPositive, ActiveListRing DEF TypeOK, Phase
<1>2. FreeEntries' = NActive - (n + 1)
  <2>1. CASE alHead + n + 1 < NActive
    <3>1. alTail' = alHead + n + 1 /\ alTailPhase' = alHeadPhase'
      BY <1>1, <2>1 DEF InferTailPhase, NextIndex, Entry
    <3>2. QED
      BY <1>1, <3>1 DEF FreeEntries
  <2>2. CASE alHead + n + 1 >= NActive
    <3>1. alTail' = alHead + n + 1 - NActive /\ alTailPhase' = 1 - alHeadPhase'
      BY <1>1, <2>2 DEF InferTailPhase, NextIndex, Entry
    <3>2. QED
      BY <1>1, <3>1 DEF FreeEntries
  <2>3. QED
    BY <1>1, <2>1, <2>2
<1>3. Used' = n + 1 /\ FreeEntries' \in 0 .. NActive
  BY <1>1, <1>2 DEF Used
<1>4. FlightSize' = n + 1 /\ Flight' = 0 .. n
  BY <1>1, <1>3 DEF FlightSize, Flight
<1>5. \A k : Entry(k)' = Entry(k)
  BY <1>1 DEF Entry
<1>6. Len(latch) \in Nat /\ Flight = 0 .. (Used + Len(latch)) - 1
  BY FlightTyped
<1>7. ASSUME NEW k \in Flight'
      PROVE  /\ k \in Flight /\ k < Used /\ Insts'[k] = Insts[k]
  <2>1. k \in Flight /\ k < Used /\ k < Used' /\ Entry(k) \in ALIndex
    BY <1>1, <1>3, <1>4, <1>6, ActiveListRing
  <2>2. InstAt(k)' = InstAt(k)
    BY <1>5, <2>1 DEF InstAt
  <2>3. QED
    BY <1>7, <2>1, <2>2 DEF Insts
<1>8. QED
  BY <1>3, <1>4, <1>5, <1>7

(* Nothing is in flight after a squash.                                     *)
LEMMA SquashFlight ==
  ASSUME TypeOK, Squash
  PROVE  /\ FreeEntries' = NActive /\ Used' = 0
         /\ FlightSize' = 0 /\ Flight' = {}
<1>1. /\ NActive \in Nat /\ alHead \in Int
      /\ alHead' = alHead /\ alHeadPhase' = alHeadPhase
      /\ alTail' = alHead /\ alTailPhase' = alHeadPhase /\ latch' = <<>>
  BY SizesPositive DEF Squash, TypeOK
<1>2. FreeEntries' = NActive /\ Used' = 0
  BY <1>1 DEF FreeEntries, Used
<1>3. FlightSize' = 0
  BY <1>1, <1>2 DEF FlightSize
<1>4. QED
  BY <1>2, <1>3 DEF Flight

----------------------------------------------------------------------------
(* The inductive invariant.                                                *)
IInv == /\ TypeOK
        /\ Ranges
        /\ RegistersConserved
        /\ AllocationOrder
        /\ RenameMapPrecise
        /\ SourcesPrecise
        /\ CheckpointsPrecise
        /\ BranchMasksPrecise
        /\ PipeMatchesActiveList

----------------------------------------------------------------------------
(* Facts that hold in every state of the invariant, on either side of a     *)
(* step.                                                                    *)

LEMMA IndexSets ==
  ASSUME TypeOK, Ranges
  PROVE  /\ Pending \in SUBSET Nat /\ Unresolved \in SUBSET Nat
         /\ Pending \subseteq Flight /\ Unresolved \subseteq Pending
         /\ Flight \subseteq Nat
  BY FlightTyped DEF Pending, Unresolved

(* A head pointer and its phase, from the number of slots behind the tail.  *)
LEMMA RingCount ==
  ASSUME NEW h \in FLIndex, NEW t \in FLIndex, NEW hp \in Phase, NEW tp \in Phase,
         NEW n \in 0 .. FLSize
  PROVE  ((IF hp = tp THEN t - h ELSE t - h + FLSize) + n = FLSize) <=>
           (/\ h = (IF t + n < FLSize THEN t + n ELSE t + n - FLSize)
            /\ hp = (IF t + n < FLSize THEN 1 - tp ELSE tp))
  BY SizesPositive DEF Phase

(* FreeListRing after the step.                                             *)
LEMMA FreeListRingNext ==
  ASSUME TypeOK'
  PROVE  \A n \in 0 .. FLSize :
           (FreeRegs' + n = FLSize) <=>
             (flHead' = Slot(n)' /\ flHeadPhase' = SlotPhase(n)')
<1>1. /\ flHead' \in FLIndex /\ flTail' \in FLIndex
      /\ flHeadPhase' \in Phase /\ flTailPhase' \in Phase
  BY DEF TypeOK
<1>2. ASSUME NEW n \in 0 .. FLSize
      PROVE  (FreeRegs' + n = FLSize) <=>
               (flHead' = Slot(n)' /\ flHeadPhase' = SlotPhase(n)')
  <2>1. FreeRegs' = IF flHeadPhase' = flTailPhase' THEN flTail' - flHead'
                    ELSE flTail' - flHead' + FLSize
    BY DEF FreeRegs
  <2>2. Slot(n)' = IF flTail' + n < FLSize THEN flTail' + n
                                          ELSE flTail' + n - FLSize
    BY DEF Slot
  <2>3. SlotPhase(n)' = IF flTail' + n < FLSize THEN 1 - flTailPhase'
                                                ELSE flTailPhase'
    BY DEF SlotPhase
  <2>4. ((IF flHeadPhase' = flTailPhase' THEN flTail' - flHead'
                                       ELSE flTail' - flHead' + FLSize)
           + n = FLSize) <=>
          (/\ flHead' = (IF flTail' + n < FLSize THEN flTail' + n
                                               ELSE flTail' + n - FLSize)
           /\ flHeadPhase' = (IF flTail' + n < FLSize THEN 1 - flTailPhase'
                                                    ELSE flTailPhase'))
    BY <1>1, RingCount
  <2>5. QED
    BY <2>1, <2>2, <2>3, <2>4
<1>3. QED
  BY <1>2

(* Every destination in flight has a slot of its own between tail and head. *)
LEMMA AllocatedSlots ==
  ASSUME TypeOK, Ranges, AllocationOrder
  PROVE  /\ DestsBefore(Insts, FlightSize) \in 0 .. FLSize
         /\ flHead = Slot(DestsBefore(Insts, FlightSize))
         /\ flHeadPhase = SlotPhase(DestsBefore(Insts, FlightSize))
         /\ \A k \in Flight : DestsBefore(Insts, k) \in 0 .. FLSize
         /\ \A k \in Flight : HasDest(Insts[k]) =>
              /\ DestsBefore(Insts, k) < DestsBefore(Insts, FlightSize)
              /\ DestsBefore(Insts, k) \in 0 .. FLSize - 1
<1>1. FlightSize \in Nat /\ Flight = 0 .. FlightSize - 1
  BY FlightTyped
<1>2. /\ FLSize \in Nat
      /\ FreeRegs \in 0 .. FLSize
      /\ DestsBefore(Insts, FlightSize) \in Nat
      /\ FreeRegs + DestsBefore(Insts, FlightSize) = FLSize
  BY <1>1, DestsFinite, SizesPositive DEF Ranges, AllocationOrder
<1>3. DestsBefore(Insts, FlightSize) \in 0 .. FLSize
  BY <1>2
<1>4. /\ flHead = Slot(DestsBefore(Insts, FlightSize))
      /\ flHeadPhase = SlotPhase(DestsBefore(Insts, FlightSize))
  BY <1>2, <1>3, FreeListRing
<1>5. ASSUME NEW k \in Flight
      PROVE  /\ DestsBefore(Insts, k) \in 0 .. FLSize
             /\ HasDest(Insts[k]) =>
                  /\ DestsBefore(Insts, k) < DestsBefore(Insts, FlightSize)
                  /\ DestsBefore(Insts, k) \in 0 .. FLSize - 1
  <2>1. k \in Nat /\ k <= FlightSize /\ k < FlightSize
    BY <1>1
  <2>2. DestsBefore(Insts, k) \in Nat
        /\ DestsBefore(Insts, k) <= DestsBefore(Insts, FlightSize)
    BY <1>1, <2>1, DestsFinite, DestsMonotone
  <2>3. HasDest(Insts[k]) =>
          DestsBefore(Insts, k) < DestsBefore(Insts, FlightSize)
    BY <1>1, <2>1, DestsStrict
  <2>4. QED
    BY <1>2, <2>2, <2>3
<1>6. QED
  BY <1>3, <1>4, <1>5

(* A register in the map of program order is committed or in a slot that    *)
(* belongs to an instruction in flight, so the next free register is new.   *)
LEMMA NextRegisterIsNew ==
  ASSUME TypeOK, Ranges, RegistersConserved, AllocationOrder, RenameMapPrecise,
         FreeRegs > 0, NEW l \in Log
  PROVE  rmt[l] # flList[flHead] /\ amt[l] # flList[flHead]
<1> DEFINE D == DestsBefore(Insts, FlightSize)
<1>1. D \in 0 .. FLSize - 1 /\ flHead = Slot(D) /\ flHead \in FLIndex
  BY AllocatedSlots, SizesPositive DEF AllocationOrder, Ranges, TypeOK
<1>2. amt[l] # flList[flHead]
  BY <1>1 DEF RegistersConserved
<1>3. MappedBefore(Insts, amt, FlightSize, l, rmt[l])
  BY DEF RenameMapPrecise
<1>4. CASE rmt[l] = amt[l]
  BY <1>2, <1>4
<1>5. ASSUME NEW j \in 0 .. FlightSize - 1, Insts[j].logical = l,
             rmt[l] = Insts[j].physical
      PROVE  rmt[l] # flList[flHead]
  <2>1. j \in Flight /\ HasDest(Insts[j])
    BY <1>5, SizesPositive, FlightTyped DEF HasDest
  <2>2. /\ DestsBefore(Insts, j) \in 0 .. FLSize - 1
        /\ DestsBefore(Insts, j) < D
        /\ Insts[j].physical = flList[Slot(DestsBefore(Insts, j))]
    BY <2>1, AllocatedSlots DEF AllocationOrder
  <2>3. Slot(DestsBefore(Insts, j)) # Slot(D)
        /\ Slot(DestsBefore(Insts, j)) \in FLIndex
    BY <1>1, <2>2, FreeListRing, SizesPositive
  <2>4. QED
    BY <1>1, <1>5, <2>2, <2>3 DEF RegistersConserved
<1>6. QED
  BY <1>2, <1>3, <1>4, <1>5 DEF MappedBefore

----------------------------------------------------------------------------
(* Rename                                                                  *)

(* The free list after a rename: one register less if there is a            *)
(* destination, which is the register the head pointed to.                  *)
LEMMA RenameFreeList ==
  ASSUME TypeOK, Ranges, NEW kind \in UopKinds, Rename(kind)
  PROVE  /\ FreeRegs' = FreeRegs - (IF kind.logical = Invalid THEN 0 ELSE 1)
         /\ FreeRegs' \in 0 .. FLSize
         /\ kind.logical # Invalid => FreeRegs > 0
         /\ \A l \in Log : rmt'[l] = IF l = kind.logical THEN flList[flHead]
                                                         ELSE rmt[l]
<1>1. /\ FLSize \in Nat \ {0} /\ FLIndex = 0 .. FLSize - 1
      /\ flHead \in FLIndex /\ flTail \in FLIndex
      /\ flHeadPhase \in {0, 1} /\ flTailPhase \in {0, 1}
      /\ FreeRegs \in 0 .. FLSize
      /\ flTail' = flTail /\ flTailPhase' = flTailPhase
      /\ Invalid \notin Log /\ kind.logical \in Log \cup {Invalid}
      /\ rmt \in [Log -> Phys]
  BY SizesPositive, RenamerAssumption
     DEF TypeOK, Ranges, Phase, Rename, AllKinds
<1>2. CASE kind.logical = Invalid
  <2>1. rmt' = rmt /\ flHead' = flHead /\ flHeadPhase' = flHeadPhase
    BY <1>2 DEF Rename, RenameDest
  <2>2. FreeRegs' = FreeRegs
    BY <1>1, <2>1 DEF FreeRegs
  <2>3. QED
    BY <1>1, <1>2, <2>1, <2>2
<1>3. CASE kind.logical # Invalid
  <2>1. /\ rmt' = [rmt EXCEPT ![kind.logical] = flList[flHead]]
        /\ flHead' = NextIndex(flHead, FLSize)
        /\ flHeadPhase' = NextPhase(flHead, flHeadPhase, FLSize)
        /\ ~ (FreeRegs < 1)
    BY <1>3 DEF Rename, RenameDest, StallReg
  <2>2. FreeRegs' = FreeRegs - 1
    BY <1>1, <2>1 DEF FreeRegs, NextIndex, NextPhase
  <2>3. QED
    BY <1>1, <1>3, <2>1, <2>2
<1>4. QED
  BY <1>2, <1>3

LEMMA RenameStep ==
  ASSUME IInv, TypeOK', NEW kind \in UopKinds, Rename(kind)
  PROVE  IInv'
<1>1. PICK id \in BranchIDs \cup {Invalid} :
        /\ Latch(RenamedUop(kind, id))
        /\ id = Invalid => UNCHANGED brVars
        /\ id # Invalid => AllocatedBit(id) /\ TakeCheckpoint(id)
  BY SizesPositive DEF Rename
<1> DEFINE u == RenamedUop(kind, id)
           D == DestsBefore(Insts, FlightSize)
<1>2. /\ TypeOK /\ Ranges /\ RegistersConserved /\ AllocationOrder
      /\ RenameMapPrecise /\ SourcesPrecise /\ CheckpointsPrecise
      /\ BranchMasksPrecise /\ PipeMatchesActiveList
  BY DEF IInv
<1>3. /\ UNCHANGED <<alVars, exec>> /\ amt' = amt /\ flList' = flList
      /\ flTail' = flTail /\ flTailPhase' = flTailPhase
  BY DEF Rename
<1>4. u \in Uop /\ u.logical = kind.logical /\ u.branch_ID = id
      /\ u.src = kind.src /\ u.psrc = RenameSource(kind)
      /\ (u.logical # Invalid => u.physical = flList[flHead])
  BY <1>2, RenamedUopType DEF RenamedUop
<1>5. /\ FlightSize' = FlightSize + 1
      /\ Flight' = Flight \cup {FlightSize}
      /\ FreeEntries' = FreeEntries
      /\ \A k \in Flight : /\ Insts'[k] = Insts[k]
                           /\ MaskAt(k)' = MaskAt(k)
                           /\ InPipeAt(k)' <=> InPipeAt(k)
      /\ Insts'[FlightSize] = u
      /\ \A k \in Flight' \ Flight : MaskAt(k)' = GBM /\ InPipeAt(k)'
  BY <1>1, <1>2, <1>3, <1>4, RenameFlight
<1>6. /\ FlightSize \in Nat /\ Flight = 0 .. FlightSize - 1
      /\ \A k \in 0 .. FlightSize - 1 : Insts'[k] = Insts[k]
      /\ FlightSize \notin Flight
      /\ \A k \in Flight : k \in Nat /\ k < FlightSize
      /\ Insts \in [Flight -> Uop]
  BY <1>2, <1>5, FlightTyped
<1>7. /\ FreeRegs' = FreeRegs - (IF kind.logical = Invalid THEN 0 ELSE 1)
      /\ FreeRegs' \in 0 .. FLSize
      /\ kind.logical # Invalid => FreeRegs > 0
      /\ \A l \in Log : rmt'[l] = IF l = kind.logical THEN flList[flHead]
                                                      ELSE rmt[l]
  BY <1>2, RenameFreeList
<1>8. Ranges'
  BY <1>2, <1>5, <1>7 DEF Ranges, FLSize
<1>9. RegistersConserved'
  BY <1>2, <1>3 DEF RegistersConserved
<1>10. /\ \A k \in 0 .. FlightSize : DestsBefore(Insts', k) = DestsBefore(Insts, k)
       /\ DestsBefore(Insts', FlightSize + 1) =
            D + (IF kind.logical = Invalid THEN 0 ELSE 1)
       /\ D \in Nat
  <2>1. ASSUME NEW k \in 0 .. FlightSize
        PROVE  DestsBefore(Insts', k) = DestsBefore(Insts, k)
    <3>1. k \in Nat /\ \A j \in 0 .. k - 1 : Insts'[j] = Insts[j]
      BY <1>6
    <3>2. QED
      BY <3>1, DestsAgree
  <2>2. FlightSize \in 0 .. FlightSize
    BY <1>6
  <2>3. DestsBefore(Insts', FlightSize + 1) =
          DestsBefore(Insts', FlightSize)
            + (IF HasDest(Insts'[FlightSize]) THEN 1 ELSE 0)
    BY <1>6, DestsStep
  <2>4. HasDest(Insts'[FlightSize]) <=> kind.logical # Invalid
    BY <1>4, <1>5 DEF HasDest
  <2>5. QED
    BY <1>6, <2>1, <2>2, <2>3, <2>4, DestsFinite
<1>11. \A n : Slot(n)' = Slot(n) /\ SlotPhase(n)' = SlotPhase(n)
  BY <1>3 DEF Slot, SlotPhase, FLSize
<1>12. AllocationOrder'
  <2>1. FreeRegs' + DestsBefore(Insts', FlightSize') = FLSize
    <3>1. FreeRegs + D = FLSize /\ FreeRegs \in Int
      BY <1>2, SizesPositive DEF AllocationOrder, Ranges
    <3>2. QED
      BY <1>5, <1>7, <1>10, <3>1
  <2>2. ASSUME NEW k \in Flight', HasDest(Insts'[k])
        PROVE  Insts'[k].physical = flList[Slot(DestsBefore(Insts', k))]
    <3>1. CASE k \in Flight
      <4>1. Insts'[k] = Insts[k] /\ DestsBefore(Insts', k) = DestsBefore(Insts, k)
        BY <1>5, <1>6, <1>10, <3>1
      <4>2. QED
        BY <1>2, <2>2, <3>1, <4>1 DEF AllocationOrder
    <3>2. CASE k = FlightSize
      <4>1. Insts'[k] = u /\ DestsBefore(Insts', k) = D
        BY <1>5, <1>6, <1>10, <3>2
      <4>2. flHead = Slot(D)
        BY <1>2, AllocatedSlots
      <4>3. QED
        BY <1>4, <2>2, <4>1, <4>2 DEF HasDest
    <3>3. QED
      BY <1>5, <3>1, <3>2
  <2>3. QED
    BY <1>3, <1>11, <2>1, <2>2 DEF AllocationOrder, FLSize
<1>13. ASSUME NEW l \in Log, NEW p
       PROVE  \A k \in 0 .. FlightSize :
                MappedBefore(Insts', amt, k, l, p) <=>
                MappedBefore(Insts, amt, k, l, p)
  <2> SUFFICES ASSUME NEW k \in 0 .. FlightSize
               PROVE  MappedBefore(Insts', amt, k, l, p) <=>
                      MappedBefore(Insts, amt, k, l, p)
    OBVIOUS
  <2>1. k \in Nat /\ \A j \in 0 .. k - 1 : Insts'[j] = Insts[j]
    BY <1>6
  <2>2. QED
    BY <2>1, MappedAgree
<1>14. \A l \in Log : MappedBefore(Insts', amt, FlightSize + 1, l, rmt'[l])
  <2> SUFFICES ASSUME NEW l \in Log
               PROVE  MappedBefore(Insts', amt, FlightSize + 1, l, rmt'[l])
    OBVIOUS
  <2>1. MappedBefore(Insts', amt, FlightSize + 1, l, rmt'[l]) <=>
          IF u.logical = l THEN rmt'[l] = u.physical
                           ELSE MappedBefore(Insts', amt, FlightSize, l, rmt'[l])
    BY <1>5, <1>6, MappedStep
  <2>2. CASE u.logical = l
    BY <1>4, <1>7, <2>1, <2>2, SizesPositive
  <2>3. CASE u.logical # l
    <3>1. rmt'[l] = rmt[l] /\ FlightSize \in 0 .. FlightSize
      BY <1>4, <1>6, <1>7, <2>3
    <3>2. MappedBefore(Insts', amt, FlightSize, l, rmt[l])
      BY <1>2, <1>13, <3>1 DEF RenameMapPrecise
    <3>3. QED
      BY <2>1, <2>3, <3>1, <3>2
  <2>4. QED
    BY <2>2, <2>3
<1>15. RenameMapPrecise'
  BY <1>3, <1>5, <1>14 DEF RenameMapPrecise
<1>16. SourcesPrecise'
  <2>1. ASSUME NEW k \in Flight', Insts'[k].src # Invalid
        PROVE  MappedBefore(Insts', amt, k, Insts'[k].src, Insts'[k].psrc)
    <3>1. CASE k \in Flight
      <4>1. Insts'[k] = Insts[k] /\ k \in 0 .. FlightSize
            /\ Insts[k].src \in Log
        BY <1>5, <1>6, <2>1, <3>1 DEF Uop
      <4>2. QED
        BY <1>2, <1>13, <2>1, <3>1, <4>1 DEF SourcesPrecise
    <3>2. CASE k = FlightSize
      <4>1. Insts'[k] = u /\ k \in 0 .. FlightSize /\ kind.src \in Log
        BY <1>4, <1>5, <1>6, <2>1, <3>2 DEF Uop
      <4>2. u.psrc = rmt[kind.src]
        BY <1>4, <2>1, <4>1 DEF RenameSource
      <4>3. MappedBefore(Insts, amt, FlightSize, kind.src, rmt[kind.src])
        BY <1>2, <4>1 DEF RenameMapPrecise
      <4>4. QED
        BY <1>4, <1>13, <3>2, <4>1, <4>2, <4>3
    <3>3. QED
      BY <1>5, <3>1, <3>2
  <2>2. QED
    BY <1>3, <2>1 DEF SourcesPrecise
<1>17. /\ Pending' = Pending \cup {FlightSize}
       /\ Unresolved' = Unresolved \cup (IF id = Invalid THEN {} ELSE {FlightSize})
  <2>1. Pending' = Pending \cup {FlightSize}
    BY <1>5, <1>6 DEF Pending
  <2>2. IsBranch(u) <=> id # Invalid
    BY <1>4 DEF IsBranch
  <2>3. \A k \in Pending : k \in Flight
    BY DEF Pending
  <2>4. QED
    BY <1>5, <2>1, <2>2, <2>3 DEF Unresolved
<1>18. /\ Unresolved \in SUBSET Nat /\ Unresolved' \in SUBSET Nat
       /\ Unresolved \subseteq Flight /\ Pending \subseteq Flight
  BY <1>2, <1>6, <1>17, IndexSets
<1>19. /\ \A k \in 0 .. FlightSize :
            IDsBefore(Insts', Unresolved', k) = IDsBefore(Insts, Unresolved, k)
       /\ IDsBefore(Insts', Unresolved', FlightSize + 1) = GBM'
       /\ IDsBefore(Insts, Unresolved, FlightSize) = GBM
       /\ id # Invalid => id \notin GBM
  <2>1. ASSUME NEW k \in 0 .. FlightSize
        PROVE  IDsBefore(Insts', Unresolved', k) = IDsBefore(Insts, Unresolved, k)
    <3>1. k \in Nat /\ \A j \in 0 .. k - 1 : j # FlightSize /\ j \in 0 .. FlightSize - 1
      BY <1>6
    <3>2. \A j \in 0 .. k - 1 : /\ Insts'[j] = Insts[j]
                               /\ (j \in Unresolved' <=> j \in Unresolved)
      BY <1>6, <1>17, <3>1
    <3>3. QED
      BY <1>18, <3>1, <3>2, IDsAgree
  <2>2. IDsBefore(Insts, Unresolved, FlightSize) = GBM
    BY <1>2 DEF BranchMasksPrecise
  <2>3. FlightSize \in 0 .. FlightSize
    BY <1>6
  <2>4. IDsBefore(Insts', Unresolved', FlightSize + 1) =
          GBM \cup (IF FlightSize \in Unresolved' THEN {id} ELSE {})
    <3>1. IDsBefore(Insts', Unresolved', FlightSize + 1) =
            IDsBefore(Insts', Unresolved', FlightSize) \cup
              (IF FlightSize \in Unresolved' THEN {Insts'[FlightSize].branch_ID}
                                             ELSE {})
      BY <1>6, <1>18, IDsStep
    <3>2. Insts'[FlightSize].branch_ID = id
      BY <1>4, <1>5
    <3>3. IDsBefore(Insts', Unresolved', FlightSize) = GBM
      BY <2>1, <2>2, <2>3
    <3>4. QED
      BY <3>1, <3>2, <3>3
  <2>5. FlightSize \in Unresolved' <=> id # Invalid
    BY <1>6, <1>17, <1>18
  <2>6. CASE id = Invalid
    BY <1>1, <2>1, <2>2, <2>4, <2>5, <2>6 DEF brVars
  <2>7. CASE id # Invalid
    <3>1. GBM' = GBM \cup {id} /\ id \notin GBM
      BY <1>1, <2>7 DEF TakeCheckpoint, AllocatedBit
    <3>2. QED
      BY <2>1, <2>2, <2>4, <2>5, <2>7, <3>1
  <2>8. QED
    BY <2>6, <2>7
<1>20. ASSUME NEW k \in Unresolved
       PROVE  /\ Insts[k].branch_ID \in GBM
              /\ checkpoints'[Insts[k].branch_ID] = checkpoints[Insts[k].branch_ID]
  <2>1. k \in Flight /\ k < FlightSize
    BY <1>6, <1>18
  <2>2. Insts[k].branch_ID \in GBM
    BY <1>19, <2>1 DEF IDsBefore
  <2>3. QED
    BY <1>1, <1>2, <1>19, <2>2 DEF TakeCheckpoint, brVars, TypeOK
<1>21. id # Invalid => checkpoints'[id] = CheckpointState
  BY <1>1, <1>2 DEF TakeCheckpoint, TypeOK
<1>22. CheckpointsPrecise'
  <2>1. ASSUME NEW k \in Unresolved'
        PROVE  LET cp == checkpoints'[Insts'[k].branch_ID]
                   n  == DestsBefore(Insts', k + 1) IN
               /\ \A l \in Log :
                    MappedBefore(Insts', amt, k + 1, l, cp.shadow_map_table[l])
               /\ cp.free_list_head = Slot(n)
               /\ cp.free_list_head_phase = SlotPhase(n)
    <3>1. CASE k \in Unresolved
      <4>1. Insts'[k] = Insts[k] /\ k + 1 \in 0 .. FlightSize
        BY <1>5, <1>6, <1>18, <3>1
      <4>2. QED
        BY <1>2, <1>10, <1>13, <1>20, <3>1, <4>1 DEF CheckpointsPrecise
    <3>2. CASE k = FlightSize /\ id # Invalid
      <4>1. Insts'[k].branch_ID = id
        BY <1>4, <1>5, <3>2
      <4>2. DestsBefore(Insts', FlightSize + 1) \in 0 .. FLSize
            /\ FreeRegs' + DestsBefore(Insts', FlightSize + 1) = FLSize
        BY <1>5, <1>7, <1>10, <1>12, SizesPositive DEF AllocationOrder, FLSize
      <4>3. /\ flHead' = Slot(DestsBefore(Insts', FlightSize + 1))
            /\ flHeadPhase' = SlotPhase(DestsBefore(Insts', FlightSize + 1))
        BY <1>11, <4>2, FreeListRingNext
      <4>4. QED
        BY <1>14, <1>21, <3>2, <4>1, <4>3 DEF CheckpointState
    <3>3. QED
      BY <1>17, <3>1, <3>2
  <2>2. QED
    BY <1>3, <1>11, <2>1 DEF CheckpointsPrecise
<1>23. BranchMasksPrecise'
  <2>1. GBM' = IDsBefore(Insts', Unresolved', FlightSize')
    BY <1>5, <1>19
  <2>2. ASSUME NEW j \in Unresolved', NEW k \in Unresolved', j # k
        PROVE  Insts'[j].branch_ID # Insts'[k].branch_ID
    <3>1. \A i \in Unresolved : Insts'[i] = Insts[i]
      BY <1>5, <1>18
    <3>2. Insts'[FlightSize].branch_ID = id
      BY <1>4, <1>5
    <3>3. QED
      BY <1>2, <1>17, <1>19, <1>20, <2>2, <3>1, <3>2 DEF BranchMasksPrecise
  <2>3. ASSUME NEW k \in Pending'
        PROVE  MaskAt(k)' = IDsBefore(Insts', Unresolved', k)
    <3>1. CASE k \in Pending
      <4>1. k \in Flight /\ k \in 0 .. FlightSize
        BY <1>6, <1>18, <3>1
      <4>2. QED
        BY <1>2, <1>5, <1>19, <3>1, <4>1 DEF BranchMasksPrecise
    <3>2. CASE k = FlightSize
      <4>1. k \in Flight' \ Flight /\ k \in 0 .. FlightSize
        BY <1>5, <1>6, <3>2
      <4>2. MaskAt(k)' = GBM
        BY <1>5, <4>1
      <4>3. IDsBefore(Insts', Unresolved', k) = GBM
        BY <1>19, <3>2, <4>1
      <4>4. QED
        BY <4>2, <4>3
    <3>3. QED
      BY <1>17, <3>1, <3>2
  <2>4. ASSUME NEW k \in Unresolved'
        PROVE  checkpoints'[Insts'[k].branch_ID].gbm
                 = IDsBefore(Insts', Unresolved', k + 1)
    <3>1. CASE k \in Unresolved
      <4>1. Insts'[k] = Insts[k] /\ k + 1 \in 0 .. FlightSize
        BY <1>5, <1>6, <1>18, <3>1
      <4>2. QED
        BY <1>2, <1>19, <1>20, <3>1, <4>1 DEF BranchMasksPrecise
    <3>2. CASE k = FlightSize /\ id # Invalid
      <4>1. Insts'[k].branch_ID = id
        BY <1>4, <1>5, <3>2
      <4>2. QED
        BY <1>19, <1>21, <3>2, <4>1 DEF CheckpointState
    <3>3. QED
      BY <1>17, <3>1, <3>2
  <2>5. QED
    BY <2>1, <2>2, <2>3, <2>4 DEF BranchMasksPrecise
<1>24. PipeMatchesActiveList'
  BY <1>2, <1>3 DEF PipeMatchesActiveList, InFlight, alVars, ALIndex
<1>25. QED
  BY <1>8, <1>9, <1>12, <1>15, <1>16, <1>22, <1>23, <1>24 DEF IInv

----------------------------------------------------------------------------
(* Steps that leave the instructions in flight and the maps alone           *)

LEMMA MapsKept ==
  ASSUME IInv, Insts' = Insts, FlightSize' = FlightSize, Flight' = Flight,
         UNCHANGED <<mapVars, flVars>>
  PROVE  /\ RegistersConserved' /\ AllocationOrder' /\ RenameMapPrecise'
         /\ SourcesPrecise' /\ (FreeRegs \in 0 .. FLSize)'
         /\ \A n : Slot(n)' = Slot(n) /\ SlotPhase(n)' = SlotPhase(n)
<1>1. /\ rmt' = rmt /\ amt' = amt /\ flList' = flList
      /\ flHead' = flHead /\ flTail' = flTail
      /\ flHeadPhase' = flHeadPhase /\ flTailPhase' = flTailPhase
  BY DEF mapVars, flVars
<1>2. FreeRegs' = FreeRegs
  BY <1>1 DEF FreeRegs, FLSize
<1>3. \A n : Slot(n)' = Slot(n) /\ SlotPhase(n)' = SlotPhase(n)
  BY <1>1 DEF Slot, SlotPhase, FLSize
<1>4. RegistersConserved'
  BY <1>1 DEF IInv, RegistersConserved
<1>5. AllocationOrder'
  BY <1>1, <1>2, <1>3 DEF IInv, AllocationOrder, FLSize
<1>6. RenameMapPrecise'
  BY <1>1 DEF IInv, RenameMapPrecise
<1>7. SourcesPrecise'
  BY <1>1 DEF IInv, SourcesPrecise
<1>8. (FreeRegs \in 0 .. FLSize)'
  BY <1>2 DEF IInv, Ranges, FLSize
<1>9. QED
  BY <1>3, <1>4, <1>5, <1>6, <1>7, <1>8

LEMMA BranchesKept ==
  ASSUME IInv, Insts' = Insts, FlightSize' = FlightSize, Flight' = Flight,
         UNCHANGED <<mapVars, flVars, brVars>>,
         \A k \in Flight :
           /\ InPipeAt(k)' => InPipeAt(k) /\ MaskAt(k)' = MaskAt(k)
           /\ ~ InPipeAt(k)' /\ InPipeAt(k) => ~ IsBranch(Insts[k])
  PROVE  CheckpointsPrecise' /\ BranchMasksPrecise'
<1>1. /\ amt' = amt /\ GBM' = GBM /\ checkpoints' = checkpoints
      /\ \A n : Slot(n)' = Slot(n) /\ SlotPhase(n)' = SlotPhase(n)
  BY MapsKept DEF mapVars, brVars
<1>2. Pending' \subseteq Pending /\ \A k \in Pending' : MaskAt(k)' = MaskAt(k)
  BY DEF Pending
<1>3. Unresolved' = Unresolved
  BY DEF Unresolved, Pending
<1>4. CheckpointsPrecise'
  BY <1>1, <1>3 DEF IInv, CheckpointsPrecise
<1>5. BranchMasksPrecise'
  BY <1>1, <1>2, <1>3 DEF IInv, BranchMasksPrecise
<1>6. QED
  BY <1>4, <1>5

LEMMA DispatchStep ==
  ASSUME IInv, TypeOK', Dispatch
  PROVE  IInv'
<1>1. TypeOK /\ Ranges /\ PipeMatchesActiveList
  BY DEF IInv
<1>2. /\ FlightSize' = FlightSize /\ Flight' = Flight /\ Insts' = Insts
      /\ FreeEntries' \in 0 .. NActive
      /\ \A k \in Flight : /\ MaskAt(k)' = MaskAt(k) \/ ~ InPipeAt(k)'
                           /\ InPipeAt(k)' => InPipeAt(k)
                           /\ ~ InPipeAt(k)' /\ InPipeAt(k) => ~ IsBranch(Insts[k])
  BY <1>1, DispatchFlight
<1>3. UNCHANGED <<mapVars, flVars, brVars>>
  BY DEF Dispatch
<1>4. /\ RegistersConserved' /\ AllocationOrder' /\ RenameMapPrecise'
      /\ SourcesPrecise' /\ (FreeRegs \in 0 .. FLSize)'
  BY <1>2, <1>3, MapsKept
<1>5. CheckpointsPrecise' /\ BranchMasksPrecise'
  BY <1>2, <1>3, BranchesKept
<1>6. PipeMatchesActiveList'
  <2>1. /\ alHead \in 0 .. NActive - 1 /\ alTail \in 0 .. NActive - 1
        /\ ALIndex = 0 .. NActive - 1 /\ NActive \in Nat \ {0}
        /\ alHeadPhase \in {0, 1} /\ alTailPhase \in {0, 1}
        /\ FreeEntries \in 1 .. NActive
        /\ alHead' = alHead /\ alHeadPhase' = alHeadPhase
        /\ alTail' = NextIndex(alTail, NActive)
        /\ alTailPhase' = NextPhase(alTail, alTailPhase, NActive)
    BY <1>1, SizesPositive DEF Dispatch, StallDispatch, TypeOK, Ranges, Phase
  <2>2. \A i \in ALIndex : InFlight(i)' <=> InFlight(i) \/ i = alTail
    BY <2>1 DEF InFlight, FreeEntries, NextIndex, NextPhase
  <2>3. ASSUME NEW i \in ALIndex
        PROVE  exec'[i].valid <=> InFlight(i)' /\ ~ alList'[i].completed
    <3>1. CASE i = alTail
      <4>1. exec'[i].valid <=> ~ alList'[i].completed
        BY <1>1, <2>1, <3>1 DEF Dispatch, TypeOK, NotInPipe
      <4>2. QED
        BY <2>2, <3>1, <4>1
    <3>2. CASE i # alTail
      <4>1. exec'[i] = exec[i] /\ alList'[i] = alList[i]
        BY <1>1, <3>2 DEF Dispatch, TypeOK
      <4>2. QED
        BY <1>1, <2>2, <3>2, <4>1 DEF PipeMatchesActiveList
    <3>3. QED
      BY <3>1, <3>2
  <2>4. QED
    BY <2>3 DEF PipeMatchesActiveList, ALIndex
<1>7. QED
  BY <1>2, <1>4, <1>5, <1>6 DEF IInv, Ranges

LEMMA MarkFaultStep ==
  ASSUME IInv, TypeOK', NEW i \in ALIndex, MarkFault(i)
  PROVE  IInv'
<1>1. TypeOK /\ Ranges /\ PipeMatchesActiveList
  BY DEF IInv
<1>2. /\ UNCHANGED <<mapVars, flVars, brVars>>
      /\ UNCHANGED <<alHead, alTail, alHeadPhase, alTailPhase>>
      /\ latch' = latch /\ exec' = exec
      /\ \A j \in ALIndex : /\ alList'[j].uop = alList[j].uop
                            /\ alList'[j].completed = alList[j].completed
  BY <1>1 DEF MarkFault, TypeOK, ALEntry
<1>3. /\ Used' = Used /\ FlightSize' = FlightSize /\ Flight' = Flight
      /\ Insts' = Insts /\ FreeEntries' = FreeEntries
      /\ \A k : Entry(k)' = Entry(k)
  BY <1>1, <1>2, SameFlight
<1>4. \A k \in Flight : /\ MaskAt(k)' = MaskAt(k)
                        /\ InPipeAt(k)' <=> InPipeAt(k)
  BY <1>2, <1>3 DEF MaskAt, InPipeAt
<1>5. /\ RegistersConserved' /\ AllocationOrder' /\ RenameMapPrecise'
      /\ SourcesPrecise' /\ (FreeRegs \in 0 .. FLSize)'
  BY <1>2, <1>3, MapsKept
<1>6. CheckpointsPrecise' /\ BranchMasksPrecise'
  BY <1>2, <1>3, <1>4, BranchesKept
<1>7. PipeMatchesActiveList'
  BY <1>1, <1>2 DEF PipeMatchesActiveList, InFlight, ALIndex
<1>8. (FreeEntries \in 0 .. NActive)'
  BY <1>1, <1>3 DEF Ranges
<1>9. QED
  BY <1>5, <1>6, <1>7, <1>8 DEF IInv, Ranges

----------------------------------------------------------------------------
(* Writeback                                                               *)

(* The instruction in a lane is in the Active List.                         *)
LEMMA InPipeEntry ==
  ASSUME IInv, NEW i \in ALIndex, exec[i].valid
  PROVE  \E n \in 0 .. Used - 1 :
           /\ i = Entry(n) /\ n \in Flight /\ n \in Pending
           /\ Insts[n] = alList[i].uop
           /\ IsBranch(alList[i].uop) => n \in Unresolved
           /\ \A k \in Flight : k < Used => /\ Entry(k) \in ALIndex
                                            /\ k # n => Entry(k) # i
<1>1. TypeOK /\ Ranges /\ PipeMatchesActiveList
  BY DEF IInv
<1>2. PICK n \in 0 .. Used - 1 : i = Entry(n)
  BY <1>1, ActiveListRing DEF PipeMatchesActiveList
<1>3. /\ Used \in 0 .. NActive /\ NActive \in Nat
      /\ FlightSize \in Nat /\ FlightSize = Used + Len(latch) /\ Len(latch) \in Nat
      /\ Flight = 0 .. FlightSize - 1
      /\ \A k \in Flight : Insts[k] = InstAt(k)
  BY <1>1, ActiveListRing, FlightTyped, SizesPositive
<1>4. n \in Flight /\ n < Used
  BY <1>3
<1>5. Insts[n] = alList[i].uop /\ n \in Pending
  BY <1>2, <1>3, <1>4 DEF InstAt, Pending, InPipeAt
<1>6. \A k \in Flight : k < Used => k \in 0 .. NActive - 1
  BY <1>3
<1>7. n \in 0 .. NActive - 1
  BY <1>3
<1>8. QED
  BY <1>1, <1>2, <1>4, <1>5, <1>6, <1>7, ActiveListRing DEF Unresolved

LEMMA CompleteStep ==
  ASSUME IInv, TypeOK', NEW i \in ALIndex, Complete(i)
  PROVE  IInv'
<1>1. TypeOK /\ Ranges /\ PipeMatchesActiveList
  BY DEF IInv
<1>2. /\ UNCHANGED <<mapVars, flVars, brVars>>
      /\ UNCHANGED <<alHead, alTail, alHeadPhase, alTailPhase>>
      /\ latch' = latch
      /\ \A j \in ALIndex : alList'[j].uop = alList[j].uop
      /\ \A j \in ALIndex : j # i => /\ alList'[j].completed = alList[j].completed
                                     /\ exec'[j] = exec[j]
      /\ alList'[i].completed /\ ~ exec'[i].valid /\ exec[i].valid
      /\ ~ IsBranch(alList[i].uop)
  BY <1>1 DEF Complete, SetComplete, NotInPipe, TypeOK, ALEntry
<1>3. /\ Used' = Used /\ FlightSize' = FlightSize /\ Flight' = Flight
      /\ Insts' = Insts /\ FreeEntries' = FreeEntries
      /\ \A k : Entry(k)' = Entry(k)
  BY <1>1, <1>2, SameFlight
<1>4. PICK n \in 0 .. Used - 1 :
        /\ i = Entry(n) /\ n \in Flight /\ n \in Pending
        /\ Insts[n] = alList[i].uop
        /\ \A k \in Flight : k < Used => /\ Entry(k) \in ALIndex
                                         /\ k # n => Entry(k) # i
  BY <1>2, InPipeEntry
<1>5. ASSUME NEW k \in Flight
      PROVE  /\ InPipeAt(k)' => InPipeAt(k) /\ MaskAt(k)' = MaskAt(k)
             /\ ~ InPipeAt(k)' /\ InPipeAt(k) => ~ IsBranch(Insts[k])
  <2>1. CASE k = n
    <3>1. k < Used
      BY <1>1, <2>1, ActiveListRing, SizesPositive
    <3>2. QED
      BY <1>2, <1>3, <1>4, <2>1, <3>1 DEF InPipeAt
  <2>2. CASE k # n
    BY <1>2, <1>3, <1>4, <2>2 DEF InPipeAt, MaskAt
  <2>3. QED
    BY <2>1, <2>2
<1>6. /\ RegistersConserved' /\ AllocationOrder' /\ RenameMapPrecise'
      /\ SourcesPrecise' /\ (FreeRegs \in 0 .. FLSize)'
  BY <1>2, <1>3, MapsKept
<1>7. CheckpointsPrecise' /\ BranchMasksPrecise'
  BY <1>2, <1>3, <1>5, BranchesKept
<1>8. PipeMatchesActiveList'
  BY <1>1, <1>2 DEF PipeMatchesActiveList, InFlight, ALIndex
<1>9. (FreeEntries \in 0 .. NActive)'
  BY <1>1, <1>3 DEF Ranges
<1>10. QED
  BY <1>6, <1>7, <1>8, <1>9 DEF IInv, Ranges

(* The IDs of the unresolved branches, once one of them is resolved.        *)
LEMMA IDsWithout ==
  ASSUME IInv, NEW n \in Unresolved, NEW k \in Nat
  PROVE  IDsBefore(Insts, Unresolved \ {n}, k) =
           ClearBit(IDsBefore(Insts, Unresolved, k), Insts[n].branch_ID)
<1>1. \A j \in Unresolved : j # n => Insts[j].branch_ID # Insts[n].branch_ID
  BY DEF IInv, BranchMasksPrecise
<1>2. QED
  BY <1>1 DEF IDsBefore, ClearBit

LEMMA ResolveCorrectStep ==
  ASSUME IInv, TypeOK', NEW i \in ALIndex, ResolveCorrect(i)
  PROVE  IInv'
<1> DEFINE b == alList[i].uop.branch_ID
<1>1. TypeOK /\ Ranges /\ PipeMatchesActiveList
  BY DEF IInv
<1>2. /\ UNCHANGED <<mapVars, flVars>>
      /\ UNCHANGED <<alHead, alTail, alHeadPhase, alTailPhase>>
      /\ GBM' = ClearBit(GBM, b)
      /\ checkpoints' = ClearCheckpoints(b)
      /\ \A j \in ALIndex : alList'[j].uop = alList[j].uop
      /\ \A j \in ALIndex : j # i =>
           /\ alList'[j].completed = alList[j].completed
           /\ exec'[j].valid = exec[j].valid
           /\ exec'[j].branch_mask = ClearBit(exec[j].branch_mask, b)
      /\ alList'[i].completed /\ ~ exec'[i].valid /\ exec[i].valid
      /\ IsBranch(alList[i].uop)
  BY <1>1 DEF ResolveCorrect, SetComplete, ClearExec, NotInPipe, TypeOK,
              ALEntry, InPipe
<1>3. /\ Len(latch') = Len(latch) /\ Len(latch) \in Nat
      /\ \A j \in 1 .. Len(latch) :
           /\ latch'[j].uop = latch[j].uop
           /\ latch'[j].branch_mask = ClearBit(latch[j].branch_mask, b)
  <2>1. /\ latch \in [1 .. Len(latch) -> Latched] /\ Len(latch) \in Nat
        /\ DOMAIN latch = 1 .. Len(latch)
    BY <1>1, LenProperties DEF TypeOK
  <2>2. latch' = [k \in 1 .. Len(latch) |->
                   [latch[k] EXCEPT !.branch_mask = ClearBit(@, b)]]
    BY <2>1 DEF ResolveCorrect
  <2>3. ASSUME NEW x \in Latched
        PROVE  /\ [x EXCEPT !.branch_mask = ClearBit(@, b)].uop = x.uop
               /\ [x EXCEPT !.branch_mask = ClearBit(@, b)].branch_mask
                    = ClearBit(x.branch_mask, b)
    BY DEF Latched
  <2>4. latch' \in Seq(Latched)
    BY DEF TypeOK
  <2>5. Len(latch') = Len(latch)
    BY <2>1, <2>2, <2>4, LenProperties
  <2>6. QED
    BY <2>1, <2>2, <2>3, <2>5
<1>4. /\ Used' = Used /\ FlightSize' = FlightSize /\ Flight' = Flight
      /\ Insts' = Insts /\ FreeEntries' = FreeEntries
      /\ \A k : Entry(k)' = Entry(k)
  BY <1>1, <1>2, <1>3, SameFlight
<1>5. PICK n \in 0 .. Used - 1 :
        /\ i = Entry(n) /\ n \in Flight /\ n \in Unresolved
        /\ Insts[n] = alList[i].uop
        /\ \A k \in Flight : k < Used => /\ Entry(k) \in ALIndex
                                         /\ k # n => Entry(k) # i
  BY <1>2, InPipeEntry
<1>6. /\ n < Used /\ Used \in Int /\ FlightSize \in Nat
      /\ FlightSize = Used + Len(latch) /\ Flight = 0 .. FlightSize - 1
  BY <1>1, ActiveListRing, FlightTyped, SizesPositive
<1>7. ASSUME NEW k \in Flight
      PROVE  /\ InPipeAt(k)' <=> InPipeAt(k) /\ k # n
             /\ InPipeAt(k)' => MaskAt(k)' = ClearBit(MaskAt(k), b)
  <2>1. CASE k = n
    BY <1>2, <1>4, <1>5, <1>6, <2>1 DEF InPipeAt
  <2>2. CASE k # n /\ k < Used
    BY <1>2, <1>4, <1>5, <2>2 DEF InPipeAt, MaskAt
  <2>3. CASE ~ (k < Used)
    <3>1. k - Used + 1 \in 1 .. Len(latch) /\ k # n
      BY <1>3, <1>6, <2>3
    <3>2. QED
      BY <1>3, <1>4, <2>3, <3>1 DEF InPipeAt, MaskAt
  <2>4. QED
    BY <2>1, <2>2, <2>3
<1>8. Pending' = Pending \ {n} /\ Unresolved' = Unresolved \ {n}
  <2>1. Pending' = Pending \ {n}
    BY <1>4, <1>7 DEF Pending
  <2>2. QED
    BY <1>4, <2>1 DEF Unresolved
<1>9. \A k \in Nat : IDsBefore(Insts, Unresolved', k) =
                       ClearBit(IDsBefore(Insts, Unresolved, k), b)
  BY <1>5, <1>8, IDsWithout
<1>10. /\ RegistersConserved' /\ AllocationOrder' /\ RenameMapPrecise'
       /\ SourcesPrecise' /\ (FreeRegs \in 0 .. FLSize)'
       /\ \A m : Slot(m)' = Slot(m) /\ SlotPhase(m)' = SlotPhase(m)
       /\ amt' = amt
  BY <1>2, <1>4, MapsKept DEF mapVars
<1>11. ASSUME NEW k \in Unresolved'
       PROVE  /\ k \in Unresolved /\ k \in Nat /\ k + 1 \in Nat
              /\ LET c  == Insts[k].branch_ID IN
                 /\ checkpoints'[c].shadow_map_table = checkpoints[c].shadow_map_table
                 /\ checkpoints'[c].free_list_head = checkpoints[c].free_list_head
                 /\ checkpoints'[c].free_list_head_phase
                      = checkpoints[c].free_list_head_phase
                 /\ checkpoints'[c].gbm = ClearBit(checkpoints[c].gbm, b)
  <2>1. k \in Unresolved /\ k \in Nat
    BY <1>1, <1>8, IndexSets
  <2>2. Insts[k].branch_ID \in BranchIDs
    <3>1. k \in Flight /\ IsBranch(Insts[k])
      BY <2>1 DEF Unresolved, Pending
    <3>2. Insts[k] \in Uop
      BY <1>1, <3>1, FlightTyped
    <3>3. QED
      BY <3>1, <3>2 DEF IsBranch, Uop
  <2>3. checkpoints[Insts[k].branch_ID] \in Checkpoint
    BY <1>1, <2>2 DEF TypeOK
  <2>4. ASSUME NEW x \in Checkpoint
        PROVE  LET y == [x EXCEPT !.gbm = ClearBit(@, b)] IN
               /\ y.shadow_map_table = x.shadow_map_table
               /\ y.free_list_head = x.free_list_head
               /\ y.free_list_head_phase = x.free_list_head_phase
               /\ y.gbm = ClearBit(x.gbm, b)
    BY DEF Checkpoint
  <2>5. checkpoints'[Insts[k].branch_ID] =
          [checkpoints[Insts[k].branch_ID] EXCEPT !.gbm = ClearBit(@, b)]
    BY <1>2, <2>2 DEF ClearCheckpoints
  <2>6. QED
    BY <2>1, <2>3, <2>4, <2>5
<1>12. CheckpointsPrecise'
  BY <1>4, <1>10, <1>11 DEF IInv, CheckpointsPrecise
<1>13. BranchMasksPrecise'
  <2>1. GBM' = IDsBefore(Insts, Unresolved', FlightSize)
    BY <1>2, <1>6, <1>9 DEF IInv, BranchMasksPrecise
  <2>2. \A j, k \in Unresolved' :
          j # k => Insts[j].branch_ID # Insts[k].branch_ID
    BY <1>8 DEF IInv, BranchMasksPrecise
  <2>3. ASSUME NEW k \in Pending'
        PROVE  MaskAt(k)' = IDsBefore(Insts, Unresolved', k)
    <3>1. k \in Pending /\ k \in Flight /\ k \in Nat /\ InPipeAt(k)'
      BY <1>1, <1>4, <1>8, IndexSets DEF Pending
    <3>2. QED
      BY <1>7, <1>9, <3>1 DEF IInv, BranchMasksPrecise
  <2>4. ASSUME NEW k \in Unresolved'
        PROVE  checkpoints'[Insts[k].branch_ID].gbm
                 = IDsBefore(Insts, Unresolved', k + 1)
    BY <1>9, <1>11 DEF IInv, BranchMasksPrecise
  <2>5. QED
    BY <1>4, <2>1, <2>2, <2>3, <2>4 DEF BranchMasksPrecise
<1>14. PipeMatchesActiveList'
  BY <1>1, <1>2 DEF PipeMatchesActiveList, InFlight, ALIndex
<1>15. (FreeEntries \in 0 .. NActive)'
  BY <1>1, <1>4 DEF Ranges
<1>16. QED
  BY <1>10, <1>12, <1>13, <1>14, <1>15 DEF IInv, Ranges

(* After a misprediction of the branch at position n the Active List holds  *)
(* the entries up to it.                                                    *)
LEMMA InFlightAfterMispredict ==
  ASSUME TypeOK, Ranges, NEW n \in 0 .. Used - 1,
         alTail' = NextIndex(Entry(n), NActive),
         alTailPhase' = InferTailPhase(alHead, NextIndex(Entry(n), NActive),
                                       alHeadPhase),
         UNCHANGED <<alHead, alHeadPhase>>
  PROVE  \A k \in 0 .. NActive - 1 : InFlight(Entry(k))' <=> k <= n
<1>1. /\ NActive \in Nat \ {0}
      /\ alHead \in 0 .. NActive - 1 /\ alHeadPhase \in {0, 1}
      /\ Used \in 0 .. NActive /\ n \in 0 .. NActive - 1
      /\ alHead' = alHead /\ alHeadPhase' = alHeadPhase
  BY SizesPositive, ActiveListRing DEF TypeOK, Phase
<1>2. ASSUME NEW k \in 0 .. NActive - 1 PROVE InFlight(Entry(k))' <=> k <= n
  <2> DEFINE t == NextIndex(Entry(n), NActive)
  <2>1. Entry(k)' = Entry(k)
    BY <1>1 DEF Entry
  <2>2. InFlight(Entry(k))' <=>
          IF alHead < t THEN alHead <= Entry(k) /\ Entry(k) < t
                        ELSE alHead <= Entry(k) \/ Entry(k) < t
    BY <1>1, <2>1 DEF InFlight, InferTailPhase
  <2>3. QED
    BY <1>1, <2>2 DEF NextIndex, Entry
<1>3. QED
  BY <1>2

LEMMA ResolveMispredictStep ==
  ASSUME IInv, TypeOK', NEW i \in ALIndex, ResolveMispredict(i)
  PROVE  IInv'
<1> DEFINE b == alList[i].uop.branch_ID
           cp == checkpoints[b]
<1>1. /\ TypeOK /\ Ranges /\ RegistersConserved /\ AllocationOrder
      /\ RenameMapPrecise /\ SourcesPrecise /\ CheckpointsPrecise
      /\ BranchMasksPrecise /\ PipeMatchesActiveList
  BY DEF IInv
<1>2. /\ amt' = amt /\ flList' = flList /\ flTail' = flTail
      /\ flTailPhase' = flTailPhase /\ checkpoints' = checkpoints
      /\ alHead' = alHead /\ alHeadPhase' = alHeadPhase
      /\ alTail' = NextIndex(i, NActive)
      /\ alTailPhase' = InferTailPhase(alHead, NextIndex(i, NActive), alHeadPhase)
      /\ latch' = <<>>
      /\ GBM' = ClearBit(cp.gbm, b)
      /\ rmt' = cp.shadow_map_table
      /\ flHead' = cp.free_list_head /\ flHeadPhase' = cp.free_list_head_phase
      /\ exec[i].valid /\ IsBranch(alList[i].uop)
      /\ \A j \in ALIndex : alList'[j].uop = alList[j].uop
      /\ \A j \in ALIndex : j # i => alList'[j].completed = alList[j].completed
      /\ alList'[i].completed
      /\ \A j \in ALIndex :
           /\ exec'[j].valid <=> exec[j].valid /\ j # i /\ b \notin exec[j].branch_mask
           /\ exec'[j].valid => exec'[j].branch_mask = exec[j].branch_mask
  BY <1>1 DEF ResolveMispredict, SetComplete, NotInPipe, TypeOK, ALEntry, InPipe
<1>3. PICK n \in 0 .. Used - 1 :
        /\ i = Entry(n) /\ n \in Flight /\ n \in Unresolved
        /\ Insts[n] = alList[i].uop
        /\ \A k \in Flight : k < Used => /\ Entry(k) \in ALIndex
                                         /\ k # n => Entry(k) # i
  BY <1>2, InPipeEntry
<1>4. /\ Used' = n + 1 /\ FlightSize' = n + 1 /\ FreeEntries' \in 0 .. NActive
      /\ Flight' = 0 .. n
      /\ \A k : Entry(k)' = Entry(k)
      /\ \A k \in Flight' : /\ k \in Flight /\ k < Used /\ Insts'[k] = Insts[k]
  BY <1>1, <1>2, <1>3, MispredictFlight
<1>5. /\ FlightSize \in Nat /\ Flight = 0 .. FlightSize - 1
      /\ n \in Nat /\ n + 1 \in Nat /\ n + 1 <= FlightSize
  BY <1>1, <1>3, FlightTyped
<1>6. \A n1 : Slot(n1)' = Slot(n1) /\ SlotPhase(n1)' = SlotPhase(n1)
  BY <1>2 DEF Slot, SlotPhase, FLSize
<1>7. \A k \in 0 .. n + 1 : /\ k \in Nat
                            /\ \A j \in 0 .. k - 1 : Insts'[j] = Insts[j]
  BY <1>4, <1>5
<1>8. \A k \in 0 .. n + 1 : DestsBefore(Insts', k) = DestsBefore(Insts, k)
  BY <1>7, DestsAgree
<1>9. \A k \in 0 .. n + 1 : \A l, p :
        MappedBefore(Insts', amt, k, l, p) <=> MappedBefore(Insts, amt, k, l, p)
  BY <1>7, MappedAgree
<1>10. /\ \A l \in Log : MappedBefore(Insts, amt, n + 1, l, rmt'[l])
       /\ flHead' = Slot(DestsBefore(Insts, n + 1))
       /\ flHeadPhase' = SlotPhase(DestsBefore(Insts, n + 1))
       /\ cp.gbm = IDsBefore(Insts, Unresolved, n + 1)
  BY <1>1, <1>2, <1>3 DEF CheckpointsPrecise, BranchMasksPrecise
<1>11. n + 1 \in 0 .. n + 1 /\ \A k \in Flight' : k \in 0 .. n + 1 /\ k + 1 \in 0 .. n + 1
  BY <1>4, <1>5
<1>12. AllocationOrder' /\ (FreeRegs \in 0 .. FLSize)'
  <2>1. DestsBefore(Insts, n + 1) \in 0 .. FLSize
    <3>1. DestsBefore(Insts, n + 1) \in Nat
          /\ DestsBefore(Insts, n + 1) <= DestsBefore(Insts, FlightSize)
      BY <1>5, DestsFinite, DestsMonotone
    <3>2. DestsBefore(Insts, FlightSize) \in 0 .. FLSize
      BY <1>1, AllocatedSlots
    <3>3. QED
      BY <3>1, <3>2, SizesPositive
  <2>2. FreeRegs' + DestsBefore(Insts, n + 1) = FLSize
    BY <1>6, <1>10, <2>1, FreeListRingNext
  <2>3. FreeRegs' \in Int
    <3>1. flHead' \in Int /\ flTail' \in Int /\ FLSize \in Int
      BY SizesPositive DEF TypeOK
    <3>2. QED
      BY <3>1 DEF FreeRegs, FLSize
  <2>4. FreeRegs' \in 0 .. FLSize
    BY <2>1, <2>2, <2>3, SizesPositive
  <2>5. FreeRegs' + DestsBefore(Insts', FlightSize') = FLSize
    BY <1>4, <1>8, <1>11, <2>2
  <2>6. ASSUME NEW k \in Flight', HasDest(Insts'[k])
        PROVE  Insts'[k].physical = flList[Slot(DestsBefore(Insts', k))]
    BY <1>1, <1>4, <1>8, <1>11, <2>6 DEF AllocationOrder
  <2>7. QED
    BY <1>2, <1>6, <2>4, <2>5, <2>6 DEF AllocationOrder, FLSize
<1>13. RegistersConserved'
  BY <1>1, <1>2 DEF RegistersConserved
<1>14. RenameMapPrecise'
  BY <1>2, <1>4, <1>9, <1>10, <1>11 DEF RenameMapPrecise
<1>15. SourcesPrecise'
  BY <1>1, <1>2, <1>4, <1>9, <1>11 DEF SourcesPrecise
<1>16. \A j \in Unresolved : j # n => Insts[j].branch_ID # b
  BY <1>1, <1>3 DEF BranchMasksPrecise
<1>17. ASSUME NEW k \in Pending
       PROVE  b \in MaskAt(k) <=> n < k
  <2>1. MaskAt(k) = IDsBefore(Insts, Unresolved, k)
    BY <1>1 DEF BranchMasksPrecise
  <2>2. QED
    BY <1>3, <1>16, <2>1 DEF IDsBefore
<1>18. ASSUME NEW k \in Flight'
       PROVE  /\ InPipeAt(k)' <=> InPipeAt(k) /\ k < n
              /\ InPipeAt(k)' => MaskAt(k)' = MaskAt(k)
  <2>1. k \in Flight /\ k < Used /\ k < Used' /\ Entry(k)' = Entry(k)
        /\ Entry(k) \in ALIndex /\ k \in Int /\ (k < n \/ k = n)
    BY <1>3, <1>4, <1>5
  <2>2. CASE k = n
    BY <1>2, <1>3, <1>5, <2>1, <2>2 DEF InPipeAt
  <2>3. CASE k < n
    <3>1. k # n /\ ~ (n < k) /\ Entry(k) # i
      BY <1>3, <1>5, <2>1, <2>3
    <3>2. InPipeAt(k) => b \notin exec[Entry(k)].branch_mask
      BY <1>17, <2>1, <3>1 DEF Pending, MaskAt
    <3>3. QED
      BY <1>2, <2>1, <2>3, <3>1, <3>2 DEF InPipeAt, MaskAt
  <2>4. QED
    BY <2>1, <2>2, <2>3
<1>19. /\ Pending' = {k \in Pending : k < n}
       /\ Unresolved' = {k \in Unresolved : k < n}
  <2>1. \A k \in Flight : k < n => k \in Flight'
    BY <1>4, <1>5
  <2>2. Pending' = {k \in Pending : k < n}
    BY <1>4, <1>18, <2>1 DEF Pending
  <2>3. Unresolved' = {k \in Unresolved : k < n}
    BY <1>4, <2>1, <2>2 DEF Unresolved, Pending
  <2>4. QED
    BY <2>2, <2>3
<1>20. /\ Unresolved \in SUBSET Nat /\ Unresolved' \in SUBSET Nat
       /\ \A k \in Pending' : k \in Flight' /\ k \in Pending
       /\ \A k \in Unresolved' : k \in Pending' /\ k \in Unresolved
  <2>1. Unresolved \in SUBSET Nat
    BY <1>1, IndexSets
  <2>2. QED
    BY <1>19, <2>1 DEF Pending, Unresolved
<1>21. \A k \in 0 .. n : IDsBefore(Insts', Unresolved', k)
                           = IDsBefore(Insts, Unresolved, k)
  <2> SUFFICES ASSUME NEW k \in 0 .. n
               PROVE  IDsBefore(Insts', Unresolved', k)
                        = IDsBefore(Insts, Unresolved, k)
    OBVIOUS
  <2>1. k \in Nat /\ \A j \in 0 .. k - 1 : j < n /\ j \in Flight'
    BY <1>4, <1>5
  <2>2. \A j \in 0 .. k - 1 : /\ Insts'[j] = Insts[j]
                              /\ (j \in Unresolved' <=> j \in Unresolved)
    BY <1>4, <1>19, <2>1
  <2>3. QED
    BY <1>20, <2>1, <2>2, IDsAgree
<1>22. IDsBefore(Insts', Unresolved', n + 1) = GBM'
  <2>1. n \notin Unresolved' /\ n \in 0 .. n
    BY <1>5, <1>19
  <2>2. IDsBefore(Insts', Unresolved', n + 1) = IDsBefore(Insts, Unresolved, n)
    <3>1. IDsBefore(Insts', Unresolved', n + 1) =
            IDsBefore(Insts', Unresolved', n)
              \cup (IF n \in Unresolved' THEN {Insts'[n].branch_ID} ELSE {})
      BY <1>5, <1>20, IDsStep
    <3>2. IDsBefore(Insts', Unresolved', n) = IDsBefore(Insts, Unresolved, n)
      BY <1>21, <2>1
    <3>3. QED
      BY <2>1, <3>1, <3>2
  <2>3. cp.gbm = IDsBefore(Insts, Unresolved, n) \cup {b}
    <3>1. IDsBefore(Insts, Unresolved, n + 1) =
            IDsBefore(Insts, Unresolved, n) \cup {Insts[n].branch_ID}
      BY <1>3, <1>5, <1>20, IDsStep
    <3>2. QED
      BY <1>3, <1>10, <3>1
  <2>4. b \notin IDsBefore(Insts, Unresolved, n)
    <3>1. \A j \in Unresolved : j < n => j # n
      BY <1>5
    <3>2. QED
      BY <1>16, <3>1 DEF IDsBefore
  <2>5. QED
    BY <1>2, <2>2, <2>3, <2>4 DEF ClearBit
<1>23. CheckpointsPrecise'
  BY <1>1, <1>2, <1>4, <1>6, <1>8, <1>9, <1>11, <1>20 DEF CheckpointsPrecise
<1>24. BranchMasksPrecise'
  <2>1. GBM' = IDsBefore(Insts', Unresolved', FlightSize')
    BY <1>4, <1>22
  <2>2. ASSUME NEW j \in Unresolved', NEW k \in Unresolved', j # k
        PROVE  Insts'[j].branch_ID # Insts'[k].branch_ID
    BY <1>1, <1>4, <1>20, <2>2 DEF BranchMasksPrecise
  <2>3. ASSUME NEW k \in Pending'
        PROVE  MaskAt(k)' = IDsBefore(Insts', Unresolved', k)
    <3>1. k \in Pending /\ k \in Flight' /\ InPipeAt(k)' /\ k \in 0 .. n
      BY <1>4, <1>20 DEF Pending
    <3>2. QED
      BY <1>1, <1>18, <1>21, <3>1 DEF BranchMasksPrecise
  <2>4. ASSUME NEW k \in Unresolved'
        PROVE  checkpoints[Insts'[k].branch_ID].gbm
                 = IDsBefore(Insts', Unresolved', k + 1)
    <3>1. k \in Unresolved /\ k \in Flight' /\ k < n /\ k \in Nat
      BY <1>19, <1>20
    <3>2. k + 1 \in 0 .. n
      BY <1>5, <3>1
    <3>3. QED
      BY <1>1, <1>4, <1>21, <3>1, <3>2 DEF BranchMasksPrecise
  <2>5. QED
    BY <1>2, <2>1, <2>2, <2>3, <2>4 DEF BranchMasksPrecise
<1>25. PipeMatchesActiveList'
  <2>1. ASSUME NEW j \in ALIndex
        PROVE  exec'[j].valid <=> InFlight(j)' /\ ~ alList'[j].completed
    <3>1. PICK k \in 0 .. NActive - 1 : j = Entry(k)
      <4>1. alHead \in 0 .. NActive - 1 /\ j \in 0 .. NActive - 1
            /\ NActive \in Nat \ {0}
        BY <1>1, <2>1, SizesPositive DEF TypeOK
      <4>2. (j >= alHead => j - alHead \in 0 .. NActive - 1 /\ j = Entry(j - alHead))
            /\ (j < alHead => /\ j - alHead + NActive \in 0 .. NActive - 1
                              /\ j = Entry(j - alHead + NActive))
        BY <4>1 DEF Entry
      <4>3. QED
        BY <4>1, <4>2
    <3>2. InFlight(j)' <=> k <= n
      <4>1. InFlight(Entry(k))' <=> k <= n
        BY <1>1, <1>2, <1>3, InFlightAfterMispredict
      <4>2. Entry(k)' = Entry(k)
        BY <1>4
      <4>3. QED
        BY <3>1, <4>1, <4>2 DEF InFlight
    <3>3. InFlight(j) <=> k < Used
      <4>1. InFlight(j) <=> \E m \in 0 .. Used - 1 : j = Entry(m)
        BY <1>1, ActiveListRing
      <4>2. Used \in 0 .. NActive /\ NActive \in Nat
        BY <1>1, ActiveListRing, SizesPositive
      <4>3. \A m \in 0 .. Used - 1 : m \in 0 .. NActive - 1 /\ m < Used
        BY <4>2
      <4>4. \A m \in 0 .. NActive - 1 : j = Entry(m) => m = k
        BY <1>1, <3>1, ActiveListRing
      <4>5. k < Used => k \in 0 .. Used - 1
        BY <3>1, <4>2
      <4>6. QED
        BY <3>1, <4>1, <4>3, <4>4, <4>5
    <3>4. j = i <=> k = n
      <4>1. n \in 0 .. NActive - 1 /\ i = Entry(n)
        <5>1. Used \in 0 .. NActive /\ NActive \in Nat
          BY <1>1, ActiveListRing, SizesPositive
        <5>2. QED
          BY <1>3, <5>1
      <4>2. Entry(k) = Entry(n) => k = n
        BY <1>1, <3>1, <4>1, ActiveListRing
      <4>3. QED
        BY <3>1, <4>1, <4>2
    <3>5. ASSUME exec[j].valid PROVE b \in exec[j].branch_mask <=> n < k
      <4>1. k < Used /\ k \in Flight
        <5>1. k < Used
          BY <1>1, <3>3, <3>5 DEF PipeMatchesActiveList
        <5>2. Len(latch) \in Nat /\ FlightSize = Used + Len(latch)
              /\ Flight = 0 .. FlightSize - 1
          BY <1>1, FlightTyped
        <5>3. Used \in Nat /\ k \in Nat
          BY <1>1, <3>1, ActiveListRing, SizesPositive
        <5>4. QED
          BY <5>1, <5>2, <5>3
      <4>2. k \in Pending /\ MaskAt(k) = exec[j].branch_mask
        BY <3>1, <3>5, <4>1 DEF Pending, InPipeAt, MaskAt
      <4>3. QED
        BY <1>17, <4>2
    <3>6. Used \in Int /\ k \in Int /\ n \in Int /\ n < Used
      BY <1>1, <1>3, ActiveListRing, SizesPositive
    <3>7. QED
      BY <1>1, <1>2, <3>2, <3>3, <3>4, <3>5, <3>6 DEF PipeMatchesActiveList
  <2>2. QED
    BY <2>1 DEF PipeMatchesActiveList, ALIndex
<1>26. QED
  BY <1>4, <1>12, <1>13, <1>14, <1>15, <1>23, <1>24, <1>25 DEF IInv, Ranges

----------------------------------------------------------------------------
(* Retire                                                                  *)

(* The register that a commit puts into the AMT is the one in the slot at   *)
(* the tail of the free list, which takes the register it replaces.         *)
LEMMA CommitSwap ==
  ASSUME IInv, Commit
  PROVE  LET u == alList[alHead].uop
             d == IF HasDest(u) THEN 1 ELSE 0 IN
         /\ \A l \in Log : amt'[l] = IF u.logical = l THEN u.physical ELSE amt[l]
         /\ HasDest(u) => /\ u.logical \in Log /\ u.physical = flList[flTail]
                          /\ flList' = [flList EXCEPT ![flTail] = amt[u.logical]]
         /\ ~ HasDest(u) => flList' = flList
         /\ FreeRegs' = FreeRegs + d /\ FreeRegs' \in 0 .. FLSize
         /\ \A m \in Nat : m + d <= FLSize =>
              Slot(m)' = Slot(m + d) /\ SlotPhase(m)' = SlotPhase(m + d)
<1> DEFINE u == alList[alHead].uop
<1>1. TypeOK /\ Ranges /\ AllocationOrder
  BY DEF IInv
<1>2. 0 \in Flight /\ Insts[0] = u /\ FlightSize \in Nat \ {0} /\ u \in Uop
  <2>1. 0 \in Flight /\ Insts[0] = u
    BY <1>1, CommitFlight DEF Commit
  <2>2. FlightSize \in Nat /\ Flight = 0 .. FlightSize - 1
        /\ Insts \in [Flight -> Uop]
    BY <1>1, FlightTyped
  <2>3. QED
    BY <2>1, <2>2
<1>3. /\ FLSize \in Nat \ {0} /\ FLIndex = 0 .. FLSize - 1
      /\ flHead \in FLIndex /\ flTail \in FLIndex
      /\ flHeadPhase \in {0, 1} /\ flTailPhase \in {0, 1}
      /\ FreeRegs \in 0 .. FLSize
      /\ flHead' = flHead /\ flHeadPhase' = flHeadPhase
      /\ amt \in [Log -> Phys] /\ Invalid \notin Log
  BY <1>1, SizesPositive DEF Commit, TypeOK, Ranges, Phase
<1>4. CASE HasDest(u)
  <2>1. u.logical \in Log
    BY <1>2, <1>4 DEF HasDest, Uop
  <2>2. u.physical = flList[flTail]
    BY <1>1, <1>2, <1>4, DestsZero, FreeListRing DEF AllocationOrder
  <2>3. /\ amt' = [amt EXCEPT ![u.logical] = u.physical]
        /\ flList' = [flList EXCEPT ![flTail] = amt[u.logical]]
        /\ flTail' = NextIndex(flTail, FLSize)
        /\ flTailPhase' = NextPhase(flTail, flTailPhase, FLSize)
    BY <1>4 DEF Commit, FreedRegister
  <2>4. FreeRegs < FLSize
    <3>1. DestsBefore(Insts, 0) < DestsBefore(Insts, FlightSize)
      BY <1>2, <1>4, DestsStrict
    <3>2. DestsBefore(Insts, 0) = 0 /\ DestsBefore(Insts, FlightSize) \in Nat
          /\ FreeRegs + DestsBefore(Insts, FlightSize) = FLSize
      BY <1>1, <1>2, DestsZero, DestsFinite DEF AllocationOrder
    <3>3. QED
      BY <1>3, <3>1, <3>2
  <2>5. FreeRegs' = FreeRegs + 1
    BY <1>3, <2>3, <2>4 DEF FreeRegs, NextIndex, NextPhase
  <2>6. \A m \in Nat : m + 1 <= FLSize =>
          Slot(m)' = Slot(m + 1) /\ SlotPhase(m)' = SlotPhase(m + 1)
    BY <1>1, <1>3, <2>3, SlotAfterPush
  <2>7. QED
    BY <1>3, <1>4, <2>1, <2>2, <2>3, <2>4, <2>5, <2>6
<1>5. CASE ~ HasDest(u)
  <2>1. amt' = amt /\ flList' = flList /\ flTail' = flTail
        /\ flTailPhase' = flTailPhase
    BY <1>5 DEF Commit
  <2>2. FreeRegs' = FreeRegs
    BY <1>3, <2>1 DEF FreeRegs, FLSize
  <2>3. \A m \in Nat : m + 0 = m /\ Slot(m)' = Slot(m) /\ SlotPhase(m)' = SlotPhase(m)
    BY <2>1 DEF Slot, SlotPhase, FLSize
  <2>4. u.logical = Invalid
    BY <1>5 DEF HasDest
  <2>5. QED
    BY <1>3, <1>5, <2>1, <2>2, <2>3, <2>4
<1>6. QED
  BY <1>4, <1>5

LEMMA CommitStep ==
  ASSUME IInv, TypeOK', Commit
  PROVE  IInv'
<1> DEFINE u == alList[alHead].uop
           d == IF HasDest(u) THEN 1 ELSE 0
<1>1. /\ TypeOK /\ Ranges /\ RegistersConserved /\ AllocationOrder
      /\ RenameMapPrecise /\ SourcesPrecise /\ CheckpointsPrecise
      /\ BranchMasksPrecise /\ PipeMatchesActiveList
  BY DEF IInv
<1>2. /\ HeadCompleted /\ RetireHead
      /\ alList' = alList /\ alTail' = alTail /\ alTailPhase' = alTailPhase
      /\ latch' = latch /\ exec' = exec
      /\ rmt' = rmt /\ GBM' = GBM /\ checkpoints' = checkpoints
      /\ flHead' = flHead /\ flHeadPhase' = flHeadPhase
  BY DEF Commit, brVars
<1>3. /\ \A l \in Log : amt'[l] = IF u.logical = l THEN u.physical ELSE amt[l]
      /\ HasDest(u) => /\ u.logical \in Log /\ u.physical = flList[flTail]
                       /\ flList' = [flList EXCEPT ![flTail] = amt[u.logical]]
      /\ ~ HasDest(u) => flList' = flList
      /\ FreeRegs' = FreeRegs + d /\ FreeRegs' \in 0 .. FLSize
      /\ \A m \in Nat : m + d <= FLSize =>
           Slot(m)' = Slot(m + d) /\ SlotPhase(m)' = SlotPhase(m + d)
  BY CommitSwap
<1>4. /\ FlightSize' = FlightSize - 1
      /\ FreeEntries' \in 0 .. NActive
      /\ 0 \in Flight /\ Insts[0] = u /\ Entry(0) = alHead
      /\ \A k \in Flight' : /\ k \in Nat /\ k + 1 \in Flight
                            /\ Insts'[k] = Insts[k + 1]
                            /\ MaskAt(k)' = MaskAt(k + 1)
                            /\ InPipeAt(k)' <=> InPipeAt(k + 1)
      /\ Used >= 1
  BY <1>1, <1>2, CommitFlight
<1>5. /\ FlightSize \in Nat /\ Flight = 0 .. FlightSize - 1
      /\ FlightSize' \in Nat /\ FlightSize' + 1 = FlightSize
      /\ Flight' = 0 .. FlightSize' - 1
      /\ Insts \in [Flight -> Uop]
      /\ d \in {0, 1}
  <2>1. FlightSize \in Nat /\ Flight = 0 .. FlightSize - 1
        /\ Insts \in [Flight -> Uop]
    BY <1>1, FlightTyped
  <2>2. Flight' = 0 .. FlightSize' - 1
    BY DEF Flight
  <2>3. QED
    BY <1>4, <2>1, <2>2
<1>6. \A k \in 0 .. FlightSize' :
        /\ k \in Nat /\ k + 1 \in Nat /\ k + 1 <= FlightSize
        /\ \A j \in 0 .. k - 1 : j \in Flight' /\ Insts'[j] = Insts[j + 1]
  BY <1>4, <1>5
<1>7. \A k \in 0 .. FlightSize' :
        /\ DestsBefore(Insts', k) \in Nat
        /\ DestsBefore(Insts, k + 1) = DestsBefore(Insts', k) + d
        /\ DestsBefore(Insts', k) + d <= FLSize
  <2> SUFFICES ASSUME NEW k \in 0 .. FlightSize'
               PROVE  /\ DestsBefore(Insts', k) \in Nat
                      /\ DestsBefore(Insts, k + 1) = DestsBefore(Insts', k) + d
                      /\ DestsBefore(Insts', k) + d <= FLSize
    OBVIOUS
  <2>1. k \in Nat /\ DestsBefore(Insts', k) \in Nat
    BY <1>6, DestsFinite
  <2>2. DestsBefore(Insts, k + 1) = DestsBefore(Insts', k) + d
    BY <1>4, <1>6, DestsShift
  <2>3. DestsBefore(Insts, k + 1) <= DestsBefore(Insts, FlightSize)
        /\ DestsBefore(Insts, k + 1) \in Nat
    BY <1>5, <1>6, DestsMonotone, DestsFinite
  <2>4. DestsBefore(Insts, FlightSize) \in 0 .. FLSize /\ FLSize \in Nat
    BY <1>1, AllocatedSlots, SizesPositive
  <2>5. QED
    BY <2>1, <2>2, <2>3, <2>4
<1>8. \A k \in 0 .. FlightSize' : \A l \in Log : \A p :
        MappedBefore(Insts, amt, k + 1, l, p) => MappedBefore(Insts', amt', k, l, p)
  <2> SUFFICES ASSUME NEW k \in 0 .. FlightSize', NEW l \in Log, NEW p,
                      MappedBefore(Insts, amt, k + 1, l, p)
               PROVE  MappedBefore(Insts', amt', k, l, p)
    OBVIOUS
  <2>1. k \in Nat /\ \A j \in 0 .. k - 1 : Insts'[j] = Insts[j + 1]
    BY <1>6
  <2>2. amt'[l] = IF Insts[0].logical = l THEN Insts[0].physical ELSE amt[l]
    BY <1>3, <1>4
  <2>3. QED
    BY <2>1, <2>2, MappedShift
<1>9. /\ FlightSize' \in 0 .. FlightSize'
      /\ \A k \in Flight' : k \in 0 .. FlightSize' /\ k + 1 \in 0 .. FlightSize'
  <2>1. FlightSize' \in Nat /\ Flight' = 0 .. FlightSize' - 1
    BY <1>5
  <2>2. \A n \in Nat : /\ n \in 0 .. n
                      /\ \A k \in 0 .. n - 1 : k \in 0 .. n /\ k + 1 \in 0 .. n
    OBVIOUS
  <2>3. QED
    BY <2>1, <2>2
<1>10. RegistersConserved'
  <2>1. CASE ~ HasDest(u)
    <3>1. flList' = flList /\ \A l \in Log : amt'[l] = amt[l]
      BY <1>3, <2>1, SizesPositive DEF HasDest
    <3>2. QED
      BY <1>1, <3>1 DEF RegistersConserved
  <2>2. CASE HasDest(u)
    <3>1. /\ u.logical \in Log /\ flTail \in FLIndex /\ flList \in [FLIndex -> Phys]
          /\ \A l \in Log : amt'[l] = IF l = u.logical THEN flList[flTail] ELSE amt[l]
          /\ \A i \in FLIndex :
               flList'[i] = IF i = flTail THEN amt[u.logical] ELSE flList[i]
      BY <1>1, <1>3, <2>2 DEF TypeOK
    <3>2. QED
      BY <1>1, <3>1 DEF RegistersConserved
  <2>3. QED
    BY <2>1, <2>2
<1>11. AllocationOrder'
  <2>1. FreeRegs' + DestsBefore(Insts', FlightSize') = FLSize
    <3>1. FreeRegs + DestsBefore(Insts, FlightSize) = FLSize /\ FreeRegs \in Int
          /\ FLSize \in Nat
      BY <1>1, SizesPositive DEF AllocationOrder, Ranges
    <3>2. /\ DestsBefore(Insts', FlightSize') \in Nat
          /\ DestsBefore(Insts, FlightSize) = DestsBefore(Insts', FlightSize') + d
      BY <1>5, <1>7, <1>9
    <3>3. QED
      BY <1>3, <1>5, <3>1, <3>2
  <2>2. ASSUME NEW k \in Flight', HasDest(Insts'[k]),
               NEW m, m = DestsBefore(Insts', k)
        PROVE  Insts'[k].physical = flList'[Slot(m)']
    <3>1. /\ k + 1 \in Flight /\ Insts'[k] = Insts[k + 1]
          /\ DestsBefore(Insts, k + 1) = m + d
          /\ m \in Nat /\ m + d <= FLSize
      BY <1>4, <1>7, <1>9, <2>2
    <3>2. Insts'[k].physical = flList[Slot(m + d)] /\ m + d \in 0 .. FLSize - 1
      BY <1>1, <2>2, <3>1, AllocatedSlots DEF AllocationOrder
    <3>3. Slot(m)' = Slot(m + d)
      BY <1>3, <3>1
    <3>4. flList'[Slot(m + d)] = flList[Slot(m + d)]
      <4>1. CASE ~ HasDest(u)
        BY <1>3, <4>1
      <4>2. CASE HasDest(u)
        <5>1. m + d # 0 /\ 0 \in 0 .. FLSize - 1
          BY <3>1, <4>2, SizesPositive
        <5>2. Slot(m + d) # flTail /\ Slot(m + d) \in FLIndex
          BY <1>1, <3>2, <5>1, FreeListRing, SizesPositive
        <5>3. QED
          BY <1>1, <1>3, <4>2, <5>2 DEF TypeOK
      <4>3. QED
        BY <4>1, <4>2
    <3>5. QED
      BY <3>2, <3>3, <3>4
  <2>3. QED
    BY <2>1, <2>2 DEF AllocationOrder, FLSize
<1>12. RenameMapPrecise'
  BY <1>1, <1>2, <1>5, <1>8, <1>9 DEF RenameMapPrecise
<1>13. SourcesPrecise'
  <2>1. ASSUME NEW k \in Flight', Insts'[k].src # Invalid
        PROVE  MappedBefore(Insts', amt', k, Insts'[k].src, Insts'[k].psrc)
    <3>1. k + 1 \in Flight /\ Insts'[k] = Insts[k + 1] /\ k \in 0 .. FlightSize'
      BY <1>4, <1>9
    <3>2. Insts[k + 1].src \in Log
      BY <1>5, <2>1, <3>1 DEF Uop
    <3>3. MappedBefore(Insts, amt, k + 1, Insts[k + 1].src, Insts[k + 1].psrc)
      BY <1>1, <2>1, <3>1 DEF SourcesPrecise
    <3>4. QED
      BY <1>8, <3>1, <3>2, <3>3
  <2>2. QED
    BY <2>1 DEF SourcesPrecise
<1>14. 0 \notin Pending /\ 0 \notin Unresolved
  <2>1. ~ exec[alHead].valid
    BY <1>1, <1>2 DEF HeadCompleted, PipeMatchesActiveList, TypeOK
  <2>2. 0 < Used
    BY <1>1, <1>4, ActiveListRing, SizesPositive
  <2>3. QED
    BY <1>4, <2>1, <2>2 DEF Pending, Unresolved, InPipeAt
<1>15. /\ \A k \in Flight' : /\ k \in Pending' <=> k + 1 \in Pending
                             /\ k \in Unresolved' <=> k + 1 \in Unresolved
       /\ \A k \in Pending' : k \in Flight' /\ k + 1 \in Pending
       /\ \A k \in Unresolved' : k \in Flight' /\ k + 1 \in Unresolved
       /\ Unresolved \in SUBSET Nat /\ Unresolved' \in SUBSET Nat
  <2>1. \A k \in Flight' : k \in Pending' <=> k + 1 \in Pending
    BY <1>4 DEF Pending
  <2>2. \A k \in Flight' : k \in Unresolved' <=> k + 1 \in Unresolved
    BY <1>4, <2>1 DEF Unresolved
  <2>3. \A k \in Pending' : k \in Flight'
    BY DEF Pending
  <2>4. \A k \in Unresolved' : k \in Flight'
    BY <2>3 DEF Unresolved
  <2>5. Unresolved \in SUBSET Nat
    BY <1>1, IndexSets
  <2>6. QED
    BY <1>4, <2>1, <2>2, <2>3, <2>4, <2>5
<1>16. \A k \in 0 .. FlightSize' :
         IDsBefore(Insts, Unresolved, k + 1) = IDsBefore(Insts', Unresolved', k)
  <2> SUFFICES ASSUME NEW k \in 0 .. FlightSize'
               PROVE  IDsBefore(Insts, Unresolved, k + 1)
                        = IDsBefore(Insts', Unresolved', k)
    OBVIOUS
  <2>1. /\ k \in Nat
        /\ \A j \in 0 .. k - 1 : /\ Insts'[j] = Insts[j + 1]
                                 /\ (j \in Unresolved' <=> j + 1 \in Unresolved)
    BY <1>6, <1>15
  <2>2. QED
    BY <1>14, <1>15, <2>1, IDsShift
<1>17. CheckpointsPrecise'
  <2>1. ASSUME NEW k \in Unresolved', NEW c, c = checkpoints'[Insts'[k].branch_ID],
               NEW m, m = DestsBefore(Insts', k + 1)
        PROVE  /\ \A l \in Log :
                    MappedBefore(Insts', amt', k + 1, l, c.shadow_map_table[l])
               /\ c.free_list_head = Slot(m)'
               /\ c.free_list_head_phase = SlotPhase(m)'
    <3>1. /\ k + 1 \in Unresolved /\ k + 1 \in 0 .. FlightSize'
          /\ Insts'[k] = Insts[k + 1] /\ k \in Flight'
      BY <1>4, <1>9, <1>15
    <3>2. /\ \A l \in Log : MappedBefore(Insts, amt, (k + 1) + 1, l,
                                         c.shadow_map_table[l])
          /\ c.free_list_head = Slot(DestsBefore(Insts, (k + 1) + 1))
          /\ c.free_list_head_phase = SlotPhase(DestsBefore(Insts, (k + 1) + 1))
      BY <1>1, <1>2, <2>1, <3>1 DEF CheckpointsPrecise
    <3>3. DestsBefore(Insts, (k + 1) + 1) = m + d /\ m \in Nat /\ m + d <= FLSize
      BY <1>7, <2>1, <3>1
    <3>4. Slot(m)' = Slot(m + d) /\ SlotPhase(m)' = SlotPhase(m + d)
      BY <1>3, <3>3
    <3>5. \A l \in Log :
            MappedBefore(Insts', amt', k + 1, l, c.shadow_map_table[l])
      BY <1>8, <3>1, <3>2
    <3>6. QED
      BY <3>2, <3>3, <3>4, <3>5
  <2>2. QED
    BY <2>1 DEF CheckpointsPrecise
<1>18. BranchMasksPrecise'
  <2>1. GBM' = IDsBefore(Insts', Unresolved', FlightSize')
    BY <1>1, <1>2, <1>5, <1>9, <1>16 DEF BranchMasksPrecise
  <2>2. ASSUME NEW j \in Unresolved', NEW k \in Unresolved', j # k
        PROVE  Insts'[j].branch_ID # Insts'[k].branch_ID
    <3>1. /\ j + 1 \in Unresolved /\ Insts'[j] = Insts[j + 1]
          /\ k + 1 \in Unresolved /\ Insts'[k] = Insts[k + 1]
          /\ j \in Nat /\ k \in Nat
      BY <1>4, <1>15
    <3>2. j + 1 # k + 1
      BY <2>2, <3>1
    <3>3. QED
      BY <1>1, <3>1, <3>2 DEF BranchMasksPrecise
  <2>3. ASSUME NEW k \in Pending'
        PROVE  MaskAt(k)' = IDsBefore(Insts', Unresolved', k)
    BY <1>1, <1>4, <1>9, <1>15, <1>16 DEF BranchMasksPrecise
  <2>4. ASSUME NEW k \in Unresolved'
        PROVE  checkpoints'[Insts'[k].branch_ID].gbm
                 = IDsBefore(Insts', Unresolved', k + 1)
    <3>1. k \in Flight' /\ k + 1 \in Unresolved /\ k + 1 \in 0 .. FlightSize'
          /\ Insts'[k] = Insts[k + 1]
      BY <1>4, <1>9, <1>15
    <3>2. QED
      BY <1>1, <1>2, <1>16, <3>1 DEF BranchMasksPrecise
  <2>5. QED
    BY <2>1, <2>2, <2>3, <2>4 DEF BranchMasksPrecise
<1>19. PipeMatchesActiveList'
  <2>1. /\ alHead \in 0 .. NActive - 1 /\ alTail \in 0 .. NActive - 1
        /\ ALIndex = 0 .. NActive - 1 /\ NActive \in Nat \ {0}
        /\ alHeadPhase \in {0, 1} /\ alTailPhase \in {0, 1}
        /\ FreeEntries \in 0 .. NActive - 1
        /\ alTail' = alTail /\ alTailPhase' = alTailPhase
        /\ alHead' = NextIndex(alHead, NActive)
        /\ alHeadPhase' = NextPhase(alHead, alHeadPhase, NActive)
    BY <1>1, <1>2, SizesPositive DEF HeadCompleted, RetireHead, TypeOK, Ranges, Phase
  <2>2. \A i \in ALIndex : i # alHead => (InFlight(i)' <=> InFlight(i))
    BY <2>1 DEF InFlight, FreeEntries, NextIndex, NextPhase
  <2>3. ASSUME NEW i \in ALIndex
        PROVE  exec'[i].valid <=> InFlight(i)' /\ ~ alList'[i].completed
    BY <1>1, <1>2, <2>2 DEF PipeMatchesActiveList, HeadCompleted
  <2>4. QED
    BY <2>3 DEF PipeMatchesActiveList, ALIndex
<1>20. QED
  BY <1>3, <1>4, <1>10, <1>11, <1>12, <1>13, <1>17, <1>18, <1>19
     DEF IInv, Ranges, FLSize

(* With nothing in flight the maps agree and every register is in the       *)
(* committed map or on the free list.                                       *)
LEMMA NothingInFlight ==
  ASSUME TypeOK, FlightSize = 0, Flight = {}, rmt = amt,
         FreeRegs = FLSize, FreeEntries \in 0 .. NActive, GBM = {},
         RegistersConserved,
         \A i \in ALIndex : ~ exec[i].valid /\ ~ InFlight(i)
  PROVE  IInv
<1>1. DestsBefore(Insts, FlightSize) = 0
  BY DestsZero
<1>2. Ranges /\ AllocationOrder
  BY <1>1, SizesPositive DEF Ranges, AllocationOrder
<1>3. RenameMapPrecise
  BY MappedZero DEF RenameMapPrecise
<1>4. Pending = {} /\ Unresolved = {}
  BY DEF Pending, Unresolved
<1>5. BranchMasksPrecise
  BY <1>4 DEF BranchMasksPrecise, IDsBefore
<1>6. QED
  BY <1>2, <1>3, <1>4, <1>5
     DEF IInv, SourcesPrecise, CheckpointsPrecise, PipeMatchesActiveList

LEMMA SquashStep ==
  ASSUME IInv, TypeOK', Squash
  PROVE  IInv'
<1>1. TypeOK /\ RegistersConserved
  BY DEF IInv
<1>2. FreeEntries' = NActive /\ FlightSize' = 0 /\ Flight' = {}
  BY <1>1, SquashFlight
<1>3. /\ FLSize \in Nat \ {0} /\ NActive \in Nat \ {0}
      /\ flTail \in Int /\ flTailPhase \in {0, 1} /\ alHead \in Int
      /\ ALIndex = 0 .. NActive - 1
      /\ flTail' = flTail /\ flTailPhase' = flTailPhase
      /\ flHead' = flTail /\ flHeadPhase' = 1 - flTailPhase
      /\ alHead' = alHead /\ alHeadPhase' = alHeadPhase
      /\ alTail' = alHead /\ alTailPhase' = alHeadPhase
  BY <1>1, SizesPositive DEF Squash, TypeOK, FLIndex, Phase
<1>4. FreeRegs' = FLSize
  BY <1>3 DEF FreeRegs, FLSize
<1>5. rmt' = amt' /\ GBM' = {} /\ RegistersConserved'
  BY <1>1 DEF Squash, RegistersConserved
<1>6. \A i \in ALIndex : ~ exec'[i].valid /\ ~ InFlight(i)'
  BY <1>3 DEF Squash, NotInPipe, InFlight
<1>7. DestsBefore(Insts', 0) = 0
  BY DestsZero
<1>8. /\ Ranges' /\ AllocationOrder'
  BY <1>2, <1>3, <1>4, <1>7 DEF Ranges, AllocationOrder, FLSize
<1>9. RenameMapPrecise'
  BY <1>2, <1>5, MappedZero DEF RenameMapPrecise
<1>10. Pending' = {} /\ Unresolved' = {}
  BY <1>2 DEF Pending, Unresolved
<1>11. BranchMasksPrecise'
  BY <1>5, <1>10 DEF BranchMasksPrecise, IDsBefore
<1>12. SourcesPrecise' /\ CheckpointsPrecise' /\ PipeMatchesActiveList'
  BY <1>2, <1>6, <1>10
     DEF SourcesPrecise, CheckpointsPrecise, PipeMatchesActiveList, ALIndex
<1>13. QED
  BY <1>5, <1>8, <1>9, <1>11, <1>12 DEF IInv

----------------------------------------------------------------------------

LEMMA InvariantInit == Init => IInv
<1> SUFFICES ASSUME Init PROVE IInv
  OBVIOUS
<1>1. TypeOK
  BY TypeInit
<1>2. /\ FLSize \in Nat \ {0} /\ NActive \in Nat \ {0}
      /\ NLog \in Nat \ {0} /\ NPhys \in Nat
      /\ flHead = 0 /\ flTail = 0 /\ flHeadPhase = 0 /\ flTailPhase = 1
      /\ alHead = 0 /\ alTail = 0 /\ alHeadPhase = 0 /\ alTailPhase = 0
      /\ latch = <<>>
  BY SizesPositive, RenamerAssumption DEF Init
<1>3. FreeRegs = FLSize /\ FreeEntries = NActive
  BY <1>2 DEF FreeRegs, FreeEntries
<1>4. FlightSize = 0 /\ Flight = {}
  BY <1>2, <1>3 DEF FlightSize, Flight, Used
<1>5. RegistersConserved
  BY <1>2 DEF Init, RegistersConserved, Log, FLIndex, FLSize
<1>6. \A i \in ALIndex : ~ exec[i].valid /\ ~ InFlight(i)
  BY <1>2, SizesPositive DEF Init, NotInPipe, InFlight
<1>7. QED
  BY <1>1, <1>2, <1>3, <1>4, <1>5, <1>6, NothingInFlight DEF Init

LEMMA InvariantStep == IInv /\ [Next]_vars => IInv'
<1> SUFFICES ASSUME IInv, [Next]_vars PROVE IInv'
  OBVIOUS
<1>1. TypeOK'
  BY TypeStep DEF IInv
<1>2. CASE Next
  BY <1>1, <1>2, RenameStep, DispatchStep, MarkFaultStep, CompleteStep,
     ResolveCorrectStep, ResolveMispredictStep, CommitStep, SquashStep DEF Next
<1>3. CASE UNCHANGED vars
  <2>1. UNCHANGED <<mapVars, flVars, brVars>> /\ UNCHANGED <<alVars, latch, exec>>
    BY <1>3 DEF vars
  <2>2. /\ alHead' = alHead /\ alTail' = alTail /\ alHeadPhase' = alHeadPhase
        /\ alTailPhase' = alTailPhase /\ alList' = alList
        /\ latch' = latch /\ exec' = exec
    BY <2>1 DEF alVars
  <2>3. TypeOK /\ Ranges
    BY DEF IInv
  <2>4. /\ Used' = Used /\ FlightSize' = FlightSize /\ Flight' = Flight
        /\ Insts' = Insts /\ FreeEntries' = FreeEntries
        /\ \A k : Entry(k)' = Entry(k)
    BY <2>2, <2>3, SameFlight
  <2>5. \A k \in Flight : /\ MaskAt(k)' = MaskAt(k)
                          /\ InPipeAt(k)' <=> InPipeAt(k)
    BY <2>2, <2>4 DEF MaskAt, InPipeAt
  <2>6. /\ RegistersConserved' /\ AllocationOrder' /\ RenameMapPrecise'
        /\ SourcesPrecise' /\ (FreeRegs \in 0 .. FLSize)'
    BY <2>1, <2>4, MapsKept
  <2>7. CheckpointsPrecise' /\ BranchMasksPrecise'
    BY <2>1, <2>4, <2>5, BranchesKept
  <2>8. PipeMatchesActiveList'
    BY <2>2 DEF IInv, PipeMatchesActiveList, InFlight, ALIndex
  <2>9. Ranges'
    BY <2>3, <2>4, <2>6 DEF Ranges
  <2>10. QED
    BY <1>1, <2>6, <2>7, <2>8, <2>9 DEF IInv
<1>4. QED
  BY <1>2, <1>3

----------------------------------------------------------------------------
(* The inductive invariant holds in every reachable state, for any number   *)
(* of registers, checkpoints and Active List entries.                       *)
THEOREM InvariantHolds == Spec => []IInv
  BY InvariantInit, InvariantStep, PTL DEF Spec

(* renamer.cc rename_rdst, commit, resolve, squash: no physical register is *)
(* leaked or given out twice by any interleaving of renames, rollbacks,     *)
(* commits and squashes.                                                    *)
THEOREM RegistersAlwaysConserved == Spec => []RegistersConserved
<1>1. IInv => RegistersConserved
  BY DEF IInv
<1>2. QED
  BY <1>1, InvariantHolds, PTL

(* renamer.cc rename_rdst, resolve, squash: the free list holds the         *)
(* destinations in flight in program order, so a rollback is a pointer move. *)
THEOREM AllocationAlwaysInOrder == Spec => []AllocationOrder
<1>1. IInv => AllocationOrder
  BY DEF IInv
<1>2. QED
  BY <1>1, InvariantHolds, PTL

(* renamer.cc rename_rdst, resolve, squash: the RMT is what program order   *)
(* says, after every rollback too.                                          *)
THEOREM RenameMapAlwaysPrecise == Spec => []RenameMapPrecise
<1>1. IInv => RenameMapPrecise
  BY DEF IInv
<1>2. QED
  BY <1>1, InvariantHolds, PTL

(* rename.cc rename2: the register an instruction reads is the one program  *)
(* order gives it for as long as it is in flight.                           *)
THEOREM SourcesAlwaysPrecise == Spec => []SourcesPrecise
<1>1. IInv => SourcesPrecise
  BY DEF IInv
<1>2. QED
  BY <1>1, InvariantHolds, PTL

(* renamer.cc checkpoint, resolve: a checkpoint stays good until its branch *)
(* is resolved.                                                             *)
THEOREM CheckpointsAlwaysPrecise == Spec => []CheckpointsPrecise
<1>1. IInv => CheckpointsPrecise
  BY DEF IInv
<1>2. QED
  BY <1>1, InvariantHolds, PTL

(* renamer.cc checkpoint, resolve and squash.cc resolve: branch bits are    *)
(* reused without ever naming two branches.                                 *)
THEOREM BranchMasksAlwaysPrecise == Spec => []BranchMasksPrecise
<1>1. IInv => BranchMasksPrecise
  BY DEF IInv
<1>2. QED
  BY <1>1, InvariantHolds, PTL

(* squash.cc resolve and renamer.cc resolve: what is squashed by mask is    *)
(* what is cut off the Active List.                                         *)
THEOREM PipeAlwaysMatchesActiveList == Spec => []PipeMatchesActiveList
<1>1. IInv => PipeMatchesActiveList
  BY DEF IInv
<1>2. QED
  BY <1>1, InvariantHolds, PTL

(* renamer.cc rename_rdst, commit: the renamer never reaches its own fatal  *)
(* exits.                                                                   *)
THEOREM NeverFatalExit == Spec => []NoFatalExit
<1>1. ASSUME IInv PROVE NoFatalExit
  <2>1. /\ TypeOK /\ Ranges /\ RegistersConserved /\ AllocationOrder
        /\ RenameMapPrecise
    BY <1>1 DEF IInv
  <2>2. FreeRegs > 0 => \A l \in Log : rmt[l] # flList[flHead]
                                       /\ amt[l] # flList[flHead]
    BY <2>1, NextRegisterIsNew
  <2>3. ASSUME FreeEntries < NActive, HasDest(alList[alHead].uop)
        PROVE  FreeRegs < FLSize
    <3>1. /\ NActive \in Nat \ {0} /\ alHead \in 0 .. NActive - 1
          /\ FreeEntries \in 0 .. NActive
      BY <2>1, SizesPositive DEF TypeOK, Ranges
    <3>2. Used \in Nat /\ 0 < Used /\ Entry(0) = alHead
      BY <2>3, <3>1 DEF Used, Entry
    <3>3. /\ Flight = 0 .. FlightSize - 1 /\ FlightSize \in Nat
          /\ FlightSize = Used + Len(latch) /\ Len(latch) \in Nat
          /\ \A k \in Flight : Insts[k] = InstAt(k)
      BY <2>1, FlightTyped
    <3>4. 0 \in Flight /\ 0 < FlightSize
      BY <3>2, <3>3
    <3>5. Insts[0] = alList[alHead].uop
      BY <3>2, <3>3, <3>4 DEF InstAt
    <3>6. DestsBefore(Insts, 0) < DestsBefore(Insts, FlightSize)
      BY <2>3, <3>3, <3>4, <3>5, DestsStrict
    <3>7. /\ DestsBefore(Insts, 0) = 0 /\ DestsBefore(Insts, FlightSize) \in Nat
          /\ FreeRegs + DestsBefore(Insts, FlightSize) = FLSize
          /\ FreeRegs \in Int /\ FLSize \in Int
      <4>1. DestsBefore(Insts, 0) = 0
        BY DestsZero
      <4>2. DestsBefore(Insts, FlightSize) \in Nat
        BY <3>3, DestsFinite
      <4>3. QED
        BY <2>1, <4>1, <4>2, SizesPositive DEF AllocationOrder, Ranges
    <3>8. QED
      BY <3>6, <3>7
  <2>4. QED
    BY <2>1, <2>2, <2>3 DEF NoFatalExit, Ranges
<1>2. QED
  BY <1>1, InvariantHolds, PTL

----------------------------------------------------------------------------
(* The renamer implements RegisterMapping: read from the head of the Active *)
(* List to the end of the DISPATCH latch, the instructions in flight are a  *)
(* sequence in which each names the register that program order gives it,   *)
(* and every step of the renamer is a step of that sequence or leaves it    *)
(* alone.                                                                   *)
Operation == [logical  : Log \cup {Invalid}, physical : Phys \cup {Invalid},
              src      : Log \cup {Invalid}, psrc     : Phys \cup {Invalid},
              branch   : BOOLEAN]

(* The sequence of RegisterMapping, place by place.                         *)
Sequenced ==
  /\ FlightSize \in Nat
  /\ FlightSeq \in Seq(Operation) /\ Len(FlightSeq) = FlightSize
  /\ \A k \in 1 .. FlightSize : k - 1 \in Flight
                                /\ FlightSeq[k] = Mapped(Insts[k - 1])

----------------------------------------------------------------------------
LEMMA SameSequence ==
  ASSUME NEW S, NEW s \in Seq(S), NEW t \in Seq(S), Len(s) = Len(t),
         \A i \in 1 .. Len(s) : s[i] = t[i]
  PROVE  s = t
  BY SeqEqual

LEMMA FunctionIsSeq ==
  ASSUME NEW n \in Nat, NEW S, NEW f \in [1 .. n -> S]
  PROVE  f \in Seq(S) /\ Len(f) = n
  BY SMT

LEMMA MappedTyped == ASSUME NEW u \in Uop PROVE Mapped(u) \in Operation
  BY DEF Uop, Mapped, Operation, IsBranch

LEMMA FlightSequence == TypeOK /\ Ranges => Sequenced
<1> SUFFICES ASSUME TypeOK, Ranges PROVE Sequenced
  OBVIOUS
<1>1. /\ FlightSize \in Nat /\ Len(latch) \in Nat
      /\ FlightSize = Used + Len(latch)
      /\ Flight = 0 .. FlightSize - 1
      /\ Insts \in [Flight -> Uop]
      /\ \A k \in Flight : Insts[k] = InstAt(k)
  BY FlightTyped
<1>2. Used \in 0 .. NActive /\ NActive \in Nat
  BY ActiveListRing, SizesPositive
<1>3. PICK a : a = [k \in 1 .. Used |-> Mapped(alList[Entry(k - 1)].uop)]
  OBVIOUS
<1>4. PICK b : b = [k \in DOMAIN latch |-> Mapped(latch[k].uop)]
  OBVIOUS
<1>5. \A k \in 1 .. Used : /\ k - 1 \in Flight
                           /\ Insts[k - 1] = alList[Entry(k - 1)].uop
  BY <1>1, <1>2 DEF InstAt
<1>6. a \in [1 .. Used -> Operation]
  BY <1>1, <1>3, <1>5, MappedTyped
<1>7. a \in Seq(Operation) /\ Len(a) = Used
  BY <1>2, <1>6, FunctionIsSeq
<1>8. DOMAIN latch = 1 .. Len(latch) /\ latch \in Seq(Latched)
  BY DEF TypeOK
<1>9. \A k \in 1 .. Len(latch) : /\ Used + k - 1 \in Flight
                                 /\ Insts[Used + k - 1] = latch[k].uop
  BY <1>1, <1>2 DEF InstAt
<1>10. b \in [1 .. Len(latch) -> Operation]
  BY <1>1, <1>4, <1>8, <1>9, MappedTyped
<1>11. b \in Seq(Operation) /\ Len(b) = Len(latch)
  BY <1>1, <1>10, FunctionIsSeq
<1>12. FlightSeq = a \o b
  BY <1>3, <1>4 DEF FlightSeq
<1>13. /\ FlightSeq \in Seq(Operation) /\ Len(FlightSeq) = Len(a) + Len(b)
       /\ \A k \in 1 .. Len(a) + Len(b) :
            FlightSeq[k] = IF k <= Len(a) THEN a[k] ELSE b[k - Len(a)]
  BY <1>7, <1>11, <1>12, ConcatProperties
<1>14. ASSUME NEW k \in 1 .. FlightSize
       PROVE  k - 1 \in Flight /\ FlightSeq[k] = Mapped(Insts[k - 1])
  <2>1. k - 1 \in Flight
    BY <1>1
  <2>2. CASE k <= Used
    <3>1. k \in 1 .. Used /\ FlightSeq[k] = a[k]
      BY <1>1, <1>2, <1>7, <1>11, <1>13, <2>2
    <3>2. QED
      BY <1>3, <1>5, <2>1, <3>1
  <2>3. CASE ~ (k <= Used)
    <3>1. k - Used \in 1 .. Len(latch) /\ Used + (k - Used) - 1 = k - 1
      BY <1>1, <1>2, <2>3
    <3>2. FlightSeq[k] = b[k - Used]
      BY <1>1, <1>2, <1>7, <1>11, <1>13, <2>3
    <3>3. QED
      BY <1>4, <1>8, <1>9, <2>1, <3>1, <3>2
  <2>4. QED
    BY <2>2, <2>3
<1>15. QED
  BY <1>1, <1>7, <1>11, <1>13, <1>14 DEF Sequenced

LEMMA FlightSequences == IInv /\ IInv' => Sequenced /\ Sequenced'
<1>1. (TypeOK /\ Ranges => Sequenced)'
  BY FlightSequence, PTL
<1>2. QED
  BY <1>1, FlightSequence DEF IInv

(* When nothing is added, dropped or renamed, the sequence stays.           *)
LEMMA SameFlightSeq ==
  ASSUME Sequenced, Sequenced', FlightSize' = FlightSize, Insts' = Insts
  PROVE  FlightSeq' = FlightSeq
<1>1. /\ FlightSeq \in Seq(Operation) /\ FlightSeq' \in Seq(Operation)
      /\ Len(FlightSeq) = FlightSize /\ Len(FlightSeq') = FlightSize'
  BY DEF Sequenced
<1>2. \A k \in 1 .. FlightSize' : FlightSeq'[k] = Mapped(Insts'[k - 1])
  BY DEF Sequenced, Mapped, IsBranch
<1>3. \A k \in 1 .. FlightSize : FlightSeq[k] = Mapped(Insts[k - 1])
  BY DEF Sequenced
<1>4. QED
  BY <1>1, <1>2, <1>3, SameSequence

----------------------------------------------------------------------------
(* The RMT is what RegisterMapping reads off the sequence.                  *)
LEMMA MapIsCurrent ==
  ASSUME IInv, NEW s \in Log
  PROVE  Abstract!Current(FlightSeq, s) = rmt[s]
<1>1. Sequenced /\ MappedBefore(Insts, amt, FlightSize, s, rmt[s])
  BY FlightSequence DEF IInv, RenameMapPrecise
<1>2. /\ FlightSize \in Nat /\ DOMAIN FlightSeq = 1 .. FlightSize
      /\ \A k \in 1 .. FlightSize :
           /\ FlightSeq[k].logical = Insts[k - 1].logical
           /\ FlightSeq[k].physical = Insts[k - 1].physical
  BY <1>1 DEF Sequenced, Mapped
<1> DEFINE W == {k \in DOMAIN FlightSeq : FlightSeq[k].logical = s}
<1>3. CASE /\ \A j \in 0 .. FlightSize - 1 : Insts[j].logical # s
           /\ rmt[s] = amt[s]
  <2>1. \A k \in 1 .. FlightSize : k - 1 \in 0 .. FlightSize - 1
    BY <1>2
  <2>2. W = {}
    BY <1>2, <1>3, <2>1
  <2>3. QED
    BY <1>3, <2>2 DEF Abstract!Current
<1>4. ASSUME NEW j \in 0 .. FlightSize - 1, Insts[j].logical = s,
             \A i \in j + 1 .. FlightSize - 1 : Insts[i].logical # s,
             rmt[s] = Insts[j].physical
      PROVE  Abstract!Current(FlightSeq, s) = rmt[s]
  <2>1. j + 1 \in 1 .. FlightSize /\ j + 1 - 1 = j
    BY <1>2
  <2>2. j + 1 \in W
    BY <1>2, <1>4, <2>1
  <2>3. ASSUME NEW k \in W PROVE k \in Nat /\ k <= j + 1
    <3>1. k \in 1 .. FlightSize /\ Insts[k - 1].logical = s
      BY <1>2
    <3>2. k - 1 \notin j + 1 .. FlightSize - 1
      BY <1>4, <3>1
    <3>3. QED
      BY <1>2, <3>1, <3>2
  <2>4. Abstract!Youngest(W) = j + 1
    <3>1. /\ Abstract!Youngest(W) \in W
          /\ \A k \in W : k <= Abstract!Youngest(W)
      BY <2>2, <2>3 DEF Abstract!Youngest
    <3>2. /\ Abstract!Youngest(W) \in Nat /\ Abstract!Youngest(W) <= j + 1
          /\ j + 1 <= Abstract!Youngest(W)
      BY <2>2, <2>3, <3>1
    <3>3. QED
      BY <2>1, <3>2
  <2>5. QED
    BY <1>2, <1>4, <2>1, <2>2, <2>4 DEF Abstract!Current
<1>5. QED
  BY <1>1, <1>3, <1>4 DEF MappedBefore

(* The next free register is one that nobody can name.                      *)
LEMMA NextRegisterIsUnused ==
  ASSUME IInv, FreeRegs > 0
  PROVE  flList[flHead] \in Abstract!Unused(FlightSeq)
<1>1. /\ TypeOK /\ Ranges /\ RegistersConserved /\ AllocationOrder /\ Sequenced
      /\ RenameMapPrecise
  BY FlightSequence DEF IInv
<1> DEFINE D == DestsBefore(Insts, FlightSize)
<1>2. /\ D \in 0 .. FLSize - 1 /\ flHead = Slot(D) /\ flHead \in FLIndex
      /\ flList[flHead] \in Phys
  BY <1>1, AllocatedSlots, SizesPositive DEF AllocationOrder, Ranges, TypeOK
<1>3. ASSUME NEW j \in Flight PROVE Insts[j].physical # flList[flHead]
  <2>1. CASE HasDest(Insts[j])
    <3>1. /\ DestsBefore(Insts, j) \in 0 .. FLSize - 1
          /\ DestsBefore(Insts, j) < D
          /\ Insts[j].physical = flList[Slot(DestsBefore(Insts, j))]
      BY <1>1, <2>1, AllocatedSlots DEF AllocationOrder
    <3>2. Slot(DestsBefore(Insts, j)) # Slot(D)
          /\ Slot(DestsBefore(Insts, j)) \in FLIndex
      BY <1>1, <1>2, <3>1, FreeListRing, SizesPositive
    <3>3. QED
      BY <1>1, <1>2, <3>1, <3>2 DEF RegistersConserved
  <2>2. CASE ~ HasDest(Insts[j])
    <3>1. Insts[j] \in Uop
      BY <1>1, FlightTyped
    <3>2. Insts[j].physical = Invalid
      BY <2>2, <3>1 DEF Uop, HasDest
    <3>3. QED
      BY <1>2, <3>2, SizesPositive
  <2>3. QED
    BY <2>1, <2>2
<1>4. \A k \in DOMAIN FlightSeq : FlightSeq[k].physical # flList[flHead]
  <2>1. /\ DOMAIN FlightSeq = 1 .. FlightSize
        /\ \A k \in 1 .. FlightSize : k - 1 \in Flight
                   /\ FlightSeq[k].physical = Insts[k - 1].physical
    BY <1>1 DEF Sequenced, Mapped
  <2>2. QED
    BY <1>3, <2>1
<1>5. \A l \in Log : amt[l] # flList[flHead]
  BY <1>1, NextRegisterIsNew
<1>6. QED
  BY <1>2, <1>4, <1>5 DEF Abstract!Unused

----------------------------------------------------------------------------
(* One lemma per action of the sequence.                                    *)
LEMMA RenameMaps ==
  ASSUME IInv, IInv', NEW kind \in UopKinds, Rename(kind)
  PROVE  Abstract!Enter
<1>1. PICK id \in BranchIDs \cup {Invalid} :
        /\ Latch(RenamedUop(kind, id))
        /\ id = Invalid => ~ kind.branch
        /\ id # Invalid => kind.branch
  BY SizesPositive DEF Rename
<1> DEFINE u == RenamedUop(kind, id)
<1>2. TypeOK /\ Ranges /\ Sequenced /\ Sequenced'
  BY FlightSequences DEF IInv
<1>3. UNCHANGED <<alVars, exec>> /\ amt' = amt /\ Len(latch) < DispatchWidth
      /\ (kind.logical # Invalid => FreeRegs > 0)
  BY <1>2, RenameFreeList DEF Rename
<1>4. /\ u \in Uop /\ u.logical = kind.logical
      /\ IsBranch(u) = kind.branch
      /\ u.src = kind.src /\ u.psrc = RenameSource(kind)
      /\ u.physical = IF kind.logical = Invalid THEN Invalid ELSE flList[flHead]
  <2>1. kind.branch \in BOOLEAN
    BY RenamerAssumption DEF AllKinds
  <2>2. u \in Uop
    BY <1>2, RenamedUopType
  <2>3. u.branch_ID = id /\ (u.branch_ID # Invalid <=> kind.branch)
    BY <1>1 DEF RenamedUop
  <2>4. IsBranch(u) = kind.branch
    BY <2>1, <2>3 DEF IsBranch
  <2>5. QED
    BY <2>2, <2>4 DEF RenamedUop
<1>5. /\ kind.logical \in Log \cup {Invalid} /\ kind.src \in Log \cup {Invalid}
      /\ kind.branch \in BOOLEAN
  BY RenamerAssumption DEF AllKinds
<1>6. /\ FlightSize' = FlightSize + 1
      /\ \A k \in Flight : Insts'[k] = Insts[k]
      /\ Insts'[FlightSize] = u
  BY <1>1, <1>2, <1>3, <1>4, RenameFlight
<1>7. /\ FlightSeq \in Seq(Operation) /\ FlightSeq' \in Seq(Operation)
      /\ Len(FlightSeq) = FlightSize /\ Len(FlightSeq') = FlightSize + 1
      /\ FlightSize \in Nat
      /\ \A k \in 1 .. FlightSize : k - 1 \in Flight /\ FlightSeq[k] = Mapped(Insts[k - 1])
  BY <1>2, <1>6 DEF Sequenced
<1>8. \A k \in 1 .. FlightSize + 1 : FlightSeq'[k] = Mapped(Insts'[k - 1])
  BY <1>2, <1>6 DEF Sequenced, Mapped, IsBranch
<1>9. FlightSeq' = Append(FlightSeq, Mapped(u))
  <2>1. Mapped(u) \in Operation
    BY <1>4, MappedTyped
  <2>2. /\ Append(FlightSeq, Mapped(u)) \in Seq(Operation)
        /\ Len(Append(FlightSeq, Mapped(u))) = FlightSize + 1
        /\ \A k \in 1 .. FlightSize : Append(FlightSeq, Mapped(u))[k] = FlightSeq[k]
        /\ Append(FlightSeq, Mapped(u))[FlightSize + 1] = Mapped(u)
    BY <1>7, <2>1, AppendProperties
  <2>3. \A k \in 1 .. FlightSize + 1 :
          FlightSeq'[k] = Append(FlightSeq, Mapped(u))[k]
    <3>1. TAKE k \in 1 .. FlightSize + 1
    <3>2. CASE k \in 1 .. FlightSize
      BY <1>6, <1>7, <1>8, <2>2, <3>2
    <3>3. CASE k = FlightSize + 1
      <4>1. k - 1 = FlightSize
        BY <1>7, <3>3
      <4>2. QED
        BY <1>6, <1>8, <2>2, <3>3, <4>1
    <3>4. QED
      BY <1>7, <3>2, <3>3
  <2>4. QED
    BY <1>7, <2>2, <2>3, SameSequence
<1>10. Mapped(u) =
         [logical |-> kind.logical,
          physical |-> IF kind.logical = Invalid THEN Invalid ELSE flList[flHead],
          src |-> kind.src,
          psrc |-> IF kind.src = Invalid THEN Invalid
                                         ELSE Abstract!Current(FlightSeq, kind.src),
          branch |-> kind.branch]
  <2>1. u.psrc = IF kind.src = Invalid THEN Invalid
                                       ELSE Abstract!Current(FlightSeq, kind.src)
    BY <1>4, <1>5, MapIsCurrent DEF RenameSource
  <2>2. IsBranch(u) \in BOOLEAN /\ IsBranch(u) = kind.branch
    BY <1>4, <1>5 DEF IsBranch
  <2>3. QED
    BY <1>4, <2>1, <2>2 DEF Mapped
<1>11. (IF kind.logical = Invalid THEN Invalid ELSE flList[flHead])
         \in IF kind.logical = Invalid THEN {Invalid} ELSE Abstract!Unused(FlightSeq)
  BY <1>3, NextRegisterIsUnused
<1>12. Len(FlightSeq) < NActive + DispatchWidth
  <2>1. FlightSize = Used + Len(latch) /\ Used \in 0 .. NActive /\ Len(latch) \in Nat
    BY <1>2, FlightTyped, ActiveListRing
  <2>2. QED
    BY <1>3, <1>7, <2>1, RenamerAssumption
<1>13. QED
  BY <1>3, <1>5, <1>9, <1>10, <1>11, <1>12 DEF Abstract!Enter

LEMMA CommitMaps ==
  ASSUME IInv, IInv', Commit
  PROVE  Abstract!Retire
<1> DEFINE u == alList[alHead].uop
<1>1. TypeOK /\ Ranges /\ Sequenced /\ Sequenced' /\ amt \in [Log -> Phys] /\ amt' \in [Log -> Phys]
  BY FlightSequences DEF IInv, TypeOK
<1>2. /\ FlightSize' = FlightSize - 1
      /\ 0 \in Flight /\ Insts[0] = u
      /\ \A k \in Flight' : Insts'[k] = Insts[k + 1]
  BY <1>1, CommitFlight DEF Commit
<1>3. \A l \in Log : amt'[l] = IF u.logical = l THEN u.physical ELSE amt[l]
  BY CommitSwap
<1>4. /\ FlightSeq \in Seq(Operation) /\ FlightSeq' \in Seq(Operation)
      /\ FlightSize \in Nat /\ FlightSize >= 1
      /\ Len(FlightSeq) = FlightSize /\ Len(FlightSeq') = FlightSize - 1
      /\ \A k \in 1 .. FlightSize : FlightSeq[k] = Mapped(Insts[k - 1])
  BY <1>1, <1>2 DEF Sequenced, Flight
<1>5. \A k \in 1 .. FlightSize - 1 : k - 1 \in Flight'
                                     /\ FlightSeq'[k] = Mapped(Insts'[k - 1])
  BY <1>1, <1>2 DEF Sequenced, Mapped, IsBranch
<1>6. FlightSeq # <<>> /\ Head(FlightSeq) = FlightSeq[1] /\ FlightSeq[1] = Mapped(u)
  <2>1. 1 \in 1 .. FlightSize /\ 1 - 1 = 0
    BY <1>4
  <2>2. FlightSeq # <<>>
    BY <1>4, EmptySeq
  <2>3. QED
    BY <1>2, <1>4, <2>1, <2>2, HeadTailProperties
<1>7. FlightSeq' = Tail(FlightSeq)
  <2>1. /\ Tail(FlightSeq) \in Seq(Operation) /\ Len(Tail(FlightSeq)) = FlightSize - 1
        /\ \A k \in 1 .. FlightSize - 1 : Tail(FlightSeq)[k] = FlightSeq[k + 1]
    BY <1>4, <1>6, HeadTailProperties
  <2>2. \A k \in 1 .. FlightSize - 1 : FlightSeq'[k] = Tail(FlightSeq)[k]
    <3>1. TAKE k \in 1 .. FlightSize - 1
    <3>2. k + 1 \in 1 .. FlightSize /\ k + 1 - 1 = k /\ k - 1 + 1 = k
      BY <1>4
    <3>3. Insts'[k - 1] = Insts[k]
      BY <1>2, <1>5, <3>2
    <3>4. QED
      BY <1>4, <1>5, <2>1, <3>2, <3>3
  <2>3. QED
    BY <1>4, <2>1, <2>2, SameSequence
<1>8. amt' = [l \in Log |-> IF l = Head(FlightSeq).logical
                            THEN Head(FlightSeq).physical ELSE amt[l]]
  <2>1. Head(FlightSeq).logical = u.logical /\ Head(FlightSeq).physical = u.physical
    BY <1>6 DEF Mapped
  <2>2. QED
    BY <1>1, <1>3, <2>1
<1>9. QED
  BY <1>6, <1>7, <1>8 DEF Abstract!Retire

LEMMA MispredictMaps ==
  ASSUME IInv, IInv', NEW i \in ALIndex, ResolveMispredict(i)
  PROVE  Abstract!Recover
<1>1. TypeOK /\ Ranges /\ Sequenced /\ Sequenced'
  BY FlightSequences DEF IInv
<1>2. /\ amt' = amt /\ exec[i].valid /\ IsBranch(alList[i].uop)
      /\ alHead' = alHead /\ alHeadPhase' = alHeadPhase /\ latch' = <<>>
      /\ alTail' = NextIndex(i, NActive)
      /\ alTailPhase' = InferTailPhase(alHead, NextIndex(i, NActive), alHeadPhase)
      /\ \A j \in ALIndex : alList'[j].uop = alList[j].uop
  BY <1>1 DEF ResolveMispredict, SetComplete, TypeOK, ALEntry
<1>3. PICK n \in 0 .. Used - 1 :
        i = Entry(n) /\ n \in Flight /\ Insts[n] = alList[i].uop
  BY <1>2, InPipeEntry
<1>4. /\ FlightSize' = n + 1 /\ Flight' = 0 .. n
      /\ \A k \in Flight' : k \in Flight /\ Insts'[k] = Insts[k]
  BY <1>1, <1>2, <1>3, MispredictFlight
<1>5. /\ FlightSeq \in Seq(Operation) /\ FlightSeq' \in Seq(Operation)
      /\ FlightSize \in Nat /\ n + 1 \in 1 .. FlightSize
      /\ Len(FlightSeq) = FlightSize /\ Len(FlightSeq') = n + 1
      /\ \A k \in 1 .. FlightSize : FlightSeq[k] = Mapped(Insts[k - 1])
  BY <1>1, <1>3, <1>4 DEF Sequenced, Flight
<1>6. \A k \in 1 .. n + 1 : k - 1 \in Flight' /\ FlightSeq'[k] = Mapped(Insts'[k - 1])
  BY <1>1, <1>4 DEF Sequenced, Mapped, IsBranch
<1>7. FlightSeq' = SubSeq(FlightSeq, 1, n + 1)
  <2>1. \A k \in 1 .. n + 1 : FlightSeq[k] \in Operation
    BY <1>5, ElementOfSeq
  <2>2. 1 \in Int /\ n + 1 \in Int
    BY <1>5
  <2>3. /\ SubSeq(FlightSeq, 1, n + 1) \in Seq(Operation)
        /\ Len(SubSeq(FlightSeq, 1, n + 1)) =
             IF 1 <= n + 1 THEN n + 1 - 1 + 1 ELSE 0
        /\ \A k \in 1 .. n + 1 - 1 + 1 :
             SubSeq(FlightSeq, 1, n + 1)[k] = FlightSeq[1 + k - 1]
    BY <2>1, <2>2, SubSeqProperties
  <2>4. \A k \in 1 .. n + 1 : FlightSeq'[k] = SubSeq(FlightSeq, 1, n + 1)[k]
    <3>1. TAKE k \in 1 .. n + 1
    <3>2. SubSeq(FlightSeq, 1, n + 1)[k] = FlightSeq[k]
      BY <1>5, <2>3
    <3>3. k \in 1 .. FlightSize
      BY <1>5
    <3>4. QED
      BY <1>4, <1>5, <1>6, <3>2, <3>3
  <2>5. Len(SubSeq(FlightSeq, 1, n + 1)) = n + 1
    BY <1>5, <2>3
  <2>6. QED
    BY <1>5, <2>3, <2>4, <2>5, SameSequence
<1>8. n + 1 \in DOMAIN FlightSeq /\ FlightSeq[n + 1].branch
  <2>1. n + 1 - 1 = n
    BY <1>5
  <2>2. FlightSeq[n + 1] = Mapped(alList[i].uop)
    BY <1>3, <1>5, <2>1
  <2>3. QED
    BY <1>2, <1>5, <2>2 DEF Mapped
<1>9. QED
  BY <1>2, <1>7, <1>8 DEF Abstract!Recover

LEMMA SquashMaps ==
  ASSUME IInv, IInv', Squash
  PROVE  Abstract!Flush
<1>1. Sequenced' /\ FlightSize' = 0 /\ amt' = amt
  BY FlightSequences, SquashFlight DEF IInv, Squash
<1>2. FlightSeq' = <<>>
  BY <1>1, EmptySeq DEF Sequenced
<1>3. QED
  BY <1>1, <1>2 DEF Abstract!Flush

(* Dispatch moves an instruction from the latch to the Active List; writing *)
(* back and marking a fault leave the instructions where they are.          *)
LEMMA FlightKept ==
  ASSUME IInv,
         \/ Dispatch
         \/ \E i \in ALIndex : MarkFault(i) \/ Complete(i) \/ ResolveCorrect(i)
         \/ UNCHANGED vars
  PROVE  FlightSize' = FlightSize /\ Insts' = Insts /\ amt' = amt
<1>1. TypeOK /\ Ranges
  BY DEF IInv
<1>2. CASE Dispatch
  BY <1>1, <1>2, DispatchFlight DEF Dispatch, mapVars
<1>3. ASSUME NEW i \in ALIndex, MarkFault(i) \/ Complete(i) \/ ResolveCorrect(i)
      PROVE  FlightSize' = FlightSize /\ Insts' = Insts /\ amt' = amt
  <2>1. /\ UNCHANGED <<alHead, alTail, alHeadPhase, alTailPhase>> /\ amt' = amt
    BY <1>3 DEF MarkFault, Complete, ResolveCorrect, mapVars
  <2>2. \A j \in ALIndex : alList'[j].uop = alList[j].uop
    <3>1. alList \in [ALIndex -> ALEntry]
      BY <1>1 DEF TypeOK
    <3>2. \/ alList' = [alList EXCEPT ![i].exception = TRUE]
          \/ alList' = [alList EXCEPT ![i].completed = TRUE]
      BY <1>3 DEF MarkFault, Complete, ResolveCorrect, SetComplete
    <3>3. QED
      BY <3>1, <3>2 DEF ALEntry
  <2>3. /\ Len(latch') = Len(latch)
        /\ \A j \in 1 .. Len(latch) : latch'[j].uop = latch[j].uop
    <3>1. CASE latch' = latch
      BY <3>1
    <3>2. ASSUME NEW b, latch' = [k \in DOMAIN latch |->
                   [latch[k] EXCEPT !.branch_mask = ClearBit(@, b)]]
          PROVE  /\ Len(latch') = Len(latch)
                 /\ \A j \in 1 .. Len(latch) : latch'[j].uop = latch[j].uop
      <4>1. latch \in Seq(Latched)
        BY <1>1 DEF TypeOK
      <4>2. Len(latch') = Len(latch)
        BY <3>2, <4>1
      <4>3. \A j \in 1 .. Len(latch) : latch[j] \in Latched
        BY <4>1
      <4>4. QED
        BY <3>2, <4>1, <4>2, <4>3 DEF Latched
    <3>3. QED
      BY <1>3, <3>1, <3>2 DEF MarkFault, Complete, ResolveCorrect
  <2>4. QED
    BY <1>1, <2>1, <2>2, <2>3, SameFlight
<1>4. CASE UNCHANGED vars
  <2>1. /\ UNCHANGED <<alHead, alTail, alHeadPhase, alTailPhase>> /\ amt' = amt
        /\ alList' = alList /\ latch' = latch
    BY <1>4 DEF vars, mapVars, alVars
  <2>2. QED
    BY <1>1, <2>1, SameFlight
<1>5. QED
  BY <1>2, <1>3, <1>4

LEMMA InitMaps == Init => Abstract!Init
<1> SUFFICES ASSUME Init PROVE Abstract!Init
  OBVIOUS
<1>1. IInv /\ Sequenced
  BY InvariantInit, FlightSequence DEF IInv
<1>2. FlightSize = 0
  BY SizesPositive DEF Init, FlightSize, Used, FreeEntries
<1>3. FlightSeq = <<>>
  BY <1>1, <1>2, EmptySeq DEF Sequenced
<1>4. amt \in [Log -> Phys] /\ \A l, m \in Log : l # m => amt[l] # amt[m]
  BY <1>1 DEF IInv, TypeOK, RegistersConserved
<1>5. QED
  BY <1>3, <1>4 DEF Abstract!Init

LEMMA NextMaps ==
  IInv /\ IInv' /\ [Next]_vars => [Abstract!Next]_<<amt, FlightSeq>>
<1> SUFFICES ASSUME IInv, IInv', [Next]_vars
             PROVE  Abstract!Next \/ UNCHANGED <<amt, FlightSeq>>
  OBVIOUS
<1>1. CASE \E kind \in UopKinds : Rename(kind)
  BY <1>1, RenameMaps DEF Abstract!Next
<1>2. CASE \E i \in ALIndex : ResolveMispredict(i)
  BY <1>2, MispredictMaps DEF Abstract!Next
<1>3. CASE Commit
  BY <1>3, CommitMaps DEF Abstract!Next
<1>4. CASE Squash
  BY <1>4, SquashMaps DEF Abstract!Next
<1>5. CASE \/ Dispatch
           \/ \E i \in ALIndex : MarkFault(i) \/ Complete(i) \/ ResolveCorrect(i)
           \/ UNCHANGED vars
  BY <1>5, FlightKept, FlightSequences, SameFlightSeq
<1>6. QED
  BY <1>1, <1>2, <1>3, <1>4, <1>5 DEF Next

(* For every number of registers, checkpoints and Active List entries the   *)
(* renamer implements RegisterMapping: a source is renamed as program order *)
(* demands, a destination is a register that nobody can still name, and a   *)
(* recovery drops exactly what is younger than the branch, in every order   *)
(* of renames, resolutions, commits and squashes (renamer.cc).              *)
THEOREM AlwaysImplementsRegisterMapping == Spec => ImplementsRegisterMapping
<1>1. Spec => Abstract!Init /\ [][Abstract!Next]_<<amt, FlightSeq>>
  BY InitMaps, NextMaps, InvariantHolds, PTL DEF Spec
<1>2. QED
  BY <1>1 DEF ImplementsRegisterMapping, Abstract!Spec, Abstract!mapping

============================================================================
