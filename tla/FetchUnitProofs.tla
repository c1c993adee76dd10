-------------------------- MODULE FetchUnitProofs --------------------------
(***************************************************************************)
(* For every width, every size of the branch queue and of the payload, and *)
(* every depth of the window: the payload, the branch queue and the branch *)
(* history follow the instructions in flight through every recovery, and a *)
(* serializing instruction has the pipeline to itself.                     *)
(*                                                                         *)
(* The invariant has four parts beside the types.  Stopping: who stops the *)
(* fetch unit, and that nothing follows it.  Paying: the payload holds the *)
(* instructions in flight, and a misfetch knows where its bundle begins.   *)
(* BranchQueueInOrder and HistoryPrecise as they are.  Each is restated of *)
(* a head, a tail and a sequence of instructions (PaidFor, InQueue,        *)
(* Recorded), and each action is shown to keep it by what it does to that  *)
(* sequence: pop the first, append a bundle, cut behind a branch, or drop  *)
(* what Fetch2 holds.                                                      *)
(***************************************************************************)
EXTENDS FetchUnitProperties, FiniteSetTheorems, SequenceTheorems,
        WellFoundedInduction, TLAPS

----------------------------------------------------------------------------
(* Numbers.                                                                 *)
LEMMA LeastOf ==
  ASSUME NEW T \in SUBSET Nat, T # {}
  PROVE  \E n \in T : \A m \in T : n <= m
<1>1. PICK n \in T : \A m \in T : ~ (<<m, n>> \in OpToRel(<, Nat))
  BY NatLessThanWellFounded, WFMin
<1>2. \A m \in T : ~ (m < n)
  BY <1>1 DEF OpToRel
<1>3. QED
  BY <1>2

(* What holds at a and is handed on from each number to the next holds      *)
(* from a to b.                                                             *)
LEMMA HandedOn ==
  ASSUME NEW a \in Nat, NEW b \in Nat, NEW T \in SUBSET Nat,
         a \in T, \A k \in T : a <= k /\ k < b => k + 1 \in T
  PROVE  \A k \in a .. b : k \in T
<1> DEFINE U == {k \in a .. b : k \notin T}
<1>1. SUFFICES ASSUME U # {} PROVE FALSE
  OBVIOUS
<1>2. U \in SUBSET Nat
  OBVIOUS
<1>3. PICK n \in U : \A m \in U : n <= m
  BY <1>1, <1>2, LeastOf
<1>4. n \in Nat /\ a < n /\ n <= b /\ n \notin T
  BY <1>3
<1>5. n - 1 \in a .. b /\ n - 1 \notin U
  BY <1>3, <1>4
<1>6. n - 1 \in T /\ n - 1 + 1 = n
  BY <1>4, <1>5
<1>7. QED
  BY <1>4, <1>6

LEMMA ModBelow ==
  ASSUME NEW n \in Nat \ {0}, NEW a \in Nat, a < 2 * n
  PROVE  a % n = IF a < n THEN a ELSE a - n
<1>1. CASE a < n
  BY <1>1
<1>2. CASE ~ (a < n)
  BY <1>2
<1>3. QED
  BY <1>1, <1>2

(* A ring of n places, and the k-th behind place h.                         *)
Ring(n, h, k) == IF h + k >= n THEN h + k - n ELSE h + k

LEMMA RingIsMod ==
  ASSUME NEW n \in Nat \ {0}, NEW h \in 0 .. n - 1, NEW k \in 0 .. n
  PROVE  (h + k) % n = Ring(n, h, k) /\ Ring(n, h, k) \in 0 .. n - 1
<1>1. PICK a \in Nat : a = h + k
  OBVIOUS
<1>2. a < 2 * n
  BY <1>1
<1>3. a % n = IF a < n THEN a ELSE a - n
  BY <1>2, ModBelow
<1>4. (h + k) % n = Ring(n, h, k)
  BY <1>1, <1>3 DEF Ring
<1>5. Ring(n, h, k) \in 0 .. n - 1
  BY <1>1 DEF Ring
<1>6. QED
  BY <1>4, <1>5

(* A power of two is not below and less than twice any number.              *)
LEMMA Remainder ==
  ASSUME NEW n \in Nat \ {0}, NEW q \in Nat, NEW r \in 0 .. n - 1
  PROVE  (n * q + r) % n = r
OBVIOUS

LEMMA HalfDivides ==
  ASSUME NEW p \in Nat \ {0}, NEW d \in Nat \ {0}, (2 * p) % d = 0, d % 2 # 0
  PROVE  p % d = 0
<1> DEFINE q == p \div d
           r == p % d
<1>1. q \in Nat /\ r \in 0 .. d - 1 /\ p = d * q + r
  OBVIOUS
<1>2. 2 * p = d * (2 * q) + 2 * r
  BY <1>1
<1>3. CASE 2 * r < d
  <2>1. 2 * q \in Nat /\ 2 * r \in 0 .. d - 1
    BY <1>1, <1>3
  <2>2. (d * (2 * q) + 2 * r) % d = 2 * r
    BY <2>1, Remainder, Zenon
  <2>3. 2 * r = 0
    BY <1>2, <2>2, Zenon
  <2>4. QED
    BY <1>1, <2>3
<1>4. CASE ~ (2 * r < d)
  <2>1. 2 * p = d * (2 * q + 1) + (2 * r - d)
    BY <1>1, <1>2
  <2>2. 2 * q + 1 \in Nat /\ 2 * r - d \in 0 .. d - 1
    BY <1>1, <1>4
  <2>3. (d * (2 * q + 1) + (2 * r - d)) % d = 2 * r - d
    BY <2>2, Remainder, Zenon
  <2>4. 2 * r - d = 0
    BY <2>1, <2>3, Zenon
  <2>5. d % 2 = 0
    <3>1. d = 2 * r + 0 /\ r \in Nat
      BY <1>1, <2>4
    <3>2. QED
      BY <3>1
  <2>6. QED
    BY <2>5
<1>5. QED
  BY <1>1, <1>3, <1>4

LEMMA DoublePow2 ==
  ASSUME NEW p \in Nat \ {0}, IsPow2(p)
  PROVE  IsPow2(2 * p)
<1>1. SUFFICES ASSUME NEW d \in 2 .. 2 * p, (2 * p) % d = 0, d % 2 # 0
               PROVE  FALSE
  BY DEF IsPow2
<1>2. p % d = 0
  <2>1. d \in Nat \ {0}
    BY <1>1
  <2>2. QED
    BY <1>1, <2>1, HalfDivides, Zenon
<1>3. d \notin 2 .. p
  BY <1>1, <1>2 DEF IsPow2
<1>4. p < d
  BY <1>3
<1>5. p % d = p
  BY <1>4
<1>6. QED
  BY <1>2, <1>5

LEMMA SomePow2 ==
  ASSUME NEW n \in Nat \ {0}
  PROVE  \E p \in n .. 2 * n - 1 : IsPow2(p)
<1> DEFINE T == {m \in Nat \ {0} : ~ \E p \in m .. 2 * m - 1 : IsPow2(p)}
<1>1. SUFFICES ASSUME T # {} PROVE FALSE
  OBVIOUS
<1>2. T \in SUBSET Nat
  OBVIOUS
<1>3. PICK m \in T : \A k \in T : m <= k
  BY <1>1, <1>2, LeastOf
<1>4. m \in Nat \ {0} /\ ~ \E p \in m .. 2 * m - 1 : IsPow2(p)
  BY <1>3
<1>5. CASE m = 1
  <2>1. IsPow2(1) /\ 1 \in m .. 2 * m - 1
    BY <1>5 DEF IsPow2
  <2>2. QED
    BY <1>4, <2>1
<1>6. CASE m # 1
  <2>1. PICK k \in Nat \ {0} : m = 2 * k \/ m = 2 * k - 1
    <3>1. PICK k \in Nat : m = 2 * k \/ m + 1 = 2 * k
      <4>1. PICK h \in Int : h = m \div 2
        BY <1>4
      <4>2. h \in Nat /\ (m = 2 * h \/ m = 2 * h + 1)
        BY <1>4, <4>1
      <4>3. h + 1 \in Nat /\ (m = 2 * h \/ m + 1 = 2 * (h + 1))
        BY <4>2
      <4>4. QED
        BY <4>2, <4>3
    <3>2. k \in Nat \ {0} /\ (m = 2 * k \/ m = 2 * k - 1)
      BY <1>4, <3>1
    <3>3. QED
      BY <3>2
  <2>2. k < m
    BY <1>4, <1>6, <2>1
  <2>3. k \notin T
    BY <1>3, <2>2
  <2>4. PICK p \in k .. 2 * k - 1 : IsPow2(p)
    BY <2>3
  <2>5. CASE p >= m
    <3>1. p \in m .. 2 * m - 1
      BY <1>4, <2>1, <2>2, <2>4, <2>5
    <3>2. QED
      BY <1>4, <2>4, <3>1
  <2>6. CASE p < m
    <3>1. 2 * p \in m .. 2 * m - 1 /\ p \in Nat \ {0}
      BY <1>4, <2>1, <2>4, <2>6
    <3>2. QED
      BY <1>4, <2>4, <3>1, DoublePow2
  <2>7. QED
    BY <1>4, <2>4, <2>5, <2>6
<1>7. QED
  BY <1>5, <1>6

LEMMA Sizes ==
  /\ InstrPerCycle \in Nat \ {0} /\ Window \in Nat \ {0}
  /\ BQSize \in Nat \ {0} /\ HistoryBits \in Nat \ {0}
  /\ PaySize \in Nat \ {0} /\ 2 * (2 * InstrPerCycle + Window) < PaySize
<1>1. InFlight \in Nat \ {0} /\ 2 * InstrPerCycle + Window < InFlight
  BY FetchUnitAssumption, RoomAssumption
<1>2. \E n \in 2 * InFlight .. 2 * (2 * InFlight) - 1 : IsPow2(n)
  <2>1. 2 * InFlight \in Nat \ {0}
    BY <1>1
  <2>2. QED
    BY <2>1, SomePow2, Zenon
<1>3. 2 * (2 * InFlight) = 4 * InFlight
  BY <1>1
<1>4. PaySize \in 2 * InFlight .. 4 * InFlight - 1
  BY <1>2, <1>3 DEF PaySize
<1>5. QED
  BY <1>1, <1>4, FetchUnitAssumption

----------------------------------------------------------------------------
(* Counting branches.                                                       *)
LEMMA BranchPlaces ==
  ASSUME NEW s \in Seq(Insts)
  PROVE  /\ Len(s) \in Nat /\ DOMAIN s = 1 .. Len(s)
         /\ \A k : k \in Branches(s) <=> k \in 1 .. Len(s) /\ IsBranch(s[k])
         /\ Branches(s) \in SUBSET Nat
<1>1. Len(s) \in Nat /\ DOMAIN s = 1 .. Len(s)
  BY LenProperties
<1>2. \A k : k \in Branches(s) <=> k \in 1 .. Len(s) /\ IsBranch(s[k])
  BY <1>1 DEF Branches
<1>3. \A k \in Branches(s) : k \in Nat
  BY <1>1, <1>2
<1>4. QED
  BY <1>1, <1>2, <1>3

LEMMA BeforeFinite ==
  ASSUME NEW s \in Seq(Insts), NEW k \in Nat
  PROVE  IsFiniteSet({j \in Branches(s) : j < k}) /\ Before(s, k) \in Nat
<1>1. IsFiniteSet(0 .. k)
  BY FS_Interval
<1>2. {j \in Branches(s) : j < k} \in SUBSET (0 .. k)
  <2>1. \A j \in Branches(s) : j \in Nat
    BY BranchPlaces
  <2>2. \A j \in Branches(s) : j < k => j \in 0 .. k
    BY <2>1
  <2>3. QED
    BY <2>2
<1>3. QED
  BY <1>1, <1>2, FS_Subset, FS_CardinalityType DEF Before

LEMMA BeforeFirst ==
  ASSUME NEW s \in Seq(Insts)
  PROVE  Before(s, 1) = 0
<1>1. \A j \in Branches(s) : ~ (j < 1)
  BY BranchPlaces
<1>2. {j \in Branches(s) : j < 1} = {}
  BY <1>1
<1>3. QED
  BY <1>2, FS_EmptySet DEF Before

LEMMA BeforeStep ==
  ASSUME NEW s \in Seq(Insts), NEW k \in 1 .. Len(s)
  PROVE  Before(s, k + 1) = Before(s, k) + (IF IsBranch(s[k]) THEN 1 ELSE 0)
<1> DEFINE T == {j \in Branches(s) : j < k}
           U == {j \in Branches(s) : j < k + 1}
<1>1. k \in Nat /\ (k \in Branches(s) <=> IsBranch(s[k]))
  BY BranchPlaces
<1>2. IsFiniteSet(T) /\ k \notin T /\ Before(s, k) \in Nat
  BY <1>1, BeforeFinite
<1>3. \A j \in Branches(s) : j \in Nat /\ (j < k + 1 <=> j < k \/ j = k)
  BY <1>1, BranchPlaces
<1> HIDE DEF T, U
<1>7. Before(s, k) = Cardinality(T) /\ Before(s, k + 1) = Cardinality(U)
  BY DEF Before, T, U
<1>4. CASE IsBranch(s[k])
  <2>1. U = T \cup {k}
    BY <1>1, <1>3, <1>4 DEF T, U
  <2>2. Cardinality(U) = Cardinality(T) + 1
    BY <1>2, <2>1, FS_AddElement
  <2>3. QED
    BY <1>4, <1>7, <2>2
<1>5. CASE ~ IsBranch(s[k])
  <2>1. U = T
    BY <1>1, <1>3, <1>5 DEF T, U
  <2>2. QED
    BY <1>2, <1>5, <1>7, <2>1
<1>6. QED
  BY <1>4, <1>5

LEMMA BeforeAgree ==
  ASSUME NEW s \in Seq(Insts), NEW t \in Seq(Insts), NEW k \in Nat,
         k - 1 <= Len(s), k - 1 <= Len(t),
         \A j \in 1 .. k - 1 : IsBranch(s[j]) <=> IsBranch(t[j])
  PROVE  Before(s, k) = Before(t, k)
<1>1. \A j : j \in Branches(s) /\ j < k <=> j \in Branches(t) /\ j < k
  <2>1. SUFFICES ASSUME NEW j
                 PROVE  j \in Branches(s) /\ j < k <=> j \in Branches(t) /\ j < k
    OBVIOUS
  <2>2. /\ j \in Branches(s) <=> j \in 1 .. Len(s) /\ IsBranch(s[j])
        /\ j \in Branches(t) <=> j \in 1 .. Len(t) /\ IsBranch(t[j])
        /\ Len(s) \in Nat /\ Len(t) \in Nat
    BY BranchPlaces
  <2>3. CASE j \in 1 .. k - 1
    <3>1. j \in 1 .. Len(s) /\ j \in 1 .. Len(t)
      BY <2>2, <2>3
    <3>2. QED
      BY <2>2, <2>3, <3>1
  <2>4. CASE j \notin 1 .. k - 1
    BY <2>2, <2>4
  <2>5. QED
    BY <2>3, <2>4
<1>2. {j \in Branches(s) : j < k} = {j \in Branches(t) : j < k}
  BY <1>1
<1>3. QED
  BY <1>2 DEF Before

LEMMA BeforeBound ==
  ASSUME NEW s \in Seq(Insts), NEW k \in 1 .. Len(s) + 1
  PROVE  Before(s, k) \in 0 .. k - 1
<1> DEFINE T == {m \in Nat : m \in 1 .. Len(s) + 1 => Before(s, m) \in 0 .. m - 1}
<1>1. Len(s) \in Nat
  BY BranchPlaces
<1>2. 1 \in T
  BY BeforeFirst
<1>3. ASSUME NEW m \in T, 1 <= m, m < Len(s) + 1 PROVE m + 1 \in T
  <2>1. m \in 1 .. Len(s) /\ Before(s, m) \in 0 .. m - 1
    BY <1>1, <1>3
  <2>2. Before(s, m + 1) = Before(s, m) + (IF IsBranch(s[m]) THEN 1 ELSE 0)
    BY <2>1, BeforeStep
  <2>3. QED
    BY <2>1, <2>2
<1>4. \A m \in 1 .. Len(s) + 1 : m \in T
  <2>1. 1 \in Nat /\ Len(s) + 1 \in Nat /\ T \in SUBSET Nat
    BY <1>1
  <2>2. \A m \in T : 1 <= m /\ m < Len(s) + 1 => m + 1 \in T
    BY <1>3
  <2>3. QED
    BY <1>2, <2>1, <2>2, HandedOn
<1>5. QED
  BY <1>4

LEMMA BeforeGrows ==
  ASSUME NEW s \in Seq(Insts), NEW j \in 1 .. Len(s) + 1, NEW k \in j .. Len(s) + 1
  PROVE  Before(s, j) <= Before(s, k)
<1>1. \A i \in Branches(s) : i < j => i < k
  BY BranchPlaces
<1>2. {i \in Branches(s) : i < j} \in SUBSET {i \in Branches(s) : i < k}
  BY <1>1
<1>3. k \in Nat /\ j \in Nat
  BY BranchPlaces
<1>4. QED
  BY <1>2, <1>3, FS_Subset, BeforeFinite DEF Before

LEMMA BeforeStrict ==
  ASSUME NEW s \in Seq(Insts), NEW j \in Branches(s), NEW k \in 1 .. Len(s) + 1, j < k
  PROVE  Before(s, j) < Before(s, k)
<1>1. Len(s) \in Nat /\ j \in 1 .. Len(s) /\ IsBranch(s[j])
  BY BranchPlaces
<1>2. Before(s, j + 1) = Before(s, j) + 1
  BY <1>1, BeforeStep
<1>3. j + 1 \in 1 .. Len(s) + 1 /\ k \in j + 1 .. Len(s) + 1
  BY <1>1
<1>4. Before(s, j + 1) <= Before(s, k)
  BY <1>3, BeforeGrows
<1>5. j \in Nat /\ k \in Nat
  BY <1>1
<1>6. Before(s, j) \in Nat /\ Before(s, k) \in Nat
  BY <1>5, BeforeFinite
<1>7. QED
  BY <1>2, <1>4, <1>6

LEMMA BeforeApart ==
  ASSUME NEW s \in Seq(Insts), NEW j \in Branches(s), NEW k \in Branches(s),
         Before(s, j) = Before(s, k)
  PROVE  j = k
<1>1. Len(s) \in Nat /\ j \in 1 .. Len(s) + 1 /\ k \in 1 .. Len(s) + 1
  BY BranchPlaces
<1>2. Before(s, j) \in Nat /\ Before(s, k) \in Nat
  <2>1. j \in Nat /\ k \in Nat
    BY <1>1
  <2>2. QED
    BY <2>1, BeforeFinite
<1>3. ~ (j < k) /\ ~ (k < j)
  BY <1>1, <1>2, BeforeStrict
<1>4. QED
  BY <1>1, <1>3

(* The branches of two pieces of program are counted one after the other.   *)
LEMMA BeforeJoin ==
  ASSUME NEW s \in Seq(Insts), NEW t \in Seq(Insts), NEW k \in 1 .. Len(t) + 1
  PROVE  Before(s \o t, Len(s) + k) = Before(s, Len(s) + 1) + Before(t, k)
<1> DEFINE st == s \o t
           T == {m \in Nat : m \in 1 .. Len(t) + 1 =>
                   Before(st, Len(s) + m) = Before(s, Len(s) + 1) + Before(t, m)}
<1>1. Len(s) \in Nat /\ Len(t) \in Nat
  BY BranchPlaces
<1>2. /\ st \in Seq(Insts) /\ Len(st) = Len(s) + Len(t)
      /\ \A i \in 1 .. Len(s) + Len(t) : st[i] = IF i <= Len(s) THEN s[i] ELSE t[i - Len(s)]
  BY ConcatProperties
<1> HIDE DEF st
<1>3. 1 \in T
  <2>1. \A j \in 1 .. Len(s) : st[j] = s[j]
    BY <1>1, <1>2
  <2>2. Len(s) + 1 \in Nat /\ Len(s) + 1 - 1 = Len(s) /\ Len(s) <= Len(st)
    BY <1>1, <1>2
  <2>3. Before(st, Len(s) + 1) = Before(s, Len(s) + 1)
    <3>1. PICK n \in Nat : n = Len(s) + 1
      BY <2>2
    <3>2. n - 1 <= Len(s) /\ n - 1 <= Len(st) /\ n - 1 = Len(s)
      BY <1>1, <2>2, <3>1
    <3>3. \A j \in 1 .. n - 1 : IsBranch(st[j]) <=> IsBranch(s[j])
      BY <2>1, <3>2
    <3>4. Before(st, n) = Before(s, n)
      BY <1>2, <3>2, <3>3, BeforeAgree
    <3>5. QED
      BY <3>1, <3>4
  <2>4. Before(s, Len(s) + 1) \in Nat /\ Before(t, 1) = 0
    BY <2>2, BeforeFinite, BeforeFirst
  <2>5. QED
    BY <2>3, <2>4
<1>4. ASSUME NEW m \in T, 1 <= m, m < Len(t) + 1 PROVE m + 1 \in T
  <2>1. /\ m \in 1 .. Len(t) /\ Len(s) + m \in 1 .. Len(st)
        /\ Before(st, Len(s) + m) = Before(s, Len(s) + 1) + Before(t, m)
    BY <1>1, <1>2, <1>4
  <2>2. st[Len(s) + m] = t[m]
    BY <1>1, <1>2, <2>1
  <2>3. Before(t, m + 1) = Before(t, m) + (IF IsBranch(t[m]) THEN 1 ELSE 0)
    BY <2>1, BeforeStep
  <2>4. Before(st, Len(s) + m + 1) = Before(st, Len(s) + m) + (IF IsBranch(t[m]) THEN 1 ELSE 0)
    BY <1>2, <2>1, <2>2, BeforeStep
  <2>5. Before(t, m) \in Nat /\ Before(s, Len(s) + 1) \in Nat
    <3>1. m \in Nat /\ Len(s) + 1 \in Nat
      BY <1>1
    <3>2. QED
      BY <3>1, BeforeFinite
  <2>6. Len(s) + m + 1 = Len(s) + (m + 1)
    BY <1>1
  <2>7. QED
    BY <2>1, <2>3, <2>4, <2>5, <2>6
<1>5. \A m \in 1 .. Len(t) + 1 : m \in T
  <2>1. 1 \in Nat /\ Len(t) + 1 \in Nat /\ T \in SUBSET Nat
    BY <1>1
  <2>2. \A m \in T : 1 <= m /\ m < Len(t) + 1 => m + 1 \in T
    BY <1>4
  <2>3. QED
    BY <1>3, <2>1, <2>2, HandedOn
<1>6. QED
  BY <1>1, <1>5 DEF st

LEMMA BeforeTail ==
  ASSUME NEW s \in Seq(Insts), s # <<>>, NEW k \in 1 .. Len(s)
  PROVE  Before(s, k + 1) = Before(Tail(s), k) + (IF IsBranch(s[1]) THEN 1 ELSE 0)
<1> DEFINE t == Tail(s)
           b == IF IsBranch(s[1]) THEN 1 ELSE 0
           T == {m \in Nat : m \in 1 .. Len(s) => Before(s, m + 1) = Before(t, m) + b}
<1>1. Len(s) \in Nat
  BY BranchPlaces
<1>2. /\ t \in Seq(Insts) /\ Len(t) = Len(s) - 1
      /\ \A i \in 1 .. Len(t) : t[i] = s[i + 1]
  BY HeadTailProperties
<1> HIDE DEF t
<1>3. 1 \in T
  <2>1. CASE 1 \in 1 .. Len(s)
    <3>1. Before(s, 1) = 0 /\ Before(t, 1) = 0 /\ Before(s, 1 + 1) = Before(s, 1) + b
      BY <1>2, <2>1, BeforeFirst, BeforeStep
    <3>2. QED
      BY <3>1
  <2>2. QED
    BY <2>1
<1>4. ASSUME NEW m \in T, 1 <= m, m < Len(s) PROVE m + 1 \in T
  <2>1. /\ m \in 1 .. Len(t) /\ m + 1 \in 1 .. Len(s)
        /\ Before(s, m + 1) = Before(t, m) + b
    BY <1>1, <1>2, <1>4
  <2>2. t[m] = s[m + 1]
    BY <1>2, <2>1
  <2>3. Before(t, m + 1) = Before(t, m) + (IF IsBranch(t[m]) THEN 1 ELSE 0)
    BY <1>2, <2>1, BeforeStep
  <2>4. Before(s, m + 1 + 1) = Before(s, m + 1) + (IF IsBranch(t[m]) THEN 1 ELSE 0)
    BY <2>1, <2>2, BeforeStep
  <2>5. Before(t, m) \in Nat
    BY <1>2, BeforeFinite
  <2>6. QED
    BY <2>1, <2>3, <2>4, <2>5
<1>5. \A m \in 1 .. Len(s) : m \in T
  <2>1. 1 \in Nat /\ T \in SUBSET Nat
    OBVIOUS
  <2>2. \A m \in T : 1 <= m /\ m < Len(s) => m + 1 \in T
    BY <1>4
  <2>3. QED
    BY <1>1, <1>3, <2>1, <2>2, HandedOn
<1>6. k \in T
  BY <1>5
<1>7. QED
  BY <1>6 DEF t

(* There is room in the branch queue for every branch behind Fetch2.        *)
LEMMA Room ==
  ASSUME NEW s \in Seq(Insts), Len(s) <= Window + InstrPerCycle
  PROVE  /\ Before(s, Len(s) + 1) \in 0 .. BQSize
         /\ \A k \in Branches(s) : Before(s, k) \in 0 .. BQSize - 1
<1>1. Len(s) \in Nat /\ Len(s) + 1 \in 1 .. Len(s) + 1
  BY BranchPlaces
<1>2. Before(s, Len(s) + 1) \in 0 .. BQSize
  <2>1. CASE BQSize >= InstrPerCycle + Window
    <3>1. Before(s, Len(s) + 1) \in 0 .. Len(s) + 1 - 1
      BY <1>1, BeforeBound
    <3>2. QED
      BY <1>1, <2>1, <3>1, Sizes
  <2>2. CASE Kinds \cap {"br", "jr"} = {}
    <3>1. \A k \in 1 .. Len(s) : s[k] \in Insts
      BY ElementOfSeq
    <3>2. \A k \in 1 .. Len(s) : ~ IsBranch(s[k])
      BY <2>2, <3>1 DEF Insts, IsBranch
    <3>3. {j \in Branches(s) : j < Len(s) + 1} = {}
      BY <3>2, BranchPlaces
    <3>4. Before(s, Len(s) + 1) = 0
      BY <3>3, FS_EmptySet DEF Before
    <3>5. QED
      BY <3>4, Sizes
  <2>3. QED
    BY <2>1, <2>2, RoomAssumption
<1>3. ASSUME NEW k \in Branches(s) PROVE Before(s, k) \in 0 .. BQSize - 1
  <2>1. k \in 1 .. Len(s)
    BY BranchPlaces
  <2>2. k \in Nat /\ k < Len(s) + 1 /\ Len(s) + 1 \in 1 .. Len(s) + 1
    BY <1>1, <2>1
  <2>3. Before(s, k) \in Nat
    BY <2>2, BeforeFinite
  <2>4. Before(s, k) < Before(s, Len(s) + 1)
    BY <2>2, BeforeStrict
  <2>5. QED
    BY <1>2, <2>3, <2>4, Sizes
<1>4. QED
  BY <1>2, <1>3

----------------------------------------------------------------------------
(* Histories.                                                               *)
LEMMA ShiftType ==
  ASSUME NEW h \in Histories, NEW i \in Insts
  PROVE  Shift(h, i) \in Histories
<1>1. HistoryBits \in Nat \ {0}
  BY Sizes
<1>2. h \in Seq(BOOLEAN) /\ Len(h) = HistoryBits /\ h # <<>>
  BY <1>1 DEF Histories
<1>3. Tail(h) \in Seq(BOOLEAN) /\ Len(Tail(h)) = HistoryBits - 1
  BY <1>2, HeadTailProperties
<1>4. i.taken \in BOOLEAN
  BY DEF Insts
<1>5. /\ Append(Tail(h), i.taken) \in Seq(BOOLEAN)
      /\ Len(Append(Tail(h), i.taken)) = HistoryBits
  BY <1>1, <1>3, <1>4, AppendProperties
<1>6. Append(Tail(h), i.taken) \in Histories
  BY <1>5, LenProperties DEF Histories
<1>7. QED
  BY <1>6 DEF Shift

LEMMA AlongIs ==
  ASSUME NEW h \in Histories, NEW s \in Seq(Insts)
  PROVE  /\ Along(h, s) \in [0 .. Len(s) -> Histories]
         /\ Along(h, s)[0] = h
         /\ \A n \in 1 .. Len(s) : Along(h, s)[n] = Shift(Along(h, s)[n - 1], s[n])
<1> DEFINE Follows(g, m) == /\ g \in [0 .. m -> Histories] /\ g[0] = h
                            /\ \A n \in 1 .. m : g[n] = Shift(g[n - 1], s[n])
           T == {m \in Nat : \E g : Follows(g, m)}
<1>1. Len(s) \in Nat
  BY LenProperties
<1>2. 0 \in T
  <2>1. Follows([n \in 0 .. 0 |-> h], 0)
    OBVIOUS
  <2>2. QED
    BY <2>1
<1>3. ASSUME NEW m \in T, 0 <= m, m < Len(s) PROVE m + 1 \in T
  <2>1. PICK g : Follows(g, m)
    BY <1>3
  <2> DEFINE f == [n \in 0 .. m + 1 |-> IF n = m + 1 THEN Shift(g[m], s[m + 1]) ELSE g[n]]
  <2>2. m \in Nat /\ g[m] \in Histories /\ s[m + 1] \in Insts
    BY <1>1, <1>3, <2>1, ElementOfSeq
  <2>3. Shift(g[m], s[m + 1]) \in Histories
    BY <2>2, ShiftType
  <2>4. f \in [0 .. m + 1 -> Histories] /\ f[0] = h
    BY <2>1, <2>2, <2>3
  <2>5. ASSUME NEW n \in 1 .. m + 1 PROVE f[n] = Shift(f[n - 1], s[n])
    <3>1. CASE n = m + 1
      <4>1. n - 1 = m /\ m \in 0 .. m + 1 /\ m # m + 1
        BY <2>2, <3>1
      <4>2. QED
        BY <3>1, <4>1
    <3>2. CASE n # m + 1
      <4>1. n \in 1 .. m /\ n - 1 \in 0 .. m /\ n - 1 # m + 1
        BY <2>2, <3>2
      <4>2. f[n] = g[n] /\ f[n - 1] = g[n - 1]
        BY <2>2, <3>2, <4>1
      <4>3. QED
        BY <2>1, <4>1, <4>2
    <3>3. QED
      BY <3>1, <3>2
  <2> HIDE DEF f
  <2>6. Follows(f, m + 1)
    BY <2>4, <2>5
  <2> HIDE DEF Follows
  <2>7. \E e : Follows(e, m + 1)
    BY <2>6
  <2>8. m + 1 \in Nat
    BY <2>2
  <2>9. QED
    BY <2>7, <2>8
<1>4. \A m \in 0 .. Len(s) : m \in T
  <2>1. 0 \in Nat /\ T \in SUBSET Nat
    OBVIOUS
  <2>2. \A m \in T : 0 <= m /\ m < Len(s) => m + 1 \in T
    BY <1>3
  <2>3. QED
    BY <1>1, <1>2, <2>1, <2>2, HandedOn
<1>5. PICK g : Follows(g, Len(s))
  <2>1. Len(s) \in 0 .. Len(s)
    BY <1>1
  <2>2. QED
    BY <1>4, <2>1
<1> DEFINE Step(f) == [n \in 0 .. Len(s) |-> IF n = 0 THEN h ELSE Shift(f[n - 1], s[n])]
<1>6. g = Step(g)
  <2>1. \A n \in 0 .. Len(s) : g[n] = IF n = 0 THEN h ELSE Shift(g[n - 1], s[n])
    BY <1>1, <1>5
  <2>2. QED
    BY <1>5, <2>1
<1>7. Along(h, s) = Step(Along(h, s))
  BY <1>6, Zenon DEF Along
<1> DEFINE a == Along(h, s)
<1> HIDE DEF a
<1>8. DOMAIN a = 0 .. Len(s)
  BY <1>7 DEF a
<1>9. a[0] = h
  BY <1>1, <1>7 DEF a
<1>10. \A n \in 1 .. Len(s) : a[n] = Shift(a[n - 1], s[n])
  BY <1>1, <1>7 DEF a
<1>11. \A n \in 0 .. Len(s) : a[n] \in Histories
  <2> DEFINE U == {n \in Nat : n \in 0 .. Len(s) => a[n] \in Histories}
  <2>1. 0 \in U
    BY <1>9
  <2>2. ASSUME NEW n \in U, 0 <= n, n < Len(s) PROVE n + 1 \in U
    <3>1. n \in 0 .. Len(s) /\ n + 1 \in 1 .. Len(s) /\ n + 1 - 1 = n
      BY <1>1, <2>2
    <3>2. a[n] \in Histories /\ s[n + 1] \in Insts
      BY <2>2, <3>1, ElementOfSeq
    <3>3. a[n + 1] = Shift(a[n], s[n + 1])
      BY <1>10, <3>1
    <3>4. QED
      BY <3>2, <3>3, ShiftType
  <2>3. 0 \in Nat /\ U \in SUBSET Nat
    OBVIOUS
  <2>4. \A n \in U : 0 <= n /\ n < Len(s) => n + 1 \in U
    BY <2>2
  <2>5. \A n \in 0 .. Len(s) : n \in U
    BY <1>1, <2>1, <2>3, <2>4, HandedOn
  <2>6. QED
    BY <2>5
<1>12. a = [n \in 0 .. Len(s) |-> a[n]]
  BY <1>7 DEF a
<1>13. a \in [0 .. Len(s) -> Histories]
  BY <1>11, <1>12
<1>14. QED
  BY <1>9, <1>10, <1>13 DEF a

(* Instructions without a branch leave the history as it is.                *)
LEMMA AlongStill ==
  ASSUME NEW h \in Histories, NEW s \in Seq(Insts),
         NEW j \in 0 .. Len(s), NEW k \in j .. Len(s),
         \A n \in j + 1 .. k : ~ IsBranch(s[n])
  PROVE  Along(h, s)[k] = Along(h, s)[j]
<1> DEFINE a == Along(h, s)
           T == {n \in Nat : n \in j .. k => a[n] = a[j]}
<1>1. Len(s) \in Nat /\ \A n \in 1 .. Len(s) : a[n] = Shift(a[n - 1], s[n])
  BY AlongIs, LenProperties
<1> HIDE DEF a
<1>2. j \in T
  BY <1>1
<1>3. ASSUME NEW n \in T, j <= n, n < k PROVE n + 1 \in T
  <2>1. n + 1 \in 1 .. Len(s) /\ n + 1 \in j + 1 .. k /\ n + 1 - 1 = n /\ n \in j .. k
    BY <1>1, <1>3
  <2>2. a[n + 1] = Shift(a[n], s[n + 1]) /\ ~ IsBranch(s[n + 1]) /\ a[n] = a[j]
    BY <1>1, <1>3, <2>1
  <2>3. a[n + 1] = a[n]
    BY <2>2 DEF Shift, IsBranch
  <2>4. QED
    BY <2>2, <2>3
<1>4. j \in Nat /\ k \in Nat /\ T \in SUBSET Nat /\ k \in j .. k
  BY <1>1
<1>5. \A n \in T : j <= n /\ n < k => n + 1 \in T
  BY <1>3
<1>6. \A n \in j .. k : n \in T
  BY <1>2, <1>4, <1>5, HandedOn
<1>7. QED
  BY <1>4, <1>6 DEF a

(* Only the kinds and the outcomes of the instructions matter.              *)
LEMMA AlongAlike ==
  ASSUME NEW h \in Histories, NEW s \in Seq(Insts), NEW t \in Seq(Insts),
         Len(s) = Len(t),
         \A n \in 1 .. Len(s) : s[n].kind = t[n].kind /\ s[n].taken = t[n].taken
  PROVE  After(h, s) = After(h, t)
<1> DEFINE a == Along(h, s)
           b == Along(h, t)
           T == {n \in Nat : n \in 0 .. Len(s) => a[n] = b[n]}
<1>1. /\ Len(s) \in Nat /\ a[0] = h /\ b[0] = h
      /\ \A n \in 1 .. Len(s) : a[n] = Shift(a[n - 1], s[n]) /\ b[n] = Shift(b[n - 1], t[n])
  BY AlongIs, LenProperties
<1> HIDE DEF a, b
<1>2. 0 \in T
  BY <1>1
<1>3. ASSUME NEW n \in T, 0 <= n, n < Len(s) PROVE n + 1 \in T
  <2>1. n + 1 \in 1 .. Len(s) /\ n + 1 - 1 = n /\ n \in 0 .. Len(s)
    BY <1>1, <1>3
  <2>2. a[n + 1] = Shift(a[n], s[n + 1]) /\ b[n + 1] = Shift(b[n], t[n + 1]) /\ a[n] = b[n]
    BY <1>1, <1>3, <2>1
  <2>3. a[n + 1] = b[n + 1]
    BY <2>1, <2>2 DEF Shift
  <2>4. QED
    BY <2>3
<1>4. 0 \in Nat /\ T \in SUBSET Nat /\ Len(s) \in 0 .. Len(s)
  BY <1>1
<1>5. \A n \in T : 0 <= n /\ n < Len(s) => n + 1 \in T
  BY <1>3
<1>6. \A n \in 0 .. Len(s) : n \in T
  BY <1>1, <1>2, <1>4, <1>5, HandedOn
<1>7. a[Len(s)] = b[Len(s)]
  BY <1>4, <1>6
<1>8. QED
  BY <1>7 DEF After, a, b

----------------------------------------------------------------------------
(* The bundle in FETCH2.                                                    *)
Latches == [Slots -> Insts \cup {Bubble}]

LEMMA Zeros == 0 \in PayIndex /\ 0 \in BQIndex
BY Sizes DEF PayIndex, BQIndex

LEMMA NotABubble == \A i \in Insts : i.kind # "none" /\ i # Bubble
<1>1. "none" \notin Kinds
  BY FetchUnitAssumption DEF AllKinds
<1>2. QED
  BY <1>1 DEF Insts, Bubble

(* The walk ends at the first slot that is not valid.                       *)
EndsAt(F, n) == /\ \A p \in 0 .. n - 1 : F[p].kind # "none"
                /\ n < InstrPerCycle => F[n].kind = "none"

LEMMA WalkedIs ==
  ASSUME NEW F \in Latches
  PROVE  Walked(F) \in 0 .. InstrPerCycle /\ EndsAt(F, Walked(F))
<1> DEFINE T == {p \in Slots : F[p].kind = "none"}
<1>1. InstrPerCycle \in Nat \ {0} /\ T \in SUBSET Nat
  BY Sizes DEF Slots
<1>2. \E n \in 0 .. InstrPerCycle : EndsAt(F, n)
  <2>1. CASE T = {}
    <3>1. \A p \in 0 .. InstrPerCycle - 1 : F[p].kind # "none"
      BY <2>1 DEF Slots
    <3>2. InstrPerCycle \in 0 .. InstrPerCycle /\ ~ (InstrPerCycle < InstrPerCycle)
      BY <1>1
    <3>3. QED
      BY <3>1, <3>2 DEF EndsAt
  <2>2. CASE T # {}
    <3>1. PICK n \in T : \A p \in T : n <= p
      BY <1>1, <2>2, LeastOf
    <3>2. n \in 0 .. InstrPerCycle /\ F[n].kind = "none"
      BY <1>1 DEF Slots
    <3>3. ASSUME NEW p \in 0 .. n - 1 PROVE F[p].kind # "none"
      <4>1. p \in Slots /\ ~ (n <= p)
        BY <1>1, <3>2 DEF Slots
      <4>2. QED
        BY <3>1, <4>1
    <3>4. QED
      BY <3>2, <3>3 DEF EndsAt
  <2>3. QED
    BY <2>1, <2>2
<1>3. QED
  BY <1>2, Zenon DEF Walked, EndsAt

LEMMA WalkedOnce ==
  ASSUME NEW F \in Latches, NEW n \in 0 .. InstrPerCycle, EndsAt(F, n)
  PROVE  Walked(F) = n
<1>1. PICK m \in 0 .. InstrPerCycle : m = Walked(F) /\ EndsAt(F, m)
  BY WalkedIs
<1>2. InstrPerCycle \in Nat
  BY Sizes
<1>3. ~ (m < n)
  <2>1. SUFFICES ASSUME m < n PROVE FALSE
    OBVIOUS
  <2>2. m < InstrPerCycle /\ m \in 0 .. n - 1
    BY <1>2, <2>1
  <2>3. QED
    BY <1>1, <2>2 DEF EndsAt
<1>4. ~ (n < m)
  <2>1. SUFFICES ASSUME n < m PROVE FALSE
    OBVIOUS
  <2>2. n < InstrPerCycle /\ n \in 0 .. m - 1
    BY <1>2, <2>1
  <2>3. QED
    BY <1>1, <2>2 DEF EndsAt
<1>5. QED
  BY <1>1, <1>2, <1>3, <1>4

LEMMA WalkIs ==
  ASSUME NEW F \in Latches
  PROVE  /\ Walk(F) \in Seq(Insts) /\ Len(Walk(F)) = Walked(F)
         /\ \A k \in 1 .. Walked(F) : Walk(F)[k] = F[k - 1]
<1>1. PICK n \in 0 .. InstrPerCycle : n = Walked(F) /\ EndsAt(F, n)
  BY WalkedIs
<1>2. InstrPerCycle \in Nat
  BY Sizes
<1>3. Walk(F) = [k \in 1 .. n |-> F[k - 1]]
  BY <1>1 DEF Walk
<1>4. ASSUME NEW k \in 1 .. n PROVE F[k - 1] \in Insts
  <2>1. k - 1 \in 0 .. n - 1 /\ k - 1 \in Slots
    BY <1>2 DEF Slots
  <2>2. F[k - 1].kind # "none" /\ F[k - 1] \in Insts \cup {Bubble}
    BY <1>1, <2>1 DEF EndsAt, Latches
  <2>3. QED
    BY <2>2 DEF Bubble
<1>5. Walk(F) \in [1 .. n -> Insts] /\ n \in Nat
  BY <1>2, <1>3, <1>4
<1>6. Walk(F) \in Seq(Insts) /\ Len(Walk(F)) = n
  BY <1>5
<1>7. \A k \in 1 .. n : Walk(F)[k] = F[k - 1]
  BY <1>3
<1>8. QED
  BY <1>1, <1>6, <1>7

(* A bundle is cut behind its first serializing instruction.                *)
LEMMA CutIs ==
  ASSUME NEW s \in Seq(Insts)
  PROVE  /\ Cut(s) \in Seq(Insts) /\ Len(Cut(s)) \in 0 .. Len(s)
         /\ s # <<>> => Len(Cut(s)) >= 1
         /\ \A k \in 1 .. Len(Cut(s)) : Cut(s)[k] = s[k]
         /\ \A k \in 1 .. Len(Cut(s)) - 1 : Cut(s)[k].kind # "ser"
         /\ Serializers(s) = {} => Cut(s) = s
         /\ Serializers(s) # {} => Len(Cut(s)) >= 1 /\ Cut(s)[Len(Cut(s))].kind = "ser"
<1>1. Len(s) \in Nat /\ DOMAIN s = 1 .. Len(s)
  BY LenProperties
<1>2. \A k : k \in Serializers(s) <=> k \in 1 .. Len(s) /\ s[k].kind = "ser"
  BY <1>1 DEF Serializers
<1>3. CASE Serializers(s) = {}
  <2>1. Cut(s) = s
    BY <1>3 DEF Cut
  <2>2. s # <<>> => Len(s) >= 1
    BY <1>1, EmptySeq
  <2>3. QED
    BY <1>1, <1>2, <1>3, <2>1, <2>2
<1>4. CASE Serializers(s) # {}
  <2>1. Serializers(s) \in SUBSET Nat
    BY <1>2
  <2>2. \E n \in Serializers(s) : \A j \in Serializers(s) : n <= j
    BY <1>4, <2>1, LeastOf
  <2>3. PICK n : n = CHOOSE k \in Serializers(s) : \A j \in Serializers(s) : k <= j
    OBVIOUS
  <2>4. n \in Serializers(s) /\ \A j \in Serializers(s) : n <= j
    BY <2>2, <2>3, Zenon
  <2>5. n \in 1 .. Len(s) /\ s[n].kind = "ser" /\ n \in Int
    BY <1>2, <2>4
  <2>6. PICK c : c = SubSeq(s, 1, n)
    OBVIOUS
  <2>7. Cut(s) = c
    BY <1>4, <2>3, <2>6, Zenon DEF Cut
  <2>8. \A i \in 1 .. n : s[i] \in Insts
    BY <1>1, <2>5, ElementOfSeq
  <2>9. c \in Seq(Insts) /\ Len(c) = n /\ \A i \in 1 .. n : c[i] = s[i]
    BY <1>1, <2>5, <2>6, <2>8, SubSeqProperties
  <2>10. ASSUME NEW k \in 1 .. n - 1 PROVE c[k].kind # "ser"
    <3>1. k \in 1 .. Len(s) /\ ~ (n <= k) /\ c[k] = s[k]
      BY <1>1, <2>5, <2>9
    <3>2. QED
      BY <1>2, <2>4, <3>1
  <2>11. QED
    BY <1>1, <1>4, <2>5, <2>7, <2>9, <2>10
<1>5. QED
  BY <1>3, <1>4

(* The slots that Fetch2 leaves valid hold the bundle as it was cut.        *)
LEMMA CutSlotsIs ==
  ASSUME FETCH2 \in Latches
  PROVE  CutSlots \in Latches /\ Walk(CutSlots) = Cut(Walk(FETCH2))
<1> DEFINE w == Walk(FETCH2)
           c == Cut(w)
           n == Len(c)
<1>1. InstrPerCycle \in Nat \ {0}
  BY Sizes
<1>2. /\ w \in Seq(Insts) /\ Len(w) = Walked(FETCH2)
      /\ \A k \in 1 .. Len(w) : w[k] = FETCH2[k - 1]
  BY WalkIs
<1>3. Len(w) \in 0 .. InstrPerCycle /\ EndsAt(FETCH2, Len(w))
  BY <1>2, WalkedIs
<1> HIDE DEF w
<1>4. /\ c \in Seq(Insts) /\ n \in 0 .. Len(w)
      /\ \A k \in 1 .. n : c[k] = w[k]
      /\ Serializers(w) = {} => c = w
  BY <1>2, CutIs
<1> HIDE DEF c
<1>5. CASE Serializers(w) # {} /\ n < InstrPerCycle
  <2>1. CutSlots = [FETCH2 EXCEPT ![n] = Bubble]
    BY <1>5 DEF CutSlots, c, w
  <2>2. n \in Slots
    BY <1>1, <1>3, <1>4, <1>5 DEF Slots
  <2>3. /\ CutSlots \in Latches /\ CutSlots[n] = Bubble
        /\ \A p \in Slots : p # n => CutSlots[p] = FETCH2[p]
    BY <2>1, <2>2 DEF Latches
  <2>4. ASSUME NEW p \in 0 .. n - 1
        PROVE  CutSlots[p] = FETCH2[p] /\ FETCH2[p].kind # "none"
    <3>1. p \in Slots /\ p # n /\ p \in 0 .. Len(w) - 1
      BY <1>1, <1>3, <1>4 DEF Slots
    <3>2. QED
      BY <1>3, <2>3, <3>1 DEF EndsAt
  <2>5. EndsAt(CutSlots, n)
    BY <2>3, <2>4 DEF EndsAt, Bubble
  <2>6. n \in 0 .. InstrPerCycle
    BY <1>1, <1>3, <1>4
  <2>7. Walked(CutSlots) = n
    BY <2>3, <2>5, <2>6, WalkedOnce
  <2>8. /\ Walk(CutSlots) \in Seq(Insts) /\ Len(Walk(CutSlots)) = n
        /\ \A k \in 1 .. n : Walk(CutSlots)[k] = CutSlots[k - 1]
    BY <2>3, <2>7, WalkIs
  <2>9. ASSUME NEW k \in 1 .. n PROVE Walk(CutSlots)[k] = c[k]
    <3>1. k - 1 \in 0 .. n - 1 /\ k \in 1 .. Len(w)
      BY <1>1, <1>3, <1>4
    <3>2. CutSlots[k - 1] = FETCH2[k - 1]
      BY <2>4, <3>1
    <3>3. QED
      BY <1>2, <1>4, <2>8, <3>1, <3>2
  <2>10. Walk(CutSlots) = c
    BY <1>4, <2>8, <2>9, SeqEqual
  <2>11. QED
    BY <2>3, <2>10 DEF c, w
<1>6. CASE ~ (Serializers(w) # {} /\ n < InstrPerCycle)
  <2>1. CutSlots = FETCH2
    BY <1>6 DEF CutSlots, c, w
  <2>2. c = w
    <3>1. CASE Serializers(w) = {}
      BY <1>4, <3>1
    <3>2. CASE Serializers(w) # {}
      <4>1. n = Len(w)
        BY <1>1, <1>3, <1>4, <1>6, <3>2
      <4>2. QED
        BY <1>2, <1>4, <4>1, SeqEqual
    <3>3. QED
      BY <3>1, <3>2
  <2>3. QED
    BY <2>1, <2>2 DEF c, w
<1>7. QED
  BY <1>5, <1>6

----------------------------------------------------------------------------
(* The inductive invariant.                                                 *)

(* Who stops the fetch unit, and what the bundle in FETCH2 is like: not yet *)
(* cut as long as the unit is active, and the only place with instructions  *)
(* that stop it.                                                            *)
Stopping ==
  /\ fetch_active => \A k \in DOMAIN Behind : ~ Stops(Behind[k])
  /\ ~ fetch_active => /\ Flight # <<>>
                       /\ \A k \in DOMAIN Flight : Stops(Flight[k]) <=> k = Len(Flight)
  /\ status.valid => Fetched # <<>>
  /\ \A k \in DOMAIN Fetched : Fetched[k].kind = "fault" => k = Len(Fetched)
  /\ fetch_active => \A p \in Slots : p >= Len(Fetched) => FETCH2[p] = Bubble
  /\ status.valid /\ Serializers(Fetched) = {} => status.flaw < Len(Fetched)

(* A misfetch frees the payload from the first instruction of the bundle.   *)
Paying ==
  /\ PayloadInOrder
  /\ status.valid => status.pay = (payHead + 2 * Len(Behind)) % PaySize

IInv == TypeOK /\ Stopping /\ Paying /\ BranchQueueInOrder /\ HistoryPrecise


----------------------------------------------------------------------------
(* What is in flight.                                                       *)
LEMMA Lengths ==
  ASSUME TypeOK
  PROVE  /\ Behind \in Seq(Insts) /\ Len(Behind) = Len(window) + Len(DECODE)
         /\ Len(window) \in Nat /\ Len(DECODE) \in Nat
         /\ Len(Behind) <= Window + InstrPerCycle
         /\ Fetched \in Seq(Insts) /\ Len(Fetched) \in 0 .. InstrPerCycle
         /\ Flight \in Seq(Insts) /\ Len(Flight) = Len(Behind) + Len(Fetched)
         /\ DOMAIN Behind = 1 .. Len(Behind) /\ DOMAIN Fetched = 1 .. Len(Fetched)
         /\ DOMAIN Flight = 1 .. Len(Flight)
<1>1. /\ window \in Seq(Insts) /\ DECODE \in Seq(Insts) /\ FETCH2 \in Latches
      /\ Len(window) <= Window /\ Len(DECODE) <= InstrPerCycle
  BY DEF TypeOK, Latches
<1>2. /\ Len(window) \in Nat /\ Len(DECODE) \in Nat
      /\ Window \in Nat /\ InstrPerCycle \in Nat
  BY <1>1, Sizes, LenProperties
<1>3. Behind \in Seq(Insts) /\ Len(Behind) = Len(window) + Len(DECODE)
  BY <1>1, ConcatProperties DEF Behind
<1>4. Fetched \in Seq(Insts) /\ Len(Fetched) \in 0 .. InstrPerCycle
  <2>1. CASE status.valid
    BY <1>1, <2>1, WalkIs, WalkedIs DEF Fetched
  <2>2. CASE ~ status.valid
    BY <1>2, <2>2, EmptySeq DEF Fetched
  <2>3. QED
    BY <2>1, <2>2
<1>5. Flight \in Seq(Insts) /\ Len(Flight) = Len(Behind) + Len(Fetched)
  BY <1>3, <1>4, ConcatProperties DEF Flight
<1>6. Len(Behind) <= Window + InstrPerCycle
  BY <1>1, <1>2, <1>3
<1>7. /\ DOMAIN Behind = 1 .. Len(Behind) /\ DOMAIN Fetched = 1 .. Len(Fetched)
      /\ DOMAIN Flight = 1 .. Len(Flight)
  BY <1>3, <1>4, <1>5, LenProperties
<1>8. QED
  BY <1>2, <1>3, <1>4, <1>5, <1>6, <1>7

LEMMA InFlightIs ==
  ASSUME TypeOK
  PROVE  /\ \A k \in 1 .. Len(window) : Behind[k] = window[k] /\ k \in 1 .. Len(Behind)
         /\ \A k \in 1 .. Len(DECODE) : Behind[Len(window) + k] = DECODE[k]
         /\ \A k \in 1 .. Len(Behind) : Behind[k] \in Insts /\ Flight[k] = Behind[k]
         /\ \A k \in 1 .. Len(Fetched) :
              Fetched[k] \in Insts /\ Flight[Len(Behind) + k] = Fetched[k]
<1>1. window \in Seq(Insts) /\ DECODE \in Seq(Insts)
  BY DEF TypeOK
<1>2. /\ Behind \in Seq(Insts) /\ Fetched \in Seq(Insts)
      /\ Len(window) \in Nat /\ Len(DECODE) \in Nat
      /\ Len(Behind) = Len(window) + Len(DECODE) /\ Len(Fetched) \in Nat
  BY Lengths
<1>3. \A i \in 1 .. Len(window) + Len(DECODE) :
        Behind[i] = IF i <= Len(window) THEN window[i] ELSE DECODE[i - Len(window)]
  BY <1>1, ConcatProperties DEF Behind
<1>4. \A i \in 1 .. Len(Behind) + Len(Fetched) :
        Flight[i] = IF i <= Len(Behind) THEN Behind[i] ELSE Fetched[i - Len(Behind)]
  BY <1>2, ConcatProperties DEF Flight
<1>5. \A k \in 1 .. Len(window) : Behind[k] = window[k] /\ k \in 1 .. Len(Behind)
  BY <1>2, <1>3
<1>6. ASSUME NEW k \in 1 .. Len(DECODE) PROVE Behind[Len(window) + k] = DECODE[k]
  <2>1. /\ Len(window) + k \in 1 .. Len(window) + Len(DECODE)
        /\ ~ (Len(window) + k <= Len(window)) /\ Len(window) + k - Len(window) = k
    BY <1>2
  <2>2. QED
    BY <1>3, <2>1
<1>7. ASSUME NEW k \in 1 .. Len(Behind) PROVE Behind[k] \in Insts /\ Flight[k] = Behind[k]
  BY <1>2, <1>4, ElementOfSeq
<1>8. ASSUME NEW k \in 1 .. Len(Fetched)
      PROVE  Fetched[k] \in Insts /\ Flight[Len(Behind) + k] = Fetched[k]
  <2>1. /\ Len(Behind) + k \in 1 .. Len(Behind) + Len(Fetched)
        /\ ~ (Len(Behind) + k <= Len(Behind)) /\ Len(Behind) + k - Len(Behind) = k
    BY <1>2
  <2>2. Flight[Len(Behind) + k] = Fetched[k]
    BY <1>4, <2>1
  <2>3. QED
    BY <1>2, <2>2, ElementOfSeq
<1>9. QED
  BY <1>5, <1>6, <1>7, <1>8

(* Less than the payload holds is ever in flight.                           *)
LEMMA PaySpace ==
  ASSUME TypeOK
  PROVE  2 * Len(Flight) < PaySize /\ 2 * (Len(Behind) + InstrPerCycle) < PaySize
<1>1. /\ Len(Behind) \in Nat /\ Len(Behind) <= Window + InstrPerCycle
      /\ Len(Fetched) \in 0 .. InstrPerCycle /\ Len(Flight) = Len(Behind) + Len(Fetched)
  BY Lengths
<1>2. QED
  BY <1>1, Sizes

LEMMA InRange ==
  ASSUME NEW n \in Nat \ {0}, NEW a \in Nat
  PROVE  a % n \in 0 .. n - 1
BY SMT

LEMMA OfABundle ==
  ASSUME NEW b \in Bundles
  PROVE  /\ b \in Seq(Insts) /\ Len(b) \in 1 .. InstrPerCycle
         /\ \A k \in 1 .. Len(b) : b[k].kind = "fault" => k = Len(b)
<1>1. InstrPerCycle \in Nat \ {0}
  BY Sizes
<1>2. PICK n \in 1 .. InstrPerCycle : b \in [1 .. n -> BundleInsts]
  BY DEF Bundles
<1>3. \A i \in BundleInsts : i \in Insts
  BY Zeros DEF BundleInsts, Inst, Insts, Bubble
<1>4. b \in [1 .. n -> Insts] /\ n \in Nat
  BY <1>1, <1>2, <1>3
<1>5. b \in Seq(Insts) /\ Len(b) = n
  BY <1>4
<1>6. \A k \in 1 .. Len(b) - 1 : ~ EndsBundle(b[k])
  BY DEF Bundles
<1>7. ASSUME NEW k \in 1 .. Len(b), b[k].kind = "fault" PROVE k = Len(b)
  <2>1. EndsBundle(b[k])
    BY <1>7 DEF EndsBundle
  <2>2. k \notin 1 .. Len(b) - 1
    BY <1>6, <2>1
  <2>3. QED
    BY <1>5, <2>2
<1>8. QED
  BY <1>2, <1>5, <1>7

----------------------------------------------------------------------------
(* What the steps do with the instructions in flight.                       *)
LEMMA NoFetch2Is ==
  NoFetch2 \in Latches /\ \A p \in Slots : NoFetch2[p] = Bubble
BY DEF NoFetch2, Latches

LEMMA NoStatusIs ==
  /\ ~ NoStatus.valid
  /\ NoStatus \in [valid : BOOLEAN, bhr : Histories, pay : PayIndex, flaw : {None} \cup Slots]
BY Zeros DEF NoStatus, Histories

LEMMA Fetch1Moves ==
  ASSUME IInv, Fetch1
  PROVE  /\ Behind' = Behind /\ Fetched = <<>> /\ FETCH2' \in Latches
         /\ status'.valid /\ status'.bhr = bhr /\ status'.pay = payTail
         /\ status'.flaw \in {None} \cup Slots /\ status'.flaw < Len(Fetched')
         /\ \A p \in Slots : p >= Len(Fetched') => FETCH2'[p] = Bubble
         /\ Fetched' \in Seq(Insts) /\ Len(Fetched') \in 1 .. InstrPerCycle
         /\ \A k \in 1 .. Len(Fetched') : /\ Fetched'[k].pay = (payTail + 2 * (k - 1)) % PaySize
                                          /\ Fetched'[k].kind = "fault" => k = Len(Fetched')
         /\ bhr' \in Histories /\ (status'.flaw = None => bhr' = After(bhr, Fetched'))
         /\ payTail' = (payTail + 2 * Len(Fetched')) % PaySize
         /\ payLength' = payLength + 2 * Len(Fetched')
<1>1. PICK b \in Bundles, flaw \in {None} \cup Slots, h \in Histories :
        /\ flaw < Len(b)
        /\ flaw = None => h = After(bhr, b)
        /\ bhr' = h
        /\ status' = [valid |-> TRUE, bhr |-> bhr, pay |-> payTail, flaw |-> flaw]
        /\ FETCH2' = [pos \in Slots |->
             IF pos < Len(b)
             THEN [b[pos + 1] EXCEPT !.pay = (payTail + 2 * pos) % PaySize]
             ELSE FETCH2[pos]]
        /\ payTail' = (payTail + 2 * Len(b)) % PaySize
        /\ payLength' = payLength + 2 * Len(b)
  BY DEF Fetch1
<1>2. /\ b \in Seq(Insts) /\ Len(b) \in 1 .. InstrPerCycle
      /\ \A k \in 1 .. Len(b) : b[k].kind = "fault" => k = Len(b)
  BY OfABundle
<1>3. /\ InstrPerCycle \in Nat \ {0} /\ PaySize \in Nat \ {0}
      /\ fetch_active /\ ~ status.valid /\ payTail \in PayIndex /\ FETCH2 \in Latches
      /\ bhr \in Histories
  BY Sizes DEF IInv, TypeOK, Fetch1, Latches
<1>4. Fetched = <<>> /\ Len(Fetched) = 0
  BY <1>3 DEF Fetched
<1>5. \A p \in Slots : FETCH2[p] = Bubble
  <2>1. \A p \in Slots : p >= Len(Fetched) => FETCH2[p] = Bubble
    BY <1>3 DEF IInv, Stopping
  <2>2. QED
    BY <1>4, <2>1 DEF Slots
<1>6. Behind' = Behind
  BY DEF Fetch1, Behind
<1> DEFINE Put(p) == [b[p + 1] EXCEPT !.pay = (payTail + 2 * p) % PaySize]
<1>7. ASSUME NEW p \in Slots, p < Len(b)
      PROVE  /\ FETCH2'[p] = Put(p) /\ Put(p) \in Insts
             /\ Put(p).kind = b[p + 1].kind /\ Put(p).taken = b[p + 1].taken
             /\ Put(p).pay = (payTail + 2 * p) % PaySize
  <2>1. p \in Nat /\ p + 1 \in 1 .. Len(b)
    BY <1>2, <1>3, <1>7 DEF Slots
  <2>2. b[p + 1] \in Insts
    BY <1>2, <2>1, ElementOfSeq
  <2>3. (payTail + 2 * p) % PaySize \in PayIndex
    <3>1. payTail + 2 * p \in Nat
      BY <1>3, <2>1 DEF PayIndex
    <3>2. QED
      BY <1>3, <3>1, InRange DEF PayIndex
  <2>4. FETCH2'[p] = Put(p)
    BY <1>1, <1>7
  <2>5. QED
    BY <2>2, <2>3, <2>4 DEF Insts
<1>8. ASSUME NEW p \in Slots, ~ (p < Len(b)) PROVE FETCH2'[p] = Bubble
  BY <1>1, <1>5, <1>8
<1> HIDE DEF Put
<1>9. FETCH2' \in Latches
  <2>1. \A p \in Slots : FETCH2'[p] \in Insts \cup {Bubble}
    BY <1>7, <1>8
  <2>2. QED
    BY <1>1, <2>1 DEF Latches
<1>10. Walked(FETCH2') = Len(b)
  <2>1. ASSUME NEW p \in 0 .. Len(b) - 1 PROVE FETCH2'[p].kind # "none"
    <3>1. p \in Slots /\ p < Len(b)
      BY <1>2, <1>3 DEF Slots
    <3>2. QED
      BY <1>7, <3>1, NotABubble
  <2>2. ASSUME Len(b) < InstrPerCycle PROVE FETCH2'[Len(b)].kind = "none"
    <3>1. Len(b) \in Slots /\ ~ (Len(b) < Len(b))
      BY <1>2, <1>3, <2>2 DEF Slots
    <3>2. QED
      BY <1>8, <3>1 DEF Bubble
  <2>3. EndsAt(FETCH2', Len(b)) /\ Len(b) \in 0 .. InstrPerCycle
    BY <1>2, <1>3, <2>1, <2>2 DEF EndsAt
  <2>4. QED
    BY <1>9, <2>3, WalkedOnce
<1>11. /\ Fetched' \in Seq(Insts) /\ Len(Fetched') = Len(b)
       /\ \A k \in 1 .. Len(b) : Fetched'[k] = FETCH2'[k - 1]
  <2>1. Fetched' = Walk(FETCH2')
    BY <1>1 DEF Fetched
  <2>2. QED
    BY <1>9, <1>10, <2>1, WalkIs
<1>12. ASSUME NEW k \in 1 .. Len(b)
       PROVE  /\ Fetched'[k].pay = (payTail + 2 * (k - 1)) % PaySize
              /\ Fetched'[k].kind = b[k].kind /\ Fetched'[k].taken = b[k].taken
  <2>1. k - 1 \in Slots /\ k - 1 < Len(b) /\ k - 1 + 1 = k
    BY <1>2, <1>3 DEF Slots
  <2>2. QED
    BY <1>7, <1>11, <2>1
<1>13. After(bhr, Fetched') = After(bhr, b)
  BY <1>2, <1>3, <1>11, <1>12, AlongAlike
<1>14. \A p \in Slots : p >= Len(b) => FETCH2'[p] = Bubble
  <2>1. \A p \in Slots : p >= Len(b) => ~ (p < Len(b))
    BY <1>2, <1>3 DEF Slots
  <2>2. QED
    BY <1>8, <2>1
<1>15. status'.valid /\ status'.bhr = bhr /\ status'.pay = payTail /\ status'.flaw = flaw
  BY <1>1
<1>16. \A k \in 1 .. Len(b) : Fetched'[k].kind = "fault" => k = Len(b)
  BY <1>2, <1>12
<1>17. bhr' \in Histories /\ (status'.flaw = None => bhr' = After(bhr, Fetched'))
  BY <1>1, <1>13, <1>15
<1>18. QED
  BY <1>1, <1>2, <1>4, <1>6, <1>9, <1>11, <1>12, <1>14, <1>15, <1>16, <1>17

LEMMA PredecodeCuts ==
  ASSUME IInv, Predecoded, NEW c, c = Cut(Walk(FETCH2))
  PROVE  /\ status.valid /\ Fetched = Walk(FETCH2) /\ FETCH2 \in Latches
         /\ c \in Seq(Insts) /\ Len(c) \in 1 .. Len(Fetched) /\ Len(c) \in Nat
         /\ \A k \in 1 .. Len(c) : c[k] = Fetched[k] /\ c[k] \in Insts
                                   /\ (Stops(c[k]) => k = Len(c))
         /\ fetch_active' \in BOOLEAN
         /\ fetch_active' <=> fetch_active /\ ~ Stops(c[Len(c)])
         /\ \/ /\ Serializers(Fetched) = {} /\ c = Fetched /\ status.flaw = None
               /\ UNCHANGED payVars
            \/ /\ Serializers(Fetched) # {} /\ Stops(c[Len(c)]) /\ c[Len(c)].kind = "ser"
               /\ PayTo(PayAfter(c[Len(c)]))
<1>1. /\ status.valid /\ ~ (status.flaw # None /\ status.flaw < Len(c))
      /\ fetch_active' = (fetch_active /\ \A i \in ToSet(c) : ~ Stops(i))
      /\ PredecodePay
  BY DEF Predecoded
<1>2. Fetched = Walk(FETCH2)
  BY <1>1 DEF Fetched
<1>3. TypeOK /\ Stopping
  BY DEF IInv
<1>4. Fetched \in Seq(Insts) /\ Len(Fetched) \in Nat /\ DOMAIN Fetched = 1 .. Len(Fetched)
  BY <1>3, Lengths
<1>5. /\ c \in Seq(Insts) /\ Len(c) \in 0 .. Len(Fetched)
      /\ Len(c) >= 1
      /\ \A k \in 1 .. Len(c) : c[k] = Fetched[k]
      /\ \A k \in 1 .. Len(c) - 1 : c[k].kind # "ser"
      /\ Serializers(Fetched) = {} => c = Fetched
      /\ Serializers(Fetched) # {} => c[Len(c)].kind = "ser"
  <2>1. Fetched # <<>>
    BY <1>1, <1>3 DEF Stopping
  <2>2. QED
    BY <1>2, <1>4, <2>1, CutIs
<1>6. /\ Len(c) \in 1 .. Len(Fetched) /\ DOMAIN c = 1 .. Len(c)
      /\ Len(c) \in Nat /\ Len(c) <= Len(Fetched) /\ FETCH2 \in Latches
  BY <1>3, <1>4, <1>5, LenProperties DEF TypeOK, Latches
<1>7. ASSUME NEW k \in 1 .. Len(c)
      PROVE  c[k] = Fetched[k] /\ c[k] \in Insts /\ (Stops(c[k]) => k = Len(c))
  <2>1. k \in 1 .. Len(Fetched) /\ c[k] = Fetched[k] /\ c[k] \in Insts
    BY <1>4, <1>5, <1>6, ElementOfSeq
  <2>2. CASE c[k].kind = "ser"
    <3>1. k \notin 1 .. Len(c) - 1
      BY <1>5, <2>2
    <3>2. k = Len(c)
      <4>1. PICK n \in Nat : n = Len(c)
        BY <1>6
      <4>2. k \in 1 .. n /\ k \notin 1 .. n - 1
        BY <1>6, <3>1, <4>1
      <4>3. k = n
        BY <4>2
      <4>4. QED
        BY <4>1, <4>3
    <3>3. QED
      BY <2>1, <3>2
  <2>3. CASE c[k].kind = "fault"
    <3>1. k = Len(Fetched)
      BY <1>3, <1>4, <2>1, <2>3 DEF Stopping
    <3>2. k = Len(c)
      <4>1. PICK n \in Nat : n = Len(c)
        BY <1>6
      <4>2. k \in 1 .. n /\ n <= k
        BY <1>6, <3>1, <4>1
      <4>3. k = n
        BY <4>2
      <4>4. QED
        BY <4>1, <4>3
    <3>3. QED
      BY <2>1, <3>2
  <2>4. QED
    BY <2>1, <2>2, <2>3 DEF Stops
<1>8. fetch_active \in BOOLEAN
  BY <1>3 DEF TypeOK
<1>9. (\A i \in ToSet(c) : ~ Stops(i)) <=> ~ Stops(c[Len(c)])
  <2>1. \A i : i \in ToSet(c) <=> \E k \in 1 .. Len(c) : i = c[k]
    BY <1>6 DEF ToSet
  <2>2. Len(c) \in 1 .. Len(c)
    BY <1>4, <1>6
  <2>3. QED
    BY <1>7, <2>1, <2>2
<1>10. fetch_active' \in BOOLEAN /\ (fetch_active' <=> fetch_active /\ ~ Stops(c[Len(c)]))
  BY <1>1, <1>8, <1>9
<1>11. CASE Serializers(Fetched) = {}
  <2>1. c = Fetched
    BY <1>5, <1>11
  <2>2. status.flaw < Len(Fetched)
    BY <1>1, <1>3, <1>11 DEF Stopping
  <2>3. status.flaw = None
    BY <1>1, <2>1, <2>2
  <2>4. UNCHANGED payVars
    BY <1>1, <1>2, <1>11 DEF PredecodePay
  <2>5. QED
    BY <1>1, <1>2, <1>5, <1>6, <1>7, <1>10, <1>11, <2>1, <2>3, <2>4
<1>12. CASE Serializers(Fetched) # {}
  <2>1. c[Len(c)].kind = "ser" /\ Stops(c[Len(c)])
    BY <1>5, <1>12 DEF Stops
  <2>2. PayTo(PayAfter(c[Len(c)]))
    BY <1>1, <1>2, <1>12 DEF PredecodePay, Last
  <2>3. QED
    BY <1>1, <1>2, <1>5, <1>6, <1>7, <1>10, <1>12, <2>1, <2>2
<1>13. QED
  BY <1>11, <1>12

LEMMA StallMoves ==
  ASSUME IInv, Fetch2Stall
  PROVE  /\ Behind' = Behind /\ Fetched' = Cut(Walk(FETCH2)) /\ FETCH2' \in Latches
         /\ status' = status
         /\ Serializers(Fetched) = {} => FETCH2' = FETCH2
<1>1. Predecoded /\ FETCH2' = CutSlots /\ status' = status /\ DECODE' = DECODE
  BY DEF Fetch2Stall
<1>2. status.valid /\ Fetched = Walk(FETCH2) /\ FETCH2 \in Latches
  BY <1>1, PredecodeCuts
<1>3. window' = window
  BY <1>1 DEF Predecoded
<1>4. CutSlots \in Latches /\ Walk(CutSlots) = Cut(Walk(FETCH2))
  BY <1>2, CutSlotsIs
<1>5. Fetched' = Walk(FETCH2')
  BY <1>1, <1>2 DEF Fetched
<1>6. Serializers(Fetched) = {} => FETCH2' = FETCH2
  BY <1>1, <1>2 DEF CutSlots
<1>7. QED
  BY <1>1, <1>3, <1>4, <1>5, <1>6 DEF Behind

(* A bundle as it enters the DECODE latch.                                  *)
Tagged(c) ==
  [k \in DOMAIN c |->
     IF IsBranch(c[k])
     THEN [c[k] EXCEPT !.tag = TagAfter(Before(c, k)), !.phase = PhaseAfter(Before(c, k))]
     ELSE c[k]]

LEMMA TaggedIs ==
  ASSUME TypeOK, NEW c \in Seq(Insts)
  PROVE  /\ Tagged(c) \in Seq(Insts) /\ Len(Tagged(c)) = Len(c)
         /\ \A k \in 1 .. Len(c) :
              /\ Tagged(c)[k].kind = c[k].kind /\ Tagged(c)[k].taken = c[k].taken
              /\ Tagged(c)[k].pay = c[k].pay
              /\ IsBranch(c[k]) => /\ Tagged(c)[k].tag = TagAfter(Before(c, k))
                                   /\ Tagged(c)[k].phase = PhaseAfter(Before(c, k))
<1>1. Len(c) \in Nat /\ DOMAIN c = 1 .. Len(c)
  BY LenProperties
<1>2. BQSize \in Nat \ {0} /\ bqTail \in BQIndex /\ bqTailPhase \in {0, 1}
  BY Sizes DEF TypeOK
<1>3. ASSUME NEW k \in 1 .. Len(c)
      PROVE  /\ Tagged(c)[k] \in Insts
             /\ Tagged(c)[k].kind = c[k].kind /\ Tagged(c)[k].taken = c[k].taken
             /\ Tagged(c)[k].pay = c[k].pay
             /\ IsBranch(c[k]) => /\ Tagged(c)[k].tag = TagAfter(Before(c, k))
                                  /\ Tagged(c)[k].phase = PhaseAfter(Before(c, k))
  <2>1. PICK n : n = Before(c, k)
    OBVIOUS
  <2>2. c[k] \in Insts /\ n \in Nat
    <3>1. k \in Nat
      BY <1>1
    <3>2. QED
      BY <2>1, <3>1, BeforeFinite, ElementOfSeq
  <2>3. TagAfter(n) \in BQIndex /\ PhaseAfter(n) \in {0, 1}
    <3>1. bqTail + n \in Nat
      BY <1>2, <2>2 DEF BQIndex
    <3>2. (bqTail + n) % BQSize \in 0 .. BQSize - 1
      BY <1>2, <3>1, InRange
    <3>3. PhaseAfter(n) \in {0, 1}
      BY <1>2 DEF PhaseAfter
    <3>4. QED
      BY <3>2, <3>3 DEF TagAfter, BQIndex
  <2>4. Tagged(c)[k] = IF IsBranch(c[k])
                       THEN [c[k] EXCEPT !.tag = TagAfter(n), !.phase = PhaseAfter(n)]
                       ELSE c[k]
    BY <1>1, <2>1 DEF Tagged
  <2>5. QED
    BY <2>1, <2>2, <2>3, <2>4 DEF Insts
<1>4. Tagged(c) \in [1 .. Len(c) -> Insts]
  BY <1>1, <1>3 DEF Tagged
<1>5. Tagged(c) \in Seq(Insts) /\ Len(Tagged(c)) = Len(c)
  BY <1>1, <1>4
<1>6. QED
  BY <1>3, <1>5

LEMMA AdvanceMoves ==
  ASSUME IInv, Fetch2Advance, NEW c, c = Cut(Walk(FETCH2))
  PROVE  /\ Predecoded /\ window' = window /\ DECODE' = Tagged(c)
         /\ status' = NoStatus /\ Fetched' = <<>>
         /\ Behind = window /\ Behind' = Behind \o Tagged(c)
         /\ FETCH2' \in Latches
         /\ fetch_active' => \A p \in Slots : FETCH2'[p] = Bubble
         /\ bqTail' = TagAfter(Before(c, Len(c) + 1))
         /\ bqTailPhase' = PhaseAfter(Before(c, Len(c) + 1))
         /\ bqHead' = bqHead /\ bqHeadPhase' = bqHeadPhase
<1>1. /\ Predecoded /\ DECODE = <<>> /\ status' = NoStatus
      /\ DECODE' = Tagged(c)
      /\ FETCH2' = [pos \in Slots |-> IF pos < Len(c) THEN Bubble ELSE CutSlots[pos]]
      /\ bqTail' = TagAfter(Before(c, Len(c) + 1))
      /\ bqTailPhase' = PhaseAfter(Before(c, Len(c) + 1))
      /\ bqHead' = bqHead /\ bqHeadPhase' = bqHeadPhase
  BY DEF Fetch2Advance, Tagged
<1>2. window' = window /\ window \in Seq(Insts) /\ DECODE \in Seq(Insts)
  BY <1>1 DEF Predecoded, IInv, TypeOK
<1>3. Behind = window
  BY <1>1, <1>2, ConcatEmptySeq DEF Behind
<1>4. Behind' = Behind \o Tagged(c)
  BY <1>1, <1>2, <1>3 DEF Behind
<1>5. Fetched' = <<>>
  BY <1>1, NoStatusIs DEF Fetched
<1>6. FETCH2 \in Latches /\ Fetched = Walk(FETCH2)
  BY <1>1, PredecodeCuts
<1>7. CutSlots \in Latches
  BY <1>6, CutSlotsIs
<1>8. FETCH2' \in Latches
  BY <1>1, <1>7 DEF Latches
<1>9. ASSUME fetch_active', NEW p \in Slots PROVE FETCH2'[p] = Bubble
  <2>1. Serializers(Fetched) = {} /\ c = Fetched /\ fetch_active
    BY <1>1, <1>9, PredecodeCuts
  <2>2. CutSlots = FETCH2
    BY <1>6, <2>1 DEF CutSlots
  <2>3. ~ (p < Len(c)) => FETCH2[p] = Bubble
    <3>1. \A i \in Slots : i >= Len(Fetched) => FETCH2[i] = Bubble
      BY <2>1 DEF IInv, Stopping
    <3>2. Len(Fetched) \in Nat /\ p \in Nat
      BY Lengths DEF IInv, Slots
    <3>3. QED
      BY <2>1, <3>1, <3>2
  <2>4. QED
    BY <1>1, <2>2, <2>3
<1>10. QED
  BY <1>1, <1>2, <1>3, <1>4, <1>5, <1>8, <1>9

(* Decode hands its bundle on.                                              *)
LEMMA DecodeMoves ==
  ASSUME TypeOK, Decode
  PROVE  Behind' = Behind
<1>1. window' = Behind /\ DECODE' = <<>> /\ Behind \in Seq(Insts)
  BY Lengths DEF Decode, Behind
<1>2. QED
  BY <1>1, ConcatEmptySeq DEF Behind

(* An instruction leaves at the head.                                       *)
LEMMA CommitMoves ==
  ASSUME TypeOK, window # <<>>, window' = Tail(window), DECODE' = DECODE
  PROVE  /\ Behind # <<>> /\ Behind' = Tail(Behind)
         /\ Len(Behind) >= 1 /\ Behind' \in Seq(Insts) /\ Len(Behind') = Len(Behind) - 1
         /\ Head(window) = Behind[1]
         /\ \A k \in 1 .. Len(Behind') : Behind'[k] = Behind[k + 1]
<1>1. window \in Seq(Insts) /\ DECODE \in Seq(Insts)
  BY DEF TypeOK
<1>2. /\ Len(window) \in Nat \ {0} /\ Len(DECODE) \in Nat
      /\ Behind \in Seq(Insts) /\ Len(Behind) = Len(window) + Len(DECODE)
  BY <1>1, EmptySeq, Lengths
<1>3. /\ Tail(window) \in Seq(Insts) /\ Len(Tail(window)) = Len(window) - 1
      /\ \A k \in 1 .. Len(Tail(window)) : Tail(window)[k] = window[k + 1]
  BY <1>1, HeadTailProperties
<1>4. Behind # <<>> /\ Len(Behind) >= 1
  BY <1>2, EmptySeq
<1>5. /\ Tail(Behind) \in Seq(Insts) /\ Len(Tail(Behind)) = Len(Behind) - 1
      /\ \A k \in 1 .. Len(Tail(Behind)) : Tail(Behind)[k] = Behind[k + 1]
  BY <1>2, <1>4, HeadTailProperties
<1>6. PICK t : t = Tail(window) \o DECODE
  OBVIOUS
<1>7. /\ t \in Seq(Insts) /\ Len(t) = Len(window) - 1 + Len(DECODE)
      /\ \A k \in 1 .. Len(window) - 1 + Len(DECODE) :
           t[k] = IF k <= Len(window) - 1 THEN Tail(window)[k]
                  ELSE DECODE[k - (Len(window) - 1)]
  BY <1>1, <1>3, <1>6, ConcatProperties
<1>8. \A k \in 1 .. Len(window) + Len(DECODE) :
        Behind[k] = IF k <= Len(window) THEN window[k] ELSE DECODE[k - Len(window)]
  BY <1>1, ConcatProperties DEF Behind
<1>9. ASSUME NEW k \in 1 .. Len(t) PROVE t[k] = Tail(Behind)[k]
  <2>1. k + 1 \in 1 .. Len(window) + Len(DECODE) /\ k \in 1 .. Len(Tail(Behind))
    BY <1>2, <1>5, <1>7
  <2>2. t[k] = Behind[k + 1]
    <3>1. CASE k <= Len(window) - 1
      <4>1. k + 1 <= Len(window) /\ k \in 1 .. Len(Tail(window))
        BY <1>2, <1>3, <3>1
      <4>2. QED
        BY <1>3, <1>7, <1>8, <2>1, <3>1, <4>1
    <3>2. CASE ~ (k <= Len(window) - 1)
      <4>1. ~ (k + 1 <= Len(window)) /\ k - (Len(window) - 1) = k + 1 - Len(window)
        BY <1>2, <3>2
      <4>2. QED
        BY <1>7, <1>8, <2>1, <3>2, <4>1
    <3>3. QED
      BY <3>1, <3>2
  <2>3. QED
    BY <1>5, <2>1, <2>2
<1>10. t = Tail(Behind)
  <2>1. Len(t) = Len(Tail(Behind))
    BY <1>2, <1>5, <1>7
  <2>2. QED
    BY <1>5, <1>7, <1>9, <2>1, SeqEqual
<1>11. Behind' = Tail(Behind)
  BY <1>6, <1>10 DEF Behind
<1>12. Head(window) = Behind[1]
  <2>1. 1 \in 1 .. Len(window) + Len(DECODE) /\ 1 <= Len(window)
    BY <1>2
  <2>2. Head(window) = window[1]
    BY <1>1
  <2>3. QED
    BY <1>8, <2>1, <2>2
<1>13. QED
  BY <1>4, <1>5, <1>11, <1>12

(* A branch that was predicted right changes nothing but its own mark.      *)
LEMMA ResolveMoves ==
  ASSUME TypeOK, NEW k \in DOMAIN window, ResolveCorrect(k)
  PROVE  /\ window' \in Seq(Insts) /\ Len(window') = Len(window)
         /\ Behind' \in Seq(Insts) /\ Len(Behind') = Len(Behind)
         /\ \A j \in 1 .. Len(Behind) :
              /\ Behind'[j].kind = Behind[j].kind /\ Behind'[j].taken = Behind[j].taken
              /\ Behind'[j].tag = Behind[j].tag /\ Behind'[j].phase = Behind[j].phase
              /\ Behind'[j].pay = Behind[j].pay
<1>1. window \in Seq(Insts) /\ DECODE \in Seq(Insts) /\ DECODE' = DECODE
  BY DEF TypeOK, ResolveCorrect
<1>2. /\ Len(window) \in Nat /\ Len(DECODE) \in Nat /\ DOMAIN window = 1 .. Len(window)
      /\ Behind \in Seq(Insts) /\ Len(Behind) = Len(window) + Len(DECODE)
  BY <1>1, Lengths, LenProperties
<1>3. window' = [window EXCEPT ![k] = [window[k] EXCEPT !.resolved = TRUE]]
  BY <1>1, <1>2 DEF ResolveCorrect
<1>4. window[k] \in Insts
  BY <1>1, <1>2, ElementOfSeq
<1>5. PICK r : r = [window[k] EXCEPT !.resolved = TRUE]
  OBVIOUS
<1>6. /\ r \in Insts /\ r.kind = window[k].kind /\ r.taken = window[k].taken
      /\ r.tag = window[k].tag /\ r.phase = window[k].phase /\ r.pay = window[k].pay
  BY <1>4, <1>5 DEF Insts
<1>7. /\ window' \in Seq(Insts) /\ Len(window') = Len(window)
      /\ \A j \in 1 .. Len(window) : window'[j] = IF j = k THEN r ELSE window[j]
  BY <1>1, <1>2, <1>3, <1>5, <1>6, ExceptSeq
<1>8. /\ Behind' \in Seq(Insts) /\ Len(Behind') = Len(window) + Len(DECODE)
      /\ \A j \in 1 .. Len(window) + Len(DECODE) :
           Behind'[j] = IF j <= Len(window) THEN window'[j] ELSE DECODE[j - Len(window)]
  <2>1. PICK t : t = window'
    OBVIOUS
  <2>2. Behind' = t \o DECODE
    BY <1>1, <2>1 DEF Behind
  <2>3. /\ t \o DECODE \in Seq(Insts) /\ Len(t \o DECODE) = Len(t) + Len(DECODE)
        /\ \A j \in 1 .. Len(t) + Len(DECODE) :
             (t \o DECODE)[j] = IF j <= Len(t) THEN t[j] ELSE DECODE[j - Len(t)]
    BY <1>1, <1>7, <2>1, ConcatProperties
  <2>4. QED
    BY <1>7, <2>1, <2>2, <2>3
<1>9. \A j \in 1 .. Len(window) + Len(DECODE) :
        Behind[j] = IF j <= Len(window) THEN window[j] ELSE DECODE[j - Len(window)]
  BY <1>1, ConcatProperties DEF Behind
<1>10. ASSUME NEW j \in 1 .. Len(Behind)
       PROVE  Behind'[j] = Behind[j] \/ (Behind'[j] = r /\ Behind[j] = window[k])
  <2>1. CASE j <= Len(window)
    <3>1. j \in 1 .. Len(window)
      BY <1>2, <2>1
    <3>2. QED
      BY <1>2, <1>7, <1>8, <1>9, <2>1, <3>1
  <2>2. CASE ~ (j <= Len(window))
    BY <1>2, <1>8, <1>9, <2>2
  <2>3. QED
    BY <2>1, <2>2
<1>11. QED
  BY <1>2, <1>6, <1>7, <1>8, <1>10

(* A mispredicted branch is the youngest that stays, with its outcome.      *)
LEMMA MispredictMoves ==
  ASSUME TypeOK, NEW k \in DOMAIN window, Mispredict(k)
  PROVE  /\ k \in 1 .. Len(Behind) /\ Behind[k] = window[k] /\ IsBranch(Behind[k])
         /\ window' \in Seq(Insts) /\ Len(window') = k /\ Len(window') <= Window
         /\ DECODE' = <<>> /\ Behind' = window' /\ Fetched' = <<>>
         /\ \A j \in 1 .. k - 1 : Behind'[j] = Behind[j]
         /\ Behind'[k].kind = Behind[k].kind /\ Behind'[k].pay = Behind[k].pay
         /\ Behind'[k].tag = Behind[k].tag /\ Behind'[k].phase = Behind[k].phase
         /\ bq' = [bq EXCEPT ![Behind[k].tag].taken = Behind'[k].taken]
         /\ bhr' = Shift(bq[Behind[k].tag].bhr, Behind'[k])
<1>1. window \in Seq(Insts) /\ Len(window) <= Window
  BY DEF TypeOK
<1>2. /\ Len(window) \in Nat /\ DOMAIN window = 1 .. Len(window)
      /\ Window \in Nat /\ k \in Nat /\ k \in 1 .. Len(window)
  BY <1>1, Sizes, LenProperties
<1>3. PICK r : r = [window[k] EXCEPT !.resolved = TRUE,
                       !.taken = IF window[k].kind = "br" THEN ~ window[k].taken ELSE @]
  OBVIOUS
<1>4. /\ IsBranch(window[k])
      /\ window' = Append(SubSeq(window, 1, k - 1), r)
      /\ DECODE' = <<>> /\ status' = NoStatus
      /\ bq' = [bq EXCEPT ![window[k].tag].taken = r.taken]
      /\ bhr' = Shift(bq[window[k].tag].bhr, r)
  BY <1>3 DEF Mispredict, SquashFetch2
<1>5. window[k] \in Insts
  BY <1>1, <1>2, ElementOfSeq
<1>6. /\ r \in Insts /\ r.kind = window[k].kind /\ r.tag = window[k].tag
      /\ r.phase = window[k].phase /\ r.pay = window[k].pay
  BY <1>3, <1>5 DEF Insts
<1>7. PICK s : s = SubSeq(window, 1, k - 1)
  OBVIOUS
<1>8. s \in Seq(Insts) /\ Len(s) = k - 1 /\ \A j \in 1 .. k - 1 : s[j] = window[j]
  <2>1. \A j \in 1 .. k - 1 : window[j] \in Insts
    BY <1>1, <1>2, ElementOfSeq
  <2>2. 1 \in Int /\ k - 1 \in Int
    BY <1>2
  <2>3. /\ s \in Seq(Insts) /\ Len(s) = IF 1 <= k - 1 THEN k - 1 - 1 + 1 ELSE 0
        /\ \A j \in 1 .. k - 1 - 1 + 1 : s[j] = window[1 + j - 1]
    BY <1>7, <2>1, <2>2, SubSeqProperties
  <2>4. Len(s) = k - 1
    BY <1>2, <2>3
  <2>5. ASSUME NEW j \in 1 .. k - 1 PROVE s[j] = window[j]
    <3>1. j \in 1 .. k - 1 - 1 + 1 /\ 1 + j - 1 = j
      BY <1>2
    <3>2. QED
      BY <2>3, <3>1
  <2>6. QED
    BY <2>3, <2>4, <2>5
<1>9. /\ window' \in Seq(Insts) /\ Len(window') = k
      /\ \A j \in 1 .. k - 1 : window'[j] = window[j]
      /\ window'[k] = r
  <2>1. /\ window' \in Seq(Insts) /\ Len(window') = Len(s) + 1
        /\ \A j \in 1 .. Len(s) : window'[j] = s[j]
        /\ window'[Len(s) + 1] = r
    BY <1>4, <1>6, <1>7, <1>8, AppendProperties
  <2>2. Len(s) + 1 = k
    BY <1>2, <1>8
  <2>3. QED
    BY <1>8, <2>1, <2>2
<1>10. Behind' = window'
  BY <1>4, <1>9, ConcatEmptySeq DEF Behind
<1>11. Fetched' = <<>>
  BY <1>4, NoStatusIs DEF Fetched
<1>12. /\ \A j \in 1 .. Len(window) : Behind[j] = window[j] /\ j \in 1 .. Len(Behind)
  BY InFlightIs
<1>13. \A j \in 1 .. k - 1 : j \in 1 .. Len(window)
  BY <1>2
<1>14. k <= Window
  BY <1>1, <1>2
<1>15. QED
  BY <1>2, <1>4, <1>6, <1>9, <1>10, <1>11, <1>12, <1>13, <1>14

----------------------------------------------------------------------------
(* Types.                                                                   *)
LEMMA TypeInit == Init => TypeOK
<1> SUFFICES ASSUME Init PROVE TypeOK
  OBVIOUS
<1>1. status \in [valid : BOOLEAN, bhr : Histories, pay : PayIndex, flaw : {None} \cup Slots]
  BY NoStatusIs DEF Init
<1>2. FETCH2 \in [Slots -> Insts \cup {Bubble}]
  BY NoFetch2Is DEF Init, Latches
<1>3. /\ DECODE \in Seq(Insts) /\ Len(DECODE) <= InstrPerCycle
      /\ window \in Seq(Insts) /\ Len(window) <= Window
  BY EmptySeq, Sizes DEF Init
<1>4. bq \in [BQIndex -> [bhr : Histories, taken : BOOLEAN]]
  BY DEF Init
<1>5. bhr \in Histories
  BY DEF Init, Histories
<1>6. payLength \in 0 .. PaySize
  BY Sizes DEF Init
<1>7. QED
  BY <1>1, <1>2, <1>3, <1>4, <1>5, <1>6, Zeros DEF Init, TypeOK

LEMMA PayToType ==
  ASSUME TypeOK, NEW t \in PayIndex, PayTo(t)
  PROVE  payHead' \in PayIndex /\ payTail' \in PayIndex /\ payLength' \in 0 .. PaySize
<1>1. /\ payTail' = t /\ payHead' = payHead /\ payHead \in PayIndex
      /\ payLength' = (PaySize + t - payHead) % PaySize
  BY DEF PayTo, TypeOK
<1>2. PICK a : a = PaySize + t - payHead
  OBVIOUS
<1>3. a \in Nat /\ PaySize \in Nat \ {0}
  BY <1>1, <1>2, Sizes DEF PayIndex
<1>4. a % PaySize \in 0 .. PaySize - 1
  BY <1>3, InRange
<1>5. payLength' \in 0 .. PaySize - 1
  BY <1>1, <1>2, <1>4
<1>6. QED
  BY <1>1, <1>3, <1>5

LEMMA PayAfterType ==
  ASSUME NEW i \in Insts
  PROVE  PayAfter(i) \in PayIndex
<1>1. PICK p : p = i.pay
  OBVIOUS
<1>2. p + 2 \in Nat /\ PaySize \in Nat \ {0}
  BY <1>1, Sizes DEF Insts, PayIndex
<1>3. (p + 2) % PaySize \in 0 .. PaySize - 1
  BY <1>2, InRange
<1>4. QED
  BY <1>1, <1>3 DEF PayAfter, PayIndex

LEMMA PayPopType ==
  ASSUME TypeOK, Paying, Flight # <<>>, PayPop
  PROVE  payHead' \in PayIndex /\ payTail' \in PayIndex /\ payLength' \in 0 .. PaySize
<1>1. /\ payHead' = (payHead + 2) % PaySize /\ payLength' = payLength - 2
      /\ payTail' = payTail
      /\ payHead \in PayIndex /\ payTail \in PayIndex /\ payLength \in 0 .. PaySize
  BY DEF PayPop, TypeOK
<1>2. payHead + 2 \in Nat /\ PaySize \in Nat \ {0}
  BY <1>1, Sizes DEF PayIndex
<1>3. payHead' \in PayIndex
  BY <1>1, <1>2, InRange DEF PayIndex
<1>4. Len(Flight) \in Nat \ {0}
  BY Lengths, EmptySeq
<1>5. payLength = 2 * Len(Flight)
  BY DEF Paying, PayloadInOrder
<1>6. payLength' \in 0 .. PaySize
  BY <1>1, <1>2, <1>4, <1>5
<1>7. QED
  BY <1>1, <1>3, <1>6

LEMMA InWindow ==
  ASSUME TypeOK, window # <<>>
  PROVE  Flight # <<>> /\ Len(Flight) >= 1 /\ Flight[1] = Head(window) /\ Head(window) \in Insts
<1>1. window \in Seq(Insts)
  BY DEF TypeOK
<1>2. Len(window) \in Nat \ {0} /\ Head(window) = window[1]
  BY <1>1, EmptySeq
<1>3. /\ Len(Behind) = Len(window) + Len(DECODE) /\ Len(DECODE) \in Nat
      /\ Flight \in Seq(Insts) /\ Len(Flight) = Len(Behind) + Len(Fetched)
      /\ Len(Fetched) \in Nat
  BY Lengths
<1>4. 1 \in 1 .. Len(window) /\ 1 \in 1 .. Len(Behind) /\ Len(Flight) >= 1
  BY <1>2, <1>3
<1>5. Flight[1] = window[1] /\ Flight[1] \in Insts
  BY <1>4, InFlightIs
<1>6. Flight # <<>>
  BY <1>3, <1>4, EmptySeq
<1>7. QED
  BY <1>2, <1>4, <1>5, <1>6

LEMMA FlushTypes ==
  ASSUME TypeOK, Flush
  PROVE  /\ bhr' \in Histories /\ fetch_active' = TRUE
         /\ status' = NoStatus /\ FETCH2' = NoFetch2
         /\ bq' = bq /\ bqHead' = bqHead /\ bqHeadPhase' = bqHeadPhase
         /\ bqTail' = bqHead /\ bqTailPhase' = bqHeadPhase
<1>1. bqHead \in BQIndex /\ bq \in [BQIndex -> [bhr : Histories, taken : BOOLEAN]]
  BY DEF TypeOK
<1>2. bq[bqHead].bhr \in Histories
  BY <1>1
<1>3. QED
  BY <1>2 DEF Flush, SquashFetch2, Squashed

(* The parts of TypeOK that a step sets.                                    *)
FrontTypes == /\ fetch_active \in BOOLEAN /\ bhr \in Histories
              /\ status \in [valid : BOOLEAN, bhr : Histories, pay : PayIndex,
                             flaw : {None} \cup Slots]
              /\ FETCH2 \in [Slots -> Insts \cup {Bubble}]
PipeTypes  == /\ DECODE \in Seq(Insts) /\ Len(DECODE) <= InstrPerCycle
              /\ window \in Seq(Insts) /\ Len(window) <= Window
QueueTypes == /\ bq \in [BQIndex -> [bhr : Histories, taken : BOOLEAN]]
              /\ bqHead \in BQIndex /\ bqTail \in BQIndex
              /\ bqHeadPhase \in {0, 1} /\ bqTailPhase \in {0, 1}
PayTypes   == payHead \in PayIndex /\ payTail \in PayIndex /\ payLength \in 0 .. PaySize

LEMMA TypeParts == TypeOK <=> FrontTypes /\ PipeTypes /\ QueueTypes /\ PayTypes
BY DEF TypeOK, FrontTypes, PipeTypes, QueueTypes, PayTypes

LEMMA TypeSame ==
  ASSUME TypeOK
  PROVE  /\ UNCHANGED <<fetch_active, bhr, status, FETCH2>> => FrontTypes'
         /\ UNCHANGED <<DECODE, window>> => PipeTypes'
         /\ UNCHANGED bqVars => QueueTypes'
         /\ UNCHANGED payVars => PayTypes'
BY TypeParts DEF FrontTypes, PipeTypes, QueueTypes, PayTypes, bqVars, payVars

LEMMA TypePartsNext ==
  ASSUME FrontTypes', PipeTypes', QueueTypes', PayTypes'
  PROVE  TypeOK'
BY DEF TypeOK, FrontTypes, PipeTypes, QueueTypes, PayTypes

LEMMA SquashedFront ==
  ASSUME fetch_active' = TRUE, bhr' \in Histories, status' = NoStatus, FETCH2' = NoFetch2
  PROVE  FrontTypes'
BY NoStatusIs, NoFetch2Is DEF FrontTypes, Latches

LEMMA FlushTypes2 ==
  ASSUME TypeOK, Flush
  PROVE  FrontTypes' /\ QueueTypes'
<1>1. FrontTypes'
  BY FlushTypes, SquashedFront
<1>2. QueueTypes'
  BY FlushTypes DEF TypeOK, QueueTypes
<1>3. QED
  BY <1>1, <1>2

LEMMA TypeStep == IInv /\ [Next]_vars => TypeOK'
<1> SUFFICES ASSUME IInv, [Next]_vars PROVE TypeOK'
  OBVIOUS
<1>0. TypeOK /\ Paying
  BY DEF IInv
<1>1. CASE Fetch1
  <2>1. FrontTypes'
    <3>1. /\ FETCH2' \in Latches /\ status'.flaw \in {None} \cup Slots /\ bhr' \in Histories
          /\ \E f : status' = [valid |-> TRUE, bhr |-> bhr, pay |-> payTail, flaw |-> f]
          /\ fetch_active' = fetch_active
      BY <1>1, Fetch1Moves DEF Fetch1
    <3>2. status' \in [valid : BOOLEAN, bhr : Histories, pay : PayIndex, flaw : {None} \cup Slots]
      BY <1>0, <3>1 DEF TypeOK
    <3>3. QED
      BY <1>0, <3>1, <3>2 DEF FrontTypes, TypeOK, Latches
  <2>2. PipeTypes' /\ QueueTypes'
    BY <1>0, <1>1, TypeSame DEF Fetch1, bqVars
  <2>3. PayTypes'
    <3>1. PICK n : n = Len(Fetched')
      OBVIOUS
    <3>2. /\ n \in 1 .. InstrPerCycle /\ Fetched = <<>>
          /\ payTail' = (payTail + 2 * n) % PaySize /\ payLength' = payLength + 2 * n
          /\ payHead' = payHead
      BY <1>1, <3>1, Fetch1Moves DEF Fetch1
    <3>3. /\ Len(Flight) = Len(Behind) + Len(Fetched) /\ Len(Fetched) = 0
          /\ Len(Behind) \in Nat /\ payLength = 2 * Len(Flight)
          /\ 2 * (Len(Behind) + InstrPerCycle) < PaySize
      BY <1>0, <3>2, Lengths, PaySpace, LenProperties DEF Paying, PayloadInOrder
    <3>4. InstrPerCycle \in Nat /\ PaySize \in Nat \ {0}
      BY Sizes
    <3>5. payLength' \in 0 .. PaySize
      BY <3>2, <3>3, <3>4
    <3>6. payTail' \in PayIndex
      <4>1. payTail + 2 * n \in Nat
        BY <1>0, <3>2, <3>4 DEF TypeOK, PayIndex
      <4>2. QED
        BY <3>2, <3>4, <4>1, InRange DEF PayIndex
    <3>7. QED
      BY <1>0, <3>2, <3>5, <3>6 DEF PayTypes, TypeOK
  <2>4. QED
    BY <2>1, <2>2, <2>3, TypePartsNext
<1>2. CASE Fetch2Misfetch
  <2>1. /\ fetch_active' = TRUE /\ SquashFetch2 /\ bhr' = status.bhr /\ PayTo(status.pay)
        /\ UNCHANGED <<DECODE, window, bqVars>>
    BY <1>2 DEF Fetch2Misfetch
  <2>2. status.bhr \in Histories /\ status.pay \in PayIndex
    BY <1>0 DEF TypeOK
  <2>3. FrontTypes'
    BY <2>1, <2>2, SquashedFront DEF SquashFetch2, Squashed
  <2>4. PayTypes'
    BY <1>0, <2>1, <2>2, PayToType DEF PayTypes
  <2>5. PipeTypes' /\ QueueTypes'
    BY <1>0, <2>1, TypeSame
  <2>6. QED
    BY <2>3, <2>4, <2>5, TypePartsNext
<1>3. ASSUME Predecoded PROVE PayTypes' /\ fetch_active' \in BOOLEAN
  <2>1. PICK c : c = Cut(Walk(FETCH2))
    OBVIOUS
  <2>2. /\ fetch_active' \in BOOLEAN /\ Len(c) \in 1 .. Len(Fetched) /\ Len(c) \in Nat
        /\ \A k \in 1 .. Len(c) : c[k] \in Insts
        /\ UNCHANGED payVars \/ PayTo(PayAfter(c[Len(c)]))
    BY <1>3, <2>1, PredecodeCuts
  <2>3. c[Len(c)] \in Insts
    BY <2>2
  <2>4. PayTypes'
    <3>1. CASE UNCHANGED payVars
      BY <1>0, <3>1, TypeSame
    <3>2. CASE PayTo(PayAfter(c[Len(c)]))
      BY <1>0, <2>3, <3>2, PayAfterType, PayToType DEF PayTypes
    <3>3. QED
      BY <2>2, <3>1, <3>2
  <2>5. QED
    BY <2>2, <2>4
<1>4. CASE Fetch2Stall
  <2>1. Predecoded /\ UNCHANGED <<status, DECODE, bqVars>> /\ UNCHANGED <<bhr, window>>
    BY <1>4 DEF Fetch2Stall, Predecoded
  <2>2. FETCH2' \in Latches
    BY <1>4, StallMoves
  <2>3. FrontTypes'
    BY <1>0, <1>3, <2>1, <2>2 DEF FrontTypes, TypeOK, Latches
  <2>4. PipeTypes' /\ QueueTypes' /\ PayTypes'
    BY <1>0, <1>3, <2>1, TypeSame
  <2>5. QED
    BY <2>3, <2>4, TypePartsNext
<1>5. CASE Fetch2Advance
  <2>1. PICK c : c = Cut(Walk(FETCH2))
    OBVIOUS
  <2>2. /\ Predecoded /\ window' = window /\ DECODE' = Tagged(c) /\ status' = NoStatus
        /\ FETCH2' \in Latches /\ bhr' = bhr
        /\ bqTail' = TagAfter(Before(c, Len(c) + 1))
        /\ bqTailPhase' = PhaseAfter(Before(c, Len(c) + 1))
        /\ bqHead' = bqHead /\ bqHeadPhase' = bqHeadPhase
    BY <1>5, <2>1, AdvanceMoves DEF Predecoded
  <2>3. c \in Seq(Insts) /\ Len(c) \in 1 .. Len(Fetched) /\ Len(c) \in Nat /\ status.valid
    BY <2>1, <2>2, PredecodeCuts
  <2>4. FrontTypes'
    BY <1>0, <1>3, <2>2, NoStatusIs DEF FrontTypes, TypeOK, Latches
  <2>5. PipeTypes'
    <3>1. DECODE' \in Seq(Insts) /\ Len(DECODE') = Len(c)
      BY <1>0, <2>2, <2>3, TaggedIs
    <3>2. Len(Fetched) \in 0 .. InstrPerCycle /\ InstrPerCycle \in Nat
      BY <1>0, Lengths, Sizes
    <3>3. Len(DECODE') <= InstrPerCycle
      BY <2>3, <3>1, <3>2
    <3>4. QED
      BY <1>0, <2>2, <3>1, <3>3 DEF PipeTypes, TypeOK
  <2>6. QueueTypes'
    <3>1. PICK n : n = Before(c, Len(c) + 1)
      OBVIOUS
    <3>2. n \in Nat
      <4>1. Len(c) + 1 \in Nat
        BY <2>3
      <4>2. QED
        BY <2>3, <3>1, <4>1, BeforeFinite
    <3>3. BQSize \in Nat \ {0} /\ bqTail \in BQIndex /\ bqTailPhase \in {0, 1}
      BY <1>0, Sizes DEF TypeOK
    <3>4. bqTail' \in BQIndex
      <4>1. bqTail + n \in Nat
        BY <3>2, <3>3 DEF BQIndex
      <4>2. PICK a \in Nat : a = bqTail + n
        BY <4>1
      <4>3. a % BQSize \in 0 .. BQSize - 1
        BY <3>3, InRange
      <4>4. bqTail' = a % BQSize
        BY <2>2, <3>1, <4>2 DEF TagAfter
      <4>5. QED
        BY <4>3, <4>4 DEF BQIndex
    <3>5. bqTailPhase' \in {0, 1}
      BY <2>2, <3>1, <3>3 DEF PhaseAfter
    <3>6. bq' \in [BQIndex -> [bhr : Histories, taken : BOOLEAN]]
      <4> DEFINE Mine(t) == {k \in Branches(c) : TagAfter(Before(c, k)) = t}
                 Pick(t) == CHOOSE k \in Branches(c) : TagAfter(Before(c, k)) = t
                 New(t)  == [bhr |-> PreciseHistory(c, Pick(t)), taken |-> c[Pick(t)].taken]
      <4>1. bq' = [t \in BQIndex |->
                     IF \E k \in Branches(c) : TagAfter(Before(c, k)) = t
                     THEN New(t) ELSE bq[t]]
        BY <1>5, <2>1 DEF Fetch2Advance
      <4>2. ASSUME NEW t \in BQIndex, \E k \in Branches(c) : TagAfter(Before(c, k)) = t
            PROVE  New(t) \in [bhr : Histories, taken : BOOLEAN]
        <5>1. PICK k : k = Pick(t)
          OBVIOUS
        <5>2. k \in Branches(c)
          BY <4>2, <5>1, Zenon
        <5>3. k \in 1 .. Len(c)
          BY <2>3, <5>2, BranchPlaces
        <5>4. c[k].taken \in BOOLEAN
          <6>1. c[k] \in Insts
            BY <2>3, <5>3, ElementOfSeq
          <6>2. QED
            BY <6>1 DEF Insts
        <5>5. status.bhr \in Histories
          BY <1>0 DEF TypeOK
        <5>6. Along(status.bhr, c) \in [0 .. Len(c) -> Histories]
          BY <2>3, <5>5, AlongIs
        <5>7. k - 1 \in 0 .. Len(c)
          BY <2>3, <5>3
        <5>8. Along(status.bhr, c)[k - 1] \in Histories
          BY <5>6, <5>7
        <5>9. QED
          BY <5>1, <5>4, <5>8 DEF PreciseHistory
      <4> HIDE DEF New
      <4>3. \A t \in BQIndex : bq[t] \in [bhr : Histories, taken : BOOLEAN]
        BY <1>0 DEF TypeOK
      <4>4. QED
        BY <4>1, <4>2, <4>3
    <3>7. QED
      BY <1>0, <2>2, <3>4, <3>5, <3>6 DEF QueueTypes, TypeOK
  <2>7. QED
    BY <1>3, <2>2, <2>4, <2>5, <2>6, TypePartsNext
<1>6. CASE Decode
  <2>1. /\ window' = Behind /\ DECODE' = <<>> /\ Len(window) + Len(DECODE) <= Window
        /\ UNCHANGED <<fetch_active, bhr, status, FETCH2, bqVars, payVars>>
    BY <1>6 DEF Decode, Behind
  <2>2. Behind \in Seq(Insts) /\ Len(Behind) = Len(window) + Len(DECODE)
    BY <1>0, Lengths
  <2>3. PipeTypes'
    BY <2>1, <2>2, EmptySeq, Sizes DEF PipeTypes
  <2>4. QED
    BY <1>0, <2>1, <2>3, TypeSame, TypePartsNext
<1>7. ASSUME NEW k \in DOMAIN window, ResolveCorrect(k) PROVE TypeOK'
  <2>1. UNCHANGED <<fetch_active, bhr, status, FETCH2, DECODE, bqVars, payVars>>
    BY <1>7 DEF ResolveCorrect
  <2>2. window' \in Seq(Insts) /\ Len(window') = Len(window)
    BY <1>0, <1>7, ResolveMoves
  <2>3. PipeTypes'
    BY <1>0, <2>1, <2>2 DEF PipeTypes, TypeOK
  <2>4. QED
    BY <1>0, <2>1, <2>3, TypeSame, TypePartsNext
<1>8. ASSUME NEW k \in DOMAIN window, Mispredict(k) PROVE TypeOK'
  <2>1. PICK i : i = window[k]
    OBVIOUS
  <2>2. /\ bqTail' = (i.tag + 1) % BQSize
        /\ bqTailPhase' = IF i.tag + 1 = BQSize THEN 1 - i.phase ELSE i.phase
        /\ fetch_active' = TRUE /\ status' = NoStatus /\ FETCH2' = NoFetch2
        /\ PayTo(PayAfter(i)) /\ UNCHANGED <<bqHead, bqHeadPhase>>
    BY <1>8, <2>1 DEF Mispredict, SquashFetch2, Squashed, Reactivated
  <2>3. /\ k \in 1 .. Len(Behind) /\ Behind[k] = i
        /\ window' \in Seq(Insts) /\ Len(window') = k /\ Len(window') <= Window
        /\ DECODE' = <<>>
        /\ bq' = [bq EXCEPT ![i.tag].taken = window'[k].taken]
        /\ bhr' = Shift(bq[i.tag].bhr, window'[k])
    BY <1>0, <1>8, <2>1, MispredictMoves
  <2>4. i \in Insts
    BY <1>0, <2>3, InFlightIs
  <2>5. window'[k] \in Insts
    BY <1>0, <2>3, Lengths, ElementOfSeq
  <2>6. i.tag \in BQIndex /\ i.phase \in {0, 1} /\ BQSize \in Nat \ {0}
    BY <2>4, Sizes DEF Insts
  <2>7. bq \in [BQIndex -> [bhr : Histories, taken : BOOLEAN]]
    BY <1>0 DEF TypeOK
  <2>8. bhr' \in Histories
    <3>1. bq[i.tag].bhr \in Histories
      BY <2>6, <2>7
    <3>2. QED
      BY <2>3, <2>5, <3>1, ShiftType
  <2>9. QueueTypes'
    <3>1. bqTail' \in BQIndex
      <4>1. i.tag + 1 \in Nat
        BY <2>6 DEF BQIndex
      <4>2. QED
        BY <2>2, <2>6, <4>1, InRange DEF BQIndex
    <3>2. bqTailPhase' \in {0, 1}
      BY <2>2, <2>6
    <3>3. window'[k].taken \in BOOLEAN
      BY <2>5 DEF Insts
    <3>4. bq' \in [BQIndex -> [bhr : Histories, taken : BOOLEAN]]
      BY <2>3, <2>6, <2>7, <3>3
    <3>5. QED
      BY <1>0, <2>2, <3>1, <3>2, <3>4 DEF QueueTypes, TypeOK
  <2>10. FrontTypes'
    BY <2>2, <2>8, SquashedFront
  <2>11. PipeTypes'
    BY <2>3, EmptySeq, Sizes DEF PipeTypes
  <2>12. PayTypes'
    BY <1>0, <2>2, <2>4, PayAfterType, PayToType DEF PayTypes
  <2>13. QED
    BY <2>9, <2>10, <2>11, <2>12, TypePartsNext
<1>9. ASSUME window # <<>>, window' = Tail(window), UNCHANGED DECODE, PayPop
      PROVE  PipeTypes' /\ PayTypes'
  <2>1. PayTypes'
    BY <1>0, <1>9, InWindow, PayPopType DEF PayTypes
  <2>2. window \in Seq(Insts) /\ Len(window) <= Window /\ Window \in Nat
    BY <1>0, Sizes DEF TypeOK
  <2>3. Tail(window) \in Seq(Insts) /\ Len(Tail(window)) = Len(window) - 1 /\ Len(window) \in Nat
    BY <1>9, <2>2, HeadTailProperties, LenProperties
  <2>4. Len(window') <= Window
    BY <1>9, <2>2, <2>3
  <2>5. QED
    BY <1>0, <1>9, <2>1, <2>3, <2>4 DEF PipeTypes, TypeOK
<1>10. CASE CommitOp
  <2>1. /\ window # <<>> /\ window' = Tail(window) /\ PayPop
        /\ UNCHANGED <<fetch_active, bhr, status, FETCH2, DECODE, bqVars>>
    BY <1>10 DEF CommitOp
  <2>2. QED
    BY <1>0, <1>9, <2>1, TypeSame, TypePartsNext
<1>11. CASE CommitBranch
  <2>1. /\ window # <<>> /\ window' = Tail(window) /\ PayPop
        /\ UNCHANGED <<fetch_active, bhr, status, FETCH2, DECODE, bq, bqTail, bqTailPhase>>
        /\ bqHead' = (bqHead + 1) % BQSize
        /\ bqHeadPhase' = IF bqHead + 1 = BQSize THEN 1 - bqHeadPhase ELSE bqHeadPhase
    BY <1>11 DEF CommitBranch
  <2>2. QueueTypes'
    <3>1. BQSize \in Nat \ {0} /\ bqHead + 1 \in Nat /\ bqHeadPhase \in {0, 1}
      BY <1>0, Sizes DEF TypeOK, BQIndex
    <3>2. bqHead' \in BQIndex
      BY <2>1, <3>1, InRange DEF BQIndex
    <3>3. bqHeadPhase' \in {0, 1}
      BY <2>1, <3>1
    <3>4. QED
      BY <1>0, <2>1, <3>2, <3>3 DEF QueueTypes, TypeOK
  <2>3. QED
    BY <1>0, <1>9, <2>1, <2>2, TypeSame, TypePartsNext
<1>12. CASE CommitSerializer
  <2>1. Flush /\ window # <<>> /\ window' = Tail(window) /\ PayPop /\ UNCHANGED DECODE
    BY <1>12 DEF CommitSerializer
  <2>2. QED
    BY <1>0, <1>9, <2>1, FlushTypes2, TypePartsNext
<1>13. CASE SquashComplete
  <2>1. /\ Flush /\ DECODE' = <<>> /\ window' = <<>>
        /\ payHead' = 0 /\ payTail' = 0 /\ payLength' = 0
    BY <1>13 DEF SquashComplete
  <2>2. PipeTypes' /\ PayTypes'
    BY <2>1, EmptySeq, Sizes, Zeros DEF PipeTypes, PayTypes
  <2>3. QED
    BY <1>0, <2>1, <2>2, FlushTypes2, TypePartsNext
<1>14. CASE UNCHANGED vars
  BY <1>0, <1>14, TypeSame, TypePartsNext DEF vars, bqVars, payVars
<1>15. QED
  BY <1>1, <1>2, <1>4, <1>5, <1>6, <1>7, <1>8, <1>10, <1>11, <1>12, <1>13, <1>14 DEF Next

----------------------------------------------------------------------------
(* Stopping.                                                                *)
LEMMA JoinIs ==
  ASSUME NEW b \in Seq(Insts), NEW f \in Seq(Insts)
  PROVE  /\ b \o f \in Seq(Insts) /\ Len(b \o f) = Len(b) + Len(f)
         /\ Len(b) \in Nat /\ Len(f) \in Nat /\ DOMAIN (b \o f) = 1 .. Len(b) + Len(f)
         /\ \A k \in 1 .. Len(b) : (b \o f)[k] = b[k]
         /\ \A k \in 1 .. Len(f) : (b \o f)[Len(b) + k] = f[k]
         /\ \A k \in 1 .. Len(b) + Len(f) : k \in 1 .. Len(b) \/ k - Len(b) \in 1 .. Len(f)
<1>1. Len(b) \in Nat /\ Len(f) \in Nat
  BY LenProperties
<1>2. /\ b \o f \in Seq(Insts) /\ Len(b \o f) = Len(b) + Len(f)
      /\ \A i \in 1 .. Len(b) + Len(f) :
           (b \o f)[i] = IF i <= Len(b) THEN b[i] ELSE f[i - Len(b)]
  BY ConcatProperties
<1>3. DOMAIN (b \o f) = 1 .. Len(b) + Len(f)
  BY <1>2, LenProperties
<1>4. ASSUME NEW k \in 1 .. Len(f) PROVE (b \o f)[Len(b) + k] = f[k]
  <2>1. /\ Len(b) + k \in 1 .. Len(b) + Len(f) /\ ~ (Len(b) + k <= Len(b))
        /\ Len(b) + k - Len(b) = k
    BY <1>1
  <2>2. QED
    BY <1>2, <2>1
<1>5. ASSUME NEW k \in 1 .. Len(b) PROVE (b \o f)[k] = b[k]
  <2>1. k \in 1 .. Len(b) + Len(f) /\ k <= Len(b)
    BY <1>1
  <2>2. QED
    BY <1>2, <2>1
<1>6. \A k \in 1 .. Len(b) + Len(f) : k \in 1 .. Len(b) \/ k - Len(b) \in 1 .. Len(f)
  BY <1>1
<1>7. QED
  BY <1>1, <1>2, <1>3, <1>4, <1>5, <1>6

(* Nothing in b and f stops the unit but the last, and only if it stands.   *)
StopsAtLast(active, b, f) ==
  /\ active => \A k \in 1 .. Len(b) : ~ Stops(b[k])
  /\ ~ active => /\ Len(b) + Len(f) >= 1
                 /\ \A k \in 1 .. Len(b) : Stops(b[k]) <=> k = Len(b) + Len(f)
                 /\ \A k \in 1 .. Len(f) : Stops(f[k]) <=> k = Len(f)

LatchFits(active, st, f, F) ==
  /\ st.valid => Len(f) >= 1
  /\ \A k \in 1 .. Len(f) : f[k].kind = "fault" => k = Len(f)
  /\ active => \A p \in Slots : p >= Len(f) => F[p] = Bubble
  /\ st.valid /\ Serializers(f) = {} => st.flaw < Len(f)

LEMMA StopsOnFlight ==
  ASSUME NEW b \in Seq(Insts), NEW f \in Seq(Insts)
  PROVE  (b \o f # <<>> /\ \A k \in DOMAIN (b \o f) : Stops((b \o f)[k]) <=> k = Len(b \o f))
         <=> /\ Len(b) + Len(f) >= 1
             /\ \A k \in 1 .. Len(b) : Stops(b[k]) <=> k = Len(b) + Len(f)
             /\ \A k \in 1 .. Len(f) : Stops(f[k]) <=> k = Len(f)
<1> DEFINE s == b \o f
<1>1. /\ s \in Seq(Insts) /\ Len(s) = Len(b) + Len(f) /\ DOMAIN s = 1 .. Len(b) + Len(f)
      /\ Len(b) \in Nat /\ Len(f) \in Nat
      /\ \A k \in 1 .. Len(b) : s[k] = b[k]
      /\ \A k \in 1 .. Len(f) : s[Len(b) + k] = f[k]
      /\ \A k \in 1 .. Len(b) + Len(f) : k \in 1 .. Len(b) \/ k - Len(b) \in 1 .. Len(f)
  BY JoinIs
<1> HIDE DEF s
<1>2. s # <<>> <=> Len(b) + Len(f) >= 1
  BY <1>1, EmptySeq
<1>3. ASSUME \A k \in 1 .. Len(b) + Len(f) : Stops(s[k]) <=> k = Len(b) + Len(f)
      PROVE  /\ \A k \in 1 .. Len(b) : Stops(b[k]) <=> k = Len(b) + Len(f)
             /\ \A k \in 1 .. Len(f) : Stops(f[k]) <=> k = Len(f)
  <2>1. ASSUME NEW k \in 1 .. Len(b) PROVE Stops(b[k]) <=> k = Len(b) + Len(f)
    <3>1. k \in 1 .. Len(b) + Len(f)
      BY <1>1
    <3>2. QED
      BY <1>1, <1>3, <3>1
  <2>2. ASSUME NEW k \in 1 .. Len(f) PROVE Stops(f[k]) <=> k = Len(f)
    <3>0. PICK m \in Nat, n \in Nat : m = Len(b) /\ n = Len(f)
      BY <1>1
    <3>3. m + k \in 1 .. m + n /\ (m + k = m + n <=> k = n)
      BY <3>0
    <3>1. /\ Len(b) + k \in 1 .. Len(b) + Len(f)
          /\ Len(b) + k = Len(b) + Len(f) <=> k = Len(f)
      BY <3>0, <3>3
    <3>2. QED
      BY <1>1, <1>3, <3>1
  <2>3. QED
    BY <2>1, <2>2
<1>4. ASSUME \A k \in 1 .. Len(b) : Stops(b[k]) <=> k = Len(b) + Len(f),
             \A k \in 1 .. Len(f) : Stops(f[k]) <=> k = Len(f)
      PROVE  \A k \in 1 .. Len(b) + Len(f) : Stops(s[k]) <=> k = Len(b) + Len(f)
  <2>1. SUFFICES ASSUME NEW k \in 1 .. Len(b) + Len(f)
                 PROVE  Stops(s[k]) <=> k = Len(b) + Len(f)
    OBVIOUS
  <2>2. CASE k \in 1 .. Len(b)
    BY <1>1, <1>4, <2>2
  <2>3. CASE k - Len(b) \in 1 .. Len(f)
    <3>1. PICK j \in 1 .. Len(f) : j = k - Len(b)
      BY <2>3
    <3>2. k = Len(b) + j /\ (k = Len(b) + Len(f) <=> j = Len(f))
      BY <1>1, <3>1
    <3>3. s[k] = f[j]
      BY <1>1, <3>2
    <3>4. QED
      BY <1>4, <3>2, <3>3
  <2>4. QED
    BY <1>1, <2>2, <2>3
<1>5. QED
  BY <1>1, <1>2, <1>3, <1>4 DEF s

LEMMA StoppingIs ==
  ASSUME TypeOK
  PROVE  Stopping <=> /\ StopsAtLast(fetch_active, Behind, Fetched)
                      /\ LatchFits(fetch_active, status, Fetched, FETCH2)
<1>1. /\ Behind \in Seq(Insts) /\ Fetched \in Seq(Insts) /\ Len(Fetched) \in Nat
      /\ DOMAIN Behind = 1 .. Len(Behind) /\ DOMAIN Fetched = 1 .. Len(Fetched)
      /\ Flight = Behind \o Fetched
  BY Lengths DEF Flight
<1>2. Fetched # <<>> <=> Len(Fetched) >= 1
  BY <1>1, EmptySeq
<1>3. (Flight # <<>> /\ \A k \in DOMAIN Flight : Stops(Flight[k]) <=> k = Len(Flight))
      <=> /\ Len(Behind) + Len(Fetched) >= 1
          /\ \A k \in 1 .. Len(Behind) : Stops(Behind[k]) <=> k = Len(Behind) + Len(Fetched)
          /\ \A k \in 1 .. Len(Fetched) : Stops(Fetched[k]) <=> k = Len(Fetched)
  BY <1>1, StopsOnFlight
<1>4. QED
  BY <1>1, <1>2, <1>3 DEF Stopping, StopsAtLast, LatchFits

LEMMA StoppingNext ==
  ASSUME Behind' \in Seq(Insts), Fetched' \in Seq(Insts),
         StopsAtLast(fetch_active', Behind', Fetched'),
         LatchFits(fetch_active', status', Fetched', FETCH2')
  PROVE  Stopping'
<1>1. PICK b \in Seq(Insts), f \in Seq(Insts) : b = Behind' /\ f = Fetched'
  OBVIOUS
<1>2. DOMAIN b = 1 .. Len(b) /\ DOMAIN f = 1 .. Len(f) /\ Flight' = b \o f /\ Len(f) \in Nat
  BY <1>1, LenProperties DEF Flight
<1>3. f # <<>> <=> Len(f) >= 1
  BY <1>2, EmptySeq
<1>4. ~ fetch_active' => (b \o f # <<>> /\ \A k \in DOMAIN (b \o f) : Stops((b \o f)[k]) <=> k = Len(b \o f))
  <2>1. (b \o f # <<>> /\ \A k \in DOMAIN (b \o f) : Stops((b \o f)[k]) <=> k = Len(b \o f))
        <=> /\ Len(b) + Len(f) >= 1
            /\ \A k \in 1 .. Len(b) : Stops(b[k]) <=> k = Len(b) + Len(f)
            /\ \A k \in 1 .. Len(f) : Stops(f[k]) <=> k = Len(f)
    BY StopsOnFlight
  <2>2. ~ fetch_active' => /\ Len(b) + Len(f) >= 1
                           /\ \A k \in 1 .. Len(b) : Stops(b[k]) <=> k = Len(b) + Len(f)
                           /\ \A k \in 1 .. Len(f) : Stops(f[k]) <=> k = Len(f)
    BY <1>1 DEF StopsAtLast
  <2>3. QED
    BY <2>1, <2>2
<1>5. /\ fetch_active' => \A k \in DOMAIN b : ~ Stops(b[k])
      /\ status'.valid => f # <<>>
      /\ \A k \in DOMAIN f : f[k].kind = "fault" => k = Len(f)
      /\ fetch_active' => \A p \in Slots : p >= Len(f) => FETCH2'[p] = Bubble
      /\ status'.valid /\ Serializers(f) = {} => status'.flaw < Len(f)
  BY <1>1, <1>2, <1>3 DEF StopsAtLast, LatchFits
<1>6. QED
  BY <1>1, <1>2, <1>4, <1>5 DEF Stopping

(* After a recovery the fetch unit runs and its latch is empty.             *)
LEMMA RecoveredFits ==
  ASSUME status' = NoStatus, FETCH2' = NoFetch2
  PROVE  /\ Fetched' = <<>> /\ Fetched' \in Seq(Insts) /\ Len(Fetched') = 0
         /\ LatchFits(fetch_active', status', Fetched', FETCH2')
<1>1. Fetched' = <<>>
  BY NoStatusIs DEF Fetched
<1>2. Len(<<>>) = 0 /\ <<>> \in Seq(Insts)
  BY EmptySeq
<1>3. QED
  BY <1>1, <1>2, NoStatusIs, NoFetch2Is DEF LatchFits

LEMMA BehindRuns ==
  ASSUME TypeOK, Stopping, status.valid
  PROVE  \A k \in 1 .. Len(Behind) : ~ Stops(Behind[k])
<1>1. Len(Behind) \in Nat /\ Len(Fetched) \in Nat
  BY Lengths
<1>2. /\ StopsAtLast(fetch_active, Behind, Fetched)
      /\ LatchFits(fetch_active, status, Fetched, FETCH2)
  BY StoppingIs
<1>3. Len(Fetched) >= 1
  BY <1>2 DEF LatchFits
<1>4. \A k \in 1 .. Len(Behind) : k # Len(Behind) + Len(Fetched)
  BY <1>1, <1>3
<1>5. QED
  BY <1>2, <1>4 DEF StopsAtLast

(* A serializing instruction at the head is alone.                          *)
LEMMA AloneAtHead ==
  ASSUME TypeOK, Stopping, window # <<>>, Stops(Head(window))
  PROVE  ~ fetch_active /\ Len(Flight) = 1 /\ Len(Behind) = 1 /\ Fetched = <<>>
<1>1. Len(Flight) >= 1 /\ Flight[1] = Head(window)
  BY InWindow
<1>2. /\ Len(window) \in Nat /\ Len(Behind) = Len(window) + Len(DECODE)
      /\ Len(DECODE) \in Nat /\ Len(Fetched) \in Nat /\ Fetched \in Seq(Insts)
      /\ Len(Flight) = Len(Behind) + Len(Fetched) /\ window \in Seq(Insts)
      /\ DOMAIN Flight = 1 .. Len(Flight) /\ DOMAIN Behind = 1 .. Len(Behind)
  BY Lengths DEF TypeOK
<1>3. Len(window) >= 1
  BY <1>2, EmptySeq
<1>4. 1 \in 1 .. Len(Behind) /\ Behind[1] = Head(window)
  BY <1>1, <1>2, <1>3, InFlightIs
<1>5. ~ fetch_active
  BY <1>2, <1>4 DEF Stopping
<1>6. Len(Flight) = 1
  BY <1>1, <1>2, <1>5 DEF Stopping
<1>7. Len(Behind) = 1 /\ Len(Fetched) = 0
  <2>1. \A w, d, b, f \in Nat : w >= 1 /\ b = w + d /\ 1 = b + f => b = 1 /\ f = 0
    OBVIOUS
  <2>2. Len(Behind) \in Nat
    BY <1>2
  <2>3. QED
    BY <1>2, <1>3, <1>6, <2>1, <2>2
<1>8. QED
  BY <1>2, <1>5, <1>6, <1>7, EmptySeq

LEMMA StoppingInit == Init => Stopping
<1> SUFFICES ASSUME Init PROVE Stopping
  OBVIOUS
<1>1. TypeOK
  BY TypeInit
<1>2. fetch_active /\ status = NoStatus /\ FETCH2 = NoFetch2 /\ DECODE = <<>> /\ window = <<>>
  BY DEF Init
<1>3. Fetched = <<>> /\ Len(<<>>) = 0
  BY <1>2, NoStatusIs DEF Fetched
<1>4. Behind = <<>>
  BY <1>2 DEF Behind
<1>5. StopsAtLast(fetch_active, Behind, Fetched)
  BY <1>2, <1>3, <1>4 DEF StopsAtLast
<1>6. LatchFits(fetch_active, status, Fetched, FETCH2)
  BY <1>2, <1>3, NoStatusIs, NoFetch2Is DEF LatchFits
<1>7. QED
  BY <1>1, <1>5, <1>6, StoppingIs

LEMMA StopsOfKind ==
  \A i, j : i.kind = j.kind => (Stops(i) <=> Stops(j)) /\ (IsBranch(i) <=> IsBranch(j))
BY DEF Stops, IsBranch

LEMMA StoppingStep == IInv /\ [Next]_vars => Stopping'
<1> SUFFICES ASSUME IInv, [Next]_vars PROVE Stopping'
  OBVIOUS
<1>0. TypeOK /\ Stopping
  BY DEF IInv
<1>17. /\ Behind \in Seq(Insts) /\ Len(Behind) \in Nat
      /\ Fetched \in Seq(Insts) /\ Len(Fetched) \in Nat
  BY <1>0, Lengths
<1>18. /\ StopsAtLast(fetch_active, Behind, Fetched)
      /\ LatchFits(fetch_active, status, Fetched, FETCH2)
  BY <1>0, StoppingIs
<1>1. CASE Fetch1
  <2>1. /\ Behind' = Behind /\ Fetched' \in Seq(Insts)
        /\ fetch_active /\ fetch_active' = fetch_active
    BY <1>1, Fetch1Moves DEF Fetch1
  <2>2. StopsAtLast(fetch_active', Behind', Fetched')
    BY <1>18, <2>1 DEF StopsAtLast
  <2>3. LatchFits(fetch_active', status', Fetched', FETCH2')
    BY <1>1, Fetch1Moves DEF LatchFits
  <2>4. QED
    BY <1>17, <2>1, <2>2, <2>3, StoppingNext
<1>2. CASE Fetch2Misfetch
  <2>1. /\ fetch_active' = TRUE /\ status' = NoStatus /\ FETCH2' = NoFetch2
        /\ Behind' = Behind /\ status.valid
    BY <1>2 DEF Fetch2Misfetch, SquashFetch2, Squashed, Behind
  <2>2. StopsAtLast(fetch_active', Behind', Fetched')
    BY <1>0, <2>1, BehindRuns DEF StopsAtLast
  <2>3. QED
    BY <1>17, <2>1, <2>2, RecoveredFits, StoppingNext
<1>3. ASSUME Predecoded, NEW c, c = Cut(Walk(FETCH2))
      PROVE  /\ \A k \in 1 .. Len(Behind) : ~ Stops(Behind[k])
             /\ c \in Seq(Insts) /\ Len(c) \in Nat /\ Len(c) >= 1
             /\ \A k \in 1 .. Len(c) : Stops(c[k]) => k = Len(c)
             /\ fetch_active' \in BOOLEAN /\ (~ fetch_active' <=> Stops(c[Len(c)]))
  <2>1. /\ status.valid /\ c \in Seq(Insts) /\ Len(c) \in Nat /\ Len(c) >= 1
        /\ \A k \in 1 .. Len(c) : Stops(c[k]) => k = Len(c)
        /\ fetch_active' \in BOOLEAN
        /\ fetch_active' <=> fetch_active /\ ~ Stops(c[Len(c)])
        /\ c = Fetched \/ Stops(c[Len(c)])
    BY <1>3, PredecodeCuts
  <2>2. ~ fetch_active => Stops(c[Len(c)])
    <3>1. Len(c) \in 1 .. Len(c)
      BY <2>1
    <3>2. ~ fetch_active /\ c = Fetched => Stops(c[Len(c)])
      BY <1>18, <3>1 DEF StopsAtLast
    <3>3. QED
      BY <2>1, <3>2
  <2>3. QED
    BY <1>0, <2>1, <2>2, BehindRuns
<1>4. CASE Fetch2Stall
  <2>1. PICK c : c = Cut(Walk(FETCH2))
    OBVIOUS
  <2>2. Predecoded
    BY <1>4 DEF Fetch2Stall
  <2>3. /\ \A k \in 1 .. Len(Behind) : ~ Stops(Behind[k])
        /\ c \in Seq(Insts) /\ Len(c) \in Nat /\ Len(c) >= 1
        /\ \A k \in 1 .. Len(c) : Stops(c[k]) => k = Len(c)
        /\ fetch_active' \in BOOLEAN /\ (~ fetch_active' <=> Stops(c[Len(c)]))
    BY <1>3, <2>1, <2>2
  <2>4. /\ Behind' = Behind /\ Fetched' = c /\ status' = status
        /\ Serializers(Fetched) = {} => FETCH2' = FETCH2
    BY <1>4, <2>1, StallMoves
  <2>5. /\ fetch_active' => fetch_active
        /\ \/ Serializers(Fetched) = {} /\ c = Fetched
           \/ ~ fetch_active' /\ c[Len(c)].kind = "ser"
    BY <2>1, <2>2, <2>3, PredecodeCuts
  <2>6. \A k \in 1 .. Len(Behind) : k # Len(Behind) + Len(c)
    BY <1>17, <2>3
  <2>7. Len(Behind) + Len(c) >= 1 /\ Len(c) \in 1 .. Len(c)
    BY <1>17, <2>3
  <2>8. StopsAtLast(fetch_active', Behind', Fetched')
    BY <2>3, <2>4, <2>6, <2>7 DEF StopsAtLast
  <2>9. LatchFits(fetch_active', status', Fetched', FETCH2')
    <3>1. CASE Serializers(Fetched) = {} /\ c = Fetched
      BY <1>18, <2>4, <2>5, <3>1 DEF LatchFits
    <3>2. CASE ~ fetch_active' /\ c[Len(c)].kind = "ser"
      <4>1. DOMAIN c = 1 .. Len(c)
        BY <2>3, LenProperties
      <4>2. Len(c) \in Serializers(c)
        BY <2>7, <3>2, <4>1 DEF Serializers
      <4>3. \A k \in 1 .. Len(c) : c[k].kind = "fault" => k = Len(c)
        BY <2>3 DEF Stops
      <4>4. QED
        BY <2>3, <2>4, <3>2, <4>2, <4>3 DEF LatchFits
    <3>3. QED
      BY <2>5, <3>1, <3>2
  <2>10. QED
    BY <1>17, <2>3, <2>4, <2>8, <2>9, StoppingNext
<1>5. CASE Fetch2Advance
  <2>1. PICK c : c = Cut(Walk(FETCH2))
    OBVIOUS
  <2>2. PICK t : t = Tagged(c)
    OBVIOUS
  <2>3. /\ Predecoded /\ Behind' = Behind \o t /\ Fetched' = <<>> /\ status' = NoStatus
        /\ fetch_active' => \A p \in Slots : FETCH2'[p] = Bubble
    BY <1>5, <2>1, <2>2, AdvanceMoves
  <2>4. /\ \A k \in 1 .. Len(Behind) : ~ Stops(Behind[k])
        /\ c \in Seq(Insts) /\ Len(c) \in Nat /\ Len(c) >= 1
        /\ \A k \in 1 .. Len(c) : Stops(c[k]) => k = Len(c)
        /\ fetch_active' \in BOOLEAN /\ (~ fetch_active' <=> Stops(c[Len(c)]))
    BY <1>3, <2>1, <2>3
  <2>5. /\ t \in Seq(Insts) /\ Len(t) = Len(c)
        /\ \A k \in 1 .. Len(c) : Stops(t[k]) <=> Stops(c[k])
    BY <1>0, <2>2, <2>4, TaggedIs, StopsOfKind
  <2>6. /\ Behind' \in Seq(Insts) /\ Len(Behind') = Len(Behind) + Len(c)
        /\ \A k \in 1 .. Len(Behind) : Behind'[k] = Behind[k]
        /\ \A k \in 1 .. Len(c) : Behind'[Len(Behind) + k] = t[k]
        /\ \A k \in 1 .. Len(Behind) + Len(c) : k \in 1 .. Len(Behind) \/ k - Len(Behind) \in 1 .. Len(c)
    <3>1. PICK b \in Seq(Insts) : b = Behind
      BY <1>17
    <3>2. /\ b \o t \in Seq(Insts) /\ Len(b \o t) = Len(b) + Len(t)
          /\ \A k \in 1 .. Len(b) : (b \o t)[k] = b[k]
          /\ \A k \in 1 .. Len(t) : (b \o t)[Len(b) + k] = t[k]
          /\ \A k \in 1 .. Len(b) + Len(t) : k \in 1 .. Len(b) \/ k - Len(b) \in 1 .. Len(t)
      BY <2>5, JoinIs
    <3>3. Behind' = b \o t
      BY <2>3, <3>1
    <3>4. QED
      BY <2>5, <3>1, <3>2, <3>3
  <2>7. \A k \in 1 .. Len(Behind') : Stops(Behind'[k]) <=> k = Len(Behind') /\ ~ fetch_active'
    <3>1. SUFFICES ASSUME NEW k \in 1 .. Len(Behind')
                   PROVE  Stops(Behind'[k]) <=> k = Len(Behind') /\ ~ fetch_active'
      OBVIOUS
    <3>2. CASE k \in 1 .. Len(Behind)
      <4>1. k # Len(Behind')
        BY <1>17, <2>4, <2>6, <3>2
      <4>2. QED
        BY <2>4, <2>6, <3>2, <4>1
    <3>3. CASE k - Len(Behind) \in 1 .. Len(c)
      <4>1. PICK j \in 1 .. Len(c) : j = k - Len(Behind)
        BY <3>3
      <4>2. k = Len(Behind) + j /\ (k = Len(Behind') <=> j = Len(c))
        BY <1>17, <2>4, <2>6, <4>1
      <4>3. Behind'[k] = t[j]
        BY <2>6, <4>2
      <4>4. Stops(Behind'[k]) <=> Stops(c[j])
        BY <2>5, <4>3
      <4>5. QED
        BY <2>4, <4>2, <4>4
    <3>4. QED
      BY <2>6, <3>2, <3>3
  <2>8. Fetched' \in Seq(Insts) /\ Len(Fetched') = 0
    BY <2>3, EmptySeq
  <2>9. StopsAtLast(fetch_active', Behind', Fetched')
    <3>1. Len(Behind') + Len(Fetched') = Len(Behind') /\ Len(Behind') >= 1
      BY <1>17, <2>4, <2>6, <2>8
    <3>2. \A k \in 1 .. Len(Fetched') : Stops(Fetched'[k]) <=> k = Len(Fetched')
      BY <2>8
    <3>3. QED
      BY <2>7, <3>1, <3>2 DEF StopsAtLast
  <2>10. LatchFits(fetch_active', status', Fetched', FETCH2')
    BY <2>3, <2>8, NoStatusIs DEF LatchFits
  <2>11. QED
    BY <2>6, <2>8, <2>9, <2>10, StoppingNext
<1>6. CASE Decode
  <2>1. Behind' = Behind /\ fetch_active' = fetch_active /\ status' = status /\ FETCH2' = FETCH2
    BY <1>0, <1>6, DecodeMoves DEF Decode
  <2>2. Fetched' = Fetched
    BY <2>1 DEF Fetched
  <2>3. QED
    BY <1>17, <1>18, <2>1, <2>2, StoppingNext
<1>7. ASSUME NEW k \in DOMAIN window, ResolveCorrect(k) PROVE Stopping'
  <2>1. fetch_active' = fetch_active /\ status' = status /\ FETCH2' = FETCH2
    BY <1>7 DEF ResolveCorrect
  <2>2. Fetched' = Fetched
    BY <2>1 DEF Fetched
  <2>3. /\ Behind' \in Seq(Insts) /\ Len(Behind') = Len(Behind)
        /\ \A j \in 1 .. Len(Behind) : Stops(Behind'[j]) <=> Stops(Behind[j])
    BY <1>0, <1>7, ResolveMoves, StopsOfKind
  <2>4. StopsAtLast(fetch_active', Behind', Fetched')
    BY <1>18, <2>1, <2>2, <2>3 DEF StopsAtLast
  <2>5. QED
    BY <1>17, <1>18, <2>1, <2>2, <2>3, <2>4, StoppingNext
<1>8. ASSUME NEW k \in DOMAIN window, Mispredict(k) PROVE Stopping'
  <2>1. fetch_active' = TRUE /\ status' = NoStatus /\ FETCH2' = NoFetch2
    BY <1>8 DEF Mispredict, SquashFetch2, Squashed, Reactivated
  <2>2. /\ k \in 1 .. Len(Behind) /\ IsBranch(Behind[k])
        /\ Behind' \in Seq(Insts) /\ Len(Behind') = k
        /\ \A j \in 1 .. k - 1 : Behind'[j] = Behind[j]
        /\ Behind'[k].kind = Behind[k].kind
    BY <1>0, <1>8, MispredictMoves
  <2>3. ~ Stops(Behind'[k]) /\ ~ Stops(Behind[k])
    BY <2>2 DEF IsBranch, Stops
  <2>4. \A j \in 1 .. k - 1 : ~ Stops(Behind[j])
    <3>1. \A j \in 1 .. k - 1 : j \in 1 .. Len(Behind) /\ j # Len(Behind) + Len(Fetched)
      BY <1>17, <2>2
    <3>2. QED
      BY <1>18, <3>1 DEF StopsAtLast
  <2>5. \A j \in 1 .. k : j \in 1 .. k - 1 \/ j = k
    BY <1>17, <2>2
  <2>6. \A j \in 1 .. k : ~ Stops(Behind'[j])
    BY <2>2, <2>3, <2>4, <2>5
  <2>7. StopsAtLast(fetch_active', Behind', Fetched')
    BY <2>1, <2>2, <2>6 DEF StopsAtLast
  <2>8. QED
    BY <2>1, <2>2, <2>7, RecoveredFits, StoppingNext
<1>9. ASSUME window # <<>>, ~ Stops(Head(window)), window' = Tail(window),
             UNCHANGED <<fetch_active, status, FETCH2, DECODE>>
      PROVE  Stopping'
  <2>1. Fetched' = Fetched
    BY <1>9 DEF Fetched
  <2>2. /\ Len(Behind) >= 1 /\ Behind' \in Seq(Insts) /\ Len(Behind') = Len(Behind) - 1
        /\ Head(window) = Behind[1]
        /\ \A k \in 1 .. Len(Behind') : Behind'[k] = Behind[k + 1]
    BY <1>0, <1>9, CommitMoves
  <2>3. \A k \in 1 .. Len(Behind') : /\ k + 1 \in 1 .. Len(Behind)
                                     /\ (k + 1 = Len(Behind) + Len(Fetched)
                                         <=> k = Len(Behind') + Len(Fetched))
    BY <1>17, <2>2
  <2>4. ~ fetch_active => Len(Behind') + Len(Fetched) >= 1
    <3>1. 1 \in 1 .. Len(Behind)
      BY <1>17, <2>2
    <3>2. ~ fetch_active => 1 # Len(Behind) + Len(Fetched)
      BY <1>9, <1>18, <2>2, <3>1 DEF StopsAtLast
    <3>3. QED
      BY <1>17, <2>2, <3>2
  <2>5. StopsAtLast(fetch_active', Behind', Fetched')
    BY <1>9, <1>18, <2>1, <2>2, <2>3, <2>4 DEF StopsAtLast
  <2>6. QED
    BY <1>9, <1>17, <1>18, <2>1, <2>2, <2>5, StoppingNext
<1>10. CASE CommitOp
  <2>1. ~ Stops(Head(window))
    BY <1>10 DEF CommitOp, Stops
  <2>2. QED
    BY <1>9, <1>10, <2>1 DEF CommitOp
<1>11. CASE CommitBranch
  <2>1. ~ Stops(Head(window))
    BY <1>11 DEF CommitBranch, Stops, IsBranch
  <2>2. QED
    BY <1>9, <1>11, <2>1 DEF CommitBranch
<1>12. ASSUME Flush, Behind' = <<>> PROVE Stopping'
  <2>1. fetch_active' = TRUE /\ status' = NoStatus /\ FETCH2' = NoFetch2
    BY <1>12 DEF Flush, SquashFetch2, Squashed
  <2>2. Behind' \in Seq(Insts) /\ Len(Behind') = 0
    BY <1>12, EmptySeq
  <2>3. StopsAtLast(fetch_active', Behind', Fetched')
    BY <2>1, <2>2 DEF StopsAtLast
  <2>4. QED
    BY <2>1, <2>2, <2>3, RecoveredFits, StoppingNext
<1>13. CASE CommitSerializer
  <2>1. Flush /\ window # <<>> /\ window' = Tail(window) /\ DECODE' = DECODE
        /\ Stops(Head(window))
    BY <1>13 DEF CommitSerializer, Stops
  <2>2. Len(Behind) = 1
    BY <1>0, <2>1, AloneAtHead
  <2>3. Behind' \in Seq(Insts) /\ Len(Behind') = Len(Behind) - 1
    BY <1>0, <2>1, CommitMoves
  <2>4. Behind' = <<>>
    BY <2>2, <2>3, EmptySeq
  <2>5. QED
    BY <1>12, <2>1, <2>4
<1>14. CASE SquashComplete
  <2>1. Flush /\ DECODE' = <<>> /\ window' = <<>>
    BY <1>14 DEF SquashComplete
  <2>2. Behind' = <<>>
    BY <2>1 DEF Behind
  <2>3. QED
    BY <1>12, <2>1, <2>2
<1>15. CASE UNCHANGED vars
  <2>1. /\ fetch_active' = fetch_active /\ status' = status /\ FETCH2' = FETCH2
        /\ Behind' = Behind
    BY <1>15 DEF vars, Behind
  <2>2. Fetched' = Fetched
    BY <2>1 DEF Fetched
  <2>3. QED
    BY <1>17, <1>18, <2>1, <2>2, StoppingNext
<1>16. QED
  BY <1>1, <1>2, <1>4, <1>5, <1>6, <1>7, <1>8, <1>10, <1>11, <1>13, <1>14, <1>15 DEF Next

----------------------------------------------------------------------------
(* The payload.                                                             *)
LEMMA RingAdd ==
  ASSUME NEW n \in Nat \ {0}, NEW h \in 0 .. n - 1, NEW a \in Nat, NEW b \in Nat, a + b <= n
  PROVE  (((h + a) % n) + b) % n = (h + (a + b)) % n
<1>1. (h + a) % n = Ring(n, h, a) /\ Ring(n, h, a) \in 0 .. n - 1
  <2>1. a \in 0 .. n
    OBVIOUS
  <2>2. QED
    BY <2>1, RingIsMod
<1>2. PICK r \in 0 .. n - 1 : r = Ring(n, h, a)
  BY <1>1
<1>3. (r + b) % n = Ring(n, r, b)
  <2>1. b \in 0 .. n
    OBVIOUS
  <2>2. QED
    BY <2>1, RingIsMod
<1>4. (h + (a + b)) % n = Ring(n, h, a + b)
  <2>1. a + b \in 0 .. n
    OBVIOUS
  <2>2. QED
    BY <2>1, RingIsMod
<1>5. Ring(n, r, b) = Ring(n, h, a + b)
  BY <1>2 DEF Ring
<1>6. QED
  BY <1>1, <1>2, <1>3, <1>4, <1>5

LEMMA RingLength ==
  ASSUME NEW n \in Nat \ {0}, NEW h \in 0 .. n - 1, NEW m \in 0 .. n - 1,
         NEW r, r = (h + m) % n
  PROVE  (n + r - h) % n = m
<1>1. r \in 0 .. n - 1 /\ r = Ring(n, h, m)
  <2>1. m \in 0 .. n
    OBVIOUS
  <2>2. (h + m) % n = Ring(n, h, m) /\ Ring(n, h, m) \in 0 .. n - 1
    BY <2>1, RingIsMod
  <2>3. QED
    BY <2>2
<1>2. PICK a : a = n + r - h
  OBVIOUS
<1>3. a \in Nat /\ a < 2 * n /\ (a = m \/ a = m + n)
  BY <1>1, <1>2 DEF Ring
<1>4. a % n = m
  BY <1>3, ModBelow
<1>5. QED
  BY <1>2, <1>4

(* The ring from h to t, of length l, holds exactly the instructions of s.  *)
PaidFor(h, t, l, s) ==
  /\ l = 2 * Len(s)
  /\ t = (h + 2 * Len(s)) % PaySize
  /\ \A k \in 1 .. Len(s) : s[k].pay = (h + 2 * (k - 1)) % PaySize

LEMMA PayingIs ==
  ASSUME TypeOK
  PROVE  Paying <=> /\ PaidFor(payHead, payTail, payLength, Flight)
                    /\ status.valid => status.pay = (payHead + 2 * Len(Behind)) % PaySize
<1>1. DOMAIN Flight = 1 .. Len(Flight)
  BY Lengths
<1>2. QED
  BY <1>1 DEF Paying, PayloadInOrder, PaidFor

LEMMA PayingNext ==
  ASSUME Behind' \in Seq(Insts), Fetched' \in Seq(Insts),
         PaidFor(payHead', payTail', payLength', Behind' \o Fetched'),
         status'.valid => status'.pay = (payHead' + 2 * Len(Behind')) % PaySize
  PROVE  Paying'
<1>1. PICK b \in Seq(Insts), f \in Seq(Insts) : b = Behind' /\ f = Fetched'
  OBVIOUS
<1>2. PICK s : s = b \o f
  OBVIOUS
<1>3. DOMAIN s = 1 .. Len(s)
  BY <1>2, JoinIs
<1>4. Flight' = s /\ PaidFor(payHead', payTail', payLength', s)
  BY <1>1, <1>2 DEF Flight
<1>5. PayloadInOrder'
  BY <1>3, <1>4 DEF PayloadInOrder, PaidFor
<1>6. QED
  BY <1>5 DEF Paying

LEMMA PaidSame ==
  ASSUME NEW h, NEW t, NEW l, NEW s \in Seq(Insts), NEW u \in Seq(Insts),
         PaidFor(h, t, l, s), Len(u) = Len(s), \A k \in 1 .. Len(s) : u[k].pay = s[k].pay
  PROVE  PaidFor(h, t, l, u)
BY DEF PaidFor

(* The payload is rolled back to the n-th place of what was in flight.      *)
LEMMA PaidBack ==
  ASSUME TypeOK, NEW n \in Nat, 2 * n < PaySize,
         NEW t, t = (payHead + 2 * n) % PaySize, PayTo(t),
         NEW u \in Seq(Insts), Len(u) = n,
         \A k \in 1 .. n : u[k].pay = (payHead + 2 * (k - 1)) % PaySize
  PROVE  PaidFor(payHead', payTail', payLength', u) /\ payHead' = payHead
<1>1. payHead \in 0 .. PaySize - 1 /\ PaySize \in Nat \ {0}
  BY Sizes DEF TypeOK, PayIndex
<1>2. payHead' = payHead /\ payTail' = t /\ payLength' = (PaySize + t - payHead) % PaySize
  BY DEF PayTo
<1>3. 2 * n \in 0 .. PaySize - 1
  BY <1>1
<1>4. PICK m \in 0 .. PaySize - 1 : m = 2 * n
  BY <1>3
<1>5. t = (payHead + m) % PaySize
  <2>1. m = 2 * n
    BY <1>4
  <2>2. QED
    BY <2>1, Zenon
<1>6. payLength' = 2 * n
  <2>1. (PaySize + t - payHead) % PaySize = m
    BY <1>1, <1>5, RingLength
  <2>2. QED
    BY <1>2, <1>4, <2>1, Zenon
<1>7. QED
  BY <1>2, <1>6 DEF PaidFor

LEMMA PaidUpTo ==
  ASSUME TypeOK, NEW s \in Seq(Insts), PaidFor(payHead, payTail, payLength, s),
         2 * Len(s) < PaySize, NEW n \in 1 .. Len(s),
         NEW i, i.pay = s[n].pay, PayTo(PayAfter(i)),
         NEW u \in Seq(Insts), Len(u) = n, \A k \in 1 .. n : u[k].pay = s[k].pay
  PROVE  PaidFor(payHead', payTail', payLength', u)
<1>1. payHead \in 0 .. PaySize - 1 /\ PaySize \in Nat \ {0} /\ Len(s) \in Nat
  BY Sizes, LenProperties DEF TypeOK, PayIndex
<1>2. n \in Nat /\ 2 * n < PaySize
  BY <1>1
<1>3. PICK a \in Nat : a = 2 * (n - 1)
  BY <1>1
<1>4. a + 2 <= PaySize /\ a + 2 = 2 * n
  BY <1>1, <1>2, <1>3
<1>5. (((payHead + a) % PaySize) + 2) % PaySize = (payHead + (a + 2)) % PaySize
  BY <1>1, <1>4, RingAdd
<1>6. i.pay = (payHead + 2 * (n - 1)) % PaySize
  BY DEF PaidFor
<1>7. PayAfter(i) = (payHead + 2 * n) % PaySize
  BY <1>3, <1>4, <1>5, <1>6 DEF PayAfter
<1>8. \A k \in 1 .. n : u[k].pay = (payHead + 2 * (k - 1)) % PaySize
  <2>1. \A k \in 1 .. n : k \in 1 .. Len(s)
    BY <1>1
  <2>2. QED
    BY <2>1 DEF PaidFor
<1>9. PICK t : t = PayAfter(i)
  OBVIOUS
<1>10. QED
  BY <1>2, <1>7, <1>8, <1>9, PaidBack

(* The oldest instruction leaves.                                           *)
LEMMA PaidPop ==
  ASSUME TypeOK, NEW s \in Seq(Insts), PaidFor(payHead, payTail, payLength, s),
         2 * Len(s) < PaySize, Len(s) >= 1, PayPop,
         NEW u \in Seq(Insts), Len(u) = Len(s) - 1,
         \A k \in 1 .. Len(u) : u[k].pay = s[k + 1].pay
  PROVE  /\ PaidFor(payHead', payTail', payLength', u)
         /\ \A n \in 1 .. Len(s) :
              (payHead + 2 * n) % PaySize = (payHead' + 2 * (n - 1)) % PaySize
<1>1. payHead \in 0 .. PaySize - 1 /\ PaySize \in Nat \ {0} /\ Len(s) \in Nat
  BY Sizes, LenProperties DEF TypeOK, PayIndex
<1>2. /\ payHead' = (payHead + 2) % PaySize /\ payLength' = payLength - 2
      /\ payTail' = payTail
  BY DEF PayPop
<1>3. ASSUME NEW n \in 1 .. Len(s)
      PROVE  (payHead + 2 * n) % PaySize = (payHead' + 2 * (n - 1)) % PaySize
  <2>1. PICK b \in Nat : b = 2 * (n - 1)
    BY <1>1
  <2>2. 2 + b <= PaySize /\ 2 + b = 2 * n
    BY <1>1, <2>1
  <2>3. (((payHead + 2) % PaySize) + b) % PaySize = (payHead + (2 + b)) % PaySize
    BY <1>1, <2>2, RingAdd
  <2>4. QED
    BY <1>2, <2>1, <2>2, <2>3
<1>4. payTail = (payHead + 2 * Len(s)) % PaySize /\ payLength = 2 * Len(s)
  BY DEF PaidFor
<1>5. payTail' = (payHead' + 2 * Len(u)) % PaySize
  <2>1. Len(s) \in 1 .. Len(s)
    BY <1>1
  <2>2. (payHead + 2 * Len(s)) % PaySize = (payHead' + 2 * (Len(s) - 1)) % PaySize
    BY <1>3, <2>1
  <2>3. QED
    BY <1>2, <1>4, <2>2
<1>6. payLength' = 2 * Len(u)
  BY <1>1, <1>2, <1>4
<1>7. ASSUME NEW k \in 1 .. Len(u) PROVE u[k].pay = (payHead' + 2 * (k - 1)) % PaySize
  <2>1. k \in 1 .. Len(s) /\ k + 1 \in 1 .. Len(s) /\ 2 * (k + 1 - 1) = 2 * k
    BY <1>1
  <2>2. s[k + 1].pay = (payHead + 2 * (k + 1 - 1)) % PaySize
    BY <2>1 DEF PaidFor
  <2>3. QED
    BY <1>3, <2>1, <2>2
<1>8. QED
  BY <1>3, <1>5, <1>6, <1>7 DEF PaidFor

(* A bundle is fetched behind everything else.                              *)
LEMMA PaidAppend ==
  ASSUME TypeOK, NEW b \in Seq(Insts), NEW f \in Seq(Insts),
         PaidFor(payHead, payTail, payLength, b),
         2 * (Len(b) + Len(f)) < PaySize,
         \A k \in 1 .. Len(f) : f[k].pay = (payTail + 2 * (k - 1)) % PaySize,
         payHead' = payHead, payTail' = (payTail + 2 * Len(f)) % PaySize,
         payLength' = payLength + 2 * Len(f)
  PROVE  PaidFor(payHead', payTail', payLength', b \o f)
<1> DEFINE s == b \o f
<1>1. /\ s \in Seq(Insts) /\ Len(s) = Len(b) + Len(f) /\ Len(b) \in Nat /\ Len(f) \in Nat
      /\ \A k \in 1 .. Len(b) : s[k] = b[k]
      /\ \A k \in 1 .. Len(f) : s[Len(b) + k] = f[k]
      /\ \A k \in 1 .. Len(b) + Len(f) : k \in 1 .. Len(b) \/ k - Len(b) \in 1 .. Len(f)
  BY JoinIs
<1> HIDE DEF s
<1>2. payHead \in 0 .. PaySize - 1 /\ PaySize \in Nat \ {0}
  BY Sizes DEF TypeOK, PayIndex
<1>3. PICK a \in Nat : a = 2 * Len(b)
  BY <1>1
<1>4. payTail = (payHead + a) % PaySize /\ payLength = a
  BY <1>3 DEF PaidFor
<1>5. ASSUME NEW c \in Nat, a + c <= PaySize
      PROVE  (payTail + c) % PaySize = (payHead + (a + c)) % PaySize
  BY <1>2, <1>4, <1>5, RingAdd
<1>6. payTail' = (payHead + 2 * Len(s)) % PaySize
  <2>1. PICK c \in Nat : c = 2 * Len(f)
    BY <1>1
  <2>2. a + c <= PaySize /\ a + c = 2 * Len(s)
    BY <1>1, <1>2, <1>3, <2>1
  <2>3. QED
    BY <1>5, <2>1, <2>2
<1>7. payLength' = 2 * Len(s)
  BY <1>1, <1>3, <1>4
<1>8. ASSUME NEW k \in 1 .. Len(s) PROVE s[k].pay = (payHead + 2 * (k - 1)) % PaySize
  <2>1. CASE k \in 1 .. Len(b)
    BY <1>1, <2>1 DEF PaidFor
  <2>2. CASE k - Len(b) \in 1 .. Len(f)
    <3>1. PICK j \in 1 .. Len(f) : j = k - Len(b)
      BY <2>2
    <3>2. PICK c \in Nat : c = 2 * (j - 1)
      BY <1>1
    <3>3. k = Len(b) + j /\ a + c <= PaySize /\ a + c = 2 * (k - 1)
      BY <1>1, <1>2, <1>3, <3>1, <3>2
    <3>4. s[k] = f[j] /\ f[j].pay = (payTail + c) % PaySize
      BY <1>1, <3>2, <3>3
    <3>5. QED
      BY <1>5, <3>3, <3>4
  <2>3. QED
    BY <1>1, <2>1, <2>2
<1>9. QED
  BY <1>6, <1>7, <1>8 DEF PaidFor, s

LEMMA PayingInit == Init => Paying
<1> SUFFICES ASSUME Init PROVE Paying
  OBVIOUS
<1>1. TypeOK
  BY TypeInit
<1>2. /\ status = NoStatus /\ DECODE = <<>> /\ window = <<>>
      /\ payHead = 0 /\ payTail = 0 /\ payLength = 0
  BY DEF Init
<1>3. Flight = <<>> /\ Len(<<>>) = 0
  BY <1>2, NoStatusIs DEF Flight, Fetched, Behind
<1>4. PaySize \in Nat \ {0}
  BY Sizes
<1>5. (0 + 2 * 0) % PaySize = 0
  BY <1>4
<1>6. PaidFor(payHead, payTail, payLength, Flight)
  BY <1>2, <1>3, <1>5 DEF PaidFor
<1>7. QED
  BY <1>1, <1>2, <1>6, NoStatusIs, PayingIs

LEMMA PayingStep == IInv /\ [Next]_vars => Paying'
<1> SUFFICES ASSUME IInv, [Next]_vars PROVE Paying'
  OBVIOUS
<1>0. TypeOK /\ Stopping /\ Paying
  BY DEF IInv
<1>1. PICK b \in Seq(Insts), f \in Seq(Insts) :
        /\ b = Behind /\ f = Fetched /\ Flight = b \o f
        /\ Len(b) \in Nat /\ Len(f) \in Nat
        /\ 2 * (Len(b) + Len(f)) < PaySize
        /\ 2 * (Len(b) + InstrPerCycle) < PaySize
  <2>1. Behind \in Seq(Insts) /\ Fetched \in Seq(Insts) /\ Len(Behind) \in Nat
        /\ Len(Fetched) \in Nat /\ Len(Flight) = Len(Behind) + Len(Fetched)
    BY <1>0, Lengths
  <2>2. QED
    BY <1>0, <2>1, PaySpace DEF Flight
<1>2. PICK s \in Seq(Insts) :
        /\ s = Flight /\ Len(s) = Len(b) + Len(f) /\ 2 * Len(s) < PaySize
        /\ PaidFor(payHead, payTail, payLength, s)
        /\ \A k \in 1 .. Len(b) : s[k] = b[k]
        /\ \A k \in 1 .. Len(f) : s[Len(b) + k] = f[k]
        /\ \A k \in 1 .. Len(b) + Len(f) : k \in 1 .. Len(b) \/ k - Len(b) \in 1 .. Len(f)
  BY <1>0, <1>1, JoinIs, PayingIs
<1>3. status.valid => status.pay = (payHead + 2 * Len(b)) % PaySize
  BY <1>0, <1>1, PayingIs
<1>4. /\ payHead \in 0 .. PaySize - 1 /\ PaySize \in Nat \ {0}
      /\ <<>> \in Seq(Insts) /\ Len(<<>>) = 0 /\ b \o <<>> = b
  BY <1>0, Sizes, ConcatEmptySeq DEF TypeOK, PayIndex
(* Only what is fetched changes, or it leaves FETCH2 for DECODE.            *)
<1>5. CASE Fetch1
  <2>1. /\ Behind' = b /\ f = <<>> /\ Fetched' \in Seq(Insts)
        /\ Len(Fetched') \in 1 .. InstrPerCycle
        /\ status'.pay = payTail
        /\ \A k \in 1 .. Len(Fetched') : Fetched'[k].pay = (payTail + 2 * (k - 1)) % PaySize
        /\ payTail' = (payTail + 2 * Len(Fetched')) % PaySize
        /\ payLength' = payLength + 2 * Len(Fetched') /\ payHead' = payHead
    BY <1>1, <1>5, Fetch1Moves DEF Fetch1
  <2>2. PICK g \in Seq(Insts) : g = Fetched'
    BY <2>1
  <2>3. s = b
    BY <1>1, <1>2, <1>4, <2>1
  <2>4. 2 * (Len(b) + Len(g)) < PaySize
    BY <1>1, <2>1, <2>2, Sizes
  <2>5. PaidFor(payHead', payTail', payLength', b \o g)
    BY <1>0, <1>2, <2>1, <2>2, <2>3, <2>4, PaidAppend
  <2>6. status'.pay = (payHead' + 2 * Len(b)) % PaySize
    BY <1>2, <2>1, <2>3 DEF PaidFor
  <2>7. QED
    BY <2>1, <2>2, <2>5, <2>6, PayingNext
<1>6. CASE Fetch2Misfetch
  <2>1. /\ status' = NoStatus /\ Behind' = b /\ status.valid /\ PayTo(status.pay)
    BY <1>1, <1>6 DEF Fetch2Misfetch, SquashFetch2, Behind
  <2>2. Fetched' = <<>>
    BY <2>1, NoStatusIs DEF Fetched
  <2>3. \A k \in 1 .. Len(b) : b[k].pay = (payHead + 2 * (k - 1)) % PaySize
    <3>1. \A k \in 1 .. Len(b) : k \in 1 .. Len(s)
      BY <1>1, <1>2
    <3>2. QED
      BY <1>2, <3>1 DEF PaidFor
  <2>4. PICK t : t = status.pay
    OBVIOUS
  <2>5. 2 * Len(b) < PaySize
    BY <1>1, Sizes
  <2>6. PaidFor(payHead', payTail', payLength', b)
    BY <1>0, <1>1, <1>3, <2>1, <2>3, <2>4, <2>5, PaidBack
  <2>7. QED
    BY <1>4, <2>1, <2>2, <2>6, NoStatusIs, PayingNext
<1>7. ASSUME Predecoded, NEW c, c = Cut(Walk(FETCH2)), NEW t \in Seq(Insts),
             Len(t) = Len(c), \A k \in 1 .. Len(c) : t[k].pay = c[k].pay
      PROVE  PaidFor(payHead', payTail', payLength', b \o t) /\ payHead' = payHead
  <2>1. /\ c \in Seq(Insts) /\ Len(c) \in 1 .. Len(f) /\ Len(c) \in Nat
        /\ \A k \in 1 .. Len(c) : c[k] = f[k]
        /\ \/ c = f /\ UNCHANGED payVars
           \/ PayTo(PayAfter(c[Len(c)]))
    BY <1>1, <1>7, PredecodeCuts
  <2>2. PICK u \in Seq(Insts) :
          /\ u = b \o t /\ Len(u) = Len(b) + Len(c)
          /\ \A k \in 1 .. Len(b) : u[k] = b[k]
          /\ \A k \in 1 .. Len(c) : u[Len(b) + k] = t[k]
          /\ \A k \in 1 .. Len(b) + Len(c) : k \in 1 .. Len(b) \/ k - Len(b) \in 1 .. Len(c)
    BY <1>7, JoinIs
  <2>3. PICK n \in 1 .. Len(s) : n = Len(b) + Len(c)
    BY <1>1, <1>2, <2>1
  <2>4. \A k \in 1 .. n : u[k].pay = s[k].pay
    <3>1. SUFFICES ASSUME NEW k \in 1 .. n PROVE u[k].pay = s[k].pay
      OBVIOUS
    <3>2. CASE k \in 1 .. Len(b)
      BY <1>2, <2>2, <3>2
    <3>3. CASE k - Len(b) \in 1 .. Len(c)
      <4>1. PICK j \in 1 .. Len(c) : j = k - Len(b)
        BY <3>3
      <4>2. k = Len(b) + j /\ j \in 1 .. Len(f)
        BY <1>1, <2>1, <2>3, <4>1
      <4>3. u[k] = t[j] /\ s[k] = f[j] /\ c[j] = f[j] /\ t[j].pay = c[j].pay
        BY <1>2, <1>7, <2>1, <2>2, <4>2
      <4>4. QED
        BY <4>3
    <3>4. QED
      BY <2>2, <2>3, <3>2, <3>3
  <2>5. CASE c = f /\ UNCHANGED payVars
    <3>1. Len(u) = Len(s) /\ \A k \in 1 .. Len(s) : u[k].pay = s[k].pay
      BY <1>2, <2>2, <2>3, <2>4, <2>5
    <3>2. PaidFor(payHead, payTail, payLength, u)
      BY <1>2, <3>1, PaidSame
    <3>3. QED
      BY <2>2, <2>5, <3>2 DEF payVars
  <2>6. CASE PayTo(PayAfter(c[Len(c)]))
    <3>1. PICK i : i = c[Len(c)]
      OBVIOUS
    <3>2. i.pay = s[n].pay
      <4>1. Len(c) \in 1 .. Len(c) /\ Len(c) \in 1 .. Len(f)
        BY <2>1
      <4>2. s[n] = f[Len(c)] /\ c[Len(c)] = f[Len(c)]
        BY <1>2, <2>1, <2>3, <4>1
      <4>3. QED
        BY <3>1, <4>2
    <3>3. Len(u) = n
      BY <2>2, <2>3
    <3>4. PaidFor(payHead', payTail', payLength', u)
      BY <1>0, <1>2, <2>4, <2>6, <3>1, <3>2, <3>3, PaidUpTo
    <3>5. QED
      BY <2>2, <2>6, <3>4 DEF PayTo
  <2>7. QED
    BY <2>1, <2>5, <2>6
<1>8. CASE Fetch2Stall
  <2>1. PICK c : c = Cut(Walk(FETCH2))
    OBVIOUS
  <2>2. Predecoded
    BY <1>8 DEF Fetch2Stall
  <2>3. /\ Behind' = b /\ Fetched' = c /\ status' = status
    BY <1>1, <1>8, <2>1, StallMoves
  <2>4. c \in Seq(Insts) /\ status.valid
    BY <2>1, <2>2, PredecodeCuts
  <2>5. PaidFor(payHead', payTail', payLength', b \o c) /\ payHead' = payHead
    BY <1>7, <2>1, <2>2, <2>4
  <2>6. QED
    BY <1>3, <2>3, <2>4, <2>5, PayingNext
<1>9. CASE Fetch2Advance
  <2>1. PICK c : c = Cut(Walk(FETCH2))
    OBVIOUS
  <2>2. PICK t : t = Tagged(c)
    OBVIOUS
  <2>3. /\ Predecoded /\ Behind' = b \o t /\ Fetched' = <<>> /\ status' = NoStatus
    BY <1>1, <1>9, <2>1, <2>2, AdvanceMoves
  <2>4. c \in Seq(Insts)
    BY <2>1, <2>3, PredecodeCuts
  <2>5. t \in Seq(Insts) /\ Len(t) = Len(c) /\ \A k \in 1 .. Len(c) : t[k].pay = c[k].pay
    BY <1>0, <2>2, <2>4, TaggedIs
  <2>6. PaidFor(payHead', payTail', payLength', b \o t)
    BY <1>7, <2>1, <2>3, <2>5
  <2>7. PICK u \in Seq(Insts) : u = b \o t /\ u \o <<>> = u
    BY <2>5, JoinIs, ConcatEmptySeq
  <2>8. QED
    BY <1>4, <2>3, <2>6, <2>7, NoStatusIs, PayingNext
<1>10. ASSUME Behind' \in Seq(Insts), Len(Behind') = Len(b),
              \A k \in 1 .. Len(b) : Behind'[k].pay = b[k].pay,
              UNCHANGED <<status, FETCH2, payVars>>
       PROVE  Paying'
  <2>1. Fetched' = f
    BY <1>1, <1>10 DEF Fetched
  <2>2. PICK c \in Seq(Insts) : c = Behind'
    BY <1>10
  <2>3. PICK u \in Seq(Insts) :
          /\ u = c \o f /\ Len(u) = Len(b) + Len(f)
          /\ \A k \in 1 .. Len(b) : u[k] = c[k]
          /\ \A k \in 1 .. Len(f) : u[Len(b) + k] = f[k]
    <3>1. /\ c \o f \in Seq(Insts) /\ Len(c \o f) = Len(c) + Len(f)
          /\ \A k \in 1 .. Len(c) : (c \o f)[k] = c[k]
          /\ \A k \in 1 .. Len(f) : (c \o f)[Len(c) + k] = f[k]
      BY JoinIs
    <3>2. Len(c) = Len(b)
      BY <1>10, <2>2
    <3>3. QED
      BY <3>1, <3>2
  <2>4. \A k \in 1 .. Len(s) : u[k].pay = s[k].pay
    <3>1. SUFFICES ASSUME NEW k \in 1 .. Len(s) PROVE u[k].pay = s[k].pay
      OBVIOUS
    <3>2. CASE k \in 1 .. Len(b)
      BY <1>2, <1>10, <2>2, <2>3, <3>2
    <3>3. CASE k - Len(b) \in 1 .. Len(f)
      <4>1. PICK j \in 1 .. Len(f) : j = k - Len(b)
        BY <3>3
      <4>2. k = Len(b) + j
        BY <1>1, <4>1
      <4>3. QED
        BY <1>2, <2>3, <4>2
    <3>4. QED
      BY <1>2, <3>2, <3>3
  <2>5. PaidFor(payHead, payTail, payLength, u)
    BY <1>2, <2>3, <2>4, PaidSame
  <2>6. PaidFor(payHead', payTail', payLength', c \o f)
    BY <1>10, <2>3, <2>5 DEF payVars
  <2>7. status'.valid => status'.pay = (payHead' + 2 * Len(c)) % PaySize
    BY <1>3, <1>10, <2>2 DEF payVars
  <2>8. QED
    BY <2>1, <2>2, <2>6, <2>7, PayingNext
<1>11. CASE Decode
  <2>1. Behind' = b
    BY <1>0, <1>1, <1>11, DecodeMoves
  <2>2. UNCHANGED <<status, FETCH2, payVars>>
    BY <1>11 DEF Decode
  <2>3. QED
    BY <1>10, <2>1, <2>2
<1>12. ASSUME NEW k \in DOMAIN window, ResolveCorrect(k) PROVE Paying'
  <2>1. /\ Behind' \in Seq(Insts) /\ Len(Behind') = Len(b)
        /\ \A j \in 1 .. Len(b) : Behind'[j].pay = b[j].pay
    BY <1>0, <1>1, <1>12, ResolveMoves
  <2>2. UNCHANGED <<status, FETCH2, payVars>>
    BY <1>12 DEF ResolveCorrect
  <2>3. QED
    BY <1>10, <2>1, <2>2
(* Everything behind a branch goes.                                         *)
<1>13. ASSUME NEW k \in DOMAIN window, Mispredict(k) PROVE Paying'
  <2>1. /\ k \in 1 .. Len(b) /\ b[k] = window[k]
        /\ Behind' \in Seq(Insts) /\ Len(Behind') = k /\ Fetched' = <<>>
        /\ \A j \in 1 .. k - 1 : Behind'[j] = b[j]
        /\ Behind'[k].pay = b[k].pay
    BY <1>0, <1>1, <1>13, MispredictMoves
  <2>2. status' = NoStatus /\ PayTo(PayAfter(window[k]))
    BY <1>13 DEF Mispredict, SquashFetch2
  <2>3. PICK u \in Seq(Insts) : u = Behind'
    BY <2>1
  <2>4. PICK i : i = window[k]
    OBVIOUS
  <2>5. k \in 1 .. Len(s) /\ i.pay = s[k].pay
    BY <1>1, <1>2, <2>1, <2>4
  <2>6. \A j \in 1 .. k : u[j].pay = s[j].pay
    <3>1. \A j \in 1 .. k : j \in 1 .. Len(b) /\ (j \in 1 .. k - 1 \/ j = k)
      BY <1>1, <2>1
    <3>2. QED
      BY <1>2, <2>1, <2>3, <3>1
  <2>7. PaidFor(payHead', payTail', payLength', u)
    BY <1>0, <1>2, <2>1, <2>2, <2>3, <2>4, <2>5, <2>6, PaidUpTo
  <2>8. u \o <<>> = u
    BY ConcatEmptySeq
  <2>9. QED
    BY <1>4, <2>1, <2>2, <2>3, <2>7, <2>8, NoStatusIs, PayingNext
<1>14. ASSUME window # <<>>, window' = Tail(window), DECODE' = DECODE, PayPop,
              Fetched' \in Seq(Insts), Fetched' = f,
              status'.valid => status'.pay = status.pay /\ status.valid
       PROVE  Paying'
  <2>1. /\ Len(b) >= 1 /\ Behind' \in Seq(Insts) /\ Len(Behind') = Len(b) - 1
        /\ \A k \in 1 .. Len(Behind') : Behind'[k] = b[k + 1]
    BY <1>0, <1>1, <1>14, CommitMoves
  <2>2. PICK c \in Seq(Insts) : c = Behind'
    BY <2>1
  <2>3. PICK u \in Seq(Insts) :
          /\ u = c \o f /\ Len(u) = Len(c) + Len(f) /\ Len(c) \in Nat
          /\ \A k \in 1 .. Len(c) : u[k] = c[k]
          /\ \A k \in 1 .. Len(f) : u[Len(c) + k] = f[k]
          /\ \A k \in 1 .. Len(c) + Len(f) : k \in 1 .. Len(c) \/ k - Len(c) \in 1 .. Len(f)
    BY JoinIs
  <2>4. Len(u) = Len(s) - 1 /\ Len(s) >= 1
    BY <1>1, <1>2, <2>1, <2>2, <2>3
  <2>5. \A k \in 1 .. Len(u) : u[k].pay = s[k + 1].pay
    <3>1. SUFFICES ASSUME NEW k \in 1 .. Len(u) PROVE u[k] = s[k + 1]
      OBVIOUS
    <3>2. CASE k \in 1 .. Len(c)
      <4>1. k + 1 \in 1 .. Len(b)
        BY <1>1, <2>1, <2>2, <3>2
      <4>2. QED
        BY <1>2, <2>1, <2>2, <2>3, <3>2, <4>1
    <3>3. CASE k - Len(c) \in 1 .. Len(f)
      <4>1. PICK j \in 1 .. Len(f) : j = k - Len(c)
        BY <3>3
      <4>2. k = Len(c) + j /\ k + 1 = Len(b) + j
        <5>1. \A m, n, i, l \in Nat : m = n - 1 /\ i = l - m => l = m + i /\ l + 1 = n + i
          OBVIOUS
        <5>2. j \in Nat /\ k \in Nat /\ Len(c) \in Nat /\ Len(c) = Len(b) - 1
          BY <1>1, <2>1, <2>2, <2>3
        <5>3. QED
          BY <1>1, <4>1, <5>1, <5>2
      <4>3. QED
        BY <1>2, <2>3, <4>2
    <3>4. QED
      BY <2>3, <3>2, <3>3
  <2>6. /\ PaidFor(payHead', payTail', payLength', u)
        /\ \A n \in 1 .. Len(s) :
             (payHead + 2 * n) % PaySize = (payHead' + 2 * (n - 1)) % PaySize
    BY <1>0, <1>2, <1>14, <2>4, <2>5, PaidPop
  <2>7. status'.valid => status'.pay = (payHead' + 2 * Len(c)) % PaySize
    <3>1. Len(b) \in 1 .. Len(s) /\ Len(c) = Len(b) - 1
      BY <1>1, <1>2, <2>1, <2>2
    <3>2. (payHead + 2 * Len(b)) % PaySize = (payHead' + 2 * Len(c)) % PaySize
      BY <2>6, <3>1
    <3>3. QED
      BY <1>3, <1>14, <3>2
  <2>8. QED
    BY <1>14, <2>2, <2>3, <2>6, <2>7, PayingNext
<1>15. ASSUME window # <<>>, window' = Tail(window), PayPop,
              UNCHANGED <<status, FETCH2, DECODE>>
       PROVE  Paying'
  <2>1. Fetched' = f
    BY <1>1, <1>15 DEF Fetched
  <2>2. status'.valid => status'.pay = status.pay /\ status.valid
    BY <1>15
  <2>3. QED
    BY <1>14, <1>15, <2>1, <2>2
<1>16. CASE CommitOp
  BY <1>15, <1>16 DEF CommitOp
<1>17. CASE CommitBranch
  BY <1>15, <1>17 DEF CommitBranch
<1>18. CASE CommitSerializer
  <2>1. /\ window # <<>> /\ window' = Tail(window) /\ DECODE' = DECODE /\ PayPop
        /\ status' = NoStatus /\ Stops(Head(window))
    BY <1>18 DEF CommitSerializer, Flush, SquashFetch2, Stops
  <2>2. Fetched' = <<>> /\ f = <<>>
    BY <1>0, <1>1, <2>1, AloneAtHead, NoStatusIs DEF Fetched
  <2>3. QED
    BY <1>4, <1>14, <2>1, <2>2, NoStatusIs
<1>19. CASE SquashComplete
  <2>1. /\ status' = NoStatus /\ DECODE' = <<>> /\ window' = <<>>
        /\ payHead' = 0 /\ payTail' = 0 /\ payLength' = 0
    BY <1>19 DEF SquashComplete, Flush, SquashFetch2
  <2>2. Fetched' = <<>> /\ Behind' = <<>>
    BY <2>1, NoStatusIs DEF Fetched, Behind
  <2>3. (0 + 2 * 0) % PaySize = 0
    BY <1>4
  <2>4. PaidFor(payHead', payTail', payLength', <<>>)
    BY <1>4, <2>1, <2>3 DEF PaidFor
  <2>5. <<>> \o <<>> = <<>>
    OBVIOUS
  <2>6. QED
    BY <1>4, <2>1, <2>2, <2>4, <2>5, NoStatusIs, PayingNext
<1>20. CASE UNCHANGED vars
  <2>1. Behind' = b /\ UNCHANGED <<status, FETCH2, payVars>>
    BY <1>1, <1>20 DEF vars, Behind
  <2>2. QED
    BY <1>10, <2>1
<1>21. QED
  BY <1>5, <1>6, <1>8, <1>9, <1>11, <1>12, <1>13, <1>16, <1>17, <1>18, <1>19, <1>20 DEF Next

----------------------------------------------------------------------------
(* The branch queue.                                                        *)

(* The phase of the n-th place behind the head.                             *)
Lap(h, p, n) == IF h + n >= BQSize THEN 1 - p ELSE p

LEMMA RingApart ==
  ASSUME NEW n \in Nat \ {0}, NEW h \in 0 .. n - 1, NEW a \in 0 .. n - 1, NEW b \in 0 .. n - 1,
         Ring(n, h, a) = Ring(n, h, b)
  PROVE  a = b
BY DEF Ring

(* A place behind the a-th one, counted from there.                         *)
LEMMA RingBehind ==
  ASSUME NEW h \in BQIndex, NEW p \in {0, 1}, NEW a \in Nat, NEW n \in Nat, a + n <= BQSize,
         NEW t, t = Ring(BQSize, h, a), NEW q, q = Lap(h, p, a)
  PROVE  /\ (t + n) % BQSize = Ring(BQSize, h, a + n)
         /\ (IF t + n >= BQSize THEN 1 - q ELSE q) = Lap(h, p, a + n)
         /\ a < BQSize => (IF t + 1 = BQSize THEN 1 - q ELSE q) = Lap(h, p, a + 1)
<1>1. BQSize \in Nat \ {0} /\ h \in 0 .. BQSize - 1
  BY Sizes DEF BQIndex
<1>2. a \in 0 .. BQSize /\ n \in 0 .. BQSize
  BY <1>1
<1>3. t \in 0 .. BQSize - 1
  BY <1>1, <1>2, RingIsMod
<1>4. (t + n) % BQSize = Ring(BQSize, t, n)
  BY <1>1, <1>2, <1>3, RingIsMod
<1>5. Ring(BQSize, t, n) = Ring(BQSize, h, a + n)
  BY <1>1, <1>2 DEF Ring
<1>6. (IF t + n >= BQSize THEN 1 - q ELSE q) = Lap(h, p, a + n)
  <2>1. CASE h + a >= BQSize
    <3>1. t = h + a - BQSize /\ q = 1 - p
      BY <2>1 DEF Ring, Lap
    <3>2. ~ (t + n >= BQSize) /\ h + (a + n) >= BQSize
      BY <1>1, <2>1, <3>1
    <3>3. QED
      BY <3>1, <3>2 DEF Lap
  <2>2. CASE ~ (h + a >= BQSize)
    <3>1. t = h + a /\ q = p
      BY <2>2 DEF Ring, Lap
    <3>2. t + n >= BQSize <=> h + (a + n) >= BQSize
      BY <1>1, <3>1
    <3>3. QED
      BY <3>1, <3>2 DEF Lap
  <2>3. QED
    BY <2>1, <2>2
<1>7. ASSUME a < BQSize PROVE (IF t + 1 = BQSize THEN 1 - q ELSE q) = Lap(h, p, a + 1)
  <2>1. CASE h + a >= BQSize
    <3>1. t = h + a - BQSize /\ q = 1 - p
      BY <2>1 DEF Ring, Lap
    <3>2. ~ (t + 1 = BQSize) /\ h + (a + 1) >= BQSize
      BY <1>1, <1>7, <2>1, <3>1
    <3>3. QED
      BY <3>1, <3>2 DEF Lap
  <2>2. CASE ~ (h + a >= BQSize)
    <3>1. t = h + a /\ q = p
      BY <2>2 DEF Ring, Lap
    <3>2. t + 1 = BQSize <=> h + (a + 1) >= BQSize
      BY <1>1, <2>2, <3>1
    <3>3. QED
      BY <3>1, <3>2 DEF Lap
  <2>3. QED
    BY <2>1, <2>2
<1>8. QED
  BY <1>4, <1>5, <1>6, <1>7

(* The head moves one place.                                                *)
LEMMA RingHead ==
  ASSUME NEW h \in BQIndex, NEW p \in {0, 1}, NEW n \in Nat, n + 1 <= BQSize,
         NEW g, g = (h + 1) % BQSize, NEW q, q = (IF h + 1 = BQSize THEN 1 - p ELSE p)
  PROVE  /\ g \in BQIndex
         /\ Ring(BQSize, g, n) = Ring(BQSize, h, n + 1) /\ Lap(g, q, n) = Lap(h, p, n + 1)
<1>1. BQSize \in Nat \ {0} /\ h \in 0 .. BQSize - 1 /\ 1 \in 0 .. BQSize
  BY Sizes DEF BQIndex
<1>2. g = Ring(BQSize, h, 1)
  BY <1>1, RingIsMod
<1>3. CASE h + 1 = BQSize
  <2>1. g = 0 /\ q = 1 - p
    BY <1>1, <1>2, <1>3 DEF Ring
  <2>2. ~ (g + n >= BQSize) /\ h + (n + 1) >= BQSize /\ g + n = h + (n + 1) - BQSize
    BY <1>1, <1>3, <2>1
  <2>3. QED
    BY <1>1, <2>1, <2>2 DEF Ring, Lap, BQIndex
<1>4. CASE h + 1 # BQSize
  <2>1. g = h + 1 /\ q = p /\ g \in 0 .. BQSize - 1
    BY <1>1, <1>2, <1>4 DEF Ring
  <2>2. g + n = h + (n + 1)
    BY <1>1, <2>1
  <2>3. QED
    BY <1>1, <2>1, <2>2 DEF Ring, Lap, BQIndex
<1>5. QED
  BY <1>3, <1>4

(* The queue q from place h to place t, with their phases, holds exactly    *)
(* the branches of s.                                                       *)
Entry(h, p, q, s, k) ==
  /\ s[k].tag = Ring(BQSize, h, Before(s, k)) /\ s[k].phase = Lap(h, p, Before(s, k))
  /\ q[s[k].tag].taken = s[k].taken

Ends(h, p, t, r, s) ==
  t = Ring(BQSize, h, Before(s, Len(s) + 1)) /\ r = Lap(h, p, Before(s, Len(s) + 1))

InQueue(h, p, t, r, q, s) == (\A k \in Branches(s) : Entry(h, p, q, s, k)) /\ Ends(h, p, t, r, s)

InQueueMod(h, p, t, r, q, s) ==
  LET Place(n) == (h + n) % BQSize
      Phase(n) == IF h + n >= BQSize THEN 1 - p ELSE p
      queued   == Before(s, Len(s) + 1) IN
  /\ \A k \in Branches(s) :
       /\ s[k].tag = Place(Before(s, k))
       /\ s[k].phase = Phase(Before(s, k))
       /\ q[s[k].tag].taken = s[k].taken
  /\ t = Place(queued) /\ r = Phase(queued)

LEMMA InQueueIsMod ==
  ASSUME NEW h \in BQIndex, NEW p, NEW t, NEW r, NEW q,
         NEW s \in Seq(Insts), Len(s) <= Window + InstrPerCycle
  PROVE  InQueueMod(h, p, t, r, q, s) <=> InQueue(h, p, t, r, q, s)
<1>1. BQSize \in Nat \ {0} /\ h \in 0 .. BQSize - 1
  BY Sizes DEF BQIndex
<1>2. PICK e \in 0 .. BQSize : e = Before(s, Len(s) + 1)
  BY Room
<1>3. (h + e) % BQSize = Ring(BQSize, h, e)
  BY <1>1, RingIsMod
<1>4. ASSUME NEW k \in Branches(s)
      PROVE  (h + Before(s, k)) % BQSize = Ring(BQSize, h, Before(s, k))
  <2>1. PICK n \in 0 .. BQSize : n = Before(s, k)
    BY <1>1, Room
  <2>2. (h + n) % BQSize = Ring(BQSize, h, n)
    BY <1>1, RingIsMod
  <2>3. QED
    BY <2>1, <2>2
<1>5. (\A k \in Branches(s) :
         /\ s[k].tag = (h + Before(s, k)) % BQSize
         /\ s[k].phase = IF h + Before(s, k) >= BQSize THEN 1 - p ELSE p
         /\ q[s[k].tag].taken = s[k].taken)
      <=> \A k \in Branches(s) : Entry(h, p, q, s, k)
  BY <1>4 DEF Entry, Lap
<1>6. (t = (h + e) % BQSize /\ r = IF h + e >= BQSize THEN 1 - p ELSE p)
      <=> Ends(h, p, t, r, s)
  BY <1>2, <1>3 DEF Ends, Lap
<1>7. QED
  BY <1>2, <1>5, <1>6 DEF InQueueMod, InQueue

LEMMA QueueIs ==
  ASSUME TypeOK
  PROVE  /\ BranchQueueInOrder <=> InQueue(bqHead, bqHeadPhase, bqTail, bqTailPhase, bq, Behind)
         /\ bqHead \in BQIndex /\ bqHeadPhase \in {0, 1}
         /\ Behind \in Seq(Insts) /\ Len(Behind) <= Window + InstrPerCycle
<1>1. BranchQueueInOrder <=> InQueueMod(bqHead, bqHeadPhase, bqTail, bqTailPhase, bq, Behind)
  BY DEF BranchQueueInOrder, InQueueMod
<1>2. /\ bqHead \in BQIndex /\ bqHeadPhase \in {0, 1}
      /\ Behind \in Seq(Insts) /\ Len(Behind) <= Window + InstrPerCycle
  BY Lengths DEF TypeOK
<1>3. QED
  BY <1>1, <1>2, InQueueIsMod

LEMMA QueueNext ==
  ASSUME bqHead' \in BQIndex, Behind' \in Seq(Insts), Len(Behind') <= Window + InstrPerCycle,
         InQueue(bqHead', bqHeadPhase', bqTail', bqTailPhase', bq', Behind')
  PROVE  BranchQueueInOrder'
<1>1. PICK s \in Seq(Insts), h \in BQIndex : s = Behind' /\ h = bqHead'
  OBVIOUS
<1>2. InQueueMod(h, bqHeadPhase', bqTail', bqTailPhase', bq', s)
  BY <1>1, InQueueIsMod
<1>3. QED
  BY <1>1, <1>2 DEF BranchQueueInOrder, InQueueMod

(* The same branches in other words.                                        *)
LEMMA InQueueAlike ==
  ASSUME NEW h, NEW p, NEW t, NEW r, NEW q, NEW s \in Seq(Insts), NEW u \in Seq(Insts),
         InQueue(h, p, t, r, q, s), Len(u) = Len(s),
         \A k \in 1 .. Len(s) : /\ u[k].kind = s[k].kind /\ u[k].taken = s[k].taken
                                /\ u[k].tag = s[k].tag /\ u[k].phase = s[k].phase
  PROVE  InQueue(h, p, t, r, q, u)
<1>1. Len(s) \in Nat
  BY LenProperties
<1>2. \A k \in 1 .. Len(s) : IsBranch(u[k]) <=> IsBranch(s[k])
  BY DEF IsBranch
<1>3. ASSUME NEW k \in 1 .. Len(s) + 1 PROVE Before(u, k) = Before(s, k)
  <2>1. k \in Nat /\ k - 1 <= Len(s) /\ \A j \in 1 .. k - 1 : j \in 1 .. Len(s)
    BY <1>1
  <2>2. QED
    BY <1>2, <2>1, BeforeAgree
<1>4. \A k : k \in Branches(u) <=> k \in Branches(s)
  BY <1>2, BranchPlaces
<1>5. ASSUME NEW k \in Branches(u) PROVE Entry(h, p, q, u, k)
  <2>1. k \in Branches(s) /\ k \in 1 .. Len(s) /\ k \in 1 .. Len(s) + 1
    BY <1>1, <1>4, BranchPlaces
  <2>2. Entry(h, p, q, s, k)
    BY <2>1 DEF InQueue
  <2>3. QED
    BY <1>3, <2>1, <2>2 DEF Entry
<1>6. Before(u, Len(u) + 1) = Before(s, Len(s) + 1)
  <2>1. Len(s) + 1 \in 1 .. Len(s) + 1
    BY <1>1
  <2>2. QED
    BY <1>3, <2>1
<1>7. QED
  BY <1>5, <1>6 DEF InQueue, Ends

LEMMA InQueueEmpty ==
  ASSUME NEW h \in BQIndex, NEW p, NEW q
  PROVE  InQueue(h, p, h, p, q, <<>>)
<1>1. PICK e \in Seq(Insts) : e = <<>> /\ Len(e) = 0
  <2>1. <<>> \in Seq(Insts) /\ Len(<<>>) = 0
    BY EmptySeq
  <2>2. QED
    BY <2>1
<1>2. Before(e, Len(e) + 1) = 0
  <2>1. Len(e) + 1 = 1
    BY <1>1
  <2>2. QED
    BY <2>1, BeforeFirst
<1>3. \A k : k \notin Branches(e)
  <2>1. \A k : k \in Branches(e) => k \in 1 .. Len(e)
    BY BranchPlaces
  <2>2. QED
    BY <1>1, <2>1
<1>4. h \in 0 .. BQSize - 1 /\ BQSize \in Nat
  BY Sizes DEF BQIndex
<1>5. Ring(BQSize, h, 0) = h /\ Lap(h, p, 0) = p
  BY <1>4 DEF Ring, Lap
<1>6. InQueue(h, p, h, p, q, e)
  BY <1>2, <1>3, <1>5 DEF InQueue, Ends
<1>7. QED
  BY <1>1, <1>6

(* The oldest instruction leaves, and the head moves if it was a branch.    *)
LEMMA InQueuePop ==
  ASSUME NEW h \in BQIndex, NEW p \in {0, 1}, NEW t, NEW r, NEW q,
         NEW s \in Seq(Insts), Len(s) <= Window + InstrPerCycle, s # <<>>,
         InQueue(h, p, t, r, q, s), NEW g, NEW o,
         IsBranch(s[1]) => g = (h + 1) % BQSize /\ o = (IF h + 1 = BQSize THEN 1 - p ELSE p),
         ~ IsBranch(s[1]) => g = h /\ o = p
  PROVE  g \in BQIndex /\ InQueue(g, o, t, r, q, Tail(s))
<1>1. Len(s) \in Nat \ {0} /\ BQSize \in Nat \ {0}
  BY EmptySeq, LenProperties, Sizes
<1>2. PICK u \in Seq(Insts) :
        /\ u = Tail(s) /\ Len(u) = Len(s) - 1 /\ \A i \in 1 .. Len(u) : u[i] = s[i + 1]
  <2>1. /\ Tail(s) \in Seq(Insts) /\ Len(Tail(s)) = Len(s) - 1
        /\ \A i \in 1 .. Len(Tail(s)) : Tail(s)[i] = s[i + 1]
    BY HeadTailProperties
  <2>2. QED
    BY <2>1
<1>3. ASSUME NEW k \in 1 .. Len(s), NEW n, n = Before(u, k), NEW m, m = Before(s, k + 1), m <= BQSize
      PROVE  Ring(BQSize, g, n) = Ring(BQSize, h, m) /\ Lap(g, o, n) = Lap(h, p, m) /\ g \in BQIndex
  <2>1. n \in Nat /\ m = n + (IF IsBranch(s[1]) THEN 1 ELSE 0)
    <3>1. k \in Nat
      BY <1>1
    <3>2. Before(u, k) \in Nat
      BY <3>1, BeforeFinite
    <3>3. Before(s, k + 1) = Before(u, k) + (IF IsBranch(s[1]) THEN 1 ELSE 0)
      BY <1>2, BeforeTail
    <3>4. QED
      BY <1>3, <3>2, <3>3
  <2>2. CASE IsBranch(s[1])
    <3>1. m = n + 1 /\ n + 1 <= BQSize
      BY <1>3, <2>1, <2>2
    <3>2. /\ g \in BQIndex
          /\ Ring(BQSize, g, n) = Ring(BQSize, h, n + 1) /\ Lap(g, o, n) = Lap(h, p, n + 1)
      <4>1. g = (h + 1) % BQSize /\ o = (IF h + 1 = BQSize THEN 1 - p ELSE p) /\ n \in Nat
        BY <2>1, <2>2
      <4>2. QED
        BY <3>1, <4>1, RingHead
    <3>3. QED
      BY <3>1, <3>2
  <2>3. CASE ~ IsBranch(s[1])
    BY <2>1, <2>3
  <2>4. QED
    BY <2>2, <2>3
<1>4. ASSUME NEW k \in Branches(u) PROVE Entry(g, o, q, u, k)
  <2>1. k \in 1 .. Len(u) /\ IsBranch(u[k])
    BY BranchPlaces
  <2>2. k + 1 \in 1 .. Len(s) /\ k \in 1 .. Len(s) /\ u[k] = s[k + 1]
    BY <1>1, <1>2, <2>1
  <2>3. k + 1 \in Branches(s)
    BY <2>1, <2>2, BranchPlaces
  <2>4. Before(s, k + 1) <= BQSize
    <3>1. Before(s, k + 1) \in 0 .. BQSize - 1
      BY <2>3, Room
    <3>2. QED
      BY <1>1, <3>1
  <2>5. /\ Ring(BQSize, g, Before(u, k)) = Ring(BQSize, h, Before(s, k + 1))
        /\ Lap(g, o, Before(u, k)) = Lap(h, p, Before(s, k + 1))
    BY <1>3, <2>2, <2>4
  <2>6. Entry(h, p, q, s, k + 1)
    BY <2>3 DEF InQueue
  <2>7. QED
    BY <2>2, <2>5, <2>6 DEF Entry
<1>5. Ends(g, o, t, r, u) /\ g \in BQIndex
  <2>1. Len(s) \in 1 .. Len(s) /\ Len(u) + 1 = Len(s)
    BY <1>1, <1>2
  <2>2. Before(s, Len(s) + 1) <= BQSize
    BY <1>1, Room
  <2>3. /\ Ring(BQSize, g, Before(u, Len(s))) = Ring(BQSize, h, Before(s, Len(s) + 1))
        /\ Lap(g, o, Before(u, Len(s))) = Lap(h, p, Before(s, Len(s) + 1))
        /\ g \in BQIndex
    BY <1>3, <2>1, <2>2
  <2>4. QED
    BY <2>1, <2>3 DEF InQueue, Ends
<1>6. QED
  BY <1>2, <1>4, <1>5 DEF InQueue

(* The entries of two branches in the queue are not the same.               *)
LEMMA TagsApart ==
  ASSUME NEW h \in BQIndex, NEW p, NEW t, NEW r, NEW q,
         NEW s \in Seq(Insts), Len(s) <= Window + InstrPerCycle, InQueue(h, p, t, r, q, s),
         NEW j \in Branches(s), NEW k \in Branches(s), s[j].tag = s[k].tag
  PROVE  j = k
<1>1. BQSize \in Nat \ {0} /\ h \in 0 .. BQSize - 1
  BY Sizes DEF BQIndex
<1>2. PICK a \in 0 .. BQSize - 1, b \in 0 .. BQSize - 1 : a = Before(s, j) /\ b = Before(s, k)
  BY Room
<1>3. Ring(BQSize, h, a) = Ring(BQSize, h, b)
  BY <1>2 DEF InQueue, Entry
<1>4. a = b
  BY <1>1, <1>3, RingApart
<1>5. QED
  BY <1>2, <1>4, BeforeApart

(* u is s up to the branch at its k-th place, now resolved, whose direction *)
(* v holds instead of q, and a, with phase b, is the place behind it.       *)
CutAt(s, u, k) ==
  /\ Len(u) = k /\ \A j \in 1 .. k - 1 : u[j] = s[j]
  /\ u[k].kind = s[k].kind /\ u[k].tag = s[k].tag /\ u[k].phase = s[k].phase

Redirected(q, v, s, u, k) == v = [q EXCEPT ![s[k].tag].taken = u[k].taken]

EndsBehind(s, k, a, b) ==
  /\ a = (s[k].tag + 1) % BQSize
  /\ b = (IF s[k].tag + 1 = BQSize THEN 1 - s[k].phase ELSE s[k].phase)

LEMMA InQueueCut ==
  ASSUME NEW h \in BQIndex, NEW p \in {0, 1}, NEW t, NEW r,
         NEW q \in [BQIndex -> [bhr : Histories, taken : BOOLEAN]],
         NEW s \in Seq(Insts), Len(s) <= Window + InstrPerCycle, InQueue(h, p, t, r, q, s),
         NEW k \in Branches(s),
         NEW u \in Seq(Insts), CutAt(s, u, k), NEW v, Redirected(q, v, s, u, k),
         NEW a, NEW b, EndsBehind(s, k, a, b)
  PROVE  InQueue(h, p, a, b, v, u)
<1>0. /\ Len(u) = k /\ \A j \in 1 .. k - 1 : u[j] = s[j]
      /\ u[k].kind = s[k].kind /\ u[k].tag = s[k].tag /\ u[k].phase = s[k].phase
      /\ v = [q EXCEPT ![s[k].tag].taken = u[k].taken]
      /\ a = (s[k].tag + 1) % BQSize
      /\ b = (IF s[k].tag + 1 = BQSize THEN 1 - s[k].phase ELSE s[k].phase)
  BY DEF CutAt, Redirected, EndsBehind
<1>1. /\ BQSize \in Nat \ {0} /\ k \in 1 .. Len(s) /\ Len(s) \in Nat /\ IsBranch(s[k])
      /\ k \in Nat
  BY Sizes, BranchPlaces
<1>2. ASSUME NEW j \in 1 .. k PROVE Before(u, j) = Before(s, j)
  <2>1. j \in Nat /\ j - 1 <= Len(s) /\ j - 1 <= Len(u) /\ \A i \in 1 .. j - 1 : i \in 1 .. k - 1
    BY <1>0, <1>1
  <2>2. \A i \in 1 .. j - 1 : IsBranch(u[i]) <=> IsBranch(s[i])
    BY <1>0, <2>1
  <2>3. QED
    BY <2>1, <2>2, BeforeAgree
<1>3. ASSUME NEW j \in Branches(u)
      PROVE  /\ j \in Branches(s) /\ j \in 1 .. k /\ u[j].tag = s[j].tag /\ u[j].phase = s[j].phase
             /\ j # k => u[j] = s[j]
  <2>1. j \in 1 .. k /\ IsBranch(u[j])
    BY <1>0, BranchPlaces
  <2>2. j \in 1 .. k - 1 \/ j = k
    BY <1>1, <2>1
  <2>3. j \in 1 .. Len(s)
    BY <1>1, <2>1
  <2>4. IsBranch(s[j])
    BY <1>0, <1>1, <2>1, <2>2
  <2>5. QED
    BY <1>0, <2>1, <2>2, <2>3, <2>4, BranchPlaces
<1>4. ASSUME NEW j \in Branches(u) PROVE Entry(h, p, v, u, j)
  <2>1. Entry(h, p, q, s, j)
    BY <1>3 DEF InQueue
  <2>2. s[j] \in Insts /\ s[k] \in Insts
    BY <1>1, <1>3, BranchPlaces, ElementOfSeq
  <2>3. PICK x \in BQIndex, y \in BQIndex : x = s[j].tag /\ y = s[k].tag
    BY <2>2 DEF Insts
  <2>4. v[x].taken = u[j].taken
    <3>1. CASE j = k
      BY <1>0, <2>3, <3>1
    <3>2. CASE j # k
      <4>1. x # y
        BY <1>3, <2>3, <3>2, TagsApart
      <4>2. v[x] = q[x]
        BY <1>0, <2>3, <4>1
      <4>3. QED
        BY <1>3, <2>1, <2>3, <3>2, <4>2 DEF Entry
    <3>3. QED
      BY <3>1, <3>2
  <2>5. QED
    BY <1>2, <1>3, <2>1, <2>3, <2>4 DEF Entry
<1>5. Ends(h, p, a, b, u)
  <2>1. PICK n \in 0 .. BQSize - 1 : n = Before(s, k)
    BY Room
  <2>2. Before(u, Len(u) + 1) = n + 1
    <3>1. k \in 1 .. Len(u) /\ k \in 1 .. k
      BY <1>0, <1>1
    <3>2. IsBranch(u[k])
      BY <1>0, <1>1 DEF IsBranch
    <3>3. Before(u, k + 1) = Before(u, k) + 1
      BY <3>1, <3>2, BeforeStep
    <3>4. QED
      BY <1>0, <1>2, <2>1, <3>1, <3>3
  <2>3. PICK x, y : x = s[k].tag /\ y = s[k].phase /\ x = Ring(BQSize, h, n) /\ y = Lap(h, p, n)
    BY <2>1 DEF InQueue, Entry
  <2>4. n \in Nat /\ n + 1 <= BQSize /\ n < BQSize /\ 1 \in Nat
    BY <1>1, <2>1
  <2>5. (x + 1) % BQSize = Ring(BQSize, h, n + 1)
    BY <2>3, <2>4, RingBehind
  <2>6. (IF x + 1 = BQSize THEN 1 - y ELSE y) = Lap(h, p, n + 1)
    BY <2>3, <2>4, RingBehind
  <2>7. QED
    BY <1>0, <2>2, <2>3, <2>5, <2>6 DEF Ends
<1>6. QED
  BY <1>4, <1>5 DEF InQueue

(* The places behind the tail, where the branches of a bundle go.           *)
LEMMA PlacesBehind ==
  ASSUME NEW h \in BQIndex, NEW p \in {0, 1}, NEW t, NEW r, NEW q,
         NEW s \in Seq(Insts), InQueue(h, p, t, r, q, s), NEW c \in Seq(Insts),
         Len(s) + Len(c) <= Window + InstrPerCycle,
         NEW m, m = Before(s, Len(s) + 1)
  PROVE  /\ m \in Nat
         /\ \A k \in Branches(c) :
              /\ m + Before(c, k) \in 0 .. BQSize - 1
              /\ (t + Before(c, k)) % BQSize = Ring(BQSize, h, m + Before(c, k))
              /\ (IF t + Before(c, k) >= BQSize THEN 1 - r ELSE r) = Lap(h, p, m + Before(c, k))
              /\ \A j \in Branches(s) : s[j].tag # (t + Before(c, k)) % BQSize
              /\ \A j \in Branches(c) :
                   (t + Before(c, j)) % BQSize = (t + Before(c, k)) % BQSize => j = k
         /\ LET e == Before(c, Len(c) + 1) IN
              /\ (t + e) % BQSize = Ring(BQSize, h, m + e)
              /\ (IF t + e >= BQSize THEN 1 - r ELSE r) = Lap(h, p, m + e)
<1>1. /\ BQSize \in Nat \ {0} /\ h \in 0 .. BQSize - 1 /\ Len(s) \in Nat /\ Len(c) \in Nat
      /\ Window \in Nat /\ InstrPerCycle \in Nat
  BY Sizes, LenProperties DEF BQIndex
<1>2. m \in Nat
  <2>1. Len(s) + 1 \in Nat
    BY <1>1
  <2>2. QED
    BY <2>1, BeforeFinite
<1>3. PICK u \in Seq(Insts) :
        /\ u = s \o c /\ Len(u) = Len(s) + Len(c)
        /\ \A k \in 1 .. Len(c) : u[Len(s) + k] = c[k]
  BY JoinIs
<1>4. ASSUME NEW k \in 1 .. Len(c) + 1 PROVE Before(u, Len(s) + k) = m + Before(c, k)
  BY <1>3, BeforeJoin
<1>5. t = Ring(BQSize, h, m) /\ r = Lap(h, p, m)
  BY DEF InQueue, Ends
<1>6. ASSUME NEW n \in Nat, m + n <= BQSize
      PROVE  /\ (t + n) % BQSize = Ring(BQSize, h, m + n)
             /\ (IF t + n >= BQSize THEN 1 - r ELSE r) = Lap(h, p, m + n)
  BY <1>2, <1>5, <1>6, RingBehind
<1>7. ASSUME NEW k \in Branches(c)
      PROVE  /\ Before(c, k) \in Nat /\ m + Before(c, k) \in 0 .. BQSize - 1
             /\ (t + Before(c, k)) % BQSize = Ring(BQSize, h, m + Before(c, k))
             /\ (IF t + Before(c, k) >= BQSize THEN 1 - r ELSE r) = Lap(h, p, m + Before(c, k))
  <2>1. k \in 1 .. Len(c) /\ IsBranch(c[k]) /\ k \in 1 .. Len(c) + 1 /\ k \in Nat
    BY <1>1, BranchPlaces
  <2>2. PICK i : i = Len(s) + k
    OBVIOUS
  <2>3. i \in 1 .. Len(u)
    BY <1>1, <1>3, <2>1, <2>2
  <2>4. i \in Branches(u)
    BY <1>3, <2>1, <2>2, <2>3, BranchPlaces
  <2>5. Before(u, i) \in 0 .. BQSize - 1
    BY <1>3, <2>4, Room
  <2>6. PICK n \in Nat : n = Before(c, k)
    BY <2>1, BeforeFinite
  <2>7. m + n \in 0 .. BQSize - 1
    BY <1>4, <2>1, <2>2, <2>5, <2>6
  <2>8. m + n <= BQSize
    BY <1>1, <1>2, <2>7
  <2>9. QED
    BY <1>6, <2>6, <2>7, <2>8
<1>8. ASSUME NEW k \in Branches(c), NEW j \in Branches(s)
      PROVE  s[j].tag # (t + Before(c, k)) % BQSize
  <2>1. j \in 1 .. Len(s)
    BY BranchPlaces
  <2>2. j < Len(s) + 1 /\ Len(s) + 1 \in 1 .. Len(s) + 1 /\ j \in Nat
    BY <1>1, <2>1
  <2>3. Before(s, j) < m /\ Before(s, j) \in Nat
    BY <2>2, BeforeStrict, BeforeFinite
  <2>4. PICK a \in Nat, n \in Nat : a = Before(s, j) /\ n = Before(c, k)
    BY <1>7, <2>3
  <2>5. a < m /\ m + n \in 0 .. BQSize - 1
    BY <1>7, <2>3, <2>4
  <2>6. a \in 0 .. BQSize - 1 /\ a # m + n
    BY <1>1, <1>2, <2>5
  <2>7. Ring(BQSize, h, a) # Ring(BQSize, h, m + n)
    BY <1>1, <2>5, <2>6, RingApart
  <2>8. s[j].tag = Ring(BQSize, h, a)
    BY <2>4 DEF InQueue, Entry
  <2>9. QED
    BY <1>7, <2>4, <2>7, <2>8
<1>9. ASSUME NEW k \in Branches(c), NEW j \in Branches(c),
             (t + Before(c, j)) % BQSize = (t + Before(c, k)) % BQSize
      PROVE  j = k
  <2>1. PICK a \in Nat, n \in Nat : a = Before(c, j) /\ n = Before(c, k)
    BY <1>7
  <2>2. /\ m + a \in 0 .. BQSize - 1 /\ m + n \in 0 .. BQSize - 1
        /\ Ring(BQSize, h, m + a) = Ring(BQSize, h, m + n)
    BY <1>7, <1>9, <2>1
  <2>3. m + a = m + n
    BY <1>1, <2>2, RingApart
  <2>4. a = n
    BY <1>2, <2>3
  <2>5. QED
    BY <2>1, <2>4, BeforeApart
<1>10. PICK e \in Nat : e = Before(c, Len(c) + 1) /\ m + e <= BQSize
  <2>1. Len(c) + 1 \in 1 .. Len(c) + 1 /\ Len(c) + 1 \in Nat /\ Len(s) + (Len(c) + 1) = Len(u) + 1
    BY <1>1, <1>3
  <2>2. Before(u, Len(u) + 1) = m + Before(c, Len(c) + 1)
    BY <1>4, <2>1
  <2>3. Before(u, Len(u) + 1) \in 0 .. BQSize
    BY <1>3, Room
  <2>4. Before(c, Len(c) + 1) \in Nat
    BY <2>1, BeforeFinite
  <2>5. QED
    BY <1>1, <2>2, <2>3, <2>4
<1>11. /\ (t + e) % BQSize = Ring(BQSize, h, m + e)
       /\ (IF t + e >= BQSize THEN 1 - r ELSE r) = Lap(h, p, m + e)
  BY <1>6, <1>10
<1>12. QED
  BY <1>2, <1>7, <1>8, <1>9, <1>10, <1>11

(* d is the bundle c with the places of its branches behind place t, and v  *)
(* is q with the directions of these branches there.                        *)
Placed(t, r, c, d) ==
  /\ Len(d) = Len(c)
  /\ \A k \in 1 .. Len(c) :
       /\ d[k].kind = c[k].kind /\ d[k].taken = c[k].taken
       /\ IsBranch(c[k]) =>
            /\ d[k].tag = (t + Before(c, k)) % BQSize
            /\ d[k].phase = IF t + Before(c, k) >= BQSize THEN 1 - r ELSE r

Filled(q, v, t, s, c) ==
  /\ \A k \in Branches(c) : v[(t + Before(c, k)) % BQSize].taken = c[k].taken
  /\ \A j \in Branches(s) : v[s[j].tag] = q[s[j].tag]

EndsAfter(t, r, c, a, b) ==
  LET e == Before(c, Len(c) + 1) IN
  a = (t + e) % BQSize /\ b = (IF t + e >= BQSize THEN 1 - r ELSE r)

LEMMA InQueuePush ==
  ASSUME NEW h \in BQIndex, NEW p \in {0, 1}, NEW t, NEW r, NEW q,
         NEW s \in Seq(Insts), InQueue(h, p, t, r, q, s), NEW c \in Seq(Insts),
         Len(s) + Len(c) <= Window + InstrPerCycle,
         NEW d \in Seq(Insts), Placed(t, r, c, d), NEW v, Filled(q, v, t, s, c),
         NEW a, NEW b, EndsAfter(t, r, c, a, b)
  PROVE  InQueue(h, p, a, b, v, s \o d)
<1>0. PICK e :
        /\ e = Before(c, Len(c) + 1)
        /\ a = (t + e) % BQSize /\ b = (IF t + e >= BQSize THEN 1 - r ELSE r)
        /\ Len(d) = Len(c)
        /\ \A k \in 1 .. Len(c) : d[k].kind = c[k].kind /\ d[k].taken = c[k].taken
  BY DEF Placed, EndsAfter
<1>1. Len(s) \in Nat /\ Len(c) \in Nat
  BY LenProperties
<1>2. PICK u \in Seq(Insts) :
        /\ u = s \o d /\ Len(u) = Len(s) + Len(c)
        /\ \A k \in 1 .. Len(s) : u[k] = s[k]
        /\ \A k \in 1 .. Len(c) : u[Len(s) + k] = d[k]
        /\ \A k \in 1 .. Len(s) + Len(c) : k \in 1 .. Len(s) \/ k - Len(s) \in 1 .. Len(c)
  BY <1>0, JoinIs
<1>3. PICK m \in Nat :
        /\ m = Before(s, Len(s) + 1)
        /\ \A k \in Branches(c) :
             /\ (t + Before(c, k)) % BQSize = Ring(BQSize, h, m + Before(c, k))
             /\ (IF t + Before(c, k) >= BQSize THEN 1 - r ELSE r) = Lap(h, p, m + Before(c, k))
        /\ a = Ring(BQSize, h, m + e) /\ b = Lap(h, p, m + e)
  <2>1. PICK m : m = Before(s, Len(s) + 1)
    OBVIOUS
  <2>2. /\ m \in Nat
        /\ \A k \in Branches(c) :
             /\ (t + Before(c, k)) % BQSize = Ring(BQSize, h, m + Before(c, k))
             /\ (IF t + Before(c, k) >= BQSize THEN 1 - r ELSE r) = Lap(h, p, m + Before(c, k))
        /\ (t + e) % BQSize = Ring(BQSize, h, m + e)
        /\ (IF t + e >= BQSize THEN 1 - r ELSE r) = Lap(h, p, m + e)
    BY <1>0, <2>1, PlacesBehind
  <2>3. QED
    BY <1>0, <2>1, <2>2
<1>4. \A k \in 1 .. Len(c) : IsBranch(d[k]) <=> IsBranch(c[k])
  BY <1>0 DEF IsBranch
<1>5. ASSUME NEW k \in 1 .. Len(c) + 1 PROVE Before(u, Len(s) + k) = m + Before(c, k)
  <2>1. k \in 1 .. Len(d) + 1 /\ k \in Nat /\ k - 1 <= Len(c) /\ k - 1 <= Len(d)
        /\ \A j \in 1 .. k - 1 : j \in 1 .. Len(c)
    BY <1>0, <1>1
  <2>2. Before(d, k) = Before(c, k)
    BY <1>4, <2>1, BeforeAgree
  <2>3. QED
    BY <1>2, <1>3, <2>1, <2>2, BeforeJoin
<1>6. ASSUME NEW k \in 1 .. Len(s) PROVE Before(u, k) = Before(s, k)
  <2>1. k \in Nat /\ k - 1 <= Len(s) /\ k - 1 <= Len(u) /\ \A j \in 1 .. k - 1 : j \in 1 .. Len(s)
    BY <1>1, <1>2
  <2>2. QED
    BY <1>2, <2>1, BeforeAgree
<1>7. ASSUME NEW k \in Branches(u) PROVE Entry(h, p, v, u, k)
  <2>1. k \in 1 .. Len(s) + Len(c) /\ IsBranch(u[k])
    BY <1>2, BranchPlaces
  <2>2. CASE k \in 1 .. Len(s)
    <3>1. k \in Branches(s) /\ u[k] = s[k]
      BY <1>2, <2>1, <2>2, BranchPlaces
    <3>2. Entry(h, p, q, s, k)
      BY <3>1 DEF InQueue
    <3>3. QED
      BY <1>6, <2>2, <3>1, <3>2 DEF Entry, Filled
  <2>3. CASE k - Len(s) \in 1 .. Len(c)
    <3>1. PICK j \in 1 .. Len(c) : j = k - Len(s)
      BY <2>3
    <3>2. k = Len(s) + j /\ j \in 1 .. Len(c) + 1
      BY <1>1, <2>1, <3>1
    <3>3. u[k] = d[j]
      BY <1>2, <3>2
    <3>4. j \in Branches(c) /\ IsBranch(c[j])
      BY <1>4, <2>1, <3>3, BranchPlaces
    <3>5. Before(u, k) = m + Before(c, j)
      BY <1>5, <3>2
    <3>6. QED
      <4>1. /\ d[j].taken = c[j].taken
            /\ d[j].tag = (t + Before(c, j)) % BQSize
            /\ d[j].phase = IF t + Before(c, j) >= BQSize THEN 1 - r ELSE r
        BY <3>4 DEF Placed
      <4>2. d[j].tag = Ring(BQSize, h, Before(u, k)) /\ d[j].phase = Lap(h, p, Before(u, k))
        BY <1>3, <3>4, <3>5, <4>1
      <4>3. v[d[j].tag].taken = d[j].taken
        BY <3>4, <4>1 DEF Filled
      <4>4. QED
        BY <3>3, <4>2, <4>3 DEF Entry
  <2>4. QED
    BY <1>2, <2>1, <2>2, <2>3
<1>8. Ends(h, p, a, b, u)
  <2>1. Len(c) + 1 \in 1 .. Len(c) + 1 /\ Len(s) + (Len(c) + 1) = Len(u) + 1
    BY <1>1, <1>2
  <2>2. Before(u, Len(u) + 1) = m + e
    BY <1>0, <1>5, <2>1
  <2>3. QED
    BY <1>3, <2>2 DEF Ends
<1>9. QED
  BY <1>2, <1>7, <1>8 DEF InQueue

(* What the branches of a bundle write into the queue, and what stays.      *)
LEMMA Pushed ==
  ASSUME IInv, Fetch2Advance, NEW c, c = Cut(Walk(FETCH2))
  PROVE  /\ c \in Seq(Insts) /\ Len(Behind) + Len(c) <= Window + InstrPerCycle
         /\ \A k \in Branches(c) : bq'[TagAfter(Before(c, k))] =
              [bhr |-> PreciseHistory(c, k), taken |-> c[k].taken]
         /\ \A j \in Branches(Behind) : bq'[Behind[j].tag] = bq[Behind[j].tag]
<1>1. TypeOK /\ BranchQueueInOrder
  BY DEF IInv
<1>2. /\ c \in Seq(Insts) /\ Len(c) \in 1 .. Len(Fetched) /\ Len(c) \in Nat
  BY PredecodeCuts DEF Fetch2Advance
<1>3. Len(Behind) + Len(c) <= Window + InstrPerCycle
  <2>1. Behind = window
    BY AdvanceMoves
  <2>2. Len(window) <= Window /\ Len(window) \in Nat /\ Len(Fetched) \in 0 .. InstrPerCycle
    BY <1>1, Lengths DEF TypeOK
  <2>3. QED
    BY <1>2, <2>1, <2>2, Sizes
<1>4. /\ InQueue(bqHead, bqHeadPhase, bqTail, bqTailPhase, bq, Behind)
      /\ bqHead \in BQIndex /\ bqHeadPhase \in {0, 1}
      /\ Behind \in Seq(Insts) /\ Len(Behind) <= Window + InstrPerCycle
  BY <1>1, QueueIs
<1> DEFINE P(k) == TagAfter(Before(c, k))
           E(k) == [bhr |-> PreciseHistory(c, k), taken |-> c[k].taken]
<1>5. bq' = [x \in BQIndex |->
               IF \E k \in Branches(c) : P(k) = x
               THEN LET k == CHOOSE k \in Branches(c) : P(k) = x IN E(k)
               ELSE bq[x]]
  BY DEF Fetch2Advance
<1>6. /\ \A k \in Branches(c) : /\ P(k) \in BQIndex
                                /\ \A j \in Branches(Behind) : Behind[j].tag # P(k)
                                /\ \A j \in Branches(c) : P(j) = P(k) => j = k
  <2>1. PICK m : m = Before(Behind, Len(Behind) + 1)
    OBVIOUS
  <2>2. \A k \in Branches(c) :
          /\ m + Before(c, k) \in 0 .. BQSize - 1
          /\ P(k) = Ring(BQSize, bqHead, m + Before(c, k))
          /\ \A j \in Branches(Behind) : Behind[j].tag # P(k)
          /\ \A j \in Branches(c) : P(j) = P(k) => j = k
    BY <1>2, <1>3, <1>4, <2>1, PlacesBehind DEF TagAfter
  <2>3. ASSUME NEW k \in Branches(c) PROVE P(k) \in BQIndex
    <3>1. PICK n \in 0 .. BQSize - 1 : n = m + Before(c, k) /\ P(k) = Ring(BQSize, bqHead, n)
      BY <2>2
    <3>2. bqHead \in 0 .. BQSize - 1 /\ BQSize \in Nat \ {0} /\ n \in 0 .. BQSize
      BY <1>4, Sizes DEF BQIndex
    <3>3. QED
      BY <3>1, <3>2, RingIsMod DEF BQIndex
  <2>4. QED
    BY <2>2, <2>3
<1> HIDE DEF P, E
<1>7. ASSUME NEW k \in Branches(c) PROVE bq'[P(k)] = E(k)
  <2>1. (CHOOSE j \in Branches(c) : P(j) = P(k)) = k
    BY <1>6
  <2>2. bq'[P(k)] = LET j == CHOOSE j \in Branches(c) : P(j) = P(k) IN E(j)
    BY <1>5, <1>6
  <2>3. QED
    BY <2>1, <2>2
<1>8. ASSUME NEW j \in Branches(Behind) PROVE bq'[Behind[j].tag] = bq[Behind[j].tag]
  <2>1. Behind[j] \in Insts
    BY <1>4, BranchPlaces, ElementOfSeq
  <2>2. PICK x \in BQIndex : x = Behind[j].tag
    BY <2>1 DEF Insts
  <2>3. ~ \E k \in Branches(c) : P(k) = x
    BY <1>6, <2>2
  <2>4. QED
    BY <1>5, <2>2, <2>3
<1>9. QED
  BY <1>2, <1>3, <1>7, <1>8 DEF P, E

LEMMA QueueInit == Init => BranchQueueInOrder
<1> SUFFICES ASSUME Init PROVE BranchQueueInOrder
  OBVIOUS
<1>1. TypeOK
  BY TypeInit
<1>2. Behind = <<>> /\ bqTail = bqHead /\ bqTailPhase = bqHeadPhase /\ bqHead \in BQIndex
  BY <1>1 DEF Init, Behind, TypeOK
<1>3. InQueue(bqHead, bqHeadPhase, bqTail, bqTailPhase, bq, Behind)
  BY <1>2, InQueueEmpty
<1>4. QED
  BY <1>1, <1>3, QueueIs

LEMMA QueueStep == IInv /\ [Next]_vars => BranchQueueInOrder'
<1> SUFFICES ASSUME IInv, [Next]_vars PROVE BranchQueueInOrder'
  OBVIOUS
<1>0. TypeOK /\ Stopping /\ BranchQueueInOrder
  BY DEF IInv
<1>1. /\ InQueue(bqHead, bqHeadPhase, bqTail, bqTailPhase, bq, Behind)
      /\ bqHead \in BQIndex /\ bqHeadPhase \in {0, 1}
      /\ Behind \in Seq(Insts) /\ Len(Behind) <= Window + InstrPerCycle
      /\ bq \in [BQIndex -> [bhr : Histories, taken : BOOLEAN]]
  BY <1>0, QueueIs DEF TypeOK
<1>2. PICK b \in Seq(Insts) : b = Behind /\ Len(b) \in Nat /\ b = Behind
  BY <1>1, LenProperties
<1>3. ASSUME Behind' = Behind, UNCHANGED bqVars PROVE BranchQueueInOrder'
  BY <1>0, <1>3 DEF BranchQueueInOrder, bqVars
<1>4. CASE Fetch1
  BY <1>3, <1>4 DEF Fetch1, Behind
<1>5. CASE Fetch2Misfetch
  BY <1>3, <1>5 DEF Fetch2Misfetch, Behind
<1>6. CASE Fetch2Stall
  BY <1>3, <1>6, StallMoves DEF Fetch2Stall
<1>7. CASE Fetch2Advance
  <2>1. PICK c : c = Cut(Walk(FETCH2))
    OBVIOUS
  <2>2. PICK d : d = Tagged(c)
    OBVIOUS
  <2>3. /\ Behind' = b \o d
        /\ bqTail' = TagAfter(Before(c, Len(c) + 1))
        /\ bqTailPhase' = PhaseAfter(Before(c, Len(c) + 1))
        /\ bqHead' = bqHead /\ bqHeadPhase' = bqHeadPhase
    BY <1>2, <1>7, <2>1, <2>2, AdvanceMoves
  <2>4. /\ c \in Seq(Insts) /\ Len(b) + Len(c) <= Window + InstrPerCycle
        /\ \A k \in Branches(c) : bq'[TagAfter(Before(c, k))].taken = c[k].taken
        /\ \A j \in Branches(b) : bq'[b[j].tag] = bq[b[j].tag]
    <3>1. /\ c \in Seq(Insts) /\ Len(Behind) + Len(c) <= Window + InstrPerCycle
          /\ \A k \in Branches(c) : bq'[TagAfter(Before(c, k))] =
               [bhr |-> PreciseHistory(c, k), taken |-> c[k].taken]
          /\ \A j \in Branches(Behind) : bq'[Behind[j].tag] = bq[Behind[j].tag]
      BY <1>7, <2>1, Pushed
    <3>2. ASSUME NEW k \in Branches(c) PROVE bq'[TagAfter(Before(c, k))].taken = c[k].taken
      <4>1. PICK x : x = PreciseHistory(c, k)
        OBVIOUS
      <4>2. bq'[TagAfter(Before(c, k))] = [bhr |-> x, taken |-> c[k].taken]
        BY <3>1, <4>1
      <4>3. QED
        BY <4>2
    <3>3. QED
      BY <1>2, <3>1, <3>2
  <2>5. /\ d \in Seq(Insts) /\ Len(d) = Len(c)
        /\ \A k \in 1 .. Len(c) :
             /\ d[k].kind = c[k].kind /\ d[k].taken = c[k].taken
             /\ IsBranch(c[k]) => /\ d[k].tag = TagAfter(Before(c, k))
                                  /\ d[k].phase = PhaseAfter(Before(c, k))
    BY <1>0, <2>2, <2>4, TaggedIs
  <2>6. PICK v, x, y : v = bq' /\ x = bqTail' /\ y = bqTailPhase'
    OBVIOUS
  <2>7. InQueue(bqHead, bqHeadPhase, x, y, v, b \o d)
    <3>1. EndsAfter(bqTail, bqTailPhase, c, x, y)
      BY <2>3, <2>6 DEF TagAfter, PhaseAfter, EndsAfter
    <3>2. Filled(bq, v, bqTail, b, c)
      BY <2>4, <2>6 DEF TagAfter, Filled
    <3>3. Placed(bqTail, bqTailPhase, c, d)
      BY <2>5 DEF TagAfter, PhaseAfter, Placed
    <3>4. InQueue(bqHead, bqHeadPhase, bqTail, bqTailPhase, bq, b)
      BY <1>1, <1>2
    <3>5. QED
      BY <1>1, <2>4, <2>5, <3>1, <3>2, <3>3, <3>4, InQueuePush
  <2>8. b \o d \in Seq(Insts) /\ Len(b \o d) <= Window + InstrPerCycle
    <3>1. b \o d \in Seq(Insts) /\ Len(b \o d) = Len(b) + Len(d)
      BY <2>5, JoinIs
    <3>2. QED
      BY <2>4, <2>5, <3>1
  <2>9. QED
    BY <1>1, <2>3, <2>6, <2>7, <2>8, QueueNext
<1>8. CASE Decode
  BY <1>0, <1>3, <1>8, DecodeMoves DEF Decode
<1>9. ASSUME NEW k \in DOMAIN window, ResolveCorrect(k) PROVE BranchQueueInOrder'
  <2>1. /\ Behind' \in Seq(Insts) /\ Len(Behind') = Len(b)
        /\ \A j \in 1 .. Len(b) :
             /\ Behind'[j].kind = b[j].kind /\ Behind'[j].taken = b[j].taken
             /\ Behind'[j].tag = b[j].tag /\ Behind'[j].phase = b[j].phase
    BY <1>0, <1>2, <1>9, ResolveMoves
  <2>2. PICK u \in Seq(Insts) : u = Behind'
    BY <2>1
  <2>3. InQueue(bqHead, bqHeadPhase, bqTail, bqTailPhase, bq, u)
    BY <1>1, <1>2, <2>1, <2>2, InQueueAlike
  <2>4. UNCHANGED bqVars
    BY <1>9 DEF ResolveCorrect
  <2>5. InQueue(bqHead', bqHeadPhase', bqTail', bqTailPhase', bq', Behind')
    BY <2>2, <2>3, <2>4 DEF bqVars
  <2>6. bqHead' \in BQIndex
    BY <1>1, <2>4 DEF bqVars
  <2>7. QED
    BY <1>1, <1>2, <2>1, <2>5, <2>6, QueueNext
<1>10. ASSUME NEW k \in DOMAIN window, Mispredict(k) PROVE BranchQueueInOrder'
  <2>1. /\ k \in 1 .. Len(b) /\ b[k] = window[k] /\ IsBranch(b[k])
        /\ Behind' \in Seq(Insts) /\ Len(Behind') = k
        /\ \A j \in 1 .. k - 1 : Behind'[j] = b[j]
        /\ Behind'[k].kind = b[k].kind
        /\ Behind'[k].tag = b[k].tag /\ Behind'[k].phase = b[k].phase
        /\ bq' = [bq EXCEPT ![b[k].tag].taken = Behind'[k].taken]
    BY <1>0, <1>2, <1>10, MispredictMoves
  <2>2. /\ bqTail' = (b[k].tag + 1) % BQSize
        /\ bqTailPhase' = IF b[k].tag + 1 = BQSize THEN 1 - b[k].phase ELSE b[k].phase
        /\ bqHead' = bqHead /\ bqHeadPhase' = bqHeadPhase
    BY <1>10, <2>1 DEF Mispredict
  <2>3. PICK u \in Seq(Insts) : u = Behind'
    BY <2>1
  <2>4. PICK v, x, y : v = bq' /\ x = bqTail' /\ y = bqTailPhase'
    OBVIOUS
  <2>5. k \in Branches(b)
    BY <2>1, BranchPlaces
  <2>6. InQueue(bqHead, bqHeadPhase, x, y, v, u)
    <3>1. CutAt(b, u, k)
      BY <2>1, <2>3 DEF CutAt
    <3>2. Redirected(bq, v, b, u, k)
      BY <2>1, <2>3, <2>4 DEF Redirected
    <3>3. EndsBehind(b, k, x, y)
      BY <2>2, <2>4 DEF EndsBehind
    <3>4. /\ InQueue(bqHead, bqHeadPhase, bqTail, bqTailPhase, bq, b)
          /\ Len(b) <= Window + InstrPerCycle
      BY <1>1, <1>2
    <3>5. QED
      BY <1>1, <2>5, <3>1, <3>2, <3>3, <3>4, InQueueCut
  <2>7. Len(u) <= Window + InstrPerCycle
    BY <1>1, <1>2, <2>1, <2>3, Sizes
  <2>8. QED
    BY <1>1, <2>2, <2>3, <2>4, <2>6, <2>7, QueueNext
<1>11. ASSUME window # <<>>, window' = Tail(window), DECODE' = DECODE, bq' = bq,
              bqTail' = bqTail, bqTailPhase' = bqTailPhase,
              IsBranch(Head(window)) =>
                /\ bqHead' = (bqHead + 1) % BQSize
                /\ bqHeadPhase' = IF bqHead + 1 = BQSize THEN 1 - bqHeadPhase ELSE bqHeadPhase,
              ~ IsBranch(Head(window)) => bqHead' = bqHead /\ bqHeadPhase' = bqHeadPhase
       PROVE  BranchQueueInOrder'
  <2>1. /\ b # <<>> /\ Behind' = Tail(b) /\ Behind' \in Seq(Insts)
        /\ Len(Behind') = Len(b) - 1 /\ Head(window) = b[1]
    BY <1>0, <1>2, <1>11, CommitMoves
  <2>2. PICK g, o : g = bqHead' /\ o = bqHeadPhase'
    OBVIOUS
  <2>3. /\ IsBranch(b[1]) => /\ g = (bqHead + 1) % BQSize
                             /\ o = (IF bqHead + 1 = BQSize THEN 1 - bqHeadPhase ELSE bqHeadPhase)
        /\ ~ IsBranch(b[1]) => g = bqHead /\ o = bqHeadPhase
    BY <1>11, <2>1, <2>2
  <2>4. g \in BQIndex /\ InQueue(g, o, bqTail, bqTailPhase, bq, Tail(b))
    BY <1>1, <1>2, <2>1, <2>3, InQueuePop
  <2>5. Len(Behind') <= Window + InstrPerCycle
    BY <1>1, <1>2, <2>1, Sizes
  <2>6. InQueue(bqHead', bqHeadPhase', bqTail', bqTailPhase', bq', Behind')
    BY <1>11, <2>1, <2>2, <2>4
  <2>7. QED
    BY <2>1, <2>2, <2>4, <2>5, <2>6, QueueNext
<1>12. CASE CommitOp
  <2>1. ~ IsBranch(Head(window))
    BY <1>12 DEF CommitOp, IsBranch
  <2>2. QED
    BY <1>11, <1>12, <2>1 DEF CommitOp, bqVars
<1>13. CASE CommitBranch
  BY <1>11, <1>13 DEF CommitBranch
<1>14. ASSUME Flush, Behind' = <<>> PROVE BranchQueueInOrder'
  <2>1. bqHead' = bqHead /\ bqTail' = bqHead' /\ bqTailPhase' = bqHeadPhase'
    BY <1>14 DEF Flush
  <2>2. PICK h, p, q : h \in BQIndex /\ h = bqHead' /\ p = bqHeadPhase' /\ q = bq'
    BY <1>1, <2>1
  <2>3. InQueue(h, p, h, p, q, <<>>)
    BY <2>2, InQueueEmpty
  <2>4. Behind' \in Seq(Insts) /\ Len(Behind') <= Window + InstrPerCycle
    <3>1. <<>> \in Seq(Insts) /\ Len(<<>>) = 0
      BY EmptySeq
    <3>2. QED
      BY <1>14, <3>1, Sizes
  <2>5. QED
    BY <1>14, <2>1, <2>2, <2>3, <2>4, QueueNext
<1>15. CASE CommitSerializer
  <2>1. Flush /\ window # <<>> /\ window' = Tail(window) /\ DECODE' = DECODE
        /\ Stops(Head(window))
    BY <1>15 DEF CommitSerializer, Stops
  <2>2. Len(Behind) = 1
    BY <1>0, <2>1, AloneAtHead
  <2>3. Behind' \in Seq(Insts) /\ Len(Behind') = Len(Behind) - 1
    BY <1>0, <2>1, CommitMoves
  <2>4. Behind' = <<>>
    BY <2>2, <2>3, EmptySeq
  <2>5. QED
    BY <1>14, <2>1, <2>4
<1>16. CASE SquashComplete
  <2>1. Flush /\ DECODE' = <<>> /\ window' = <<>>
    BY <1>16 DEF SquashComplete
  <2>2. Behind' = <<>>
    BY <2>1 DEF Behind
  <2>3. QED
    BY <1>14, <2>1, <2>2
<1>17. CASE UNCHANGED vars
  BY <1>3, <1>17 DEF vars, bqVars, Behind
<1>18. QED
  BY <1>4, <1>5, <1>6, <1>7, <1>8, <1>9, <1>10, <1>12, <1>13, <1>15, <1>16, <1>17 DEF Next

----------------------------------------------------------------------------
(* The histories.                                                           *)

(* The j-th place and the k-th are of branches with none between them, and  *)
(* the k-th is of the last branch.                                          *)
NextTo(s, j, k) == /\ j \in Branches(s) /\ k \in Branches(s) /\ j < k
                   /\ \A m \in Branches(s) : ~ (j < m /\ m < k)
LastAmong(s, k) == k \in Branches(s) /\ \A m \in Branches(s) : ~ (k < m)

(* What the branch i saw and adds to.                                       *)
Adds(q, i) == Shift(q[i.tag].bhr, i)

Follows(q, s)      == \A j, k : NextTo(s, j, k) => q[s[k].tag].bhr = Adds(q, s[j])
Continues(q, s, h) == \A k : LastAmong(s, k) => h = Adds(q, s[k])

Predicted(st, h, f) == st.valid /\ st.flaw = None /\ Serializers(f) = {} => h = After(st.bhr, f)

Precise(q, s, active, st, h, f) ==
  /\ Follows(q, s)
  /\ st.valid => Continues(q, s, st.bhr)
  /\ ~ st.valid /\ active => Continues(q, s, h)
  /\ Predicted(st, h, f)

LEMMA NoSerializer ==
  ASSUME NEW f \in Seq(Insts)
  PROVE  (\A i \in ToSet(f) : i.kind # "ser") <=> Serializers(f) = {}
<1>1. \A i : i \in ToSet(f) <=> \E k \in DOMAIN f : i = f[k]
  BY DEF ToSet
<1>2. QED
  BY <1>1 DEF Serializers

LEMMA LastIs ==
  ASSUME NEW s \in Seq(Insts), NEW k \in Branches(s)
  PROVE  LastAmong(s, k) <=> \A m \in Branches(s) : ~ (k < m /\ m < Len(s) + 1)
<1>1. \A m \in Branches(s) : m \in Nat /\ m < Len(s) + 1
  BY BranchPlaces
<1>2. QED
  BY <1>1 DEF LastAmong

(* HistoryPrecise, for any queue and any instructions.                      *)
Recorded(q, b, active, st, h, f) ==
  /\ \A j, k \in Branches(b) :
       j < k /\ (\A m \in Branches(b) : ~ (j < m /\ m < k)) =>
         q[b[k].tag].bhr = Shift(q[b[j].tag].bhr, b[j])
  /\ \A k \in Branches(b) : (\A m \in Branches(b) : ~ (k < m /\ m < Len(b) + 1)) =>
       /\ st.valid => st.bhr = Shift(q[b[k].tag].bhr, b[k])
       /\ ~ st.valid /\ active => h = Shift(q[b[k].tag].bhr, b[k])
  /\ st.valid /\ st.flaw = None /\ (\A i \in ToSet(f) : i.kind # "ser") =>
       h = After(st.bhr, f)

LEMMA RecordedIs ==
  ASSUME NEW q, NEW b \in Seq(Insts), NEW active, NEW st, NEW h, NEW f \in Seq(Insts)
  PROVE  Recorded(q, b, active, st, h, f) <=> Precise(q, b, active, st, h, f)
<1>1. (\A j, k \in Branches(b) :
         j < k /\ (\A m \in Branches(b) : ~ (j < m /\ m < k)) =>
           q[b[k].tag].bhr = Shift(q[b[j].tag].bhr, b[j]))
      <=> Follows(q, b)
  BY DEF Follows, NextTo, Adds
<1>2. (\A k \in Branches(b) : (\A m \in Branches(b) : ~ (k < m /\ m < Len(b) + 1)) =>
         /\ st.valid => st.bhr = Shift(q[b[k].tag].bhr, b[k])
         /\ ~ st.valid /\ active => h = Shift(q[b[k].tag].bhr, b[k]))
      <=> /\ st.valid => Continues(q, b, st.bhr)
          /\ ~ st.valid /\ active => Continues(q, b, h)
  <2>1. \A k : LastAmong(b, k) <=>
                 k \in Branches(b) /\ \A m \in Branches(b) : ~ (k < m /\ m < Len(b) + 1)
    BY LastIs DEF LastAmong
  <2>2. QED
    BY <2>1 DEF Continues, Adds
<1>3. (st.valid /\ st.flaw = None /\ (\A i \in ToSet(f) : i.kind # "ser") => h = After(st.bhr, f))
      <=> Predicted(st, h, f)
  BY NoSerializer DEF Predicted
<1>4. QED
  BY <1>1, <1>2, <1>3 DEF Recorded, Precise

LEMMA HistoryIs ==
  ASSUME TypeOK
  PROVE  HistoryPrecise <=> Precise(bq, Behind, fetch_active, status, bhr, Fetched)
<1>1. Behind \in Seq(Insts) /\ Fetched \in Seq(Insts)
  BY Lengths
<1>2. HistoryPrecise <=> Recorded(bq, Behind, fetch_active, status, bhr, Fetched)
  BY DEF HistoryPrecise, Recorded, NoneBetween, HistoryAt, HistoryAfter
<1>3. QED
  BY <1>1, <1>2, RecordedIs

LEMMA HistoryNext ==
  ASSUME Behind' \in Seq(Insts), Fetched' \in Seq(Insts),
         Precise(bq', Behind', fetch_active', status', bhr', Fetched')
  PROVE  HistoryPrecise'
<1>1. PICK b \in Seq(Insts), f \in Seq(Insts) : b = Behind' /\ f = Fetched'
  OBVIOUS
<1>2. Recorded(bq', b, fetch_active', status', bhr', f)
  BY <1>1, RecordedIs
<1>3. QED
  BY <1>1, <1>2 DEF HistoryPrecise, Recorded, NoneBetween, HistoryAt, HistoryAfter

LEMMA NothingRecorded ==
  ASSUME NEW q, NEW active, NEW st, ~ st.valid, NEW h, NEW f
  PROVE  Precise(q, <<>>, active, st, h, f)
<1>1. PICK s \in Seq(Insts) : s = <<>> /\ Len(s) = 0
  <2>1. <<>> \in Seq(Insts) /\ Len(<<>>) = 0
    BY EmptySeq
  <2>2. QED
    BY <2>1
<1>2. \A k : k \notin Branches(s)
  <2>1. \A k : k \in Branches(s) => k \in 1 .. Len(s)
    BY BranchPlaces
  <2>2. QED
    BY <1>1, <2>1
<1>3. QED
  BY <1>1, <1>2 DEF Precise, Follows, Continues, NextTo, LastAmong, Predicted

(* The same branches in other words.                                        *)
LEMMA RecordedAlike ==
  ASSUME NEW q, NEW s \in Seq(Insts), NEW u \in Seq(Insts), Len(u) = Len(s),
         \A k \in 1 .. Len(s) : /\ u[k].kind = s[k].kind /\ u[k].taken = s[k].taken
                                /\ u[k].tag = s[k].tag
  PROVE  /\ Follows(q, s) => Follows(q, u)
         /\ \A h : Continues(q, s, h) => Continues(q, u, h)
<1>1. \A k \in 1 .. Len(s) : /\ IsBranch(u[k]) <=> IsBranch(s[k])
                             /\ Adds(q, u[k]) = Adds(q, s[k]) /\ u[k].tag = s[k].tag
  BY DEF IsBranch, Adds, Shift
<1>2. \A k : k \in Branches(u) <=> k \in Branches(s)
  BY <1>1, BranchPlaces
<1>3. \A k \in Branches(s) : k \in 1 .. Len(s)
  BY BranchPlaces
<1>4. \A j, k : NextTo(u, j, k) <=> NextTo(s, j, k)
  BY <1>2 DEF NextTo
<1>5. \A k : LastAmong(u, k) <=> LastAmong(s, k)
  BY <1>2 DEF LastAmong
<1>6. ASSUME Follows(q, s) PROVE Follows(q, u)
  <2>1. SUFFICES ASSUME NEW j, NEW k, NextTo(u, j, k) PROVE q[u[k].tag].bhr = Adds(q, u[j])
    BY DEF Follows
  <2>2. NextTo(s, j, k) /\ j \in 1 .. Len(s) /\ k \in 1 .. Len(s)
    BY <1>3, <1>4, <2>1 DEF NextTo
  <2>3. q[s[k].tag].bhr = Adds(q, s[j])
    BY <1>6, <2>2 DEF Follows
  <2>4. QED
    BY <1>1, <2>2, <2>3
<1>7. ASSUME NEW h, Continues(q, s, h) PROVE Continues(q, u, h)
  <2>1. SUFFICES ASSUME NEW k, LastAmong(u, k) PROVE h = Adds(q, u[k])
    BY DEF Continues
  <2>2. LastAmong(s, k) /\ k \in 1 .. Len(s)
    BY <1>3, <1>5, <2>1 DEF LastAmong
  <2>3. QED
    BY <1>1, <1>7, <2>2 DEF Continues
<1>8. QED
  BY <1>6, <1>7

LEMMA RecordedTail ==
  ASSUME NEW q, NEW s \in Seq(Insts), s # <<>>
  PROVE  /\ Follows(q, s) => Follows(q, Tail(s))
         /\ \A h : Continues(q, s, h) => Continues(q, Tail(s), h)
<1>1. Len(s) \in Nat \ {0}
  BY EmptySeq, LenProperties
<1>2. PICK u \in Seq(Insts) :
        /\ u = Tail(s) /\ Len(u) = Len(s) - 1 /\ \A i \in 1 .. Len(u) : u[i] = s[i + 1]
  <2>1. /\ Tail(s) \in Seq(Insts) /\ Len(Tail(s)) = Len(s) - 1
        /\ \A i \in 1 .. Len(Tail(s)) : Tail(s)[i] = s[i + 1]
    BY HeadTailProperties
  <2>2. QED
    BY <2>1
<1>3. ASSUME NEW k \in Branches(u)
      PROVE  k + 1 \in Branches(s) /\ u[k] = s[k + 1] /\ k \in Nat
  <2>1. k \in 1 .. Len(u) /\ IsBranch(u[k])
    BY BranchPlaces
  <2>2. k + 1 \in 1 .. Len(s) /\ u[k] = s[k + 1]
    BY <1>1, <1>2, <2>1
  <2>3. QED
    BY <1>1, <2>1, <2>2, BranchPlaces
<1>4. ASSUME NEW m \in Branches(s), m # 1
      PROVE  m - 1 \in Branches(u) /\ m \in Nat
  <2>1. m \in 1 .. Len(s) /\ IsBranch(s[m])
    BY BranchPlaces
  <2>2. PICK i \in Nat : i = m - 1 /\ m = i + 1
    BY <1>1, <1>4, <2>1
  <2>3. i \in 1 .. Len(u)
    BY <1>1, <1>2, <1>4, <2>1, <2>2
  <2>4. IsBranch(u[i])
    BY <1>2, <2>1, <2>2, <2>3
  <2>5. QED
    BY <1>1, <2>1, <2>2, <2>3, <2>4, BranchPlaces
<1>5. ASSUME Follows(q, s) PROVE Follows(q, u)
  <2>1. SUFFICES ASSUME NEW j, NEW k, NextTo(u, j, k) PROVE q[u[k].tag].bhr = Adds(q, u[j])
    BY DEF Follows
  <2>2. /\ j \in Branches(u) /\ k \in Branches(u) /\ j < k /\ j \in Nat /\ k \in Nat
        /\ \A m \in Branches(u) : ~ (j < m /\ m < k)
    BY <1>3, <2>1 DEF NextTo
  <2>3. PICK x \in Nat, y \in Nat : x = j + 1 /\ y = k + 1
    BY <2>2
  <2>4. ASSUME NEW m \in Branches(s), x < m, m < y PROVE FALSE
    <3>1. m \in Nat /\ m # 1
      BY <2>2, <2>3, <2>4, BranchPlaces
    <3>2. PICK i : i = m - 1
      OBVIOUS
    <3>3. i \in Branches(u) /\ j < i /\ i < k
      BY <1>4, <2>2, <2>3, <2>4, <3>1, <3>2
    <3>4. QED
      BY <2>2, <3>3
  <2>5. NextTo(s, x, y)
    BY <1>3, <2>2, <2>3, <2>4 DEF NextTo
  <2>6. q[s[y].tag].bhr = Adds(q, s[x])
    BY <1>5, <2>5 DEF Follows
  <2>7. QED
    BY <1>3, <2>2, <2>3, <2>6
<1>6. ASSUME NEW h, Continues(q, s, h) PROVE Continues(q, u, h)
  <2>1. SUFFICES ASSUME NEW k, LastAmong(u, k) PROVE h = Adds(q, u[k])
    BY DEF Continues
  <2>2. k \in Branches(u) /\ k \in Nat /\ \A m \in Branches(u) : ~ (k < m)
    BY <1>3, <2>1 DEF LastAmong
  <2>3. PICK y \in Nat : y = k + 1
    BY <2>2
  <2>4. ASSUME NEW m \in Branches(s), y < m PROVE FALSE
    <3>1. m \in Nat /\ m # 1
      BY <2>2, <2>3, <2>4, BranchPlaces
    <3>2. PICK i : i = m - 1
      OBVIOUS
    <3>3. i \in Branches(u) /\ k < i
      BY <1>4, <2>2, <2>3, <2>4, <3>1, <3>2
    <3>4. QED
      BY <2>2, <3>3
  <2>5. LastAmong(s, y)
    BY <1>3, <2>2, <2>3, <2>4 DEF LastAmong
  <2>6. QED
    BY <1>3, <1>6, <2>2, <2>3, <2>5 DEF Continues
<1>7. QED
  BY <1>2, <1>5, <1>6

(* The mispredicted branch is the last, with its outcome.                   *)
LEMMA RecordedCut ==
  ASSUME NEW q \in [BQIndex -> [bhr : Histories, taken : BOOLEAN]],
         NEW s \in Seq(Insts), NEW k \in Branches(s), Follows(q, s),
         NEW u \in Seq(Insts), CutAt(s, u, k), NEW v, Redirected(q, v, s, u, k)
  PROVE  Follows(v, u) /\ Continues(v, u, Shift(q[s[k].tag].bhr, u[k]))
<1>1. /\ Len(u) = k /\ \A j \in 1 .. k - 1 : u[j] = s[j]
      /\ u[k].kind = s[k].kind /\ u[k].tag = s[k].tag
      /\ v = [q EXCEPT ![s[k].tag].taken = u[k].taken]
      /\ k \in 1 .. Len(s) /\ IsBranch(s[k]) /\ Len(s) \in Nat /\ k \in Nat
  BY BranchPlaces DEF CutAt, Redirected
<1>2. \A x \in BQIndex : v[x].bhr = q[x].bhr
  <2>1. s[k] \in Insts
    BY <1>1, ElementOfSeq
  <2>2. PICK y \in BQIndex : y = s[k].tag
    BY <2>1 DEF Insts
  <2>3. v = [q EXCEPT ![y].taken = u[k].taken]
    BY <1>1, <2>2
  <2>4. QED
    BY <2>3
<1>3. ASSUME NEW j \in Branches(u)
      PROVE  /\ j \in Branches(s) /\ j \in Nat /\ j <= k /\ v[u[j].tag].bhr = q[s[j].tag].bhr
             /\ j < k => u[j] = s[j]
  <2>1. j \in 1 .. k /\ IsBranch(u[j])
    BY <1>1, BranchPlaces
  <2>2. j \in 1 .. k - 1 \/ j = k
    BY <1>1, <2>1
  <2>3. j \in 1 .. Len(s) /\ j \in Nat /\ j <= k /\ (j < k => j \in 1 .. k - 1)
    BY <1>1, <2>1
  <2>4. IsBranch(s[j]) /\ u[j].tag = s[j].tag
    BY <1>1, <2>1, <2>2
  <2>5. s[j] \in Insts
    BY <2>3, ElementOfSeq
  <2>6. s[j].tag \in BQIndex
    BY <2>5 DEF Insts
  <2>7. QED
    BY <1>1, <1>2, <2>3, <2>4, <2>6, BranchPlaces
<1>4. \A j \in Branches(s) : j < k => j \in Branches(u)
  <2>1. SUFFICES ASSUME NEW j \in Branches(s), j < k PROVE j \in Branches(u)
    OBVIOUS
  <2>2. j \in 1 .. Len(s) /\ IsBranch(s[j])
    BY BranchPlaces
  <2>3. j \in 1 .. k - 1 /\ j \in 1 .. Len(u)
    BY <1>1, <2>1, <2>2
  <2>4. QED
    BY <1>1, <2>2, <2>3, BranchPlaces
<1>5. Follows(v, u)
  <2>1. SUFFICES ASSUME NEW i, NEW j, NextTo(u, i, j) PROVE v[u[j].tag].bhr = Adds(v, u[i])
    BY DEF Follows
  <2>2. /\ i \in Branches(u) /\ j \in Branches(u) /\ i < j
        /\ \A m \in Branches(u) : ~ (i < m /\ m < j)
    BY <2>1 DEF NextTo
  <2>3. /\ i \in Branches(s) /\ j \in Branches(s) /\ i < k /\ u[i] = s[i]
        /\ v[u[j].tag].bhr = q[s[j].tag].bhr /\ v[u[i].tag].bhr = q[s[i].tag].bhr
        /\ i \in Nat /\ j \in Nat /\ j <= k
    <3>1. /\ i \in Branches(s) /\ j \in Branches(s) /\ i \in Nat /\ j \in Nat /\ j <= k
          /\ v[u[j].tag].bhr = q[s[j].tag].bhr /\ v[u[i].tag].bhr = q[s[i].tag].bhr
          /\ i < k => u[i] = s[i]
      BY <1>3, <2>2
    <3>2. i < k
      BY <1>1, <2>2, <3>1
    <3>3. QED
      BY <3>1, <3>2
  <2>4. ASSUME NEW m \in Branches(s), i < m, m < j PROVE FALSE
    <3>1. m \in Nat
      BY BranchPlaces
    <3>2. m < k
      BY <1>1, <2>3, <2>4, <3>1
    <3>3. QED
      BY <1>4, <2>2, <2>4, <3>2
  <2>5. NextTo(s, i, j)
    BY <2>2, <2>3, <2>4 DEF NextTo
  <2>6. q[s[j].tag].bhr = Adds(q, s[i])
    BY <2>5 DEF Follows
  <2>7. QED
    BY <2>3, <2>6 DEF Adds
<1>6. Continues(v, u, Shift(q[s[k].tag].bhr, u[k]))
  <2>1. SUFFICES ASSUME NEW j, LastAmong(u, j)
                 PROVE  Shift(q[s[k].tag].bhr, u[k]) = Adds(v, u[j])
    BY DEF Continues
  <2>2. j \in Branches(u) /\ \A m \in Branches(u) : ~ (j < m)
    BY <2>1 DEF LastAmong
  <2>3. k \in Branches(u)
    <3>1. k \in 1 .. Len(u) /\ IsBranch(u[k])
      BY <1>1 DEF IsBranch
    <3>2. QED
      BY <3>1, BranchPlaces
  <2>4. j = k
    BY <1>1, <1>3, <2>2, <2>3
  <2>5. v[u[k].tag].bhr = q[s[k].tag].bhr
    BY <1>3, <2>3
  <2>6. QED
    BY <2>4, <2>5 DEF Adds
<1>7. QED
  BY <1>5, <1>6

(* v is q with the histories along the bundle c, that d is with its places. *)
Written(q, v, h, s, c, d) ==
  /\ Len(d) = Len(c)
  /\ \A k \in 1 .. Len(c) : d[k].kind = c[k].kind /\ d[k].taken = c[k].taken
  /\ \A k \in Branches(c) : v[d[k].tag].bhr = Along(h, c)[k - 1]
  /\ \A j \in Branches(s) : v[s[j].tag] = q[s[j].tag]

LEMMA RecordedPush ==
  ASSUME NEW q, NEW v, NEW s \in Seq(Insts), NEW c \in Seq(Insts), NEW d \in Seq(Insts),
         NEW h \in Histories, Follows(q, s), Continues(q, s, h), Written(q, v, h, s, c, d)
  PROVE  Follows(v, s \o d) /\ Continues(v, s \o d, After(h, c))
<1>1. /\ Len(d) = Len(c)
      /\ \A k \in 1 .. Len(c) : d[k].kind = c[k].kind /\ d[k].taken = c[k].taken
      /\ \A k \in Branches(c) : v[d[k].tag].bhr = Along(h, c)[k - 1]
      /\ \A j \in Branches(s) : v[s[j].tag] = q[s[j].tag]
  BY DEF Written
<1>2. Len(s) \in Nat /\ Len(c) \in Nat
  BY LenProperties
<1>3. PICK u \in Seq(Insts) :
        /\ u = s \o d /\ Len(u) = Len(s) + Len(c)
        /\ \A k \in 1 .. Len(s) : u[k] = s[k]
        /\ \A k \in 1 .. Len(c) : u[Len(s) + k] = d[k]
        /\ \A k \in 1 .. Len(s) + Len(c) : k \in 1 .. Len(s) \/ k - Len(s) \in 1 .. Len(c)
  BY <1>1, JoinIs
<1>4. PICK a : a = Along(h, c)
  OBVIOUS
<1>5. /\ a[0] = h /\ After(h, c) = a[Len(c)]
      /\ \A k \in 1 .. Len(c) : a[k] = Shift(a[k - 1], c[k])
  BY <1>4, AlongIs DEF After
<1>6. ASSUME NEW j \in 0 .. Len(c), NEW k \in j .. Len(c),
             \A n \in Branches(c) : ~ (j < n /\ n <= k)
      PROVE  a[k] = a[j]
  <2>1. \A n \in j + 1 .. k : ~ IsBranch(c[n])
    <3>1. SUFFICES ASSUME NEW n \in j + 1 .. k, IsBranch(c[n]) PROVE FALSE
      OBVIOUS
    <3>2. n \in 1 .. Len(c) /\ j < n /\ n <= k
      BY <1>2
    <3>3. n \in Branches(c)
      BY <3>1, <3>2, BranchPlaces
    <3>4. QED
      BY <1>6, <3>2, <3>3
  <2>2. QED
    BY <1>4, <2>1, AlongStill
(* A branch of u is an old one or one of the bundle.                        *)
<1>7. \A k : k \in Branches(u) <=>
               \/ k \in Branches(s)
               \/ \E j \in Branches(c) : k = Len(s) + j
  <2>1. \A k \in 1 .. Len(c) : IsBranch(d[k]) <=> IsBranch(c[k])
    BY <1>1 DEF IsBranch
  <2>2. ASSUME NEW k \in Branches(u)
        PROVE  k \in Branches(s) \/ \E j \in Branches(c) : k = Len(s) + j
    <3>1. k \in 1 .. Len(s) + Len(c) /\ IsBranch(u[k])
      BY <1>3, BranchPlaces
    <3>2. CASE k \in 1 .. Len(s)
      BY <1>3, <3>1, <3>2, BranchPlaces
    <3>3. CASE k - Len(s) \in 1 .. Len(c)
      <4>1. PICK j \in 1 .. Len(c) : j = k - Len(s)
        BY <3>3
      <4>2. k = Len(s) + j
        BY <1>2, <3>1, <4>1
      <4>3. j \in Branches(c)
        BY <1>3, <2>1, <3>1, <4>2, BranchPlaces
      <4>4. QED
        BY <4>2, <4>3
    <3>4. QED
      BY <1>3, <3>1, <3>2, <3>3
  <2>3. ASSUME NEW k \in Branches(s) PROVE k \in Branches(u)
    <3>1. k \in 1 .. Len(s) /\ IsBranch(s[k])
      BY BranchPlaces
    <3>2. k \in 1 .. Len(u)
      BY <1>2, <1>3, <3>1
    <3>3. QED
      BY <1>3, <3>1, <3>2, BranchPlaces
  <2>4. ASSUME NEW j \in Branches(c) PROVE Len(s) + j \in Branches(u)
    <3>1. j \in 1 .. Len(c) /\ IsBranch(c[j])
      BY BranchPlaces
    <3>2. PICK k : k = Len(s) + j
      OBVIOUS
    <3>3. k \in 1 .. Len(u) /\ IsBranch(u[k])
      BY <1>2, <1>3, <2>1, <3>1, <3>2
    <3>4. QED
      BY <3>2, <3>3, BranchPlaces
  <2>5. QED
    BY <2>2, <2>3, <2>4
<1>8. ASSUME NEW j \in Branches(s)
      PROVE  /\ j \in 1 .. Len(s) /\ v[u[j].tag].bhr = q[s[j].tag].bhr
             /\ Adds(v, u[j]) = Adds(q, s[j])
  <2>1. j \in 1 .. Len(s)
    BY BranchPlaces
  <2>2. u[j] = s[j] /\ v[s[j].tag] = q[s[j].tag]
    BY <1>1, <1>3, <2>1
  <2>3. QED
    BY <2>1, <2>2 DEF Adds
<1>9. ASSUME NEW j \in Branches(c), NEW x, x = Len(s) + j
      PROVE  /\ j \in 1 .. Len(c) /\ x \in Nat /\ x > Len(s)
             /\ v[u[x].tag].bhr = a[j - 1] /\ Adds(v, u[x]) = a[j]
  <2>1. j \in 1 .. Len(c)
    BY BranchPlaces
  <2>2. u[x] = d[j] /\ d[j].kind = c[j].kind /\ d[j].taken = c[j].taken
    BY <1>1, <1>3, <1>9, <2>1
  <2>3. v[d[j].tag].bhr = a[j - 1]
    BY <1>1, <1>4
  <2>4. Shift(a[j - 1], d[j]) = a[j]
    BY <1>5, <2>1, <2>2 DEF Shift
  <2>5. x \in Nat /\ x > Len(s)
    BY <1>2, <1>9, <2>1
  <2>6. QED
    BY <2>1, <2>2, <2>3, <2>4, <2>5 DEF Adds
<1>10. Follows(v, u)
  <2>1. SUFFICES ASSUME NEW i, NEW k, NextTo(u, i, k) PROVE v[u[k].tag].bhr = Adds(v, u[i])
    BY DEF Follows
  <2>2. /\ i \in Branches(u) /\ k \in Branches(u) /\ i < k
        /\ \A m \in Branches(u) : ~ (i < m /\ m < k)
    BY <2>1 DEF NextTo
  <2>3. CASE i \in Branches(s) /\ k \in Branches(s)
    <3>1. NextTo(s, i, k)
      BY <1>7, <2>2, <2>3 DEF NextTo
    <3>2. q[s[k].tag].bhr = Adds(q, s[i])
      BY <3>1 DEF Follows
    <3>3. QED
      BY <1>8, <2>3, <3>2
  <2>4. ASSUME i \in Branches(s), NEW j \in Branches(c), k = Len(s) + j
        PROVE  v[u[k].tag].bhr = Adds(v, u[i])
    <3>1. j \in 1 .. Len(c) /\ v[u[k].tag].bhr = a[j - 1] /\ i \in 1 .. Len(s)
      BY <1>8, <1>9, <2>4
    <3>2. LastAmong(s, i)
      <4>1. SUFFICES ASSUME NEW m \in Branches(s), i < m PROVE FALSE
        BY <2>4 DEF LastAmong
      <4>2. m \in 1 .. Len(s)
        BY BranchPlaces
      <4>3. m < k
        BY <1>2, <2>4, <3>1, <4>2
      <4>4. QED
        BY <1>7, <2>2, <4>1, <4>3
    <3>3. h = Adds(q, s[i])
      BY <3>2 DEF Continues
    <3>4. a[j - 1] = a[0]
      <4>1. ASSUME NEW n \in Branches(c), 0 < n, n <= j - 1 PROVE FALSE
        <5>1. PICK m : m = Len(s) + n
          OBVIOUS
        <5>2. n \in 1 .. Len(c) /\ i < m /\ m < k
          <6>1. n \in 1 .. Len(c)
            BY BranchPlaces
          <6>2. QED
            BY <1>2, <2>4, <3>1, <4>1, <5>1, <6>1
        <5>3. m \in Branches(u)
          BY <1>7, <5>1
        <5>4. QED
          BY <2>2, <5>2, <5>3
      <4>2. 0 \in 0 .. Len(c) /\ j - 1 \in 0 .. Len(c)
        BY <1>2, <3>1
      <4>3. QED
        BY <1>6, <4>1, <4>2
    <3>5. QED
      BY <1>5, <1>8, <2>4, <3>1, <3>3, <3>4
  <2>5. ASSUME NEW l \in Branches(c), i = Len(s) + l, NEW j \in Branches(c), k = Len(s) + j
        PROVE  v[u[k].tag].bhr = Adds(v, u[i])
    <3>1. /\ l \in 1 .. Len(c) /\ j \in 1 .. Len(c)
          /\ v[u[k].tag].bhr = a[j - 1] /\ Adds(v, u[i]) = a[l]
      BY <1>9, <2>5
    <3>2. l \in 0 .. Len(c) /\ j - 1 \in l .. Len(c)
      BY <1>2, <2>2, <2>5, <3>1
    <3>3. ASSUME NEW n \in Branches(c), l < n, n <= j - 1 PROVE FALSE
      <4>1. PICK m : m = Len(s) + n
        OBVIOUS
      <4>2. n \in 1 .. Len(c)
        BY BranchPlaces
      <4>3. i < m /\ m < k
        BY <1>2, <2>5, <3>1, <3>3, <4>1, <4>2
      <4>4. m \in Branches(u)
        BY <1>7, <4>1
      <4>5. QED
        BY <2>2, <4>3, <4>4
    <3>4. a[j - 1] = a[l]
      BY <1>6, <3>2, <3>3
    <3>5. QED
      BY <3>1, <3>4
  <2>6. ASSUME NEW l \in Branches(c), i = Len(s) + l, k \in Branches(s) PROVE FALSE
    <3>1. l \in 1 .. Len(c) /\ k \in 1 .. Len(s)
      BY <1>8, <1>9, <2>6
    <3>2. QED
      BY <1>2, <2>2, <2>6, <3>1
  <2>7. QED
    BY <1>7, <2>2, <2>3, <2>4, <2>5, <2>6
<1>11. Continues(v, u, a[Len(c)])
  <2>1. SUFFICES ASSUME NEW k, LastAmong(u, k) PROVE a[Len(c)] = Adds(v, u[k])
    BY DEF Continues
  <2>2. k \in Branches(u) /\ \A m \in Branches(u) : ~ (k < m)
    BY <2>1 DEF LastAmong
  <2>3. CASE k \in Branches(s)
    <3>1. LastAmong(s, k)
      BY <1>7, <2>2, <2>3 DEF LastAmong
    <3>2. h = Adds(q, s[k])
      BY <3>1 DEF Continues
    <3>3. ASSUME NEW n \in Branches(c) PROVE FALSE
      <4>1. n \in 1 .. Len(c) /\ k \in 1 .. Len(s)
        BY <2>3, BranchPlaces
      <4>2. PICK m : m = Len(s) + n
        OBVIOUS
      <4>3. k < m /\ m \in Branches(u)
        BY <1>2, <1>7, <4>1, <4>2
      <4>4. QED
        BY <2>2, <4>3
    <3>4. 0 \in 0 .. Len(c) /\ Len(c) \in 0 .. Len(c)
      BY <1>2
    <3>5. a[Len(c)] = a[0]
      BY <1>6, <3>3, <3>4
    <3>6. QED
      BY <1>5, <1>8, <2>3, <3>2, <3>5
  <2>4. ASSUME NEW j \in Branches(c), k = Len(s) + j PROVE a[Len(c)] = Adds(v, u[k])
    <3>1. j \in 1 .. Len(c) /\ Adds(v, u[k]) = a[j]
      BY <1>9, <2>4
    <3>2. j \in 0 .. Len(c) /\ Len(c) \in j .. Len(c)
      BY <1>2, <3>1
    <3>3. ASSUME NEW n \in Branches(c), j < n PROVE FALSE
      <4>1. n \in 1 .. Len(c)
        BY BranchPlaces
      <4>2. PICK m : m = Len(s) + n
        OBVIOUS
      <4>3. k < m /\ m \in Branches(u)
        BY <1>2, <1>7, <2>4, <3>1, <3>3, <4>1, <4>2
      <4>4. QED
        BY <2>2, <4>3
    <3>4. a[Len(c)] = a[j]
      BY <1>6, <3>2, <3>3
    <3>5. QED
      BY <3>1, <3>4
  <2>5. QED
    BY <1>7, <2>2, <2>3, <2>4
<1>12. QED
  BY <1>3, <1>5, <1>10, <1>11

LEMMA HistoryInit == Init => HistoryPrecise
<1> SUFFICES ASSUME Init PROVE HistoryPrecise
  OBVIOUS
<1>1. TypeOK
  BY TypeInit
<1>2. Behind = <<>> /\ ~ status.valid
  BY NoStatusIs DEF Init, Behind
<1>3. Precise(bq, Behind, fetch_active, status, bhr, Fetched)
  BY <1>2, NothingRecorded
<1>4. QED
  BY <1>1, <1>3, HistoryIs

LEMMA HistoryStep == IInv /\ [Next]_vars => HistoryPrecise'
<1> SUFFICES ASSUME IInv, [Next]_vars PROVE HistoryPrecise'
  OBVIOUS
<1>0. TypeOK /\ Stopping /\ BranchQueueInOrder /\ HistoryPrecise
  BY DEF IInv
<1>1. /\ Behind \in Seq(Insts) /\ Fetched \in Seq(Insts)
      /\ bq \in [BQIndex -> [bhr : Histories, taken : BOOLEAN]]
      /\ status.bhr \in Histories
  BY <1>0, Lengths DEF TypeOK
<1>2. /\ Follows(bq, Behind)
      /\ status.valid => Continues(bq, Behind, status.bhr)
      /\ ~ status.valid /\ fetch_active => Continues(bq, Behind, bhr)
      /\ Predicted(status, bhr, Fetched)
  BY <1>0, HistoryIs DEF Precise
<1>3. CASE Fetch1
  <2>1. /\ Behind' = Behind /\ bq' = bq /\ Fetched' \in Seq(Insts)
        /\ fetch_active /\ ~ status.valid /\ status'.valid /\ status'.bhr = bhr
        /\ status'.flaw = None => bhr' = After(bhr, Fetched')
    BY <1>0, <1>3, Fetch1Moves DEF Fetch1, bqVars
  <2>2. Predicted(status', bhr', Fetched')
    BY <2>1 DEF Predicted
  <2>3. Precise(bq', Behind', fetch_active', status', bhr', Fetched')
    BY <1>2, <2>1, <2>2 DEF Precise
  <2>4. QED
    BY <1>1, <2>1, <2>3, HistoryNext
<1>4. CASE Fetch2Misfetch
  <2>1. /\ Behind' = Behind /\ bq' = bq /\ status' = NoStatus /\ bhr' = status.bhr
        /\ status.valid
    BY <1>4 DEF Fetch2Misfetch, SquashFetch2, Behind, bqVars
  <2>2. Fetched' = <<>> /\ <<>> \in Seq(Insts)
    BY <2>1, NoStatusIs, EmptySeq DEF Fetched
  <2>3. Precise(bq', Behind', fetch_active', status', bhr', Fetched')
    BY <1>2, <2>1, NoStatusIs DEF Precise, Predicted
  <2>4. QED
    BY <1>1, <2>1, <2>2, <2>3, HistoryNext
<1>5. CASE Fetch2Stall
  <2>1. PICK c : c = Cut(Walk(FETCH2))
    OBVIOUS
  <2>2. /\ Predecoded /\ Behind' = Behind /\ bq' = bq /\ status' = status /\ bhr' = bhr
        /\ Fetched' = c
    BY <1>5, <2>1, StallMoves DEF Fetch2Stall, Predecoded, bqVars
  <2>3. /\ status.valid /\ c \in Seq(Insts) /\ Len(c) \in Nat /\ Len(c) >= 1
        /\ \/ Serializers(Fetched) = {} /\ c = Fetched
           \/ c[Len(c)].kind = "ser"
    BY <2>1, <2>2, PredecodeCuts
  <2>4. Predicted(status, bhr, c)
    <3>1. CASE Serializers(Fetched) = {} /\ c = Fetched
      BY <1>2, <3>1
    <3>2. CASE c[Len(c)].kind = "ser"
      <4>1. Len(c) \in DOMAIN c
        BY <2>3, LenProperties
      <4>2. Serializers(c) # {}
        BY <3>2, <4>1 DEF Serializers
      <4>3. QED
        BY <4>2 DEF Predicted
    <3>3. QED
      BY <2>3, <3>1, <3>2
  <2>5. Precise(bq', Behind', fetch_active', status', bhr', Fetched')
    BY <1>2, <2>2, <2>3, <2>4 DEF Precise
  <2>6. QED
    BY <1>1, <2>2, <2>3, <2>5, HistoryNext
<1>6. CASE Fetch2Advance
  <2>1. PICK c : c = Cut(Walk(FETCH2))
    OBVIOUS
  <2>2. PICK d : d = Tagged(c)
    OBVIOUS
  <2>3. /\ Predecoded /\ Behind' = Behind \o d /\ Fetched' = <<>> /\ status' = NoStatus
    BY <1>6, <2>1, <2>2, AdvanceMoves
  <2>4. /\ c \in Seq(Insts)
        /\ \A k \in Branches(c) : bq'[TagAfter(Before(c, k))] =
             [bhr |-> PreciseHistory(c, k), taken |-> c[k].taken]
        /\ \A j \in Branches(Behind) : bq'[Behind[j].tag] = bq[Behind[j].tag]
    BY <1>6, <2>1, Pushed
  <2>5. /\ d \in Seq(Insts) /\ Len(d) = Len(c)
        /\ \A k \in 1 .. Len(c) :
             /\ d[k].kind = c[k].kind /\ d[k].taken = c[k].taken
             /\ IsBranch(c[k]) => d[k].tag = TagAfter(Before(c, k))
    BY <1>0, <2>2, <2>4, TaggedIs
  <2>6. PICK v, h : v = bq' /\ h = status.bhr
    OBVIOUS
  <2>7. Written(bq, v, h, Behind, c, d)
    <3>1. ASSUME NEW k \in Branches(c) PROVE v[d[k].tag].bhr = Along(h, c)[k - 1]
      <4>1. k \in 1 .. Len(c) /\ IsBranch(c[k])
        BY <2>4, BranchPlaces
      <4>2. d[k].tag = TagAfter(Before(c, k))
        BY <2>5, <4>1
      <4>3. PICK x : x = PreciseHistory(c, k) /\ x = Along(h, c)[k - 1]
        BY <2>6 DEF PreciseHistory
      <4>4. v[d[k].tag] = [bhr |-> x, taken |-> c[k].taken]
        BY <2>4, <2>6, <4>2, <4>3
      <4>5. QED
        BY <4>3, <4>4
    <3>2. QED
      BY <2>4, <2>5, <2>6, <3>1 DEF Written
  <2>8. status.valid /\ Continues(bq, Behind, h) /\ h \in Histories
    BY <1>1, <1>2, <2>3, <2>6 DEF Predecoded
  <2>9. Follows(v, Behind \o d) /\ Continues(v, Behind \o d, After(h, c))
    BY <1>1, <1>2, <2>4, <2>5, <2>7, <2>8, RecordedPush
  <2>10. fetch_active' => bhr' = After(h, c)
    <3>1. SUFFICES ASSUME fetch_active' PROVE bhr' = After(h, c)
      OBVIOUS
    <3>2. Serializers(Fetched) = {} /\ c = Fetched /\ status.flaw = None
      BY <2>1, <2>3, <3>1, PredecodeCuts
    <3>3. bhr = After(status.bhr, Fetched)
      BY <1>2, <2>8, <3>2 DEF Predicted
    <3>4. bhr' = bhr
      BY <2>3 DEF Predecoded
    <3>5. QED
      BY <2>6, <3>2, <3>3, <3>4
  <2>11. Precise(bq', Behind', fetch_active', status', bhr', Fetched')
    BY <2>3, <2>6, <2>9, <2>10, NoStatusIs DEF Precise, Predicted
  <2>12. Behind' \in Seq(Insts) /\ Fetched' \in Seq(Insts)
    BY <1>1, <2>3, <2>5, JoinIs, EmptySeq
  <2>13. QED
    BY <2>11, <2>12, HistoryNext
<1>7. ASSUME UNCHANGED <<fetch_active, bhr, status, FETCH2, bqVars>>,
             Behind' \in Seq(Insts),
             Follows(bq, Behind) => Follows(bq, Behind'),
             \A h : Continues(bq, Behind, h) => Continues(bq, Behind', h)
      PROVE  HistoryPrecise'
  <2>1. Fetched' = Fetched
    BY <1>7 DEF Fetched
  <2>2. Precise(bq', Behind', fetch_active', status', bhr', Fetched')
    BY <1>2, <1>7, <2>1 DEF Precise, bqVars
  <2>3. QED
    BY <1>1, <1>7, <2>1, <2>2, HistoryNext
<1>8. CASE Decode
  <2>1. Behind' = Behind
    BY <1>0, <1>8, DecodeMoves
  <2>2. QED
    BY <1>1, <1>7, <1>8, <2>1 DEF Decode
<1>9. ASSUME NEW k \in DOMAIN window, ResolveCorrect(k) PROVE HistoryPrecise'
  <2>1. PICK b \in Seq(Insts) : b = Behind
    BY <1>1
  <2>2. PICK u \in Seq(Insts) :
          /\ u = Behind' /\ Len(u) = Len(b)
          /\ \A j \in 1 .. Len(b) : /\ u[j].kind = b[j].kind /\ u[j].taken = b[j].taken
                                    /\ u[j].tag = b[j].tag
    BY <1>0, <1>9, <2>1, ResolveMoves
  <2>3. /\ Follows(bq, b) => Follows(bq, u)
        /\ \A h : Continues(bq, b, h) => Continues(bq, u, h)
    BY <2>2, RecordedAlike
  <2>4. QED
    BY <1>7, <1>9, <2>1, <2>2, <2>3 DEF ResolveCorrect
<1>10. ASSUME NEW k \in DOMAIN window, Mispredict(k) PROVE HistoryPrecise'
  <2>1. PICK b \in Seq(Insts) : b = Behind
    BY <1>1
  <2>2. /\ k \in 1 .. Len(b) /\ IsBranch(b[k])
        /\ Behind' \in Seq(Insts) /\ Len(Behind') = k /\ Fetched' = <<>>
        /\ \A j \in 1 .. k - 1 : Behind'[j] = b[j]
        /\ Behind'[k].kind = b[k].kind
        /\ Behind'[k].tag = b[k].tag /\ Behind'[k].phase = b[k].phase
        /\ bq' = [bq EXCEPT ![b[k].tag].taken = Behind'[k].taken]
        /\ bhr' = Shift(bq[b[k].tag].bhr, Behind'[k])
    BY <1>0, <1>1, <1>10, <2>1, MispredictMoves, Lengths DEF TypeOK
  <2>3. PICK u, v : u \in Seq(Insts) /\ u = Behind' /\ v = bq'
    BY <2>2
  <2>4. k \in Branches(b) /\ CutAt(b, u, k) /\ Redirected(bq, v, b, u, k)
    BY <2>2, <2>3, BranchPlaces DEF CutAt, Redirected
  <2>5. Follows(v, u) /\ Continues(v, u, Shift(bq[b[k].tag].bhr, u[k]))
    BY <1>1, <1>2, <2>1, <2>3, <2>4, RecordedCut
  <2>6. status' = NoStatus
    BY <1>10 DEF Mispredict, SquashFetch2
  <2>7. Precise(bq', Behind', fetch_active', status', bhr', Fetched')
    BY <2>2, <2>3, <2>5, <2>6, NoStatusIs DEF Precise, Predicted
  <2>8. Fetched' \in Seq(Insts)
    BY <2>2, EmptySeq
  <2>9. QED
    BY <2>2, <2>7, <2>8, HistoryNext
<1>11. ASSUME window # <<>>, window' = Tail(window), UNCHANGED <<DECODE, bq>>,
              UNCHANGED <<fetch_active, bhr, status, FETCH2>>
       PROVE  HistoryPrecise'
  <2>1. PICK b \in Seq(Insts) : b = Behind
    BY <1>1
  <2>2. b # <<>> /\ Behind' = Tail(b) /\ Behind' \in Seq(Insts)
    BY <1>0, <1>11, <2>1, CommitMoves
  <2>3. /\ Follows(bq, b) => Follows(bq, Tail(b))
        /\ \A h : Continues(bq, b, h) => Continues(bq, Tail(b), h)
    BY <2>2, RecordedTail
  <2>4. Fetched' = Fetched
    BY <1>11 DEF Fetched
  <2>5. Precise(bq', Behind', fetch_active', status', bhr', Fetched')
    BY <1>2, <1>11, <2>1, <2>2, <2>3, <2>4 DEF Precise
  <2>6. QED
    BY <1>1, <2>2, <2>4, <2>5, HistoryNext
<1>12. CASE CommitOp
  BY <1>11, <1>12 DEF CommitOp, bqVars
<1>13. CASE CommitBranch
  BY <1>11, <1>13 DEF CommitBranch
<1>14. ASSUME Flush, Behind' = <<>> PROVE HistoryPrecise'
  <2>1. status' = NoStatus
    BY <1>14 DEF Flush, SquashFetch2
  <2>2. Fetched' = <<>> /\ <<>> \in Seq(Insts)
    BY <2>1, NoStatusIs, EmptySeq DEF Fetched
  <2>3. Precise(bq', <<>>, fetch_active', status', bhr', Fetched')
    BY <2>1, NoStatusIs, NothingRecorded
  <2>4. QED
    BY <1>14, <2>2, <2>3, HistoryNext
<1>15. CASE CommitSerializer
  <2>1. Flush /\ window # <<>> /\ window' = Tail(window) /\ DECODE' = DECODE
        /\ Stops(Head(window))
    BY <1>15 DEF CommitSerializer, Stops
  <2>2. Len(Behind) = 1
    BY <1>0, <2>1, AloneAtHead
  <2>3. Behind' \in Seq(Insts) /\ Len(Behind') = Len(Behind) - 1
    BY <1>0, <2>1, CommitMoves
  <2>4. Behind' = <<>>
    BY <2>2, <2>3, EmptySeq
  <2>5. QED
    BY <1>14, <2>1, <2>4
<1>16. CASE SquashComplete
  <2>1. Flush /\ DECODE' = <<>> /\ window' = <<>>
    BY <1>16 DEF SquashComplete
  <2>2. Behind' = <<>>
    BY <2>1 DEF Behind
  <2>3. QED
    BY <1>14, <2>1, <2>2
<1>17. CASE UNCHANGED vars
  <2>1. Behind' = Behind /\ UNCHANGED <<fetch_active, bhr, status, FETCH2, bqVars>>
    BY <1>17 DEF vars, Behind
  <2>2. QED
    BY <1>1, <1>7, <2>1
<1>18. QED
  BY <1>3, <1>4, <1>5, <1>6, <1>8, <1>9, <1>10, <1>12, <1>13, <1>15, <1>16, <1>17 DEF Next

----------------------------------------------------------------------------
(* The theorems.                                                            *)

(* In every behaviour of the fetch unit the inductive invariant holds.      *)
THEOREM InvariantHolds == Spec => []IInv
<1>1. Init => IInv
  BY TypeInit, StoppingInit, PayingInit, QueueInit, HistoryInit DEF IInv
<1>2. IInv /\ [Next]_vars => IInv'
  BY TypeStep, StoppingStep, PayingStep, QueueStep, HistoryStep DEF IInv
<1>3. QED
  BY <1>1, <1>2, PTL DEF Spec

(* Every register and latch of the fetch unit keeps its type: no place of   *)
(* the payload or the branch queue is ever out of range.                    *)
THEOREM AlwaysTypeOK == Spec => []TypeOK
<1>1. IInv => TypeOK
  BY DEF IInv
<1>2. QED
  BY <1>1, InvariantHolds, PTL

(* The payload ring always holds the instructions in flight and nothing     *)
(* else, in program order, and its recomputed length is right.              *)
THEOREM AlwaysPayloadInOrder == Spec => []PayloadInOrder
<1>1. IInv => PayloadInOrder
  BY DEF IInv, Paying
<1>2. QED
  BY <1>1, InvariantHolds, PTL

(* The branch queue always holds exactly the branches that have left        *)
(* Fetch2, in program order, at the places and with the directions that     *)
(* these branches carry.                                                    *)
THEOREM AlwaysBranchQueueInOrder == Spec => []BranchQueueInOrder
<1>1. IInv => BranchQueueInOrder
  BY DEF IInv
<1>2. QED
  BY <1>1, InvariantHolds, PTL

(* Each branch always sees the outcomes of all branches before it and of no *)
(* squashed one, through every recovery.                                    *)
THEOREM AlwaysHistoryPrecise == Spec => []HistoryPrecise
<1>1. IInv => HistoryPrecise
  BY DEF IInv
<1>2. QED
  BY <1>1, InvariantHolds, PTL

(* The fetch unit only ever stands still for the youngest instruction in    *)
(* flight, one that starts it again when it retires.                        *)
THEOREM AlwaysStopsForYoungest == Spec => []StopsForYoungest
<1>1. IInv => StopsForYoungest
  <2>1. SUFFICES ASSUME IInv, ~ fetch_active PROVE Flight # <<>> /\ Stops(Last(Flight))
    BY DEF StopsForYoungest
  <2>2. Flight # <<>> /\ \A k \in DOMAIN Flight : Stops(Flight[k]) <=> k = Len(Flight)
    BY <2>1 DEF IInv, Stopping
  <2>3. Flight \in Seq(Insts) /\ DOMAIN Flight = 1 .. Len(Flight)
    BY <2>1, Lengths DEF IInv
  <2>4. Len(Flight) \in DOMAIN Flight
    BY <2>2, <2>3, EmptySeq, LenProperties
  <2>5. QED
    BY <2>2, <2>4 DEF Last
<1>2. QED
  BY <1>1, InvariantHolds, PTL

(* Whenever a bundle can be fetched, all slots of the latch are empty.      *)
THEOREM AlwaysFetch2Clean == Spec => []Fetch2Clean
<1>1. IInv => Fetch2Clean
  <2>1. SUFFICES ASSUME IInv, fetch_active, ~ status.valid PROVE FETCH2 = NoFetch2
    BY DEF Fetch2Clean
  <2>2. Len(Fetched) = 0
    BY <2>1, EmptySeq DEF Fetched
  <2>3. \A p \in Slots : p >= Len(Fetched) => FETCH2[p] = Bubble
    BY <2>1 DEF IInv, Stopping
  <2>4. \A p \in Slots : FETCH2[p] = Bubble
    BY <2>2, <2>3 DEF Slots
  <2>5. FETCH2 \in [Slots -> Insts \cup {Bubble}]
    BY <2>1 DEF IInv, TypeOK
  <2>6. QED
    BY <2>4, <2>5 DEF NoFetch2
<1>2. QED
  BY <1>1, InvariantHolds, PTL

(* When a serializing instruction commits nothing else is in flight.        *)
THEOREM SerializersRetireAlone == Spec => SerializerRetiresAlone
<1>1. IInv /\ [Next]_vars => [CommitSerializer => Len(Flight) = 1]_vars
  <2>1. SUFFICES ASSUME IInv, CommitSerializer PROVE Len(Flight) = 1
    OBVIOUS
  <2>2. TypeOK /\ Stopping /\ window # <<>> /\ Stops(Head(window))
    BY <2>1 DEF IInv, CommitSerializer, Stops
  <2>3. QED
    BY <2>2, AloneAtHead
<1>2. QED
  BY <1>1, InvariantHolds, PTL DEF Spec, SerializerRetiresAlone

=============================================================================
