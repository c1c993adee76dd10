----------------------------- MODULE LSUProofs -----------------------------
(***************************************************************************)
(* For every size of the queues, every number of instructions in flight    *)
(* and every set of operations: the load and the store queue hold what is  *)
(* in flight, and every instruction remembers where they stood before it.  *)
(*                                                                         *)
(* The two queues are rings of the same kind.  Side says of one of them    *)
(* that it holds the instructions at the places S of a window of length N, *)
(* which remember the positions P.  LQSide and SQSide say it of the two    *)
(* queues; a step of the unit is, for each of them, a push, a pop, a cut,  *)
(* or nothing but the window growing, shrinking or being marked.           *)
(*                                                                         *)
(* However loads and stores execute, an aligned load commits with the      *)
(* value that is in memory when it commits, where every older store has    *)
(* arrived and no younger one (the second half).  The argument says where  *)
(* a value came from.  As long as nothing has been marked to squash it,    *)
(* its value is that of one older store of the same bytes (GivenBy), or    *)
(* that of memory, and every store in between was or would be passed by    *)
(* the search (PassedBy): it touches other bytes, or its address is        *)
(* unknown and the load was predicted not to need it.  A store that learns *)
(* its address and breaks this finds the load.                             *)
(*                                                                         *)
(* A misaligned store cannot spoil it: once its address is there the store *)
(* is marked (Settled), and the loads behind it will be squashed.          *)
(***************************************************************************)
EXTENDS LSUProperties, FiniteSetTheorems, FunctionTheorems, SequenceTheorems,
        WellFoundedInduction, TLAPS

----------------------------------------------------------------------------
(* Before                                                                   *)
LEMMA BeforeFinite ==
  ASSUME NEW S \in SUBSET Nat, NEW k \in Nat
  PROVE  IsFiniteSet({j \in S : j < k}) /\ Before(S, k) \in Nat
<1>1. IsFiniteSet(0 .. k)
  BY FS_Interval
<1>2. {j \in S : j < k} \in SUBSET (0 .. k)
  <2>1. \A j \in S : j < k => j \in 0 .. k
    OBVIOUS
  <2>2. QED
    BY <2>1
<1>3. QED
  BY <1>1, <1>2, FS_Subset, FS_CardinalityType DEF Before

LEMMA BeforeStep ==
  ASSUME NEW S \in SUBSET Nat, NEW k \in Nat
  PROVE  Before(S, k + 1) = Before(S, k) + (IF k \in S THEN 1 ELSE 0)
<1> DEFINE T == {j \in S : j < k}
           U == {j \in S : j < k + 1}
<1>1. IsFiniteSet(T) /\ k \notin T /\ Before(S, k) \in Nat
  BY BeforeFinite
<1>2. CASE k \in S
  <2>1. U = T \cup {k}
    <3>1. \A j \in S : j \in Nat /\ (j < k + 1 <=> j < k \/ j = k)
      OBVIOUS
    <3>2. QED
      BY <1>2, <3>1
  <2>2. QED
    BY <1>1, <1>2, <2>1, FS_AddElement DEF Before
<1>3. CASE k \notin S
  <2>1. U = T
    <3>1. \A j \in S : j \in Nat /\ (j < k + 1 <=> j < k \/ j = k)
      OBVIOUS
    <3>2. QED
      BY <1>3, <3>1
  <2>2. QED
    BY <1>1, <1>3, <2>1 DEF Before
<1>4. QED
  BY <1>2, <1>3

LEMMA BeforeMonotone ==
  ASSUME NEW S \in SUBSET Nat, NEW k \in Nat, NEW i \in Nat, i <= k
  PROVE  Before(S, i) <= Before(S, k)
<1>1. {j \in S : j < i} \in SUBSET {j \in S : j < k}
  <2>1. \A j \in S : j < i => j < k
    OBVIOUS
  <2>2. QED
    BY <2>1
<1>2. QED
  BY <1>1, FS_Subset, BeforeFinite DEF Before

LEMMA BeforeStrict ==
  ASSUME NEW S \in SUBSET Nat, NEW k \in Nat, NEW i \in S, i < k
  PROVE  Before(S, i) < Before(S, k)
<1>1. i \in Nat /\ i + 1 \in Nat /\ i + 1 <= k
  OBVIOUS
<1>2. Before(S, i + 1) = Before(S, i) + 1
  BY <1>1, BeforeStep
<1>3. Before(S, i + 1) <= Before(S, k)
  BY <1>1, BeforeMonotone
<1>4. Before(S, i) \in Nat /\ Before(S, k) \in Nat
  BY <1>1, BeforeFinite
<1>5. QED
  BY <1>2, <1>3, <1>4

LEMMA BeforeAgree ==
  ASSUME NEW S \in SUBSET Nat, NEW T \in SUBSET Nat, NEW k \in Nat,
         \A j \in Nat : j < k => (j \in S <=> j \in T)
  PROVE  Before(S, k) = Before(T, k)
<1>1. {j \in S : j < k} = {j \in T : j < k}
  OBVIOUS
<1>2. QED
  BY <1>1 DEF Before

LEMMA BeforeOne ==
  ASSUME NEW S \in SUBSET (Nat \ {0})
  PROVE  Before(S, 1) = 0
<1>1. {j \in S : j < 1} = {}
  <2>1. \A j \in S : ~ (j < 1)
    OBVIOUS
  <2>2. QED
    BY <2>1
<1>2. QED
  BY <1>1, FS_EmptySet DEF Before

(* When the first place goes, every count falls by what was in it.          *)
LEMMA BeforeShift ==
  ASSUME NEW S \in SUBSET (Nat \ {0}), NEW T \in SUBSET (Nat \ {0}), NEW k \in Nat,
         \A j \in Nat \ {0} : j \in T <=> j + 1 \in S
  PROVE  Before(S, k + 1) = Before(T, k) + (IF 1 \in S /\ k > 0 THEN 1 ELSE 0)
<1> DEFINE A == {j \in S : j < k + 1}
           B == {j \in T : j < k}
           F == [j \in B |-> j + 1]
<1>1. /\ IsFiniteSet(A) /\ IsFiniteSet(B)
      /\ Cardinality(A) \in Nat /\ Cardinality(B) \in Nat
  <2>1. k + 1 \in Nat
    OBVIOUS
  <2>2. QED
    BY <2>1, BeforeFinite, FS_CardinalityType
<1>2. F \in Bijection(B, A \ {1})
  <2>1. \A j \in B : j + 1 \in A \ {1}
    OBVIOUS
  <2>2. \A a, b \in B : F[a] = F[b] => a = b
    OBVIOUS
  <2>3. \A t \in A \ {1} : t - 1 \in B /\ F[t - 1] = t
    <3> SUFFICES ASSUME NEW t \in A \ {1} PROVE t - 1 \in B /\ F[t - 1] = t
      OBVIOUS
    <3>1. t \in Nat /\ t > 1 /\ t \in S /\ t < k + 1 /\ t - 1 \in Nat \ {0}
      OBVIOUS
    <3>2. (t - 1) + 1 = t
      BY <3>1
    <3>3. t - 1 \in T
      BY <3>1, <3>2
    <3>4. QED
      BY <3>1, <3>3
  <2>4. F \in [B -> A \ {1}]
    BY <2>1
  <2>5. QED
    BY <2>2, <2>3, <2>4, Fun_IsBij
<1>3. Cardinality(A \ {1}) = Cardinality(B)
  BY <1>1, <1>2, FS_Bijection DEF ExistsBijection
<1>4. 1 \in A <=> 1 \in S /\ k > 0
  OBVIOUS
<1>5. CASE 1 \in A
  <2>1. Cardinality(A \ {1}) = Cardinality(A) - 1
    BY <1>1, <1>5, FS_RemoveElement
  <2>2. QED
    BY <1>1, <1>3, <1>4, <1>5, <2>1 DEF Before
<1>6. CASE 1 \notin A
  <2>1. A \ {1} = A
    BY <1>6
  <2>2. QED
    BY <1>1, <1>3, <1>4, <1>6, <2>1 DEF Before
<1>7. QED
  BY <1>5, <1>6

LEMMA BeforeAll ==
  ASSUME NEW N \in Nat, NEW S \in SUBSET (1 .. N)
  PROVE  Cardinality(S) = Before(S, N + 1)
<1>1. {j \in S : j < N + 1} = S
  <2>1. \A j \in S : j < N + 1
    OBVIOUS
  <2>2. QED
    BY <2>1
<1>2. QED
  BY <1>1 DEF Before

----------------------------------------------------------------------------
(* Rings                                                                    *)
Turn(a, size)      == IF a < size THEN a ELSE a - size
Flip(p, a, size)   == IF a >= size THEN 1 - p ELSE p

LEMMA Wrap ==
  ASSUME NEW size \in Nat \ {0}, NEW a \in 0 .. 2 * size - 1
  PROVE  a % size = Turn(a, size)
BY SMT DEF Turn

LEMMA AfterTurns ==
  ASSUME NEW size \in Nat \ {0}, NEW h \in 0 .. size - 1, NEW p, NEW n \in 0 .. size
  PROVE  /\ (h + n) % size = Turn(h + n, size)
         /\ After(h, p, n, size) = <<Turn(h + n, size), Flip(p, h + n, size)>>
<1>1. h + n \in 0 .. 2 * size - 1
  OBVIOUS
<1>2. (h + n) % size = Turn(h + n, size)
  BY <1>1, Wrap
<1>3. QED
  BY <1>2 DEF After, Flip

LEMMA TurnIn ==
  ASSUME NEW size \in Nat \ {0}, NEW h \in 0 .. size - 1, NEW n \in 0 .. size, NEW p \in Phase
  PROVE  Turn(h + n, size) \in 0 .. size - 1 /\ Flip(p, h + n, size) \in Phase
BY DEF Turn, Flip, Phase

LEMMA TurnInjective ==
  ASSUME NEW size \in Nat \ {0}, NEW h \in 0 .. size - 1,
         NEW m \in 0 .. size - 1, NEW n \in 0 .. size - 1, Turn(h + m, size) = Turn(h + n, size)
  PROVE  m = n
BY DEF Turn

LEMMA TurnNext ==
  ASSUME NEW size \in Nat \ {0}, NEW h \in 0 .. size - 1, NEW p \in Phase,
         NEW n \in 0 .. size - 1
  PROVE  /\ Inc(Turn(h + n, size), size) = Turn(h + (n + 1), size)
         /\ Toggle(Turn(h + n, size), Flip(p, h + n, size), size)
              = Flip(p, h + (n + 1), size)
         /\ Turn(Inc(h, size) + n, size) = Turn(h + (n + 1), size)
         /\ Flip(Toggle(h, p, size), Inc(h, size) + n, size) = Flip(p, h + (n + 1), size)
         /\ Inc(h, size) \in 0 .. size - 1 /\ Toggle(h, p, size) \in Phase
BY DEF Turn, Flip, Inc, Toggle, Phase

(* Length recomputed from the pointers.                                     *)
LEMMA LengthIs ==
  ASSUME NEW size \in Nat \ {0}, NEW h \in 0 .. size - 1, NEW p \in Phase,
         NEW n \in 0 .. size
  PROVE  Length(h, p, Turn(h + n, size), Flip(p, h + n, size), size) = n
<1> DEFINE t == Turn(h + n, size)
           a == size + t - h
<1>1. a \in 0 .. 2 * size - 1 /\ t \in 0 .. size - 1
  BY DEF Turn
<1>2. a % size = Turn(a, size)
  BY <1>1, Wrap
<1>3. Turn(a, size) = IF n = size THEN 0 ELSE n
  BY <1>1 DEF Turn
<1>4. Flip(p, h + n, size) # p <=> h + n >= size
  BY DEF Flip, Phase
<1>5. n = size => Flip(p, h + n, size) # p
  BY <1>4
<1>6. n = 0 => Flip(p, h + n, size) = p
  BY <1>4
<1>7. QED
  BY <1>2, <1>3, <1>5, <1>6 DEF Length

----------------------------------------------------------------------------
(* One queue.                                                               *)
Held(i, h, n, size) == \E m \in 0 .. n - 1 : Turn(h + m, size) = i

Side(Q, h, hp, t, tp, n, size, S, N, P) ==
  /\ S \in SUBSET (1 .. N) /\ n \in 0 .. size /\ n = Before(S, N + 1)
  /\ h \in 0 .. size - 1 /\ hp \in Phase
  /\ t = Turn(h + n, size) /\ tp = Flip(hp, h + n, size)
  /\ \A i \in 0 .. size - 1 : Q[i].valid <=> Held(i, h, n, size)
  /\ \A k \in 1 .. N : P[k] = <<Turn(h + Before(S, k), size),
                                Flip(hp, h + Before(S, k), size)>>

(* The window with one more instruction that remembers position x, without  *)
(* its first one, and up to place k.                                        *)
Longer(P2, P, N, x) == (\A k \in 1 .. N : P2[k] = P[k]) /\ P2[N + 1] = x

Behind(T, P2, S, P, N) ==
  /\ T \in SUBSET (1 .. N - 1)
  /\ \A j \in Nat \ {0} : j \in T <=> j + 1 \in S
  /\ \A k \in 1 .. N - 1 : P2[k] = P[k + 1]

UpTo(k, T, P2, S, P) ==
  /\ \A j : j \in T <=> j \in S /\ j \in 1 .. k
  /\ \A j \in 1 .. k : P2[j] = P[j]

(* What restore() makes of a recorded position, and what it and a pop do to *)
(* the valid bits.                                                          *)
Restored(u, up, m, h, hp, x, size) ==
  u = x[1] /\ up = x[2] /\ m = Length(h, hp, u, up, size)

Released(R, Q, h, size) ==
  \A i \in 0 .. size - 1 : R[i].valid <=> Q[i].valid /\ i # h

Walked(R, h, m, size) ==
  \A i \in 0 .. size - 1 : R[i].valid <=> \E j \in 0 .. m - 1 : (h + j) % size = i

LEMMA SideCounts ==
  ASSUME NEW size \in Nat \ {0}, NEW N \in Nat, NEW S \in SUBSET (1 .. N),
         Before(S, N + 1) <= size
  PROVE  /\ Before(S, N + 1) \in 0 .. size
         /\ \A k \in 1 .. N : /\ Before(S, k) \in 0 .. Before(S, N + 1)
                              /\ k \in S => Before(S, k) \in 0 .. Before(S, N + 1) - 1
<1>1. S \in SUBSET Nat /\ N + 1 \in Nat
  OBVIOUS
<1>2. Before(S, N + 1) \in Nat
  BY <1>1, BeforeFinite
<1>3. ASSUME NEW k \in 1 .. N
      PROVE  /\ Before(S, k) \in 0 .. Before(S, N + 1)
             /\ k \in S => Before(S, k) \in 0 .. Before(S, N + 1) - 1
  <2>1. k \in Nat /\ k <= N + 1 /\ k < N + 1
    OBVIOUS
  <2>2. Before(S, k) \in Nat /\ Before(S, k) <= Before(S, N + 1)
    BY <1>1, <2>1, BeforeFinite, BeforeMonotone
  <2>3. k \in S => Before(S, k) < Before(S, N + 1)
    BY <1>1, <2>1, BeforeStrict
  <2>4. QED
    BY <1>2, <2>2, <2>3
<1>4. QED
  BY <1>2, <1>3

LEMMA SideKeep ==
  ASSUME NEW Q, NEW h, NEW hp, NEW t, NEW tp, NEW n, NEW size, NEW S, NEW N, NEW P,
         Side(Q, h, hp, t, tp, n, size, S, N, P),
         NEW R, \A i \in 0 .. size - 1 : R[i].valid = Q[i].valid,
         NEW P2, \A k \in 1 .. N : P2[k] = P[k]
  PROVE  Side(R, h, hp, t, tp, n, size, S, N, P2)
BY DEF Side

(* An entry at the tail.                                                    *)
LEMMA SidePush ==
  ASSUME NEW Q, NEW h, NEW hp, NEW t, NEW tp, NEW n, NEW S, NEW P,
         NEW size \in Nat \ {0}, NEW N \in Nat,
         Side(Q, h, hp, t, tp, n, size, S, N, P), n < size,
         NEW R, R[t].valid, \A i \in 0 .. size - 1 : i # t => R[i].valid = Q[i].valid,
         NEW P2, Longer(P2, P, N, <<t, tp>>)
  PROVE  Side(R, h, hp, Inc(t, size), Toggle(t, tp, size), n + 1, size,
              S \cup {N + 1}, N + 1, P2)
<1> DEFINE T == S \cup {N + 1}
<1>0. (\A k \in 1 .. N : P2[k] = P[k]) /\ P2[N + 1] = <<t, tp>>
  BY DEF Longer
<1>1. /\ S \in SUBSET (1 .. N) /\ n \in 0 .. size - 1 /\ n = Before(S, N + 1)
      /\ h \in 0 .. size - 1 /\ hp \in Phase
      /\ t = Turn(h + n, size) /\ tp = Flip(hp, h + n, size)
      /\ \A i \in 0 .. size - 1 : Q[i].valid <=> Held(i, h, n, size)
  BY DEF Side
<1>2. T \in SUBSET (1 .. N + 1) /\ T \in SUBSET Nat /\ S \in SUBSET Nat
  BY <1>1
<1>3. \A k \in 1 .. N + 1 : Before(T, k) = Before(S, k)
  <2>1. TAKE k \in 1 .. N + 1
  <2>2. \A j \in Nat : j < k => (j \in S <=> j \in T)
    OBVIOUS
  <2>3. QED
    BY <1>2, <2>2, BeforeAgree
<1>4. Before(T, N + 1 + 1) = n + 1
  <2>1. N + 1 \in Nat /\ N + 1 \in 1 .. N + 1 /\ N + 1 \in T
    OBVIOUS
  <2>2. Before(T, N + 1 + 1) = Before(T, N + 1) + 1
    BY <1>2, <2>1, BeforeStep
  <2>3. Before(T, N + 1) = n
    BY <1>1, <1>3, <2>1
  <2>4. QED
    BY <2>2, <2>3
<1>5. /\ Inc(t, size) = Turn(h + (n + 1), size)
      /\ Toggle(t, tp, size) = Flip(hp, h + (n + 1), size)
  BY <1>1, TurnNext
<1>6. ASSUME NEW i \in 0 .. size - 1
      PROVE  R[i].valid <=> Held(i, h, n + 1, size)
  <2>1. Held(i, h, n + 1, size) <=> Held(i, h, n, size) \/ i = t
    <3>1. \A m : m \in 0 .. n + 1 - 1 <=> m \in 0 .. n - 1 \/ m = n
      BY <1>1
    <3>2. QED
      BY <1>1, <3>1 DEF Held
  <2>2. QED
    BY <1>1, <2>1
<1>7. \A k \in 1 .. N + 1 : P2[k] = <<Turn(h + Before(T, k), size),
                                      Flip(hp, h + Before(T, k), size)>>
  <2>1. TAKE k \in 1 .. N + 1
  <2>2. CASE k = N + 1
    BY <1>0, <1>1, <1>3, <2>2
  <2>3. CASE k # N + 1
    <3>1. k \in 1 .. N
      BY <2>3
    <3>2. P[k] = <<Turn(h + Before(S, k), size), Flip(hp, h + Before(S, k), size)>>
      BY <1>0, <3>1 DEF Side
    <3>3. QED
      BY <1>0, <1>3, <3>1, <3>2
  <2>4. QED
    BY <2>2, <2>3
<1>8. n + 1 \in 0 .. size
  BY <1>1
<1> HIDE DEF T
<1>9. QED
  BY <1>1, <1>2, <1>4, <1>5, <1>6, <1>7, <1>8 DEF Side, T

(* An instruction for the other queue.                                      *)
LEMMA SideExtend ==
  ASSUME NEW Q, NEW h, NEW hp, NEW t, NEW tp, NEW n, NEW S, NEW P,
         NEW size \in Nat \ {0}, NEW N \in Nat,
         Side(Q, h, hp, t, tp, n, size, S, N, P),
         NEW P2, Longer(P2, P, N, <<t, tp>>)
  PROVE  Side(Q, h, hp, t, tp, n, size, S, N + 1, P2)
<1>0. (\A k \in 1 .. N : P2[k] = P[k]) /\ P2[N + 1] = <<t, tp>>
  BY DEF Longer
<1>1. /\ S \in SUBSET (1 .. N) /\ n = Before(S, N + 1)
      /\ t = Turn(h + n, size) /\ tp = Flip(hp, h + n, size)
  BY DEF Side
<1>2. S \in SUBSET Nat /\ S \in SUBSET (1 .. N + 1) /\ N + 1 \notin S
  BY <1>1
<1>3. Before(S, N + 1 + 1) = n
  <2>1. N + 1 \in Nat
    OBVIOUS
  <2>2. Before(S, N + 1 + 1) = Before(S, N + 1) + 0 /\ Before(S, N + 1) \in Nat
    BY <1>2, <2>1, BeforeStep, BeforeFinite
  <2>3. QED
    BY <1>0, <1>1, <2>2
<1>4. \A k \in 1 .. N + 1 : P2[k] = <<Turn(h + Before(S, k), size),
                                      Flip(hp, h + Before(S, k), size)>>
  <2>1. TAKE k \in 1 .. N + 1
  <2>2. CASE k = N + 1
    BY <1>0, <1>1, <2>2
  <2>3. CASE k # N + 1
    <3>1. k \in 1 .. N
      BY <2>3
    <3>2. QED
      BY <1>0, <3>1 DEF Side
  <2>4. QED
    BY <2>2, <2>3
<1>5. QED
  BY <1>2, <1>3, <1>4 DEF Side

(* The head leaves.                                                         *)
LEMMA SidePop ==
  ASSUME NEW Q, NEW h, NEW hp, NEW t, NEW tp, NEW n, NEW S, NEW P,
         NEW size \in Nat \ {0}, NEW N \in Nat \ {0},
         Side(Q, h, hp, t, tp, n, size, S, N, P), 1 \in S,
         NEW R, Released(R, Q, h, size),
         NEW T, NEW P2, Behind(T, P2, S, P, N)
  PROVE  Side(R, Inc(h, size), Toggle(h, hp, size), t, tp, n - 1, size, T, N - 1, P2)
<1>0. /\ T \in SUBSET (1 .. N - 1)
      /\ \A j \in Nat \ {0} : j \in T <=> j + 1 \in S
      /\ \A k \in 1 .. N - 1 : P2[k] = P[k + 1]
  BY DEF Behind
<1>r. \A i \in 0 .. size - 1 : R[i].valid <=> Q[i].valid /\ i # h
  BY DEF Released
<1>1. /\ S \in SUBSET (1 .. N) /\ n \in 0 .. size /\ n = Before(S, N + 1)
      /\ h \in 0 .. size - 1 /\ hp \in Phase
      /\ t = Turn(h + n, size) /\ tp = Flip(hp, h + n, size)
      /\ \A i \in 0 .. size - 1 : Q[i].valid <=> Held(i, h, n, size)
  BY DEF Side
<1>2. S \in SUBSET (Nat \ {0}) /\ T \in SUBSET (Nat \ {0}) /\ T \in SUBSET Nat
  BY <1>0, <1>1
<1>3. \A k \in Nat \ {0} : /\ Before(S, k + 1) = Before(T, k) + 1
                           /\ Before(T, k) \in Nat
  <2>1. TAKE k \in Nat \ {0}
  <2>2. k \in Nat /\ k > 0
    OBVIOUS
  <2>3. Before(T, k) \in Nat
    BY <1>2, <2>2, BeforeFinite
  <2>4. Before(S, k + 1) = Before(T, k) + (IF 1 \in S /\ k > 0 THEN 1 ELSE 0)
    BY <1>0, <1>2, <2>2, BeforeShift
  <2>5. QED
    BY <2>2, <2>3, <2>4
<1>4. n - 1 = Before(T, N - 1 + 1) /\ n - 1 \in 0 .. size - 1
  <2>1. Before(S, N + 1) = Before(T, N) + 1 /\ Before(T, N) \in Nat
    BY <1>3
  <2>2. N - 1 + 1 = N
    OBVIOUS
  <2>3. QED
    BY <1>1, <2>1, <2>2
<1> DEFINE h2 == Inc(h, size)
           p2 == Toggle(h, hp, size)
<1>5. \A m \in 0 .. size - 1 : /\ Turn(h2 + m, size) = Turn(h + (m + 1), size)
                               /\ Flip(p2, h2 + m, size) = Flip(hp, h + (m + 1), size)
  BY <1>1, TurnNext
<1>6. h2 \in 0 .. size - 1 /\ p2 \in Phase
  <2>1. 0 \in 0 .. size - 1
    OBVIOUS
  <2>2. QED
    BY <1>1, <2>1, TurnNext
<1>7. t = Turn(h2 + (n - 1), size) /\ tp = Flip(p2, h2 + (n - 1), size)
  <2>1. n - 1 + 1 = n
    BY <1>1
  <2>2. QED
    BY <1>1, <1>4, <1>5, <2>1
<1>8. ASSUME NEW i \in 0 .. size - 1
      PROVE  R[i].valid <=> Held(i, h2, n - 1, size)
  <2>1. ASSUME NEW m \in 0 .. n - 1 - 1, Turn(h2 + m, size) = i
        PROVE  Held(i, h, n, size) /\ i # h
    <3>1. m \in 0 .. size - 1 /\ m + 1 \in 0 .. n - 1 /\ m + 1 \in 0 .. size - 1
      BY <1>1
    <3>2. Turn(h + (m + 1), size) = i
      BY <1>5, <2>1, <3>1
    <3>3. Turn(h + 0, size) = h /\ 0 \in 0 .. size - 1
      BY <1>1 DEF Turn
    <3>4. i # h
      <4>1. Turn(h + (m + 1), size) = Turn(h + 0, size) => m + 1 = 0
        BY <1>1, <3>1, <3>3, TurnInjective
      <4>2. QED
        BY <3>1, <3>2, <3>3, <4>1
    <3>5. QED
      BY <3>1, <3>2, <3>4 DEF Held
  <2>2. ASSUME NEW m \in 0 .. n - 1, Turn(h + m, size) = i, i # h
        PROVE  Held(i, h2, n - 1, size)
    <3>1. Turn(h + 0, size) = h
      BY <1>1 DEF Turn
    <3>2. m # 0
      BY <2>2, <3>1
    <3>3. m - 1 \in 0 .. n - 1 - 1 /\ m - 1 \in 0 .. size - 1 /\ m - 1 + 1 = m
      BY <1>1, <3>2
    <3>4. Turn(h2 + (m - 1), size) = i
      BY <1>5, <2>2, <3>3
    <3>5. QED
      BY <3>3, <3>4 DEF Held
  <2>3. QED
    BY <1>1, <1>r, <2>1, <2>2 DEF Held
<1>9. \A k \in 1 .. N - 1 : P2[k] = <<Turn(h2 + Before(T, k), size),
                                      Flip(p2, h2 + Before(T, k), size)>>
  <2>1. TAKE k \in 1 .. N - 1
  <2>2. k + 1 \in 1 .. N /\ k \in Nat \ {0}
    OBVIOUS
  <2>3. P[k + 1] = <<Turn(h + Before(S, k + 1), size), Flip(hp, h + Before(S, k + 1), size)>>
    BY <2>2 DEF Side
  <2>4. Before(S, k + 1) = Before(T, k) + 1 /\ Before(T, k) \in Nat
    BY <1>3, <2>2
  <2>5. Before(S, k + 1) <= n
    BY <1>1, <2>2, SideCounts
  <2>6. Before(T, k) \in 0 .. size - 1
    BY <1>1, <2>4, <2>5
  <2>7. QED
    BY <1>0, <1>5, <2>3, <2>4, <2>6
<1>10. QED
  BY <1>0, <1>1, <1>4, <1>6, <1>7, <1>8, <1>9 DEF Side

(* The oldest instruction, not of this queue, leaves.                       *)
LEMMA SideDrop ==
  ASSUME NEW Q, NEW h, NEW hp, NEW t, NEW tp, NEW n, NEW S, NEW P,
         NEW size \in Nat \ {0}, NEW N \in Nat \ {0},
         Side(Q, h, hp, t, tp, n, size, S, N, P), 1 \notin S,
         NEW T, NEW P2, Behind(T, P2, S, P, N)
  PROVE  Side(Q, h, hp, t, tp, n, size, T, N - 1, P2)
<1>0. /\ T \in SUBSET (1 .. N - 1)
      /\ \A j \in Nat \ {0} : j \in T <=> j + 1 \in S
      /\ \A k \in 1 .. N - 1 : P2[k] = P[k + 1]
  BY DEF Behind
<1>1. S \in SUBSET (1 .. N) /\ n = Before(S, N + 1)
  BY DEF Side
<1>2. S \in SUBSET (Nat \ {0}) /\ T \in SUBSET (Nat \ {0}) /\ T \in SUBSET Nat
  BY <1>0, <1>1
<1>3. \A k \in Nat \ {0} : Before(S, k + 1) = Before(T, k)
  <2>1. TAKE k \in Nat \ {0}
  <2>2. Before(S, k + 1) = Before(T, k) + 0 /\ Before(T, k) \in Nat
    BY <1>0, <1>2, BeforeShift, BeforeFinite
  <2>3. QED
    BY <2>2
<1>4. n = Before(T, N - 1 + 1)
  <2>1. N - 1 + 1 = N
    OBVIOUS
  <2>2. QED
    BY <1>1, <1>3, <2>1
<1>5. \A k \in 1 .. N - 1 : P2[k] = <<Turn(h + Before(T, k), size),
                                      Flip(hp, h + Before(T, k), size)>>
  <2>1. TAKE k \in 1 .. N - 1
  <2>2. k + 1 \in 1 .. N /\ k \in Nat \ {0}
    OBVIOUS
  <2>3. P[k + 1] = <<Turn(h + Before(S, k + 1), size), Flip(hp, h + Before(S, k + 1), size)>>
    BY <2>2 DEF Side
  <2>4. QED
    BY <1>0, <1>3, <2>2, <2>3
<1>6. QED
  BY <1>0, <1>4, <1>5 DEF Side

(* A branch at place k takes the tail back to where it stood.               *)
LEMMA SideCut ==
  ASSUME NEW Q, NEW h, NEW hp, NEW t, NEW tp, NEW n, NEW S, NEW P,
         NEW size \in Nat \ {0}, NEW N \in Nat, NEW k \in 1 .. N,
         Side(Q, h, hp, t, tp, n, size, S, N, P), k \notin S,
         NEW u, NEW up, NEW m, Restored(u, up, m, h, hp, P[k], size),
         NEW R, Walked(R, h, m, size), NEW T, NEW P2, UpTo(k, T, P2, S, P)
  PROVE  Side(R, h, hp, u, up, m, size, T, k, P2)
<1>0. /\ \A j : j \in T <=> j \in S /\ j \in 1 .. k
      /\ \A j \in 1 .. k : P2[j] = P[j]
  BY DEF UpTo
<1>1. /\ S \in SUBSET (1 .. N) /\ n \in 0 .. size /\ n = Before(S, N + 1)
      /\ h \in 0 .. size - 1 /\ hp \in Phase
      /\ \A j \in 1 .. N : P[j] = <<Turn(h + Before(S, j), size),
                                    Flip(hp, h + Before(S, j), size)>>
  BY DEF Side
<1>2. S \in SUBSET Nat /\ T \in SUBSET Nat /\ T \in SUBSET (1 .. k)
  BY <1>0, <1>1
<1>3. Before(S, k) \in 0 .. size
  BY <1>1, SideCounts
<1>4. m = Before(S, k)
  <2>1. u = Turn(h + Before(S, k), size) /\ up = Flip(hp, h + Before(S, k), size)
    BY <1>1 DEF Restored
  <2>2. QED
    BY <1>1, <1>3, <2>1, LengthIs DEF Restored
<1>5. \A j \in 1 .. k + 1 : j \in Nat /\ Before(T, j) = Before(S, j)
  <2>1. TAKE j \in 1 .. k + 1
  <2>2. \A i \in Nat : i < j => (i \in S <=> i \in T)
    BY <1>0, <1>1
  <2>3. QED
    BY <1>2, <2>2, BeforeAgree
<1>6. Before(T, k + 1) = m
  <2>1. Before(S, k + 1) = Before(S, k) + 0
    BY <1>2, BeforeStep
  <2>2. Before(T, k + 1) = Before(S, k + 1)
    BY <1>5
  <2>3. QED
    BY <1>3, <1>4, <2>1, <2>2
<1>7. ASSUME NEW i \in 0 .. size - 1
      PROVE  R[i].valid <=> Held(i, h, m, size)
  <2>1. \A j \in 0 .. m - 1 : (h + j) % size = Turn(h + j, size)
    <3>1. TAKE j \in 0 .. m - 1
    <3>2. j \in 0 .. size
      BY <1>3, <1>4
    <3>3. QED
      BY <1>1, <3>2, AfterTurns
  <2>2. QED
    BY <2>1 DEF Held, Walked
<1>8. \A j \in 1 .. k : P2[j] = <<Turn(h + Before(T, j), size),
                                  Flip(hp, h + Before(T, j), size)>>
  BY <1>0, <1>1, <1>5
<1>9. u = Turn(h + m, size) /\ up = Flip(hp, h + m, size)
  BY <1>1, <1>4 DEF Restored
<1>10. QED
  BY <1>1, <1>2, <1>3, <1>4, <1>6, <1>7, <1>8, <1>9 DEF Side

LEMMA SideEmpty ==
  ASSUME NEW size \in Nat \ {0}, NEW Q, \A i \in 0 .. size - 1 : ~ Q[i].valid, NEW P
  PROVE  Side(Q, 0, 0, 0, 0, 0, size, {}, 0, P)
<1>1. Before({}, 0 + 1) = 0
  BY BeforeOne
<1>2. QED
  BY <1>1 DEF Side, Held, Turn, Flip, Phase

----------------------------------------------------------------------------
(* Walks along a ring.                                                      *)
LEMMA DistanceIs ==
  ASSUME NEW size \in Nat \ {0}, NEW h \in 0 .. size - 1, NEW p \in Phase,
         NEW n \in 0 .. size, NEW a \in 0 .. n
  PROVE  Distance(Turn(h + a, size), Flip(p, h + a, size),
                  Turn(h + n, size), Flip(p, h + n, size), size) = n - a
<1> DEFINE i == Turn(h + a, size)
           j == Turn(h + n, size)
<1>1. i \in 0 .. size - 1 /\ j \in 0 .. size - 1 /\ a \in 0 .. size /\ h + a \in Int /\ h + n \in Int
  BY DEF Turn
<1>2. CASE i = j
  <2>1. Flip(p, h + a, size) = Flip(p, h + n, size) <=> a = n
    BY <1>1, <1>2 DEF Turn, Flip, Phase
  <2>2. a # n => n - a = size
    BY <1>1, <1>2 DEF Turn
  <2>3. QED
    BY <1>1, <1>2, <2>1, <2>2 DEF Distance
<1>3. CASE i # j
  <2>1. j - i + size \in 0 .. 2 * size - 1
    BY <1>1
  <2>2. (j - i + size) % size = Turn(j - i + size, size)
    BY <2>1, Wrap
  <2>3. Turn(j - i + size, size) = n - a
    BY <1>1, <1>3 DEF Turn
  <2>4. QED
    BY <1>3, <2>2, <2>3 DEF Distance
<1>4. QED
  BY <1>2, <1>3

LEMMA BackIs ==
  ASSUME NEW size \in Nat \ {0}, NEW h \in 0 .. size - 1,
         NEW a \in 0 .. size, NEW n \in 1 .. a
  PROVE  Back(Turn(h + a, size), n, size) = Turn(h + (a - n), size)
<1> DEFINE x == Turn(h + a, size) - n + size
<1>1. x \in 0 .. 2 * size - 1
  BY DEF Turn
<1>2. x % size = Turn(x, size)
  BY <1>1, Wrap
<1>3. Turn(x, size) = Turn(h + (a - n), size)
  BY DEF Turn
<1>4. QED
  BY <1>2, <1>3 DEF Back

LEMMA OnwardIs ==
  ASSUME NEW size \in Nat \ {0}, NEW h \in 0 .. size - 1,
         NEW a \in 0 .. size, NEW n \in 0 .. size, a + n < size
  PROVE  (Turn(h + a, size) + n) % size = Turn(h + (a + n), size)
<1> DEFINE x == Turn(h + a, size) + n
<1>1. x \in 0 .. 2 * size - 1
  BY DEF Turn
<1>2. x % size = Turn(x, size)
  BY <1>1, Wrap
<1>3. Turn(x, size) = Turn(h + (a + n), size)
  BY DEF Turn
<1>4. QED
  BY <1>2, <1>3

(* Every count below that of a place is the count of a member before it.    *)
LEMMA BeforeOnto ==
  ASSUME NEW S \in SUBSET Nat, NEW k \in Nat, NEW c \in 0 .. Before(S, k) - 1
  PROVE  \E j \in S : j < k /\ Before(S, j) = c
<1> DEFINE T == {j \in S : j < k}
           n == Before(S, k)
           F == [j \in T |-> Before(S, j)]
<1>1. IsFiniteSet(T) /\ n \in Nat /\ Cardinality(T) = n
  BY BeforeFinite DEF Before
<1>2. ASSUME NEW j \in T PROVE Before(S, j) \in 0 .. n - 1
  <2>1. j \in Nat /\ j \in S /\ j < k
    OBVIOUS
  <2>2. Before(S, j) \in Nat /\ Before(S, j) < n
    BY <2>1, BeforeFinite, BeforeStrict
  <2>3. QED
    BY <1>1, <2>2
<1>3. ASSUME NEW i \in T, NEW j \in T, i # j PROVE Before(S, i) # Before(S, j)
  <2>1. i \in Nat /\ j \in Nat /\ i \in S /\ j \in S
    OBVIOUS
  <2>2. Before(S, i) \in Nat /\ Before(S, j) \in Nat
    BY <2>1, BeforeFinite
  <2>3. CASE i < j
    BY <2>1, <2>2, <2>3, BeforeStrict
  <2>4. CASE j < i
    BY <2>1, <2>2, <2>4, BeforeStrict
  <2>5. QED
    BY <1>3, <2>1, <2>3, <2>4
<1>4. F \in Injection(T, 0 .. n - 1)
  <2>1. F \in [T -> 0 .. n - 1]
    BY <1>2
  <2>2. \A i, j \in T : F[i] = F[j] => i = j
    BY <1>3
  <2>3. QED
    BY <2>1, <2>2, Fun_IsInj
<1>5. IsFiniteSet(0 .. n - 1) /\ Cardinality(0 .. n - 1) = n
  <2>1. IsFiniteSet(0 .. n - 1)
    BY <1>1, FS_Interval
  <2>2. \A b \in Int : Cardinality(0 .. b) = IF 0 > b THEN 0 ELSE b - 0 + 1
    BY FS_Interval
  <2>3. n - 1 \in Int
    BY <1>1
  <2>4. Cardinality(0 .. n - 1) = IF 0 > n - 1 THEN 0 ELSE n - 1 - 0 + 1
    BY <2>2, <2>3
  <2>5. QED
    BY <1>1, <2>1, <2>4
<1>6. F \in Surjection(T, 0 .. n - 1)
  BY <1>1, <1>4, <1>5, FS_Injection
<1>7. PICK j \in T : F[j] = c
  BY <1>6 DEF Surjection
<1>8. QED
  BY <1>7

LEMMA BeforeInjective ==
  ASSUME NEW S \in SUBSET Nat, NEW i \in S, NEW j \in S, Before(S, i) = Before(S, j)
  PROVE  i = j
<1>1. i \in Nat /\ j \in Nat
  OBVIOUS
<1>2. Before(S, i) \in Nat /\ Before(S, j) \in Nat
  BY <1>1, BeforeFinite
<1>3. ~ (i < j) /\ ~ (j < i)
  BY <1>1, <1>2, BeforeStrict
<1>4. QED
  BY <1>1, <1>3

----------------------------------------------------------------------------
(* The inductive invariant.                                                 *)
Instr ==
  [op : Ops, lq : LQIndex, lqPhase : Phase, sq : SQIndex, sqPhase : Phase,
   resolved : BOOLEAN, exception : BOOLEAN, load_viol : BOOLEAN]

LoadsIn(w)  == {k \in 1 .. Len(w) : IsLoad(w[k].op)}
StoresIn(w) == {k \in 1 .. Len(w) : IsStore(w[k].op)}
LQMarks(w)  == [k \in 1 .. Len(w) |-> <<w[k].lq, w[k].lqPhase>>]
SQMarks(w)  == [k \in 1 .. Len(w) |-> <<w[k].sq, w[k].sqPhase>>]

(* An entry has its address before its value.                               *)
Typed(e) ==
  /\ DOMAIN e = DOMAIN NoEntry
  /\ e.size \in Sizes /\ e.addr \in Addr /\ e.value_avail \in BOOLEAN
  /\ e.value_avail => e.addr_avail

Holds(e) == e.value_avail => e.value \in [Cover(e.addr, e.size) -> Values]

LQTyped     == DOMAIN LQ = LQIndex /\ \A i \in LQIndex : Typed(LQ[i])
SQTyped     == DOMAIN SQ = SQIndex /\ \A i \in SQIndex : Typed(SQ[i]) /\ Holds(SQ[i])
WindowTyped == window \in Seq(Instr) /\ Len(window) <= Window

LQSide == Side(LQ, lqHead, lqHeadPhase, lqTail, lqTailPhase, lqLength, LQSize,
               LoadsIn(window), Len(window), LQMarks(window))
SQSide == Side(SQ, sqHead, sqHeadPhase, sqTail, sqTailPhase, sqLength, SQSize,
               StoresIn(window), Len(window), SQMarks(window))

MemoryTyped == mem \in [Addr -> Values] /\ load_reservation \in Addr \cup {None}

IInv == LQTyped /\ SQTyped /\ WindowTyped /\ LQSide /\ SQSide /\ MemoryTyped

----------------------------------------------------------------------------
(* The window.                                                              *)

(* Marking an instruction changes nothing that the queues depend on.        *)
Alike(v, w) ==
  /\ v \in Seq(Instr) /\ Len(v) = Len(w)
  /\ \A k \in 1 .. Len(w) :
       /\ v[k].op = w[k].op /\ v[k].lq = w[k].lq /\ v[k].lqPhase = w[k].lqPhase
       /\ v[k].sq = w[k].sq /\ v[k].sqPhase = w[k].sqPhase

LEMMA AlikeItself ==
  ASSUME NEW w \in Seq(Instr)
  PROVE  Alike(w, w)
BY DEF Alike

LEMMA AlikeMarked ==
  ASSUME NEW w \in Seq(Instr), NEW k,
         NEW flag \in {"resolved", "exception", "load_viol"}
  PROVE  Alike([w EXCEPT ![k][flag] = TRUE], w)
<1> DEFINE v == [w EXCEPT ![k][flag] = TRUE]
           e == [w[k] EXCEPT ![flag] = TRUE]
<1>1. DOMAIN w = 1 .. Len(w) /\ Len(w) \in Nat /\ \A j \in 1 .. Len(w) : w[j] \in Instr
  OBVIOUS
<1>2. DOMAIN v = 1 .. Len(w) /\ v = [j \in 1 .. Len(w) |-> IF j = k THEN e ELSE w[j]]
  BY <1>1
<1>3. ASSUME k \in 1 .. Len(w)
      PROVE  /\ e \in Instr /\ e.op = w[k].op /\ e.lq = w[k].lq /\ e.lqPhase = w[k].lqPhase
             /\ e.sq = w[k].sq /\ e.sqPhase = w[k].sqPhase
  BY <1>1, <1>3 DEF Instr
<1>4. \A j \in 1 .. Len(w) : v[j] = IF j = k THEN e ELSE w[j]
  BY <1>2
<1>5. v \in [1 .. Len(w) -> Instr]
  BY <1>1, <1>2, <1>3
<1>6. v \in Seq(Instr) /\ Len(v) = Len(w)
  BY <1>1, <1>5
<1>7. QED
  BY <1>3, <1>4, <1>6 DEF Alike

LEMMA AlikeSame ==
  ASSUME NEW v, NEW w, Alike(v, w)
  PROVE  /\ LoadsIn(v) = LoadsIn(w) /\ StoresIn(v) = StoresIn(w)
         /\ LQMarks(v) = LQMarks(w) /\ SQMarks(v) = SQMarks(w)
BY DEF Alike, LoadsIn, StoresIn, LQMarks, SQMarks

Appended(v, w, e) == v = Append(w, e)
Prefix(v, u, k)   == v = SubSeq(u, 1, k)

LEMMA Grown ==
  ASSUME NEW w \in Seq(Instr), NEW e \in Instr, NEW v, Appended(v, w, e)
  PROVE  /\ v \in Seq(Instr) /\ Len(v) = Len(w) + 1 /\ Len(w) \in Nat
         /\ IsLoad(e.op) => LoadsIn(v) = LoadsIn(w) \cup {Len(w) + 1}
         /\ ~ IsLoad(e.op) => LoadsIn(v) = LoadsIn(w)
         /\ IsStore(e.op) => StoresIn(v) = StoresIn(w) \cup {Len(w) + 1}
         /\ ~ IsStore(e.op) => StoresIn(v) = StoresIn(w)
         /\ Longer(LQMarks(v), LQMarks(w), Len(w), <<e.lq, e.lqPhase>>)
         /\ Longer(SQMarks(v), SQMarks(w), Len(w), <<e.sq, e.sqPhase>>)
<1>1. /\ v \in Seq(Instr) /\ Len(v) = Len(w) + 1 /\ Len(w) \in Nat /\ v[Len(w) + 1] = e
      /\ \A k \in 1 .. Len(w) : v[k] = w[k]
  BY DEF Appended
<1>2. \A k : k \in 1 .. Len(w) + 1 <=> k \in 1 .. Len(w) \/ k = Len(w) + 1
  BY <1>1
<1>3. Len(w) + 1 \in 1 .. Len(w) + 1 /\ \A k \in 1 .. Len(w) : k \in 1 .. Len(w) + 1
  BY <1>1
<1>4. /\ IsLoad(e.op) => LoadsIn(v) = LoadsIn(w) \cup {Len(w) + 1}
      /\ ~ IsLoad(e.op) => LoadsIn(v) = LoadsIn(w)
      /\ IsStore(e.op) => StoresIn(v) = StoresIn(w) \cup {Len(w) + 1}
      /\ ~ IsStore(e.op) => StoresIn(v) = StoresIn(w)
  BY <1>1, <1>2 DEF LoadsIn, StoresIn
<1>5. /\ Longer(LQMarks(v), LQMarks(w), Len(w), <<e.lq, e.lqPhase>>)
      /\ Longer(SQMarks(v), SQMarks(w), Len(w), <<e.sq, e.sqPhase>>)
  BY <1>1, <1>3 DEF LQMarks, SQMarks, Longer
<1>6. QED
  BY <1>1, <1>4, <1>5

LEMMA Shrunk ==
  ASSUME NEW w \in Seq(Instr), w # <<>>, NEW v, v = Tail(w), NEW N, N = Len(w)
  PROVE  /\ N \in Nat \ {0} /\ v \in Seq(Instr) /\ Len(v) = N - 1
         /\ Head(w) = w[1] /\ w[1] \in Instr
         /\ Behind(LoadsIn(v), LQMarks(v), LoadsIn(w), LQMarks(w), N)
         /\ Behind(StoresIn(v), SQMarks(v), StoresIn(w), SQMarks(w), N)
         /\ 1 \in LoadsIn(w) <=> IsLoad(Head(w).op)
         /\ 1 \in StoresIn(w) <=> IsStore(Head(w).op)
<1>1. /\ v \in Seq(Instr) /\ Len(v) = N - 1 /\ N \in Nat \ {0} /\ 1 \in 1 .. N
      /\ Head(w) = w[1] /\ w[1] \in Instr
      /\ \A k \in 1 .. N - 1 : v[k] = w[k + 1]
  OBVIOUS
<1>2. \A j \in Nat \ {0} : j \in 1 .. N - 1 <=> j + 1 \in 1 .. N
  BY <1>1
<1>3. /\ LoadsIn(v) \in SUBSET (1 .. N - 1) /\ StoresIn(v) \in SUBSET (1 .. N - 1)
      /\ \A j \in Nat \ {0} : j \in LoadsIn(v) <=> j + 1 \in LoadsIn(w)
      /\ \A j \in Nat \ {0} : j \in StoresIn(v) <=> j + 1 \in StoresIn(w)
      /\ 1 \in LoadsIn(w) <=> IsLoad(Head(w).op)
      /\ 1 \in StoresIn(w) <=> IsStore(Head(w).op)
  BY <1>1, <1>2 DEF LoadsIn, StoresIn
<1>4. ASSUME NEW k \in 1 .. N - 1
      PROVE  LQMarks(v)[k] = LQMarks(w)[k + 1] /\ SQMarks(v)[k] = SQMarks(w)[k + 1]
  <2>1. k \in Nat \ {0} /\ k + 1 \in 1 .. N
    BY <1>1
  <2>2. QED
    BY <1>1, <2>1 DEF LQMarks, SQMarks
<1>5. QED
  BY <1>1, <1>3, <1>4 DEF Behind

LEMMA Cut ==
  ASSUME NEW w \in Seq(Instr), NEW u, Alike(u, w), NEW k \in 1 .. Len(w),
         NEW v, Prefix(v, u, k)
  PROVE  /\ v \in Seq(Instr) /\ Len(v) = k
         /\ UpTo(k, LoadsIn(v), LQMarks(v), LoadsIn(w), LQMarks(w))
         /\ UpTo(k, StoresIn(v), SQMarks(v), StoresIn(w), SQMarks(w))
<1>1. u \in Seq(Instr) /\ Len(u) = Len(w) /\ Len(w) \in Nat
  BY DEF Alike
<1>2. v \in Seq(Instr) /\ Len(v) = k /\ \A j \in 1 .. k : v[j] = u[j]
  BY <1>1, SubSeqProperties DEF Prefix
<1>3. \A j \in 1 .. k : j \in 1 .. Len(w)
  BY <1>1
<1>4. \A j \in 1 .. k :
        /\ v[j].op = w[j].op /\ v[j].lq = w[j].lq /\ v[j].lqPhase = w[j].lqPhase
        /\ v[j].sq = w[j].sq /\ v[j].sqPhase = w[j].sqPhase
  BY <1>2, <1>3 DEF Alike
<1>5. QED
  BY <1>2, <1>3, <1>4 DEF UpTo, LoadsIn, StoresIn, LQMarks, SQMarks


----------------------------------------------------------------------------
(* What a step does to the load queue's side: it stays while instructions   *)
(* are marked, one that is no load passes it by or drops out, a load is     *)
(* pushed or popped, a branch cuts it and a squash empties it.              *)

LEMMA LQPointers ==
  ASSUME LQSide
  PROVE  /\ lqHead \in LQIndex /\ lqHeadPhase \in Phase
         /\ lqTail \in LQIndex /\ lqTailPhase \in Phase
         /\ lqLength \in 0 .. LQSize
<1>1. LQSize \in Nat \ {0}
  BY LSUAssumption
<1>2. /\ lqHead \in 0 .. LQSize - 1 /\ lqHeadPhase \in Phase
      /\ lqLength \in 0 .. LQSize
      /\ lqTail = Turn(lqHead + lqLength, LQSize)
      /\ lqTailPhase = Flip(lqHeadPhase, lqHead + lqLength, LQSize)
  BY DEF LQSide, Side
<1>3. QED
  BY <1>1, <1>2, TurnIn DEF LQIndex

LEMMA LQStays ==
  ASSUME LQSide, window \in Seq(Instr), Alike(window', window),
         \A i \in LQIndex : LQ'[i].valid = LQ[i].valid,
         UNCHANGED <<lqHead, lqHeadPhase, lqTail, lqTailPhase, lqLength>>
  PROVE  LQSide'
<1>1. LoadsIn(window') = LoadsIn(window) /\ LQMarks(window') = LQMarks(window)
  BY AlikeSame
<1>2. Len(window') = Len(window)
  BY DEF Alike
<1>3. Side(LQ', lqHead, lqHeadPhase, lqTail, lqTailPhase, lqLength, LQSize,
           LoadsIn(window), Len(window), LQMarks(window))
  BY SideKeep DEF LQSide, LQIndex
<1>4. QED
  BY <1>1, <1>2, <1>3 DEF LQSide

LEMMA LQPasses ==
  ASSUME LQSide, window \in Seq(Instr), NEW e \in Instr, Appended(window', window, e),
         ~ IsLoad(e.op), e.lq = lqTail, e.lqPhase = lqTailPhase,
         UNCHANGED lqVars
  PROVE  LQSide'
<1>1. /\ Len(window') = Len(window) + 1 /\ Len(window) \in Nat
      /\ LoadsIn(window') = LoadsIn(window)
      /\ Longer(LQMarks(window'), LQMarks(window), Len(window), <<lqTail, lqTailPhase>>)
  BY Grown
<1>2. LQSize \in Nat \ {0}
  BY LSUAssumption
<1>3. Side(LQ, lqHead, lqHeadPhase, lqTail, lqTailPhase, lqLength, LQSize,
           LoadsIn(window), Len(window) + 1, LQMarks(window'))
  BY <1>1, <1>2, SideExtend DEF LQSide
<1>4. QED
  BY <1>1, <1>3 DEF LQSide, lqVars

LEMMA LQPushes ==
  ASSUME LQSide, window \in Seq(Instr), NEW e \in Instr, Appended(window', window, e),
         IsLoad(e.op), e.lq = lqTail, e.lqPhase = lqTailPhase, lqLength < LQSize,
         LQ'[lqTail].valid,
         \A i \in LQIndex : i # lqTail => LQ'[i].valid = LQ[i].valid,
         lqTail' = Inc(lqTail, LQSize), lqTailPhase' = Toggle(lqTail, lqTailPhase, LQSize),
         lqLength' = lqLength + 1, UNCHANGED <<lqHead, lqHeadPhase>>
  PROVE  LQSide'
<1>1. /\ Len(window') = Len(window) + 1 /\ Len(window) \in Nat
      /\ LoadsIn(window') = LoadsIn(window) \cup {Len(window) + 1}
      /\ Longer(LQMarks(window'), LQMarks(window), Len(window), <<lqTail, lqTailPhase>>)
  BY Grown
<1>2. LQSize \in Nat \ {0}
  BY LSUAssumption
<1>3. Side(LQ', lqHead, lqHeadPhase, Inc(lqTail, LQSize),
           Toggle(lqTail, lqTailPhase, LQSize), lqLength + 1, LQSize,
           LoadsIn(window) \cup {Len(window) + 1}, Len(window) + 1, LQMarks(window'))
  BY <1>1, <1>2, SidePush DEF LQSide, LQIndex
<1>4. QED
  BY <1>1, <1>3 DEF LQSide

LEMMA LQDrops ==
  ASSUME LQSide, window \in Seq(Instr), window # <<>>, window' = Tail(window),
         ~ IsLoad(Head(window).op), UNCHANGED lqVars
  PROVE  LQSide'
<1>1. /\ Len(window) \in Nat \ {0} /\ Len(window') = Len(window) - 1
      /\ Behind(LoadsIn(window'), LQMarks(window'), LoadsIn(window), LQMarks(window),
                Len(window))
      /\ 1 \notin LoadsIn(window)
  BY Shrunk
<1>2. LQSize \in Nat \ {0}
  BY LSUAssumption
<1>3. Side(LQ, lqHead, lqHeadPhase, lqTail, lqTailPhase, lqLength, LQSize,
           LoadsIn(window'), Len(window) - 1, LQMarks(window'))
  BY <1>1, <1>2, SideDrop DEF LQSide
<1>4. QED
  BY <1>1, <1>3 DEF LQSide, lqVars

LEMMA LQPops ==
  ASSUME LQSide, LQTyped, window \in Seq(Instr), window # <<>>, window' = Tail(window),
         IsLoad(Head(window).op), LQ' = [LQ EXCEPT ![lqHead].valid = FALSE],
         lqHead' = Inc(lqHead, LQSize), lqHeadPhase' = Toggle(lqHead, lqHeadPhase, LQSize),
         lqLength' = lqLength - 1, UNCHANGED <<lqTail, lqTailPhase>>
  PROVE  LQSide'
<1>1. /\ Len(window) \in Nat \ {0} /\ Len(window') = Len(window) - 1
      /\ Behind(LoadsIn(window'), LQMarks(window'), LoadsIn(window), LQMarks(window),
                Len(window))
      /\ 1 \in LoadsIn(window)
  BY Shrunk
<1>2. LQSize \in Nat \ {0}
  BY LSUAssumption
<1>3. Released(LQ', LQ, lqHead, LQSize)
  BY DEF Released, LQTyped, Typed, NoEntry, LQIndex
<1>s. Side(LQ, lqHead, lqHeadPhase, lqTail, lqTailPhase, lqLength, LQSize,
           LoadsIn(window), Len(window), LQMarks(window))
  BY DEF LQSide
<1>4. Side(LQ', Inc(lqHead, LQSize), Toggle(lqHead, lqHeadPhase, LQSize),
           lqTail, lqTailPhase, lqLength - 1, LQSize,
           LoadsIn(window'), Len(window) - 1, LQMarks(window'))
  BY <1>1, <1>2, <1>3, <1>s, SidePop
<1>5. QED
  BY <1>1, <1>4 DEF LQSide

LEMMA LQCuts ==
  ASSUME LQSide, LQTyped, window \in Seq(Instr), NEW k \in 1 .. Len(window),
         ~ IsLoad(window[k].op),
         window' = SubSeq([window EXCEPT ![k].resolved = TRUE], 1, k),
         lqTail' = window[k].lq, lqTailPhase' = window[k].lqPhase,
         lqLength' = Length(lqHead, lqHeadPhase, lqTail', lqTailPhase', LQSize),
         LQ' = Revalidate(LQ, lqHead, lqLength', LQSize),
         UNCHANGED <<lqHead, lqHeadPhase>>
  PROVE  LQSide'
<1> DEFINE u == [window EXCEPT ![k].resolved = TRUE]
<1>1. Alike(u, window)
  BY AlikeMarked
<1>u. Prefix(window', u, k)
  BY DEF Prefix
<1> HIDE DEF u
<1>2. /\ Len(window') = k
      /\ UpTo(k, LoadsIn(window'), LQMarks(window'), LoadsIn(window), LQMarks(window))
  BY <1>1, <1>u, Cut
<1>3. LQSize \in Nat \ {0} /\ Len(window) \in Nat
  BY LSUAssumption
<1>4. /\ k \notin LoadsIn(window)
      /\ Restored(lqTail', lqTailPhase', lqLength', lqHead, lqHeadPhase,
                  LQMarks(window)[k], LQSize)
  BY DEF LoadsIn, LQMarks, Restored
<1>5. Walked(LQ', lqHead, lqLength', LQSize)
  BY DEF Walked, LQTyped, Typed, NoEntry, LQIndex, Revalidate
<1>s. Side(LQ, lqHead, lqHeadPhase, lqTail, lqTailPhase, lqLength, LQSize,
           LoadsIn(window), Len(window), LQMarks(window))
  BY DEF LQSide
<1>6. Side(LQ', lqHead, lqHeadPhase, lqTail', lqTailPhase', lqLength', LQSize,
           LoadsIn(window'), k, LQMarks(window'))
  BY <1>2, <1>3, <1>4, <1>5, <1>s, SideCut
<1>7. QED
  BY <1>2, <1>6 DEF LQSide

LEMMA LQEmpties ==
  ASSUME LQTyped, LQ' = Invalid(LQ), window' = <<>>,
         lqHead' = 0, lqHeadPhase' = 0, lqTail' = 0, lqTailPhase' = 0, lqLength' = 0
  PROVE  LQSide'
<1>1. Len(window') = 0 /\ LoadsIn(window') = {}
  BY DEF LoadsIn
<1>2. LQSize \in Nat \ {0}
  BY LSUAssumption
<1>3. \A i \in 0 .. LQSize - 1 : ~ LQ'[i].valid
  BY DEF LQTyped, Typed, NoEntry, LQIndex, Invalid
<1>4. Side(LQ', 0, 0, 0, 0, 0, LQSize, {}, 0, LQMarks(window'))
  BY <1>2, <1>3, SideEmpty
<1>5. QED
  BY <1>1, <1>4 DEF LQSide

----------------------------------------------------------------------------
(* The same for the store queue.                                            *)

LEMMA SQPointers ==
  ASSUME SQSide
  PROVE  /\ sqHead \in SQIndex /\ sqHeadPhase \in Phase
         /\ sqTail \in SQIndex /\ sqTailPhase \in Phase
         /\ sqLength \in 0 .. SQSize
<1>1. SQSize \in Nat \ {0}
  BY LSUAssumption
<1>2. /\ sqHead \in 0 .. SQSize - 1 /\ sqHeadPhase \in Phase
      /\ sqLength \in 0 .. SQSize
      /\ sqTail = Turn(sqHead + sqLength, SQSize)
      /\ sqTailPhase = Flip(sqHeadPhase, sqHead + sqLength, SQSize)
  BY DEF SQSide, Side
<1>3. QED
  BY <1>1, <1>2, TurnIn DEF SQIndex

LEMMA SQStays ==
  ASSUME SQSide, window \in Seq(Instr), Alike(window', window),
         \A i \in SQIndex : SQ'[i].valid = SQ[i].valid,
         UNCHANGED <<sqHead, sqHeadPhase, sqTail, sqTailPhase, sqLength>>
  PROVE  SQSide'
<1>1. StoresIn(window') = StoresIn(window) /\ SQMarks(window') = SQMarks(window)
  BY AlikeSame
<1>2. Len(window') = Len(window)
  BY DEF Alike
<1>3. Side(SQ', sqHead, sqHeadPhase, sqTail, sqTailPhase, sqLength, SQSize,
           StoresIn(window), Len(window), SQMarks(window))
  BY SideKeep DEF SQSide, SQIndex
<1>4. QED
  BY <1>1, <1>2, <1>3 DEF SQSide

LEMMA SQPasses ==
  ASSUME SQSide, window \in Seq(Instr), NEW e \in Instr, Appended(window', window, e),
         ~ IsStore(e.op), e.sq = sqTail, e.sqPhase = sqTailPhase,
         UNCHANGED sqVars
  PROVE  SQSide'
<1>1. /\ Len(window') = Len(window) + 1 /\ Len(window) \in Nat
      /\ StoresIn(window') = StoresIn(window)
      /\ Longer(SQMarks(window'), SQMarks(window), Len(window), <<sqTail, sqTailPhase>>)
  BY Grown
<1>2. SQSize \in Nat \ {0}
  BY LSUAssumption
<1>3. Side(SQ, sqHead, sqHeadPhase, sqTail, sqTailPhase, sqLength, SQSize,
           StoresIn(window), Len(window) + 1, SQMarks(window'))
  BY <1>1, <1>2, SideExtend DEF SQSide
<1>4. QED
  BY <1>1, <1>3 DEF SQSide, sqVars

LEMMA SQPushes ==
  ASSUME SQSide, window \in Seq(Instr), NEW e \in Instr, Appended(window', window, e),
         IsStore(e.op), e.sq = sqTail, e.sqPhase = sqTailPhase, sqLength < SQSize,
         SQ'[sqTail].valid,
         \A i \in SQIndex : i # sqTail => SQ'[i].valid = SQ[i].valid,
         sqTail' = Inc(sqTail, SQSize), sqTailPhase' = Toggle(sqTail, sqTailPhase, SQSize),
         sqLength' = sqLength + 1, UNCHANGED <<sqHead, sqHeadPhase>>
  PROVE  SQSide'
<1>1. /\ Len(window') = Len(window) + 1 /\ Len(window) \in Nat
      /\ StoresIn(window') = StoresIn(window) \cup {Len(window) + 1}
      /\ Longer(SQMarks(window'), SQMarks(window), Len(window), <<sqTail, sqTailPhase>>)
  BY Grown
<1>2. SQSize \in Nat \ {0}
  BY LSUAssumption
<1>3. Side(SQ', sqHead, sqHeadPhase, Inc(sqTail, SQSize),
           Toggle(sqTail, sqTailPhase, SQSize), sqLength + 1, SQSize,
           StoresIn(window) \cup {Len(window) + 1}, Len(window) + 1, SQMarks(window'))
  BY <1>1, <1>2, SidePush DEF SQSide, SQIndex
<1>4. QED
  BY <1>1, <1>3 DEF SQSide

LEMMA SQDrops ==
  ASSUME SQSide, window \in Seq(Instr), window # <<>>, window' = Tail(window),
         ~ IsStore(Head(window).op), UNCHANGED sqVars
  PROVE  SQSide'
<1>1. /\ Len(window) \in Nat \ {0} /\ Len(window') = Len(window) - 1
      /\ Behind(StoresIn(window'), SQMarks(window'), StoresIn(window), SQMarks(window),
                Len(window))
      /\ 1 \notin StoresIn(window)
  BY Shrunk
<1>2. SQSize \in Nat \ {0}
  BY LSUAssumption
<1>3. Side(SQ, sqHead, sqHeadPhase, sqTail, sqTailPhase, sqLength, SQSize,
           StoresIn(window'), Len(window) - 1, SQMarks(window'))
  BY <1>1, <1>2, SideDrop DEF SQSide
<1>4. QED
  BY <1>1, <1>3 DEF SQSide, sqVars

LEMMA SQPops ==
  ASSUME SQSide, SQTyped, window \in Seq(Instr), window # <<>>, window' = Tail(window),
         IsStore(Head(window).op), SQ' = [SQ EXCEPT ![sqHead].valid = FALSE],
         sqHead' = Inc(sqHead, SQSize), sqHeadPhase' = Toggle(sqHead, sqHeadPhase, SQSize),
         sqLength' = sqLength - 1, UNCHANGED <<sqTail, sqTailPhase>>
  PROVE  SQSide'
<1>1. /\ Len(window) \in Nat \ {0} /\ Len(window') = Len(window) - 1
      /\ Behind(StoresIn(window'), SQMarks(window'), StoresIn(window), SQMarks(window),
                Len(window))
      /\ 1 \in StoresIn(window)
  BY Shrunk
<1>2. SQSize \in Nat \ {0}
  BY LSUAssumption
<1>3. Released(SQ', SQ, sqHead, SQSize)
  BY DEF Released, SQTyped, Typed, NoEntry, SQIndex
<1>s. Side(SQ, sqHead, sqHeadPhase, sqTail, sqTailPhase, sqLength, SQSize,
           StoresIn(window), Len(window), SQMarks(window))
  BY DEF SQSide
<1>4. Side(SQ', Inc(sqHead, SQSize), Toggle(sqHead, sqHeadPhase, SQSize),
           sqTail, sqTailPhase, sqLength - 1, SQSize,
           StoresIn(window'), Len(window) - 1, SQMarks(window'))
  BY <1>1, <1>2, <1>3, <1>s, SidePop
<1>5. QED
  BY <1>1, <1>4 DEF SQSide

LEMMA SQCuts ==
  ASSUME SQSide, SQTyped, window \in Seq(Instr), NEW k \in 1 .. Len(window),
         ~ IsStore(window[k].op),
         window' = SubSeq([window EXCEPT ![k].resolved = TRUE], 1, k),
         sqTail' = window[k].sq, sqTailPhase' = window[k].sqPhase,
         sqLength' = Length(sqHead, sqHeadPhase, sqTail', sqTailPhase', SQSize),
         SQ' = Revalidate(SQ, sqHead, sqLength', SQSize),
         UNCHANGED <<sqHead, sqHeadPhase>>
  PROVE  SQSide'
<1> DEFINE u == [window EXCEPT ![k].resolved = TRUE]
<1>1. Alike(u, window)
  BY AlikeMarked
<1>u. Prefix(window', u, k)
  BY DEF Prefix
<1> HIDE DEF u
<1>2. /\ Len(window') = k
      /\ UpTo(k, StoresIn(window'), SQMarks(window'), StoresIn(window), SQMarks(window))
  BY <1>1, <1>u, Cut
<1>3. SQSize \in Nat \ {0} /\ Len(window) \in Nat
  BY LSUAssumption
<1>4. /\ k \notin StoresIn(window)
      /\ Restored(sqTail', sqTailPhase', sqLength', sqHead, sqHeadPhase,
                  SQMarks(window)[k], SQSize)
  BY DEF StoresIn, SQMarks, Restored
<1>5. Walked(SQ', sqHead, sqLength', SQSize)
  BY DEF Walked, SQTyped, Typed, NoEntry, SQIndex, Revalidate
<1>s. Side(SQ, sqHead, sqHeadPhase, sqTail, sqTailPhase, sqLength, SQSize,
           StoresIn(window), Len(window), SQMarks(window))
  BY DEF SQSide
<1>6. Side(SQ', sqHead, sqHeadPhase, sqTail', sqTailPhase', sqLength', SQSize,
           StoresIn(window'), k, SQMarks(window'))
  BY <1>2, <1>3, <1>4, <1>5, <1>s, SideCut
<1>7. QED
  BY <1>2, <1>6 DEF SQSide

LEMMA SQEmpties ==
  ASSUME SQTyped, SQ' = Invalid(SQ), window' = <<>>,
         sqHead' = 0, sqHeadPhase' = 0, sqTail' = 0, sqTailPhase' = 0, sqLength' = 0
  PROVE  SQSide'
<1>1. Len(window') = 0 /\ StoresIn(window') = {}
  BY DEF StoresIn
<1>2. SQSize \in Nat \ {0}
  BY LSUAssumption
<1>3. \A i \in 0 .. SQSize - 1 : ~ SQ'[i].valid
  BY DEF SQTyped, Typed, NoEntry, SQIndex, Invalid
<1>4. Side(SQ', 0, 0, 0, 0, 0, SQSize, {}, 0, SQMarks(window'))
  BY <1>2, <1>3, SideEmpty
<1>5. QED
  BY <1>1, <1>4 DEF SQSide

----------------------------------------------------------------------------
(* Entries.                                                                 *)
LEMMA NewTyped ==
  ASSUME NEW op, NEW size \in Sizes
  PROVE  /\ Typed(NewEntry(op, size)) /\ NewEntry(op, size).valid = TRUE
         /\ NewEntry(op, size).value_avail = FALSE
         /\ NewEntry(op, size).size = size /\ NewEntry(op, size).amo = IsAmo(op)
<1>1. (CHOOSE s \in Sizes : TRUE) \in Sizes /\ 0 \in Addr
  BY LSUAssumption DEF Addr
<1>2. QED
  BY <1>1 DEF NewEntry, NoEntry, Typed

(* No field but these matters to Typed, Holds and the valid bit.            *)
LEMMA ValidTyped ==
  ASSUME NEW e, Typed(e), NEW b
  PROVE  Typed([e EXCEPT !.valid = b]) /\ (Holds(e) => Holds([e EXCEPT !.valid = b]))
BY DEF NoEntry, Typed, Holds

Revalued(R, Q, B) == R = [i \in DOMAIN Q |-> [Q[i] EXCEPT !.valid = B[i]]]

LEMMA ValidChanges ==
  ASSUME NEW Q, NEW I, NEW R, NEW B, DOMAIN Q = I, Revalued(R, Q, B)
  PROVE  /\ DOMAIN R = I
         /\ (\A i \in I : Typed(Q[i])) => \A i \in I : Typed(R[i])
         /\ (\A i \in I : Typed(Q[i]) /\ Holds(Q[i])) => \A i \in I : Holds(R[i])
BY ValidTyped DEF Revalued

LEMMA LQWritten ==
  ASSUME LQTyped, NEW i \in LQIndex, NEW e, Typed(e), e.valid = LQ[i].valid,
         LQ' = [LQ EXCEPT ![i] = e]
  PROVE  LQTyped' /\ \A j \in LQIndex : LQ'[j].valid = LQ[j].valid
BY DEF LQTyped

LEMMA SQWritten ==
  ASSUME SQTyped, NEW i \in SQIndex, NEW e, Typed(e), Holds(e), e.valid = SQ[i].valid,
         SQ' = [SQ EXCEPT ![i] = e]
  PROVE  SQTyped' /\ \A j \in SQIndex : SQ'[j].valid = SQ[j].valid
BY DEF SQTyped

(* The instruction that is dispatched.                                      *)
LEMMA InFlightTyped ==
  ASSUME IInv, NEW op \in Ops, NEW trap \in BOOLEAN
  PROVE  LET e == [InFlight(op) EXCEPT !.exception = trap] IN
         /\ InFlight(op) \in Instr /\ e \in Instr
         /\ e.op = op /\ e.lq = lqTail /\ e.lqPhase = lqTailPhase
         /\ e.sq = sqTail /\ e.sqPhase = sqTailPhase
         /\ InFlight(op).op = op /\ InFlight(op).lq = lqTail
         /\ InFlight(op).lqPhase = lqTailPhase
         /\ InFlight(op).sq = sqTail /\ InFlight(op).sqPhase = sqTailPhase
<1>1. lqTail \in LQIndex /\ lqTailPhase \in Phase /\ sqTail \in SQIndex /\ sqTailPhase \in Phase
  BY LQPointers, SQPointers DEF IInv
<1>2. QED
  BY <1>1 DEF InFlight, Instr

(* The oldest instruction is at the heads of the queues.                    *)
LEMMA OldestAtHead ==
  ASSUME LQSide, SQSide, window \in Seq(Instr), window # <<>>
  PROVE  Head(window).lq = lqHead /\ Head(window).sq = sqHead
<1>1. /\ 1 \in 1 .. Len(window) /\ Head(window) = window[1]
      /\ Len(window) \in Nat
  OBVIOUS
<1>2. LoadsIn(window) \in SUBSET (Nat \ {0}) /\ StoresIn(window) \in SUBSET (Nat \ {0})
  BY <1>1 DEF LoadsIn, StoresIn
<1>3. Before(LoadsIn(window), 1) = 0 /\ Before(StoresIn(window), 1) = 0
  BY <1>2, BeforeOne
<1>4. /\ LQMarks(window)[1] = <<window[1].lq, window[1].lqPhase>>
      /\ SQMarks(window)[1] = <<window[1].sq, window[1].sqPhase>>
  BY <1>1 DEF LQMarks, SQMarks
<1>5. /\ LQMarks(window)[1] = <<Turn(lqHead + 0, LQSize), Flip(lqHeadPhase, lqHead + 0, LQSize)>>
      /\ lqHead \in 0 .. LQSize - 1
  BY <1>1, <1>3 DEF LQSide, Side
<1>6. /\ SQMarks(window)[1] = <<Turn(sqHead + 0, SQSize), Flip(sqHeadPhase, sqHead + 0, SQSize)>>
      /\ sqHead \in 0 .. SQSize - 1
  BY <1>1, <1>3 DEF SQSide, Side
<1>7. Turn(lqHead + 0, LQSize) = lqHead /\ Turn(sqHead + 0, SQSize) = sqHead
  BY <1>5, <1>6, LSUAssumption DEF Turn
<1>8. QED
  BY <1>1, <1>4, <1>5, <1>6, <1>7

----------------------------------------------------------------------------
(* The steps.                                                               *)

(* A step that only marks instructions and writes entries in place.         *)
LEMMA InPlace ==
  ASSUME IInv, Alike(window', window), LQTyped', SQTyped', MemoryTyped',
         \A i \in LQIndex : LQ'[i].valid = LQ[i].valid,
         \A i \in SQIndex : SQ'[i].valid = SQ[i].valid,
         UNCHANGED <<lqHead, lqHeadPhase, lqTail, lqTailPhase, lqLength>>,
         UNCHANGED <<sqHead, sqHeadPhase, sqTail, sqTailPhase, sqLength>>
  PROVE  IInv'
<1>1. window \in Seq(Instr) /\ LQSide /\ SQSide /\ Len(window) <= Window
  BY DEF IInv, WindowTyped
<1>2. LQSide'
  BY <1>1, LQStays
<1>3. SQSide'
  BY <1>1, SQStays
<1>4. WindowTyped'
  BY <1>1 DEF WindowTyped, Alike
<1>5. QED
  BY <1>2, <1>3, <1>4 DEF IInv

LEMMA InitInvariant ==
  ASSUME Init
  PROVE  IInv
<1>1. /\ Typed(NoEntry) /\ Holds(NoEntry) /\ NoEntry.valid = FALSE
  <2>1. (CHOOSE s \in Sizes : TRUE) \in Sizes /\ 0 \in Addr
    BY LSUAssumption DEF Addr
  <2>2. QED
    BY <2>1 DEF NoEntry, Typed, Holds
<1>2. LQTyped /\ SQTyped
  BY <1>1 DEF Init, LQTyped, SQTyped
<1>3. WindowTyped /\ Len(window) = 0
  BY LSUAssumption DEF Init, WindowTyped
<1>4. LoadsIn(window) = {} /\ StoresIn(window) = {}
  BY <1>3 DEF LoadsIn, StoresIn
<1>5. LQSide
  <2>1. \A i \in 0 .. LQSize - 1 : ~ LQ[i].valid
    BY <1>1 DEF Init, LQIndex
  <2>2. Side(LQ, 0, 0, 0, 0, 0, LQSize, {}, 0, LQMarks(window))
    BY <2>1, SideEmpty, LSUAssumption
  <2>3. QED
    BY <1>3, <1>4, <2>2 DEF Init, LQSide
<1>6. SQSide
  <2>1. \A i \in 0 .. SQSize - 1 : ~ SQ[i].valid
    BY <1>1 DEF Init, SQIndex
  <2>2. Side(SQ, 0, 0, 0, 0, 0, SQSize, {}, 0, SQMarks(window))
    BY <2>1, SideEmpty, LSUAssumption
  <2>3. QED
    BY <1>3, <1>4, <2>2 DEF Init, SQSide
<1>7. MemoryTyped
  BY DEF Init, MemoryTyped
<1>8. QED
  BY <1>2, <1>3, <1>5, <1>6, <1>7 DEF IInv

LEMMA DispatchLoadKeeps ==
  ASSUME IInv, NEW op \in Ops, NEW size \in Sizes, NEW stall, IsLoad(op),
         DispatchLoad(op, size, stall)
  PROVE  IInv'
<1> DEFINE e == InFlight(op)
           q == [NewEntry(op, size) EXCEPT !.mdp_stall = stall,
                   !.sq_index = sqTail, !.sq_index_phase = sqTailPhase]
<1>1. /\ e \in Instr /\ e.op = op /\ e.lq = lqTail /\ e.lqPhase = lqTailPhase
      /\ e.sq = sqTail /\ e.sqPhase = sqTailPhase
  BY InFlightTyped
<1>2. Typed(q) /\ q.valid = TRUE
  BY NewTyped DEF Typed, NewEntry, NoEntry
<1>3. /\ LQ' = [LQ EXCEPT ![lqTail] = q] /\ window' = Append(window, e)
      /\ lqTail' = Inc(lqTail, LQSize) /\ lqTailPhase' = Toggle(lqTail, lqTailPhase, LQSize)
      /\ lqLength' = lqLength + 1 /\ UNCHANGED <<lqHead, lqHeadPhase, sqVars, load_reservation, mem>>
      /\ Len(window) < Window /\ ~ (lqLength + 1 > LQSize)
  BY DEF DispatchLoad, MayEnter, Stall
<1>4. /\ window \in Seq(Instr) /\ LQSide /\ SQSide /\ LQTyped /\ SQTyped /\ MemoryTyped
      /\ lqTail \in LQIndex /\ lqLength \in 0 .. LQSize
  BY LQPointers DEF IInv, WindowTyped
<1> HIDE DEF e, q
<1>5. Appended(window', window, e) /\ ~ IsStore(op)
  BY <1>3 DEF Appended, IsLoad, IsStore
<1>6. LQTyped'
  BY <1>2, <1>3, <1>4 DEF LQTyped
<1>7. LQ'[lqTail].valid /\ \A i \in LQIndex : i # lqTail => LQ'[i].valid = LQ[i].valid
  BY <1>2, <1>3, <1>4 DEF LQTyped
<1>8. lqLength < LQSize
  BY <1>3, <1>4, LSUAssumption
<1>9. LQSide'
  BY <1>1, <1>3, <1>4, <1>5, <1>7, <1>8, LQPushes
<1>10. SQSide'
  BY <1>1, <1>3, <1>4, <1>5, SQPasses
<1>11. WindowTyped'
  BY <1>1, <1>3, <1>4, LSUAssumption DEF WindowTyped
<1>12. SQTyped' /\ MemoryTyped'
  BY <1>3, <1>4 DEF SQTyped, MemoryTyped, sqVars
<1>13. QED
  BY <1>6, <1>9, <1>10, <1>11, <1>12 DEF IInv

LEMMA DispatchStoreKeeps ==
  ASSUME IInv, NEW op \in Ops, NEW size \in Sizes, IsStore(op), DispatchStore(op, size)
  PROVE  IInv'
<1>0. PICK trap \in BOOLEAN : \E q, e :
        /\ e \in {InFlight(op), [InFlight(op) EXCEPT !.exception = trap]}
        /\ Typed(q) /\ Holds(q) /\ q.valid = TRUE
        /\ SQ' = [SQ EXCEPT ![sqTail] = q] /\ window' = Append(window, e)
  <2>1. CASE /\ SQ' = [SQ EXCEPT ![sqTail] = NewEntry(op, size)]
             /\ window' = Append(window, InFlight(op))
    <3>1. Typed(NewEntry(op, size)) /\ Holds(NewEntry(op, size)) /\ NewEntry(op, size).valid = TRUE
      BY NewTyped DEF Holds
    <3>2. QED
      BY <2>1, <3>1
  <2>2. ASSUME NEW a \in Addr, NEW trap \in BOOLEAN,
               SQ' = [SQ EXCEPT ![sqTail] = [NewEntry(op, size) EXCEPT
                        !.addr_avail = TRUE, !.addr = a]],
               window' = Append(window, [InFlight(op) EXCEPT !.exception = trap])
        PROVE  \E tr \in BOOLEAN : \E q, e :
                 /\ e \in {InFlight(op), [InFlight(op) EXCEPT !.exception = tr]}
                 /\ Typed(q) /\ Holds(q) /\ q.valid = TRUE
                 /\ SQ' = [SQ EXCEPT ![sqTail] = q] /\ window' = Append(window, e)
    <3> DEFINE n == NewEntry(op, size)
               q == [n EXCEPT !.addr_avail = TRUE, !.addr = a]
    <3>1. Typed(n) /\ n.valid = TRUE /\ n.value_avail = FALSE
          /\ n.size = size /\ a \in Addr
      BY NewTyped
    <3> HIDE DEF n
    <3>2. Typed(q) /\ Holds(q) /\ q.valid = TRUE
      BY <3>1 DEF Typed, Holds, NoEntry
    <3> HIDE DEF q
    <3>3. SQ' = [SQ EXCEPT ![sqTail] = q]
      BY <2>2 DEF q, n
    <3>4. QED
      BY <2>2, <3>2, <3>3
  <2>3. QED
    BY <2>1, <2>2 DEF DispatchStore
<1>1. PICK q, e :
        /\ e \in {InFlight(op), [InFlight(op) EXCEPT !.exception = trap]}
        /\ Typed(q) /\ Holds(q) /\ q.valid = TRUE
        /\ SQ' = [SQ EXCEPT ![sqTail] = q] /\ window' = Append(window, e)
  BY <1>0
<1>2. /\ e \in Instr /\ e.op = op /\ e.lq = lqTail /\ e.lqPhase = lqTailPhase
      /\ e.sq = sqTail /\ e.sqPhase = sqTailPhase
  <2>1. CASE e = InFlight(op)
    BY <2>1, InFlightTyped
  <2>2. CASE e = [InFlight(op) EXCEPT !.exception = trap]
    BY <2>2, InFlightTyped
  <2>3. QED
    BY <1>1, <2>1, <2>2
<1>3. /\ sqTail' = Inc(sqTail, SQSize) /\ sqTailPhase' = Toggle(sqTail, sqTailPhase, SQSize)
      /\ sqLength' = sqLength + 1 /\ UNCHANGED <<lqVars, sqHead, sqHeadPhase, load_reservation, mem>>
      /\ Len(window) < Window /\ ~ (sqLength + 1 > SQSize)
  BY DEF DispatchStore, MayEnter, Stall
<1>4. /\ window \in Seq(Instr) /\ LQSide /\ SQSide /\ LQTyped /\ SQTyped /\ MemoryTyped
      /\ sqTail \in SQIndex /\ sqLength \in 0 .. SQSize
  BY SQPointers DEF IInv, WindowTyped
<1>5. Appended(window', window, e) /\ ~ IsLoad(op)
  BY <1>1 DEF Appended, IsLoad, IsStore
<1>6. SQTyped'
  BY <1>1, <1>4 DEF SQTyped
<1>7. SQ'[sqTail].valid /\ \A i \in SQIndex : i # sqTail => SQ'[i].valid = SQ[i].valid
  BY <1>1, <1>4 DEF SQTyped
<1>8. sqLength < SQSize
  BY <1>3, <1>4, LSUAssumption
<1>9. SQSide'
  BY <1>2, <1>3, <1>4, <1>5, <1>7, <1>8, SQPushes
<1>10. LQSide'
  BY <1>2, <1>3, <1>4, <1>5, LQPasses
<1>11. WindowTyped'
  BY <1>1, <1>2, <1>3, <1>4, LSUAssumption DEF WindowTyped
<1>12. LQTyped' /\ MemoryTyped'
  BY <1>3, <1>4 DEF LQTyped, MemoryTyped, lqVars
<1>13. QED
  BY <1>6, <1>9, <1>10, <1>11, <1>12 DEF IInv

LEMMA DispatchBranchKeeps ==
  ASSUME IInv, "branch" \in Ops, DispatchBranch
  PROVE  IInv'
<1> DEFINE e == InFlight("branch")
<1>1. /\ e \in Instr /\ e.op = "branch" /\ e.lq = lqTail /\ e.lqPhase = lqTailPhase
      /\ e.sq = sqTail /\ e.sqPhase = sqTailPhase
  BY InFlightTyped
<1>2. window' = Append(window, e) /\ UNCHANGED <<lqVars, sqVars, load_reservation, mem>> /\ Len(window) < Window
  BY DEF DispatchBranch, MayEnter
<1>3. /\ window \in Seq(Instr) /\ LQSide /\ SQSide /\ LQTyped /\ SQTyped /\ MemoryTyped
  BY DEF IInv, WindowTyped
<1> HIDE DEF e
<1>4. Appended(window', window, e) /\ ~ IsLoad("branch") /\ ~ IsStore("branch")
  BY <1>2 DEF Appended, IsLoad, IsStore
<1>5. LQSide' /\ SQSide'
  BY <1>1, <1>2, <1>3, <1>4, LQPasses, SQPasses
<1>6. WindowTyped'
  BY <1>1, <1>2, <1>3, LSUAssumption DEF WindowTyped
<1>7. LQTyped' /\ SQTyped' /\ MemoryTyped'
  BY <1>2, <1>3 DEF LQTyped, SQTyped, MemoryTyped, lqVars, sqVars
<1>8. QED
  BY <1>5, <1>6, <1>7 DEF IInv

LEMMA PositionTyped ==
  ASSUME IInv, NEW k \in DOMAIN window
  PROVE  /\ window[k] \in Instr /\ window[k].lq \in LQIndex /\ window[k].sq \in SQIndex
         /\ Typed(LQ[window[k].lq]) /\ Typed(SQ[window[k].sq])
<1>1. window \in Seq(Instr)
  BY DEF IInv, WindowTyped
<1>2. window[k] \in Instr
  BY <1>1
<1>3. window[k].lq \in LQIndex /\ window[k].sq \in SQIndex
  BY <1>2 DEF Instr
<1>4. QED
  BY <1>2, <1>3 DEF IInv, LQTyped, SQTyped

LEMMA ExecuteLoadKeeps ==
  ASSUME IInv, NEW k \in DOMAIN window, NEW l, Typed(l), l.addr_avail,
         l.valid = LQ[window[k].lq].valid, ExecuteLoad(k, l),
         UNCHANGED <<lqHead, lqHeadPhase, lqTail, lqTailPhase, lqLength, sqVars, mem>>
  PROVE  IInv'
<1> DEFINE i == window[k].lq
<1>1. /\ window \in Seq(Instr) /\ LQTyped /\ SQTyped /\ MemoryTyped /\ i \in LQIndex
  BY PositionTyped DEF IInv, WindowTyped
<1>2. PICK e : /\ LQ' = [LQ EXCEPT ![i] = e] /\ Typed(e) /\ e.valid = l.valid
               /\ UNCHANGED window \/ Mark(k, "exception")
               /\ Reserve(l) \/ UNCHANGED load_reservation
  <2> DEFINE Shown(e) == /\ LQ' = [LQ EXCEPT ![i] = e] /\ Typed(e) /\ e.valid = l.valid
                         /\ UNCHANGED window \/ Mark(k, "exception")
                         /\ Reserve(l) \/ UNCHANGED load_reservation
  <2>1. ASSUME LQ' = [LQ EXCEPT ![i] = l], UNCHANGED window,
               Reserve(l) \/ UNCHANGED load_reservation
        PROVE  \E e : Shown(e)
    BY <2>1
  <2>2. ASSUME NEW v, Obtain(i, l, v), UNCHANGED window \/ Mark(k, "exception"), Reserve(l)
        PROVE  \E e : Shown(e)
    <3> DEFINE q == [l EXCEPT !.value_avail = TRUE, !.value = v]
    <3>1. Typed(q) /\ q.valid = l.valid
      BY DEF Typed, NoEntry
    <3>2. LQ' = [LQ EXCEPT ![i] = q]
      BY <2>2 DEF Obtain
    <3>3. QED
      BY <2>2, <3>1, <3>2
  <2>3. QED
    BY <2>1, <2>2 DEF ExecuteLoad
<1>3. LQTyped' /\ \A j \in LQIndex : LQ'[j].valid = LQ[j].valid
  BY <1>1, <1>2, LQWritten
<1>4. Alike(window', window)
  BY <1>1, <1>2, AlikeItself, AlikeMarked DEF Mark
<1>5. MemoryTyped' /\ SQTyped'
  BY <1>1, <1>2 DEF MemoryTyped, SQTyped, Typed, Reserve, sqVars
<1>6. QED
  BY <1>3, <1>4, <1>5, InPlace DEF sqVars

LEMMA LoadKeeps ==
  ASSUME IInv, NEW k \in DOMAIN window, LoadAddr(k) \/ LoadReplay(k)
  PROVE  IInv'
<1> DEFINE e == LQ[window[k].lq]
<1>1. Typed(e)
  BY PositionTyped
<1>2. CASE LoadAddr(k)
  <2>1. PICK a \in Addr :
          ExecuteLoad(k, [e EXCEPT !.addr_avail = TRUE, !.addr = a])
    BY <1>2 DEF LoadAddr
  <2> DEFINE l == [e EXCEPT !.addr_avail = TRUE, !.addr = a]
  <2>2. Typed(l) /\ l.valid = e.valid /\ l.addr_avail
    BY <1>1 DEF Typed, NoEntry
  <2>3. QED
    BY <1>2, <2>1, <2>2, ExecuteLoadKeeps DEF LoadAddr
<1>3. CASE LoadReplay(k)
  BY <1>1, <1>3, ExecuteLoadKeeps DEF LoadReplay
<1>4. QED
  BY <1>2, <1>3

LEMMA StoreExecuteKeeps ==
  ASSUME IInv, NEW k \in DOMAIN window, StoreExecute(k)
  PROVE  IInv'
<1> DEFINE j == window[k].sq
           e == SQ[j]
<1>1. /\ window \in Seq(Instr) /\ LQTyped /\ SQTyped /\ MemoryTyped /\ j \in SQIndex
      /\ Typed(e)
  BY PositionTyped DEF IInv, WindowTyped
<1>2. PICK a \in IF e.addr_avail THEN {e.addr} ELSE Addr, v \in Values :
        LET s == [e EXCEPT !.addr_avail = TRUE, !.addr = a, !.value_avail = TRUE,
                           !.value = [b \in Cover(a, e.size) |-> v]] IN
        /\ SQ' = [SQ EXCEPT ![j] = s]
        /\ UNCHANGED window \/ Mark(k, "exception") \/ MarkViolation(k, s)
  BY DEF StoreExecute
<1> DEFINE s == [e EXCEPT !.addr_avail = TRUE, !.addr = a, !.value_avail = TRUE,
                          !.value = [b \in Cover(a, e.size) |-> v]]
<1>3. a \in Addr
  BY <1>1 DEF Typed
<1>4. Typed(s) /\ Holds(s) /\ s.valid = e.valid
  <2>1. /\ DOMAIN s = DOMAIN e /\ s.size = e.size /\ s.addr = a /\ s.valid = e.valid
        /\ s.value_avail = TRUE /\ s.value = [b \in Cover(a, e.size) |-> v]
    BY <1>1 DEF Typed, NoEntry
  <2>2. QED
    BY <1>1, <1>3, <2>1 DEF Typed, Holds
<1>5. SQTyped' /\ \A i \in SQIndex : SQ'[i].valid = SQ[i].valid
  <2>1. SQ' = [SQ EXCEPT ![j] = s]
    BY <1>2
  <2> HIDE DEF s
  <2>2. QED
    BY <1>1, <1>4, <2>1, SQWritten
<1>6. Alike(window', window)
  <2>1. \/ UNCHANGED window \/ Mark(k, "exception")
        \/ \E i : Mark(i, "load_viol")
    BY <1>2 DEF MarkViolation
  <2>2. QED
    BY <1>1, <2>1, AlikeItself, AlikeMarked DEF Mark
<1>7. UNCHANGED <<lqVars, sqHead, sqHeadPhase, sqTail, sqTailPhase, sqLength,
                  load_reservation, mem>>
  BY DEF StoreExecute
<1>8. MemoryTyped' /\ LQTyped'
  BY <1>1, <1>7 DEF MemoryTyped, LQTyped, lqVars
<1>9. QED
  BY <1>5, <1>6, <1>7, <1>8, InPlace DEF lqVars

LEMMA ResolveCorrectKeeps ==
  ASSUME IInv, NEW k \in DOMAIN window, ResolveCorrect(k)
  PROVE  IInv'
<1>1. window \in Seq(Instr) /\ LQTyped /\ SQTyped /\ MemoryTyped
  BY DEF IInv, WindowTyped
<1>2. Alike(window', window)
  BY <1>1, AlikeMarked DEF ResolveCorrect, Mark
<1>3. UNCHANGED <<lqVars, sqVars, load_reservation, mem>>
  BY DEF ResolveCorrect
<1>4. LQTyped' /\ SQTyped' /\ MemoryTyped'
  BY <1>1, <1>3 DEF LQTyped, SQTyped, MemoryTyped, lqVars, sqVars
<1>5. QED
  BY <1>2, <1>3, <1>4, InPlace DEF lqVars, sqVars

LEMMA MispredictKeeps ==
  ASSUME IInv, NEW k \in DOMAIN window, Mispredict(k)
  PROVE  IInv'
<1>1. /\ window \in Seq(Instr) /\ LQTyped /\ SQTyped /\ MemoryTyped /\ LQSide /\ SQSide
      /\ Len(window) <= Window /\ Len(window) \in Nat /\ k \in 1 .. Len(window)
  BY DEF IInv, WindowTyped
<1>2. /\ ~ IsLoad(window[k].op) /\ ~ IsStore(window[k].op)
      /\ window' = SubSeq([window EXCEPT ![k].resolved = TRUE], 1, k)
      /\ lqTail' = window[k].lq /\ lqTailPhase' = window[k].lqPhase
      /\ sqTail' = window[k].sq /\ sqTailPhase' = window[k].sqPhase
      /\ lqLength' = Length(lqHead, lqHeadPhase, lqTail', lqTailPhase', LQSize)
      /\ sqLength' = Length(sqHead, sqHeadPhase, sqTail', sqTailPhase', SQSize)
      /\ LQ' = Revalidate(LQ, lqHead, lqLength', LQSize)
      /\ SQ' = Revalidate(SQ, sqHead, sqLength', SQSize)
      /\ UNCHANGED <<lqHead, lqHeadPhase, sqHead, sqHeadPhase, load_reservation, mem>>
  BY DEF Mispredict, IsLoad, IsStore
<1>3. LQSide'
  BY <1>1, <1>2, LQCuts
<1>4. SQSide'
  BY <1>1, <1>2, SQCuts
<1>5. LQTyped'
  <2> DEFINE B == [i \in LQIndex |-> \E m \in 0 .. lqLength' - 1 : (lqHead + m) % LQSize = i]
  <2>1. Revalued(LQ', LQ, B)
    BY <1>1, <1>2 DEF Revalued, Revalidate, LQTyped
  <2> HIDE DEF B
  <2>2. QED
    BY <1>1, <2>1, ValidChanges DEF LQTyped
<1>6. SQTyped'
  <2> DEFINE B == [i \in SQIndex |-> \E m \in 0 .. sqLength' - 1 : (sqHead + m) % SQSize = i]
  <2>1. Revalued(SQ', SQ, B)
    BY <1>1, <1>2 DEF Revalued, Revalidate, SQTyped
  <2> HIDE DEF B
  <2>2. QED
    BY <1>1, <2>1, ValidChanges DEF SQTyped
<1>7. WindowTyped'
  <2> DEFINE u == [window EXCEPT ![k].resolved = TRUE]
  <2>1. Alike(u, window)
    BY <1>1, AlikeMarked
  <2>2. Prefix(window', u, k)
    BY <1>2 DEF Prefix
  <2> HIDE DEF u
  <2>3. window' \in Seq(Instr) /\ Len(window') = k
    BY <1>1, <2>1, <2>2, Cut
  <2>4. QED
    BY <1>1, <2>3, LSUAssumption DEF WindowTyped
<1>8. MemoryTyped'
  BY <1>1, <1>2 DEF MemoryTyped
<1>9. QED
  BY <1>3, <1>4, <1>5, <1>6, <1>7, <1>8 DEF IInv

LEMMA ShrunkTyped ==
  ASSUME WindowTyped, window # <<>>, window' = Tail(window)
  PROVE  WindowTyped'
<1>1. Len(window) \in Nat \ {0} /\ window' \in Seq(Instr) /\ Len(window') = Len(window) - 1
  BY Shrunk DEF WindowTyped
<1>2. QED
  BY <1>1, LSUAssumption DEF WindowTyped

LEMMA CommitLoadKeeps ==
  ASSUME IInv, CommitLoad
  PROVE  IInv'
<1>1. /\ window \in Seq(Instr) /\ LQTyped /\ SQTyped /\ MemoryTyped /\ LQSide /\ SQSide
      /\ WindowTyped /\ lqHead \in LQIndex
  BY LQPointers DEF IInv, WindowTyped
<1>2. /\ window # <<>> /\ IsLoad(Head(window).op) /\ ~ IsStore(Head(window).op)
      /\ LQ' = [LQ EXCEPT ![lqHead].valid = FALSE]
      /\ lqHead' = Inc(lqHead, LQSize) /\ lqHeadPhase' = Toggle(lqHead, lqHeadPhase, LQSize)
      /\ lqLength' = lqLength - 1 /\ window' = Tail(window)
      /\ UNCHANGED <<lqTail, lqTailPhase, sqVars, load_reservation, mem>>
  BY DEF CommitLoad, IsLoad, IsStore
<1>3. LQSide'
  BY <1>1, <1>2, LQPops
<1>4. SQSide'
  BY <1>1, <1>2, SQDrops
<1>5. LQTyped'
  <2>1. LQ' = [LQ EXCEPT ![lqHead] = [LQ[lqHead] EXCEPT !.valid = FALSE]]
    BY <1>2
  <2>2. Typed([LQ[lqHead] EXCEPT !.valid = FALSE])
    BY <1>1, ValidTyped DEF LQTyped
  <2>3. QED
    BY <1>1, <2>1, <2>2 DEF LQTyped
<1>6. SQTyped' /\ MemoryTyped'
  BY <1>1, <1>2 DEF SQTyped, MemoryTyped, sqVars
<1>7. QED
  BY <1>1, <1>2, <1>3, <1>4, <1>5, <1>6, ShrunkTyped DEF IInv

LEMMA CommitStoreKeeps ==
  ASSUME IInv, CommitStore
  PROVE  IInv'
<1>1. /\ window \in Seq(Instr) /\ LQTyped /\ SQTyped /\ MemoryTyped /\ LQSide /\ SQSide
      /\ WindowTyped /\ sqHead \in SQIndex
  BY SQPointers DEF IInv, WindowTyped
<1>2. /\ window # <<>> /\ IsStore(Head(window).op) /\ ~ IsLoad(Head(window).op)
      /\ SQ' = [SQ EXCEPT ![sqHead].valid = FALSE]
      /\ sqHead' = Inc(sqHead, SQSize) /\ sqHeadPhase' = Toggle(sqHead, sqHeadPhase, SQSize)
      /\ sqLength' = sqLength - 1 /\ window' = Tail(window)
      /\ UNCHANGED <<lqVars, sqTail, sqTailPhase, load_reservation>>
  BY DEF CommitStore, IsLoad, IsStore
<1>3. SQSide'
  BY <1>1, <1>2, SQPops
<1>4. LQSide'
  BY <1>1, <1>2, LQDrops
<1>5. SQTyped'
  <2>1. SQ' = [SQ EXCEPT ![sqHead] = [SQ[sqHead] EXCEPT !.valid = FALSE]]
    BY <1>2
  <2>2. Typed([SQ[sqHead] EXCEPT !.valid = FALSE]) /\ Holds([SQ[sqHead] EXCEPT !.valid = FALSE])
    BY <1>1, ValidTyped DEF SQTyped
  <2>3. QED
    BY <1>1, <2>1, <2>2 DEF SQTyped
<1>6. LQTyped'
  BY <1>1, <1>2 DEF LQTyped, lqVars
<1>7. MemoryTyped'
  <2> DEFINE s == SQ[sqHead]
  <2>1. Head(window).sq = sqHead
    BY <1>1, <1>2, OldestAtHead
  <2>2. s.value_avail
    BY <1>2, <2>1 DEF CommitStore, MayCommit, Completed
  <2>3. s.value \in [Cover(s.addr, s.size) -> Values]
    BY <1>1, <2>2 DEF SQTyped, Holds
  <2>4. mem' = IF ReservationLost(s) THEN mem
               ELSE [b \in Addr |-> IF b \in Cover(s.addr, s.size) THEN s.value[b] ELSE mem[b]]
    BY DEF CommitStore
  <2> HIDE DEF s
  <2>5. mem' \in [Addr -> Values]
    BY <1>1, <2>3, <2>4 DEF MemoryTyped
  <2>6. QED
    BY <1>1, <1>2, <2>5 DEF MemoryTyped
<1>8. QED
  BY <1>1, <1>2, <1>3, <1>4, <1>5, <1>6, <1>7, ShrunkTyped DEF IInv

LEMMA CommitBranchKeeps ==
  ASSUME IInv, CommitBranch
  PROVE  IInv'
<1>1. /\ window \in Seq(Instr) /\ LQTyped /\ SQTyped /\ MemoryTyped /\ LQSide /\ SQSide
      /\ WindowTyped
  BY DEF IInv, WindowTyped
<1>2. /\ window # <<>> /\ ~ IsStore(Head(window).op) /\ ~ IsLoad(Head(window).op)
      /\ window' = Tail(window) /\ UNCHANGED <<lqVars, sqVars, load_reservation, mem>>
  BY DEF CommitBranch, IsLoad, IsStore
<1>3. LQSide' /\ SQSide'
  BY <1>1, <1>2, LQDrops, SQDrops
<1>4. LQTyped' /\ SQTyped' /\ MemoryTyped'
  BY <1>1, <1>2 DEF LQTyped, SQTyped, MemoryTyped, lqVars, sqVars
<1>5. QED
  BY <1>1, <1>2, <1>3, <1>4, ShrunkTyped DEF IInv

LEMMA SquashKeeps ==
  ASSUME IInv, Squash
  PROVE  IInv'
<1>1. LQTyped /\ SQTyped /\ MemoryTyped
  BY DEF IInv
<1>2. /\ LQ' = Invalid(LQ) /\ SQ' = Invalid(SQ) /\ window' = <<>>
      /\ lqHead' = 0 /\ lqHeadPhase' = 0 /\ lqTail' = 0 /\ lqTailPhase' = 0 /\ lqLength' = 0
      /\ sqHead' = 0 /\ sqHeadPhase' = 0 /\ sqTail' = 0 /\ sqTailPhase' = 0 /\ sqLength' = 0
      /\ load_reservation' \in {None, load_reservation} /\ mem' = mem
  BY DEF Squash
<1>3. LQSide' /\ SQSide'
  BY <1>1, <1>2, LQEmpties, SQEmpties
<1>4. LQTyped'
  <2> DEFINE B == [i \in LQIndex |-> FALSE]
  <2>1. Revalued(LQ', LQ, B)
    BY <1>1, <1>2 DEF Revalued, Invalid, LQTyped
  <2> HIDE DEF B
  <2>2. QED
    BY <1>1, <2>1, ValidChanges DEF LQTyped
<1>5. SQTyped'
  <2> DEFINE B == [i \in SQIndex |-> FALSE]
  <2>1. Revalued(SQ', SQ, B)
    BY <1>1, <1>2 DEF Revalued, Invalid, SQTyped
  <2> HIDE DEF B
  <2>2. QED
    BY <1>1, <2>1, ValidChanges DEF SQTyped
<1>6. WindowTyped' /\ MemoryTyped'
  BY <1>1, <1>2, LSUAssumption DEF WindowTyped, MemoryTyped
<1>7. QED
  BY <1>3, <1>4, <1>5, <1>6 DEF IInv

LEMMA StutterKeeps ==
  ASSUME IInv, UNCHANGED vars
  PROVE  IInv'
BY DEF IInv, LQTyped, SQTyped, WindowTyped, LQSide, SQSide, MemoryTyped, vars, lqVars, sqVars

LEMMA StepKeeps ==
  ASSUME IInv, [Next]_vars
  PROVE  IInv'
<1>1. ASSUME NEW op \in Ops, Arrive(op) PROVE IInv'
  BY <1>1, DispatchLoadKeeps, DispatchStoreKeeps, DispatchBranchKeeps DEF Arrive
<1>2. QED
  BY <1>1, LoadKeeps, StoreExecuteKeeps, ResolveCorrectKeeps, MispredictKeeps,
     CommitLoadKeeps, CommitStoreKeeps, CommitBranchKeeps, SquashKeeps, StutterKeeps
  DEF Next

LEMMA InvariantHolds == Spec => []IInv
<1>1. Init => IInv
  BY InitInvariant
<1>2. IInv /\ [Next]_vars => IInv'
  BY StepKeeps
<1>3. QED
  BY <1>1, <1>2, PTL DEF Spec

----------------------------------------------------------------------------
(* What the invariant gives.                                                *)

(* What the side says is what QueuesMatchWindow says of the queue.          *)
LEMMA LQMatches ==
  ASSUME IInv
  PROVE  /\ lqLength = Cardinality(Loads)
         /\ \A i \in LQIndex : LQ[i].valid <=> \E n \in 1 .. lqLength : LQPositions[n] = i
         /\ <<lqTail, lqTailPhase>> = After(lqHead, lqHeadPhase, lqLength, LQSize)
         /\ \A k \in Entries :
              <<window[k].lq, window[k].lqPhase>>
                = After(lqHead, lqHeadPhase, Before(Loads, k), LQSize)
<1> DEFINE N == Len(window)
           h == lqHead
           n == lqLength
<1>1. window \in Seq(Instr) /\ N \in Nat /\ Entries = 1 .. N /\ Loads = LoadsIn(window)
  BY DEF IInv, WindowTyped, Entries, Loads, LoadsIn
<1>2. LQSize \in Nat \ {0}
  BY LSUAssumption
<1>3. /\ Loads \in SUBSET (1 .. N) /\ n \in 0 .. LQSize /\ n = Before(Loads, N + 1)
      /\ h \in 0 .. LQSize - 1 /\ lqHeadPhase \in Phase
      /\ lqTail = Turn(h + n, LQSize) /\ lqTailPhase = Flip(lqHeadPhase, h + n, LQSize)
      /\ \A i \in 0 .. LQSize - 1 : LQ[i].valid <=> Held(i, h, n, LQSize)
      /\ \A k \in 1 .. N : LQMarks(window)[k] = <<Turn(h + Before(Loads, k), LQSize),
                                          Flip(lqHeadPhase, h + Before(Loads, k), LQSize)>>
  BY <1>1 DEF IInv, LQSide, Side
<1>4. n = Cardinality(Loads)
  BY <1>1, <1>3, BeforeAll
<1>5. <<lqTail, lqTailPhase>> = After(h, lqHeadPhase, n, LQSize)
  BY <1>2, <1>3, AfterTurns
<1>6. ASSUME NEW k \in Entries
      PROVE  <<window[k].lq, window[k].lqPhase>> = After(h, lqHeadPhase, Before(Loads, k), LQSize)
  <2>1. k \in 1 .. N /\ LQMarks(window)[k] = <<window[k].lq, window[k].lqPhase>>
    BY <1>1 DEF LQMarks
  <2>2. Before(Loads, k) \in 0 .. LQSize
    <3>1. Before(Loads, N + 1) <= LQSize
      BY <1>2, <1>3
    <3> HIDE DEF N
    <3>2. Before(Loads, k) \in 0 .. Before(Loads, N + 1)
      BY <1>1, <1>2, <1>3, <2>1, <3>1, SideCounts
    <3>3. QED
      BY <1>2, <1>3, <3>2
  <2>3. QED
    BY <1>2, <1>3, <2>1, <2>2, AfterTurns
<1>7. ASSUME NEW i \in LQIndex
      PROVE  LQ[i].valid <=> \E m \in 1 .. n : LQPositions[m] = i
  <2>1. ASSUME NEW m \in 1 .. n
        PROVE  LQPositions[m] = Turn(h + (m - 1), LQSize) /\ m - 1 \in 0 .. n - 1
    <3>1. m - 1 \in 0 .. n - 1 /\ m - 1 \in 0 .. LQSize /\ h + m - 1 = h + (m - 1)
      BY <1>2, <1>3
    <3>2. QED
      BY <1>2, <1>3, <3>1, AfterTurns DEF LQPositions
  <2>2. ASSUME NEW m \in 0 .. n - 1
        PROVE  m + 1 \in 1 .. n /\ LQPositions[m + 1] = Turn(h + m, LQSize)
    <3>1. m + 1 \in 1 .. n /\ (m + 1) - 1 = m
      BY <1>2, <1>3
    <3>2. QED
      BY <2>1, <3>1
  <2>3. LQ[i].valid <=> \E m \in 0 .. n - 1 : Turn(h + m, LQSize) = i
    BY <1>3 DEF Held, LQIndex
  <2> HIDE DEF n, h
  <2>4. QED
    BY <2>1, <2>2, <2>3
<1>8. QED
  BY <1>4, <1>5, <1>6, <1>7

(* What the side says is what QueuesMatchWindow says of the queue.          *)
LEMMA SQMatches ==
  ASSUME IInv
  PROVE  /\ sqLength = Cardinality(Stores)
         /\ \A i \in SQIndex : SQ[i].valid <=> \E n \in 1 .. sqLength : SQPositions[n] = i
         /\ <<sqTail, sqTailPhase>> = After(sqHead, sqHeadPhase, sqLength, SQSize)
         /\ \A k \in Entries :
              <<window[k].sq, window[k].sqPhase>>
                = After(sqHead, sqHeadPhase, Before(Stores, k), SQSize)
<1> DEFINE N == Len(window)
           h == sqHead
           n == sqLength
<1>1. window \in Seq(Instr) /\ N \in Nat /\ Entries = 1 .. N /\ Stores = StoresIn(window)
  BY DEF IInv, WindowTyped, Entries, Stores, StoresIn
<1>2. SQSize \in Nat \ {0}
  BY LSUAssumption
<1>3. /\ Stores \in SUBSET (1 .. N) /\ n \in 0 .. SQSize /\ n = Before(Stores, N + 1)
      /\ h \in 0 .. SQSize - 1 /\ sqHeadPhase \in Phase
      /\ sqTail = Turn(h + n, SQSize) /\ sqTailPhase = Flip(sqHeadPhase, h + n, SQSize)
      /\ \A i \in 0 .. SQSize - 1 : SQ[i].valid <=> Held(i, h, n, SQSize)
      /\ \A k \in 1 .. N : SQMarks(window)[k] = <<Turn(h + Before(Stores, k), SQSize),
                                          Flip(sqHeadPhase, h + Before(Stores, k), SQSize)>>
  BY <1>1 DEF IInv, SQSide, Side
<1>4. n = Cardinality(Stores)
  BY <1>1, <1>3, BeforeAll
<1>5. <<sqTail, sqTailPhase>> = After(h, sqHeadPhase, n, SQSize)
  BY <1>2, <1>3, AfterTurns
<1>6. ASSUME NEW k \in Entries
      PROVE  <<window[k].sq, window[k].sqPhase>> = After(h, sqHeadPhase, Before(Stores, k), SQSize)
  <2>1. k \in 1 .. N /\ SQMarks(window)[k] = <<window[k].sq, window[k].sqPhase>>
    BY <1>1 DEF SQMarks
  <2>2. Before(Stores, k) \in 0 .. SQSize
    <3>1. Before(Stores, N + 1) <= SQSize
      BY <1>2, <1>3
    <3> HIDE DEF N
    <3>2. Before(Stores, k) \in 0 .. Before(Stores, N + 1)
      BY <1>1, <1>2, <1>3, <2>1, <3>1, SideCounts
    <3>3. QED
      BY <1>2, <1>3, <3>2
  <2>3. QED
    BY <1>2, <1>3, <2>1, <2>2, AfterTurns
<1>7. ASSUME NEW i \in SQIndex
      PROVE  SQ[i].valid <=> \E m \in 1 .. n : SQPositions[m] = i
  <2>1. ASSUME NEW m \in 1 .. n
        PROVE  SQPositions[m] = Turn(h + (m - 1), SQSize) /\ m - 1 \in 0 .. n - 1
    <3>1. m - 1 \in 0 .. n - 1 /\ m - 1 \in 0 .. SQSize /\ h + m - 1 = h + (m - 1)
      BY <1>2, <1>3
    <3>2. QED
      BY <1>2, <1>3, <3>1, AfterTurns DEF SQPositions
  <2>2. ASSUME NEW m \in 0 .. n - 1
        PROVE  m + 1 \in 1 .. n /\ SQPositions[m + 1] = Turn(h + m, SQSize)
    <3>1. m + 1 \in 1 .. n /\ (m + 1) - 1 = m
      BY <1>2, <1>3
    <3>2. QED
      BY <2>1, <3>1
  <2>3. SQ[i].valid <=> \E m \in 0 .. n - 1 : Turn(h + m, SQSize) = i
    BY <1>3 DEF Held, SQIndex
  <2> HIDE DEF n, h
  <2>4. QED
    BY <2>1, <2>2, <2>3
<1>8. QED
  BY <1>4, <1>5, <1>6, <1>7

(* Every pointer, length and byte of memory stays in its range.             *)
THEOREM AlwaysTypeOK == Spec => []TypeOK
<1>1. ASSUME IInv PROVE TypeOK
  <2>1. /\ lqHead \in LQIndex /\ lqHeadPhase \in Phase /\ lqTail \in LQIndex
        /\ lqTailPhase \in Phase /\ lqLength \in 0 .. LQSize
        /\ sqHead \in SQIndex /\ sqHeadPhase \in Phase /\ sqTail \in SQIndex
        /\ sqTailPhase \in Phase /\ sqLength \in 0 .. SQSize
    BY <1>1, LQPointers, SQPointers DEF IInv
  <2>2. QED
    BY <1>1, <2>1 DEF IInv, WindowTyped, MemoryTyped, TypeOK, Pointer, LQIndex, SQIndex
<1>2. QED
  BY <1>1, InvariantHolds, PTL

(* The queues hold exactly the loads and the stores in flight, in program   *)
(* order, and every instruction remembers where both stood before it: what  *)
(* the searches of the two queues start from, after any sequence of         *)
(* dispatches, rollbacks, commits and flushes.                              *)
THEOREM AlwaysQueuesMatchWindow == Spec => []QueuesMatchWindow
<1>1. ASSUME IInv PROVE QueuesMatchWindow
  BY <1>1, LQMatches, SQMatches DEF QueuesMatchWindow
<1>2. QED
  BY <1>1, InvariantHolds, PTL

-----------------------------------------------------------------------------
(* Precise loads: where the value of a load came from.                      *)
PassedBy(s, l) == IF s.addr_avail THEN ~ Conflict(s, l) ELSE ~ l.mdp_stall

GivenBy(s, l) ==
  s.value_avail /\ s.size = l.size /\ s.addr = l.addr /\ l.value = s.value

Unmarked(k) == \A j \in Stores : j < k => ~ window[j].exception

(* The load is aligned, and nothing squashes it or anything before it.      *)
Clear(k) ==
  /\ LoadOf(k).value_avail /\ ~ window[k].exception /\ AlignedLoad(LoadOf(k))
  /\ Unmarked(k)
  /\ \A j \in Loads : j <= k => ~ window[j].load_viol

(* Where the value of a load l at place k is from, if T are the places of   *)
(* stores, S their entries and m is memory.                                 *)
FromStore(f, k, l, T, S) ==
  /\ f < k /\ GivenBy(S[f], l)
  /\ \A j \in T : f < j /\ j < k => PassedBy(S[j], l)

FromMemory(k, l, T, S, m) ==
  /\ \A j \in T : j < k => PassedBy(S[j], l)
  /\ \A b \in Cover(l.addr, l.size) : l.value[b] = m[b]

From(k, l, T, S, m) == (\E f \in T : FromStore(f, k, l, T, S)) \/ FromMemory(k, l, T, S, m)

StoreView  == [j \in Stores |-> StoreOf(j)]
Sourced(k) == From(k, LoadOf(k), Stores, StoreView, mem)

(* A load knows where the store queue ended, and passes unknown addresses   *)
(* only if loads may.                                                       *)
Placed(k) ==
  /\ LoadOf(k).sq_index = window[k].sq /\ LoadOf(k).sq_index_phase = window[k].sqPhase
  /\ SpecDisambig \/ LoadOf(k).mdp_stall

(* The address of a store has been translated, or the store is marked.      *)
Settled(j) ==
  /\ StoreOf(j).amo => IsAmo(window[j].op)
  /\ StoreOf(j).addr_avail /\ ~ window[j].exception
       => Aligned(StoreOf(j).addr, StoreOf(j).size)

Ordered ==
  /\ \A k \in Loads : Placed(k)
  /\ \A j \in Stores : Settled(j)
  /\ \A j \in Entries : IsAmo(window[j].op) => j = Len(window)

Precise == \A k \in Loads : Clear(k) => Sourced(k)

PInv == IInv /\ Ordered /\ Precise

----------------------------------------------------------------------------
(* Bytes.                                                                   *)
LEMMA Multiple ==
  ASSUME NEW a \in Nat, NEW s \in Nat \ {0}, a % s = 0
  PROVE  \E q \in Nat : a = s * q
<1>1. a = s * (a \div s) + (a % s) /\ a \div s \in Nat
  OBVIOUS
<1>2. QED
  BY <1>1

LEMMA TimesMonotone ==
  ASSUME NEW s \in Nat \ {0}, NEW p \in Int, NEW q \in Int, s * p < s * q
  PROVE  p < q
<1>1. SUFFICES ASSUME q <= p PROVE FALSE
  OBVIOUS
<1>2. p - q \in Nat
  BY <1>1
<1>3. s * (p - q) \in Nat /\ s * p = s * q + s * (p - q)
  BY <1>2
<1>4. QED
  BY <1>3

(* The small access lies inside the large one if they share a byte.         *)
LEMMA Inside ==
  ASSUME NEW s \in Nat \ {0}, NEW t \in Nat \ {0}, t % s = 0, s <= t,
         NEW a \in Nat, a % s = 0, NEW c \in Nat, c % t = 0,
         a < c + t, c < a + s
  PROVE  a - (a % t) = c
<1>1. PICK p \in Nat : a = s * p
  BY Multiple
<1>2. PICK q \in Nat : c = t * q
  BY Multiple
<1>3. PICK r \in Nat : t = s * r
  BY Multiple
<1>4. r * q \in Nat /\ c = s * (r * q)
  BY <1>2, <1>3
<1>5. s * (r * q) < s * (p + 1)
  BY <1>1, <1>4
<1>6. r * q < p + 1
  BY <1>4, <1>5, TimesMonotone
<1>7. c <= a
  <2>1. p - r * q \in Nat /\ s * (p - r * q) \in Nat
    BY <1>4, <1>6
  <2>2. s * p = s * (r * q) + s * (p - r * q)
    BY <1>4
  <2>3. QED
    BY <1>1, <1>4, <2>1, <2>2
<1>8. a - c \in 0 .. t - 1 /\ a = t * q + (a - c)
  BY <1>2, <1>7
<1>9. a % t = a - c
  BY <1>8
<1>10. QED
  BY <1>8, <1>9

(* An aligned access stays in memory.                                       *)
LEMMA Fits ==
  ASSUME NEW l, Typed(l), AlignedLoad(l)
  PROVE  Cover(l.addr, l.size) \subseteq Addr
<1>1. PICK a \in Nat, s \in Nat \ {0} :
        a = l.addr /\ s = l.size /\ a < Bytes /\ a % s = 0 /\ Bytes % s = 0 /\ Bytes \in Nat
  <2>1. l.size \in Sizes /\ l.addr \in 0 .. Bytes - 1 /\ l.addr % l.size = 0
    BY DEF Typed, AlignedLoad, Aligned, Addr
  <2>2. /\ Bytes \in Nat \ {0}
        /\ \A x \in Sizes : x \in Nat \ {0} /\ Bytes % x = 0
    BY LSUAssumption
  <2>3. l.addr \in Nat /\ l.addr < Bytes
    BY <2>1, <2>2
  <2>4. QED
    BY <2>1, <2>2, <2>3
<1>2. PICK p \in Nat : a = s * p
  BY <1>1, Multiple
<1>3. PICK q \in Nat : Bytes = s * q
  BY <1>1, Multiple
<1>4. p < q
  BY <1>1, <1>2, <1>3, TimesMonotone
<1>5. a + s <= Bytes
  <2>1. q - (p + 1) \in Nat /\ s * (q - (p + 1)) \in Nat
    BY <1>4
  <2>2. s * q = s * p + s + s * (q - (p + 1))
    BY <1>4
  <2>3. QED
    BY <1>2, <1>3, <2>1, <2>2
<1>6. QED
  BY <1>1, <1>5 DEF Cover, Addr

LEMMA Overlap ==
  ASSUME NEW s, NEW l, Typed(s), Typed(l), Aligned(s.addr, s.size), AlignedLoad(l),
         NEW b \in Cover(s.addr, s.size), b \in Cover(l.addr, l.size)
  PROVE  Conflict(s, l)
<1>1. /\ s.addr \in Nat /\ s.addr % s.size = 0 /\ s.size \in Nat \ {0} /\ s.size \in Sizes
      /\ l.addr \in Nat /\ l.addr % l.size = 0 /\ l.size \in Nat \ {0} /\ l.size \in Sizes
      /\ s.size <= l.size => l.size % s.size = 0
      /\ l.size <= s.size => s.size % l.size = 0
  <2>1. s.size \in Sizes /\ l.size \in Sizes
    BY DEF Typed
  <2>2. /\ \A x \in Sizes : x \in Nat \ {0}
        /\ \A x, y \in Sizes : x <= y => y % x = 0
    BY LSUAssumption
  <2>3. /\ s.addr \in Nat /\ s.addr % s.size = 0
        /\ l.addr \in Nat /\ l.addr % l.size = 0
    BY DEF Typed, Aligned, AlignedLoad, Addr
  <2>4. QED
    BY <2>1, <2>2, <2>3
<1>2. b \in Int /\ s.addr < l.addr + l.size /\ l.addr < s.addr + s.size
  BY <1>1 DEF Cover
<1>3. CASE s.size < l.size
  <2>0. s.size <= l.size /\ l.size % s.size = 0
    BY <1>1, <1>3
  <2>1. s.addr - (s.addr % l.size) = l.addr
    BY <1>1, <1>2, <2>0, Inside
  <2>2. Container(s.addr, s.size, l.size) = l.addr
    BY <1>3, <2>1 DEF Container
  <2>3. Container(l.addr, s.size, l.size) = l.addr
    BY <1>1, <1>3 DEF Container
  <2>4. QED
    BY <2>2, <2>3 DEF Conflict
<1>4. CASE l.size <= s.size
  <2>1. l.addr - (l.addr % s.size) = s.addr
    BY <1>1, <1>2, <1>4, Inside
  <2>2. ~ (s.size < l.size)
    BY <1>1, <1>4
  <2>3. Container(l.addr, s.size, l.size) = s.addr
    BY <2>1, <2>2 DEF Container
  <2>4. Container(s.addr, s.size, l.size) = s.addr
    BY <1>1, <2>2 DEF Container
  <2>5. QED
    BY <2>3, <2>4 DEF Conflict
<1>5. QED
  BY <1>1, <1>3, <1>4

LEMMA SameBytes ==
  ASSUME NEW s, NEW l, Typed(s), Typed(l), Aligned(s.addr, s.size), AlignedLoad(l),
         s.size = l.size, Conflict(s, l)
  PROVE  s.addr = l.addr
<1>1. /\ s.addr \in Nat /\ s.addr % s.size = 0
      /\ l.addr \in Nat /\ l.addr % l.size = 0
  BY DEF Typed, Aligned, AlignedLoad, Addr
<1>2. QED
  BY <1>1 DEF Conflict, Container

----------------------------------------------------------------------------
(* Where the queues hold what the window says.                              *)
LEMMA StoresPlaced ==
  ASSUME IInv
  PROVE  /\ Stores \in SUBSET (1 .. Len(window)) /\ Len(window) \in Nat
         /\ sqLength \in 0 .. SQSize /\ sqHead \in 0 .. SQSize - 1 /\ sqHeadPhase \in Phase
         /\ sqTail = Turn(sqHead + sqLength, SQSize)
         /\ sqTailPhase = Flip(sqHeadPhase, sqHead + sqLength, SQSize)
         /\ \A k \in 1 .. Len(window) :
              /\ Before(Stores, k) \in 0 .. sqLength
              /\ k \in Stores => Before(Stores, k) \in 0 .. sqLength - 1
              /\ window[k].sq = Turn(sqHead + Before(Stores, k), SQSize)
              /\ window[k].sqPhase = Flip(sqHeadPhase, sqHead + Before(Stores, k), SQSize)
<1>1. window \in Seq(Instr) /\ Len(window) \in Nat /\ Stores = StoresIn(window)
  BY DEF IInv, WindowTyped, Entries, Stores, StoresIn
<1>2. SQSize \in Nat \ {0}
  BY LSUAssumption
<1>3. /\ Stores \in SUBSET (1 .. Len(window))
      /\ sqLength \in 0 .. SQSize /\ sqHead \in 0 .. SQSize - 1 /\ sqHeadPhase \in Phase
      /\ sqTail = Turn(sqHead + sqLength, SQSize)
      /\ sqTailPhase = Flip(sqHeadPhase, sqHead + sqLength, SQSize)
      /\ sqLength = Before(Stores, Len(window) + 1)
      /\ \A k \in 1 .. Len(window) : SQMarks(window)[k] =
           <<Turn(sqHead + Before(Stores, k), SQSize),
             Flip(sqHeadPhase, sqHead + Before(Stores, k), SQSize)>>
  BY <1>1 DEF IInv, SQSide, Side
<1>4. Before(Stores, Len(window) + 1) <= SQSize
  BY <1>2, <1>3
<1>5. \A k \in 1 .. Len(window) :
        /\ Before(Stores, k) \in 0 .. sqLength
        /\ k \in Stores => Before(Stores, k) \in 0 .. sqLength - 1
  BY <1>1, <1>2, <1>3, <1>4, SideCounts
<1>6. \A k \in 1 .. Len(window) : SQMarks(window)[k] = <<window[k].sq, window[k].sqPhase>>
  BY DEF SQMarks
<1>7. QED
  BY <1>1, <1>3, <1>5, <1>6

LEMMA LoadsPlaced ==
  ASSUME IInv
  PROVE  /\ Loads \in SUBSET (1 .. Len(window)) /\ Len(window) \in Nat
         /\ lqLength \in 0 .. LQSize /\ lqHead \in 0 .. LQSize - 1 /\ lqHeadPhase \in Phase
         /\ lqTail = Turn(lqHead + lqLength, LQSize)
         /\ lqTailPhase = Flip(lqHeadPhase, lqHead + lqLength, LQSize)
         /\ lqLength = Before(Loads, Len(window) + 1)
         /\ \A k \in 1 .. Len(window) :
              /\ Before(Loads, k) \in 0 .. lqLength
              /\ k \in Loads => Before(Loads, k) \in 0 .. lqLength - 1
              /\ window[k].lq = Turn(lqHead + Before(Loads, k), LQSize)
              /\ window[k].lqPhase = Flip(lqHeadPhase, lqHead + Before(Loads, k), LQSize)
<1>1. window \in Seq(Instr) /\ Len(window) \in Nat /\ Loads = LoadsIn(window)
  BY DEF IInv, WindowTyped, Entries, Loads, LoadsIn
<1>2. LQSize \in Nat \ {0}
  BY LSUAssumption
<1>3. /\ Loads \in SUBSET (1 .. Len(window))
      /\ lqLength \in 0 .. LQSize /\ lqHead \in 0 .. LQSize - 1 /\ lqHeadPhase \in Phase
      /\ lqTail = Turn(lqHead + lqLength, LQSize)
      /\ lqTailPhase = Flip(lqHeadPhase, lqHead + lqLength, LQSize)
      /\ lqLength = Before(Loads, Len(window) + 1)
      /\ \A k \in 1 .. Len(window) : LQMarks(window)[k] =
           <<Turn(lqHead + Before(Loads, k), LQSize),
             Flip(lqHeadPhase, lqHead + Before(Loads, k), LQSize)>>
  BY <1>1 DEF IInv, LQSide, Side
<1>4. Before(Loads, Len(window) + 1) <= LQSize
  BY <1>2, <1>3
<1>5. \A k \in 1 .. Len(window) :
        /\ Before(Loads, k) \in 0 .. lqLength
        /\ k \in Loads => Before(Loads, k) \in 0 .. lqLength - 1
  BY <1>1, <1>2, <1>3, <1>4, SideCounts
<1>6. \A k \in 1 .. Len(window) : LQMarks(window)[k] = <<window[k].lq, window[k].lqPhase>>
  BY DEF LQMarks
<1>7. QED
  BY <1>1, <1>3, <1>5, <1>6

(* No two stores in flight share an entry, and none has that at the tail.   *)
LEMMA StoresApart ==
  ASSUME IInv
  PROVE  /\ \A i, j \in Stores : window[i].sq = window[j].sq => i = j
         /\ sqLength < SQSize => \A j \in Stores : window[j].sq # sqTail
<1>1. SQSize \in Nat \ {0} /\ Stores \in SUBSET Nat
  BY StoresPlaced, LSUAssumption
<1>2. \A j \in Stores : /\ Before(Stores, j) \in 0 .. sqLength - 1
                        /\ Before(Stores, j) \in 0 .. SQSize - 1
                        /\ window[j].sq = Turn(sqHead + Before(Stores, j), SQSize)
  BY <1>1, StoresPlaced
<1>3. ASSUME NEW i \in Stores, NEW j \in Stores, window[i].sq = window[j].sq
      PROVE  i = j
  <2>1. Turn(sqHead + Before(Stores, i), SQSize) = Turn(sqHead + Before(Stores, j), SQSize)
    BY <1>2, <1>3
  <2>2. Before(Stores, i) = Before(Stores, j)
    BY <1>1, <1>2, <2>1, TurnInjective, StoresPlaced
  <2>3. QED
    BY <1>1, <2>2, BeforeInjective
<1>4. ASSUME sqLength < SQSize, NEW j \in Stores, window[j].sq = sqTail
      PROVE  FALSE
  <2>1. sqLength \in 0 .. SQSize - 1 /\ sqTail = Turn(sqHead + sqLength, SQSize)
    BY <1>1, <1>4, StoresPlaced
  <2>2. Before(Stores, j) = sqLength
    BY <1>1, <1>2, <1>4, <2>1, TurnInjective, StoresPlaced
  <2>3. QED
    BY <1>2, <2>1, <2>2
<1>5. QED
  BY <1>3, <1>4

LEMMA LoadsApart ==
  ASSUME IInv
  PROVE  /\ \A i, j \in Loads : window[i].lq = window[j].lq => i = j
         /\ lqLength < LQSize => \A j \in Loads : window[j].lq # lqTail
<1>1. LQSize \in Nat \ {0} /\ Loads \in SUBSET Nat
  BY LoadsPlaced, LSUAssumption
<1>2. \A j \in Loads : /\ Before(Loads, j) \in 0 .. lqLength - 1
                        /\ Before(Loads, j) \in 0 .. LQSize - 1
                        /\ window[j].lq = Turn(lqHead + Before(Loads, j), LQSize)
  BY <1>1, LoadsPlaced
<1>3. ASSUME NEW i \in Loads, NEW j \in Loads, window[i].lq = window[j].lq
      PROVE  i = j
  <2>1. Turn(lqHead + Before(Loads, i), LQSize) = Turn(lqHead + Before(Loads, j), LQSize)
    BY <1>2, <1>3
  <2>2. Before(Loads, i) = Before(Loads, j)
    BY <1>1, <1>2, <2>1, TurnInjective, LoadsPlaced
  <2>3. QED
    BY <1>1, <2>2, BeforeInjective
<1>4. ASSUME lqLength < LQSize, NEW j \in Loads, window[j].lq = lqTail
      PROVE  FALSE
  <2>1. lqLength \in 0 .. LQSize - 1 /\ lqTail = Turn(lqHead + lqLength, LQSize)
    BY <1>1, <1>4, LoadsPlaced
  <2>2. Before(Loads, j) = lqLength
    BY <1>1, <1>2, <1>4, <2>1, TurnInjective, LoadsPlaced
  <2>3. QED
    BY <1>2, <2>1, <2>2
<1>5. QED
  BY <1>3, <1>4

(* The search of the store queue visits the stores before the load, all of  *)
(* them and the youngest first.                                             *)
LEMMA SearchesStores ==
  ASSUME IInv, NEW k \in Entries, NEW l,
         l.sq_index = window[k].sq, l.sq_index_phase = window[k].sqPhase
  PROVE  /\ StoresBefore(l) = Before(Stores, k) /\ Before(Stores, k) \in Nat
         /\ \A j \in Stores : j < k =>
              /\ Before(Stores, k) - Before(Stores, j) \in 1 .. Before(Stores, k)
              /\ Back(l.sq_index, Before(Stores, k) - Before(Stores, j), SQSize) = window[j].sq
         /\ \A n \in 1 .. Before(Stores, k) : \E j \in Stores :
              /\ j < k /\ n = Before(Stores, k) - Before(Stores, j)
              /\ Back(l.sq_index, n, SQSize) = window[j].sq
<1>1. SQSize \in Nat \ {0} /\ Stores \in SUBSET Nat /\ k \in Nat /\ k \in 1 .. Len(window)
  BY StoresPlaced, LSUAssumption DEF Entries, IInv, WindowTyped
<1> DEFINE a == Before(Stores, k)
<1>2. /\ a \in 0 .. sqLength /\ a \in 0 .. SQSize /\ a \in Nat
      /\ l.sq_index = Turn(sqHead + a, SQSize)
      /\ l.sq_index_phase = Flip(sqHeadPhase, sqHead + a, SQSize)
  BY <1>1, StoresPlaced
<1>3. sqHead \in 0 .. SQSize - 1 /\ sqHeadPhase \in Phase
  BY StoresPlaced
<1> HIDE DEF a
<1>4. StoresBefore(l) = a
  <2>1. 0 \in 0 .. a /\ a - 0 = a
    BY <1>2
  <2>2. Turn(sqHead + 0, SQSize) = sqHead /\ Flip(sqHeadPhase, sqHead + 0, SQSize) = sqHeadPhase
    BY <1>1, <1>3 DEF Turn, Flip
  <2>3. Distance(Turn(sqHead + 0, SQSize), Flip(sqHeadPhase, sqHead + 0, SQSize),
                 Turn(sqHead + a, SQSize), Flip(sqHeadPhase, sqHead + a, SQSize), SQSize) = a - 0
    BY <1>1, <1>2, <1>3, <2>1, DistanceIs
  <2>4. QED
    BY <1>2, <2>1, <2>2, <2>3 DEF StoresBefore
<1>5. \A n \in 1 .. a : Back(l.sq_index, n, SQSize) = Turn(sqHead + (a - n), SQSize)
  BY <1>1, <1>2, <1>3, BackIs
<1>6. \A j \in Stores : /\ Before(Stores, j) \in Nat
                        /\ window[j].sq = Turn(sqHead + Before(Stores, j), SQSize)
  BY StoresPlaced
<1>7. ASSUME NEW j \in Stores, j < k
      PROVE  /\ a - Before(Stores, j) \in 1 .. a
             /\ Back(l.sq_index, a - Before(Stores, j), SQSize) = window[j].sq
  <2>1. Before(Stores, j) < a
    BY <1>1, <1>7, BeforeStrict DEF a
  <2>2. a - Before(Stores, j) \in 1 .. a /\ a - (a - Before(Stores, j)) = Before(Stores, j)
    BY <1>2, <1>6, <2>1
  <2>3. QED
    BY <1>5, <1>6, <2>2
<1>8. ASSUME NEW n \in 1 .. a
      PROVE  \E j \in Stores : /\ j < k /\ n = a - Before(Stores, j)
                               /\ Back(l.sq_index, n, SQSize) = window[j].sq
  <2>1. a - n \in 0 .. a - 1 /\ n = a - (a - n)
    BY <1>2
  <2>2. PICK j \in Stores : j < k /\ Before(Stores, j) = a - n
    BY <1>1, <2>1, BeforeOnto DEF a
  <2>3. QED
    BY <1>5, <1>6, <2>1, <2>2
<1>9. QED
  BY <1>2, <1>4, <1>7, <1>8 DEF a

(* The search of the load queue visits the loads behind the store.          *)
LEMMA SearchesLoads ==
  ASSUME IInv, NEW j \in Entries
  PROVE  /\ LoadsBehind(j) = lqLength - Before(Loads, j) /\ Before(Loads, j) \in Nat
         /\ \A k \in Loads : j < k =>
              /\ Before(Loads, k) \in Nat
              /\ Before(Loads, k) - Before(Loads, j) \in 0 .. LoadsBehind(j) - 1
              /\ LoadBehind(j, Before(Loads, k) - Before(Loads, j)) = window[k].lq
         /\ \A n \in 0 .. LoadsBehind(j) - 1 : \E k \in Loads :
              /\ n = Before(Loads, k) - Before(Loads, j)
              /\ LoadBehind(j, n) = window[k].lq
<1>1. LQSize \in Nat \ {0} /\ Loads \in SUBSET Nat /\ j \in Nat /\ j \in 1 .. Len(window)
  BY LoadsPlaced, LSUAssumption DEF Entries, IInv, WindowTyped
<1> DEFINE a == Before(Loads, j)
<1>2. /\ a \in 0 .. lqLength /\ a \in 0 .. LQSize /\ a \in Nat
      /\ lqLength \in 0 .. LQSize /\ Len(window) \in Nat
      /\ window[j].lq = Turn(lqHead + a, LQSize)
      /\ window[j].lqPhase = Flip(lqHeadPhase, lqHead + a, LQSize)
      /\ lqTail = Turn(lqHead + lqLength, LQSize)
      /\ lqTailPhase = Flip(lqHeadPhase, lqHead + lqLength, LQSize)
  BY <1>1, LoadsPlaced
<1>3. lqHead \in 0 .. LQSize - 1 /\ lqHeadPhase \in Phase
  BY LoadsPlaced
<1> HIDE DEF a
<1>4. LoadsBehind(j) = lqLength - a
  <2>1. Distance(Turn(lqHead + a, LQSize), Flip(lqHeadPhase, lqHead + a, LQSize),
                 Turn(lqHead + lqLength, LQSize),
                 Flip(lqHeadPhase, lqHead + lqLength, LQSize), LQSize) = lqLength - a
    BY <1>1, <1>2, <1>3, DistanceIs
  <2>2. QED
    BY <1>2, <2>1 DEF LoadsBehind
<1>5. ASSUME NEW n \in 0 .. lqLength - a - 1
      PROVE  LoadBehind(j, n) = Turn(lqHead + (a + n), LQSize) /\ a + n \in 0 .. lqLength - 1
  <2>1. n \in 0 .. LQSize /\ a + n < LQSize /\ a + n \in 0 .. lqLength - 1
    BY <1>1, <1>2
  <2>2. QED
    BY <1>1, <1>2, <1>3, <2>1, OnwardIs DEF LoadBehind
<1>6. \A k \in Loads : /\ Before(Loads, k) \in 0 .. lqLength - 1
                       /\ window[k].lq = Turn(lqHead + Before(Loads, k), LQSize)
  BY LoadsPlaced
<1>7. ASSUME NEW k \in Loads, j < k
      PROVE  /\ Before(Loads, k) \in Nat
             /\ Before(Loads, k) - a \in 0 .. lqLength - a - 1
             /\ LoadBehind(j, Before(Loads, k) - a) = window[k].lq
  <2>1. a <= Before(Loads, k)
    BY <1>1, <1>7, BeforeMonotone DEF a
  <2>2. /\ Before(Loads, k) - a \in 0 .. lqLength - a - 1
        /\ a + (Before(Loads, k) - a) = Before(Loads, k)
    BY <1>2, <1>6, <2>1
  <2>3. QED
    BY <1>5, <1>6, <2>2
<1>8. ASSUME NEW n \in 0 .. lqLength - a - 1
      PROVE  \E k \in Loads : n = Before(Loads, k) - a /\ LoadBehind(j, n) = window[k].lq
  <2>1. /\ a + n \in 0 .. Before(Loads, Len(window) + 1) - 1
        /\ Len(window) + 1 \in Nat
    <3>1. lqLength = Before(Loads, Len(window) + 1)
      BY LoadsPlaced
    <3>2. QED
      BY <1>2, <1>5, <3>1
  <2>2. PICK k \in Loads : Before(Loads, k) = a + n
    BY <1>1, <2>1, BeforeOnto
  <2>3. n = (a + n) - a
    BY <1>2
  <2>4. QED
    BY <1>5, <1>6, <2>2, <2>3
<1>9. QED
  BY <1>2, <1>4, <1>7, <1>8 DEF a

----------------------------------------------------------------------------
(* Where a value is from stays true.                                        *)
Same(e, q) ==
  /\ e.size = q.size /\ e.addr_avail = q.addr_avail /\ e.addr = q.addr
  /\ e.value_avail = q.value_avail /\ e.value = q.value /\ e.amo = q.amo
  /\ e.mdp_stall = q.mdp_stall
  /\ e.sq_index = q.sq_index /\ e.sq_index_phase = q.sq_index_phase

Keeps(s2, s, l) ==
  (PassedBy(s, l) => PassedBy(s2, l)) /\ (GivenBy(s, l) => GivenBy(s2, l))

StaysBelow(k, l, T2, S2, T, S) ==
  /\ \A j \in T \cup T2 : j < k => (j \in T2 <=> j \in T)
  /\ \A j \in T : j < k => Keeps(S2[j], S[j], l)

LEMMA SameKeeps ==
  ASSUME NEW s2, NEW s, Same(s2, s), NEW l
  PROVE  Keeps(s2, s, l)
BY DEF Same, Keeps, PassedBy, GivenBy, Conflict

LEMMA SameLoad ==
  ASSUME NEW l2, NEW l, Same(l2, l), NEW s
  PROVE  (PassedBy(s, l2) <=> PassedBy(s, l)) /\ (GivenBy(s, l2) <=> GivenBy(s, l))
BY DEF Same, PassedBy, GivenBy, Conflict

LEMMA FromStays ==
  ASSUME NEW k \in Nat, NEW l, NEW T \in SUBSET Nat, NEW S, NEW m, From(k, l, T, S, m),
         NEW l2, Same(l2, l), NEW T2 \in SUBSET Nat, NEW S2, StaysBelow(k, l, T2, S2, T, S)
  PROVE  From(k, l2, T2, S2, m)
<1>1. \A s : (PassedBy(s, l2) <=> PassedBy(s, l)) /\ (GivenBy(s, l2) <=> GivenBy(s, l))
  BY SameLoad
<1>2. \A j \in Nat : j < k /\ j \in T2 =>
        /\ j \in T /\ (PassedBy(S[j], l) => PassedBy(S2[j], l2))
  BY <1>1 DEF StaysBelow, Keeps
<1>3. \A j \in T : j < k => j \in T2 /\ (GivenBy(S[j], l) => GivenBy(S2[j], l2))
  BY <1>1 DEF StaysBelow, Keeps
<1>4. ASSUME NEW f \in T, FromStore(f, k, l, T, S)
      PROVE  f \in T2 /\ FromStore(f, k, l2, T2, S2)
  BY <1>2, <1>3, <1>4 DEF FromStore
<1>5. ASSUME FromMemory(k, l, T, S, m)
      PROVE  FromMemory(k, l2, T2, S2, m)
  BY <1>2, <1>5 DEF FromMemory, Same
<1>6. QED
  BY <1>4, <1>5 DEF From

(* The oldest instruction has left, a store for memory.                     *)
ShiftsBelow(k, l, T2, S2, T, S) ==
  /\ \A j \in Nat \ {0} : j \in T2 <=> j + 1 \in T
  /\ \A j \in T2 : j < k => Keeps(S2[j], S[j + 1], l)

Arrived(l, T, S, m2, m) ==
  /\ 1 \in T /\ GivenBy(S[1], l) => \A b \in Cover(l.addr, l.size) : m2[b] = l.value[b]
  /\ (1 \in T => PassedBy(S[1], l)) => \A b \in Cover(l.addr, l.size) : m2[b] = m[b]

LEMMA FromShifts ==
  ASSUME NEW k \in Nat \ {0}, NEW l, NEW T \in SUBSET (Nat \ {0}), NEW S, NEW m,
         From(k + 1, l, T, S, m), NEW l2, Same(l2, l),
         NEW T2 \in SUBSET (Nat \ {0}), NEW S2, ShiftsBelow(k, l, T2, S2, T, S),
         NEW m2, Arrived(l, T, S, m2, m)
  PROVE  From(k, l2, T2, S2, m2)
<1>1. \A s : (PassedBy(s, l2) <=> PassedBy(s, l)) /\ (GivenBy(s, l2) <=> GivenBy(s, l))
  BY SameLoad
<1>2. \A j \in T2 : j < k =>
        /\ j \in Nat \ {0} /\ j + 1 \in T /\ j + 1 < k + 1
        /\ PassedBy(S[j + 1], l) => PassedBy(S2[j], l2)
        /\ GivenBy(S[j + 1], l) => GivenBy(S2[j], l2)
  BY <1>1 DEF ShiftsBelow, Keeps
<1>3. Cover(l2.addr, l2.size) = Cover(l.addr, l.size) /\ l2.value = l.value
  BY DEF Same
<1>4. ASSUME NEW f \in T, FromStore(f, k + 1, l, T, S), f = 1
      PROVE  FromMemory(k, l2, T2, S2, m2)
  <2>1. \A b \in Cover(l.addr, l.size) : m2[b] = l.value[b]
    BY <1>4 DEF FromStore, Arrived
  <2>2. \A j \in T2 : j < k => 1 < j + 1 /\ j + 1 < k + 1
    BY <1>2
  <2>3. \A j \in T2 : j < k => PassedBy(S2[j], l2)
    BY <1>2, <1>4, <2>2 DEF FromStore
  <2>4. QED
    BY <1>3, <2>1, <2>3 DEF FromMemory
<1>5. ASSUME NEW f \in T, FromStore(f, k + 1, l, T, S), f # 1
      PROVE  \E g \in T2 : FromStore(g, k, l2, T2, S2)
  <2>1. f - 1 \in Nat \ {0} /\ (f - 1) + 1 = f /\ f < k + 1 /\ f - 1 < k
    BY <1>5 DEF FromStore
  <2>2. f - 1 \in T2
    BY <2>1 DEF ShiftsBelow
  <2>3. GivenBy(S2[f - 1], l2)
    BY <1>2, <1>5, <2>1, <2>2 DEF FromStore
  <2>4. ASSUME NEW j \in T2, f - 1 < j, j < k PROVE PassedBy(S2[j], l2)
    <3>1. j \in Nat /\ f < j + 1 /\ j + 1 < k + 1
      BY <2>1, <2>4
    <3>2. PassedBy(S[j + 1], l)
      BY <1>2, <1>5, <2>4, <3>1 DEF FromStore
    <3>3. QED
      BY <1>2, <2>4, <3>2
  <2>5. QED
    BY <2>1, <2>2, <2>3, <2>4 DEF FromStore
<1>6. ASSUME FromMemory(k + 1, l, T, S, m)
      PROVE  FromMemory(k, l2, T2, S2, m2)
  <2>1. 1 \in T => PassedBy(S[1], l)
    BY <1>6 DEF FromMemory
  <2>2. \A b \in Cover(l.addr, l.size) : m2[b] = m[b]
    BY <2>1 DEF Arrived
  <2>3. \A j \in T2 : j < k => PassedBy(S2[j], l2)
    BY <1>2, <1>6 DEF FromMemory
  <2>4. QED
    BY <1>3, <1>6, <2>2, <2>3 DEF FromMemory
<1>7. QED
  BY <1>4, <1>5, <1>6 DEF From

----------------------------------------------------------------------------
(* The search.                                                              *)
LEMMA LeastNat ==
  ASSUME NEW T \in SUBSET Nat, T # {}
  PROVE  \E n \in T : \A m \in T : n <= m
<1>1. PICK n \in T : \A m \in T : ~ (<<m, n>> \in OpToRel(<, Nat))
  BY NatLessThanWellFounded, WFMin
<1>2. \A m \in T : ~ (m < n)
  BY <1>1 DEF OpToRel
<1>3. QED
  BY <1>2

LEMMA VerdictPasses ==
  ASSUME NEW s, NEW l
  PROVE  Verdict(s, l) = "pass" <=> PassedBy(s, l)
<1>1. CASE ~ s.addr_avail
  BY <1>1 DEF Verdict, PassedBy
<1>2. CASE s.addr_avail /\ ~ Conflict(s, l)
  BY <1>2 DEF Verdict, PassedBy
<1>3. CASE s.addr_avail /\ Conflict(s, l)
  <2>1. Verdict(s, l) = IF s.size = l.size /\ s.value_avail THEN "forward" ELSE "stall"
    BY <1>3 DEF Verdict
  <2>2. QED
    BY <1>3, <2>1 DEF PassedBy
<1>4. QED
  BY <1>1, <1>2, <1>3

(* Every store between the load and the one that decides is passed.         *)
LEMMA DecidingFinds ==
  ASSUME IInv, NEW k \in Entries, NEW l,
         l.sq_index = window[k].sq, l.sq_index_phase = window[k].sqPhase
  PROVE  /\ Deciding(l) = 0 => \A j \in Stores : j < k => PassedBy(StoreOf(j), l)
         /\ Deciding(l) # 0 => \E f \in Stores :
              /\ f < k /\ SQ[Back(l.sq_index, Deciding(l), SQSize)] = StoreOf(f)
              /\ \A j \in Stores : f < j /\ j < k => PassedBy(StoreOf(j), l)
<1> DEFINE n    == Deciding(l)
           B    == Before(Stores, k)
           at(d) == SQ[Back(l.sq_index, d, SQSize)]
           say  == {d \in 1 .. StoresBefore(l) : Verdict(at(d), l) # "pass"}
<1>1. StoresBefore(l) = B /\ B \in Nat
  BY SearchesStores
<1>2. \A j \in Stores : j < k => /\ B - Before(Stores, j) \in 1 .. B
                                /\ at(B - Before(Stores, j)) = StoreOf(j)
  BY SearchesStores DEF StoreOf
<1>3. \A d \in 1 .. B : \E j \in Stores :
        j < k /\ d = B - Before(Stores, j) /\ at(d) = StoreOf(j)
  BY SearchesStores DEF StoreOf
<1>4. \A j \in Stores : j \in Nat /\ Before(Stores, j) \in Nat
  BY StoresPlaced
<1>5. n = IF say = {} THEN 0 ELSE CHOOSE d \in say : \A m \in say : d <= m
  BY DEF Deciding, NearestFirst
<1> HIDE DEF n, B, at
<1>6. say \subseteq 1 .. B
  BY <1>1
<1>7. \A d \in 1 .. B : d \notin say => PassedBy(at(d), l)
  BY <1>1, VerdictPasses
<1> HIDE DEF say
<1>8. CASE say = {}
  <2>1. n = 0
    BY <1>5, <1>8
  <2>2. \A j \in Stores : j < k => PassedBy(StoreOf(j), l)
    BY <1>2, <1>7, <1>8
  <2>3. QED
    BY <2>1, <2>2 DEF n
<1>9. CASE say # {}
  <2>1. \E d \in say : \A m \in say : d <= m
    <3>1. say \in SUBSET Nat
      BY <1>6
    <3>2. QED
      BY <1>9, <3>1, LeastNat
  <2>2. n \in say /\ \A m \in say : n <= m
    BY <1>5, <1>9, <2>1
  <2>3. PICK f \in Stores : f < k /\ n = B - Before(Stores, f) /\ at(n) = StoreOf(f)
    BY <1>3, <1>6, <2>2
  <2>4. ASSUME NEW j \in Stores, f < j, j < k PROVE PassedBy(StoreOf(j), l)
    <3>1. Before(Stores, f) < Before(Stores, j)
      <4>1. Stores \in SUBSET Nat /\ j \in Nat
        BY <1>4
      <4>2. QED
        BY <2>4, <4>1, BeforeStrict
    <3>2. B - Before(Stores, j) \in 1 .. B /\ B - Before(Stores, j) < n
      BY <1>1, <1>2, <1>4, <2>3, <2>4, <3>1
    <3>3. B - Before(Stores, j) \notin say
      BY <1>1, <1>4, <1>6, <2>2, <3>2
    <3>4. QED
      BY <1>2, <1>7, <2>4, <3>2, <3>3
  <2>5. n # 0
    BY <1>6, <2>2
  <2>6. QED
    BY <2>3, <2>4, <2>5 DEF n, at
<1>10. QED
  BY <1>8, <1>9

----------------------------------------------------------------------------
(* Steps that leave the first instructions of the window where they are.    *)

(* The first M instructions stay; if they change, they are marked.          *)
Kept(M) ==
  /\ M <= Len(window) /\ M <= Len(window')
  /\ \A i \in 1 .. M :
       /\ window'[i].op = window[i].op /\ window'[i].lq = window[i].lq
       /\ window'[i].sq = window[i].sq /\ window'[i].sqPhase = window[i].sqPhase
       /\ window[i].exception => window'[i].exception
       /\ window[i].load_viol => window'[i].load_viol

LEMMA Places ==
  ASSUME IInv
  PROVE  /\ Len(window) \in Nat /\ Entries = 1 .. Len(window)
         /\ Loads \in SUBSET (Nat \ {0}) /\ Stores \in SUBSET (Nat \ {0})
         /\ Loads \subseteq Entries /\ Stores \subseteq Entries
<1>1. window \in Seq(Instr)
  BY DEF IInv, WindowTyped
<1>2. Len(window) \in Nat /\ Entries = 1 .. Len(window)
  BY <1>1 DEF Entries
<1>3. QED
  BY <1>2 DEF Loads, Stores

LEMMA PlacesAfter ==
  ASSUME IInv'
  PROVE  /\ Len(window') \in Nat /\ Entries' = 1 .. Len(window')
         /\ Loads' \in SUBSET (Nat \ {0}) /\ Stores' \in SUBSET (Nat \ {0})
         /\ Loads' \subseteq Entries' /\ Stores' \subseteq Entries'
<1>1. window' \in Seq(Instr)
  BY DEF IInv, WindowTyped
<1>2. Len(window') \in Nat /\ Entries' = 1 .. Len(window')
  BY <1>1 DEF Entries
<1>3. QED
  BY <1>2 DEF Loads, Stores

LEMMA KeptPlaces ==
  ASSUME IInv, IInv', NEW M \in Nat, Kept(M), NEW i \in 1 .. M
  PROVE  /\ i \in Entries /\ i \in Entries'
         /\ i \in Loads' <=> i \in Loads
         /\ i \in Stores' <=> i \in Stores
<1>1. i \in Entries /\ i \in Entries'
  BY Places, PlacesAfter DEF Kept
<1>2. window'[i].op = window[i].op
  BY DEF Kept
<1>3. QED
  BY <1>1, <1>2 DEF Loads, Stores

LEMMA ClearStays ==
  ASSUME IInv, IInv', NEW M \in Nat, Kept(M), NEW k \in 1 .. M, k \in Loads, Clear(k)',
         Same(LoadOf(k)', LoadOf(k))
  PROVE  Clear(k)
<1>1. LoadOf(k).value_avail /\ ~ window[k].exception /\ AlignedLoad(LoadOf(k))
  BY DEF Kept, Clear, Same, AlignedLoad
<1>2. ASSUME NEW j \in Stores, j < k PROVE ~ window[j].exception
  <2>1. j \in 1 .. M
    BY <1>2, Places
  <2>2. j \in Stores'
    BY <2>1, KeptPlaces
  <2>3. QED
    BY <1>2, <2>1, <2>2 DEF Kept, Clear, Unmarked
<1>3. ASSUME NEW j \in Loads, j <= k PROVE ~ window[j].load_viol
  <2>1. j \in 1 .. M
    BY <1>3, Places
  <2>2. j \in Loads'
    BY <2>1, KeptPlaces
  <2>3. QED
    BY <1>3, <2>1, <2>2 DEF Kept, Clear
<1>4. QED
  BY <1>1, <1>2, <1>3 DEF Clear, Unmarked

StoresKeep(k) == \A j \in Stores : j < k => Keeps(StoreOf(j)', StoreOf(j), LoadOf(k))

LEMMA SourcedStays ==
  ASSUME IInv, IInv', NEW M \in Nat, Kept(M), NEW k \in 1 .. M, k \in Loads, Sourced(k),
         Same(LoadOf(k)', LoadOf(k)), mem' = mem, StoresKeep(k)
  PROVE  Sourced(k)'
<1>1. StaysBelow(k, LoadOf(k), Stores', StoreView', Stores, StoreView)
  <2>1. ASSUME NEW j \in Stores \cup Stores', j < k
        PROVE  j \in Stores' <=> j \in Stores
    <3>1. j \in 1 .. M
      BY <2>1, Places, PlacesAfter
    <3>2. QED
      BY <3>1, KeptPlaces
  <2>2. ASSUME NEW j \in Stores, j < k
        PROVE  Keeps(StoreView'[j], StoreView[j], LoadOf(k))
    <3>1. StoreView[j] = StoreOf(j) /\ StoreView'[j] = StoreOf(j)'
      BY <2>1, <2>2 DEF StoreView
    <3>2. QED
      BY <2>2, <3>1 DEF StoresKeep
  <2>3. QED
    BY <2>1, <2>2 DEF StaysBelow
<1>2. From(k, LoadOf(k), Stores, StoreView, mem)
  BY DEF Sourced
<1>3. k \in Nat /\ Stores \in SUBSET Nat /\ Stores' \in SUBSET Nat
  BY Places, PlacesAfter
<1>4. From(k, LoadOf(k)', Stores', StoreView', mem)
  BY <1>1, <1>2, <1>3, FromStays
<1>5. QED
  BY <1>4 DEF Sourced

LEMMA UnchangedKept ==
  ASSUME IInv, UNCHANGED window
  PROVE  Kept(Len(window)) /\ Len(window') = Len(window)
BY Places DEF Kept

LEMMA MarkKept ==
  ASSUME IInv, NEW k, NEW flag \in {"resolved", "exception", "load_viol"}, Mark(k, flag)
  PROVE  /\ Kept(Len(window)) /\ Len(window') = Len(window)
         /\ k \in Entries => window'[k][flag] = TRUE
<1>1. window \in Seq(Instr) /\ Len(window) \in Nat
  BY DEF IInv, WindowTyped
<1>2. window' = [window EXCEPT ![k] = [window[k] EXCEPT ![flag] = TRUE]]
  BY DEF Mark
<1>3. Len(window') = Len(window) /\ DOMAIN window = 1 .. Len(window)
      /\ \A i \in 1 .. Len(window) : window[i] \in Instr
  BY <1>1, <1>2
<1>4. ASSUME NEW i \in 1 .. Len(window)
      PROVE  /\ window'[i].op = window[i].op /\ window'[i].lq = window[i].lq
             /\ window'[i].sq = window[i].sq /\ window'[i].sqPhase = window[i].sqPhase
             /\ window[i].exception => window'[i].exception
             /\ window[i].load_viol => window'[i].load_viol
  <2>1. window'[i] = IF i = k THEN [window[k] EXCEPT ![flag] = TRUE] ELSE window[i]
    BY <1>2, <1>3
  <2>2. CASE i = k
    <3>1. window[k] \in Instr /\ window'[i] = [window[k] EXCEPT ![flag] = TRUE]
      BY <1>3, <2>1, <2>2
    <3>2. QED
      BY <2>2, <3>1 DEF Instr
  <2>3. CASE i # k
    BY <2>1, <2>3
  <2>4. QED
    BY <2>2, <2>3
<1>5. ASSUME k \in Entries PROVE window'[k][flag] = TRUE
  <2>1. k \in DOMAIN window /\ window[k] \in Instr
    BY <1>3, <1>5, Places
  <2>2. window'[k] = [window[k] EXCEPT ![flag] = TRUE]
    BY <1>2, <2>1
  <2>3. QED
    BY <2>1, <2>2 DEF Instr
<1>6. Len(window) <= Len(window) /\ Len(window) <= Len(window')
  BY <1>1, <1>3
<1>7. Kept(Len(window))
  BY <1>4, <1>6 DEF Kept
<1>8. QED
  BY <1>3, <1>5, <1>7

(* Those that stay, stay ordered.                                           *)
SamePlace(e, q) ==
  /\ e.sq_index = q.sq_index /\ e.sq_index_phase = q.sq_index_phase
  /\ e.mdp_stall = q.mdp_stall

OrderedBelow(M) ==
  /\ \A k \in Loads : k <= M => Placed(k)
  /\ \A j \in Stores : j <= M => Settled(j)

LEMMA SettledStays ==
  ASSUME NEW M \in Nat, Kept(M), Ordered, NEW j \in Stores, j \in 1 .. M,
         Same(StoreOf(j)', StoreOf(j))
  PROVE  Settled(j)'
<1>1. Settled(j)
  BY DEF Ordered
<1>2. window'[j].op = window[j].op /\ (window[j].exception => window'[j].exception)
  BY DEF Kept
<1>3. QED
  BY <1>1, <1>2 DEF Settled, Same

LEMMA OrderedStays ==
  ASSUME IInv, IInv', NEW M \in Nat, Kept(M), Ordered,
         \A k \in Loads : k <= M => SamePlace(LoadOf(k)', LoadOf(k)),
         \A j \in Stores : j <= M => Settled(j)'
  PROVE  OrderedBelow(M)'
<1>1. ASSUME NEW k \in Loads', k <= M PROVE Placed(k)'
  <2>1. k \in 1 .. M
    BY <1>1, PlacesAfter
  <2>2. k \in Loads /\ Placed(k)
    BY <2>1, KeptPlaces DEF Ordered
  <2>3. SamePlace(LoadOf(k)', LoadOf(k))
    BY <1>1, <2>2
  <2>4. window'[k].sq = window[k].sq /\ window'[k].sqPhase = window[k].sqPhase
    BY <2>1 DEF Kept
  <2>5. QED
    BY <2>2, <2>3, <2>4 DEF Placed, SamePlace
<1>2. ASSUME NEW j \in Stores', j <= M PROVE Settled(j)'
  <2>1. j \in 1 .. M
    BY <1>2, PlacesAfter
  <2>2. j \in Stores
    BY <2>1, KeptPlaces
  <2>3. QED
    BY <1>2, <2>2
<1>3. QED
  BY <1>1, <1>2 DEF OrderedBelow

LEMMA PreciseStays ==
  ASSUME IInv, IInv', Precise, NEW M \in Nat, Kept(M), NEW k \in Loads', k <= M, Clear(k)',
         Same(LoadOf(k)', LoadOf(k)), mem' = mem, StoresKeep(k)
  PROVE  Sourced(k)'
<1>1. k \in 1 .. M
  BY PlacesAfter
<1>2. k \in Loads
  BY <1>1, KeptPlaces
<1>4. Clear(k)
  BY <1>1, <1>2, ClearStays
<1>5. Sourced(k)
  BY <1>2, <1>4 DEF Precise
<1>6. QED
  BY <1>1, <1>2, <1>5, SourcedStays

(* The first M instructions and their entries stay as they are.             *)
EntriesStay(M) ==
  /\ \A k \in Loads : k <= M => Same(LoadOf(k)', LoadOf(k))
  /\ \A j \in Stores : j <= M => Same(StoreOf(j)', StoreOf(j))

PreciseBelow(M) == \A k \in Loads : k <= M => (Clear(k) => Sourced(k))

LEMMA Quiet ==
  ASSUME PInv, IInv', NEW M \in Nat, Kept(M), EntriesStay(M), mem' = mem
  PROVE  OrderedBelow(M)' /\ PreciseBelow(M)'
<1>1. IInv /\ Ordered /\ Precise
  BY DEF PInv
<1>2. OrderedBelow(M)'
  <2>1. \A k \in Loads : k <= M => SamePlace(LoadOf(k)', LoadOf(k))
    BY DEF EntriesStay, Same, SamePlace
  <2>2. ASSUME NEW j \in Stores, j <= M PROVE Settled(j)'
    <3>1. j \in 1 .. M
      BY <1>1, <2>2, Places
    <3>2. QED
      BY <1>1, <2>2, <3>1, SettledStays DEF EntriesStay
  <2>3. QED
    BY <1>1, <2>1, <2>2, OrderedStays
<1>3. ASSUME NEW k \in Loads', k <= M, Clear(k)' PROVE Sourced(k)'
  <2>1. k \in 1 .. M /\ k \in Nat
    BY <1>3, PlacesAfter
  <2>2. k \in Loads
    BY <1>1, <2>1, KeptPlaces
  <2>3. Same(LoadOf(k)', LoadOf(k))
    BY <1>3, <2>2 DEF EntriesStay
  <2>4. StoresKeep(k)
    <3>1. ASSUME NEW j \in Stores, j < k PROVE Keeps(StoreOf(j)', StoreOf(j), LoadOf(k))
      <4>1. j <= M
        BY <1>1, <1>3, <2>1, <3>1, Places
      <4>2. Same(StoreOf(j)', StoreOf(j))
        BY <4>1 DEF EntriesStay
      <4>3. QED
        BY <4>2, SameKeeps
    <3>2. QED
      BY <3>1 DEF StoresKeep
  <2>5. QED
    BY <1>1, <1>3, <2>3, <2>4, PreciseStays
<1>4. PreciseBelow(M)'
  BY <1>3 DEF PreciseBelow
<1>5. QED
  BY <1>2, <1>4

LEMMA EntriesRead ==
  ASSUME NEW M \in Nat, Kept(M), NEW i \in 1 .. M
  PROVE  LoadOf(i)' = LQ'[window[i].lq] /\ StoreOf(i)' = SQ'[window[i].sq]
BY DEF Kept, LoadOf, StoreOf

LEMMA SameItself ==
  ASSUME NEW e, NEW q, e = q
  PROVE  Same(e, q)
BY DEF Same

LEMMA Whole ==
  ASSUME IInv', NEW M \in Nat, Len(window') = M, OrderedBelow(M)', PreciseBelow(M)',
         \A k \in 1 .. M : IsAmo(window'[k].op) => k = M
  PROVE  PInv'
<1>1. Entries' = 1 .. M /\ Loads' \subseteq Entries' /\ Stores' \subseteq Entries'
  BY PlacesAfter
<1>2. \A k \in Entries' : k <= M
  BY <1>1
<1>3. \A k \in Loads' : Placed(k)' /\ (Clear(k)' => Sourced(k)')
  BY <1>1, <1>2 DEF OrderedBelow, PreciseBelow
<1>4. \A j \in Stores' : Settled(j)'
  BY <1>1, <1>2 DEF OrderedBelow
<1>5. Ordered'
  BY <1>1, <1>3, <1>4 DEF Ordered
<1>6. Precise'
  BY <1>3 DEF Precise
<1>7. QED
  BY <1>5, <1>6 DEF PInv

LEMMA WholeInPlace ==
  ASSUME PInv, IInv', Kept(Len(window)), Len(window') = Len(window),
         OrderedBelow(Len(window))', PreciseBelow(Len(window))'
  PROVE  PInv'
<1>1. Len(window) \in Nat /\ Entries = 1 .. Len(window)
  BY Places DEF PInv
<1>2. \A k \in 1 .. Len(window) : IsAmo(window'[k].op) => k = Len(window)
  BY <1>1 DEF PInv, Ordered, Kept
<1>3. QED
  BY <1>1, <1>2, Whole

LEMMA ResolveCorrectPrecise ==
  ASSUME PInv, IInv', NEW i \in DOMAIN window, ResolveCorrect(i)
  PROVE  PInv'
<1>1. IInv /\ Len(window) \in Nat
  BY Places DEF PInv
<1>2. Kept(Len(window)) /\ Len(window') = Len(window)
  BY <1>1, MarkKept DEF ResolveCorrect
<1>3. LQ' = LQ /\ SQ' = SQ /\ mem' = mem
  BY DEF ResolveCorrect, lqVars, sqVars
<1>4. EntriesStay(Len(window))
  BY <1>1, <1>2, <1>3, EntriesRead, SameItself, Places DEF EntriesStay, LoadOf, StoreOf
<1>5. QED
  BY <1>1, <1>2, <1>3, <1>4, Quiet, WholeInPlace

LEMMA StutterPrecise ==
  ASSUME PInv, IInv', UNCHANGED vars
  PROVE  PInv'
<1>1. IInv /\ Len(window) \in Nat
  BY Places DEF PInv
<1>2. LQ' = LQ /\ SQ' = SQ /\ mem' = mem /\ window' = window
  BY DEF vars, lqVars, sqVars
<1>3. Kept(Len(window)) /\ Len(window') = Len(window)
  BY <1>1, <1>2, UnchangedKept
<1>4. EntriesStay(Len(window))
  BY <1>1, <1>2, <1>3, EntriesRead, SameItself, Places DEF EntriesStay, LoadOf, StoreOf
<1>5. QED
  BY <1>1, <1>2, <1>3, <1>4, Quiet, WholeInPlace

LEMMA SquashPrecise ==
  ASSUME PInv, IInv', Squash
  PROVE  PInv'
<1>1. window' = <<>>
  BY DEF Squash
<1>2. Entries' = {} /\ Loads' = {} /\ Stores' = {}
  BY <1>1 DEF Entries, Loads, Stores
<1>3. QED
  BY <1>2 DEF PInv, Ordered, Precise

LEMMA MispredictPrecise ==
  ASSUME PInv, IInv', NEW i \in DOMAIN window, Mispredict(i)
  PROVE  PInv'
<1>1. /\ IInv /\ Len(window) \in Nat /\ i \in 1 .. Len(window) /\ window \in Seq(Instr)
      /\ Entries = 1 .. Len(window)
  BY Places DEF PInv, IInv, WindowTyped
<1>2. /\ window' = SubSeq([window EXCEPT ![i].resolved = TRUE], 1, i)
      /\ LQ' = Revalidate(LQ, lqHead, lqLength', LQSize)
      /\ SQ' = Revalidate(SQ, sqHead, sqLength', SQSize)
      /\ mem' = mem
  BY DEF Mispredict
<1> DEFINE u == [window EXCEPT ![i].resolved = TRUE]
<1>3. /\ u \in Seq(Instr) /\ Len(u) = Len(window)
      /\ \A j \in 1 .. Len(window) :
           /\ u[j].op = window[j].op /\ u[j].lq = window[j].lq
           /\ u[j].sq = window[j].sq /\ u[j].sqPhase = window[j].sqPhase
  <2>1. Alike(u, window)
    BY <1>1, AlikeMarked
  <2> HIDE DEF u
  <2>2. QED
    BY <2>1 DEF Alike
<1>4. \A j \in 1 .. Len(window) :
        u[j].exception = window[j].exception /\ u[j].load_viol = window[j].load_viol
  <2>1. \A j \in 1 .. Len(window) : window[j] \in Instr
    BY <1>1
  <2>2. \A j \in 1 .. Len(window) :
          u[j] = IF j = i THEN [window[i] EXCEPT !.resolved = TRUE] ELSE window[j]
    BY <1>1
  <2>3. QED
    BY <2>1, <2>2 DEF Instr
<1>5. Prefix(window', u, i)
  BY <1>2 DEF Prefix
<1> HIDE DEF u
<1>6. Len(window') = i /\ \A j \in 1 .. i : window'[j] = u[j]
  BY <1>1, <1>3, <1>5, SubSeqProperties DEF Prefix
<1>7. i \in Nat /\ Kept(i)
  <2>1. i \in Nat /\ i <= Len(window) /\ i <= Len(window') /\ \A j \in 1 .. i : j \in 1 .. Len(window)
    BY <1>1, <1>6
  <2>2. QED
    BY <1>3, <1>4, <1>6, <2>1 DEF Kept
<1>8. EntriesStay(i)
  <2>1. ASSUME NEW k \in Loads, k <= i PROVE Same(LoadOf(k)', LoadOf(k))
    <3>1. k \in 1 .. i /\ k \in DOMAIN window
      BY <1>1, <1>7, <2>1, Places
    <3>2. LoadOf(k)' = LQ'[window[k].lq] /\ window[k].lq \in LQIndex /\ Typed(LoadOf(k))
      BY <1>1, <1>7, <3>1, EntriesRead, PositionTyped DEF LoadOf
    <3>3. \E b : LoadOf(k)' = [LoadOf(k) EXCEPT !.valid = b]
      BY <1>1, <1>2, <3>2 DEF Revalidate, IInv, LQTyped, LoadOf
    <3>4. QED
      BY <3>2, <3>3 DEF Same, Typed, NoEntry
  <2>2. ASSUME NEW k \in Stores, k <= i PROVE Same(StoreOf(k)', StoreOf(k))
    <3>1. k \in 1 .. i /\ k \in DOMAIN window
      BY <1>1, <1>7, <2>2, Places
    <3>2. StoreOf(k)' = SQ'[window[k].sq] /\ window[k].sq \in SQIndex /\ Typed(StoreOf(k))
      BY <1>1, <1>7, <3>1, EntriesRead, PositionTyped DEF StoreOf
    <3>3. \E b : StoreOf(k)' = [StoreOf(k) EXCEPT !.valid = b]
      BY <1>1, <1>2, <3>2 DEF Revalidate, IInv, SQTyped, StoreOf
    <3>4. QED
      BY <3>2, <3>3 DEF Same, Typed, NoEntry
  <2>3. QED
    BY <2>1, <2>2 DEF EntriesStay
<1>9. ASSUME NEW j \in 1 .. i, IsAmo(window'[j].op) PROVE j = i
  <2>1. j \in Entries /\ IsAmo(window[j].op)
    BY <1>1, <1>7, <1>9 DEF Kept
  <2>2. QED
    BY <1>1, <1>9, <2>1 DEF PInv, Ordered
<1>10. OrderedBelow(i)' /\ PreciseBelow(i)'
  BY <1>2, <1>7, <1>8, Quiet
<1>11. QED
  BY <1>6, <1>7, <1>9, <1>10, Whole

(* An instruction enters behind the window.                                 *)
LEMMA Entered ==
  ASSUME PInv, NEW e \in Instr, Appended(window', window, e)
  PROVE  /\ Len(window) \in Nat /\ Kept(Len(window)) /\ Len(window') = Len(window) + 1
         /\ window'[Len(window) + 1] = e
<1>1. window \in Seq(Instr) /\ Len(window) \in Nat
  BY DEF PInv, IInv, WindowTyped
<1>2. /\ Len(window') = Len(window) + 1 /\ window'[Len(window) + 1] = e
      /\ \A i \in 1 .. Len(window) : window'[i] = window[i]
  BY <1>1 DEF Appended
<1>3. Len(window) <= Len(window) /\ Len(window) <= Len(window')
  BY <1>1, <1>2
<1>4. Kept(Len(window))
  BY <1>2, <1>3 DEF Kept
<1>5. QED
  BY <1>1, <1>2, <1>4

LEMMA EnteredPrecise ==
  ASSUME PInv, IInv', NEW e \in Instr, Appended(window', window, e),
         NEW N \in Nat, N = Len(window), EntriesStay(N), mem' = mem,
         \A j \in Entries : ~ IsAmo(window[j].op),
         IsLoad(e.op) => Placed(N + 1)' /\ ~ LoadOf(N + 1)'.value_avail,
         IsStore(e.op) => Settled(N + 1)'
  PROVE  PInv'
<1>1. N \in Nat /\ Kept(N) /\ Len(window') = N + 1 /\ window'[N + 1] = e
  BY Entered
<1>2. OrderedBelow(N)' /\ PreciseBelow(N)'
  BY <1>1, Quiet
<1>3. Entries' = 1 .. N + 1 /\ Loads' \subseteq Entries' /\ Stores' \subseteq Entries'
  BY <1>1, PlacesAfter
<1>4. \A k \in Entries' : k <= N \/ k = N + 1
  BY <1>1, <1>3
<1>5. N + 1 \in Loads' => IsLoad(e.op)
  BY <1>1 DEF Loads
<1>6. N + 1 \in Stores' => IsStore(e.op)
  BY <1>1 DEF Stores
<1>7. OrderedBelow(N + 1)'
  <2>1. \A k \in Loads' : Placed(k)'
    BY <1>2, <1>3, <1>4, <1>5 DEF OrderedBelow
  <2>2. \A j \in Stores' : Settled(j)'
    BY <1>2, <1>3, <1>4, <1>6 DEF OrderedBelow
  <2>3. QED
    BY <2>1, <2>2 DEF OrderedBelow
<1>8. PreciseBelow(N + 1)'
  <2>1. N + 1 \in Loads' => ~ Clear(N + 1)'
    BY <1>5 DEF Clear
  <2>2. \A k \in Loads' : Clear(k)' => Sourced(k)'
    BY <1>2, <1>3, <1>4, <2>1 DEF PreciseBelow
  <2>3. QED
    BY <2>2 DEF PreciseBelow
<1>9. ASSUME NEW k \in 1 .. N + 1, IsAmo(window'[k].op) PROVE k = N + 1
  <2>1. Entries = 1 .. N
    BY Places DEF PInv
  <2>2. k \notin 1 .. N
    BY <1>1, <1>9, <2>1 DEF Kept
  <2>3. QED
    BY <1>1, <2>2
<1>10. N + 1 \in Nat
  BY <1>1
<1>11. QED
  BY <1>1, <1>7, <1>8, <1>9, <1>10, Whole

LEMMA DispatchLoadPrecise ==
  ASSUME PInv, IInv', NEW op \in Ops, NEW size \in Sizes,
         NEW stall \in {TRUE, ~ SpecDisambig}, IsLoad(op), DispatchLoad(op, size, stall)
  PROVE  PInv'
<1> DEFINE e == InFlight(op)
           q == [NewEntry(op, size) EXCEPT !.mdp_stall = stall,
                   !.sq_index = sqTail, !.sq_index_phase = sqTailPhase]
<1>1. IInv /\ e \in Instr /\ e.op = op /\ e.lq = lqTail /\ e.sq = sqTail /\ e.sqPhase = sqTailPhase
  BY InFlightTyped DEF PInv
<1>2. /\ q.mdp_stall = stall /\ q.sq_index = sqTail /\ q.sq_index_phase = sqTailPhase
      /\ q.value_avail = FALSE
  BY NewTyped DEF Typed, NewEntry, NoEntry
<1>3. /\ LQ' = [LQ EXCEPT ![lqTail] = q] /\ Appended(window', window, e)
      /\ SQ' = SQ /\ mem' = mem /\ ~ (lqLength + 1 > LQSize)
      /\ \A k \in DOMAIN window : ~ IsAmo(window[k].op)
  BY DEF DispatchLoad, MayEnter, Stall, Appended, sqVars
<1>4. /\ lqTail \in LQIndex /\ lqLength < LQSize /\ DOMAIN LQ = LQIndex
      /\ window \in Seq(Instr) /\ Entries = DOMAIN window /\ Entries = 1 .. Len(window)
      /\ Len(window) \in Nat
  BY <1>1, <1>3, LQPointers, LSUAssumption, Places DEF IInv, LQTyped, WindowTyped, Entries
<1> HIDE DEF e, q
<1>n. PICK N \in Nat : N = Len(window)
  BY <1>4
<1>5. Kept(N) /\ window'[N + 1] = e
  BY <1>1, <1>3, <1>n, Entered
<1>6. EntriesStay(N)
  <2>1. ASSUME NEW k \in Loads PROVE Same(LoadOf(k)', LoadOf(k))
    <3>1. k \in 1 .. N /\ window[k].lq # lqTail
      BY <1>1, <1>4, <1>n, LoadsApart, Places
    <3>2. LoadOf(k)' = LQ'[window[k].lq]
      BY <1>5, <3>1, EntriesRead
    <3>3. QED
      BY <1>3, <1>4, <3>1, <3>2, SameItself DEF LoadOf
  <2>2. ASSUME NEW k \in Stores PROVE Same(StoreOf(k)', StoreOf(k))
    <3>1. k \in 1 .. N
      BY <1>1, <1>4, <1>n, Places
    <3>2. StoreOf(k)' = SQ'[window[k].sq]
      BY <1>5, <3>1, EntriesRead
    <3>3. QED
      BY <1>3, <3>2, SameItself DEF StoreOf
  <2>3. QED
    BY <2>1, <2>2 DEF EntriesStay
<1>7. LoadOf(N + 1)' = q
  BY <1>1, <1>3, <1>4, <1>5 DEF LoadOf
<1>8. Placed(N + 1)' /\ ~ LoadOf(N + 1)'.value_avail
  BY <1>1, <1>2, <1>5, <1>7 DEF Placed
<1>9. ~ IsStore(e.op)
  BY <1>1 DEF IsLoad, IsStore
<1>10. QED
  BY <1>1, <1>3, <1>4, <1>6, <1>8, <1>9, <1>n, EnteredPrecise

LEMMA DispatchStorePrecise ==
  ASSUME PInv, IInv', NEW op \in Ops, NEW size \in Sizes, IsStore(op), DispatchStore(op, size)
  PROVE  PInv'
<1> DEFINE Shown(q, e) == /\ q.amo = IsAmo(op)
                          /\ q.addr_avail /\ ~ e.exception => Aligned(q.addr, q.size)
<1>0. PICK trap \in BOOLEAN : \E q, e :
        /\ e \in {InFlight(op), [InFlight(op) EXCEPT !.exception = trap]}
        /\ Shown(q, e)
        /\ SQ' = [SQ EXCEPT ![sqTail] = q] /\ window' = Append(window, e)
  <2>1. CASE /\ SQ' = [SQ EXCEPT ![sqTail] = NewEntry(op, size)]
             /\ window' = Append(window, InFlight(op))
    <3>1. Shown(NewEntry(op, size), InFlight(op))
      BY NewTyped DEF NewEntry, NoEntry
    <3>2. QED
      BY <2>1, <3>1
  <2>2. ASSUME NEW a \in Addr, NEW trap \in BOOLEAN, trap \/ Aligned(a, size),
               SQ' = [SQ EXCEPT ![sqTail] = [NewEntry(op, size) EXCEPT
                        !.addr_avail = TRUE, !.addr = a]],
               window' = Append(window, [InFlight(op) EXCEPT !.exception = trap])
        PROVE  \E tr \in BOOLEAN : \E q, e :
                 /\ e \in {InFlight(op), [InFlight(op) EXCEPT !.exception = tr]}
                 /\ Shown(q, e)
                 /\ SQ' = [SQ EXCEPT ![sqTail] = q] /\ window' = Append(window, e)
    <3> DEFINE n == NewEntry(op, size)
               q == [n EXCEPT !.addr_avail = TRUE, !.addr = a]
               e == [InFlight(op) EXCEPT !.exception = trap]
    <3>1. Typed(n) /\ n.amo = IsAmo(op) /\ n.size = size
      BY NewTyped
    <3>2. e.exception = trap
      BY DEF InFlight
    <3> HIDE DEF n
    <3>3. q.amo = IsAmo(op) /\ q.addr = a /\ q.size = size
      BY <3>1 DEF Typed, NoEntry
    <3> HIDE DEF q, e
    <3>4. Shown(q, e)
      BY <2>2, <3>2, <3>3
    <3>5. SQ' = [SQ EXCEPT ![sqTail] = q] /\ window' = Append(window, e)
      BY <2>2 DEF q, n, e
    <3>6. e \in {InFlight(op), [InFlight(op) EXCEPT !.exception = trap]}
      BY DEF e
    <3> HIDE DEF Shown
    <3>7. QED
      BY <3>4, <3>5, <3>6
  <2>3. QED
    BY <2>1, <2>2 DEF DispatchStore
<1>1. PICK q, e :
        /\ e \in {InFlight(op), [InFlight(op) EXCEPT !.exception = trap]}
        /\ Shown(q, e)
        /\ SQ' = [SQ EXCEPT ![sqTail] = q] /\ window' = Append(window, e)
  BY <1>0
<1>2. IInv /\ e \in Instr /\ e.op = op /\ e.sq = sqTail
  <2>0. IInv
    BY DEF PInv
  <2>1. CASE e = InFlight(op)
    BY <2>0, <2>1, InFlightTyped
  <2>2. CASE e = [InFlight(op) EXCEPT !.exception = trap]
    BY <2>0, <2>2, InFlightTyped
  <2>3. QED
    BY <1>1, <2>0, <2>1, <2>2
<1>3. /\ Appended(window', window, e) /\ LQ' = LQ /\ mem' = mem /\ ~ (sqLength + 1 > SQSize)
      /\ \A k \in DOMAIN window : ~ IsAmo(window[k].op)
  BY <1>1 DEF DispatchStore, MayEnter, Stall, Appended, lqVars
<1>4. /\ sqTail \in SQIndex /\ sqLength < SQSize /\ DOMAIN SQ = SQIndex
      /\ window \in Seq(Instr) /\ Entries = DOMAIN window /\ Entries = 1 .. Len(window)
      /\ Len(window) \in Nat
  BY <1>2, <1>3, SQPointers, LSUAssumption, Places DEF IInv, SQTyped, WindowTyped, Entries
<1>n. PICK N \in Nat : N = Len(window)
  BY <1>4
<1>5. Kept(N) /\ window'[N + 1] = e
  BY <1>2, <1>3, <1>n, Entered
<1>6. EntriesStay(N)
  <2>1. ASSUME NEW k \in Stores PROVE Same(StoreOf(k)', StoreOf(k))
    <3>1. k \in 1 .. N /\ window[k].sq # sqTail
      BY <1>2, <1>4, <1>n, StoresApart, Places
    <3>2. StoreOf(k)' = SQ'[window[k].sq]
      BY <1>5, <3>1, EntriesRead
    <3>3. window[k].sq \in SQIndex
      BY <1>2, <1>4, <1>n, <3>1, PositionTyped
    <3>4. StoreOf(k)' = StoreOf(k)
      BY <1>1, <1>4, <3>1, <3>2, <3>3 DEF StoreOf
    <3>5. QED
      BY <3>4, SameItself
  <2>2. ASSUME NEW k \in Loads PROVE Same(LoadOf(k)', LoadOf(k))
    <3>1. k \in 1 .. N
      BY <1>2, <1>4, <1>n, Places
    <3>2. LoadOf(k)' = LQ'[window[k].lq]
      BY <1>5, <3>1, EntriesRead
    <3>3. QED
      BY <1>3, <3>2, SameItself DEF LoadOf
  <2>3. QED
    BY <2>1, <2>2 DEF EntriesStay
<1>7. StoreOf(N + 1)' = q
  BY <1>1, <1>2, <1>4, <1>5 DEF StoreOf
<1>8. ~ IsLoad(e.op)
  BY <1>2 DEF IsLoad, IsStore
<1>9. Settled(N + 1)'
  BY <1>1, <1>2, <1>5, <1>7 DEF Settled
<1>10. QED
  BY <1>2, <1>3, <1>4, <1>6, <1>8, <1>9, <1>n, EnteredPrecise

LEMMA DispatchBranchPrecise ==
  ASSUME PInv, IInv', "branch" \in Ops, DispatchBranch
  PROVE  PInv'
<1> DEFINE e == InFlight("branch")
<1>1. IInv /\ e \in Instr /\ e.op = "branch"
  BY InFlightTyped DEF PInv
<1>2. /\ Appended(window', window, e) /\ LQ' = LQ /\ SQ' = SQ /\ mem' = mem
      /\ \A k \in Entries : ~ IsAmo(window[k].op)
  BY DEF DispatchBranch, MayEnter, Appended, lqVars, sqVars, Entries
<1> HIDE DEF e
<1>3. PICK N \in Nat : N = Len(window) /\ Kept(N)
  BY <1>1, <1>2, Entered
<1>4. EntriesStay(N)
  BY <1>1, <1>2, <1>3, EntriesRead, SameItself, Places DEF EntriesStay, LoadOf, StoreOf
<1>5. ~ IsLoad(e.op) /\ ~ IsStore(e.op)
  BY <1>1 DEF IsLoad, IsStore
<1>6. QED
  BY <1>1, <1>2, <1>4, <1>3, <1>5, EnteredPrecise

(* A load that obtains a value knows where it is from.                      *)
LEMMA Viewed ==
  ASSUME IInv, IInv', NEW N \in Nat, N = Len(window), Len(window') = N, Kept(N), SQ' = SQ
  PROVE  Stores' = Stores /\ StoreView' = StoreView
<1>1. Stores \subseteq 1 .. N /\ Stores' \subseteq 1 .. N
  BY Places, PlacesAfter
<1>2. Stores' = Stores
  BY <1>1, KeptPlaces
<1>3. \A j \in Stores : StoreOf(j)' = StoreOf(j)
  BY <1>1, EntriesRead DEF StoreOf
<1>4. QED
  BY <1>2, <1>3 DEF StoreView

With(l, v) == [l EXCEPT !.value_avail = TRUE, !.value = v]

LEMMA Gives ==
  ASSUME NEW l, Typed(l), NEW v, NEW e, e = With(l, v)
  PROVE  /\ e.value = v /\ e.size = l.size /\ e.addr = l.addr /\ SamePlace(e, l)
         /\ AlignedLoad(e) <=> AlignedLoad(l)
         /\ \A s : PassedBy(s, e) <=> PassedBy(s, l)
<1>1. e.value = v /\ e.size = l.size /\ e.addr = l.addr /\ SamePlace(e, l)
  BY DEF Typed, NoEntry, SamePlace, With
<1>2. QED
  BY <1>1 DEF PassedBy, Conflict, SamePlace, AlignedLoad

(* Two aligned accesses of one size in one container are the same, so that  *)
(* what the store forwards is what it will write.                           *)
LEMMA Forwarded ==
  ASSUME IInv, Ordered, NEW i \in Entries, Unmarked(i), NEW l, Typed(l), l.addr_avail,
         AlignedLoad(l),
         l.sq_index = window[i].sq, l.sq_index_phase = window[i].sqPhase, Deciding(l) # 0,
         NEW s, s = SQ[Back(l.sq_index, Deciding(l), SQSize)], Verdict(s, l) = "forward",
         NEW e, e = With(l, ForwardValue(s, l))
  PROVE  From(i, e, Stores, StoreView, mem)
<1>1. PICK f \in Stores :
        /\ f < i /\ s = StoreOf(f)
        /\ \A j \in Stores : f < j /\ j < i => PassedBy(StoreOf(j), l)
  BY DecidingFinds
<1>2. Typed(s) /\ Holds(s)
  BY <1>1, PositionTyped DEF Stores, Entries, StoreOf, IInv, SQTyped
<1>3. s.addr_avail /\ Conflict(s, l) /\ s.size = l.size /\ s.value_avail
  <2>1. CASE ~ s.addr_avail
    BY <2>1 DEF Verdict
  <2>2. CASE s.addr_avail /\ ~ Conflict(s, l)
    BY <2>2 DEF Verdict
  <2>3. CASE s.addr_avail /\ Conflict(s, l)
    <3>1. Verdict(s, l) = IF s.size = l.size /\ s.value_avail THEN "forward" ELSE "stall"
      BY <2>3 DEF Verdict
    <3>2. QED
      BY <2>3, <3>1
  <2>4. QED
    BY <2>1, <2>2, <2>3
<1>4. s.addr = l.addr
  <2>1. Aligned(s.addr, s.size)
    BY <1>1, <1>3 DEF Ordered, Settled, Unmarked
  <2>2. QED
    BY <1>2, <1>3, <2>1, SameBytes
<1>v. ForwardValue(s, l) = s.value
  <2>1. s.value \in [Cover(l.addr, l.size) -> Values] /\ l.addr \in Int
    BY <1>2, <1>3, <1>4 DEF Holds, Typed, Addr
  <2>2. \A b \in Cover(l.addr, l.size) : b \in Int /\ s.addr + (b - l.addr) = b
    BY <1>4, <2>1 DEF Cover
  <2>3. ForwardValue(s, l) = [b \in Cover(l.addr, l.size) |-> s.value[b]]
    BY <2>2 DEF ForwardValue
  <2>4. QED
    BY <2>1, <2>3
<1>5. /\ e.value = s.value /\ e.size = l.size /\ e.addr = l.addr
      /\ \A q : PassedBy(q, e) <=> PassedBy(q, l)
  BY <1>v, Gives
<1>6. GivenBy(s, e)
  BY <1>3, <1>4, <1>5 DEF GivenBy
<1>7. FromStore(f, i, e, Stores, StoreView)
  BY <1>1, <1>5, <1>6 DEF FromStore, StoreView
<1>8. QED
  BY <1>7 DEF From

LEMMA ReadFromMemory ==
  ASSUME IInv, NEW i \in Entries, NEW l, Typed(l),
         l.sq_index = window[i].sq, l.sq_index_phase = window[i].sqPhase, Deciding(l) = 0,
         NEW e, e = With(l, MemValue(l))
  PROVE  From(i, e, Stores, StoreView, mem)
<1>1. \A j \in Stores : j < i => PassedBy(StoreOf(j), l)
  BY DecidingFinds
<1>2. /\ e.value = MemValue(l) /\ e.size = l.size /\ e.addr = l.addr
      /\ \A q : PassedBy(q, e) <=> PassedBy(q, l)
  BY Gives
<1>3. FromMemory(i, e, Stores, StoreView, mem)
  BY <1>1, <1>2 DEF FromMemory, StoreView, MemValue
<1>4. QED
  BY <1>3 DEF From

LEMMA Executed ==
  ASSUME PInv, NEW i \in Loads, NEW l, Typed(l), l.addr_avail, ~ l.value_avail,
         SamePlace(l, LoadOf(i)), ExecuteLoad(i, l)
  PROVE  \E e : /\ LQ' = [LQ EXCEPT ![window[i].lq] = e] /\ SamePlace(e, l)
                /\ UNCHANGED window \/ Mark(i, "exception")
                /\ e.value_avail /\ AlignedLoad(e) /\ Unmarked(i)
                     => Mark(i, "exception") \/ From(i, e, Stores, StoreView, mem)
<1> DEFINE n == Deciding(l)
           s == SQ[Back(l.sq_index, n, SQSize)]
           Shown(e) == /\ LQ' = [LQ EXCEPT ![window[i].lq] = e] /\ SamePlace(e, l)
                       /\ UNCHANGED window \/ Mark(i, "exception")
                       /\ e.value_avail /\ AlignedLoad(e) /\ Unmarked(i)
                            => Mark(i, "exception") \/ From(i, e, Stores, StoreView, mem)
<1>1. IInv /\ Ordered /\ i \in Entries /\ l.sq_index = window[i].sq /\ l.sq_index_phase = window[i].sqPhase
  BY DEF PInv, Ordered, Placed, SamePlace, Loads
<1>2. ASSUME LQ' = [LQ EXCEPT ![window[i].lq] = l], UNCHANGED window
      PROVE  Shown(l)
  BY <1>2 DEF SamePlace
<1>3. ASSUME n # 0, Verdict(s, l) = "forward",
             Obtain(window[i].lq, l, ForwardValue(s, l)), UNCHANGED window
      PROVE  \E e : Shown(e)
  <2> DEFINE q == With(l, ForwardValue(s, l))
  <2>1. ASSUME AlignedLoad(q), Unmarked(i) PROVE From(i, q, Stores, StoreView, mem)
    <3>1. AlignedLoad(l)
      BY <2>1, Gives
    <3>2. QED
      BY <1>1, <1>3, <2>1, <3>1, Forwarded
  <2>2. SamePlace(q, l)
    BY Gives
  <2>3. LQ' = [LQ EXCEPT ![window[i].lq] = q]
    BY <1>3 DEF Obtain, With
  <2> HIDE DEF q
  <2>4. QED
    BY <1>3, <2>1, <2>2, <2>3
<1>4. ASSUME n = 0, Obtain(window[i].lq, l, MemValue(l)), UNCHANGED window
      PROVE  \E e : Shown(e)
  <2> DEFINE q == With(l, MemValue(l))
  <2>1. From(i, q, Stores, StoreView, mem)
    BY <1>1, <1>4, ReadFromMemory
  <2>2. SamePlace(q, l)
    BY Gives
  <2>3. LQ' = [LQ EXCEPT ![window[i].lq] = q]
    BY <1>4 DEF Obtain, With
  <2> HIDE DEF q
  <2>4. QED
    BY <1>4, <2>1, <2>2, <2>3
<1>5. ASSUME Obtain(window[i].lq, l, NoData), Mark(i, "exception")
      PROVE  \E e : Shown(e)
  <2> DEFINE q == With(l, NoData)
  <2>1. SamePlace(q, l)
    BY Gives
  <2>2. LQ' = [LQ EXCEPT ![window[i].lq] = q]
    BY <1>5 DEF Obtain, With
  <2> HIDE DEF q
  <2>3. QED
    BY <1>5, <2>1, <2>2
<1>6. QED
  BY <1>2, <1>3, <1>4, <1>5 DEF ExecuteLoad

LEMMA ExecuteLoadPrecise ==
  ASSUME PInv, IInv', NEW i \in Loads, NEW l, Typed(l), l.addr_avail, ~ l.value_avail,
         SamePlace(l, LoadOf(i)), ExecuteLoad(i, l), SQ' = SQ, mem' = mem
  PROVE  PInv'
<1>1. PICK e : /\ LQ' = [LQ EXCEPT ![window[i].lq] = e] /\ SamePlace(e, l)
               /\ UNCHANGED window \/ Mark(i, "exception")
               /\ e.value_avail /\ AlignedLoad(e) /\ Unmarked(i)
                    => Mark(i, "exception") \/ From(i, e, Stores, StoreView, mem)
  BY Executed
<1>2. /\ IInv /\ Ordered /\ Precise /\ DOMAIN LQ = LQIndex
      /\ \A k \in Loads : window[k].lq \in LQIndex
  BY PositionTyped DEF PInv, IInv, LQTyped, Loads, Entries
<1>3. PICK N \in Nat : N = Len(window)
  BY <1>2, Places
<1>4. Kept(N) /\ Len(window') = N
  BY <1>1, <1>2, <1>3, UnchangedKept, MarkKept
<1>5. Mark(i, "exception") => window'[i].exception
  BY <1>2, MarkKept DEF Loads
<1>6. Stores' = Stores /\ StoreView' = StoreView
  BY <1>2, <1>3, <1>4, Viewed
<1>7. Loads \subseteq 1 .. N /\ Loads' \subseteq 1 .. N /\ Stores \subseteq 1 .. N
  BY <1>2, <1>3, <1>4, Places, PlacesAfter
<1>8. LoadOf(i)' = e
  BY <1>1, <1>2, <1>4, <1>7, EntriesRead
<1>9. ASSUME NEW k \in Loads, k # i PROVE LoadOf(k)' = LoadOf(k)
  <2>1. window[k].lq # window[i].lq
    BY <1>2, <1>9, LoadsApart
  <2>2. LoadOf(k)' = LQ'[window[k].lq]
    BY <1>4, <1>7, EntriesRead
  <2>3. QED
    BY <1>1, <1>2, <2>1, <2>2 DEF LoadOf
<1>10. ASSUME NEW j \in Stores PROVE StoreOf(j)' = StoreOf(j)
  BY <1>4, <1>7, EntriesRead DEF StoreOf
<1>11. OrderedBelow(N)'
  <2>1. \A k \in Loads : SamePlace(LoadOf(k)', LoadOf(k))
    BY <1>1, <1>8, <1>9 DEF SamePlace
  <2>2. \A j \in Stores : Settled(j)'
    BY <1>2, <1>4, <1>7, <1>10, SameItself, SettledStays
  <2>3. QED
    BY <1>2, <1>4, <2>1, <2>2, OrderedStays
<1>12. ASSUME NEW k \in Loads', Clear(k)' PROVE Sourced(k)'
  <2>1. k \in Loads /\ k <= N /\ k \in 1 .. N
    BY <1>2, <1>4, <1>7, KeptPlaces
  <2>2. CASE k = i
    <3>1. e.value_avail /\ AlignedLoad(e) /\ ~ window'[i].exception
      BY <1>8, <1>12, <2>2 DEF Clear, AlignedLoad
    <3>2. Unmarked(i)
      BY <1>4, <1>6, <1>7, <1>12, <2>2 DEF Clear, Unmarked, Kept
    <3>3. From(i, e, Stores, StoreView, mem)
      BY <1>1, <1>5, <3>1, <3>2
    <3>4. QED
      BY <1>6, <1>8, <2>2, <3>3 DEF Sourced
  <2>3. CASE k # i
    <3>1. Same(LoadOf(k)', LoadOf(k))
      BY <1>9, <2>1, <2>3, SameItself
    <3>2. StoresKeep(k)
      BY <1>10, SameItself, SameKeeps DEF StoresKeep
    <3>3. QED
      BY <1>2, <1>4, <1>12, <2>1, <3>1, <3>2, PreciseStays
  <2>4. QED
    BY <2>2, <2>3
<1>13. PreciseBelow(N)'
  BY <1>12 DEF PreciseBelow
<1>14. QED
  BY <1>3, <1>4, <1>11, <1>13, WholeInPlace

LEMMA LoadPrecise ==
  ASSUME PInv, IInv', NEW i \in DOMAIN window, LoadAddr(i) \/ LoadReplay(i)
  PROVE  PInv'
<1> DEFINE e == LQ[window[i].lq]
<1>1. Typed(e) /\ e = LoadOf(i)
  BY PositionTyped DEF PInv, LoadOf
<1>2. i \in Loads /\ SQ' = SQ /\ mem' = mem
  BY DEF LoadAddr, LoadReplay, Loads, Entries, sqVars
<1>3. CASE LoadAddr(i)
  <2>1. PICK a \in Addr :
          ExecuteLoad(i, [e EXCEPT !.addr_avail = TRUE, !.addr = a])
    BY <1>3 DEF LoadAddr
  <2> DEFINE l == [e EXCEPT !.addr_avail = TRUE, !.addr = a]
  <2>2. ~ e.addr_avail /\ ~ e.value_avail
    BY <1>1, <1>3 DEF LoadAddr, Typed
  <2>3. Typed(l) /\ l.addr_avail /\ ~ l.value_avail /\ SamePlace(l, e)
    BY <1>1, <2>2 DEF Typed, NoEntry, SamePlace
  <2>4. ExecuteLoad(i, l)
    BY <2>1
  <2> HIDE DEF l, e
  <2>5. QED
    BY <1>1, <1>2, <2>3, <2>4, ExecuteLoadPrecise
<1>4. CASE LoadReplay(i)
  <2>1. e.addr_avail /\ ~ e.value_avail /\ ExecuteLoad(i, e) /\ SamePlace(e, e)
    BY <1>4 DEF LoadReplay, SamePlace
  <2> HIDE DEF e
  <2>2. QED
    BY <1>1, <1>2, <2>1, ExecuteLoadPrecise
<1>5. QED
  BY <1>3, <1>4

(* The search for violating loads finds one not younger than any load       *)
(* behind the store that took its value too early.                          *)
LEMMA OwnerFound ==
  ASSUME IInv, NEW m \in Loads
  PROVE  OwnerOf(window[m].lq) = m
<1> DEFINE owners == {j \in DOMAIN window : IsLoad(window[j].op) /\ window[j].lq = window[m].lq}
<1>1. \A j \in owners : j = m
  BY LoadsApart DEF Loads, Entries
<1>2. m \in DOMAIN window /\ IsLoad(window[m].op)
  BY DEF Loads, Entries
<1>3. QED
  BY <1>1, <1>2 DEF OwnerOf

LEMMA FindsEarly ==
  ASSUME IInv, NEW i \in Entries, NEW s, NEW k \in Loads, i < k, TookEarly(s, LoadOf(k))
  PROVE  Violating(i, s) # None /\ \E m \in Loads : m <= k /\ OwnerOf(Violating(i, s)) = m
<1> DEFINE early == {n \in 0 .. LoadsBehind(i) - 1 : TookEarly(s, LQ[LoadBehind(i, n)])}
           d == Before(Loads, k) - Before(Loads, i)
           least == CHOOSE n \in early : \A m \in early : n <= m
<1>1. /\ d \in 0 .. LoadsBehind(i) - 1 /\ LoadBehind(i, d) = window[k].lq
      /\ Before(Loads, k) \in Nat /\ Before(Loads, i) \in Nat
      /\ LoadsBehind(i) = lqLength - Before(Loads, i)
  BY SearchesLoads
<1>2. d \in early
  BY <1>1 DEF LoadOf
<1>3. early \in SUBSET Nat
  BY <1>1, LoadsPlaced
<1>4. Violating(i, s) = LoadBehind(i, least)
  BY <1>2 DEF Violating
<1>5. \A n \in 0 .. LoadsBehind(i) - 1 : \E m \in Loads :
        n = Before(Loads, m) - Before(Loads, i) /\ LoadBehind(i, n) = window[m].lq
  BY SearchesLoads
<1>6. \A n \in early : n \in 0 .. LoadsBehind(i) - 1
  OBVIOUS
<1> HIDE DEF early
<1>7. \E n \in early : \A m \in early : n <= m
  BY <1>2, <1>3, LeastNat
<1>8. least \in early /\ \A m \in early : least <= m
  BY <1>7
<1> HIDE DEF least
<1>9. PICK m \in Loads : /\ least = Before(Loads, m) - Before(Loads, i)
                         /\ LoadBehind(i, least) = window[m].lq
  BY <1>5, <1>6, <1>8
<1>10. m \in Nat /\ k \in Nat /\ Loads \in SUBSET Nat /\ Before(Loads, m) \in Nat
  <2>1. m \in Nat /\ k \in Nat /\ Loads \in SUBSET Nat
    BY Places
  <2>2. QED
    BY <2>1, BeforeFinite
<1>11. Before(Loads, m) <= Before(Loads, k)
  BY <1>1, <1>2, <1>8, <1>9, <1>10
<1>12. m <= k
  <2>1. k < m => Before(Loads, k) < Before(Loads, m)
    BY <1>10, BeforeStrict
  <2>2. QED
    BY <1>1, <1>10, <1>11, <2>1
<1>13. window[m].lq \in LQIndex
  BY PositionTyped DEF Loads, Entries
<1>14. window[m].lq # None
  BY <1>13, LSUAssumption DEF LQIndex, None
<1>15. QED
  BY <1>4, <1>9, <1>12, <1>14, OwnerFound

LEMMA StoreExecutePrecise ==
  ASSUME PInv, IInv', NEW i \in DOMAIN window, StoreExecute(i)
  PROVE  PInv'
<1> DEFINE e == SQ[window[i].sq]
<1>1. PICK a, v :
        LET s == [e EXCEPT !.addr_avail = TRUE, !.addr = a, !.value_avail = TRUE,
                           !.value = [b \in Cover(a, e.size) |-> v]] IN
        /\ SQ' = [SQ EXCEPT ![window[i].sq] = s]
        /\ e.addr_avail => a = e.addr
        /\ IF e.addr_avail THEN UNCHANGED window
           ELSE \/ Mark(i, "exception")
                \/ Aligned(a, e.size) /\ MarkViolation(i, s)
  BY DEF StoreExecute
<1>2. /\ IInv /\ Ordered /\ Precise /\ Typed(e) /\ e = StoreOf(i) /\ i \in Stores
      /\ ~ e.value_avail /\ LQ' = LQ /\ mem' = mem
      /\ DOMAIN SQ = SQIndex /\ \A k \in Stores : window[k].sq \in SQIndex
  BY PositionTyped DEF PInv, IInv, SQTyped, StoreExecute, StoreOf, Stores, Entries, lqVars
<1> DEFINE Learned(q) == IF e.addr_avail THEN UNCHANGED window
                         ELSE \/ Mark(i, "exception")
                              \/ Aligned(q.addr, q.size) /\ MarkViolation(i, q)
           Filled(q) == /\ q.size = e.size /\ q.amo = e.amo /\ q.addr_avail = TRUE
                        /\ e.addr_avail => q.addr = e.addr
<1>3. PICK s : Filled(s) /\ SQ' = [SQ EXCEPT ![window[i].sq] = s] /\ Learned(s)
  <2> DEFINE s == [e EXCEPT !.addr_avail = TRUE, !.addr = a, !.value_avail = TRUE,
                            !.value = [b \in Cover(a, e.size) |-> v]]
  <2>1. s.size = e.size /\ s.amo = e.amo /\ s.addr_avail = TRUE /\ s.addr = a
    BY <1>2 DEF Typed, NoEntry
  <2>2. SQ' = [SQ EXCEPT ![window[i].sq] = s] /\ Learned(s) /\ (e.addr_avail => a = e.addr)
    BY <1>1, <2>1
  <2> HIDE DEF s, e, Learned
  <2>3. QED
    BY <2>1, <2>2
<1> HIDE DEF e
<1>4. PICK N \in Nat : N = Len(window)
  BY <1>2, Places
<1>5. Kept(N) /\ Len(window') = N
  <2>1. UNCHANGED window \/ Mark(i, "exception") \/ \E m : Mark(m, "load_viol")
    BY <1>3 DEF MarkViolation
  <2>2. QED
    BY <1>2, <1>4, <2>1, UnchangedKept, MarkKept
<1>6. Loads \subseteq 1 .. N /\ Loads' \subseteq 1 .. N /\ Stores \subseteq 1 .. N
  BY <1>2, <1>4, <1>5, Places, PlacesAfter
<1>7. StoreOf(i)' = s
  BY <1>2, <1>3, <1>5, <1>6, EntriesRead
<1>8. ASSUME NEW j \in Stores, j # i PROVE StoreOf(j)' = StoreOf(j)
  <2>1. window[j].sq # window[i].sq
    BY <1>2, <1>8, StoresApart
  <2>2. StoreOf(j)' = SQ'[window[j].sq]
    BY <1>5, <1>6, EntriesRead
  <2>3. QED
    BY <1>2, <1>3, <2>1, <2>2 DEF StoreOf
<1>9. ASSUME NEW k \in Loads PROVE LoadOf(k)' = LoadOf(k)
  BY <1>2, <1>5, <1>6, EntriesRead DEF LoadOf
<1>10. OrderedBelow(N)'
  <2>1. \A k \in Loads : SamePlace(LoadOf(k)', LoadOf(k))
    BY <1>9 DEF SamePlace
  <2>2. \A j \in Stores : j # i => Settled(j)'
    BY <1>2, <1>5, <1>6, <1>8, SameItself, SettledStays
  <2>3. Settled(i)'
    <3>1. Settled(i) /\ i \in Entries /\ i \in 1 .. N
      BY <1>2, <1>6 DEF Ordered, Stores
    <3>2. s.amo => IsAmo(window'[i].op)
      BY <1>2, <1>3, <1>5, <3>1 DEF Settled, Kept
    <3>3. CASE e.addr_avail
      BY <1>2, <1>3, <1>7, <3>1, <3>2, <3>3 DEF Settled
    <3>4. CASE ~ e.addr_avail
      <4>1. Mark(i, "exception") => window'[i].exception
        BY <1>2, <3>1, MarkKept
      <4>2. window'[i].exception \/ Aligned(s.addr, s.size)
        BY <1>3, <3>4, <4>1
      <4>3. QED
        BY <1>7, <3>2, <4>2 DEF Settled
    <3>5. QED
      BY <3>3, <3>4
  <2>4. QED
    BY <1>2, <1>5, <2>1, <2>2, <2>3, OrderedStays
<1>11. ASSUME NEW k \in Loads', Clear(k)' PROVE Sourced(k)'
  <2> DEFINE l == LoadOf(k)
  <2>1. k \in Loads /\ k <= N /\ k \in 1 .. N /\ i \in 1 .. N /\ i \in Stores'
    BY <1>2, <1>5, <1>6, KeptPlaces
  <2>2. l.value_avail /\ l.addr_avail /\ Placed(k)
    BY <1>2, <1>9, <1>11, <2>1, PositionTyped DEF Clear, Typed, Ordered, Loads, Entries, LoadOf
  <2>3. ASSUME i < k, ~ e.addr_avail, ~ l.mdp_stall, Conflict(s, l) PROVE FALSE
    <3>1. TookEarly(s, l) /\ SpecDisambig
      BY <2>2, <2>3 DEF TookEarly, Placed
    <3>2. PICK m \in Loads : /\ m <= k /\ OwnerOf(Violating(i, s)) = m
                             /\ Violating(i, s) # None
      BY <1>2, <2>1, <2>3, <3>1, FindsEarly DEF Stores
    <3>3. ~ Mark(i, "exception")
      BY <1>2, <1>11, <2>1, <2>3, MarkKept DEF Clear, Unmarked, Stores
    <3>4. Mark(m, "load_viol")
      BY <1>3, <2>3, <3>1, <3>2, <3>3 DEF MarkViolation
    <3>5. m \in Loads' /\ window'[m].load_viol
      BY <1>2, <1>5, <1>6, <3>4, KeptPlaces, MarkKept DEF Loads
    <3>6. QED
      BY <1>11, <3>2, <3>5 DEF Clear
  <2>4. i < k => Keeps(s, e, l)
    BY <1>2, <1>3, <2>3 DEF Keeps, PassedBy, GivenBy, Conflict
  <2>5. StoresKeep(k)
    BY <1>2, <1>7, <1>8, <2>4, SameItself, SameKeeps DEF StoresKeep
  <2>6. Same(LoadOf(k)', LoadOf(k))
    BY <1>9, <2>1, SameItself
  <2>7. QED
    BY <1>2, <1>5, <1>11, <2>1, <2>5, <2>6, PreciseStays
<1>12. PreciseBelow(N)'
  BY <1>11 DEF PreciseBelow
<1>13. QED
  BY <1>4, <1>5, <1>10, <1>12, WholeInPlace

(* The oldest instruction leaves.                                           *)
EntriesLeft ==
  /\ \A k \in Loads : Same(LQ'[window[k].lq], LoadOf(k))
  /\ \A j \in Stores : Same(SQ'[window[j].sq], StoreOf(j))

MemoryFollows ==
  \A k \in Loads : k > 1 /\ LoadOf(k).value_avail /\ AlignedLoad(LoadOf(k)) =>
    Arrived(LoadOf(k), Stores, StoreView, mem', mem)

LEMMA Followed ==
  ASSUME PInv, IInv', window # <<>>, window' = Tail(window)
  PROVE  /\ Len(window) \in Nat \ {0} /\ Len(window') = Len(window) - 1
         /\ Head(window) = window[1] /\ 1 \in Entries
         /\ \A k \in Nat \ {0} :
              /\ k \in Loads' <=> k + 1 \in Loads
              /\ k \in Stores' <=> k + 1 \in Stores
         /\ \A k \in Entries' : k + 1 \in Entries /\ window'[k] = window[k + 1]
         /\ \A k \in Loads' : k \in Entries' /\ k \in Nat \ {0} /\ k + 1 \in Loads
         /\ \A k \in Stores' : k \in Entries' /\ k \in Nat \ {0} /\ k + 1 \in Stores
         /\ \A k \in Loads : k # 1 => k - 1 \in Loads' /\ window'[k - 1] = window[k]
         /\ \A k \in Stores : k # 1 => k - 1 \in Stores' /\ window'[k - 1] = window[k]
<1>1. window \in Seq(Instr) /\ Len(window) \in Nat /\ Entries = 1 .. Len(window)
  BY Places DEF PInv, IInv, WindowTyped
<1>2. /\ Len(window) \in Nat \ {0} /\ Len(window') = Len(window) - 1
      /\ Head(window) = window[1] /\ 1 \in Entries
      /\ \A k \in 1 .. Len(window) - 1 : window'[k] = window[k + 1]
  BY <1>1
<1>3. Entries' = 1 .. Len(window) - 1
  BY <1>2, PlacesAfter
<1>4. \A k \in Nat \ {0} : k \in Entries' <=> k + 1 \in Entries
  BY <1>1, <1>2, <1>3
<1>5. \A k \in Entries' : k + 1 \in Entries /\ window'[k] = window[k + 1]
  BY <1>2, <1>3, <1>4
<1>6. ASSUME NEW k \in Nat \ {0}
      PROVE  (k \in Loads' <=> k + 1 \in Loads) /\ (k \in Stores' <=> k + 1 \in Stores)
  BY <1>4, <1>5 DEF Loads, Stores
<1>7. /\ \A k \in Loads' : k \in Entries' /\ k \in Nat \ {0}
      /\ \A k \in Stores' : k \in Entries' /\ k \in Nat \ {0}
      /\ \A k \in Loads : k \in Nat \ {0}
      /\ \A k \in Stores : k \in Nat \ {0}
  BY Places, PlacesAfter DEF PInv
<1>8. ASSUME NEW k \in Loads, k # 1 PROVE k - 1 \in Loads' /\ window'[k - 1] = window[k]
  <2>1. k - 1 \in Nat \ {0} /\ (k - 1) + 1 = k
    BY <1>7, <1>8
  <2>2. k - 1 \in Loads'
    BY <1>6, <2>1
  <2>3. QED
    BY <1>5, <1>7, <2>1, <2>2
<1>9. ASSUME NEW k \in Stores, k # 1 PROVE k - 1 \in Stores' /\ window'[k - 1] = window[k]
  <2>1. k - 1 \in Nat \ {0} /\ (k - 1) + 1 = k
    BY <1>7, <1>9
  <2>2. k - 1 \in Stores'
    BY <1>6, <2>1
  <2>3. QED
    BY <1>5, <1>7, <2>1, <2>2
<1>10. \A k \in Loads' : k \in Entries' /\ k \in Nat \ {0} /\ k + 1 \in Loads
  BY <1>6, <1>7
<1>11. \A k \in Stores' : k \in Entries' /\ k \in Nat \ {0} /\ k + 1 \in Stores
  BY <1>6, <1>7
<1>12. QED
  BY <1>2, <1>5, <1>6, <1>8, <1>9, <1>10, <1>11

LEMMA LeavePrecise ==
  ASSUME PInv, IInv', window # <<>>, window' = Tail(window), MayCommit(Head(window)),
         EntriesLeft, MemoryFollows
  PROVE  PInv'
<1>1. IInv /\ Ordered /\ Precise /\ ~ window[1].exception /\ ~ window[1].load_viol
  BY Followed DEF PInv, MayCommit
<1>2. /\ \A k \in Nat \ {0} : k \in Stores' <=> k + 1 \in Stores
      /\ Stores \in SUBSET (Nat \ {0}) /\ Stores' \in SUBSET (Nat \ {0})
  BY <1>1, Followed, Places, PlacesAfter
<1>3. /\ Len(window') = Len(window) - 1 /\ Len(window) \in Nat
      /\ \A k \in Entries' : k \in Nat /\ k + 1 \in Entries /\ window'[k] = window[k + 1]
  BY Followed, PlacesAfter
<1>f. /\ \A k \in Loads : k # 1 => k - 1 \in Loads' /\ window'[k - 1] = window[k]
      /\ \A k \in Stores : k # 1 => k - 1 \in Stores' /\ window'[k - 1] = window[k]
      /\ \A k \in Loads : k \in Nat \ {0}
      /\ \A k \in Stores : k \in Nat \ {0}
  BY <1>1, Followed, Places
<1>g. /\ \A k \in Loads' : k \in Nat \ {0} /\ k + 1 \in Loads /\ window'[k] = window[k + 1]
      /\ \A k \in Stores' : k \in Nat \ {0} /\ k + 1 \in Stores /\ window'[k] = window[k + 1]
  BY Followed
<1>4. ASSUME NEW k \in Loads'
      PROVE  k + 1 \in Loads /\ window'[k] = window[k + 1] /\ Same(LoadOf(k)', LoadOf(k + 1))
  <2>1. k + 1 \in Loads /\ window'[k] = window[k + 1]
    BY <1>g
  <2>2. LoadOf(k)' = LQ'[window[k + 1].lq]
    BY <2>1 DEF LoadOf
  <2>3. QED
    BY <2>1, <2>2 DEF EntriesLeft
<1>5. ASSUME NEW j \in Stores'
      PROVE  j + 1 \in Stores /\ window'[j] = window[j + 1] /\ Same(StoreOf(j)', StoreOf(j + 1))
  <2>1. j + 1 \in Stores /\ window'[j] = window[j + 1]
    BY <1>g
  <2>2. StoreOf(j)' = SQ'[window[j + 1].sq]
    BY <2>1 DEF StoreOf
  <2>3. QED
    BY <2>1, <2>2 DEF EntriesLeft
<1>6. Ordered'
  <2>1. ASSUME NEW k \in Loads' PROVE Placed(k)'
    <3>1. Placed(k + 1)
      BY <1>1, <1>4 DEF Ordered
    <3>2. window'[k].sq = window[k + 1].sq /\ window'[k].sqPhase = window[k + 1].sqPhase
      BY <1>4
    <3>3. QED
      BY <1>4, <3>1, <3>2 DEF Placed, Same
  <2>2. ASSUME NEW j \in Stores' PROVE Settled(j)'
    <3>1. Settled(j + 1)
      BY <1>1, <1>5 DEF Ordered
    <3>2. window'[j].op = window[j + 1].op /\ window'[j].exception = window[j + 1].exception
      BY <1>5
    <3>3. QED
      BY <1>5, <3>1, <3>2 DEF Settled, Same
  <2>3. ASSUME NEW j \in Entries', IsAmo(window'[j].op) PROVE j = Len(window')
    <3>1. j + 1 \in Entries /\ IsAmo(window[j + 1].op) /\ j \in Nat
      BY <1>3, <2>3
    <3>2. j + 1 = Len(window)
      BY <1>1, <3>1 DEF Ordered
    <3>3. Len(window') = Len(window) - 1 /\ Len(window) \in Nat /\ j \in Nat
      BY <1>3, <3>1
    <3>4. QED
      BY <3>2, <3>3
  <2>4. QED
    BY <2>1, <2>2, <2>3 DEF Ordered
<1>7. ASSUME NEW k \in Loads', Clear(k)' PROVE Sourced(k)'
  <2>1. k \in Nat \ {0} /\ k + 1 > 1
    BY <1>g
  <2>2. LoadOf(k + 1).value_avail /\ ~ window[k + 1].exception /\ AlignedLoad(LoadOf(k + 1))
    BY <1>4, <1>7 DEF Clear, Same, AlignedLoad
  <2>3. ASSUME NEW j \in Stores, j < k + 1 PROVE ~ window[j].exception
    <3>1. CASE j = 1
      BY <1>1, <3>1
    <3>2. CASE j # 1
      <4>1. j - 1 \in Nat \ {0} /\ (j - 1) + 1 = j /\ j - 1 < k
        BY <1>f, <2>1, <2>3, <3>2
      <4>2. j - 1 \in Stores' /\ window'[j - 1] = window[j]
        BY <1>f, <3>2
      <4>3. QED
        BY <1>7, <4>1, <4>2 DEF Clear, Unmarked
    <3>3. QED
      BY <3>1, <3>2
  <2>4. ASSUME NEW j \in Loads, j <= k + 1 PROVE ~ window[j].load_viol
    <3>1. CASE j = 1
      BY <1>1, <3>1
    <3>2. CASE j # 1
      <4>1. j - 1 \in Nat \ {0} /\ (j - 1) + 1 = j /\ j - 1 <= k
        BY <1>f, <2>1, <2>4, <3>2
      <4>2. j - 1 \in Loads' /\ window'[j - 1] = window[j]
        BY <1>f, <3>2
      <4>3. QED
        BY <1>7, <4>1, <4>2 DEF Clear
    <3>3. QED
      BY <3>1, <3>2
  <2>5. Clear(k + 1)
    BY <2>2, <2>3, <2>4 DEF Clear, Unmarked
  <2>6. From(k + 1, LoadOf(k + 1), Stores, StoreView, mem)
    BY <1>1, <1>4, <2>5 DEF Precise, Sourced
  <2>7. ShiftsBelow(k, LoadOf(k + 1), Stores', StoreView', Stores, StoreView)
    <3>1. ASSUME NEW j \in Stores' PROVE Keeps(StoreView'[j], StoreView[j + 1], LoadOf(k + 1))
      <4>1. StoreView'[j] = StoreOf(j)' /\ StoreView[j + 1] = StoreOf(j + 1)
        BY <1>5 DEF StoreView
      <4>2. QED
        BY <1>5, <4>1, SameKeeps
    <3>2. QED
      BY <1>2, <3>1 DEF ShiftsBelow
  <2>8. Arrived(LoadOf(k + 1), Stores, StoreView, mem', mem)
    BY <1>4, <2>1, <2>2 DEF MemoryFollows
  <2>9. From(k, LoadOf(k)', Stores', StoreView', mem')
    <3>1. Same(LoadOf(k)', LoadOf(k + 1))
      BY <1>4
    <3>2. QED
      BY <1>2, <2>1, <2>6, <2>7, <2>8, <3>1, FromShifts
  <2>10. QED
    BY <2>9 DEF Sourced
<1>8. QED
  BY <1>6, <1>7 DEF PInv, Precise

LEMMA ValidSame ==
  ASSUME NEW e, Typed(e), NEW b
  PROVE  Same([e EXCEPT !.valid = b], e)
BY DEF Typed, NoEntry, Same

LEMMA CommitLoadPrecise ==
  ASSUME PInv, IInv', CommitLoad
  PROVE  PInv'
<1>1. /\ window # <<>> /\ ~ IsStore(Head(window).op) /\ MayCommit(Head(window))
      /\ LQ' = [LQ EXCEPT ![lqHead].valid = FALSE]
      /\ window' = Tail(window) /\ SQ' = SQ /\ mem' = mem
  BY DEF CommitLoad, IsLoad, IsStore, sqVars
<1>2. IInv /\ Head(window) = window[1] /\ DOMAIN LQ = LQIndex
  BY <1>1, Followed DEF PInv, IInv, LQTyped
<1>3. ASSUME NEW k \in Loads PROVE Same(LQ'[window[k].lq], LoadOf(k))
  <2>1. window[k].lq \in LQIndex /\ Typed(LoadOf(k))
    BY <1>2, PositionTyped DEF Loads, Entries, LoadOf
  <2>2. LQ'[window[k].lq] \in {LoadOf(k), [LoadOf(k) EXCEPT !.valid = FALSE]}
    BY <1>1, <1>2, <2>1 DEF LoadOf
  <2>3. QED
    BY <2>1, <2>2, SameItself, ValidSame
<1>4. EntriesLeft
  BY <1>1, <1>3, SameItself DEF EntriesLeft, StoreOf
<1>5. 1 \notin Stores
  BY <1>1, <1>2 DEF Stores
<1>6. MemoryFollows
  BY <1>1, <1>5 DEF MemoryFollows, Arrived
<1>7. QED
  BY <1>1, <1>4, <1>6, LeavePrecise

LEMMA CommitBranchPrecise ==
  ASSUME PInv, IInv', CommitBranch
  PROVE  PInv'
<1>1. /\ window # <<>> /\ ~ IsStore(Head(window).op) /\ MayCommit(Head(window))
      /\ LQ' = LQ /\ window' = Tail(window) /\ SQ' = SQ /\ mem' = mem
  BY DEF CommitBranch, IsStore, lqVars, sqVars
<1>2. Head(window) = window[1]
  BY <1>1, Followed
<1>3. EntriesLeft
  BY <1>1, SameItself DEF EntriesLeft, StoreOf, LoadOf
<1>4. 1 \notin Stores
  BY <1>1, <1>2 DEF Stores
<1>5. MemoryFollows
  BY <1>1, <1>4 DEF MemoryFollows, Arrived
<1>6. QED
  BY <1>1, <1>3, <1>5, LeavePrecise

LEMMA CommitStorePrecise ==
  ASSUME PInv, IInv', CommitStore
  PROVE  PInv'
<1> DEFINE s == SQ[sqHead]
<1>1. /\ window # <<>> /\ IsStore(Head(window).op) /\ MayCommit(Head(window))
      /\ SQ' = [SQ EXCEPT ![sqHead].valid = FALSE]
      /\ window' = Tail(window) /\ LQ' = LQ
      /\ mem' = IF ReservationLost(s) THEN mem
                 ELSE [b \in Addr |-> IF b \in Cover(s.addr, s.size) THEN s.value[b] ELSE mem[b]]
  BY DEF CommitStore, lqVars
<1>2. /\ IInv /\ Ordered /\ Head(window) = window[1] /\ DOMAIN SQ = SQIndex /\ 1 \in Entries
      /\ mem \in [Addr -> Values] /\ Len(window) \in Nat
  BY <1>1, Followed DEF PInv, IInv, SQTyped, MemoryTyped
<1>3. window[1].sq = sqHead
  BY <1>1, <1>2, OldestAtHead DEF IInv, WindowTyped
<1>4. /\ 1 \in Stores /\ StoreOf(1) = s /\ Typed(s) /\ s.value_avail /\ s.addr_avail
      /\ Aligned(s.addr, s.size)
  <2>1. 1 \in Stores /\ StoreOf(1) = s
    BY <1>1, <1>2, <1>3 DEF Stores, StoreOf
  <2>2. Typed(s)
    BY <1>2, <1>3, PositionTyped DEF Entries
  <2>3. s.value_avail
    BY <1>1, <1>2, <1>3 DEF MayCommit, Completed, IsLoad, IsStore
  <2>4. s.addr_avail
    BY <2>2, <2>3 DEF Typed
  <2>5. Aligned(s.addr, s.size)
    BY <1>1, <1>2, <2>1, <2>4 DEF MayCommit, Ordered, Settled
  <2>6. QED
    BY <2>1, <2>2, <2>3, <2>4, <2>5
<1>5. StoreView[1] = s
  BY <1>4 DEF StoreView
<1>6. ASSUME NEW k \in Stores PROVE Same(SQ'[window[k].sq], StoreOf(k))
  <2>1. window[k].sq \in SQIndex /\ Typed(StoreOf(k))
    BY <1>2, PositionTyped DEF Stores, Entries, StoreOf
  <2>2. SQ'[window[k].sq] \in {StoreOf(k), [StoreOf(k) EXCEPT !.valid = FALSE]}
    BY <1>1, <1>2, <2>1 DEF StoreOf
  <2>3. QED
    BY <2>1, <2>2, SameItself, ValidSame
<1>7. EntriesLeft
  BY <1>1, <1>6, SameItself DEF EntriesLeft, LoadOf
<1> HIDE DEF s
<1>8. ASSUME NEW k \in Loads, k > 1, LoadOf(k).value_avail, AlignedLoad(LoadOf(k))
      PROVE  Arrived(LoadOf(k), Stores, StoreView, mem', mem)
  <2> DEFINE l == LoadOf(k)
  <2>1. ~ s.amo
    <3>1. k \in Entries /\ k <= Len(window) /\ k \in Nat
      BY <1>2, Places
    <3>2. ~ IsAmo(window[1].op)
      BY <1>2, <1>8, <3>1 DEF Ordered
    <3>3. Settled(1)
      BY <1>2, <1>4 DEF Ordered
    <3>4. QED
      BY <1>4, <3>2, <3>3 DEF Settled
  <2>2. mem' = [b \in Addr |-> IF b \in Cover(s.addr, s.size) THEN s.value[b] ELSE mem[b]]
    BY <1>1, <2>1 DEF ReservationLost
  <2>3. Typed(l) /\ l.addr_avail
    BY <1>2, <1>8, PositionTyped DEF Loads, Entries, LoadOf, Typed
  <2>4. Cover(l.addr, l.size) \subseteq Addr
    BY <1>8, <2>3, Fits
  <2>5. ASSUME GivenBy(s, l), NEW b \in Cover(l.addr, l.size) PROVE mem'[b] = l.value[b]
    BY <2>2, <2>4, <2>5 DEF GivenBy
  <2>6. ASSUME PassedBy(s, l), NEW b \in Cover(l.addr, l.size) PROVE mem'[b] = mem[b]
    <3>1. ~ Conflict(s, l)
      BY <1>4, <2>6 DEF PassedBy
    <3>2. b \notin Cover(s.addr, s.size)
      BY <1>4, <1>8, <2>3, <2>6, <3>1, Overlap
    <3>3. QED
      BY <2>2, <2>4, <2>6, <3>2
  <2> HIDE DEF l
  <2>7. QED
    BY <1>4, <1>5, <2>5, <2>6 DEF Arrived, l
<1>9. MemoryFollows
  BY <1>8 DEF MemoryFollows
<1>10. QED
  BY <1>1, <1>7, <1>9, LeavePrecise

----------------------------------------------------------------------------
LEMMA PreciseStep ==
  ASSUME PInv, [Next]_vars
  PROVE  PInv'
<1>1. IInv'
  BY StepKeeps DEF PInv
<1>2. ASSUME NEW op \in Ops, Arrive(op) PROVE PInv'
  BY <1>1, <1>2, DispatchLoadPrecise, DispatchStorePrecise, DispatchBranchPrecise DEF Arrive
<1>3. QED
  BY <1>1, <1>2, LoadPrecise, StoreExecutePrecise, ResolveCorrectPrecise, MispredictPrecise,
     CommitLoadPrecise, CommitStorePrecise, CommitBranchPrecise, SquashPrecise, StutterPrecise
  DEF Next

LEMMA PreciseHolds == Spec => []PInv
<1>1. ASSUME Init PROVE PInv
  <2>1. Entries = {} /\ Loads = {} /\ Stores = {}
    BY <1>1 DEF Init, Entries, Loads, Stores
  <2>2. QED
    BY <1>1, <2>1, InitInvariant DEF PInv, Ordered, Precise
<1>2. PInv /\ [Next]_vars => PInv'
  BY PreciseStep
<1>3. QED
  BY <1>1, <1>2, PTL DEF Spec

(* A store that touches a byte of the load, and whose address is known, is  *)
(* not one that the load passes.                                            *)
LEMMA PassedElsewhere ==
  ASSUME IInv, NEW k \in Loads, AlignedLoad(LoadOf(k)), NEW b,
         b \in Cover(LoadOf(k).addr, LoadOf(k).size),
         NEW j \in Stores, Aligned(StoreOf(j).addr, StoreOf(j).size),
         StoreOf(j).addr_avail, PassedBy(StoreOf(j), LoadOf(k))
  PROVE  b \notin Cover(StoreOf(j).addr, StoreOf(j).size)
<1>1. Typed(LoadOf(k)) /\ Typed(StoreOf(j))
  BY PositionTyped DEF Loads, Stores, Entries, LoadOf, StoreOf
<1>3. ~ Conflict(StoreOf(j), LoadOf(k))
  BY DEF PassedBy
<1> DEFINE s == StoreOf(j)
           l == LoadOf(k)
<1> HIDE DEF s, l
<1>4. ASSUME b \in Cover(s.addr, s.size) PROVE Conflict(s, l)
  BY <1>1, <1>4, Overlap DEF s, l
<1>5. QED
  BY <1>3, <1>4 DEF s, l

(* An aligned load that has its value has the one that program order        *)
(* prescribes, as long as every older store has its address and nothing is  *)
(* marked to squash it, whatever misaligned accesses are in flight.         *)
THEOREM AlwaysLoadsPrecise == Spec => []LoadsPrecise
<1>1. ASSUME PInv PROVE LoadsPrecise
  <2>1. SUFFICES ASSUME NEW k \in Loads, LoadOf(k).value_avail, ~ window[k].exception,
                        AlignedLoad(LoadOf(k)),
                        \A j \in Stores : j < k => StoreOf(j).addr_avail /\ ~ window[j].exception,
                        \A j \in Loads : j <= k => ~ window[j].load_viol,
                        NEW b \in Cover(LoadOf(k).addr, LoadOf(k).size)
                 PROVE  LoadOf(k).value[b] = ByteBefore(b, k)
    BY DEF LoadsPrecise
  <2> DEFINE l == LoadOf(k)
  <2>2. IInv /\ From(k, l, Stores, StoreView, mem) /\ k \in Nat /\ \A j \in Stores : j \in Nat
    BY <1>1, <2>1, Places DEF PInv, Precise, Clear, Unmarked, Sourced
  <2>3. ASSUME NEW j \in StoresTo(b, k) PROVE /\ j \in Stores /\ j < k /\ j \in Nat
                                            /\ ~ PassedBy(StoreView[j], l)
    <3>1. j \in Stores /\ j < k /\ b \in Cover(StoreOf(j).addr, StoreOf(j).size)
      BY <2>3 DEF StoresTo
    <3>2. StoreView[j] = StoreOf(j)
      BY <3>1 DEF StoreView
    <3>3. Aligned(StoreOf(j).addr, StoreOf(j).size)
      BY <1>1, <2>1, <3>1 DEF PInv, Ordered, Settled
    <3>4. QED
      BY <2>1, <2>2, <3>1, <3>2, <3>3, PassedElsewhere
  <2>4. CASE FromMemory(k, l, Stores, StoreView, mem)
    <3>1. StoresTo(b, k) = {}
      BY <2>3, <2>4 DEF FromMemory
    <3>2. QED
      BY <2>4, <3>1 DEF FromMemory, ByteBefore
  <2>5. ASSUME NEW f \in Stores, FromStore(f, k, l, Stores, StoreView)
        PROVE  l.value[b] = ByteBefore(b, k)
    <3> DEFINE youngest == CHOOSE j \in StoresTo(b, k) : \A i \in StoresTo(b, k) : i <= j
    <3>1. f < k /\ GivenBy(StoreOf(f), l)
      BY <2>5 DEF FromStore, StoreView
    <3>2. f \in StoresTo(b, k)
      BY <3>1 DEF StoresTo, GivenBy
    <3>3. \A j \in StoresTo(b, k) : j <= f
      BY <2>2, <2>3, <2>5 DEF FromStore
    <3>4. youngest = f
      <4>1. youngest \in StoresTo(b, k) /\ \A i \in StoresTo(b, k) : i <= youngest
        BY <3>2, <3>3
      <4> HIDE DEF youngest
      <4>2. youngest <= f /\ f <= youngest /\ youngest \in Nat /\ f \in Nat
        BY <2>3, <3>2, <3>3, <4>1
      <4>3. QED
        BY <4>2
    <3>5. ByteBefore(b, k) = IF StoreOf(f).value_avail THEN StoreOf(f).value[b] ELSE None
      <4>1. StoresTo(b, k) # {}
        BY <3>2
      <4>2. ByteBefore(b, k) = IF StoreOf(youngest).value_avail
                               THEN StoreOf(youngest).value[b] ELSE None
        BY <4>1 DEF ByteBefore
      <4> HIDE DEF youngest
      <4>3. QED
        BY <3>4, <4>2
    <3>6. QED
      BY <3>1, <3>5 DEF GivenBy
  <2>6. QED
    BY <2>2, <2>4, <2>5 DEF From
<1>2. QED
  BY <1>1, PreciseHolds, PTL

(* Whatever an aligned load did speculatively, when it commits its value is *)
(* the one in memory: loads and stores are sequential to the program.       *)
THEOREM AlwaysCommitsReadMemory == Spec => CommitsReadMemory
<1>1. ASSUME PInv, CommitLoad, AlignedLoad(LQ[lqHead])
      PROVE  \A b \in Cover(LQ[lqHead].addr, LQ[lqHead].size) : LQ[lqHead].value[b] = mem[b]
  <2>1. /\ window # <<>> /\ IsLoad(Head(window).op) /\ MayCommit(Head(window))
        /\ IInv /\ Precise /\ window \in Seq(Instr)
    BY <1>1 DEF CommitLoad, PInv, IInv, WindowTyped
  <2>2. Head(window) = window[1] /\ 1 \in Entries
    BY <2>1, Places
  <2>3. window[1].lq = lqHead
    BY <2>1, <2>2, OldestAtHead DEF IInv
  <2>4. 1 \in Loads /\ LoadOf(1) = LQ[lqHead]
    BY <2>1, <2>2, <2>3 DEF Loads, LoadOf
  <2>5. LoadOf(1).value_avail /\ ~ window[1].exception /\ ~ window[1].load_viol
    BY <2>1, <2>2, <2>3, <2>4 DEF MayCommit, Completed, IsLoad, IsStore
  <2>6. \A j \in Loads \cup Stores : j \in Nat \ {0}
    BY <2>1, Places
  <2>7. Clear(1)
    <3>1. \A j \in Stores : ~ (j < 1)
      BY <2>6
    <3>2. \A j \in Loads : j <= 1 => j = 1
      BY <2>6
    <3>3. QED
      BY <1>1, <2>4, <2>5, <3>1, <3>2 DEF Clear, Unmarked
  <2>8. From(1, LoadOf(1), Stores, StoreView, mem)
    BY <2>1, <2>4, <2>7 DEF Precise, Sourced
  <2>9. \A f \in Stores : ~ FromStore(f, 1, LoadOf(1), Stores, StoreView)
    BY <2>6 DEF FromStore
  <2>10. FromMemory(1, LoadOf(1), Stores, StoreView, mem)
    BY <2>8, <2>9 DEF From
  <2>11. QED
    BY <2>4, <2>10 DEF FromMemory
<1>2. PInv /\ [Next]_vars =>
        [CommitLoad /\ AlignedLoad(LQ[lqHead])
           => \A b \in Cover(LQ[lqHead].addr, LQ[lqHead].size) :
                LQ[lqHead].value[b] = mem[b]]_vars
  BY <1>1
<1>3. QED
  BY <1>2, PreciseHolds, PTL DEF Spec, CommitsReadMemory

=============================================================================
