---------------------------- MODULE CachesProofs ----------------------------
(***************************************************************************)
(* For every number and size of sets, MHSRs and ports, and all latencies:  *)
(* the MHSR that a line names is at work for it, no line is in two ways,   *)
(* and a second level with as many MHSRs as its users never refuses them.  *)
(*                                                                         *)
(* The invariant is one of each cache (Sound), one of each first-level     *)
(* cache in which loads cannot overtake each other (InTurn, Alone), and    *)
(* one of the levels together (Served): each MHSR of the second level that *)
(* is still at work is so for one of the first, a different one for each,  *)
(* that will be at work for longer.  A first-level cache with an MHSR to   *)
(* spare leaves one to spare in the second; and writing back and loading   *)
(* take one together, since both are for the same line.                    *)
(***************************************************************************)
EXTENDS CachesProperties, FiniteSetTheorems, SequenceTheorems,
        WellFoundedInduction, TLAPS

LinesOf(c) == [tag : Nat, mhsr : 0 .. MHSRs[c], dirty : BOOLEAN]
Registers  == [busy : BOOLEAN, line : Nat, resolved : Int]
SetsOf(c)  == 0 .. Sets[c] - 1

CacheType(c) == [array : [SetsOf(c) -> Seq(LinesOf(c))],
                 mhsr  : [1 .. MHSRs[c] -> Registers],
                 port  : [1 .. Ports[c] -> Nat]]

(* The set s of the cache c, and the MHSRs that a set names.                *)
SetIs(c, s, set) ==
  /\ set \in Seq(LinesOf(c)) /\ Len(set) <= Assoc[c]
  /\ \A i \in 1 .. Len(set) : SetOf(c, set[i].tag) = s
  /\ \A i, j \in 1 .. Len(set) : set[i].tag = set[j].tag => i = j

NamesIn(c, regs, set) ==
  \A i \in 1 .. Len(set) : set[i].mhsr # NoMHSR =>
    /\ set[i].mhsr \in 1 .. MHSRs[c]
    /\ regs[set[i].mhsr].busy /\ regs[set[i].mhsr].line = set[i].tag

Sound(c, k) ==
  /\ k \in CacheType(c)
  /\ \A s \in SetsOf(c) : SetIs(c, s, k.array[s]) /\ NamesIn(c, k.mhsr, k.array[s])

(* In a set of one way the line that is there was the last to be loaded.    *)
InTurn(c, k) ==
  \A m \in 1 .. MHSRs[c] :
    LET set == k.array[SetOf(c, k.mhsr[m].line)] IN
    k.mhsr[m].busy /\ k.mhsr[m].resolved > 0 =>
      /\ set # <<>> /\ set[1].mhsr # NoMHSR
      /\ k.mhsr[m].resolved <= k.mhsr[set[1].mhsr].resolved

(* The line for which the only MHSR works names it.                         *)
Alone(c, k) ==
  \A s \in SetsOf(c) : \A i \in 1 .. Len(k.array[s]) :
    k.mhsr[1].busy /\ k.mhsr[1].line = k.array[s][i].tag => k.array[s][i].mhsr = 1

Ordered(c, k) == (Assoc[c] = 1 => InTurn(c, k)) /\ (MHSRs[c] = 1 => Alone(c, k))

(* Whom the MHSRs of the second level work for.                             *)
Users == {"dc"} \X (1 .. MHSRs["dc"]) \cup {"ic"} \X (1 .. MHSRs["ic"])

Working(r) == r.busy /\ r.resolved >= 0

ServedBy(all, f) ==
  /\ f \in [1 .. MHSRs["l2"] -> Users]
  /\ \A i \in 1 .. MHSRs["l2"] : Working(all["l2"].mhsr[i]) =>
       /\ all[f[i][1]].mhsr[f[i][2]].busy
       /\ all[f[i][1]].mhsr[f[i][2]].resolved >= all["l2"].mhsr[i].resolved + Hit["l2"]
  /\ \A i, j \in 1 .. MHSRs["l2"] :
       Working(all["l2"].mhsr[i]) /\ Working(all["l2"].mhsr[j]) /\ f[i] = f[j] => i = j

Served(all) == \E f : ServedBy(all, f)

(* The caches as they should be, and whether the second level has refused.  *)
Enough == MHSRs["l2"] >= MHSRs["dc"] + MHSRs["ic"]

Good(all, over) ==
  /\ all = [c \in CacheNames |-> all[c]]
  /\ over \in BOOLEAN
  /\ \A c \in CacheNames : Sound(c, all[c])
  /\ ~ over => \A c \in L1s : Ordered(c, all[c])
  /\ ~ over => Served(all)
  /\ Enough => ~ over

MemOps == [line : Nat, until : Int]

IInv ==
  /\ Good(caches, overrun)
  /\ memops \in Seq(MemOps)
  /\ fetching \in [line : Nat, until : Int]

----------------------------------------------------------------------------
(* Numbers and sequences.                                                   *)
LEMMA LeastOf ==
  ASSUME NEW T \in SUBSET Nat, T # {}
  PROVE  \E n \in T : \A m \in T : n <= m
<1>1. PICK n \in T : \A m \in T : ~ (<<m, n>> \in OpToRel(<, Nat))
  BY NatLessThanWellFounded, WFMin
<1>2. \A m \in T : ~ (m < n)
  BY <1>1 DEF OpToRel
<1>3. QED
  BY <1>2

LEMMA MinIs ==
  ASSUME NEW T \in SUBSET Nat, T # {}
  PROVE  Min(T) \in T
<1>1. \E n \in T : \A m \in T : n <= m
  BY LeastOf
<1>2. QED
  BY <1>1 DEF Min

(* What holds at a and is handed on from each number to the next holds      *)
(* from a to b.                                                             *)
LEMMA HandedOn ==
  ASSUME NEW b \in Nat, NEW T \in SUBSET Nat,
         0 \in T, \A k \in T : k < b => k + 1 \in T
  PROVE  \A k \in 0 .. b : k \in T
<1> DEFINE U == {k \in 0 .. b : k \notin T}
<1>1. SUFFICES ASSUME U # {} PROVE FALSE
  OBVIOUS
<1>2. U \in SUBSET Nat
  OBVIOUS
<1>3. PICK n \in U : \A m \in U : n <= m
  BY <1>1, <1>2, LeastOf
<1>4. n \in Nat /\ 0 < n /\ n <= b /\ n \notin T
  BY <1>3
<1>5. n - 1 \in 0 .. b /\ n - 1 \notin U
  BY <1>3, <1>4
<1>6. n - 1 \in T /\ n - 1 + 1 = n
  BY <1>4, <1>5
<1>7. QED
  BY <1>4, <1>6

LEMMA SeqIs ==
  ASSUME NEW S, NEW n \in Nat, NEW f \in [1 .. n -> S]
  PROVE  f \in Seq(S) /\ Len(f) = n /\ DOMAIN f = 1 .. n
<1>1. f \in Seq(S)
  BY SeqDef
<1>2. QED
  BY <1>1, LenProperties

LEMMA IsSeq ==
  ASSUME NEW S, NEW s \in Seq(S)
  PROVE  Len(s) \in Nat /\ DOMAIN s = 1 .. Len(s) /\ s \in [1 .. Len(s) -> S]
BY LenProperties

----------------------------------------------------------------------------
(* The constants.                                                           *)
LEMMA Sizes ==
  /\ Lines \in Nat \ {0} /\ CodeLines \in Nat \ {0} /\ MissLatency \in Nat \ {0}
  /\ \A c \in CacheNames :
       /\ Sets[c] \in Nat \ {0} /\ Assoc[c] \in Nat \ {0} /\ MHSRs[c] \in Nat \ {0}
       /\ Ports[c] \in Nat \ {0} /\ Hit[c] \in Nat \ {0} /\ Reuse[c] \in Nat
BY CachesAssumption

LEMMA SetOfType ==
  ASSUME NEW c \in CacheNames, NEW line \in Nat
  PROVE  SetOf(c, line) \in SetsOf(c)
<1>1. Sets[c] \in Nat \ {0}
  BY Sizes
<1>2. QED
  BY <1>1 DEF SetOf, SetsOf

LEMMA PortIs ==
  ASSUME NEW c \in CacheNames, NEW port \in [1 .. Ports[c] -> Nat],
         NEW k, k.port = port
  PROVE  FindNextPort(k) \in 1 .. Ports[c]
<1> DEFINE T == {port[q] : q \in 1 .. Ports[c]}
           U(n) == {q \in 1 .. Ports[c] : port[q] = n}
<1>1. Ports[c] \in Nat \ {0}
  BY Sizes
<1>2. T \in SUBSET Nat /\ port[1] \in T
  BY <1>1
<1>3. PICK n \in T : \A m \in T : n <= m
  BY <1>2, LeastOf
<1>4. U(n) \in SUBSET Nat /\ U(n) # {}
  BY <1>3
<1>5. PICK p \in U(n) : \A q \in U(n) : p <= q
  BY <1>4, LeastOf
<1>6. p \in 1 .. Ports[c] /\ port[p] = n
  BY <1>5
<1>7. \A q \in 1 .. Ports[c] : port[p] < port[q] \/ (port[p] = port[q] /\ p <= q)
  BY <1>3, <1>5, <1>6
<1>8. DOMAIN k.port = 1 .. Ports[c]
  OBVIOUS
<1>9. QED
  BY <1>6, <1>7, <1>8 DEF FindNextPort

LEMMA LatestIs ==
  ASSUME NEW a \in Int, NEW b \in Int
  PROVE  Latest(a, b) \in {a, b} /\ Latest(a, b) >= a /\ Latest(a, b) >= b
BY DEF Latest

----------------------------------------------------------------------------
(* Sets of lines.                                                           *)

(* A set with the same lines, perhaps in another order.                     *)
Shuffled(set, new) ==
  /\ Len(new) = Len(set)
  /\ \E f \in [1 .. Len(set) -> 1 .. Len(set)] :
       /\ \A i \in 1 .. Len(set) : new[i] = set[f[i]]
       /\ \A i, j \in 1 .. Len(set) : f[i] = f[j] => i = j

LEMMA TouchIs ==
  ASSUME NEW S, NEW set \in Seq(S), NEW line
  PROVE  /\ Touch(set, line) \in Seq(S) /\ Shuffled(set, Touch(set, line))
         /\ Present(set, line) => Len(set) > 0 /\ Touch(set, line)[1].tag = line
<1>1. Len(set) \in Nat /\ DOMAIN set = 1 .. Len(set) /\ set \in [1 .. Len(set) -> S]
  BY IsSeq
<1>2. CASE ~ Present(set, line)
  <2> DEFINE f == [i \in 1 .. Len(set) |-> i]
  <2>1. Touch(set, line) = set
    BY <1>2 DEF Touch
  <2>2. f \in [1 .. Len(set) -> 1 .. Len(set)]
    OBVIOUS
  <2>3. /\ \A i \in 1 .. Len(set) : set[i] = set[f[i]]
        /\ \A i, j \in 1 .. Len(set) : f[i] = f[j] => i = j
    OBVIOUS
  <2>4. Shuffled(set, set)
    BY <2>2, <2>3 DEF Shuffled
  <2>5. QED
    BY <1>2, <2>1, <2>4
<1>3. CASE Present(set, line)
  <2> DEFINE w == Way(set, line)
             f == [i \in 1 .. Len(set) |-> From(w, i)]
             new == Touch(set, line)
  <2>1. w \in 1 .. Len(set) /\ set[w].tag = line
    BY <1>1, <1>3 DEF Present, Way
  <2>2. new = [i \in 1 .. Len(set) |-> set[From(w, i)]]
    BY <1>1, <1>3 DEF Touch
  <2> HIDE DEF w, new
  <2>3. \A i \in 1 .. Len(set) : From(w, i) \in 1 .. Len(set)
    BY <1>1, <2>1 DEF From
  <2>4. \A i, j \in 1 .. Len(set) : From(w, i) = From(w, j) => i = j
    BY <1>1, <2>1 DEF From
  <2>5. f \in [1 .. Len(set) -> 1 .. Len(set)]
    BY <2>3
  <2>6. new \in [1 .. Len(set) -> S]
    BY <1>1, <2>2, <2>3
  <2>7. new \in Seq(S) /\ Len(new) = Len(set)
    BY <1>1, <2>6, SeqIs
  <2>8. /\ \A i \in 1 .. Len(set) : new[i] = set[f[i]]
        /\ \A i, j \in 1 .. Len(set) : f[i] = f[j] => i = j
    BY <2>2, <2>4
  <2>9. Shuffled(set, new)
    BY <2>5, <2>7, <2>8 DEF Shuffled
  <2>10. 1 \in 1 .. Len(set) /\ From(w, 1) = w
    BY <1>1, <2>1 DEF From
  <2>11. new[1].tag = line
    BY <2>1, <2>2, <2>10
  <2>12. QED
    BY <1>1, <2>7, <2>9, <2>10, <2>11 DEF new
<1>4. QED
  BY <1>2, <1>3


----------------------------------------------------------------------------
(* One cache.                                                               *)
LEMMA SoundIs ==
  ASSUME NEW c \in CacheNames, NEW k, Sound(c, k)
  PROVE  /\ k.array \in [SetsOf(c) -> Seq(LinesOf(c))] /\ k.mhsr \in [1 .. MHSRs[c] -> Registers]
         /\ k.port \in [1 .. Ports[c] -> Nat]
         /\ k = [array |-> k.array, mhsr |-> k.mhsr, port |-> k.port]
         /\ \A s \in SetsOf(c) : SetIs(c, s, k.array[s]) /\ NamesIn(c, k.mhsr, k.array[s])
BY DEF Sound, CacheType

LEMMA SetIsType ==
  ASSUME NEW c \in CacheNames, NEW s, NEW set, SetIs(c, s, set)
  PROVE  /\ Len(set) \in Nat /\ DOMAIN set = 1 .. Len(set) /\ set \in [1 .. Len(set) -> LinesOf(c)]
         /\ set \in Seq(LinesOf(c)) /\ Len(set) <= Assoc[c]
BY IsSeq DEF SetIs

(* k with another set s, other MHSRs and other ports.                       *)
With(k, s, set, regs, ports) ==
  [array |-> [k.array EXCEPT ![s] = set], mhsr |-> regs, port |-> ports]

LEMMA WithIs ==
  ASSUME NEW c \in CacheNames, NEW k, Sound(c, k), NEW s \in SetsOf(c), NEW set, NEW regs, NEW ports,
         NEW j, j = With(k, s, set, regs, ports)
  PROVE  /\ j = [array |-> j.array, mhsr |-> j.mhsr, port |-> j.port]
         /\ j.mhsr = regs /\ j.port = ports /\ j.array[s] = set
         /\ \A t \in SetsOf(c) : t # s => j.array[t] = k.array[t]
         /\ j.array = [k.array EXCEPT ![s] = set] /\ DOMAIN j.array = SetsOf(c)
         /\ DOMAIN k.array = SetsOf(c)
<1>1. k.array \in [SetsOf(c) -> Seq(LinesOf(c))]
  BY SoundIs
<1>2. j.mhsr = regs /\ j.port = ports /\ j.array = [k.array EXCEPT ![s] = set]
  BY DEF With
<1>3. QED
  BY <1>1, <1>2 DEF With

LEMMA Rebuilt ==
  ASSUME NEW c \in CacheNames, NEW k, Sound(c, k), NEW s \in SetsOf(c),
         NEW set, SetIs(c, s, set),
         NEW regs \in [1 .. MHSRs[c] -> Registers], NEW ports \in [1 .. Ports[c] -> Nat],
         NamesIn(c, regs, set),
         \A t \in SetsOf(c) : t # s => NamesIn(c, regs, k.array[t]),
         NEW j, j = With(k, s, set, regs, ports)
  PROVE  Sound(c, j)
<1>1. k.array \in [SetsOf(c) -> Seq(LinesOf(c))]
      /\ \A t \in SetsOf(c) : SetIs(c, t, k.array[t]) /\ NamesIn(c, k.mhsr, k.array[t])
  BY SoundIs
<1>2. /\ j = [array |-> j.array, mhsr |-> j.mhsr, port |-> j.port]
      /\ j.mhsr = regs /\ j.port = ports /\ j.array[s] = set
      /\ \A t \in SetsOf(c) : t # s => j.array[t] = k.array[t]
      /\ j.array = [k.array EXCEPT ![s] = set]
  BY WithIs
<1>3. set \in Seq(LinesOf(c))
  BY DEF SetIs
<1>4. j.array \in [SetsOf(c) -> Seq(LinesOf(c))]
  BY <1>1, <1>2, <1>3
<1>5. j \in CacheType(c)
  BY <1>2, <1>4 DEF CacheType
<1>6. \A t \in SetsOf(c) : SetIs(c, t, j.array[t]) /\ NamesIn(c, j.mhsr, j.array[t])
  BY <1>1, <1>2
<1>7. QED
  BY <1>5, <1>6 DEF Sound

(* A set with its lines in another order and other dirty bits; the line     *)
(* that names m lets go of it.                                              *)
Permuted(set, new, m) ==
  /\ Len(new) = Len(set)
  /\ \E f \in [1 .. Len(set) -> 1 .. Len(set)] :
       /\ \A i \in 1 .. Len(set) :
            /\ new[i].tag = set[f[i]].tag
            /\ new[i].mhsr = IF set[f[i]].mhsr = m THEN NoMHSR ELSE set[f[i]].mhsr
       /\ \A i, j \in 1 .. Len(set) : f[i] = f[j] => i = j

LEMMA PermutedIs ==
  ASSUME NEW c \in CacheNames, NEW s, NEW set, SetIs(c, s, set),
         NEW new \in Seq(LinesOf(c)), NEW m, Permuted(set, new, m)
  PROVE  SetIs(c, s, new)
<1>1. PICK f \in [1 .. Len(set) -> 1 .. Len(set)] :
         /\ \A i \in 1 .. Len(set) : new[i].tag = set[f[i]].tag
         /\ \A i, j \in 1 .. Len(set) : f[i] = f[j] => i = j
  BY DEF Permuted
<1>2. Len(new) = Len(set)
  BY DEF Permuted
<1>3. /\ Len(set) <= Assoc[c]
      /\ \A i \in 1 .. Len(set) : SetOf(c, set[i].tag) = s
      /\ \A i, j \in 1 .. Len(set) : set[i].tag = set[j].tag => i = j
  BY DEF SetIs
<1>4. \A i \in 1 .. Len(set) : f[i] \in 1 .. Len(set)
  OBVIOUS
<1>5. ASSUME NEW i \in 1 .. Len(new) PROVE SetOf(c, new[i].tag) = s
  <2>1. i \in 1 .. Len(set)
    BY <1>2
  <2>2. f[i] \in 1 .. Len(set) /\ new[i].tag = set[f[i]].tag
    BY <1>1, <1>4, <2>1
  <2>3. QED
    BY <1>3, <2>2
<1>6. \A i, j \in 1 .. Len(new) : new[i].tag = new[j].tag => i = j
  BY <1>1, <1>2, <1>3, <1>4
<1>7. QED
  BY <1>2, <1>3, <1>5, <1>6 DEF SetIs

LEMMA PermutedNames ==
  ASSUME NEW c \in CacheNames, NEW set, NEW new, NEW m, Permuted(set, new, m),
         NEW regs, NEW other, NamesIn(c, regs, set),
         \A n \in 1 .. MHSRs[c] : n # m => other[n] = regs[n]
  PROVE  /\ NamesIn(c, other, new)
         /\ m # NoMHSR => \A i \in 1 .. Len(new) : new[i].mhsr # m
<1>1. PICK f \in [1 .. Len(set) -> 1 .. Len(set)] :
         \A i \in 1 .. Len(set) :
            /\ new[i].tag = set[f[i]].tag
            /\ new[i].mhsr = IF set[f[i]].mhsr = m THEN NoMHSR ELSE set[f[i]].mhsr
  BY DEF Permuted
<1>2. Len(new) = Len(set)
  BY DEF Permuted
<1>3. \A i \in 1 .. Len(set) : f[i] \in 1 .. Len(set)
  OBVIOUS
<1>4. ASSUME NEW i \in 1 .. Len(new), new[i].mhsr # NoMHSR
      PROVE  /\ new[i].mhsr \in 1 .. MHSRs[c]
             /\ other[new[i].mhsr].busy /\ other[new[i].mhsr].line = new[i].tag
  <2>1. PICK n \in 1 .. Len(set) : n = f[i]
    BY <1>2, <1>3
  <2>2. set[n].mhsr # m /\ new[i].mhsr = set[n].mhsr /\ new[i].tag = set[n].tag
    BY <1>1, <1>2, <1>4, <2>1
  <2>3. /\ set[n].mhsr \in 1 .. MHSRs[c]
        /\ regs[set[n].mhsr].busy /\ regs[set[n].mhsr].line = set[n].tag
    BY <1>4, <2>2 DEF NamesIn
  <2>4. other[set[n].mhsr] = regs[set[n].mhsr]
    BY <2>2, <2>3
  <2>5. QED
    BY <2>2, <2>3, <2>4
<1>5. m # NoMHSR => \A i \in 1 .. Len(new) : new[i].mhsr # m
  BY <1>1, <1>2
<1>6. QED
  BY <1>4, <1>5 DEF NamesIn

(* Only MHSRs that are done are freed, and lines that name one of these let *)
(* go of it.                                                                *)
EasedSet(regs, set, new) ==
  /\ Len(new) = Len(set)
  /\ \A i \in 1 .. Len(set) : \E n \in 1 .. Len(set) :
       /\ new[i].tag = set[n].tag
       /\ \/ new[i].mhsr = set[n].mhsr
          \/ new[i].mhsr = NoMHSR /\ set[n].mhsr # NoMHSR /\ regs[set[n].mhsr] = Idle

EasedRegs(c, regs, new, cur) ==
  \A m \in 1 .. MHSRs[c] : new[m] = regs[m] \/ (new[m] = Idle /\ regs[m].resolved <= cur)

Eased(c, k, j, cur) ==
  /\ EasedRegs(c, k.mhsr, j.mhsr, cur)
  /\ \A s \in SetsOf(c) : EasedSet(j.mhsr, k.array[s], j.array[s])

LEMMA PermutedEased ==
  ASSUME NEW set, NEW new, NEW m, Permuted(set, new, m), NEW regs,
         m # NoMHSR => regs[m] = Idle
  PROVE  EasedSet(regs, set, new)
<1>1. PICK f \in [1 .. Len(set) -> 1 .. Len(set)] :
         \A i \in 1 .. Len(set) :
            /\ new[i].tag = set[f[i]].tag
            /\ new[i].mhsr = IF set[f[i]].mhsr = m THEN NoMHSR ELSE set[f[i]].mhsr
  BY DEF Permuted
<1>2. \A i \in 1 .. Len(set) : f[i] \in 1 .. Len(set)
  OBVIOUS
<1>3. ASSUME NEW i \in 1 .. Len(set)
      PROVE  \E n \in 1 .. Len(set) :
               /\ new[i].tag = set[n].tag
               /\ \/ new[i].mhsr = set[n].mhsr
                  \/ new[i].mhsr = NoMHSR /\ set[n].mhsr # NoMHSR /\ regs[set[n].mhsr] = Idle
  <2>1. PICK n \in 1 .. Len(set) : n = f[i]
    BY <1>2
  <2>2. new[i].tag = set[n].tag /\ new[i].mhsr = IF set[n].mhsr = m THEN NoMHSR ELSE set[n].mhsr
    BY <1>1, <2>1
  <2>3. QED
    BY <2>2
<1>4. QED
  BY <1>3 DEF EasedSet, Permuted

LEMMA EasedSame ==
  ASSUME NEW regs, NEW set
  PROVE  EasedSet(regs, set, set)
BY DEF EasedSet


(* m is freed, if it is an MHSR: it is done, and was for a line of the set. *)
Freed(c, k, s, m, regs, cur) ==
  \/ m = NoMHSR /\ regs = k.mhsr
  \/ /\ m \in 1 .. MHSRs[c] /\ regs = [k.mhsr EXCEPT ![m] = Idle]
     /\ k.mhsr[m].resolved <= cur
     /\ k.mhsr[m].busy => SetOf(c, k.mhsr[m].line) = s

LEMMA ShuffledIs ==
  ASSUME NEW c \in CacheNames, NEW k, Sound(c, k), NEW s \in SetsOf(c), NEW cur \in Int,
         NEW new, SetIs(c, s, new), NEW m, Permuted(k.array[s], new, m),
         NEW regs, NEW j, j = With(k, s, new, regs, k.port),
         Freed(c, k, s, m, regs, cur)
  PROVE  /\ Sound(c, j) /\ Eased(c, k, j, cur) /\ j.mhsr = regs /\ j.port = k.port
         /\ m # NoMHSR => \A t \in SetsOf(c) : \A i \in 1 .. Len(j.array[t]) : j.array[t][i].mhsr # m
<1>1. /\ k.mhsr \in [1 .. MHSRs[c] -> Registers] /\ k.port \in [1 .. Ports[c] -> Nat]
      /\ \A t \in SetsOf(c) : SetIs(c, t, k.array[t]) /\ NamesIn(c, k.mhsr, k.array[t])
  BY SoundIs
<1>2. /\ j.mhsr = regs /\ j.port = k.port /\ j.array[s] = new
      /\ \A t \in SetsOf(c) : t # s => j.array[t] = k.array[t]
  <2>1. k.array \in [SetsOf(c) -> Seq(LinesOf(c))]
    BY SoundIs
  <2>2. QED
    BY <2>1 DEF With
<1>3. Idle \in Registers
  BY DEF Idle, Registers
<1>4. /\ regs \in [1 .. MHSRs[c] -> Registers]
      /\ \A n \in 1 .. MHSRs[c] : n # m => regs[n] = k.mhsr[n]
      /\ m # NoMHSR => m \in 1 .. MHSRs[c] /\ regs[m] = Idle
      /\ m # NoMHSR => k.mhsr[m].resolved <= cur
                       /\ (k.mhsr[m].busy => SetOf(c, k.mhsr[m].line) = s)
  BY <1>1, <1>3 DEF Freed
<1>5. EasedRegs(c, k.mhsr, regs, cur)
  <2>1. SUFFICES ASSUME NEW n \in 1 .. MHSRs[c], regs[n] # k.mhsr[n]
                 PROVE  regs[n] = Idle /\ k.mhsr[n].resolved <= cur
    BY DEF EasedRegs
  <2>2. n = m /\ m # NoMHSR
    BY <1>4, <2>1 DEF NoMHSR, Freed
  <2>3. QED
    BY <1>4, <2>2
<1>6. NamesIn(c, regs, new) /\ (m # NoMHSR => \A i \in 1 .. Len(new) : new[i].mhsr # m)
  <2>1. PICK set : set = k.array[s]
    OBVIOUS
  <2>2. PICK old : old = k.mhsr
    OBVIOUS
  <2>3. NamesIn(c, old, set) /\ Permuted(set, new, m)
    BY <1>1, <2>1, <2>2
  <2>4. \A n \in 1 .. MHSRs[c] : n # m => regs[n] = old[n]
    BY <1>4, <2>2
  <2>5. QED
    BY <2>3, <2>4, PermutedNames
<1>7. ASSUME NEW t \in SetsOf(c), t # s
      PROVE  /\ NamesIn(c, regs, k.array[t])
             /\ m # NoMHSR => \A i \in 1 .. Len(k.array[t]) : k.array[t][i].mhsr # m
  <2>1. PICK set : set = k.array[t]
    OBVIOUS
  <2>2. /\ \A i \in 1 .. Len(set) : SetOf(c, set[i].tag) = t
        /\ NamesIn(c, k.mhsr, set)
    BY <1>1, <2>1 DEF SetIs
  <2>3. m # NoMHSR => \A i \in 1 .. Len(set) : set[i].mhsr # m
    BY <1>4, <1>7, <2>2 DEF NamesIn
  <2>4. NamesIn(c, regs, set)
    BY <1>4, <2>2, <2>3 DEF NamesIn
  <2>5. QED
    BY <2>1, <2>3, <2>4
<1>8. Sound(c, j)
  BY <1>1, <1>4, <1>6, <1>7, Rebuilt
<1>9. ASSUME NEW t \in SetsOf(c) PROVE EasedSet(regs, k.array[t], j.array[t])
  <2>1. CASE t = s
    BY <1>2, <1>4, <2>1, PermutedEased
  <2>2. CASE t # s
    BY <1>2, <2>2, EasedSame
  <2>3. QED
    BY <2>1, <2>2
<1>10. Eased(c, k, j, cur)
  BY <1>2, <1>5, <1>9 DEF Eased
<1>11. QED
  BY <1>2, <1>6, <1>7, <1>8, <1>10


LEMMA WithFirst ==
  ASSUME NEW S, NEW T \in Seq(S), Len(T) > 0, NEW r \in S, NEW new, new = [T EXCEPT ![1] = r]
  PROVE  /\ new \in Seq(S) /\ Len(new) = Len(T) /\ new[1] = r
         /\ \A i \in 1 .. Len(T) : i # 1 => new[i] = T[i]
<1>1. Len(T) \in Nat /\ DOMAIN T = 1 .. Len(T) /\ T \in [1 .. Len(T) -> S]
  BY IsSeq
<1>2. new \in [1 .. Len(T) -> S] /\ new[1] = r /\ \A i \in 1 .. Len(T) : i # 1 => new[i] = T[i]
  BY <1>1
<1>3. ASSUME NEW m \in Nat, m = Len(T), NEW g \in [1 .. m -> S]
      PROVE  g \in Seq(S) /\ Len(g) = m
  BY SeqIs
<1>4. new \in Seq(S) /\ Len(new) = Len(T)
  BY <1>1, <1>2, <1>3
<1>5. QED
  BY <1>2, <1>4

(* The set T with r as its first line, which lets go of m.                  *)
LetsGo(T, new, r, line, regs, m) ==
  /\ r.tag = line /\ r.mhsr = IF T[1].mhsr = m THEN NoMHSR ELSE T[1].mhsr
  /\ m # NoMHSR => regs[m].line = line
  /\ new = [T EXCEPT ![1] = r]

(* A set in which the line is the most recently used one, and has let go of *)
(* the MHSR m.                                                              *)
LEMMA FirstOf ==
  ASSUME NEW c \in CacheNames, NEW s, NEW set, SetIs(c, s, set), NEW line, Present(set, line),
         NEW T, T = Touch(set, line), NEW m, NEW r \in LinesOf(c),
         NEW regs, NamesIn(c, regs, set), NEW new, LetsGo(T, new, r, line, regs, m)
  PROVE  /\ SetIs(c, s, new) /\ Permuted(set, new, m)
         /\ Len(new) > 0 /\ new[1].tag = line
         /\ T[1] \in LinesOf(c) /\ T[1].tag = line /\ Len(T) = Len(set) /\ T \in Seq(LinesOf(c))
         /\ T[1].mhsr # NoMHSR => regs[T[1].mhsr].line = line
<1>1. set \in Seq(LinesOf(c)) /\ Len(set) \in Nat
  BY SetIsType
<1>2. T \in Seq(LinesOf(c)) /\ Shuffled(set, T) /\ Len(set) > 0 /\ T[1].tag = line
  BY <1>1, TouchIs
<1>3. Len(T) = Len(set) /\ T \in [1 .. Len(T) -> LinesOf(c)] /\ DOMAIN T = 1 .. Len(T)
  BY <1>2, IsSeq DEF Shuffled
<1>4. PICK f \in [1 .. Len(set) -> 1 .. Len(set)] :
         /\ \A i \in 1 .. Len(set) : T[i] = set[f[i]]
         /\ \A i, j \in 1 .. Len(set) : f[i] = f[j] => i = j
  BY <1>2 DEF Shuffled
<1>5. 1 \in 1 .. Len(set) /\ T[1] \in LinesOf(c)
  BY <1>1, <1>2, <1>3
<1>11. /\ new \in Seq(LinesOf(c)) /\ Len(new) = Len(set)
       /\ new[1] = r
       /\ \A i \in 1 .. Len(set) : i # 1 => new[i] = T[i]
  BY <1>2, <1>3, WithFirst DEF LetsGo
<1>12. \A i \in 1 .. Len(set) : f[i] \in 1 .. Len(set)
  OBVIOUS
<1>13. ASSUME NEW i \in 1 .. Len(set), T[i].mhsr # NoMHSR
       PROVE  regs[T[i].mhsr].line = T[i].tag
  BY <1>4, <1>12, <1>13 DEF NamesIn
<1>14. \A i, j \in 1 .. Len(set) : T[i].tag = T[j].tag => i = j
  BY <1>4, <1>12 DEF SetIs
<1>15. ASSUME NEW i \in 1 .. Len(set), i # 1, m # NoMHSR PROVE T[i].mhsr # m
  BY <1>2, <1>5, <1>13, <1>14, <1>15 DEF LetsGo
<1>16. ASSUME NEW i \in 1 .. Len(set)
       PROVE  /\ new[i].tag = set[f[i]].tag
              /\ new[i].mhsr = IF set[f[i]].mhsr = m THEN NoMHSR ELSE set[f[i]].mhsr
  <2>1. CASE i = 1
    BY <1>2, <1>4, <1>5, <1>11, <2>1 DEF LetsGo
  <2>2. CASE i # 1
    BY <1>4, <1>11, <1>15, <2>2 DEF LetsGo
  <2>3. QED
    BY <2>1, <2>2
<1>17. Permuted(set, new, m)
  BY <1>4, <1>11, <1>16 DEF Permuted
<1>18. SetIs(c, s, new)
  BY <1>11, <1>17, PermutedIs
<1>19. QED
  BY <1>2, <1>3, <1>5, <1>11, <1>13, <1>17, <1>18 DEF LetsGo

LEMMA NoneOf ==
  ASSUME NEW c \in CacheNames, NEW s, NEW set, SetIs(c, s, set), NEW line, ~ Present(set, line),
         NEW regs, NamesIn(c, regs, set), NEW m, regs[m].line = line
  PROVE  Permuted(set, set, m)
<1> DEFINE f == [i \in 1 .. Len(set) |-> i]
<1>1. DOMAIN set = 1 .. Len(set)
  BY SetIsType
<1>2. \A i \in 1 .. Len(set) : set[i].mhsr = m => m = NoMHSR
  BY <1>1 DEF Present, NamesIn
<1>3. f \in [1 .. Len(set) -> 1 .. Len(set)] /\ \A i \in 1 .. Len(set) : f[i] = i
  OBVIOUS
<1> HIDE DEF f
<1>4. QED
  BY <1>2, <1>3 DEF Permuted

LEMMA FirstNames ==
  ASSUME NEW c \in CacheNames, NEW s, NEW set, SetIs(c, s, set), NEW line, Present(set, line),
         NEW T, T = Touch(set, line), NEW regs, NamesIn(c, regs, set)
  PROVE  /\ T[1] \in LinesOf(c) /\ T[1].tag = line /\ Len(T) = Len(set) /\ T \in Seq(LinesOf(c))
         /\ T[1].mhsr # NoMHSR => T[1].mhsr \in 1 .. MHSRs[c] /\ regs[T[1].mhsr].line = line
         /\ Present(T, line) /\ Len(set) > 0
<1>1. T \in Seq(LinesOf(c)) /\ Len(T) > 0 /\ T[1].tag = line
  BY SetIsType, TouchIs DEF Shuffled
<1>2. T[1] \in LinesOf(c)
  BY <1>1, IsSeq
<1>3. PICK r \in LinesOf(c) : r = T[1]
  BY <1>2
<1>4. PICK new : new = [T EXCEPT ![1] = r]
  OBVIOUS
<1>5. PICK m : m = NoMHSR
  OBVIOUS
<1>6. LetsGo(T, new, r, line, regs, m)
  BY <1>1, <1>3, <1>4, <1>5 DEF LetsGo
<1>7. /\ T[1] \in LinesOf(c) /\ T[1].tag = line /\ Len(T) = Len(set) /\ T \in Seq(LinesOf(c))
      /\ T[1].mhsr # NoMHSR => regs[T[1].mhsr].line = line
      /\ Len(new) > 0 /\ Permuted(set, new, m)
  BY <1>6, FirstOf
<1>8. MHSRs[c] \in Nat \ {0}
  BY Sizes
<1>9. T[1].mhsr # NoMHSR => T[1].mhsr \in 1 .. MHSRs[c]
  BY <1>7, <1>8 DEF LinesOf, NoMHSR
<1>10. Len(set) > 0 /\ Len(set) \in Nat
  BY <1>7, SetIsType DEF Permuted
<1>11. DOMAIN T = 1 .. Len(T)
  BY <1>7, IsSeq
<1>12. Present(T, line)
  BY <1>7, <1>10, <1>11 DEF Present
<1>13. QED
  BY <1>7, <1>9, <1>10, <1>12

(* Touching finds what was there.                                           *)
LEMMA TouchFinds ==
  ASSUME NEW c \in CacheNames, NEW s, NEW set, SetIs(c, s, set), NEW line, ~ Present(set, line)
  PROVE  Touch(set, line) = set
BY DEF Touch

Emptied(regs, m) == [regs EXCEPT ![m] = Idle]

(* No line names m.                                                         *)
Unnamed(c, k, m) == \A s \in SetsOf(c) : \A i \in 1 .. Len(k.array[s]) : k.array[s][i].mhsr # m

LEMMA ReleaseIs ==
  ASSUME NEW c \in CacheNames, NEW k, Sound(c, k), NEW cur \in Int, NEW i \in 1 .. MHSRs[c],
         k.mhsr[i].resolved <= cur, NEW j, j = Release(c, k, i)
  PROVE  /\ Sound(c, j) /\ Eased(c, k, j, cur) /\ j.port = k.port
         /\ j.mhsr = Emptied(k.mhsr, i) /\ Unnamed(c, j, i)
<1>1. /\ k.mhsr \in [1 .. MHSRs[c] -> Registers]
      /\ k = [array |-> k.array, mhsr |-> k.mhsr, port |-> k.port]
      /\ k.array \in [SetsOf(c) -> Seq(LinesOf(c))]
      /\ \A t \in SetsOf(c) : SetIs(c, t, k.array[t]) /\ NamesIn(c, k.mhsr, k.array[t])
  BY SoundIs
<1>2. PICK line : line = k.mhsr[i].line
  OBVIOUS
<1>3. PICK s \in SetsOf(c) : s = SetOf(c, line)
  BY <1>1, <1>2, SetOfType DEF Registers
<1>4. PICK set : set = k.array[s]
  OBVIOUS
<1>5. SetIs(c, s, set) /\ NamesIn(c, k.mhsr, set)
  BY <1>1, <1>4
<1>6. PICK T : T = Touch(set, line)
  OBVIOUS
<1>7. PICK new : new = IF Present(T, line) /\ T[1].mhsr = i
                       THEN LetGo(T) ELSE T
  OBVIOUS
<1>8. PICK regs : regs = [k.mhsr EXCEPT ![i] = Idle]
  OBVIOUS
<1>9. j = With(k, s, new, regs, k.port)
  <2>1. j = [k EXCEPT !.mhsr[i] = Idle,
                      !.array[s] = IF Present(T, line) /\ T[1].mhsr = i
                                   THEN LetGo(T) ELSE T]
    BY <1>2, <1>3, <1>4, <1>6 DEF Release
  <2>2. j = [k EXCEPT !.mhsr = regs, !.array = [k.array EXCEPT ![s] = new]]
    BY <1>1, <1>7, <1>8, <2>1
  <2>3. QED
    BY <1>1, <2>2 DEF With
<1>10. i # NoMHSR
  BY DEF NoMHSR
<1>11. SetIs(c, s, new) /\ Permuted(set, new, i)
  <2>1. CASE Present(set, line)
    <3>1. /\ T[1] \in LinesOf(c) /\ T[1].tag = line /\ T \in Seq(LinesOf(c)) /\ Present(T, line)
          /\ Len(T) = Len(set) /\ Len(set) > 0
      BY <1>5, <1>6, <2>1, FirstNames
    <3>2. PICK r \in LinesOf(c) :
            r = IF T[1].mhsr = i THEN [T[1] EXCEPT !.mhsr = NoMHSR] ELSE T[1]
      <4>1. NoMHSR \in 0 .. MHSRs[c]
        BY Sizes DEF NoMHSR
      <4>2. QED
        BY <3>1, <4>1 DEF LinesOf
    <3>4. DOMAIN T = 1 .. Len(T) /\ 1 \in DOMAIN T /\ T = [w \in DOMAIN T |-> T[w]]
      BY <3>1, IsSeq
    <3>5. new = [T EXCEPT ![1] = r]
      <4>1. CASE T[1].mhsr = i
        BY <1>7, <3>1, <3>2, <4>1 DEF LetGo
      <4>2. CASE T[1].mhsr # i
        BY <1>7, <3>2, <3>4, <4>2
      <4>3. QED
        BY <4>1, <4>2
    <3>3. PICK regs0 : regs0 = k.mhsr
      OBVIOUS
    <3>7. LetsGo(T, new, r, line, regs0, i)
      BY <1>2, <3>1, <3>2, <3>3, <3>5 DEF LinesOf, LetsGo
    <3>8. NamesIn(c, regs0, set)
      BY <1>5, <3>3
    <3>6. QED
      BY <1>5, <1>6, <2>1, <3>7, <3>8, FirstOf
  <2>2. CASE ~ Present(set, line)
    <3>1. T = set /\ new = set
      BY <1>6, <1>7, <2>2 DEF Touch
    <3>2. QED
      BY <1>2, <1>5, <2>2, <3>1, NoneOf
  <2>3. QED
    BY <2>1, <2>2
<1>12. Freed(c, k, s, i, regs, cur)
  BY <1>2, <1>3, <1>8 DEF Freed
<1>13. /\ Sound(c, j) /\ Eased(c, k, j, cur) /\ j.mhsr = regs /\ j.port = k.port
       /\ \A t \in SetsOf(c) : \A w \in 1 .. Len(j.array[t]) : j.array[t][w].mhsr # i
  BY <1>4, <1>9, <1>10, <1>11, <1>12, ShuffledIs
<1>14. QED
  BY <1>8, <1>13 DEF Emptied, Unnamed

(* A hit on a line that has come.                                           *)
LEMMA HitReady ==
  ASSUME NEW c \in CacheNames, NEW k, Sound(c, k), NEW cur, NEW line, NEW store, NEW s, NEW m,
         NEW set, s = SetOf(c, line), set = Found(k.array[s], line, store), m = set[1].mhsr,
         Come(k, m, cur), NEW h, h = HitAccess(c, k, cur, line, store)
  PROVE  h.k = With(k, s, LetGo(set), Emptied(k.mhsr, m), k.port) /\ h.t = cur
<1>1. k = [array |-> k.array, mhsr |-> k.mhsr, port |-> k.port]
  BY SoundIs
<1>2. h.k = [k EXCEPT !.array[s] = LetGo(set), !.mhsr[m] = Idle] /\ h.t = cur
  BY DEF HitAccess
<1>3. QED
  BY <1>1, <1>2 DEF With, Emptied

(* A hit on a line that is there or on its way.                             *)
LEMMA HitIs ==
  ASSUME NEW c \in CacheNames, NEW k, Sound(c, k), NEW cur \in Int, NEW line,
         NEW s \in SetsOf(c), s = SetOf(c, line), Present(k.array[s], line), NEW store \in BOOLEAN
  PROVE  LET h == HitAccess(c, k, cur, line, store) IN
         /\ Sound(c, h.k) /\ Eased(c, k, h.k, cur) /\ Present(h.k.array[s], line)
         /\ h.t \in Int /\ h.t >= cur
<1> DEFINE h == HitAccess(c, k, cur, line, store)
<1>1. /\ k.mhsr \in [1 .. MHSRs[c] -> Registers]
      /\ k = [array |-> k.array, mhsr |-> k.mhsr, port |-> k.port]
      /\ k.array \in [SetsOf(c) -> Seq(LinesOf(c))]
      /\ \A t \in SetsOf(c) : SetIs(c, t, k.array[t]) /\ NamesIn(c, k.mhsr, k.array[t])
  BY SoundIs
<1>2. PICK old : old = k.array[s]
  OBVIOUS
<1>3. PICK regs0 : regs0 = k.mhsr
  OBVIOUS
<1>4. SetIs(c, s, old) /\ NamesIn(c, regs0, old) /\ Present(old, line)
  BY <1>1, <1>2, <1>3
<1>5. PICK T : T = Touch(old, line)
  OBVIOUS
<1>6. /\ T[1] \in LinesOf(c) /\ T[1].tag = line /\ Len(T) = Len(old) /\ T \in Seq(LinesOf(c))
      /\ T[1].mhsr # NoMHSR => T[1].mhsr \in 1 .. MHSRs[c] /\ regs0[T[1].mhsr].line = line
      /\ Len(old) > 0
  BY <1>4, <1>5, FirstNames
<1>7. PICK m : m = T[1].mhsr
  OBVIOUS
<1>8. DOMAIN T = 1 .. Len(T) /\ 1 \in DOMAIN T /\ T = [w \in DOMAIN T |-> T[w]]
  BY <1>6, IsSeq
<1>9. PICK r \in LinesOf(c) : r = [T[1] EXCEPT !.dirty = @ \/ store]
  BY <1>6 DEF LinesOf
<1>10. r.tag = line /\ r.mhsr = m
  BY <1>6, <1>7, <1>9 DEF LinesOf
<1>11. PICK set : set = [T EXCEPT ![1] = r]
  OBVIOUS
<1>12. set = Found(old, line, store) /\ set[1] = r
  <2>1. set = [T EXCEPT ![1].dirty = @ \/ store] /\ set[1] = r
    BY <1>8, <1>9, <1>11
  <2>2. QED
    BY <1>5, <2>1 DEF Found
<1>13. PICK gone \in LinesOf(c) : gone = [r EXCEPT !.mhsr = NoMHSR]
  <2>1. NoMHSR \in 0 .. MHSRs[c]
    BY Sizes DEF NoMHSR
  <2>2. QED
    BY <2>1 DEF LinesOf
<1>14. gone.tag = line /\ gone.mhsr = NoMHSR
  BY <1>10, <1>13 DEF LinesOf
<1>15. cur + Hit[c] \in Int /\ cur + Hit[c] >= cur
  BY Sizes
<1>16. CASE Come(k, m, cur)
  <2>1. PICK new : new = [T EXCEPT ![1] = gone]
    OBVIOUS
  <2>2. LetGo(set) = new
    BY <1>8, <1>11, <1>12, <1>13, <2>1 DEF LetGo
  <2>3. PICK regs : regs = [k.mhsr EXCEPT ![m] = Idle]
    OBVIOUS
  <2>4. h.t = cur /\ h.k = With(k, s, new, regs, k.port)
    <3>1. set = Found(k.array[s], line, store) /\ m = set[1].mhsr
      BY <1>2, <1>10, <1>12
    <3>2. h.k = With(k, s, LetGo(set), Emptied(k.mhsr, m), k.port) /\ h.t = cur
      BY <1>16, <3>1, HitReady
    <3>3. QED
      BY <2>2, <2>3, <3>2 DEF Emptied
  <2>7. LetsGo(T, new, gone, line, regs0, m)
    BY <1>6, <1>7, <1>14, <2>1 DEF LetsGo
  <2>8. SetIs(c, s, new) /\ Permuted(old, new, m) /\ Len(new) > 0 /\ new[1].tag = line
    BY <1>4, <1>5, <2>7, FirstOf
  <2>9. Freed(c, k, s, m, regs, cur)
    BY <1>3, <1>6, <1>7, <1>16, <2>3 DEF Freed, Come
  <2>10. Sound(c, h.k) /\ Eased(c, k, h.k, cur) /\ h.k.array[s] = new
    <3> HIDE DEF h
    <3>1. ASSUME NEW j, j = With(k, s, new, regs, k.port)
          PROVE  Sound(c, j) /\ Eased(c, k, j, cur) /\ j.array[s] = new
      <4>1. j.array[s] = new
        BY <1>1, <3>1 DEF With
      <4>2. QED
        BY <1>2, <2>8, <2>9, <3>1, <4>1, ShuffledIs
    <3>2. QED
      BY <2>4, <3>1
  <2>11. DOMAIN new = 1 .. Len(new) /\ Len(new) \in Nat
    BY <2>8, SetIsType
  <2>12. Present(new, line)
    BY <2>8, <2>11 DEF Present
  <2>13. QED
    BY <2>4, <2>10, <2>12
<1>17. CASE ~ Come(k, m, cur)
  <2>1. PICK t : t = IF m = NoMHSR THEN cur ELSE Latest(k.mhsr[m].resolved, cur + Hit[c])
    OBVIOUS
  <2>2. t \in Int /\ t >= cur
    <3>1. CASE m = NoMHSR
      BY <2>1, <3>1
    <3>2. CASE m # NoMHSR
      <4>1. k.mhsr[m].resolved \in Int
        BY <1>1, <1>6, <1>7, <3>2 DEF Registers
      <4>2. QED
        BY <1>15, <2>1, <3>2, <4>1 DEF Latest
    <3>3. QED
      BY <3>1, <3>2
  <2>3. h = [k |-> [k EXCEPT !.array[s] = set], t |-> t]
    BY <1>2, <1>10, <1>12, <1>17, <2>1 DEF HitAccess
  <2>4. h.t = t /\ h.k = [k EXCEPT !.array[s] = set]
    BY <2>3
  <2>5. h.k = With(k, s, set, k.mhsr, k.port)
    BY <1>1, <2>4 DEF With
  <2>6. PICK none : none = NoMHSR
    OBVIOUS
  <2>7. LetsGo(T, set, r, line, regs0, none)
    BY <1>7, <1>10, <1>11, <2>6 DEF LetsGo
  <2>8. SetIs(c, s, set) /\ Permuted(old, set, none) /\ Len(set) > 0 /\ set[1].tag = line
    BY <1>4, <1>5, <2>7, FirstOf
  <2>9. Freed(c, k, s, none, k.mhsr, cur)
    BY <2>6 DEF Freed
  <2>10. Sound(c, h.k) /\ Eased(c, k, h.k, cur) /\ h.k.array[s] = set
    <3> HIDE DEF h
    <3>1. ASSUME NEW j, j = With(k, s, set, k.mhsr, k.port)
          PROVE  Sound(c, j) /\ Eased(c, k, j, cur) /\ j.array[s] = set
      <4>1. j.array[s] = set
        BY <1>1, <3>1 DEF With
      <4>2. QED
        BY <1>2, <2>8, <2>9, <3>1, <4>1, ShuffledIs
    <3>2. QED
      BY <2>5, <3>1
  <2>11. DOMAIN set = 1 .. Len(set) /\ Len(set) \in Nat
    BY <2>8, SetIsType
  <2>12. Present(set, line)
    BY <2>8, <2>11 DEF Present
  <2>13. QED
    BY <2>2, <2>4, <2>10, <2>12
<1>18. QED
  BY <1>16, <1>17

(* What a miss has found: an MHSR that nobody needs any more, and the rest. *)
Ready(c, a, line) ==
  /\ Sound(c, a.k) /\ a.m \in 1 .. MHSRs[c] /\ Unnamed(c, a.k, a.m)
  /\ a.p \in 1 .. Ports[c] /\ a.start \in Int
  /\ ~ Present(a.k.array[SetOf(c, line)], line)
  /\ VictimThere(c, a.k, a.k.array[SetOf(c, line)]) \in Int
  /\ a.start >= VictimThere(c, a.k, a.k.array[SetOf(c, line)])

LEMMA FreeIs ==
  ASSUME NEW c \in CacheNames, NEW k, Sound(c, k), NEW cur, FreeMHSRs(k, cur) # {}
  PROVE  /\ Min(FreeMHSRs(k, cur)) \in 1 .. MHSRs[c]
         /\ Finished(k.mhsr[Min(FreeMHSRs(k, cur))], cur)
<1>1. k.mhsr \in [1 .. MHSRs[c] -> Registers]
  BY SoundIs
<1>2. FreeMHSRs(k, cur) \in SUBSET Nat
  <2>1. DOMAIN k.mhsr = 1 .. MHSRs[c] /\ MHSRs[c] \in Nat
    BY <1>1, Sizes
  <2>2. \A i \in FreeMHSRs(k, cur) : i \in Nat
    BY <2>1 DEF FreeMHSRs
  <2>3. QED
    BY <2>2
<1>3. Min(FreeMHSRs(k, cur)) \in FreeMHSRs(k, cur)
  BY <1>2, MinIs
<1>4. QED
  BY <1>1, <1>3 DEF FreeMHSRs

LEMMA EasedAbsent ==
  ASSUME NEW c \in CacheNames, NEW s, NEW set, SetIs(c, s, set), NEW new, SetIs(c, s, new),
         NEW regs, EasedSet(regs, set, new), NEW line, ~ Present(set, line)
  PROVE  ~ Present(new, line)
<1>1. DOMAIN set = 1 .. Len(set) /\ DOMAIN new = 1 .. Len(new)
  BY SetIsType
<1>2. QED
  BY <1>1 DEF EasedSet, Present

LEMMA EasedItself ==
  ASSUME NEW c, NEW k, NEW cur
  PROVE  Eased(c, k, k, cur)
BY DEF Eased, EasedRegs, EasedSet

(* The registers of Miss, one by one.                                       *)
LEMMA MissForm ==
  ASSUME NEW c, NEW k, NEW cur, NEW line, NEW a, a = Miss(c, k, cur, line)
  PROVE  /\ a.m = Min(FreeMHSRs(k, cur))
         /\ a.k = IF k.mhsr[a.m].busy THEN Release(c, k, a.m) ELSE k
         /\ a.p = FindNextPort(a.k)
         /\ a.start = Latest(Latest(cur + Hit[c], a.k.port[a.p]),
                             VictimThere(c, a.k, a.k.array[SetOf(c, line)]))
BY DEF Miss, MissIn

LEMMA VictimIs ==
  ASSUME NEW c \in CacheNames, NEW k, Sound(c, k), NEW s \in SetsOf(c)
  PROVE  VictimThere(c, k, k.array[s]) \in Int
<1>1. /\ k.mhsr \in [1 .. MHSRs[c] -> Registers]
      /\ SetIs(c, s, k.array[s]) /\ NamesIn(c, k.mhsr, k.array[s])
  BY SoundIs
<1>2. PICK set : set = k.array[s]
  OBVIOUS
<1>3. Len(set) \in Nat
  BY <1>1, <1>2, SetIsType
<1>4. ASSUME Full(c, set), Last(set).mhsr # NoMHSR
      PROVE  k.mhsr[Last(set).mhsr].resolved \in Int
  <2>1. Len(set) \in 1 .. Len(set)
    BY <1>3, <1>4, Sizes DEF Full
  <2>2. Last(set) = set[Len(set)]
    BY DEF Last
  <2>3. Last(set).mhsr \in 1 .. MHSRs[c]
    BY <1>1, <1>2, <1>4, <2>1, <2>2 DEF NamesIn
  <2>4. QED
    BY <1>1, <2>3 DEF Registers
<1>5. QED
  BY <1>2, <1>4 DEF VictimThere

LEMMA MissIs ==
  ASSUME NEW c \in CacheNames, NEW k, Sound(c, k), NEW cur \in Int, NEW line \in Nat,
         FreeMHSRs(k, cur) # {}, ~ Present(k.array[SetOf(c, line)], line),
         NEW a, a = Miss(c, k, cur, line)
  PROVE  /\ Ready(c, a, line) /\ Eased(c, k, a.k, cur)
         /\ Finished(k.mhsr[a.m], cur) /\ a.start >= cur + Hit[c]
<1>1. /\ k.mhsr \in [1 .. MHSRs[c] -> Registers]
      /\ \A t \in SetsOf(c) : SetIs(c, t, k.array[t]) /\ NamesIn(c, k.mhsr, k.array[t])
  BY SoundIs
<1>2. /\ a.m = Min(FreeMHSRs(k, cur))
      /\ a.k = IF k.mhsr[a.m].busy THEN Release(c, k, a.m) ELSE k
      /\ a.p = FindNextPort(a.k)
      /\ a.start = Latest(Latest(cur + Hit[c], a.k.port[a.p]),
                          VictimThere(c, a.k, a.k.array[SetOf(c, line)]))
  BY MissForm
<1>3. a.m \in 1 .. MHSRs[c] /\ Finished(k.mhsr[a.m], cur)
  BY <1>2, FreeIs
<1>4. Sound(c, a.k) /\ Eased(c, k, a.k, cur) /\ Unnamed(c, a.k, a.m)
  <2>1. PICK m \in 1 .. MHSRs[c] : m = a.m
    BY <1>3
  <2>2. CASE k.mhsr[m].busy
    <3>1. k.mhsr[m].resolved <= cur
      <4>1. k.mhsr[m].resolved \in Int
        BY <1>1 DEF Registers
      <4>2. Finished(k.mhsr[m], cur)
        BY <1>3, <2>1
      <4>3. k.mhsr[m].resolved < cur
        BY <2>2, <4>2 DEF Finished
      <4>4. QED
        BY <4>1, <4>3
    <3>2. ASSUME NEW j, j = Release(c, k, m)
          PROVE  Sound(c, j) /\ Eased(c, k, j, cur) /\ Unnamed(c, j, m)
      BY <3>1, <3>2, ReleaseIs
    <3>3. QED
      BY <1>2, <2>1, <2>2, <3>2
  <2>3. CASE ~ k.mhsr[m].busy
    <3>1. ASSUME NEW s \in SetsOf(c), NEW i \in 1 .. Len(k.array[s]), k.array[s][i].mhsr = m
          PROVE  FALSE
      <4>1. m # NoMHSR
        BY DEF NoMHSR
      <4>2. QED
        BY <1>1, <2>3, <3>1, <4>1 DEF NamesIn
    <3>2. Unnamed(c, k, m)
      BY <3>1 DEF Unnamed
    <3>3. QED
      BY <1>2, <2>1, <2>3, <3>2, EasedItself
  <2>4. QED
    BY <2>2, <2>3
<1>5. PICK s \in SetsOf(c) : s = SetOf(c, line)
  BY SetOfType
<1>6. ~ Present(a.k.array[s], line)
  <2>1. SetIs(c, s, k.array[s]) /\ SetIs(c, s, a.k.array[s])
    BY <1>1, <1>4, SoundIs
  <2>2. EasedSet(a.k.mhsr, k.array[s], a.k.array[s])
    BY <1>4 DEF Eased
  <2>3. ~ Present(k.array[s], line)
    BY <1>5
  <2>4. QED
    BY <2>1, <2>2, <2>3, EasedAbsent
<1>7. a.p \in 1 .. Ports[c] /\ a.k.port[a.p] \in Nat
  <2>1. PICK port \in [1 .. Ports[c] -> Nat] : port = a.k.port
    BY <1>4, SoundIs
  <2>2. FindNextPort(a.k) \in 1 .. Ports[c]
    BY <2>1, PortIs
  <2>3. QED
    BY <1>2, <2>1, <2>2
<1>8. VictimThere(c, a.k, a.k.array[s]) \in Int
  BY <1>4, VictimIs
<1>9. cur + Hit[c] \in Int
  BY Sizes
<1>10. /\ a.start \in Int /\ a.start >= cur + Hit[c]
       /\ a.start >= VictimThere(c, a.k, a.k.array[s])
  <2>2. PICK x \in Int, y \in Int, z \in Int :
          /\ x = cur + Hit[c] /\ y = a.k.port[a.p]
          /\ z = VictimThere(c, a.k, a.k.array[s])
    BY <1>7, <1>8, <1>9
  <2>3. a.start = Latest(Latest(x, y), z)
    BY <1>2, <1>5, <2>2
  <2>4. a.start \in Int /\ a.start >= x /\ a.start >= z
    BY <2>3 DEF Latest
  <2>5. QED
    BY <2>2, <2>4
<1>11. QED
  BY <1>3, <1>4, <1>5, <1>6, <1>7, <1>8, <1>10 DEF Ready

(* A new line comes first, and those that were there after it.              *)
LEMMA PushedIs ==
  ASSUME NEW c \in CacheNames, NEW s, NEW set, SetIs(c, s, set), NEW l \in LinesOf(c),
         SetOf(c, l.tag) = s, ~ Present(set, l.tag), NEW new, new = Pushed(c, set, l)
  PROVE  /\ SetIs(c, s, new) /\ Len(new) > 0 /\ new[1] = l
         /\ \A i \in 1 .. Len(new) : i # 1 => i - 1 \in 1 .. Len(set) /\ new[i] = set[i - 1]
<1>1. Len(set) \in Nat /\ DOMAIN set = 1 .. Len(set) /\ set \in [1 .. Len(set) -> LinesOf(c)]
      /\ Len(set) <= Assoc[c]
  BY SetIsType
<1>2. Assoc[c] \in Nat \ {0}
  BY Sizes
<1>3. PICK n : n = IF Full(c, set) THEN Len(set) ELSE Len(set) + 1
  OBVIOUS
<1>4. n \in Nat /\ n > 0 /\ n <= Assoc[c] /\ n - 1 <= Len(set)
  <2>1. CASE Full(c, set)
    <3>1. n = Len(set) /\ Len(set) = Assoc[c]
      BY <1>3, <2>1 DEF Full
    <3>2. QED
      BY <1>1, <1>2, <3>1
  <2>2. CASE ~ Full(c, set)
    <3>1. n = Len(set) + 1 /\ Len(set) # Assoc[c]
      BY <1>3, <2>2 DEF Full
    <3>2. QED
      BY <1>1, <1>2, <3>1
  <2>3. QED
    BY <2>1, <2>2
<1>5. new = [i \in 1 .. n |-> IF i = 1 THEN l ELSE set[i - 1]]
  BY <1>3 DEF Pushed
<1>6. \A i \in 1 .. n : i # 1 => i - 1 \in 1 .. Len(set) /\ new[i] = set[i - 1]
  BY <1>1, <1>4, <1>5
<1>7. new[1] = l /\ 1 \in 1 .. n
  BY <1>4, <1>5
<1>8. new \in [1 .. n -> LinesOf(c)]
  <2>1. \A i \in 1 .. n : new[i] \in LinesOf(c)
    BY <1>1, <1>6, <1>7
  <2>2. QED
    BY <1>5, <2>1
<1>9. new \in Seq(LinesOf(c)) /\ Len(new) = n
  BY <1>4, <1>8, SeqIs
<1>10. /\ \A i \in 1 .. Len(set) : SetOf(c, set[i].tag) = s
       /\ \A i, j \in 1 .. Len(set) : set[i].tag = set[j].tag => i = j
  BY DEF SetIs
<1>11. \A i \in 1 .. Len(set) : set[i].tag # l.tag
  BY <1>1 DEF Present
<1>12. \A i \in 1 .. n : SetOf(c, new[i].tag) = s
  BY <1>6, <1>7, <1>10
<1>13. ASSUME NEW i \in 1 .. n, NEW j \in 1 .. n, new[i].tag = new[j].tag PROVE i = j
  <2>1. CASE i = 1 /\ j = 1
    BY <2>1
  <2>2. CASE i = 1 /\ j # 1
    BY <1>6, <1>7, <1>11, <1>13, <2>2
  <2>3. CASE i # 1 /\ j = 1
    BY <1>6, <1>7, <1>11, <1>13, <2>3
  <2>4. CASE i # 1 /\ j # 1
    <3>1. i - 1 = j - 1
      BY <1>6, <1>10, <1>13, <2>4
    <3>2. QED
      BY <3>1
  <2>5. QED
    BY <2>1, <2>2, <2>3, <2>4
<1>14. SetIs(c, s, new)
  BY <1>4, <1>9, <1>12, <1>13 DEF SetIs
<1>15. QED
  BY <1>4, <1>6, <1>7, <1>9, <1>14

(* The cache j, in which a miss on the line has taken the MHSR m of k.      *)
Booked(c, k, m, line, t, j) ==
  LET s == SetOf(c, line) IN
  /\ j.mhsr[m].busy /\ j.mhsr[m].line = line /\ j.mhsr[m].resolved = t
  /\ \A n \in 1 .. MHSRs[c] : n # m => j.mhsr[n] = k.mhsr[n]
  /\ Len(j.array[s]) > 0 /\ j.array[s][1].tag = line /\ j.array[s][1].mhsr = m
  /\ \A i \in 1 .. Len(j.array[s]) : i # 1 =>
       i - 1 \in 1 .. Len(k.array[s]) /\ j.array[s][i] = k.array[s][i - 1]
  /\ \A u \in SetsOf(c) : u # s => j.array[u] = k.array[u]

Booking(regs, m, line, t) ==
  [regs EXCEPT ![m] = [busy |-> TRUE, line |-> line, resolved |-> t]]

LEMMA MissedForm ==
  ASSUME NEW c \in CacheNames, NEW a, Sound(c, a.k), NEW line, NEW store, NEW wb, NEW t,
         NEW l, l = [tag |-> line, mhsr |-> a.m, dirty |-> store], NEW s, s = SetOf(c, line),
         NEW j, j = Missed(c, a, line, store, wb, t), s \in SetsOf(c)
  PROVE  j = With(a.k, s, Pushed(c, a.k.array[s], l), Booking(a.k.mhsr, a.m, line, t),
                  [a.k.port EXCEPT ![a.p] = wb + Reuse[c]])
<1>1. /\ a.k = [array |-> a.k.array, mhsr |-> a.k.mhsr, port |-> a.k.port]
      /\ a.k.array \in [SetsOf(c) -> Seq(LinesOf(c))]
  BY SoundIs
<1>2. PICK k : k = a.k
  OBVIOUS
<1>11. /\ k = [array |-> k.array, mhsr |-> k.mhsr, port |-> k.port]
       /\ k.array \in [SetsOf(c) -> Seq(LinesOf(c))]
  BY <1>1, <1>2
<1>3. PICK set : set = Pushed(c, k.array[s], l)
  OBVIOUS
<1>6. PICK f : f = Filled(c, k, line, store, a.m)
  OBVIOUS
<1>4. f = [k EXCEPT !.array[s] = set]
  BY <1>3, <1>6 DEF Filled
<1>7. f = [array |-> [k.array EXCEPT ![s] = set], mhsr |-> k.mhsr, port |-> k.port]
  BY <1>4, <1>11
<1>8. j = [f EXCEPT !.port[a.p] = wb + Reuse[c],
                    !.mhsr[a.m] = [busy |-> TRUE, line |-> line, resolved |-> t]]
  BY <1>2, <1>6 DEF Missed
<1>9. j = [array |-> [k.array EXCEPT ![s] = set],
           mhsr |-> [k.mhsr EXCEPT ![a.m] = [busy |-> TRUE, line |-> line, resolved |-> t]],
           port |-> [k.port EXCEPT ![a.p] = wb + Reuse[c]]]
  BY <1>7, <1>8
<1>10. QED
  BY <1>2, <1>3, <1>9 DEF With, Booking

LEMMA MissedIs ==
  ASSUME NEW c \in CacheNames, NEW line \in Nat, NEW a, Ready(c, a, line),
         NEW store \in BOOLEAN, NEW wb \in Nat, NEW t \in Int,
         NEW j, j = Missed(c, a, line, store, wb, t)
  PROVE  Sound(c, j) /\ Booked(c, a.k, a.m, line, t, j)
<1>1. PICK k : k = a.k
  OBVIOUS
<1>2. PICK m : m = a.m
  OBVIOUS
<1>3. PICK s \in SetsOf(c) : s = SetOf(c, line)
  BY SetOfType
<1>4. /\ Sound(c, k) /\ m \in 1 .. MHSRs[c] /\ Unnamed(c, k, m) /\ a.p \in 1 .. Ports[c]
      /\ ~ Present(k.array[s], line)
  BY <1>1, <1>2, <1>3 DEF Ready
<1>5. /\ k.mhsr \in [1 .. MHSRs[c] -> Registers] /\ k.port \in [1 .. Ports[c] -> Nat]
      /\ k.array \in [SetsOf(c) -> Seq(LinesOf(c))]
      /\ \A u \in SetsOf(c) : SetIs(c, u, k.array[u]) /\ NamesIn(c, k.mhsr, k.array[u])
  BY <1>4, SoundIs
<1>6. PICK l \in LinesOf(c) : l = [tag |-> line, mhsr |-> m, dirty |-> store]
  <2>1. m \in 0 .. MHSRs[c]
    BY <1>4, Sizes
  <2>2. QED
    BY <2>1 DEF LinesOf
<1>7. l.tag = line /\ l.mhsr = m
  BY <1>6
<1>8. PICK ports \in [1 .. Ports[c] -> Nat] : ports = [k.port EXCEPT ![a.p] = wb + Reuse[c]]
  <2>1. wb + Reuse[c] \in Nat
    BY Sizes
  <2>2. QED
    BY <1>5, <2>1
<1>9. PICK regs \in [1 .. MHSRs[c] -> Registers] : regs = Booking(k.mhsr, m, line, t)
  <2>1. PICK r \in Registers : r = [busy |-> TRUE, line |-> line, resolved |-> t]
    BY DEF Registers
  <2>2. [k.mhsr EXCEPT ![m] = r] \in [1 .. MHSRs[c] -> Registers]
    BY <1>5
  <2>3. QED
    BY <2>1, <2>2 DEF Booking
<1>10. /\ regs[m].busy /\ regs[m].line = line /\ regs[m].resolved = t
       /\ \A n \in 1 .. MHSRs[c] : n # m => regs[n] = k.mhsr[n]
  BY <1>4, <1>5, <1>9 DEF Booking
<1>11. PICK set : set = Pushed(c, k.array[s], l)
  OBVIOUS
<1>12. /\ SetIs(c, s, set) /\ Len(set) > 0 /\ set[1] = l
       /\ \A i \in 1 .. Len(set) :
            i # 1 => i - 1 \in 1 .. Len(k.array[s]) /\ set[i] = k.array[s][i - 1]
  <2>1. PICK old : old = k.array[s]
    OBVIOUS
  <2>2. SetIs(c, s, old) /\ SetOf(c, l.tag) = s /\ ~ Present(old, l.tag)
    BY <1>3, <1>4, <1>5, <1>7, <2>1
  <2>3. QED
    BY <1>11, <2>1, <2>2, PushedIs
<1>13. j = With(k, s, set, regs, ports)
  BY <1>1, <1>2, <1>3, <1>4, <1>6, <1>8, <1>9, <1>11, MissedForm
<1>14. ASSUME NEW u \in SetsOf(c)
       PROVE  NamesIn(c, regs, k.array[u])
  <2>1. \A i \in 1 .. Len(k.array[u]) : k.array[u][i].mhsr # m
    BY <1>4 DEF Unnamed
  <2>2. QED
    BY <1>5, <1>10, <2>1 DEF NamesIn
<1>15. NamesIn(c, regs, set)
  <2>1. ASSUME NEW i \in 1 .. Len(set), set[i].mhsr # NoMHSR
        PROVE  /\ set[i].mhsr \in 1 .. MHSRs[c]
               /\ regs[set[i].mhsr].busy /\ regs[set[i].mhsr].line = set[i].tag
    <3>1. CASE i = 1
      BY <1>4, <1>7, <1>10, <1>12, <3>1
    <3>2. CASE i # 1
      BY <1>12, <1>14, <2>1, <3>2 DEF NamesIn
    <3>3. QED
      BY <3>1, <3>2
  <2>2. QED
    BY <2>1 DEF NamesIn
<1>16. Sound(c, j)
  BY <1>4, <1>12, <1>13, <1>14, <1>15, Rebuilt
<1>17. /\ j.mhsr = regs /\ j.array[s] = set
       /\ \A u \in SetsOf(c) : u # s => j.array[u] = k.array[u]
  BY <1>5, <1>13 DEF With
<1>18. Booked(c, k, m, line, t, j)
  BY <1>3, <1>7, <1>10, <1>12, <1>17 DEF Booked
<1>19. QED
  BY <1>1, <1>2, <1>16, <1>18

----------------------------------------------------------------------------
(* Loads that cannot overtake each other.                                   *)
LEMMA EasedBusy ==
  ASSUME NEW c \in CacheNames, NEW k, NEW j, Eased(c, k, j, 0),
         NEW m \in 1 .. MHSRs[c], j.mhsr[m].busy
  PROVE  j.mhsr[m] = k.mhsr[m]
BY DEF Eased, EasedRegs, Idle

LEMMA OneWay ==
  ASSUME NEW c \in CacheNames, NEW s, NEW set, SetIs(c, s, set), Assoc[c] = 1, set # <<>>
  PROVE  Len(set) = 1
<1>1. set \in Seq(LinesOf(c)) /\ Len(set) <= Assoc[c]
  BY DEF SetIs
<1>2. Len(set) \in Nat /\ Len(set) # 0
  BY <1>1, EmptySeq, LenProperties
<1>3. PICK n \in Nat : n = Len(set)
  BY <1>2
<1>4. n <= 1 /\ n # 0
  BY <1>1, <1>2, <1>3
<1>5. n = 1
  BY <1>4
<1>6. QED
  BY <1>3, <1>5

LEMMA EasedInTurn ==
  ASSUME NEW c \in CacheNames, NEW k, Sound(c, k), NEW j, Sound(c, j), Eased(c, k, j, 0),
         InTurn(c, k), Assoc[c] = 1
  PROVE  InTurn(c, j)
<1>1. /\ k.mhsr \in [1 .. MHSRs[c] -> Registers]
      /\ \A s \in SetsOf(c) : SetIs(c, s, k.array[s]) /\ NamesIn(c, k.mhsr, k.array[s])
  BY SoundIs
<1>2. ASSUME NEW m \in 1 .. MHSRs[c], j.mhsr[m].busy, j.mhsr[m].resolved > 0,
             NEW set, set = j.array[SetOf(c, j.mhsr[m].line)]
      PROVE  /\ set # <<>> /\ set[1].mhsr # NoMHSR
             /\ j.mhsr[m].resolved <= j.mhsr[set[1].mhsr].resolved
  <2>1. j.mhsr[m] = k.mhsr[m]
    BY <1>2, EasedBusy
  <2>2. k.mhsr[m] \in Registers /\ k.mhsr[m].line \in Nat
    BY <1>1 DEF Registers
  <2>3. PICK s \in SetsOf(c) : s = SetOf(c, k.mhsr[m].line)
    BY <2>2, SetOfType
  <2>4. PICK old : old = k.array[s]
    OBVIOUS
  <2>5. set = j.array[s]
    BY <1>2, <2>1, <2>3
  <2>6. PICK x : x = old[1].mhsr
    OBVIOUS
  <2>7. old # <<>> /\ x # NoMHSR /\ k.mhsr[m].resolved <= k.mhsr[x].resolved
    BY <1>2, <2>1, <2>3, <2>4, <2>6 DEF InTurn
  <2>9. Len(old) = 1
    <3>1. SetIs(c, s, old)
      BY <1>1, <2>4
    <3>2. QED
      BY <2>7, <3>1, OneWay
  <2>10. x \in 1 .. MHSRs[c] /\ k.mhsr[x].resolved \in Int
    <3>1. x \in 1 .. MHSRs[c]
      BY <1>1, <2>4, <2>6, <2>7, <2>9 DEF NamesIn
    <3>2. QED
      BY <1>1, <3>1 DEF Registers
  <2>11. k.mhsr[m].resolved > 0 /\ k.mhsr[m].resolved \in Int
    BY <1>1, <1>2, <2>1 DEF Registers
  <2>12. ~ (k.mhsr[x].resolved <= 0)
    BY <2>7, <2>10, <2>11
  <2>13. j.mhsr[x] = k.mhsr[x] /\ j.mhsr[x] # Idle
    <3>1. j.mhsr[x] = k.mhsr[x]
      BY <2>10, <2>12 DEF Eased, EasedRegs
    <3>2. QED
      BY <2>12, <3>1 DEF Idle
  <2>14. Len(set) = 1 /\ set[1].mhsr = x
    <3>1. EasedSet(j.mhsr, old, set)
      BY <2>4, <2>5 DEF Eased
    <3>2. PICK n \in 1 .. Len(old) :
            \/ set[1].mhsr = old[n].mhsr
            \/ set[1].mhsr = NoMHSR /\ old[n].mhsr # NoMHSR /\ j.mhsr[old[n].mhsr] = Idle
      BY <2>9, <3>1 DEF EasedSet
    <3>3. n = 1
      BY <2>9
    <3>4. QED
      BY <2>6, <2>9, <2>13, <3>1, <3>2, <3>3 DEF EasedSet
  <2>15. set # <<>>
    BY <2>14
  <2>16. QED
    BY <2>1, <2>7, <2>13, <2>14, <2>15
<1>3. QED
  BY <1>2 DEF InTurn

LEMMA EasedAlone ==
  ASSUME NEW c \in CacheNames, NEW k, NEW j, Eased(c, k, j, 0), Alone(c, k), MHSRs[c] = 1
  PROVE  Alone(c, j)
<1>1. ASSUME NEW s \in SetsOf(c), NEW i \in 1 .. Len(j.array[s]), j.mhsr[1].busy,
             j.mhsr[1].line = j.array[s][i].tag
      PROVE  j.array[s][i].mhsr = 1
  <2>1. j.mhsr[1] = k.mhsr[1] /\ j.mhsr[1] # Idle
    BY <1>1 DEF Eased, EasedRegs, Idle
  <2>2. EasedSet(j.mhsr, k.array[s], j.array[s])
    BY DEF Eased
  <2>3. PICK n \in 1 .. Len(k.array[s]) :
          /\ j.array[s][i].tag = k.array[s][n].tag
          /\ \/ j.array[s][i].mhsr = k.array[s][n].mhsr
             \/ j.array[s][i].mhsr = NoMHSR /\ k.array[s][n].mhsr # NoMHSR
                /\ j.mhsr[k.array[s][n].mhsr] = Idle
    BY <2>2 DEF EasedSet
  <2>4. k.array[s][n].mhsr = 1
    BY <1>1, <2>1, <2>3 DEF Alone
  <2>5. QED
    BY <2>1, <2>3, <2>4
<1>2. QED
  BY <1>1 DEF Alone

LEMMA EasedOrdered ==
  ASSUME NEW c \in CacheNames, NEW k, Sound(c, k), NEW j, Sound(c, j), Eased(c, k, j, 0),
         Ordered(c, k)
  PROVE  Ordered(c, j)
BY EasedInTurn, EasedAlone DEF Ordered

(* A line arrives later than the one that it takes the place of.            *)
LEMMA BookedInTurn ==
  ASSUME NEW c \in CacheNames, NEW line \in Nat, NEW a, Ready(c, a, line), NEW t \in Int,
         t > a.start, InTurn(c, a.k), Assoc[c] = 1,
         NEW j, Sound(c, j), Booked(c, a.k, a.m, line, t, j)
  PROVE  InTurn(c, j)
<1>1. PICK k : k = a.k
  OBVIOUS
<1>2. PICK m : m = a.m
  OBVIOUS
<1>3. PICK s \in SetsOf(c) : s = SetOf(c, line)
  BY SetOfType
<1>4. PICK old : old = k.array[s]
  OBVIOUS
<1>5. /\ Sound(c, k) /\ m \in 1 .. MHSRs[c] /\ Unnamed(c, k, m)
      /\ a.start \in Int /\ VictimThere(c, k, old) \in Int /\ a.start >= VictimThere(c, k, old)
  BY <1>1, <1>2, <1>3, <1>4 DEF Ready
<1>6. /\ k.mhsr \in [1 .. MHSRs[c] -> Registers]
      /\ \A u \in SetsOf(c) : SetIs(c, u, k.array[u]) /\ NamesIn(c, k.mhsr, k.array[u])
  BY <1>5, SoundIs
<1>7. /\ j.mhsr[m].busy /\ j.mhsr[m].line = line /\ j.mhsr[m].resolved = t
      /\ \A n \in 1 .. MHSRs[c] : n # m => j.mhsr[n] = k.mhsr[n]
      /\ Len(j.array[s]) > 0 /\ j.array[s][1].mhsr = m
      /\ \A u \in SetsOf(c) : u # s => j.array[u] = k.array[u]
  BY <1>1, <1>2, <1>3 DEF Booked
<1>8. j.array[s] # <<>>
  BY <1>7
<1>9. ASSUME NEW n \in 1 .. MHSRs[c], j.mhsr[n].busy, j.mhsr[n].resolved > 0,
             NEW set, set = j.array[SetOf(c, j.mhsr[n].line)]
      PROVE  /\ set # <<>> /\ set[1].mhsr # NoMHSR
             /\ j.mhsr[n].resolved <= j.mhsr[set[1].mhsr].resolved
  <2>1. CASE n = m
    <3>1. set = j.array[s]
      BY <1>3, <1>7, <1>9, <2>1
    <3>2. set # <<>> /\ set[1].mhsr = m /\ m # NoMHSR
      BY <1>5, <1>7, <1>8, <3>1 DEF NoMHSR
    <3>3. j.mhsr[n].resolved = t /\ j.mhsr[set[1].mhsr].resolved = t
      BY <1>7, <2>1, <3>2
    <3>4. QED
      BY <3>2, <3>3
  <2>2. CASE n # m
    <3>1. j.mhsr[n] = k.mhsr[n] /\ k.mhsr[n] \in Registers
      BY <1>6, <1>7, <2>2
    <3>2. PICK u \in SetsOf(c) : u = SetOf(c, k.mhsr[n].line)
      BY <3>1, SetOfType DEF Registers
    <3>3. PICK was : was = k.array[u]
      OBVIOUS
    <3>4. PICK x : x = was[1].mhsr
      OBVIOUS
    <3>5. was # <<>> /\ x # NoMHSR /\ k.mhsr[n].resolved <= k.mhsr[x].resolved
      BY <1>1, <1>9, <3>1, <3>2, <3>3, <3>4 DEF InTurn
    <3>6. Len(was) = 1
      <4>1. SetIs(c, u, was)
        BY <1>6, <3>3
      <4>2. QED
        BY <3>5, <4>1, OneWay
    <3>7. x \in 1 .. MHSRs[c] /\ x # m /\ k.mhsr[x].resolved \in Int /\ k.mhsr[n].resolved \in Int
      <4>1. x \in 1 .. MHSRs[c]
        BY <1>6, <3>3, <3>4, <3>5, <3>6 DEF NamesIn
      <4>2. x # m
        BY <1>5, <3>3, <3>4, <3>6 DEF Unnamed
      <4>3. QED
        BY <1>6, <4>1, <4>2 DEF Registers
    <3>8. CASE u # s
      <4>1. set = was
        BY <1>7, <1>9, <3>1, <3>2, <3>3, <3>8
      <4>2. j.mhsr[x] = k.mhsr[x]
        BY <1>7, <3>7
      <4>3. QED
        BY <3>1, <3>4, <3>5, <4>1, <4>2
    <3>9. CASE u = s
      <4>1. was = old /\ Last(old) = old[1] /\ Full(c, old)
        BY <1>4, <3>3, <3>6, <3>9 DEF Last, Full
      <4>2. VictimThere(c, k, old) = k.mhsr[x].resolved
        BY <3>4, <3>5, <4>1 DEF VictimThere
      <4>3. k.mhsr[n].resolved <= t
        BY <1>5, <3>5, <3>7, <4>2
      <4>4. set = j.array[s]
        BY <1>9, <3>1, <3>2, <3>9
      <4>5. QED
        BY <1>5, <1>7, <1>8, <3>1, <4>3, <4>4 DEF NoMHSR
    <3>10. QED
      BY <3>8, <3>9
  <2>3. QED
    BY <2>1, <2>2
<1>10. QED
  BY <1>9 DEF InTurn

(* The only line that an only MHSR loads is the one that names it.          *)
LEMMA BookedAlone ==
  ASSUME NEW c \in CacheNames, NEW line \in Nat, NEW a, Ready(c, a, line), MHSRs[c] = 1,
         NEW t, NEW j, Sound(c, j), Booked(c, a.k, a.m, line, t, j)
  PROVE  Alone(c, j)
<1>1. PICK s \in SetsOf(c) : s = SetOf(c, line)
  BY SetOfType
<1>2. a.m = 1
  BY DEF Ready
<1>3. j.mhsr[1].line = line /\ Len(j.array[s]) > 0 /\ j.array[s][1].tag = line
      /\ j.array[s][1].mhsr = 1
  BY <1>1, <1>2 DEF Booked
<1>4. \A u \in SetsOf(c) : SetIs(c, u, j.array[u])
  BY SoundIs
<1>5. ASSUME NEW u \in SetsOf(c), NEW i \in 1 .. Len(j.array[u]), j.array[u][i].tag = line
      PROVE  j.array[u][i].mhsr = 1
  <2>1. u = s
    BY <1>1, <1>4, <1>5 DEF SetIs
  <2>2. Len(j.array[s]) \in Nat
    BY <1>4, SetIsType
  <2>3. 1 \in 1 .. Len(j.array[s])
    BY <1>3, <2>2
  <2>4. i = 1
    BY <1>3, <1>4, <1>5, <2>1, <2>3 DEF SetIs
  <2>5. QED
    BY <1>3, <2>1, <2>4
<1>6. QED
  BY <1>3, <1>5 DEF Alone

LEMMA BookedOrdered ==
  ASSUME NEW c \in CacheNames, NEW line \in Nat, NEW a, Ready(c, a, line), NEW t \in Int,
         t > a.start, Ordered(c, a.k), NEW j, Sound(c, j), Booked(c, a.k, a.m, line, t, j)
  PROVE  Ordered(c, j)
BY BookedInTurn, BookedAlone DEF Ordered

----------------------------------------------------------------------------
(* The second level.                                                        *)

(* Of the registers l, at most n is taken for a line that comes by t: r.    *)
Takes(l, r, n, cur, t) ==
  /\ n \in 0 .. MHSRs["l2"]
  /\ \A i \in 1 .. MHSRs["l2"] : i # n /\ r[i].busy => r[i] = l[i]
  /\ n # 0 => Finished(l[n], cur) /\ (r[n].busy => r[n].resolved <= t)

LEMMA SecondIs == "l2" \in CacheNames
BY DEF CacheNames

LEMMA SecondLevelForm ==
  ASSUME NEW k, NEW cur, NEW line, NEW store, NEW r, r = SecondLevel(k, cur, line, store),
         ~ Present(k.array[SetOf("l2", line)], line), FreeMHSRs(k, cur) # {},
         NEW a, a = Miss("l2", k, cur, line)
  PROVE  \E wb \in {a.start + MissLatency, a.start} :
           /\ r.k = Missed("l2", a, line, store, wb, wb + MissLatency)
           /\ r.t = wb + MissLatency
<1>1. PICK wb : wb = IF a.dirty THEN a.start + MissLatency ELSE a.start
  OBVIOUS
<1>2. wb \in {a.start + MissLatency, a.start}
  BY <1>1
<1>3. r.k = Missed("l2", a, line, store, wb, wb + MissLatency) /\ r.t = wb + MissLatency
  BY <1>1 DEF SecondLevel, FromMemory
<1>4. QED
  BY <1>2, <1>3

(* What the second level, k, answers to an access to the line.              *)
Answers(k, r, cur, line) ==
  /\ Sound("l2", r.k) /\ r.t \in Int
  /\ \/ /\ r.t = Refused /\ FreeMHSRs(k, cur) = {}
        /\ ~ Present(k.array[SetOf("l2", line)], line)
     \/ /\ r.t # Refused /\ r.t >= cur /\ Present(r.k.array[SetOf("l2", line)], line)
        /\ \E n : /\ Takes(k.mhsr, r.k.mhsr, n, cur, r.t)
                  /\ Present(k.array[SetOf("l2", line)], line) => n = 0

LEMMA SecondLevelIs ==
  ASSUME NEW k, Sound("l2", k), NEW cur \in Nat, NEW line \in Nat, NEW store \in BOOLEAN,
         NEW r, r = SecondLevel(k, cur, line, store)
  PROVE  Answers(k, r, cur, line)
<1> DEFINE s == SetOf("l2", line)
<1>1. s \in SetsOf("l2") /\ MissLatency \in Nat \ {0} /\ Hit["l2"] \in Nat /\ MHSRs["l2"] \in Nat
  BY SecondIs, SetOfType, Sizes
<1>2. CASE Present(k.array[s], line)
  <2>1. r = HitAccess("l2", k, cur, line, store)
    BY <1>2 DEF SecondLevel
  <2>2. PICK now \in Int : now = cur
    OBVIOUS
  <2>3. /\ Sound("l2", r.k) /\ Eased("l2", k, r.k, cur) /\ Present(r.k.array[s], line)
        /\ r.t \in Int /\ r.t >= cur
    BY <1>1, <1>2, <2>1, <2>2, SecondIs, HitIs
  <2>4. Takes(k.mhsr, r.k.mhsr, 0, cur, r.t)
    BY <1>1, <2>3 DEF Takes, Eased, EasedRegs, Idle
  <2>5. QED
    BY <1>2, <2>3, <2>4 DEF Answers, Refused
<1>3. CASE ~ Present(k.array[s], line) /\ FreeMHSRs(k, cur) = {}
  <2>1. r.k = k /\ r.t = Refused
    BY <1>3 DEF SecondLevel
  <2>2. QED
    BY <1>3, <2>1 DEF Answers, Refused
<1>4. CASE ~ Present(k.array[s], line) /\ FreeMHSRs(k, cur) # {}
  <2>1. PICK a : a = Miss("l2", k, cur, line)
    OBVIOUS
  <2>2. PICK wb \in {a.start + MissLatency, a.start} :
          /\ r.k = Missed("l2", a, line, store, wb, wb + MissLatency)
          /\ r.t = wb + MissLatency
    BY <1>4, <2>1, SecondLevelForm
  <2>3. /\ Ready("l2", a, line) /\ Eased("l2", k, a.k, cur)
        /\ Finished(k.mhsr[a.m], cur) /\ a.start >= cur + Hit["l2"]
    <3>1. PICK now \in Int : now = cur
      OBVIOUS
    <3>2. FreeMHSRs(k, now) # {} /\ a = Miss("l2", k, now, line)
          /\ ~ Present(k.array[SetOf("l2", line)], line)
      BY <1>4, <2>1, <3>1
    <3>3. /\ Ready("l2", a, line) /\ Eased("l2", k, a.k, now)
          /\ Finished(k.mhsr[a.m], now) /\ a.start >= now + Hit["l2"]
      BY <3>2, SecondIs, MissIs
    <3>4. QED
      BY <3>1, <3>3
  <2>4. a.start \in Int
    BY <2>3 DEF Ready
  <2>5. wb \in Nat /\ wb >= cur
    BY <1>1, <2>2, <2>3, <2>4
  <2>6. PICK t \in Int : t = wb + MissLatency
    BY <1>1, <2>5
  <2>7. Sound("l2", r.k) /\ Booked("l2", a.k, a.m, line, t, r.k)
    BY <2>2, <2>3, <2>5, <2>6, SecondIs, MissedIs
  <2>8. r.t = t /\ t >= cur
    BY <1>1, <2>2, <2>5, <2>6
  <2>9. Present(r.k.array[s], line)
    <3>1. SetIs("l2", s, r.k.array[s])
      BY <1>1, <2>7, SecondIs, SoundIs
    <3>2. Len(r.k.array[s]) \in Nat /\ DOMAIN r.k.array[s] = 1 .. Len(r.k.array[s])
      BY <3>1, SecondIs, SetIsType
    <3>3. Len(r.k.array[s]) > 0 /\ r.k.array[s][1].tag = line
      BY <2>7 DEF Booked
    <3>4. QED
      BY <3>2, <3>3 DEF Present
  <2>10. Takes(k.mhsr, r.k.mhsr, a.m, cur, t)
    <3>1. a.m \in 1 .. MHSRs["l2"]
      BY <2>3 DEF Ready
    <3>2. ASSUME NEW i \in 1 .. MHSRs["l2"], i # a.m, r.k.mhsr[i].busy
          PROVE  r.k.mhsr[i] = k.mhsr[i]
      <4>1. r.k.mhsr[i] = a.k.mhsr[i]
        BY <2>7, <3>2 DEF Booked
      <4>2. QED
        BY <2>3, <3>2, <4>1 DEF Eased, EasedRegs, Idle
    <3>3. r.k.mhsr[a.m].resolved <= t
      BY <2>7 DEF Booked
    <3>4. QED
      BY <1>1, <2>3, <3>1, <3>2, <3>3 DEF Takes
  <2>11. QED
    BY <1>4, <2>7, <2>8, <2>9, <2>10 DEF Answers, Refused
<1>5. QED
  BY <1>2, <1>3, <1>4

LEMMA TakesTwice ==
  ASSUME NEW l, NEW r \in [1 .. MHSRs["l2"] -> Registers], NEW q, NEW n, NEW now, NEW cur,
         NEW t \in Int, NEW u \in Int, t <= u, Takes(l, r, n, now, t), Takes(r, q, 0, cur, u)
  PROVE  Takes(l, q, n, now, u)
<1>1. MHSRs["l2"] \in Nat
  BY SecondIs, Sizes
<1>2. \A i \in 1 .. MHSRs["l2"] : q[i].busy => q[i] = r[i]
  BY <1>1 DEF Takes
<1>3. \A i \in 1 .. MHSRs["l2"] : i # n /\ q[i].busy => q[i] = l[i]
  BY <1>2 DEF Takes
<1>4. ASSUME n # 0, q[n].busy PROVE q[n].resolved <= u
  <2>1. n \in 1 .. MHSRs["l2"]
    BY <1>1, <1>4 DEF Takes
  <2>2. q[n] = r[n] /\ r[n].resolved \in Int
    BY <1>2, <1>4, <2>1 DEF Registers
  <2>3. r[n].resolved <= t
    BY <1>4, <2>2 DEF Takes
  <2>4. QED
    BY <2>2, <2>3
<1>5. QED
  BY <1>3, <1>4 DEF Takes

(* The second level has written back (w) and loaded (b) a line, which its   *)
(* user has at the cycle at.                                                *)
Loads(k, cur, line) == SecondLevel(k, cur, line, FALSE)
There(b)            == b.t + Hit["l2"]
TooMany(w, b)       == w.over \/ b.t = Refused

Twice(l2, a, line, w, b) == w = WriteBack(l2, a, line) /\ b = Loads(w.k, w.t, line)

LoadedBy(l2, w, b, start) ==
  /\ TooMany(w, b) => FreeMHSRs(l2, start) = {}
  /\ ~ TooMany(w, b) => b.t >= start /\ \E n : Takes(l2.mhsr, b.k.mhsr, n, start, b.t)

(* Writing back and loading take one MHSR together, for it is one line.     *)
LEMMA TwiceIs ==
  ASSUME NEW l2, Sound("l2", l2), NEW a, NEW start \in Nat, start = a.start, NEW line \in Nat,
         NEW w, NEW b, Twice(l2, a, line, w, b)
  PROVE  /\ Sound("l2", b.k) /\ b.t \in Int /\ w.t \in Nat
         /\ LoadedBy(l2, w, b, start)
<1> DEFINE s == SetOf("l2", line)
<1>1. PICK hit \in Nat : hit = Hit["l2"]
  BY SecondIs, Sizes
<1>5. MHSRs["l2"] \in Nat
  BY SecondIs, Sizes
<1>2. CASE a.dirty
  <2>1. PICK store \in BOOLEAN : store = TRUE
    OBVIOUS
  <2>2. PICK u : u = SecondLevel(l2, start, line, store)
    OBVIOUS
  <2>3. w.k = u.k /\ w.t = u.t + hit /\ (w.over <=> u.t = Refused)
    BY <1>1, <1>2, <2>1, <2>2 DEF WriteBack, Answered, Twice
  <2>4. Answers(l2, u, start, line)
    BY <2>2, SecondLevelIs
  <2>5. PICK ut \in Int : ut = u.t
    BY <2>4 DEF Answers
  <2>6. PICK cur \in Nat : cur = w.t /\ cur = ut + hit
    <3>1. hit > 0
      BY <1>1, SecondIs, Sizes
    <3>2. ut = -1 \/ ut >= start
      BY <2>4, <2>5 DEF Answers, Refused
    <3>3. ut + hit \in Nat
      BY <3>1, <3>2
    <3>4. QED
      BY <2>3, <2>5, <3>3
  <2>7. PICK load \in BOOLEAN : load = FALSE
    OBVIOUS
  <2>8. PICK v : v = w.k /\ v = u.k
    BY <2>3
  <2>9. Sound("l2", v) /\ b = SecondLevel(v, cur, line, load)
    BY <2>4, <2>6, <2>7, <2>8 DEF Answers, Loads, Twice
  <2>10. Answers(v, b, cur, line)
    BY <2>9, SecondLevelIs
  <2>11. Sound("l2", b.k) /\ b.t \in Int
    BY <2>10 DEF Answers
  <2>12. CASE u.t = Refused
    <3>1. FreeMHSRs(l2, start) = {}
      BY <2>4, <2>12 DEF Answers
    <3>2. QED
      BY <2>3, <2>6, <2>11, <2>12, <3>1 DEF LoadedBy, TooMany
  <2>13. CASE u.t # Refused
    <3>1. ut >= start /\ Present(v.array[s], line) /\ ~ w.over
      BY <2>3, <2>4, <2>5, <2>8, <2>13 DEF Answers
    <3>2. PICK n : Takes(l2.mhsr, v.mhsr, n, start, ut)
      BY <2>4, <2>5, <2>8, <2>13 DEF Answers
    <3>4. PICK bt \in Int : bt = b.t
      BY <2>11
    <3>3. bt # Refused /\ bt >= cur /\ Takes(v.mhsr, b.k.mhsr, 0, cur, bt)
      BY <2>10, <3>1, <3>4 DEF Answers
    <3>7. bt >= start /\ bt >= ut
      BY <2>6, <3>1, <3>3
    <3>5. Takes(l2.mhsr, b.k.mhsr, n, start, bt)
      <4>1. PICK l : l = l2.mhsr
        OBVIOUS
      <4>2. PICK r \in [1 .. MHSRs["l2"] -> Registers] : r = v.mhsr
        BY <2>9, SecondIs, SoundIs
      <4>3. PICK q : q = b.k.mhsr
        OBVIOUS
      <4>4. Takes(l, r, n, start, ut) /\ Takes(r, q, 0, cur, bt)
        BY <3>2, <3>3, <3>4, <4>1, <4>2, <4>3
      <4>5. Takes(l, q, n, start, bt)
        BY <3>7, <4>4, TakesTwice
      <4>6. QED
        BY <4>1, <4>3, <4>5
    <3>6. QED
      BY <2>6, <2>11, <3>1, <3>3, <3>4, <3>5, <3>7 DEF LoadedBy, TooMany
  <2>14. QED
    BY <2>12, <2>13
<1>3. CASE ~ a.dirty
  <2>1. w.k = l2 /\ w.t = start /\ ~ w.over
    BY <1>3 DEF WriteBack, Twice
  <2>2. PICK load \in BOOLEAN : load = FALSE
    OBVIOUS
  <2>3. b = SecondLevel(l2, start, line, load)
    BY <2>1, <2>2 DEF Loads, Twice
  <2>4. Answers(l2, b, start, line)
    BY <2>3, SecondLevelIs
  <2>5. QED
    BY <2>1, <2>4 DEF Answers, LoadedBy, TooMany
<1>4. QED
  BY <1>2, <1>3

----------------------------------------------------------------------------
(* Who the second level works for.                                          *)
MayLose(r) == ~ r.busy \/ ~ (r.resolved > 0)

LEMMA UserIs ==
  ASSUME NEW u \in Users
  PROVE  u[1] \in L1s /\ u[1] \in CacheNames /\ u[2] \in 1 .. MHSRs[u[1]] /\ u = <<u[1], u[2]>>
BY DEF Users, L1s, CacheNames

LEMMA IsUser ==
  ASSUME NEW c \in L1s, NEW m \in 1 .. MHSRs[c]
  PROVE  <<c, m>> \in Users
BY DEF Users, L1s

LEMMA FreeLoses ==
  ASSUME NEW c \in CacheNames, NEW k, Sound(c, k), NEW m \in 1 .. MHSRs[c], Finished(k.mhsr[m], 0)
  PROVE  MayLose(k.mhsr[m])
<1>1. k.mhsr[m].resolved \in Int
  BY SoundIs DEF Registers
<1>2. CASE ~ k.mhsr[m].busy
  BY <1>2 DEF MayLose
<1>3. CASE k.mhsr[m].resolved < 0
  BY <1>1, <1>3 DEF MayLose
<1>4. QED
  BY <1>2, <1>3 DEF Finished

LEMMA ServingIs ==
  ASSUME NEW all, Sound("l2", all["l2"]), \A c \in L1s : Sound(c, all[c]), NEW f, ServedBy(all, f),
         NEW i \in 1 .. MHSRs["l2"], Working(all["l2"].mhsr[i])
  PROVE  /\ f[i] \in Users /\ ~ MayLose(all[f[i][1]].mhsr[f[i][2]])
         /\ all[f[i][1]].mhsr[f[i][2]].resolved >= all["l2"].mhsr[i].resolved + Hit["l2"]
<1>1. f[i] \in Users
  BY DEF ServedBy
<1>2. PICK c \in L1s : \E m \in 1 .. MHSRs[c] : f[i][1] = c /\ f[i][2] = m
  BY <1>1, UserIs
<1>11. PICK m \in 1 .. MHSRs[c] : f[i][1] = c /\ f[i][2] = m
  BY <1>2
<1>3. /\ all[c].mhsr[m].busy
      /\ all[c].mhsr[m].resolved >= all["l2"].mhsr[i].resolved + Hit["l2"]
  BY <1>11 DEF ServedBy
<1>4. PICK x \in Int : x = all["l2"].mhsr[i].resolved
  BY SecondIs, SoundIs DEF Registers
<1>5. PICK y \in Int : y = all[c].mhsr[m].resolved
  <2>1. c \in CacheNames /\ Sound(c, all[c])
    BY DEF CacheNames
  <2>2. QED
    BY <1>11, <2>1, SoundIs DEF Registers
<1>6. PICK hit \in Nat \ {0} : hit = Hit["l2"]
  BY SecondIs, Sizes
<1>7. x >= 0
  BY <1>4 DEF Working
<1>8. y >= x + hit
  BY <1>3, <1>4, <1>5, <1>6
<1>9. y > 0
  BY <1>7, <1>8
<1>10. QED
  BY <1>1, <1>11, <1>3, <1>5, <1>9 DEF MayLose

(* Going on: the MHSR n of the second level, if any, now works for m of c.  *)
LEMMA ServedTaken ==
  ASSUME NEW all, Sound("l2", all["l2"]), \A c \in L1s : Sound(c, all[c]), NEW f, ServedBy(all, f),
         NEW new, NEW c \in L1s, NEW m \in 1 .. MHSRs[c], MayLose(all[c].mhsr[m]),
         \A d \in L1s : \A x \in 1 .. MHSRs[d] :
           new[d].mhsr[x] = all[d].mhsr[x] \/ MayLose(all[d].mhsr[x]),
         NEW n, NEW now, NEW t \in Int, Takes(all["l2"].mhsr, new["l2"].mhsr, n, now, t),
         Sound("l2", new["l2"]),
         n # 0 => new[c].mhsr[m].busy /\ new[c].mhsr[m].resolved = t + Hit["l2"]
  PROVE  Served(new)
<1>1. MHSRs["l2"] \in Nat
  BY SecondIs, Sizes
<1>2. f \in [1 .. MHSRs["l2"] -> Users]
  BY DEF ServedBy
<1>3. PICK g : g = [i \in 1 .. MHSRs["l2"] |-> IF i = n THEN <<c, m>> ELSE f[i]]
  OBVIOUS
<1>4. g \in [1 .. MHSRs["l2"] -> Users]
  BY <1>2, <1>3, IsUser
<1>5. /\ \A i \in 1 .. MHSRs["l2"] : i = n => g[i] = <<c, m>>
      /\ \A i \in 1 .. MHSRs["l2"] : i # n => g[i] = f[i]
  BY <1>3
<1>6. ASSUME NEW i \in 1 .. MHSRs["l2"], i # n, Working(new["l2"].mhsr[i])
      PROVE  Working(all["l2"].mhsr[i]) /\ new["l2"].mhsr[i] = all["l2"].mhsr[i]
  BY <1>6 DEF Takes, Working
<1>7. ASSUME NEW i \in 1 .. MHSRs["l2"], Working(new["l2"].mhsr[i])
      PROVE  /\ new[g[i][1]].mhsr[g[i][2]].busy
             /\ new[g[i][1]].mhsr[g[i][2]].resolved >= new["l2"].mhsr[i].resolved + Hit["l2"]
  <2>1. CASE i = n
    <3>1. g[i][1] = c /\ g[i][2] = m /\ n # 0
      BY <1>5, <2>1
    <3>2. new["l2"].mhsr[i].busy /\ new["l2"].mhsr[i].resolved <= t
      BY <1>7, <2>1, <3>1 DEF Takes, Working
    <3>3. PICK x \in Int : x = new["l2"].mhsr[i].resolved
      <4>1. new["l2"].mhsr \in [1 .. MHSRs["l2"] -> Registers]
        BY SecondIs, SoundIs
      <4>2. new["l2"].mhsr[i] \in Registers
        BY <4>1
      <4>3. QED
        BY <4>2 DEF Registers
    <3>4. PICK hit \in Nat : hit = Hit["l2"]
      BY SecondIs, Sizes
    <3>5. x <= t
      BY <3>2, <3>3
    <3>6. PICK y \in Int : y = t + hit /\ y = new[c].mhsr[m].resolved
      BY <3>1, <3>4
    <3>7. y >= x + hit
      BY <3>5, <3>6
    <3>8. QED
      BY <3>1, <3>3, <3>4, <3>6, <3>7
  <2>2. CASE i # n
    <3>1. Working(all["l2"].mhsr[i]) /\ new["l2"].mhsr[i] = all["l2"].mhsr[i] /\ g[i] = f[i]
      BY <1>5, <1>6, <1>7, <2>2
    <3>2. PICK u \in Users : u = f[i]
      BY <1>2
    <3>3. /\ ~ MayLose(all[u[1]].mhsr[u[2]])
          /\ all[u[1]].mhsr[u[2]].resolved >= all["l2"].mhsr[i].resolved + Hit["l2"]
      BY <3>1, <3>2, ServingIs
    <3>4. new[u[1]].mhsr[u[2]] = all[u[1]].mhsr[u[2]]
      BY <3>3, UserIs
    <3>5. all[u[1]].mhsr[u[2]].busy
      BY <3>3 DEF MayLose
    <3>6. QED
      BY <3>1, <3>2, <3>3, <3>4, <3>5
  <2>3. QED
    BY <2>1, <2>2
<1>8. ASSUME NEW i \in 1 .. MHSRs["l2"], i # n, Working(new["l2"].mhsr[i])
      PROVE  g[i] # <<c, m>>
  <2>1. Working(all["l2"].mhsr[i]) /\ g[i] = f[i]
    BY <1>5, <1>6, <1>8
  <2>2. PICK u \in Users : u = f[i]
    BY <1>2
  <2>3. ~ MayLose(all[u[1]].mhsr[u[2]])
    BY <2>1, <2>2, ServingIs
  <2>4. u # <<c, m>>
    BY <2>3
  <2>5. QED
    BY <2>1, <2>2, <2>4
<1>9. ASSUME NEW i \in 1 .. MHSRs["l2"], NEW j \in 1 .. MHSRs["l2"],
             Working(new["l2"].mhsr[i]), Working(new["l2"].mhsr[j]), g[i] = g[j]
      PROVE  i = j
  <2>1. CASE i # n /\ j # n
    <3>1. Working(all["l2"].mhsr[i]) /\ Working(all["l2"].mhsr[j]) /\ f[i] = f[j]
      BY <1>5, <1>6, <1>9, <2>1
    <3>2. QED
      BY <3>1 DEF ServedBy
  <2>2. CASE i = n /\ j # n
    BY <1>5, <1>8, <1>9, <2>2
  <2>3. CASE i # n /\ j = n
    BY <1>5, <1>8, <1>9, <2>3
  <2>4. CASE i = n /\ j = n
    BY <2>4
  <2>5. QED
    BY <2>1, <2>2, <2>3, <2>4
<1>10. ServedBy(new, g)
  BY <1>4, <1>7, <1>9 DEF ServedBy
<1>11. QED
  BY <1>10 DEF Served

(* An MHSR to spare in a first-level cache leaves one in the second.        *)
Number(u) == IF u[1] = "dc" THEN u[2] ELSE MHSRs["dc"] + u[2]

LEMMA NumbersApart ==
  ASSUME NEW u \in Users, NEW v \in Users, Number(u) = Number(v)
  PROVE  u = v
<1>1. MHSRs["dc"] \in Nat /\ MHSRs["ic"] \in Nat
  BY Sizes DEF CacheNames, L1s
<1>2. /\ u[1] \in {"dc", "ic"} /\ u[2] \in 1 .. MHSRs[u[1]] /\ u = <<u[1], u[2]>>
      /\ v[1] \in {"dc", "ic"} /\ v[2] \in 1 .. MHSRs[v[1]] /\ v = <<v[1], v[2]>>
  BY UserIs DEF L1s
<1>3. u[1] = v[1] /\ u[2] = v[2]
  BY <1>1, <1>2 DEF Number
<1>4. QED
  BY <1>2, <1>3

LEMMA NumberIs ==
  ASSUME NEW u \in Users
  PROVE  Number(u) \in 1 .. (MHSRs["dc"] + MHSRs["ic"])
<1>1. MHSRs["dc"] \in Nat /\ MHSRs["ic"] \in Nat
  BY Sizes DEF CacheNames, L1s
<1>2. u[1] \in {"dc", "ic"} /\ u[2] \in 1 .. MHSRs[u[1]]
  BY UserIs DEF L1s
<1>3. QED
  BY <1>1, <1>2 DEF Number

LEMMA NeverRefused ==
  ASSUME NEW all, Sound("l2", all["l2"]), \A c \in L1s : Sound(c, all[c]), Served(all), Enough,
         NEW c \in L1s, NEW m \in 1 .. MHSRs[c], MayLose(all[c].mhsr[m]),
         NEW start \in Nat, FreeMHSRs(all["l2"], start) = {}
  PROVE  FALSE
<1>1. PICK f : ServedBy(all, f)
  BY DEF Served
<1>2. /\ MHSRs["dc"] \in Nat \ {0} /\ MHSRs["ic"] \in Nat \ {0} /\ MHSRs["l2"] \in Nat
      /\ MHSRs["l2"] >= MHSRs["dc"] + MHSRs["ic"]
  BY Sizes DEF CacheNames, L1s, Enough
<1>3. all["l2"].mhsr \in [1 .. MHSRs["l2"] -> Registers]
  BY SecondIs, SoundIs
<1>4. ASSUME NEW i \in 1 .. MHSRs["l2"] PROVE Working(all["l2"].mhsr[i])
  <2>1. ~ Finished(all["l2"].mhsr[i], start)
    BY <1>3 DEF FreeMHSRs
  <2>2. PICK x \in Int : x = all["l2"].mhsr[i].resolved
    BY <1>3 DEF Registers
  <2>3. all["l2"].mhsr[i].busy /\ ~ (x < start)
    BY <2>1, <2>2 DEF Finished
  <2>4. x >= 0
    BY <2>3
  <2>5. QED
    BY <2>2, <2>3, <2>4 DEF Working
<1>5. PICK N \in Nat : N = MHSRs["dc"] + MHSRs["ic"]
  BY <1>2
<1>6. PICK L \in Nat : L = MHSRs["l2"]
  BY <1>2
<1>7. L >= N /\ N >= 1
  BY <1>2, <1>5, <1>6
<1>8. PICK p \in Users : p = <<c, m>>
  BY IsUser
<1>9. PICK z \in 1 .. N : z = Number(p)
  BY <1>5, NumberIs
<1>10. PICK g : g = [i \in 1 .. L |-> Number(f[i])]
  OBVIOUS
<1>11. \A i \in 1 .. L : f[i] \in Users
  BY <1>1, <1>6 DEF ServedBy
<1>12. ASSUME NEW i \in 1 .. L PROVE g[i] \in (1 .. N) \ {z}
  <2>1. PICK u \in Users : u = f[i]
    BY <1>11
  <2>2. ~ MayLose(all[u[1]].mhsr[u[2]])
    BY <1>1, <1>4, <1>6, <2>1, ServingIs
  <2>3. u # p
    BY <1>8, <2>2
  <2>4. Number(u) # z
    BY <1>9, <2>3, NumbersApart
  <2>5. Number(u) \in 1 .. N
    BY <1>5, NumberIs
  <2>6. QED
    BY <1>10, <2>1, <2>4, <2>5
<1>13. g \in [1 .. L -> (1 .. N) \ {z}]
  BY <1>10, <1>12
<1>14. IsFiniteSet(1 .. L) /\ Cardinality(1 .. L) = L
  BY <1>7, FS_Interval
<1>15. IsFiniteSet(1 .. N) /\ Cardinality(1 .. N) = N
  BY <1>7, FS_Interval
<1>16. IsFiniteSet((1 .. N) \ {z}) /\ Cardinality((1 .. N) \ {z}) = N - 1
  BY <1>15, FS_RemoveElement
<1>17. Cardinality((1 .. N) \ {z}) < Cardinality(1 .. L)
  BY <1>7, <1>14, <1>16
<1>18. PICK i \in 1 .. L, j \in 1 .. L : i # j /\ g[i] = g[j]
  <2>1. PICK A, B : A = 1 .. L /\ B = (1 .. N) \ {z}
    OBVIOUS
  <2>2. IsFiniteSet(A) /\ IsFiniteSet(B) /\ Cardinality(B) < Cardinality(A) /\ g \in [A -> B]
    BY <1>13, <1>14, <1>16, <1>17, <2>1
  <2>3. \E i, j \in A : i # j /\ g[i] = g[j]
    BY <2>2, FS_PigeonHole
  <2>4. QED
    BY <2>1, <2>3
<1>19. f[i] = f[j]
  BY <1>10, <1>11, <1>18, NumbersApart
<1>20. QED
  BY <1>1, <1>4, <1>6, <1>18, <1>19 DEF ServedBy

----------------------------------------------------------------------------
(* Both levels.                                                             *)
LEMMA GoodIs ==
  ASSUME NEW all, NEW over, Good(all, over)
  PROVE  /\ DOMAIN all = CacheNames
         /\ \A c \in CacheNames : Sound(c, all[c])
         /\ \A c \in L1s : Sound(c, all[c]) /\ c \in CacheNames /\ c # "l2"
         /\ Sound("l2", all["l2"])
         /\ ~ over => Served(all) /\ \A c \in L1s : Ordered(c, all[c])
         /\ Enough => ~ over
<1>1. all = [c \in CacheNames |-> all[c]] /\ \A c \in CacheNames : Sound(c, all[c])
  BY DEF Good
<1>2. DOMAIN all = CacheNames
  BY <1>1
<1>3. ~ over => Served(all) /\ \A c \in L1s : Ordered(c, all[c])
  BY DEF Good
<1>4. Enough => ~ over
  BY DEF Good
<1>5. \A c \in L1s : c \in CacheNames /\ c # "l2"
  BY DEF L1s, CacheNames
<1>6. QED
  BY <1>1, <1>2, <1>3, <1>4, <1>5, SecondIs

(* Nothing is lost that is still at work.                                   *)
LEMMA EasedServed ==
  ASSUME NEW all, Sound("l2", all["l2"]), \A c \in L1s : Sound(c, all[c]), Served(all),
         NEW new, new["l2"] = all["l2"],
         \A d \in L1s : \A x \in 1 .. MHSRs[d] :
           new[d].mhsr[x] = all[d].mhsr[x] \/ MayLose(all[d].mhsr[x])
  PROVE  Served(new)
<1>1. PICK f : ServedBy(all, f)
  BY DEF Served
<1>2. ASSUME NEW i \in 1 .. MHSRs["l2"], Working(new["l2"].mhsr[i])
      PROVE  /\ new[f[i][1]].mhsr[f[i][2]].busy
             /\ new[f[i][1]].mhsr[f[i][2]].resolved >= new["l2"].mhsr[i].resolved + Hit["l2"]
  <2>1. Working(all["l2"].mhsr[i])
    BY <1>2
  <2>2. PICK u \in Users : u = f[i]
    BY <1>1 DEF ServedBy
  <2>3. /\ ~ MayLose(all[u[1]].mhsr[u[2]])
        /\ all[u[1]].mhsr[u[2]].resolved >= all["l2"].mhsr[i].resolved + Hit["l2"]
    BY <1>1, <2>1, <2>2, ServingIs
  <2>4. new[u[1]].mhsr[u[2]] = all[u[1]].mhsr[u[2]]
    BY <2>3, UserIs
  <2>5. all[u[1]].mhsr[u[2]].busy
    BY <2>3 DEF MayLose
  <2>6. QED
    BY <2>2, <2>3, <2>4, <2>5
<1>3. ServedBy(new, f)
  BY <1>1, <1>2 DEF ServedBy
<1>4. QED
  BY <1>3 DEF Served

LEMMA EasedMayLose ==
  ASSUME NEW c \in CacheNames, NEW k, Sound(c, k), NEW j, Eased(c, k, j, 0), NEW x \in 1 .. MHSRs[c]
  PROVE  j.mhsr[x] = k.mhsr[x] \/ MayLose(k.mhsr[x])
<1>1. PICK n \in Int : n = k.mhsr[x].resolved
  BY SoundIs DEF Registers
<1>2. j.mhsr[x] = k.mhsr[x] \/ n <= 0
  BY <1>1 DEF Eased, EasedRegs
<1>3. n <= 0 => MayLose(k.mhsr[x])
  BY <1>1 DEF MayLose
<1>4. QED
  BY <1>2, <1>3

PutOne(all, c, j)      == [all EXCEPT ![c] = j]
PutBoth(all, c, j, l2) == [all EXCEPT ![c] = j, !["l2"] = l2]

(* An access to a line that is there.                                       *)
LEMMA GoodHit ==
  ASSUME NEW all, NEW over, Good(all, over), NEW c \in L1s, NEW k, k = all[c], NEW j, Sound(c, j),
         Eased(c, k, j, 0), NEW new, new = PutOne(all, c, j)
  PROVE  Good(new, over)
<1>1. /\ DOMAIN all = CacheNames
      /\ \A d \in CacheNames : Sound(d, all[d])
      /\ \A d \in L1s : Sound(d, all[d]) /\ d \in CacheNames /\ d # "l2"
      /\ Sound("l2", all["l2"])
      /\ ~ over => Served(all) /\ \A d \in L1s : Ordered(d, all[d])
      /\ Enough => ~ over
  BY GoodIs
<1>2. all = [d \in CacheNames |-> all[d]]
  BY DEF Good
<1>3. /\ new = [d \in CacheNames |-> new[d]]
      /\ new[c] = j /\ \A d \in CacheNames : d # c => new[d] = all[d]
  BY <1>1, <1>2 DEF PutOne
<1>4. new["l2"] = all["l2"]
  BY <1>1, <1>3, SecondIs
<1>5. ASSUME NEW d \in L1s, NEW x \in 1 .. MHSRs[d]
      PROVE  new[d].mhsr[x] = all[d].mhsr[x] \/ MayLose(all[d].mhsr[x])
  <2>1. CASE d = c
    <3>1. x \in 1 .. MHSRs[c] /\ c \in CacheNames /\ Sound(c, k)
      BY <1>1, <2>1
    <3>2. j.mhsr[x] = k.mhsr[x] \/ MayLose(k.mhsr[x])
      BY <3>1, EasedMayLose
    <3>3. QED
      BY <1>3, <2>1, <3>2
  <2>2. CASE d # c
    BY <1>1, <1>3, <2>2
  <2>3. QED
    BY <2>1, <2>2
<1>6. ASSUME ~ over PROVE Served(new)
  <2>1. Served(all)
    BY <1>1, <1>6
  <2>2. QED
    BY <1>1, <1>4, <1>5, <2>1, EasedServed
<1>7. ASSUME ~ over, NEW d \in L1s PROVE Ordered(d, new[d])
  <2>1. CASE d = c
    <3>1. Ordered(c, k) /\ Sound(c, k) /\ c \in CacheNames
      BY <1>1, <1>7
    <3>2. Ordered(c, j)
      BY <3>1, EasedOrdered
    <3>3. QED
      BY <1>3, <2>1, <3>2
  <2>2. CASE d # c
    BY <1>1, <1>3, <1>7, <2>2
  <2>3. QED
    BY <2>1, <2>2
<1>8. ASSUME NEW d \in CacheNames PROVE Sound(d, new[d])
  BY <1>1, <1>3
<1>9. over \in BOOLEAN
  BY DEF Good
<1>10. QED
  BY <1>1, <1>3, <1>6, <1>7, <1>8, <1>9 DEF Good

Either(o, over, w, b)  == o \in BOOLEAN /\ (o <=> over \/ TooMany(w, b))

(* An access to one that has to be loaded.                                  *)
LEMMA MissGood ==
  ASSUME NEW all, NEW over, Good(all, over), NEW c \in L1s, NEW k, k = all[c], NEW line \in Nat,
         NEW a, Ready(c, a, line), Eased(c, k, a.k, 0), Finished(k.mhsr[a.m], 0),
         NEW start \in Nat, start = a.start, NEW b, Sound("l2", b.k), b.t \in Int,
         NEW w, LoadedBy(all["l2"], w, b, start), NEW at \in Int, at = There(b),
         NEW j, Sound(c, j), Booked(c, a.k, a.m, line, at, j),
         NEW new, new = PutBoth(all, c, j, b.k),
         NEW o, Either(o, over, w, b)
  PROVE  Good(new, o)
<1>1. /\ DOMAIN all = CacheNames
      /\ \A d \in CacheNames : Sound(d, all[d])
      /\ \A d \in L1s : Sound(d, all[d]) /\ d \in CacheNames /\ d # "l2"
      /\ Sound("l2", all["l2"])
      /\ ~ over => Served(all) /\ \A d \in L1s : Ordered(d, all[d])
      /\ Enough => ~ over
  BY GoodIs
<1>2. all = [d \in CacheNames |-> all[d]]
  BY DEF Good
<1>3. /\ new = [d \in CacheNames |-> new[d]]
      /\ new[c] = j /\ new["l2"] = b.k /\ \A d \in L1s : d # c => new[d] = all[d]
      /\ \A d \in CacheNames : new[d] = (IF d = c THEN j ELSE IF d = "l2" THEN b.k ELSE all[d])
  BY <1>1, <1>2, SecondIs DEF PutBoth
<1>4. PICK m \in 1 .. MHSRs[c] : m = a.m
  BY DEF Ready
<1>5. Sound(c, k) /\ c \in CacheNames /\ Sound(c, a.k)
  BY <1>1 DEF Ready
<1>6. MayLose(k.mhsr[m])
  BY <1>4, <1>5, FreeLoses
<1>7. ASSUME NEW d \in L1s, NEW x \in 1 .. MHSRs[d]
      PROVE  new[d].mhsr[x] = all[d].mhsr[x] \/ MayLose(all[d].mhsr[x])
  <2>1. CASE d = c /\ x = m
    BY <1>6, <2>1
  <2>2. CASE d = c /\ x # m
    <3>1. PICK i : i = a.k
      OBVIOUS
    <3>2. x \in 1 .. MHSRs[c] /\ Eased(c, k, i, 0)
      BY <2>2, <3>1
    <3>3. i.mhsr[x] = k.mhsr[x] \/ MayLose(k.mhsr[x])
      BY <1>5, <3>2, EasedMayLose
    <3>4. j.mhsr[x] = i.mhsr[x]
      BY <1>4, <2>2, <3>1, <3>2 DEF Booked
    <3>5. QED
      BY <1>3, <2>2, <3>3, <3>4
  <2>3. CASE d # c
    BY <1>3, <2>3
  <2>4. QED
    BY <2>1, <2>2, <2>3
<1>8. ASSUME ~ o PROVE Served(new) /\ \A d \in L1s : Ordered(d, new[d])
  <2>1. ~ over /\ ~ TooMany(w, b)
    BY <1>8 DEF Either
  <2>2. PICK ti \in Int : ti = b.t
    OBVIOUS
  <2>12. ti >= start
    BY <2>1, <2>2 DEF LoadedBy
  <2>3. PICK n : Takes(all["l2"].mhsr, b.k.mhsr, n, start, ti)
    BY <2>1, <2>2 DEF LoadedBy
  <2>4. PICK f : ServedBy(all, f)
    BY <1>1, <2>1 DEF Served
  <2>5. at = ti + Hit["l2"]
    BY <2>2 DEF There
  <2>6. new[c].mhsr[m].busy /\ new[c].mhsr[m].resolved = ti + Hit["l2"]
    BY <1>3, <1>4, <2>5 DEF Booked
  <2>7. Served(new)
    <3>1. Sound("l2", new["l2"]) /\ Takes(all["l2"].mhsr, new["l2"].mhsr, n, start, ti)
      BY <1>3, <2>3
    <3>2. MayLose(all[c].mhsr[m])
      BY <1>6
    <3>3. QED
      BY <1>1, <1>7, <2>4, <2>6, <3>1, <3>2, ServedTaken
  <2>8. at > start
    <3>1. PICK hit \in Nat \ {0} : hit = Hit["l2"]
      BY SecondIs, Sizes
    <3>2. QED
      BY <2>5, <2>12, <3>1
  <2>9. Ordered(c, j)
    <3>1. PICK i : i = a.k
      OBVIOUS
    <3>2. Ordered(c, k)
      BY <1>1, <2>1
    <3>3. Ordered(c, i)
      BY <1>5, <3>1, <3>2, EasedOrdered
    <3>4. Ordered(c, a.k) /\ at > a.start
      BY <2>8, <3>1, <3>3
    <3>5. QED
      BY <1>5, <3>4, BookedOrdered
  <2>10. ASSUME NEW d \in L1s PROVE Ordered(d, new[d])
    <3>1. CASE d = c
      BY <1>3, <2>9, <3>1
    <3>2. CASE d # c
      BY <1>1, <1>3, <2>1, <3>2
    <3>3. QED
      BY <3>1, <3>2
  <2>11. QED
    BY <2>7, <2>10
<1>9. ASSUME Enough PROVE ~ o
  <2>1. ~ over /\ Served(all)
    BY <1>1, <1>9
  <2>2. ~ TooMany(w, b)
    <3>1. SUFFICES ASSUME FreeMHSRs(all["l2"], start) = {} PROVE FALSE
      BY DEF LoadedBy
    <3>2. MayLose(all[c].mhsr[m])
      BY <1>6
    <3>3. QED
      BY <1>1, <1>9, <2>1, <3>1, <3>2, NeverRefused
  <2>3. QED
    BY <2>1, <2>2 DEF Either
<1>10. ASSUME NEW d \in CacheNames PROVE Sound(d, new[d])
  BY <1>1, <1>3
<1>11. QED
  BY <1>3, <1>8, <1>9, <1>10 DEF Good, Either

MissBy(all, c, line, store, a, w, b, j) ==
  /\ ~ Present(all[c].array[SetOf(c, line)], line) /\ FreeMHSRs(all[c], 0) # {}
  /\ a = Miss(c, all[c], 0, line) /\ Twice(all["l2"], a, line, w, b)
  /\ j = Missed(c, a, line, store, w.t, There(b))

LEMMA FirstLevelForm ==
  ASSUME NEW all, NEW c, NEW line, NEW store, NEW r, r = FirstLevel(all, c, line, store),
         NEW a, NEW w, NEW b, NEW j, MissBy(all, c, line, store, a, w, b, j)
  PROVE  r.all = PutBoth(all, c, j, b.k) /\ r.t = There(b) /\ (r.over <=> TooMany(w, b))
<1>1. r = FirstLevelMiss(all, c, a, line, store)
  BY DEF FirstLevel, MissBy
<1>2. /\ r.all = PutBoth(all, c, j, b.k) /\ r.t = There(b)
      /\ r.over = (w.over \/ b.t = Refused)
  <2>1. PICK u : u = Answered(b)
    OBVIOUS
  <2>2. u.k = b.k /\ u.t = There(b) /\ u.over = (b.t = Refused)
    BY <2>1 DEF Answered, There
  <2>3. w = WriteBack(all["l2"], a, line) /\ b = SecondLevel(w.k, w.t, line, FALSE)
    BY DEF MissBy, Twice, Loads
  <2>4. r = Loaded(all, c, a, line, store, w, u)
    BY <1>1, <2>1, <2>3 DEF FirstLevelMiss, LoadAfter
  <2>5. j = Missed(c, a, line, store, w.t, u.t)
    BY <2>2 DEF MissBy
  <2>6. QED
    <3>1. /\ r.all = [all EXCEPT ![c] = Missed(c, a, line, store, w.t, u.t), !["l2"] = u.k]
          /\ r.t = u.t /\ r.over = (w.over \/ u.over)
      BY <2>4 DEF Loaded
    <3>2. r.all = [all EXCEPT ![c] = j, !["l2"] = b.k]
      BY <2>2, <2>5, <3>1
    <3>3. QED
      BY <2>2, <3>1, <3>2 DEF PutBoth
<1>3. QED
  BY <1>2 DEF TooMany

LEMMA FirstLevelIs ==
  ASSUME NEW all, NEW over, Good(all, over), NEW c \in L1s, NEW line \in Nat, NEW store \in BOOLEAN,
         NEW r, r = FirstLevel(all, c, line, store), NEW o \in BOOLEAN, o <=> over \/ r.over
  PROVE  Good(r.all, o) /\ r.t \in Int
<1>1. /\ \A d \in L1s : Sound(d, all[d]) /\ d \in CacheNames /\ d # "l2"
      /\ Sound("l2", all["l2"])
  BY GoodIs
<1>2. PICK k : k = all[c]
  OBVIOUS
<1>3. Sound(c, k) /\ c \in CacheNames
  BY <1>1, <1>2
<1>4. PICK s \in SetsOf(c) : s = SetOf(c, line)
  BY <1>3, SetOfType
<1>5. over \in BOOLEAN
  BY DEF Good
<1>6. PICK now \in Int : now = 0
  OBVIOUS
<1>7. CASE Present(k.array[s], line)
  <2>1. PICK h : h = HitAccess(c, k, now, line, store)
    OBVIOUS
  <2>2. Sound(c, h.k) /\ Eased(c, k, h.k, now) /\ h.t \in Int
    BY <1>3, <1>4, <1>7, <2>1, HitIs
  <2>3. r.all = PutOne(all, c, h.k) /\ r.t = h.t /\ r.over = FALSE
    BY <1>2, <1>4, <1>6, <1>7, <2>1 DEF FirstLevel, FirstLevelHit, PutOne
  <2>4. Good(r.all, over)
    BY <1>2, <1>6, <2>2, <2>3, GoodHit
  <2>5. o = over
    BY <1>5, <2>3
  <2>6. QED
    BY <2>2, <2>3, <2>4, <2>5
<1>8. CASE ~ Present(k.array[s], line) /\ FreeMHSRs(k, 0) = {}
  <2>1. r.all = all /\ r.t = Refused /\ r.over = FALSE
    BY <1>2, <1>4, <1>8 DEF FirstLevel
  <2>2. o = over
    BY <1>5, <2>1
  <2>3. QED
    BY <2>1, <2>2 DEF Refused
<1>9. CASE ~ Present(k.array[s], line) /\ FreeMHSRs(k, 0) # {}
  <2>1. PICK a : a = Miss(c, k, now, line)
    OBVIOUS
  <2>2. PICK w : w = WriteBack(all["l2"], a, line)
    OBVIOUS
  <2>3. PICK b : b = Loads(w.k, w.t, line)
    OBVIOUS
  <2>4. PICK at : at = There(b)
    OBVIOUS
  <2>5. PICK j : j = Missed(c, a, line, store, w.t, at)
    OBVIOUS
  <2>6. ~ Present(k.array[SetOf(c, line)], line)
    BY <1>4, <1>9
  <2>7. a = Miss(c, k, 0, line)
    BY <1>6, <2>1
  <2>8. r.all = PutBoth(all, c, j, b.k) /\ r.t = at /\ (r.over <=> TooMany(w, b))
    <3>1. Twice(all["l2"], a, line, w, b)
      BY <2>2, <2>3 DEF Twice
    <3>2. MissBy(all, c, line, store, a, w, b, j)
      BY <1>2, <1>9, <2>4, <2>5, <2>6, <2>7, <3>1 DEF MissBy
    <3>3. QED
      BY <2>4, <3>2, FirstLevelForm
  <2>9. /\ Ready(c, a, line) /\ Eased(c, k, a.k, now)
        /\ Finished(k.mhsr[a.m], now) /\ a.start >= now + Hit[c]
    BY <1>3, <1>6, <1>9, <2>1, <2>6, MissIs
  <2>10. PICK start \in Nat : start = a.start
    <3>1. a.start \in Int
      BY <2>9 DEF Ready
    <3>2. Hit[c] \in Nat
      BY <1>3, Sizes
    <3>3. QED
      BY <1>6, <2>9, <3>1, <3>2
  <2>11. /\ Sound("l2", b.k) /\ b.t \in Int /\ w.t \in Nat
         /\ LoadedBy(all["l2"], w, b, start)
    <3>1. PICK l2 : l2 = all["l2"]
      OBVIOUS
    <3>2. Sound("l2", l2) /\ Twice(l2, a, line, w, b)
      BY <1>1, <2>2, <2>3, <3>1 DEF Twice
    <3>3. /\ Sound("l2", b.k) /\ b.t \in Int /\ w.t \in Nat
          /\ LoadedBy(l2, w, b, start)
      BY <2>10, <3>2, TwiceIs
    <3>4. QED
      BY <3>1, <3>3
  <2>12. PICK ati \in Int : ati = at
    BY <2>4, <2>11, SecondIs, Sizes DEF There
  <2>13. PICK wb \in Nat : wb = w.t
    BY <2>11
  <2>14. Sound(c, j) /\ Booked(c, a.k, a.m, line, ati, j)
    <3>1. j = Missed(c, a, line, store, wb, ati)
      BY <2>5, <2>12, <2>13
    <3>2. QED
      BY <1>3, <2>9, <3>1, MissedIs
  <2>15. Either(o, over, w, b) /\ ati = There(b)
    BY <2>4, <2>8, <2>12 DEF Either
  <2>16. r.all = PutBoth(all, c, j, b.k) /\ Eased(c, k, a.k, 0) /\ Finished(k.mhsr[a.m], 0)
    BY <1>6, <2>8, <2>9
  <2>17. Good(r.all, o)
    BY <1>2, <2>9, <2>10, <2>11, <2>14, <2>15, <2>16, MissGood
  <2>18. QED
    BY <2>8, <2>12, <2>17
<1>10. QED
  BY <1>7, <1>8, <1>9

----------------------------------------------------------------------------
(* One cycle later.                                                         *)
LEMMA LaterIs ==
  ASSUME NEW a \in Int
  PROVE  /\ Later(a) \in Int
         /\ Later(a) > 0 => a > 0 /\ Later(a) = a - 1
         /\ Later(a) >= 0 => a > 0 /\ Later(a) = a - 1
         /\ \A b \in Int : a <= b => Later(a) <= Later(b)
BY DEF Later

Aged(c, k, j) ==
  /\ j.array = k.array
  /\ \A m \in 1 .. MHSRs[c] :
       /\ j.mhsr[m].busy <=> k.mhsr[m].busy
       /\ k.mhsr[m].busy => /\ j.mhsr[m].line = k.mhsr[m].line
                            /\ j.mhsr[m].resolved = Later(k.mhsr[m].resolved)

Older(k) == [array |-> k.array, mhsr |-> LaterMHSRs(k.mhsr), port |-> LaterPorts(k.port)]

LEMMA AfterCycleIs ==
  ASSUME NEW all, \A c \in CacheNames : Sound(c, all[c])
  PROVE  AfterCycle(all) = [c \in CacheNames |-> Older(all[c])]
<1>1. ASSUME NEW c \in CacheNames PROVE AfterCycle(all)[c] = Older(all[c])
  <2>1. PICK k : k = all[c]
    OBVIOUS
  <2>2. k = [array |-> k.array, mhsr |-> k.mhsr, port |-> k.port]
    BY <2>1, SoundIs
  <2>3. AfterCycle(all)[c] = [k EXCEPT !.mhsr = LaterMHSRs(@), !.port = LaterPorts(@)]
    BY <2>1 DEF AfterCycle
  <2>4. QED
    BY <2>1, <2>2, <2>3 DEF Older
<1>2. AfterCycle(all) = [c \in CacheNames |-> AfterCycle(all)[c]]
  BY DEF AfterCycle
<1>3. QED
  BY <1>1, <1>2

LEMMA MHSRsLater ==
  ASSUME NEW c, NEW regs \in [1 .. MHSRs[c] -> Registers]
  PROVE  /\ LaterMHSRs(regs) \in [1 .. MHSRs[c] -> Registers]
         /\ \A m \in 1 .. MHSRs[c] :
              /\ LaterMHSRs(regs)[m].busy <=> regs[m].busy
              /\ regs[m].busy => /\ LaterMHSRs(regs)[m].line = regs[m].line
                                 /\ LaterMHSRs(regs)[m].resolved = Later(regs[m].resolved)
<1>1. ASSUME NEW m \in 1 .. MHSRs[c]
      PROVE  /\ LaterMHSRs(regs)[m] \in Registers
             /\ LaterMHSRs(regs)[m].busy <=> regs[m].busy
             /\ regs[m].busy => /\ LaterMHSRs(regs)[m].line = regs[m].line
                                /\ LaterMHSRs(regs)[m].resolved = Later(regs[m].resolved)
  <2>1. PICK r \in Registers : r = regs[m]
    OBVIOUS
  <2>2. LaterMHSRs(regs)[m] = IF r.busy THEN [r EXCEPT !.resolved = Later(@)] ELSE Idle
    BY <2>1 DEF LaterMHSRs
  <2>3. CASE r.busy
    <3>1. LaterMHSRs(regs)[m] = [r EXCEPT !.resolved = Later(@)]
      BY <2>2, <2>3
    <3>2. r.resolved \in Int /\ Later(r.resolved) \in Int
      BY LaterIs DEF Registers
    <3>3. QED
      BY <2>1, <2>3, <3>1, <3>2 DEF Registers
  <2>4. CASE ~ r.busy
    BY <2>1, <2>2, <2>4 DEF Registers, Idle
  <2>5. QED
    BY <2>3, <2>4
<1>2. LaterMHSRs(regs) = [m \in 1 .. MHSRs[c] |-> LaterMHSRs(regs)[m]]
  BY DEF LaterMHSRs
<1>3. QED
  BY <1>1, <1>2

LEMMA PortsLater ==
  ASSUME NEW c, NEW ports \in [1 .. Ports[c] -> Nat]
  PROVE  LaterPorts(ports) \in [1 .. Ports[c] -> Nat]
<1>1. ASSUME NEW p \in 1 .. Ports[c] PROVE LaterPorts(ports)[p] \in Nat
  <2>1. PICK n \in Nat : n = ports[p]
    OBVIOUS
  <2>2. LaterPorts(ports)[p] = Latest(0, n - 1)
    BY <2>1 DEF LaterPorts
  <2>3. QED
    BY <2>2 DEF Latest
<1>2. LaterPorts(ports) = [p \in 1 .. Ports[c] |-> LaterPorts(ports)[p]]
  BY DEF LaterPorts
<1>3. QED
  BY <1>1, <1>2

LEMMA OlderIs ==
  ASSUME NEW c \in CacheNames, NEW k, Sound(c, k), NEW j, j = Older(k)
  PROVE  Sound(c, j) /\ Aged(c, k, j)
<1>1. /\ k.array \in [SetsOf(c) -> Seq(LinesOf(c))] /\ k.mhsr \in [1 .. MHSRs[c] -> Registers]
      /\ k.port \in [1 .. Ports[c] -> Nat]
      /\ \A s \in SetsOf(c) : SetIs(c, s, k.array[s]) /\ NamesIn(c, k.mhsr, k.array[s])
  BY SoundIs
<1>2. /\ j = [array |-> j.array, mhsr |-> j.mhsr, port |-> j.port]
      /\ j.array = k.array /\ j.mhsr = LaterMHSRs(k.mhsr) /\ j.port = LaterPorts(k.port)
  BY DEF Older
<1>3. j \in CacheType(c)
  <2>1. LaterMHSRs(k.mhsr) \in [1 .. MHSRs[c] -> Registers]
    BY <1>1, MHSRsLater
  <2>2. LaterPorts(k.port) \in [1 .. Ports[c] -> Nat]
    BY <1>1, PortsLater
  <2>3. QED
    BY <1>1, <1>2, <2>1, <2>2 DEF CacheType
<1>4. Aged(c, k, j)
  <2>1. PICK regs \in [1 .. MHSRs[c] -> Registers] : regs = k.mhsr
    BY <1>1
  <2>2. \A m \in 1 .. MHSRs[c] :
          /\ LaterMHSRs(regs)[m].busy <=> regs[m].busy
          /\ regs[m].busy => /\ LaterMHSRs(regs)[m].line = regs[m].line
                             /\ LaterMHSRs(regs)[m].resolved = Later(regs[m].resolved)
    BY MHSRsLater
  <2>3. PICK new : new = LaterMHSRs(regs)
    OBVIOUS
  <2>4. j.mhsr = new /\ k.mhsr = regs
    BY <1>2, <2>1, <2>3
  <2>5. QED
    BY <1>2, <2>2, <2>3, <2>4 DEF Aged
<1>5. ASSUME NEW s \in SetsOf(c) PROVE NamesIn(c, j.mhsr, k.array[s])
  <2>1. PICK set : set = k.array[s]
    OBVIOUS
  <2>2. NamesIn(c, k.mhsr, set)
    BY <1>1, <2>1
  <2>3. ASSUME NEW i \in 1 .. Len(set), set[i].mhsr # NoMHSR
        PROVE  /\ set[i].mhsr \in 1 .. MHSRs[c]
               /\ j.mhsr[set[i].mhsr].busy /\ j.mhsr[set[i].mhsr].line = set[i].tag
    <3>1. PICK m : m = set[i].mhsr
      OBVIOUS
    <3>2. m \in 1 .. MHSRs[c] /\ k.mhsr[m].busy /\ k.mhsr[m].line = set[i].tag
      BY <2>2, <2>3, <3>1 DEF NamesIn
    <3>3. j.mhsr[m].busy /\ j.mhsr[m].line = k.mhsr[m].line
      BY <1>4, <3>2 DEF Aged
    <3>4. QED
      BY <3>1, <3>2, <3>3
  <2>4. QED
    BY <2>1, <2>3 DEF NamesIn
<1>6. QED
  BY <1>1, <1>2, <1>3, <1>4, <1>5 DEF Sound

LEMMA AgedInTurn ==
  ASSUME NEW c \in CacheNames, NEW k, Sound(c, k), NEW j, Sound(c, j), Aged(c, k, j), InTurn(c, k),
         Assoc[c] = 1
  PROVE  InTurn(c, j)
<1>1. /\ k.mhsr \in [1 .. MHSRs[c] -> Registers]
      /\ \A s \in SetsOf(c) : SetIs(c, s, k.array[s]) /\ NamesIn(c, k.mhsr, k.array[s])
  BY SoundIs
<1>2. ASSUME NEW m \in 1 .. MHSRs[c], j.mhsr[m].busy, j.mhsr[m].resolved > 0,
             NEW set, set = j.array[SetOf(c, j.mhsr[m].line)]
      PROVE  /\ set # <<>> /\ set[1].mhsr # NoMHSR
             /\ j.mhsr[m].resolved <= j.mhsr[set[1].mhsr].resolved
  <2>1. /\ k.mhsr[m].busy /\ j.mhsr[m].line = k.mhsr[m].line
        /\ j.mhsr[m].resolved = Later(k.mhsr[m].resolved)
    BY <1>2 DEF Aged
  <2>2. k.mhsr[m].line \in Nat
    BY <1>1 DEF Registers
  <2>3. PICK s \in SetsOf(c) : s = SetOf(c, k.mhsr[m].line)
    BY <2>2, SetOfType
  <2>4. set = k.array[s]
    BY <1>2, <2>1, <2>3 DEF Aged
  <2>5. PICK a \in Int : a = k.mhsr[m].resolved
    BY <1>1 DEF Registers
  <2>6. a > 0
    BY <1>2, <2>1, <2>5, LaterIs
  <2>7. PICK x : x = set[1].mhsr
    OBVIOUS
  <2>8. set # <<>> /\ x # NoMHSR /\ a <= k.mhsr[x].resolved
    BY <2>1, <2>3, <2>4, <2>5, <2>6, <2>7 DEF InTurn
  <2>9. Len(set) = 1
    BY <1>1, <2>4, <2>8, OneWay
  <2>10. x \in 1 .. MHSRs[c] /\ k.mhsr[x].busy
    BY <1>1, <2>4, <2>7, <2>8, <2>9 DEF NamesIn
  <2>11. PICK b \in Int : b = k.mhsr[x].resolved
    BY <1>1, <2>10 DEF Registers
  <2>12. j.mhsr[x].resolved = Later(b)
    BY <2>10, <2>11 DEF Aged
  <2>13. Later(a) <= Later(b)
    BY <2>8, <2>11, LaterIs
  <2>14. QED
    BY <2>1, <2>5, <2>7, <2>8, <2>12, <2>13
<1>3. QED
  BY <1>2 DEF InTurn

LEMMA AgedOrdered ==
  ASSUME NEW c \in CacheNames, NEW k, Sound(c, k), NEW j, Sound(c, j), Aged(c, k, j), Ordered(c, k)
  PROVE  Ordered(c, j)
<1>1. Assoc[c] = 1 => InTurn(c, j)
  BY AgedInTurn DEF Ordered
<1>2. ASSUME MHSRs[c] = 1 PROVE Alone(c, j)
  <2>1. Alone(c, k) /\ 1 \in 1 .. MHSRs[c]
    BY <1>2 DEF Ordered
  <2>2. j.array = k.array /\ (j.mhsr[1].busy => k.mhsr[1].busy /\ j.mhsr[1].line = k.mhsr[1].line)
    BY <2>1 DEF Aged
  <2>3. QED
    BY <2>1, <2>2 DEF Alone
<1>3. QED
  BY <1>1, <1>2 DEF Ordered

LEMMA AgedServed ==
  ASSUME NEW all, Sound("l2", all["l2"]), \A c \in L1s : Sound(c, all[c]), Served(all),
         NEW new, \A c \in CacheNames : Aged(c, all[c], new[c])
  PROVE  Served(new)
<1>1. PICK f : ServedBy(all, f)
  BY DEF Served
<1>2. ASSUME NEW i \in 1 .. MHSRs["l2"], Working(new["l2"].mhsr[i])
      PROVE  /\ Working(all["l2"].mhsr[i])
             /\ new[f[i][1]].mhsr[f[i][2]].busy
             /\ new[f[i][1]].mhsr[f[i][2]].resolved >= new["l2"].mhsr[i].resolved + Hit["l2"]
  <2>1. PICK x \in Int : x = all["l2"].mhsr[i].resolved
    BY SecondIs, SoundIs DEF Registers
  <2>2. all["l2"].mhsr[i].busy /\ new["l2"].mhsr[i].resolved = Later(x)
    BY <1>2, <2>1, SecondIs DEF Aged, Working
  <2>3. x > 0 /\ Later(x) = x - 1
    BY <1>2, <2>1, <2>2, LaterIs DEF Working
  <2>4. Working(all["l2"].mhsr[i])
    BY <2>1, <2>2, <2>3 DEF Working
  <2>5. PICK u \in Users : u = f[i]
    BY <1>1 DEF ServedBy
  <2>6. /\ ~ MayLose(all[u[1]].mhsr[u[2]])
        /\ all[u[1]].mhsr[u[2]].resolved >= x + Hit["l2"]
    BY <1>1, <2>1, <2>4, <2>5, ServingIs
  <2>7. u[1] \in L1s /\ u[1] \in CacheNames /\ u[2] \in 1 .. MHSRs[u[1]]
    BY UserIs
  <2>8. PICK y \in Int : y = all[u[1]].mhsr[u[2]].resolved
    BY <2>7, SoundIs DEF Registers
  <2>9. PICK hit \in Nat : hit = Hit["l2"]
    BY SecondIs, Sizes
  <2>10. all[u[1]].mhsr[u[2]].busy /\ y > 0
    BY <2>6, <2>8 DEF MayLose
  <2>11. new[u[1]].mhsr[u[2]].busy /\ new[u[1]].mhsr[u[2]].resolved = Later(y)
    BY <2>7, <2>8, <2>10 DEF Aged
  <2>12. Later(y) = y - 1
    BY <2>10 DEF Later
  <2>13. y - 1 >= x - 1 + hit
    BY <2>6, <2>8, <2>9
  <2>14. QED
    BY <2>2, <2>3, <2>4, <2>5, <2>9, <2>11, <2>12, <2>13
<1>3. ServedBy(new, f)
  BY <1>1, <1>2 DEF ServedBy
<1>4. QED
  BY <1>3 DEF Served

LEMMA GoodLater ==
  ASSUME NEW all, NEW over, Good(all, over)
  PROVE  Good(AfterCycle(all), over)
<1>1. /\ \A c \in CacheNames : Sound(c, all[c])
      /\ \A c \in L1s : Sound(c, all[c]) /\ c \in CacheNames
      /\ Sound("l2", all["l2"])
      /\ ~ over => Served(all) /\ \A c \in L1s : Ordered(c, all[c])
      /\ Enough => ~ over
  BY GoodIs
<1>2. PICK new : new = AfterCycle(all)
  OBVIOUS
<1>3. new = [c \in CacheNames |-> Older(all[c])]
  BY <1>1, <1>2, AfterCycleIs
<1>4. new = [c \in CacheNames |-> new[c]]
  BY <1>3
<1>5. \A c \in CacheNames : Sound(c, new[c]) /\ Aged(c, all[c], new[c])
  BY <1>1, <1>3, OlderIs
<1>6. ~ over => \A c \in L1s : Ordered(c, new[c])
  BY <1>1, <1>5, AgedOrdered
<1>7. ~ over => Served(new)
  BY <1>1, <1>5, AgedServed
<1>8. over \in BOOLEAN
  BY DEF Good
<1>9. QED
  BY <1>1, <1>2, <1>4, <1>5, <1>6, <1>7, <1>8 DEF Good

----------------------------------------------------------------------------
(* The load/store unit and the fetch unit.                                  *)
LEMMA LoadUntilIs ==
  ASSUME NEW a, a.t \in Int
  PROVE  LoadUntil(a) \in Int
<1>1. Hit["dc"] \in Nat
  BY Sizes DEF CacheNames, L1s
<1>2. QED
  BY <1>1 DEF LoadUntil, Refused, Done

LEMMA MemOpIs ==
  ASSUME NEW line \in Nat, NEW until \in Int
  PROVE  MemOp(line, until) \in MemOps
BY DEF MemOp, MemOps

LEMMA LookupIs ==
  ASSUME Good(caches, overrun), NEW line \in Nat, NEW l, l = Lookup(line),
         NEW o \in BOOLEAN, o <=> overrun \/ l.over
  PROVE  Good(l.all, o) /\ l.until \in Int
<1> DEFINE next == (line + 1) % Lines
           until(a) == IF a.t = 0 THEN 0 ELSE a.t + Hit["ic"]
<1>1. PICK first : first = FirstLevel(caches, "ic", line, FALSE)
  OBVIOUS
<1>2. PICK second : second = FirstLevel(first.all, "ic", next, FALSE)
  OBVIOUS
<1>3. /\ l.all = second.all /\ l.over = (first.over \/ second.over)
      /\ l.until = IF Refused \in {first.t, second.t} THEN Forever
                   ELSE Latest(until(first), until(second))
  BY <1>1, <1>2 DEF Lookup, LookedUp, FetchUntil
<1>4. "ic" \in L1s /\ next \in Nat /\ Hit["ic"] \in Nat
  BY Sizes DEF CacheNames, L1s
<1> HIDE DEF next
<1>11. PICK ic \in L1s, no \in BOOLEAN : ic = "ic" /\ no = FALSE
  BY <1>4
<1>5. PICK o1 \in BOOLEAN : o1 <=> overrun \/ first.over
  OBVIOUS
<1>6. Good(first.all, o1) /\ first.t \in Int
  <2>1. first = FirstLevel(caches, ic, line, no)
    BY <1>1, <1>11
  <2>2. QED
    BY <1>5, <2>1, FirstLevelIs
<1>7. o <=> o1 \/ second.over
  BY <1>3, <1>5
<1>8. Good(second.all, o) /\ second.t \in Int
  <2>1. second = FirstLevel(first.all, ic, next, no)
    BY <1>2, <1>11
  <2>2. QED
    BY <1>4, <1>6, <1>7, <2>1, FirstLevelIs
<1>9. l.until \in Int
  <2>1. until(first) \in Int /\ until(second) \in Int
    BY <1>4, <1>6, <1>8
  <2> HIDE DEF until
  <2>2. Latest(until(first), until(second)) \in Int
    BY <2>1, LatestIs
  <2>3. QED
    BY <1>3, <2>2 DEF Forever
<1>10. QED
  BY <1>3, <1>8, <1>9

(* One load that is tried again.                                            *)
Trying(b, len) ==
  /\ b = [all |-> b.all, over |-> b.over, ops |-> b.ops, unstalled |-> b.unstalled]
  /\ Good(b.all, b.over)
  /\ b.ops \in Seq(MemOps) /\ Len(b.ops) = len /\ b.unstalled \in BOOLEAN

LEMMA OpIs ==
  ASSUME NEW ops \in Seq(MemOps), NEW n \in 1 .. Len(ops), NEW op \in MemOps
  PROVE  /\ [ops EXCEPT ![n] = op] \in Seq(MemOps) /\ Len([ops EXCEPT ![n] = op]) = Len(ops)
         /\ ops[n] \in MemOps
BY ExceptSeq, ElementOfSeq

LEMMA UnstallIs ==
  ASSUME NEW b, NEW len \in Nat, Trying(b, len), NEW n \in 1 .. len
  PROVE  Trying(Unstall(b, n), len)
<1> DEFINE op == b.ops[n]
           again(a) == LoadUntil(a)
<1>1. PICK a : a = FirstLevel(b.all, "dc", op.line, FALSE)
  OBVIOUS
<1>2. /\ b = [all |-> b.all, over |-> b.over, ops |-> b.ops, unstalled |-> b.unstalled]
      /\ Good(b.all, b.over) /\ b.ops \in Seq(MemOps) /\ Len(b.ops) = len /\ b.unstalled \in BOOLEAN
  BY DEF Trying
<1>3. op \in MemOps
  BY <1>2, ElementOfSeq
<1>4. CASE b.unstalled \/ op.until = Done
  <2>1. Unstall(b, n) = b
    <3>1. ~ (~ b.unstalled /\ op.until = Refused) /\ ~ (~ b.unstalled /\ op.until = 0)
      BY <1>2, <1>4 DEF Done, Refused
    <3>2. QED
      BY <1>4, <3>1 DEF Unstall
  <2>2. QED
    BY <2>1
<1>5. CASE ~ b.unstalled /\ op.until = Refused
  <2>1. Unstall(b, n) =
          [b EXCEPT !.all = a.all, !.over = @ \/ a.over, !.ops[n] = MemOp(op.line, again(a)),
                    !.unstalled = (again(a) = Done)]
    BY <1>1, <1>5 DEF Unstall, TriedAgain, Done, Refused
  <2>2. PICK o \in BOOLEAN : o = (b.over \/ a.over)
    OBVIOUS
  <2>3. PICK new : new = MemOp(op.line, again(a))
    OBVIOUS
  <2>4. PICK u \in BOOLEAN : u = (again(a) = Done)
    OBVIOUS
  <2>5. Unstall(b, n) = [all |-> a.all, over |-> o, ops |-> [b.ops EXCEPT ![n] = new], unstalled |-> u]
    BY <1>2, <2>1, <2>2, <2>3, <2>4
  <2>6. op.line \in Nat /\ "dc" \in L1s
    BY <1>3 DEF MemOps, L1s
  <2>7. Good(a.all, o) /\ a.t \in Int
    <3>1. PICK dc \in L1s, no \in BOOLEAN, line \in Nat : dc = "dc" /\ no = FALSE /\ line = op.line
      BY <2>6
    <3>2. a = FirstLevel(b.all, dc, line, no)
      BY <1>1, <3>1
    <3>3. PICK all, over : all = b.all /\ over = b.over
      OBVIOUS
    <3>4. Good(all, over) /\ (o <=> over \/ a.over) /\ a = FirstLevel(all, dc, line, no)
      BY <1>2, <2>2, <3>2, <3>3
    <3>5. QED
      BY <3>4, FirstLevelIs
  <2>8. new \in MemOps
    BY <2>3, <2>6, <2>7, LoadUntilIs, MemOpIs
  <2>9. [b.ops EXCEPT ![n] = new] \in Seq(MemOps) /\ Len([b.ops EXCEPT ![n] = new]) = len
    BY <1>2, <2>8, OpIs
  <2>10. QED
    BY <2>5, <2>7, <2>9 DEF Trying
<1>6. CASE ~ b.unstalled /\ op.until = 0
  <2>1. Unstall(b, n) = [b EXCEPT !.ops[n].until = Done, !.unstalled = TRUE]
    BY <1>6 DEF Unstall, Done, Refused
  <2>2. PICK new : new = [op EXCEPT !.until = Done]
    OBVIOUS
  <2>3. Unstall(b, n) = [all |-> b.all, over |-> b.over, ops |-> [b.ops EXCEPT ![n] = new],
                         unstalled |-> TRUE]
    BY <1>2, <2>1, <2>2
  <2>4. new \in MemOps
    BY <1>3, <2>2 DEF MemOps, Done
  <2>5. [b.ops EXCEPT ![n] = new] \in Seq(MemOps) /\ Len([b.ops EXCEPT ![n] = new]) = len
    BY <1>2, <2>4, OpIs
  <2>6. QED
    BY <1>2, <2>3, <2>5 DEF Trying
<1>7. CASE ~ b.unstalled /\ op.until # Done /\ op.until # Refused /\ op.until # 0
  BY <1>7 DEF Unstall
<1>8. QED
  BY <1>4, <1>5, <1>6, <1>7

LEMMA LoadReplayIs ==
  ASSUME NEW all, NEW over, Good(all, over), NEW ops \in Seq(MemOps)
  PROVE  Trying(LoadReplay(all, over, ops), Len(ops))
<1> DEFINE init == [all |-> all, over |-> over, ops |-> ops, unstalled |-> FALSE]
           Step(g, m) == IF m = 0 THEN init ELSE Unstall(g[m - 1], m)
           Follows(g, m) == g = [n \in 0 .. m |-> Step(g, n)]
           T == {m \in Nat : \E g : Follows(g, m)}
           U(g) == {m \in Nat : m \in 0 .. Len(ops) => Trying(g[m], Len(ops))}
<1>1. Len(ops) \in Nat
  BY LenProperties
<1>2. 0 \in T
  <2> DEFINE f == [n \in 0 .. 0 |-> init]
  <2>1. \A n \in 0 .. 0 : Step(f, n) = init
    OBVIOUS
  <2>2. Follows(f, 0)
    BY <2>1
  <2>3. QED
    BY <2>2
<1>3. ASSUME NEW m \in T PROVE m + 1 \in T
  <2>1. PICK g : Follows(g, m)
    BY <1>3
  <2>2. m \in Nat
    BY <1>3
  <2> HIDE DEF init
  <2> DEFINE f == [n \in 0 .. m + 1 |-> IF n = m + 1 THEN Unstall(g[m], m + 1) ELSE g[n]]
  <2>3. ASSUME NEW n \in 0 .. m + 1 PROVE f[n] = Step(f, n)
    <3>1. CASE n = m + 1
      <4>1. n # 0 /\ n - 1 = m /\ m \in 0 .. m + 1 /\ m # m + 1
        BY <2>2, <3>1
      <4>2. f[n] = Unstall(g[m], m + 1) /\ f[n - 1] = g[m]
        BY <3>1, <4>1
      <4>3. QED
        BY <3>1, <4>1, <4>2
    <3>2. CASE n # m + 1 /\ n = 0
      <4>1. n \in 0 .. m
        BY <2>2, <3>2
      <4>2. f[n] = g[n] /\ g[n] = init
        BY <2>1, <3>2, <4>1
      <4>3. QED
        BY <3>2, <4>2
    <3>3. CASE n # m + 1 /\ n # 0
      <4>1. n \in 0 .. m /\ n - 1 \in 0 .. m + 1 /\ n - 1 # m + 1
        BY <2>2, <3>3
      <4>2. f[n] = g[n] /\ f[n - 1] = g[n - 1]
        BY <3>3, <4>1
      <4>3. g[n] = Unstall(g[n - 1], n)
        BY <2>1, <3>3, <4>1
      <4>4. QED
        BY <3>3, <4>2, <4>3
    <3>4. QED
      BY <3>1, <3>2, <3>3
  <2>4. f = [n \in 0 .. m + 1 |-> f[n]]
    OBVIOUS
  <2> HIDE DEF f, Step
  <2>5. f = [n \in 0 .. m + 1 |-> Step(f, n)]
    BY <2>3, <2>4
  <2>6. QED
    BY <2>2, <2>5
<1>4. T \in SUBSET Nat /\ Len(ops) \in 0 .. Len(ops) /\ \A k \in T : k < Len(ops) => k + 1 \in T
  <2>1. T \in SUBSET Nat
    OBVIOUS
  <2> HIDE DEF T
  <2>2. QED
    BY <1>1, <1>3, <2>1
<1>5. Len(ops) \in T
  <2> HIDE DEF T
  <2>1. QED
    BY <1>1, <1>2, <1>4, HandedOn
<1>6. \E g : Follows(g, Len(ops))
  BY <1>5
<1>7. PICK g : Follows(g, Len(ops)) /\ LoadReplay(all, over, ops) = g[Len(ops)]
  <2>1. LoadReplay(all, over, ops) = (CHOOSE g : Follows(g, Len(ops)))[Len(ops)]
    BY DEF LoadReplay
  <2> HIDE DEF Follows
  <2>2. QED
    BY <1>6, <2>1
<1>8. 0 \in U(g)
  <2>1. g[0] = init
    BY <1>1, <1>7
  <2>2. Trying(init, Len(ops))
    BY DEF Trying
  <2>3. QED
    BY <2>1, <2>2
<1>9. ASSUME NEW m \in U(g), m < Len(ops) PROVE m + 1 \in U(g)
  <2>1. m \in 0 .. Len(ops) /\ m + 1 \in 1 .. Len(ops) /\ m + 1 - 1 = m /\ m + 1 # 0
        /\ m + 1 \in 0 .. Len(ops)
    BY <1>1, <1>9
  <2>2. Trying(g[m], Len(ops))
    BY <1>9, <2>1
  <2> HIDE DEF init
  <2>3. g[m + 1] = Unstall(g[m], m + 1)
    BY <1>7, <2>1
  <2>4. Trying(g[m + 1], Len(ops))
    BY <1>1, <2>1, <2>2, <2>3, UnstallIs
  <2>5. QED
    BY <1>9, <2>4
<1>10. U(g) \in SUBSET Nat /\ \A k \in U(g) : k < Len(ops) => k + 1 \in U(g)
  BY <1>9
<1>11. Len(ops) \in U(g)
  <2> HIDE DEF U
  <2>1. QED
    BY <1>1, <1>4, <1>8, <1>10, HandedOn
<1>12. QED
  BY <1>4, <1>7, <1>11

----------------------------------------------------------------------------
(* The invariant.                                                           *)
Empty(c) == [array |-> [s \in SetsOf(c) |-> <<>>],
             mhsr  |-> [i \in 1 .. MHSRs[c] |-> Idle],
             port  |-> [i \in 1 .. Ports[c] |-> 0]]

LEMMA InitGood ==
  ASSUME CachesInit
  PROVE  Good(caches, overrun)
<1>1. PICK all : all = caches
  OBVIOUS
<1>2. \A c \in CacheNames : all[c] = Empty(c)
  BY <1>1 DEF CachesInit, SetsOf, Empty
<1>3. ASSUME NEW c \in CacheNames
      PROVE  Sound(c, all[c]) /\ Ordered(c, all[c]) /\ \A m \in 1 .. MHSRs[c] : ~ all[c].mhsr[m].busy
  <2>1. PICK k : k = all[c]
    OBVIOUS
  <2>2. /\ k = [array |-> k.array, mhsr |-> k.mhsr, port |-> k.port]
        /\ k.array = [s \in SetsOf(c) |-> <<>>] /\ k.mhsr = [i \in 1 .. MHSRs[c] |-> Idle]
        /\ k.port = [i \in 1 .. Ports[c] |-> 0]
    <3>1. k = Empty(c)
      BY <1>2, <2>1
    <3>2. QED
      BY <3>1 DEF Empty
  <2>3. Idle \in Registers /\ ~ Idle.busy
    BY DEF Idle, Registers
  <2>4. <<>> \in Seq(LinesOf(c)) /\ Len(<<>>) = 0
    OBVIOUS
  <2>5. k \in CacheType(c)
    <3>1. k.array \in [SetsOf(c) -> Seq(LinesOf(c))]
      BY <2>2, <2>4
    <3>2. k.mhsr \in [1 .. MHSRs[c] -> Registers]
      BY <2>2, <2>3
    <3>3. k.port \in [1 .. Ports[c] -> Nat]
      BY <2>2
    <3>4. QED
      BY <2>2, <3>1, <3>2, <3>3 DEF CacheType
  <2>6. \A s \in SetsOf(c) : k.array[s] = <<>>
    BY <2>2
  <2>7. ASSUME NEW s \in SetsOf(c) PROVE SetIs(c, s, <<>>) /\ NamesIn(c, k.mhsr, <<>>)
    <3>1. Assoc[c] \in Nat
      BY Sizes
    <3>2. QED
      BY <2>4, <3>1 DEF SetIs, NamesIn
  <2>8. Sound(c, k)
    BY <2>5, <2>6, <2>7 DEF Sound
  <2>9. \A m \in 1 .. MHSRs[c] : ~ k.mhsr[m].busy
    BY <2>2, <2>3
  <2>10. InTurn(c, k)
    BY <2>9 DEF InTurn
  <2>11. Alone(c, k)
    BY <2>4, <2>6 DEF Alone
  <2>12. QED
    BY <2>1, <2>8, <2>9, <2>10, <2>11 DEF Ordered
<1>4. Served(all)
  <2>1. <<"dc", 1>> \in Users
    <3>1. MHSRs["dc"] \in Nat \ {0}
      BY Sizes DEF CacheNames, L1s
    <3>2. 1 \in 1 .. MHSRs["dc"] /\ "dc" \in L1s
      BY <3>1 DEF L1s
    <3>3. QED
      BY <3>2, IsUser
  <2>2. PICK f : f = [i \in 1 .. MHSRs["l2"] |-> <<"dc", 1>>]
    OBVIOUS
  <2>3. f \in [1 .. MHSRs["l2"] -> Users]
    BY <2>1, <2>2
  <2>4. \A i \in 1 .. MHSRs["l2"] : ~ Working(all["l2"].mhsr[i])
    BY <1>3, SecondIs DEF Working
  <2>5. ServedBy(all, f)
    BY <2>3, <2>4 DEF ServedBy
  <2>6. QED
    BY <2>5 DEF Served
<1>5. all = [c \in CacheNames |-> all[c]]
  BY <1>1 DEF CachesInit
<1>6. overrun = FALSE
  BY DEF CachesInit
<1>7. L1s \subseteq CacheNames
  BY DEF CacheNames
<1>8. Good(all, overrun)
  BY <1>3, <1>4, <1>5, <1>6, <1>7 DEF Good
<1>9. QED
  BY <1>1, <1>8

LEMMA InitIInv == CachesInit => IInv
<1>1. SUFFICES ASSUME CachesInit PROVE IInv
  OBVIOUS
<1>2. memops \in Seq(MemOps)
  BY <1>1 DEF CachesInit
<1>3. fetching \in [line : Nat, until : Int]
  BY <1>1 DEF CachesInit
<1>4. QED
  BY <1>1, <1>2, <1>3, InitGood DEF IInv

LEMMA TakenIInv ==
  ASSUME IInv, NEW line \in Nat, NEW store \in BOOLEAN, NEW a, a = FirstLevel(caches, "dc", line, store),
         caches' = a.all, overrun' = (overrun \/ a.over),
         a.t \in Int => \E op \in MemOps : memops' = Append(memops, op),
         fetching' = fetching
  PROVE  IInv'
<1>1. PICK dc \in L1s : dc = "dc"
  BY DEF L1s
<1>2. PICK o \in BOOLEAN : o = (overrun \/ a.over)
  OBVIOUS
<1>3. Good(caches, overrun) /\ memops \in Seq(MemOps) /\ fetching \in [line : Nat, until : Int]
  BY DEF IInv
<1>4. Good(a.all, o) /\ a.t \in Int
  <2>1. a = FirstLevel(caches, dc, line, store)
    BY <1>1
  <2>2. PICK over : over = overrun
    OBVIOUS
  <2>3. Good(caches, over) /\ (o <=> over \/ a.over)
    BY <1>2, <1>3, <2>2
  <2>4. QED
    BY <2>1, <2>3, FirstLevelIs
<1>5. memops' \in Seq(MemOps)
  BY <1>3, <1>4, AppendProperties
<1>6. Good(caches', overrun')
  BY <1>2, <1>4
<1>7. QED
  BY <1>3, <1>5, <1>6 DEF IInv, Good, Sound, Ordered, Served, ServedBy, CacheType, SetIs, NamesIn, InTurn, Alone

LEMMA LoadIInv ==
  ASSUME IInv, NEW line \in 0 .. Lines - 1, Load(line)
  PROVE  IInv'
<1>1. PICK a : a = FirstLevel(caches, "dc", line, FALSE)
  OBVIOUS
<1>2. PICK no \in BOOLEAN : no = FALSE
  OBVIOUS
<1>3. /\ caches' = a.all /\ overrun' = (overrun \/ a.over) /\ fetching' = fetching
      /\ memops' = Append(memops, MemOp(line, LoadUntil(a)))
  BY <1>1 DEF Load
<1>4. line \in Nat
  BY Sizes
<1>5. a.t \in Int => \E op \in MemOps : memops' = Append(memops, op)
  BY <1>3, <1>4, LoadUntilIs, MemOpIs
<1>6. a = FirstLevel(caches, "dc", line, no)
  BY <1>1, <1>2
<1>7. QED
  BY <1>3, <1>4, <1>5, <1>6, TakenIInv

LEMMA StoreIInv ==
  ASSUME IInv, NEW line \in 0 .. Lines - 1, Store(line)
  PROVE  IInv'
<1>1. PICK a : a = FirstLevel(caches, "dc", line, TRUE)
  OBVIOUS
<1>2. PICK yes \in BOOLEAN : yes = TRUE
  OBVIOUS
<1>3. /\ caches' = a.all /\ overrun' = (overrun \/ a.over) /\ fetching' = fetching
      /\ memops' = Append(memops, MemOp(line, Done))
  BY <1>1 DEF Store
<1>4. line \in Nat /\ Done \in Int
  BY Sizes DEF Done
<1>5. \E op \in MemOps : memops' = Append(memops, op)
  BY <1>3, <1>4, MemOpIs
<1>6. a = FirstLevel(caches, "dc", line, yes)
  BY <1>1, <1>2
<1>7. QED
  BY <1>3, <1>4, <1>5, <1>6, TakenIInv

LEMMA OpsAfterCycleIs ==
  ASSUME memops \in Seq(MemOps), NEW retired \in 0 .. Len(memops)
  PROVE  SubSeq(OpsAfterCycle, retired + 1, Len(memops)) \in Seq(MemOps)
<1>1. PICK len \in Nat : len = Len(memops) /\ DOMAIN memops = 1 .. len
  BY LenProperties
<1>2. PICK ops : ops = OpsAfterCycle
  OBVIOUS
<1>3. ASSUME NEW n \in 1 .. len PROVE ops[n] \in MemOps
  <2>1. PICK op \in MemOps : op = memops[n]
    BY <1>1, ElementOfSeq
  <2>2. ops[n] = [op EXCEPT !.until = Waits(@)]
    BY <1>1, <1>2, <2>1 DEF OpsAfterCycle
  <2>3. Waits(op.until) \in Int
    BY DEF Waits, MemOps
  <2>4. QED
    BY <2>2, <2>3 DEF MemOps
<1>4. retired + 1 \in Int /\ len \in Int /\ \A n \in retired + 1 .. len : ops[n] \in MemOps
  BY <1>1, <1>3
<1>5. SubSeq(ops, retired + 1, len) \in Seq(MemOps)
  BY <1>4, SubSeqProperties
<1>6. QED
  BY <1>1, <1>2, <1>5

LEMMA FetchedIs ==
  ASSUME Good(caches, overrun), fetching \in [line : Nat, until : Int], NEW f \in Fetched,
         NEW o \in BOOLEAN, o <=> overrun \/ f.over
  PROVE  Good(f.all, o) /\ f.until \in Int
<1>1. CASE f = [all |-> caches, over |-> FALSE, until |-> fetching.until]
  <2>1. f.all = caches /\ f.over = FALSE /\ f.until = fetching.until
    BY <1>1
  <2>2. PICK over \in BOOLEAN : over = overrun
    BY DEF Good
  <2>3. Good(caches, over) /\ (o <=> over)
    BY <2>1, <2>2
  <2>4. o = over
    BY <2>3
  <2>5. QED
    BY <2>1, <2>3, <2>4
<1>2. CASE f = Lookup(fetching.line)
  <2>1. fetching.line \in Nat
    OBVIOUS
  <2>2. QED
    BY <1>2, <2>1, LookupIs
<1>3. QED
  BY <1>1, <1>2 DEF Fetched

LEMMA NextCycleIInv ==
  ASSUME IInv, NextCycle
  PROVE  IInv'
<1>1. Good(caches, overrun) /\ memops \in Seq(MemOps) /\ fetching \in [line : Nat, until : Int]
  BY DEF IInv
<1>2. PICK f \in Fetched, retired \in 0 .. Len(memops) :
        /\ LET b == LoadReplay(AfterCycle(f.all), overrun \/ f.over,
                               SubSeq(OpsAfterCycle, retired + 1, Len(memops)))
           IN caches' = b.all /\ overrun' = b.over /\ memops' = b.ops
        /\ fetching' \in NextFetches(Waits(f.until))
  BY DEF NextCycle
<1>3. PICK o \in BOOLEAN : o = (overrun \/ f.over)
  OBVIOUS
<1>4. PICK ops : ops = SubSeq(OpsAfterCycle, retired + 1, Len(memops))
  OBVIOUS
<1>5. PICK b : b = LoadReplay(AfterCycle(f.all), o, ops)
  OBVIOUS
<1>6. caches' = b.all /\ overrun' = b.over /\ memops' = b.ops
  BY <1>2, <1>3, <1>4, <1>5
<1>7. Good(f.all, o) /\ f.until \in Int
  BY <1>1, <1>3, FetchedIs
<1>8. ops \in Seq(MemOps)
  BY <1>1, <1>4, OpsAfterCycleIs
<1>9. Trying(b, Len(ops))
  BY <1>5, <1>7, <1>8, GoodLater, LoadReplayIs
<1>10. fetching' \in [line : Nat, until : Int]
  <2>1. Waits(f.until) \in Int
    BY <1>7 DEF Waits
  <2>2. CodeLines \in Nat
    BY Sizes
  <2>3. QED
    BY <1>2, <2>1, <2>2 DEF NextFetches
<1>11. QED
  BY <1>6, <1>9, <1>10 DEF IInv, Trying

LEMMA NextIInv == IInv /\ [CachesNext]_cacheVars => IInv'
<1>1. SUFFICES ASSUME IInv, [CachesNext]_cacheVars PROVE IInv'
  OBVIOUS
<1>2. ASSUME NEW line \in 0 .. Lines - 1, Load(line) PROVE IInv'
  BY <1>1, <1>2, LoadIInv
<1>3. ASSUME NEW line \in 0 .. Lines - 1, Store(line) PROVE IInv'
  BY <1>1, <1>3, StoreIInv
<1>4. CASE NextCycle
  BY <1>1, <1>4, NextCycleIInv
<1>5. CASE UNCHANGED cacheVars
  BY <1>1, <1>5 DEF IInv, cacheVars
<1>6. QED
  BY <1>1, <1>2, <1>3, <1>4, <1>5 DEF CachesNext

----------------------------------------------------------------------------
(* What follows from it.                                                    *)
LEMMA SoundNamed ==
  ASSUME NEW c \in CacheNames, NEW k, Sound(c, k)
  PROVE  LinesApart(k) /\ MHSRsNamed(k)
<1>1. DOMAIN k.array = SetsOf(c)
  BY SoundIs
<1>2. ASSUME NEW s \in SetsOf(c), NEW set, set = k.array[s]
      PROVE  /\ \A i, j \in DOMAIN set : set[i].tag = set[j].tag => i = j
             /\ \A i \in DOMAIN set : Names(k, set[i])
  <2>1. SetIs(c, s, set) /\ NamesIn(c, k.mhsr, set)
    BY <1>2, SoundIs
  <2>2. DOMAIN set = 1 .. Len(set)
    BY <2>1, SetIsType
  <2>3. QED
    BY <2>1, <2>2 DEF SetIs, NamesIn, Names
<1>3. QED
  BY <1>1, <1>2 DEF LinesApart, MHSRsNamed

LEMMA OrderedArrived ==
  ASSUME NEW c \in CacheNames, NEW k, Sound(c, k), Ordered(c, k), InOrder(c)
  PROVE  Arrived(k)
<1>1. /\ DOMAIN k.array = SetsOf(c) /\ DOMAIN k.mhsr = 1 .. MHSRs[c]
      /\ k.mhsr \in [1 .. MHSRs[c] -> Registers]
      /\ \A s \in SetsOf(c) : SetIs(c, s, k.array[s])
  BY SoundIs
<1>2. ASSUME NEW s \in SetsOf(c), NEW set, set = k.array[s], NEW i \in 1 .. Len(set),
             set[i].mhsr = NoMHSR, NEW m \in 1 .. MHSRs[c], k.mhsr[m].busy,
             k.mhsr[m].line = set[i].tag, k.mhsr[m].resolved > 0
      PROVE  FALSE
  <2>1. SetIs(c, s, set)
    BY <1>1, <1>2
  <2>2. SetOf(c, k.mhsr[m].line) = s
    BY <1>2, <2>1 DEF SetIs
  <2>3. CASE Assoc[c] = 1
    <3>1. set # <<>> /\ set[1].mhsr # NoMHSR
      BY <1>2, <2>2, <2>3 DEF Ordered, InTurn
    <3>2. Len(set) = 1
      BY <2>1, <2>3, <3>1, OneWay
    <3>3. QED
      BY <1>2, <3>1, <3>2
  <2>4. CASE MHSRs[c] = 1
    <3>1. m = 1
      BY <1>2, <2>4
    <3>2. set[i].mhsr = 1
      BY <1>2, <2>4, <3>1 DEF Ordered, Alone
    <3>3. QED
      BY <1>2, <3>2 DEF NoMHSR
  <2>5. QED
    BY <2>3, <2>4 DEF InOrder
<1>3. ASSUME NEW s \in SetsOf(c), NEW i \in DOMAIN k.array[s], k.array[s][i].mhsr = NoMHSR,
             NEW m \in 1 .. MHSRs[c], k.mhsr[m].busy, k.mhsr[m].line = k.array[s][i].tag
      PROVE  k.mhsr[m].resolved <= 0
  <2>1. DOMAIN k.array[s] = 1 .. Len(k.array[s])
    BY <1>1, SetIsType
  <2>2. k.mhsr[m].resolved \in Int
    BY <1>1 DEF Registers
  <2>3. ~ (k.mhsr[m].resolved > 0)
    BY <1>2, <1>3, <2>1
  <2>4. QED
    BY <2>2, <2>3
<1>4. QED
  BY <1>1, <1>3 DEF Arrived

LEMMA IInvPrecise == IInv => MHSRsPrecise
<1>1. SUFFICES ASSUME IInv PROVE MHSRsPrecise
  OBVIOUS
<1>2. PICK all, over : all = caches /\ over = overrun
  OBVIOUS
<1>3. Good(all, over)
  BY <1>1, <1>2 DEF IInv
<1>4. /\ \A c \in CacheNames : Sound(c, all[c])
      /\ \A c \in L1s : Sound(c, all[c]) /\ c \in CacheNames
      /\ ~ over => \A c \in L1s : Ordered(c, all[c])
      /\ Enough => ~ over
  BY <1>3, GoodIs
<1>5. \A c \in CacheNames : LinesApart(all[c]) /\ MHSRsNamed(all[c])
  BY <1>4, SoundNamed
<1>6. ~ over => \A c \in L1s : InOrder(c) => Arrived(all[c])
  BY <1>4, OrderedArrived
<1>7. MHSRs["l2"] >= MHSRs["dc"] + MHSRs["ic"] => ~ over
  BY <1>4 DEF Enough
<1>8. QED
  BY <1>2, <1>5, <1>6, <1>7 DEF MHSRsPrecise

(* In every state the caches are sound, each MHSR of the second level that  *)
(* works does so for one of the first, and the operations are well formed.  *)
THEOREM CachesInvariant == CachesSpec => []IInv
<1>1. CachesInit => IInv
  BY InitIInv
<1>2. IInv /\ [CachesNext]_cacheVars => IInv'
  BY NextIInv
<1>3. QED
  BY <1>1, <1>2, PTL DEF CachesSpec

(* The MHSR that a line names is at work for it; where loads cannot         *)
(* overtake each other a line on its way is not mistaken for one that has   *)
(* come; no line is in two ways; and the second level never refuses a miss  *)
(* of the first if it has as many MHSRs as both of them.                    *)
THEOREM MHSRsPreciseHolds == CachesSpec => []MHSRsPrecise
<1>1. IInv => MHSRsPrecise
  BY IInvPrecise
<1>2. QED
  BY <1>1, CachesInvariant, PTL

=============================================================================
