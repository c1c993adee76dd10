---------------------------- MODULE LanesProofs -----------------------------
(***************************************************************************)
(* For every number of lanes, every depth of each, every number of         *)
(* registers and every set of instructions: nobody misses a tag, nobody    *)
(* reads a register before it is written, and no two instructions meet in  *)
(* a lane.                                                                 *)
(*                                                                         *)
(* The invariant has three parts.  Renamed: a source is what program order *)
(* names, so its producer is older.  Signalled: ready, written and wait    *)
(* say of each instruction where it is.  Flowing: which places are empty   *)
(* in which stage of the cycle, for the lanes that have had their turn.    *)
(* Each is stated of a window and the registers, and each action is shown  *)
(* to keep it by what it does to the window: commit the first, append one, *)
(* cut, or move instructions on.                                           *)
(***************************************************************************)
EXTENDS LanesProperties, FiniteSetTheorems, SequenceTheorems,
        WellFoundedInduction, TLAPS

Instr == [op : AllOps, log : Log \cup {None}, dest : Phys \cup {None},
          lane : Lanes \cup {0}, sub : Nat, at : Places,
          srcs : SUBSET Phys, wait : SUBSET Phys]

(* An instruction is in a sub-stage exactly if it is in Execute, and in a   *)
(* lane exactly if it is somewhere between Schedule and Writeback.          *)
Shaped(i) ==
  /\ i \in Instr
  /\ i.wait \subseteq i.srcs
  /\ InLane(i) <=> i.lane # 0
  /\ i.sub \in IF i.at = "ex" THEN 1 .. Depth[i.lane] ELSE {0}
  /\ i.at = "lsu" => i.op = "load"

(* Register p is what logical register l is named for the instruction at    *)
(* place k of w, if a is committed.                                         *)
Names(w, a, l, k, p) ==
  \/ \E j \in DOMAIN w : /\ j < k /\ w[j].log = l /\ w[j].dest = p
                         /\ \A m \in DOMAIN w : j < m /\ m < k => w[m].log # l
  \/ a[l] = p /\ \A m \in DOMAIN w : m < k => w[m].log # l

Renamed(w, a) ==
  /\ \A k \in DOMAIN w : w[k].dest = None <=> w[k].log = None
  /\ \A j, k \in DOMAIN w : w[j].dest # None /\ w[j].dest = w[k].dest => j = k
  /\ \A l, m \in Log : a[l] = a[m] => l = m
  /\ \A k \in DOMAIN w, l \in Log : w[k].dest # a[l]
  /\ \A k \in DOMAIN w : \A p \in w[k].srcs : \E l \in Log : Names(w, a, l, k, p)
  /\ \A k \in DOMAIN w : Serial(w[k]) => k = Len(w)

(* What is committed can be read.                                           *)
Usable(a, rd, wr) == \A l \in Log : rd[a[l]] /\ wr[a[l]]

Written(i) == i.at \in {"wb", "done"}

(* Ready means announced, and a value is there when its instruction has     *)
(* left the lane.                                                           *)
Announces(i, rd) == i.dest # None /\ i.op # "amo" => (rd[i.dest] <=> ~ YetToAnnounce(i))
Delivers(i, wr)  == i.dest # None /\ WritesInLane(i) /\ Written(i) => wr[i.dest]
Listens(i, rd)   == i.at = "iq" => i.wait = {p \in i.srcs : ~ rd[p]}

(* In time: the instruction is written, or in the last sub-stage of a lane  *)
(* whose turn in Execute is still to come before the next Register Read.    *)
InTime(i, s, m) ==
  \/ Written(i)
  \/ /\ i.at = "ex" /\ i.sub = Depth[i.lane] /\ i.op # "load"
     /\ \/ s \in {"dispatch", "retire", "writeback", "load_replay"}
        \/ s = "execute" /\ m <= i.lane

Signalled(w, a, rd, wr, s, m) ==
  /\ Usable(a, rd, wr)
  /\ \A k \in DOMAIN w : Announces(w[k], rd) /\ Delivers(w[k], wr) /\ Listens(w[k], rd)
  /\ \A j, k \in DOMAIN w :
       w[k].at = "rr" /\ w[j].dest \in w[k].srcs => InTime(w[j], s, m)

(* What may be where in lane m of stage s.                                  *)
Turn(i, s, m) ==
  /\ i.at = "rr" => s # "schedule" /\ (s = "register_read" => m <= i.lane)
  /\ i.at = "wb" => /\ s # "load_replay"
                    /\ s = "writeback" => m <= i.lane
                    /\ s = "execute" => i.lane < m
  /\ i.at = "ex" /\ i.sub = 1 => /\ s = "execute" => m <= i.lane
                                 /\ s = "register_read" => i.lane < m

Apart(i, j) ==
  InLane(i) /\ InLane(j) => <<i.lane, i.at, i.sub>> # <<j.lane, j.at, j.sub>>

Flowing(w, s, m) ==
  /\ \A k \in DOMAIN w : Turn(w[k], s, m)
  /\ \A j, k \in DOMAIN w : j # k => Apart(w[j], w[k])

Stages == {"retire", "writeback", "load_replay", "execute", "register_read",
           "schedule", "dispatch"}

Typed ==
  /\ window \in Seq(Instr) /\ Len(window) <= Window
  /\ \A k \in Entries : Shaped(window[k])
  /\ amt \in [Log -> Phys]
  /\ ready \in [Phys -> BOOLEAN] /\ written \in [Phys -> BOOLEAN]
  /\ stage \in Stages /\ n \in Nat
  /\ stage \in {"writeback", "execute", "register_read"} => n \in Lanes

IInv ==
  /\ Typed
  /\ Renamed(window, amt)
  /\ Signalled(window, amt, ready, written, stage, n)
  /\ Flowing(window, stage, n)

----------------------------------------------------------------------------
LEMMA Sizes ==
  /\ Len(Depth) \in Nat \ {0} /\ Lanes = 1 .. Len(Depth) /\ 0 \notin Lanes
  /\ \A m \in Lanes : Depth[m] \in Nat \ {0}
  /\ Window \in Nat \ {0}
BY LanesAssumption DEF Lanes

LEMMA InstrFields ==
  ASSUME NEW i \in Instr
  PROVE  /\ i.op \in AllOps /\ i.log \in Log \cup {None} /\ i.dest \in Phys \cup {None}
         /\ i.lane \in Lanes \cup {0} /\ i.sub \in Nat /\ i.at \in Places
         /\ i.srcs \in SUBSET Phys /\ i.wait \in SUBSET Phys
BY DEF Instr

(* The same instruction as far as renaming goes.                            *)
Same(i, j) == i.op = j.op /\ i.log = j.log /\ i.dest = j.dest /\ i.srcs = j.srcs

Alike(v, w) == Len(v) = Len(w) /\ \A k \in DOMAIN w : Same(v[k], w[k])

LEMMA AlikeRenamed ==
  ASSUME NEW v \in Seq(Instr), NEW w \in Seq(Instr), NEW a, Alike(v, w), Renamed(w, a)
  PROVE  Renamed(v, a)
<1>1. DOMAIN v = DOMAIN w /\ Len(v) = Len(w)
  BY DEF Alike
<1>2. \A k \in DOMAIN w : /\ v[k].op = w[k].op /\ v[k].log = w[k].log
                          /\ v[k].dest = w[k].dest /\ v[k].srcs = w[k].srcs
  BY DEF Alike, Same
<1>3. ASSUME NEW k \in DOMAIN w, NEW p, NEW l \in Log, Names(w, a, l, k, p)
      PROVE  Names(v, a, l, k, p)
  BY <1>1, <1>2, <1>3 DEF Names
<1>4. \A k \in DOMAIN v : \A p \in v[k].srcs : \E l \in Log : Names(v, a, l, k, p)
  BY <1>1, <1>2, <1>3 DEF Renamed
<1>5. \A k \in DOMAIN v : Serial(v[k]) => k = Len(v)
  BY <1>1, <1>2 DEF Renamed, Serial
<1>6. QED
  BY <1>1, <1>2, <1>4, <1>5 DEF Renamed

(* A misprediction keeps what is not younger than the branch.               *)
LEMMA CutRenamed ==
  ASSUME NEW w \in Seq(Instr), NEW a, NEW c \in DOMAIN w, Renamed(w, a)
  PROVE  Renamed(SubSeq(w, 1, c), a)
<1>1. PICK v : v = SubSeq(w, 1, c)
  OBVIOUS
<1>2. /\ DOMAIN v = 1 .. c /\ Len(v) = c /\ DOMAIN w = 1 .. Len(w) /\ c \in Nat
      /\ \A k \in DOMAIN v : k \in DOMAIN w /\ v[k] = w[k]
  BY <1>1
<1>3. ASSUME NEW k \in DOMAIN v, NEW p, NEW l \in Log, Names(w, a, l, k, p)
      PROVE  Names(v, a, l, k, p)
  <2>1. \A j \in DOMAIN w : j < k => j \in DOMAIN v
    BY <1>2
  <2>2. QED
    BY <1>2, <1>3, <2>1 DEF Names
<1>4. \A k \in DOMAIN v : \A p \in v[k].srcs : \E l \in Log : Names(v, a, l, k, p)
  BY <1>2, <1>3 DEF Renamed
<1>5. \A k \in DOMAIN v : Serial(v[k]) => k = Len(v)
  BY <1>2 DEF Renamed
<1>6. Renamed(v, a)
  BY <1>2, <1>4, <1>5 DEF Renamed
<1>7. QED
  BY <1>1, <1>6

(* The oldest instruction commits, and what it was named is committed.      *)
LEMMA CommitRenamed ==
  ASSUME NEW w \in Seq(Instr), w # <<>>, NEW a \in [Log -> Phys], Renamed(w, a),
         NEW b, b = IF Head(w).dest = None THEN a ELSE [a EXCEPT ![Head(w).log] = Head(w).dest]
  PROVE  Renamed(Tail(w), b)
<1>1. PICK v : v = Tail(w)
  OBVIOUS
<1>2. /\ DOMAIN v = 1 .. Len(w) - 1 /\ Len(v) = Len(w) - 1 /\ DOMAIN w = 1 .. Len(w)
      /\ Len(w) \in Nat \ {0}
      /\ \A k \in DOMAIN v : k + 1 \in DOMAIN w /\ v[k] = w[k + 1]
      /\ Head(w) = w[1] /\ 1 \in DOMAIN w
  BY <1>1
<1>3. w[1].dest \in Phys \cup {None} /\ w[1].log \in Log \cup {None} /\ None \notin Log \cup Phys
  <2>1. w[1] \in Instr
    BY <1>2, ElementOfSeq
  <2>2. None \notin Log \cup Phys
    BY LanesAssumption
  <2>3. QED
    BY <2>1, <2>2, InstrFields
<1>4. \A l \in Log : b[l] = IF w[1].log = l THEN w[1].dest ELSE a[l]
  BY <1>2, <1>3 DEF Renamed
<1>5. ASSUME NEW k \in DOMAIN v, NEW p, NEW l \in Log, Names(w, a, l, k + 1, p)
      PROVE  Names(v, b, l, k, p)
  <2>1. \A m \in DOMAIN v : m < k => m + 1 \in DOMAIN w /\ m + 1 < k + 1 /\ v[m] = w[m + 1]
    BY <1>2
  <2>2. CASE a[l] = p /\ \A m \in DOMAIN w : m < k + 1 => w[m].log # l
    <3>1. w[1].log # l
      BY <1>2, <2>2
    <3>2. QED
      BY <1>4, <2>1, <2>2, <3>1 DEF Names
  <2>3. ASSUME NEW j \in DOMAIN w, j < k + 1, w[j].log = l, w[j].dest = p,
               \A m \in DOMAIN w : j < m /\ m < k + 1 => w[m].log # l
        PROVE  Names(v, b, l, k, p)
    <3>1. CASE j = 1
      <4>1. \A m \in DOMAIN v : m < k => v[m].log # l
        BY <1>2, <2>1, <2>3, <3>1
      <4>2. b[l] = p
        BY <1>4, <2>3, <3>1
      <4>3. QED
        BY <4>1, <4>2 DEF Names
    <3>2. CASE j # 1
      <4>1. /\ j - 1 \in DOMAIN v /\ j - 1 < k /\ v[j - 1] = w[j]
            /\ \A m \in DOMAIN v : j - 1 < m /\ m < k => j < m + 1
        BY <1>2, <2>3, <3>2
      <4>2. \A m \in DOMAIN v : j - 1 < m /\ m < k => v[m].log # l
        BY <1>2, <2>1, <2>3, <4>1
      <4>3. QED
        BY <2>3, <4>1, <4>2 DEF Names
    <3>3. QED
      BY <3>1, <3>2
  <2>4. QED
    BY <1>5, <2>2, <2>3 DEF Names
<1>6. \A k \in DOMAIN v : \A p \in v[k].srcs : \E l \in Log : Names(v, b, l, k, p)
  BY <1>2, <1>5 DEF Renamed
<1>7. \A k \in DOMAIN v : Serial(v[k]) => k = Len(v)
  <2>1. TAKE k \in DOMAIN v
  <2>2. Serial(w[k + 1]) => k + 1 = Len(w)
    BY <1>2 DEF Renamed
  <2>3. QED
    BY <1>2, <2>2
<1>8. \A k \in DOMAIN v : v[k].dest = None <=> v[k].log = None
  BY <1>2 DEF Renamed
<1>9. \A j, k \in DOMAIN v : v[j].dest # None /\ v[j].dest = v[k].dest => j = k
  <2>1. TAKE j, k \in DOMAIN v
  <2>2. j + 1 \in DOMAIN w /\ k + 1 \in DOMAIN w /\ v[j] = w[j + 1] /\ v[k] = w[k + 1]
    BY <1>2
  <2>3. w[j + 1].dest # None /\ w[j + 1].dest = w[k + 1].dest => j + 1 = k + 1
    BY <2>2 DEF Renamed
  <2>4. QED
    BY <1>2, <2>2, <2>3
<1>10. \A l, m \in Log : b[l] = b[m] => l = m
  BY <1>2, <1>3, <1>4 DEF Renamed
<1>11. \A k \in DOMAIN v, l \in Log : v[k].dest # b[l]
  <2>1. TAKE k \in DOMAIN v, l \in Log
  <2>2. k + 1 \in DOMAIN w /\ k + 1 # 1 /\ v[k] = w[k + 1]
    BY <1>2
  <2>3. CASE w[1].log = l
    <3>1. w[1].dest # None /\ (w[1].dest = w[k + 1].dest => 1 = k + 1)
      BY <1>2, <1>3, <2>2, <2>3 DEF Renamed
    <3>2. QED
      BY <1>4, <2>2, <2>3, <3>1
  <2>4. CASE w[1].log # l
    BY <1>4, <2>2, <2>4 DEF Renamed
  <2>5. QED
    BY <2>3, <2>4
<1>12. Renamed(v, b)
  BY <1>6, <1>7, <1>8, <1>9, <1>10, <1>11 DEF Renamed
<1>13. QED
  BY <1>1, <1>12
(* An instruction arrives: what it reads is what is named behind all others,*)
(* and what it writes is named by nobody.                                   *)
LEMMA ArriveRenamed ==
  ASSUME NEW w \in Seq(Instr), NEW a, Renamed(w, a), NEW e \in Instr,
         e.dest = None <=> e.log = None,
         \A k \in DOMAIN w : e.dest # None => w[k].dest # e.dest,
         \A l \in Log : a[l] # e.dest,
         \A p \in e.srcs : \E l \in Log : Names(w, a, l, Len(w) + 1, p),
         \A k \in DOMAIN w : ~ Serial(w[k])
  PROVE  Renamed(Append(w, e), a)
<1>1. PICK v : v = Append(w, e)
  OBVIOUS
<1>2. /\ DOMAIN v = 1 .. Len(w) + 1 /\ Len(v) = Len(w) + 1 /\ DOMAIN w = 1 .. Len(w)
      /\ Len(w) \in Nat /\ v[Len(w) + 1] = e
      /\ \A k \in DOMAIN w : k \in DOMAIN v /\ k < Len(w) + 1 /\ v[k] = w[k]
      /\ \A k \in DOMAIN v : k \in DOMAIN w \/ k = Len(w) + 1
  BY <1>1
<1>3. ASSUME NEW k \in 1 .. Len(w) + 1, NEW p, NEW l \in Log, Names(w, a, l, k, p)
      PROVE  Names(v, a, l, k, p)
  <2>1. \A m \in DOMAIN v : m < k => m \in DOMAIN w
    BY <1>2
  <2>2. QED
    BY <1>2, <1>3, <2>1 DEF Names
<1>4. \A k \in DOMAIN v : \A p \in v[k].srcs : \E l \in Log : Names(v, a, l, k, p)
  <2>1. TAKE k \in DOMAIN v
  <2>2. TAKE p \in v[k].srcs
  <2>3. \E l \in Log : Names(w, a, l, k, p)
    BY <1>2, <2>2 DEF Renamed
  <2>4. QED
    BY <1>2, <1>3, <2>3
<1>5. \A k \in DOMAIN v : Serial(v[k]) => k = Len(v)
  BY <1>2
<1>6. \A j, k \in DOMAIN v : v[j].dest # None /\ v[j].dest = v[k].dest => j = k
  <2>1. TAKE j, k \in DOMAIN v
  <2>2. CASE j \in DOMAIN w /\ k \in DOMAIN w
    BY <1>2, <2>2 DEF Renamed
  <2>3. CASE j = Len(w) + 1 \/ k = Len(w) + 1
    BY <1>2, <2>3
  <2>4. QED
    BY <1>2, <2>2, <2>3
<1>7. \A k \in DOMAIN v : v[k].dest = None <=> v[k].log = None
  BY <1>2 DEF Renamed
<1>8. \A k \in DOMAIN v, l \in Log : v[k].dest # a[l]
  BY <1>2 DEF Renamed
<1>9. Renamed(v, a)
  BY <1>4, <1>5, <1>6, <1>7, <1>8 DEF Renamed
<1>10. QED
  BY <1>1, <1>9

LEMMA EmptyRenamed ==
  ASSUME NEW a, \A l, m \in Log : a[l] = a[m] => l = m
  PROVE  Renamed(<<>>, a)
BY DEF Renamed

LEMMA LeastNat ==
  ASSUME NEW T \in SUBSET Nat, T # {}
  PROVE  \E x \in T : \A y \in T : x <= y
<1>1. PICK x \in T : \A y \in T : ~ (<<y, x>> \in OpToRel(<, Nat))
  BY NatLessThanWellFounded, WFMin
<1>2. \A y \in T : ~ (y < x)
  BY <1>1 DEF OpToRel
<1>3. QED
  BY <1>2

LEMMA HasLast ==
  ASSUME NEW N \in Nat, NEW S \in SUBSET (1 .. N), S # {}
  PROVE  \E x \in S : \A y \in S : y <= x
<1>1. PICK T : T = {d \in 0 .. N : N - d \in S}
  OBVIOUS
<1>2. \A y \in S : N - y \in T /\ N - (N - y) = y
  BY <1>1
<1>3. T \in SUBSET Nat /\ T # {}
  <2>1. PICK y \in S : TRUE
    OBVIOUS
  <2>2. N - y \in T
    <3>1. y \in 1 .. N /\ N - y \in 0 .. N /\ N - (N - y) = y
      OBVIOUS
    <3>2. QED
      BY <1>1, <3>1
  <2>3. T \subseteq Nat
    BY <1>1
  <2>4. QED
    BY <2>2, <2>3
<1>4. PICK d \in T : \A e \in T : d <= e
  BY <1>3, LeastNat
<1>5. N - d \in S /\ d \in Nat
  BY <1>1
<1>6. \A y \in S : d <= N - y /\ y \in Nat
  BY <1>2, <1>4
<1>7. QED
  BY <1>5, <1>6

(* Current() is what is named behind all instructions.                      *)
LEMMA CurrentNamed ==
  ASSUME Typed, Renamed(window, amt), NEW l \in Log
  PROVE  Current(l) \in Phys /\ Names(window, amt, l, Len(window) + 1, Current(l))
<1>1. /\ Len(window) \in Nat /\ DOMAIN window = 1 .. Len(window)
      /\ \A k \in DOMAIN window : window[k] \in Instr
      /\ amt[l] \in Phys /\ None \notin Log \cup Phys
  BY ElementOfSeq, LanesAssumption DEF Typed
<1>2. PICK ks : ks = {k \in Entries : window[k].log = l}
  OBVIOUS
<1>3. CASE ks = {}
  BY <1>1, <1>2, <1>3 DEF Names, Current, Entries
<1>4. CASE ks # {}
  <2>1. \E x \in ks : \A y \in ks : y <= x
    BY <1>1, <1>2, <1>4, HasLast DEF Entries
  <2>2. PICK x : x = CHOOSE k \in ks : \A j \in ks : j <= k
    OBVIOUS
  <2>3. x \in ks /\ \A y \in ks : y <= x
    BY <2>1, <2>2
  <2>4. Current(l) = window[x].dest
    BY <1>2, <1>4, <2>2 DEF Current
  <2>5. window[x].dest \in Phys
    <3>1. x \in DOMAIN window /\ window[x].log = l
      BY <1>2, <2>3 DEF Entries
    <3>2. window[x].dest \in Phys \cup {None}
      BY <1>1, <3>1, InstrFields
    <3>3. window[x].dest # None
      BY <1>1, <3>1 DEF Renamed
    <3>4. QED
      BY <3>2, <3>3
  <2>6. \A m \in DOMAIN window : x < m => window[m].log # l
    BY <1>1, <1>2, <2>3 DEF Entries
  <2>7. x \in DOMAIN window /\ x < Len(window) + 1 /\ window[x].log = l
    BY <1>1, <1>2, <2>3 DEF Entries
  <2>8. QED
    BY <2>4, <2>5, <2>6, <2>7 DEF Names
<1>5. QED
  BY <1>3, <1>4

(* A source is committed, or an older instruction produces it; in either    *)
(* case nobody else does.                                                   *)
LEMMA SourceOlder ==
  ASSUME NEW w \in Seq(Instr), NEW a, Renamed(w, a),
         NEW k \in DOMAIN w, NEW p \in w[k].srcs
  PROVE  /\ \/ \E l \in Log : a[l] = p
            \/ \E j \in DOMAIN w : j < k /\ w[j].dest = p /\ w[j].dest # None
         /\ \A j \in DOMAIN w : w[j].dest = p => j < k /\ ~ Serial(w[j])
<1>1. PICK l \in Log : Names(w, a, l, k, p)
  BY DEF Renamed
<1>2. DOMAIN w = 1 .. Len(w) /\ Len(w) \in Nat
  OBVIOUS
<1>3. w[k].srcs \subseteq Phys /\ None \notin Log \cup Phys
  BY ElementOfSeq, InstrFields, LanesAssumption
<1>4. p # None
  BY <1>3
<1>5. CASE a[l] = p
  BY <1>5 DEF Renamed
<1>6. ASSUME NEW j \in DOMAIN w, j < k, w[j].dest = p
      PROVE  /\ w[j].dest # None
             /\ \A i \in DOMAIN w : w[i].dest = p => i < k /\ ~ Serial(w[i])
  <2>1. \A i \in DOMAIN w : w[i].dest = p => i = j
    BY <1>4, <1>6 DEF Renamed
  <2>2. ~ Serial(w[j])
    BY <1>2, <1>6 DEF Renamed
  <2>3. QED
    BY <1>4, <1>6, <2>1, <2>2
<1>7. QED
  BY <1>1, <1>5, <1>6 DEF Names

----------------------------------------------------------------------------
(* Setting bits.                                                            *)
LEMMA SetBits ==
  ASSUME NEW bits \in [Phys -> BOOLEAN], NEW regs
  PROVE  /\ Set(bits, regs) \in [Phys -> BOOLEAN]
         /\ \A p \in Phys : Set(bits, regs)[p] <=> bits[p] \/ p \in regs
BY DEF Set

LEMMA DestIs ==
  ASSUME NEW i \in Instr
  PROVE  \A p : p \in Dest(i) <=> p = i.dest /\ i.dest # None
BY DEF Dest

LEMMA WindowEntries ==
  ASSUME Typed
  PROVE  /\ Len(window) \in Nat /\ Entries = 1 .. Len(window) /\ DOMAIN window = 1 .. Len(window)
         /\ \A k \in Entries : window[k] \in Instr /\ Shaped(window[k])
BY ElementOfSeq DEF Typed, Entries

(* Where an instruction is says which lane it is in.                        *)
LEMMA InLanes ==
  ASSUME NEW i, Shaped(i)
  PROVE  /\ i \in Instr
         /\ i.at \in {"rr", "ex", "wb"} <=> i.lane \in Lanes
         /\ i.at \notin {"rr", "ex", "wb"} <=> i.lane = 0
         /\ i.at = "ex" => i.sub \in 1 .. Depth[i.lane]
         /\ i.at # "ex" => i.sub = 0
BY Sizes, InstrFields DEF Shaped, InLane

(* Retire moves on to its next turn or to Writeback, and nothing has to be  *)
(* empty for that.                                                          *)
LEMMA FromRetire ==
  ASSUME Typed, Retire
  PROVE  /\ stage' \in {"retire", "writeback"} /\ n' \in Nat
         /\ stage' = "writeback" => n' = 1
         /\ \A i, m : InTime(i, stage, m) => InTime(i, stage', n')
         /\ \A i : Shaped(i) => Turn(i, stage', n')
<1>1. stage = "retire" /\ n \in Nat
      /\ \/ n' = n + 1 /\ stage' = "retire"
         \/ n' = 1 /\ stage' = "writeback"
  BY DEF Retire, To, Typed
<1>2. /\ stage' \in {"retire", "writeback"} /\ n' \in Nat
      /\ stage' = "writeback" => n' = 1
  BY <1>1
<1>3. \A i, m : InTime(i, stage, m) => InTime(i, stage', n')
  BY <1>2 DEF InTime
<1>4. ASSUME NEW i, Shaped(i) PROVE Turn(i, stage', n')
  <2>1. i.at = "wb" => i.lane \in Lanes
    BY <1>4, InLanes
  <2>2. QED
    BY <1>2, <2>1, Sizes DEF Turn
<1>5. QED
  BY <1>2, <1>3, <1>4

LEMMA CommitKeeps ==
  ASSUME IInv, Retire, CommitHead
  PROVE  IInv'
<1> DEFINE i == Head(window)
<1>1. /\ Typed /\ Renamed(window, amt) /\ Flowing(window, stage, n)
      /\ Signalled(window, amt, ready, written, stage, n)
  BY DEF IInv
<1>2. /\ window # <<>> /\ i.at = "done"
      /\ amt' = IF i.dest = None THEN amt ELSE [amt EXCEPT ![i.log] = i.dest]
      /\ ready' = IF i.op \in LateOps THEN Set(ready, Dest(i)) ELSE ready
      /\ written' = IF i.op \in LateOps THEN Set(written, Dest(i)) ELSE written
      /\ window' = Tail(window)
  BY DEF CommitHead
<1>3. /\ window \in Seq(Instr) /\ Len(window) \in Nat \ {0} /\ DOMAIN window = 1 .. Len(window)
      /\ window' \in Seq(Instr) /\ Len(window') = Len(window) - 1
      /\ DOMAIN window' = 1 .. Len(window) - 1
      /\ \A k \in DOMAIN window' : k + 1 \in DOMAIN window /\ window'[k] = window[k + 1]
      /\ i = window[1] /\ 1 \in DOMAIN window
  BY <1>1, <1>2 DEF Typed
<1>4. i \in Instr /\ \A k \in DOMAIN window : Shaped(window[k]) /\ window[k] \in Instr
  BY <1>1, <1>3, WindowEntries DEF Entries
<1> HIDE DEF i
<1>5. /\ i.dest \in Phys \cup {None} /\ i.log \in Log \cup {None} /\ i.op \in AllOps
      /\ i.dest = None <=> i.log = None
      /\ None \notin Log \cup Phys
  BY <1>1, <1>3, <1>4, InstrFields, LanesAssumption DEF Renamed
<1>6. Renamed(window', amt')
  BY <1>1, <1>2, <1>3, CommitRenamed DEF Typed, i
<1>7. ready' \in [Phys -> BOOLEAN] /\ written' \in [Phys -> BOOLEAN] /\ amt' \in [Log -> Phys]
  BY <1>1, <1>2, <1>5, SetBits DEF Typed
<1>8. Typed'
  <2>1. stage' \in {"retire", "writeback"} /\ n' \in Nat /\ (stage' = "writeback" => n' = 1)
    BY <1>1, FromRetire
  <2>2. \A k \in DOMAIN window' : Shaped(window'[k])
    BY <1>3, <1>4
  <2>3. Len(window') <= Window
    BY <1>1, <1>3, Sizes DEF Typed
  <2>4. QED
    BY <1>3, <1>7, <2>1, <2>2, <2>3, Sizes DEF Typed, Entries, Stages
(* What executes in Retire is alone.                                        *)
<1>9. i.op \in LateOps => DOMAIN window' = {}
  BY <1>1, <1>3 DEF Renamed, Serial, LateOps
<1>10. Usable(amt', ready', written')
  <2>1. SUFFICES ASSUME NEW l \in Log PROVE ready'[amt'[l]] /\ written'[amt'[l]]
    BY DEF Usable
  <2>2. amt[l] \in Phys /\ ready[amt[l]] /\ written[amt[l]]
    BY <1>1 DEF Signalled, Usable, Typed
  <2>3. \A p \in Phys : (ready[p] => ready'[p]) /\ (written[p] => written'[p])
    BY <1>1, <1>2, SetBits DEF Typed
  <2>4. CASE i.dest = None \/ i.log # l
    <3>1. amt'[l] = amt[l]
      BY <1>1, <1>2, <1>5, <2>4 DEF Typed
    <3>2. QED
      BY <2>2, <2>3, <3>1
  <2>5. CASE i.dest # None /\ i.log = l
    <3>1. amt'[l] = i.dest /\ i.dest \in Phys
      BY <1>1, <1>2, <1>5, <2>5 DEF Typed
    <3>2. CASE i.op \in LateOps
      BY <1>1, <1>2, <1>4, <2>5, <3>1, <3>2, SetBits, DestIs DEF Typed
    <3>3. CASE i.op \notin LateOps
      <4>1. Announces(i, ready) /\ Delivers(i, written)
        BY <1>1, <1>3 DEF Signalled
      <4>2. ready[i.dest] /\ written[i.dest]
        BY <1>2, <2>5, <3>3, <4>1
           DEF Announces, Delivers, LateOps, WritesInLane, Written, YetToAnnounce
      <4>3. QED
        BY <2>3, <3>1, <4>2
    <3>4. QED
      BY <3>2, <3>3
  <2>6. QED
    BY <2>4, <2>5
<1>11. Signalled(window', amt', ready', written', stage', n')
  <2>1. CASE i.op \in LateOps
    BY <1>9, <1>10, <2>1 DEF Signalled
  <2>2. CASE i.op \notin LateOps
    <3>1. ready' = ready /\ written' = written
      BY <1>2, <2>2
    <3>2. \A k \in DOMAIN window' : Announces(window'[k], ready) /\ Delivers(window'[k], written)
                                   /\ Listens(window'[k], ready)
      BY <1>1, <1>3 DEF Signalled
    <3>3. \A j, k \in DOMAIN window' :
            window'[k].at = "rr" /\ window'[j].dest \in window'[k].srcs => InTime(window'[j], stage, n)
      BY <1>1, <1>3 DEF Signalled
    <3>4. QED
      BY <1>1, <1>10, <3>1, <3>2, <3>3, FromRetire DEF Signalled
  <2>3. QED
    BY <2>1, <2>2
<1>12. Flowing(window', stage', n')
  <2>1. \A k \in DOMAIN window' : Turn(window'[k], stage', n')
    BY <1>1, <1>3, <1>4, FromRetire
  <2>2. \A j, k \in DOMAIN window' : j # k => Apart(window'[j], window'[k])
    <3>1. TAKE j, k \in DOMAIN window'
    <3>2. HAVE j # k
    <3>3. /\ j + 1 \in DOMAIN window /\ k + 1 \in DOMAIN window /\ j + 1 # k + 1
          /\ window'[j] = window[j + 1] /\ window'[k] = window[k + 1]
      BY <1>3, <3>2
    <3>4. QED
      BY <1>1, <3>3 DEF Flowing
  <2>3. QED
    BY <2>1, <2>2 DEF Flowing
<1>13. QED
  BY <1>6, <1>8, <1>11, <1>12 DEF IInv

LEMMA SquashKeeps ==
  ASSUME IInv, Retire, SquashAll
  PROVE  IInv'
<1>1. /\ Typed /\ Renamed(window, amt) /\ Usable(amt, ready, written)
      /\ Head(window) \in Instr
  BY WindowEntries DEF IInv, Signalled, SquashAll, Typed
<1>2. /\ window' = <<>> /\ amt' = amt /\ written' = written
      /\ ready' = ready \/ ready' = Set(ready, Dest(Head(window)))
  BY DEF SquashAll
<1>3. ready' \in [Phys -> BOOLEAN] /\ \A p \in Phys : ready[p] => ready'[p]
  BY <1>1, <1>2, SetBits DEF Typed
<1>4. Typed'
  BY <1>1, <1>2, <1>3, FromRetire, Sizes DEF Typed, Entries, Stages
<1>5. Renamed(window', amt')
  BY <1>1, <1>2, EmptyRenamed DEF Renamed
<1>6. Usable(amt', ready', written')
  BY <1>1, <1>2, <1>3 DEF Usable, Typed
<1>7. Signalled(window', amt', ready', written', stage', n') /\ Flowing(window', stage', n')
  BY <1>2, <1>6 DEF Signalled, Flowing
<1>8. QED
  BY <1>4, <1>5, <1>7 DEF IInv

LEMMA NothingToRetireKeeps ==
  ASSUME IInv, Retire, NothingToRetire
  PROVE  IInv'
<1>1. /\ Typed /\ Renamed(window, amt) /\ Flowing(window, stage, n)
      /\ Signalled(window, amt, ready, written, stage, n)
      /\ UNCHANGED <<window, amt, ready, written>>
  BY DEF IInv, NothingToRetire
<1>2. Typed'
  BY <1>1, FromRetire, Sizes DEF Typed, Entries, Stages
<1>3. Signalled(window, amt, ready, written, stage', n')
  BY <1>1, FromRetire DEF Signalled
<1>4. Flowing(window, stage', n')
  BY <1>1, FromRetire, WindowEntries DEF Flowing, Entries
<1>5. QED
  BY <1>1, <1>2, <1>3, <1>4 DEF IInv

----------------------------------------------------------------------------
(* An instruction moves to another place, or hears of tags.                 *)
LEMMA MoveFields ==
  ASSUME NEW i \in Instr, NEW at \in Places, NEW lane \in Lanes \cup {0}, NEW sub \in Nat
  PROVE  LET j == [i EXCEPT !.at = at, !.lane = lane, !.sub = sub] IN
         /\ j \in Instr /\ Same(j, i) /\ j.wait = i.wait
         /\ j.at = at /\ j.lane = lane /\ j.sub = sub
BY DEF Instr, Same

LEMMA HearsFields ==
  ASSUME NEW i \in Instr, NEW tags
  PROVE  LET j == Hears(i, tags) IN
         /\ j \in Instr /\ Same(j, i) /\ j.at = i.at /\ j.lane = i.lane /\ j.sub = i.sub
         /\ j.wait = IF i.at = "iq" THEN i.wait \ tags ELSE i.wait
BY DEF Instr, Same, Hears

LEMMA DoneFields ==
  ASSUME NEW i \in Instr
  PROVE  /\ Done(i) \in Instr /\ Same(Done(i), i) /\ Done(i).wait = i.wait
         /\ Done(i).at = "done" /\ Done(i).lane = 0 /\ Done(i).sub = 0
BY DEF Instr, Same, Done, Places

(* The next lane's turn, or the first of the next stage.                    *)
LEMMA NextLaneIs ==
  ASSUME Typed, NEW s, NextLane(s), n \in Lanes
  PROVE  \/ n' = n + 1 /\ stage' = stage /\ n' \in Lanes
         \/ n' = 1 /\ stage' = s /\ \A m \in Lanes : m <= n
BY Sizes DEF NextLane, To, Typed

LEMMA WritebackKeeps ==
  ASSUME IInv, Writeback
  PROVE  IInv'
<1>1. /\ Typed /\ Renamed(window, amt) /\ Flowing(window, stage, n)
      /\ Signalled(window, amt, ready, written, stage, n)
      /\ stage = "writeback" /\ n \in Lanes
  BY DEF IInv, Writeback, Typed
<1>2. /\ Len(window) \in Nat /\ Entries = 1 .. Len(window) /\ DOMAIN window = Entries
      /\ \A k \in Entries : window[k] \in Instr /\ Shaped(window[k])
  BY <1>1, WindowEntries
<1>3. UNCHANGED <<amt, ready, written>>
  BY DEF Writeback
<1>4. \/ n' = n + 1 /\ stage' = "writeback" /\ n' \in Lanes
      \/ n' = 1 /\ stage' = "load_replay" /\ \A m \in Lanes : m <= n
  BY <1>1, NextLaneIs DEF Writeback
<1>5. /\ stage' \in Stages /\ n' \in Nat
      /\ stage' \in {"writeback", "execute", "register_read"} => n' \in Lanes
  BY <1>4, Sizes DEF Stages
(* Nothing is left in Writeback of this lane.                               *)
<1>6. /\ window' \in Seq(Instr) /\ Len(window') <= Len(window) /\ Len(window') \in Nat
      /\ DOMAIN window' = 1 .. Len(window') /\ DOMAIN window' \subseteq Entries
      /\ Renamed(window', amt)
      /\ \A k \in DOMAIN window' :
           \/ window'[k] = window[k] /\ ~ (window[k].at = "wb" /\ window[k].lane = n)
           \/ window'[k] = Done(window[k]) /\ window[k].at = "wb" /\ window[k].lane = n
  <2>1. CASE In("wb") = {}
    BY <1>1, <1>2, <2>1 DEF Writeback, In, Typed
  <2>2. CASE In("wb") # {}
    <3>1. PICK c \in In("wb") : window' \in {Complete(c), SubSeq(Complete(c), 1, c)}
      BY <2>2 DEF Writeback
    <3>2. PICK w : w = Complete(c)
      OBVIOUS
    <3>3. c \in Entries /\ window[c].at = "wb" /\ window[c].lane = n
      BY <3>1 DEF In
    <3>4. Done(window[c]) \in Instr /\ Same(Done(window[c]), window[c])
      BY <1>2, <3>3, DoneFields
    <3>5. /\ w \in Seq(Instr) /\ Len(w) = Len(window) /\ DOMAIN w = Entries
          /\ \A k \in Entries : w[k] = IF k = c THEN Done(window[c]) ELSE window[k]
      BY <1>1, <1>2, <3>2, <3>3, <3>4 DEF Complete, Typed
    <3>6. Alike(w, window)
      BY <1>2, <3>4, <3>5 DEF Alike, Same
    <3>7. Renamed(w, amt)
      BY <1>1, <3>5, <3>6, AlikeRenamed DEF Typed
    <3>8. \A k \in Entries : window[k].at = "wb" /\ window[k].lane = n => k = c
      <4>1. TAKE k \in Entries
      <4>2. HAVE window[k].at = "wb" /\ window[k].lane = n
      <4>3. window[k].sub = 0 /\ window[c].sub = 0
        BY <1>2, <3>3, <4>2, InLanes
      <4>4. ~ Apart(window[k], window[c])
        BY <3>3, <4>2, <4>3 DEF Apart, InLane
      <4>5. QED
        BY <1>1, <1>2, <3>3, <4>4 DEF Flowing
    <3>9. \A k \in Entries :
             \/ w[k] = window[k] /\ ~ (window[k].at = "wb" /\ window[k].lane = n)
             \/ w[k] = Done(window[k]) /\ window[k].at = "wb" /\ window[k].lane = n
      BY <3>3, <3>5, <3>8
    <3>10. CASE window' = w
      BY <1>2, <3>5, <3>7, <3>9, <3>10
    <3>11. CASE window' = SubSeq(w, 1, c)
      <4>1. /\ window' \in Seq(Instr) /\ Len(window') = c /\ DOMAIN window' = 1 .. c
            /\ \A k \in 1 .. c : window'[k] = w[k] /\ k \in Entries
        BY <1>2, <3>3, <3>5, <3>11
      <4>2. Renamed(window', amt)
        BY <3>3, <3>5, <3>7, <3>11, CutRenamed
      <4>3. QED
        BY <1>2, <3>3, <3>9, <4>1, <4>2
    <3>12. QED
      BY <3>1, <3>2, <3>10, <3>11
  <2>3. QED
    BY <2>1, <2>2
<1>7. \A k \in DOMAIN window' :
        /\ window'[k] \in Instr /\ Same(window'[k], window[k])
        /\ window'[k].wait = window[k].wait
        /\ \/ window'[k] = window[k] /\ ~ (window[k].at = "wb" /\ window[k].lane = n)
           \/ /\ window'[k].at = "done" /\ window'[k].lane = 0 /\ window'[k].sub = 0
              /\ window[k].at = "wb" /\ window[k].lane = n
  BY <1>2, <1>6, DoneFields DEF Same
<1>8. \A k \in DOMAIN window' : Shaped(window'[k])
  BY <1>2, <1>6, <1>7 DEF Shaped, Same, InLane
<1>9. Typed'
  BY <1>1, <1>3, <1>5, <1>6, <1>8, Sizes DEF Typed, Entries
<1>10. ASSUME NEW k \in DOMAIN window'
       PROVE  /\ Announces(window'[k], ready) /\ Delivers(window'[k], written)
              /\ Listens(window'[k], ready)
  <2>1. /\ Announces(window[k], ready) /\ Delivers(window[k], written)
        /\ Listens(window[k], ready)
    BY <1>1, <1>2, <1>6 DEF Signalled
  <2>2. QED
    BY <1>7, <2>1 DEF Announces, Delivers, Listens, Same, WritesInLane, Written, YetToAnnounce
<1>11. \A j, k \in DOMAIN window' :
         window'[k].at = "rr" /\ window'[j].dest \in window'[k].srcs => InTime(window'[j], stage', n')
  <2>1. TAKE j, k \in DOMAIN window'
  <2>2. HAVE window'[k].at = "rr" /\ window'[j].dest \in window'[k].srcs
  <2>3. j \in Entries /\ k \in Entries /\ window[k].at = "rr" /\ window[j].dest \in window[k].srcs
    BY <1>6, <1>7, <2>2 DEF Same
  <2>4. InTime(window[j], stage, n)
    BY <1>1, <1>2, <2>3 DEF Signalled
  <2>5. QED
    BY <1>1, <1>4, <1>7, <2>4 DEF InTime, Written
<1>12. Signalled(window', amt', ready', written', stage', n')
  BY <1>1, <1>3, <1>10, <1>11 DEF Signalled
<1>13. ASSUME NEW k \in DOMAIN window' PROVE Turn(window'[k], stage', n')
  <2>1. Turn(window[k], stage, n) /\ (window[k].at = "wb" => window[k].lane \in Lanes)
    BY <1>1, <1>2, <1>6, InLanes DEF Flowing
  <2>2. QED
    BY <1>1, <1>4, <1>7, <2>1, Sizes DEF Turn
<1>14. Flowing(window', stage', n')
  BY <1>1, <1>2, <1>6, <1>7, <1>13 DEF Flowing, Apart, InLane
<1>15. QED
  BY <1>3, <1>6, <1>9, <1>12, <1>14 DEF IInv

(* The tags of some entries are a register of another only if it is one of  *)
(* them.                                                                    *)
LEMMA TagsOf ==
  ASSUME Typed, Renamed(window, amt), NEW K \in SUBSET Entries
  PROVE  /\ \A p : p \in UNION {Dest(window[k]) : k \in K} <=>
                     \E k \in K : p = window[k].dest /\ p # None
         /\ \A j \in Entries : window[j].dest # None =>
              (window[j].dest \in UNION {Dest(window[k]) : k \in K} <=> j \in K)
<1>1. \A p : p \in UNION {Dest(window[k]) : k \in K} <=>
                \E k \in K : p = window[k].dest /\ p # None
  BY DEF Dest
<1>2. \A j, k \in Entries : window[j].dest # None /\ window[j].dest = window[k].dest => j = k
  BY DEF Renamed, Entries
<1>3. QED
  BY <1>1, <1>2

(* What has to be said of an instruction that goes from i to j while the    *)
(* bits of some registers are set, to keep its part of Signalled.           *)
LEMMA SetAnnounces ==
  ASSUME NEW i \in Instr, NEW j, Same(j, i), NEW rd \in [Phys -> BOOLEAN], NEW regs,
         i.dest \in regs => ~ YetToAnnounce(j),
         i.op # "amo" /\ i.dest # None /\ i.dest \notin regs =>
           (YetToAnnounce(j) <=> YetToAnnounce(i)),
         Announces(i, rd)
  PROVE  Announces(j, Set(rd, regs))
<1>1. i.dest # None => i.dest \in Phys
  BY InstrFields
<1>2. i.dest \in Phys => (Set(rd, regs)[i.dest] <=> rd[i.dest] \/ i.dest \in regs)
  BY SetBits
<1>3. QED
  BY <1>1, <1>2 DEF Announces, Same

LEMMA SetDelivers ==
  ASSUME NEW i \in Instr, NEW j, Same(j, i), NEW wr \in [Phys -> BOOLEAN], NEW regs,
         i.dest # None /\ WritesInLane(i) /\ Written(j) => Written(i) \/ i.dest \in regs,
         Delivers(i, wr)
  PROVE  Delivers(j, Set(wr, regs))
<1>1. i.dest # None => i.dest \in Phys
  BY InstrFields
<1>2. i.dest \in Phys => (Set(wr, regs)[i.dest] <=> wr[i.dest] \/ i.dest \in regs)
  BY SetBits
<1>3. QED
  BY <1>1, <1>2 DEF Delivers, Same, WritesInLane

LEMMA SetListens ==
  ASSUME NEW i \in Instr, NEW j, Same(j, i), NEW rd \in [Phys -> BOOLEAN],
         NEW regs, NEW tags,
         j.at = "iq" => i.at = "iq" /\ j.wait = i.wait \ tags,
         \A p \in i.srcs : p \in regs <=> p \in tags,
         Listens(i, rd)
  PROVE  Listens(j, Set(rd, regs))
<1>1. SUFFICES ASSUME j.at = "iq"
               PROVE  j.wait = {p \in j.srcs : ~ Set(rd, regs)[p]}
  BY DEF Listens
<1>2. j.wait = i.wait \ tags /\ i.wait = {p \in i.srcs : ~ rd[p]} /\ j.srcs = i.srcs
  BY <1>1 DEF Listens, Same
<1>3. \A p \in i.srcs : Set(rd, regs)[p] <=> rd[p] \/ p \in regs
  BY SetBits, InstrFields
<1>4. QED
  BY <1>2, <1>3

LEMMA ReplayKeeps ==
  ASSUME IInv, NEW c \in Entries, ReplaySucceeds(c)
  PROVE  IInv'
<1>1. /\ Typed /\ Renamed(window, amt) /\ Flowing(window, stage, n)
      /\ Signalled(window, amt, ready, written, stage, n)
      /\ stage = "load_replay"
  BY DEF IInv, ReplaySucceeds
<1>2. /\ Len(window) \in Nat /\ Entries = 1 .. Len(window) /\ DOMAIN window = Entries
      /\ \A k \in Entries : window[k] \in Instr /\ Shaped(window[k])
  BY <1>1, WindowEntries
<1> DEFINE tags == Dest(window[c])
<1>3. /\ amt' = amt /\ stage' = "execute" /\ n' = 1
      /\ ready' = Set(ready, tags) /\ written' = Set(written, tags)
      /\ window' = [j \in Entries |-> Hears(Complete(c)[j], tags)]
      /\ window[c].at = "lsu"
  BY DEF ReplaySucceeds, To
<1>4. /\ ready' \in [Phys -> BOOLEAN] /\ written' \in [Phys -> BOOLEAN]
      /\ \A p \in Phys : /\ ready'[p] <=> ready[p] \/ p \in tags
                        /\ written'[p] <=> written[p] \/ p \in tags
      /\ \A p : p \in tags <=> p = window[c].dest /\ p # None
  BY <1>1, <1>2, <1>3, SetBits, DestIs DEF Typed
<1> HIDE DEF tags
<1>5. \A j \in Entries : Complete(c)[j] = IF j = c THEN Done(window[c]) ELSE window[j]
  BY <1>2 DEF Complete
<1>6. \A k \in Entries :
        /\ window'[k] \in Instr /\ Same(window'[k], window[k])
        /\ k = c => /\ window'[k].at = "done" /\ window'[k].lane = 0 /\ window'[k].sub = 0
                    /\ window'[k].wait = window[k].wait
        /\ k # c => /\ window'[k].at = window[k].at /\ window'[k].lane = window[k].lane
                    /\ window'[k].sub = window[k].sub
                    /\ window'[k].wait = IF window[k].at = "iq" THEN window[k].wait \ tags
                                         ELSE window[k].wait
  <2>1. TAKE k \in Entries
  <2>2. CASE k = c
    <3>1. window'[k] = Hears(Done(window[c]), tags)
      BY <1>3, <1>5, <2>2
    <3>2. PICK i : i = window[c]
      OBVIOUS
    <3>3. i \in Instr
      BY <1>2, <3>2
    <3>4. PICK d : d = Done(i)
      OBVIOUS
    <3>5. /\ d \in Instr /\ Same(d, i) /\ d.wait = i.wait
          /\ d.at = "done" /\ d.lane = 0 /\ d.sub = 0
      BY <3>3, <3>4, DoneFields
    <3>6. PICK h : h = Hears(d, tags)
      OBVIOUS
    <3>7. /\ h \in Instr /\ Same(h, i) /\ h.wait = i.wait
          /\ h.at = "done" /\ h.lane = 0 /\ h.sub = 0
      BY <3>5, <3>6, HearsFields DEF Same
    <3>8. QED
      BY <2>2, <3>1, <3>2, <3>4, <3>6, <3>7
  <2>3. CASE k # c
    <3>1. window'[k] = Hears(window[k], tags)
      BY <1>3, <1>5, <2>3
    <3>2. PICK i : i = window[k]
      OBVIOUS
    <3>3. i \in Instr
      BY <1>2, <3>2
    <3>4. PICK h : h = Hears(i, tags)
      OBVIOUS
    <3>5. /\ h \in Instr /\ Same(h, i) /\ h.at = i.at /\ h.lane = i.lane /\ h.sub = i.sub
          /\ h.wait = IF i.at = "iq" THEN i.wait \ tags ELSE i.wait
      BY <3>3, <3>4, HearsFields
    <3>6. QED
      BY <2>3, <3>1, <3>2, <3>4, <3>5
  <2>4. QED
    BY <2>2, <2>3
<1>7. window' \in Seq(Instr) /\ Len(window') = Len(window) /\ DOMAIN window' = Entries
  <2>1. window' \in [1 .. Len(window) -> Instr]
    BY <1>2, <1>3, <1>6
  <2>2. QED
    BY <1>2, <2>1
<1>8. Renamed(window', amt)
  BY <1>1, <1>2, <1>6, <1>7, AlikeRenamed DEF Alike, Typed
<1>9. \A k \in Entries : Shaped(window'[k])
  <2>1. TAKE k \in Entries
  <2>2. Shaped(window[k])
    BY <1>2
  <2>3. CASE k = c
    BY <1>6, <2>2, <2>3 DEF Shaped, Same, InLane
  <2>4. CASE k # c
    BY <1>6, <2>2, <2>4 DEF Shaped, Same, InLane
  <2>5. QED
    BY <2>3, <2>4
<1>10. Typed'
  BY <1>1, <1>3, <1>4, <1>7, <1>9, Sizes DEF Typed, Entries, Stages
<1>11. ASSUME NEW k \in Entries
       PROVE  /\ Announces(window'[k], ready') /\ Delivers(window'[k], written')
              /\ Listens(window'[k], ready')
  <2>1. /\ Announces(window[k], ready) /\ Delivers(window[k], written)
        /\ Listens(window[k], ready)
    BY <1>1, <1>2 DEF Signalled
  <2>2. window[k].dest \in Phys \cup {None} /\ window[k].srcs \subseteq Phys
    BY <1>2, InstrFields
  <2>3. PICK i : i = window[k]
    OBVIOUS
  <2>4. PICK j : j = window'[k]
    OBVIOUS
  <2>5. /\ i \in Instr /\ Same(j, i)
        /\ Announces(i, ready) /\ Delivers(i, written) /\ Listens(i, ready)
    BY <1>2, <1>6, <2>1, <2>3, <2>4
  <2>6. \/ /\ j.at = "done" /\ i.at = "lsu"
           /\ i.dest # None => i.dest \in tags
        \/ /\ j.at = i.at /\ j.lane = i.lane /\ j.sub = i.sub
           /\ i.at = "iq" => j.wait = i.wait \ tags
           /\ i.dest \notin tags
    <3>1. CASE k = c
      BY <1>3, <1>4, <1>6, <2>3, <2>4, <3>1
    <3>2. CASE k # c
      <4>1. window[k].dest # None => window[k].dest # window[c].dest
        BY <1>1, <1>2, <3>2 DEF Renamed
      <4>2. QED
        BY <1>4, <1>6, <2>3, <2>4, <3>2, <4>1
    <3>3. QED
      BY <3>1, <3>2
  <2>7. /\ i.dest \in tags => ~ YetToAnnounce(j)
        /\ i.dest # None /\ i.dest \notin tags => (YetToAnnounce(j) <=> YetToAnnounce(i))
        /\ i.dest # None /\ WritesInLane(i) /\ Written(j) => Written(i) \/ i.dest \in tags
        /\ j.at = "iq" => i.at = "iq" /\ j.wait = i.wait \ tags
    BY <2>5, <2>6 DEF YetToAnnounce, Written, Same
  <2>8. /\ Announces(j, Set(ready, tags)) /\ Delivers(j, Set(written, tags))
        /\ Listens(j, Set(ready, tags))
    BY <1>1, <2>5, <2>7, SetAnnounces, SetDelivers, SetListens DEF Typed
  <2>9. QED
    BY <1>3, <2>4, <2>8
<1>12. ASSUME NEW j \in Entries, NEW k \in Entries,
              window'[k].at = "rr", window'[j].dest \in window'[k].srcs
       PROVE  InTime(window'[j], "execute", 1)
  <2>1. window[k].at = "rr" /\ window[j].dest \in window[k].srcs
    BY <1>3, <1>6, <1>12 DEF Same
  <2>2. InTime(window[j], stage, n)
    BY <1>1, <1>2, <2>1 DEF Signalled
  <2>3. window[j].at = "ex" => 1 <= window[j].lane
    BY <1>2, InLanes, Sizes
  <2>4. QED
    BY <1>6, <2>2, <2>3 DEF InTime, Written, Same
<1>13. Signalled(window', amt', ready', written', stage', n')
  <2>1. Usable(amt, ready', written')
    BY <1>1, <1>4 DEF Signalled, Usable, Typed
  <2>2. QED
    BY <1>3, <1>7, <1>11, <1>12, <2>1 DEF Signalled
<1>14. ASSUME NEW k \in Entries PROVE Turn(window'[k], "execute", 1)
  <2>1. Turn(window[k], stage, n) /\ (window[k].at = "ex" => 1 <= window[k].lane)
    BY <1>1, <1>2, InLanes, Sizes DEF Flowing
  <2>2. QED
    BY <1>1, <1>6, <2>1 DEF Turn
<1>15. Flowing(window', stage', n')
  <2>1. \A j, k \in Entries : j # k => Apart(window'[j], window'[k])
    <3>1. SUFFICES ASSUME NEW j \in Entries, NEW k \in Entries, j # k
                   PROVE  Apart(window'[j], window'[k])
      OBVIOUS
    <3>2. Apart(window[j], window[k])
      BY <1>1, <1>2, <3>1 DEF Flowing
    <3>3. \A x \in {j, k} : ~ InLane(window'[x])
                            \/ /\ InLane(window[x]) /\ window'[x].at = window[x].at
                               /\ window'[x].lane = window[x].lane
                               /\ window'[x].sub = window[x].sub
      BY <1>6 DEF InLane
    <3>4. QED
      BY <3>2, <3>3 DEF Apart
  <2>2. QED
    BY <1>3, <1>7, <1>14, <2>1 DEF Flowing
<1>16. QED
  BY <1>3, <1>8, <1>10, <1>13, <1>15 DEF IInv

LEMMA ReplayNoneKeeps ==
  ASSUME IInv, ReplayNone
  PROVE  IInv'
<1>1. /\ Typed /\ Renamed(window, amt) /\ Flowing(window, stage, n)
      /\ Signalled(window, amt, ready, written, stage, n)
      /\ stage = "load_replay" /\ stage' = "execute" /\ n' = 1
      /\ UNCHANGED <<window, amt, ready, written>>
  BY DEF IInv, ReplayNone, To
<1>2. \A k \in DOMAIN window : window[k].at \in {"wb", "ex"} => 1 <= window[k].lane
  BY <1>1, WindowEntries, InLanes, Sizes DEF Entries
<1>3. Typed'
  BY <1>1, Sizes DEF Typed, Entries, Stages
<1>4. Signalled(window, amt, ready, written, "execute", 1)
  BY <1>1, <1>2 DEF Signalled, InTime
<1>5. Flowing(window, "execute", 1)
  BY <1>1, <1>2 DEF Flowing, Turn
<1>6. QED
  BY <1>1, <1>3, <1>4, <1>5 DEF IInv
(* Instructions move on or hear of tags, and nothing else changes.          *)
LEMMA MovedRenamed ==
  ASSUME Typed, Renamed(window, amt), NEW w \in [Entries -> Instr],
         \A k \in Entries : Same(w[k], window[k])
  PROVE  /\ w \in Seq(Instr) /\ Len(w) = Len(window) /\ DOMAIN w = Entries
         /\ Renamed(w, amt)
<1>1. Len(window) \in Nat /\ Entries = 1 .. Len(window) /\ DOMAIN window = Entries
  BY WindowEntries
<1>2. w \in Seq(Instr) /\ Len(w) = Len(window) /\ DOMAIN w = Entries
  BY <1>1
<1>3. Alike(w, window)
  BY <1>1, <1>2 DEF Alike
<1>4. QED
  BY <1>2, <1>3, AlikeRenamed DEF Typed

LEMMA SetUsable ==
  ASSUME NEW a \in [Log -> Phys], NEW rd \in [Phys -> BOOLEAN], NEW wr \in [Phys -> BOOLEAN],
         NEW regs, NEW vals, Usable(a, rd, wr)
  PROVE  Usable(a, Set(rd, regs), wr) /\ Usable(a, Set(rd, regs), Set(wr, vals))
<1>1. SUFFICES ASSUME NEW l \in Log
               PROVE  Set(rd, regs)[a[l]] /\ wr[a[l]] /\ Set(wr, vals)[a[l]]
  BY DEF Usable
<1>2. a[l] \in Phys /\ rd[a[l]] /\ wr[a[l]]
  BY DEF Usable
<1>3. QED
  BY <1>2, SetBits

LEMMA ApartIs ==
  ASSUME NEW i, NEW j
  PROVE  /\ Apart(i, j) /\ InLane(i) /\ InLane(j) =>
              i.lane # j.lane \/ i.at # j.at \/ i.sub # j.sub
         /\ i.lane # j.lane => Apart(i, j)
         /\ i.at # j.at => Apart(i, j)
         /\ i.sub # j.sub => Apart(i, j)
         /\ ~ InLane(i) => Apart(i, j)
         /\ ~ InLane(j) => Apart(i, j)
BY DEF Apart

LEMMA RegisterReadKeeps ==
  ASSUME IInv, RegisterRead
  PROVE  IInv'
<1>1. /\ Typed /\ Renamed(window, amt) /\ Flowing(window, stage, n)
      /\ Signalled(window, amt, ready, written, stage, n)
      /\ stage = "register_read" /\ n \in Lanes
  BY DEF IInv, RegisterRead, Typed
<1>2. /\ Len(window) \in Nat /\ Entries = 1 .. Len(window) /\ DOMAIN window = Entries
      /\ \A k \in Entries : window[k] \in Instr /\ Shaped(window[k])
  BY <1>1, WindowEntries
<1> DEFINE Wake == {j \in In("rr") : WakesInRegisterRead(window[j])}
           tags == UNION {Dest(window[k]) : k \in Wake}
<1>3. /\ window' = [k \in Entries |->
                      IF k \in In("rr") THEN [window[k] EXCEPT !.at = "ex", !.sub = 1]
                      ELSE Hears(window[k], tags)]
      /\ ready' = Set(ready, tags) /\ amt' = amt /\ written' = written
  BY DEF RegisterRead
<1>4. \A j \in Entries : window[j].dest # None => (window[j].dest \in tags <=> j \in Wake)
  <2>1. Wake \in SUBSET Entries
    BY DEF In
  <2>2. QED
    BY <1>1, <2>1, TagsOf
<1>5. None \notin tags
  BY DEF Dest
<1>6. ready' \in [Phys -> BOOLEAN] /\ Usable(amt, ready', written)
  <2>1. /\ amt \in [Log -> Phys] /\ ready \in [Phys -> BOOLEAN]
        /\ written \in [Phys -> BOOLEAN] /\ Usable(amt, ready, written)
    BY <1>1 DEF Typed, Signalled
  <2>2. Set(ready, tags) \in [Phys -> BOOLEAN]
    BY <2>1, SetBits
  <2>3. Usable(amt, Set(ready, tags), written)
    BY <2>1, SetUsable
  <2>4. QED
    BY <1>3, <2>2, <2>3
<1>7. \/ n' = n + 1 /\ stage' = "register_read" /\ n' \in Lanes
      \/ n' = 1 /\ stage' = "schedule" /\ \A m \in Lanes : m <= n
  BY <1>1, NextLaneIs DEF RegisterRead
<1>8. \A k \in Entries : k \in Wake <=> /\ window[k].at = "rr" /\ window[k].lane = n
                                        /\ AnnouncedEarly(window[k]) /\ Depth[n] = 1
  BY DEF In, WakesInRegisterRead
<1> HIDE DEF Wake, tags
(* An instruction of this lane reads its sources; the others hear of it.    *)
<1> DEFINE Reads(i, j) == /\ i.at = "rr" /\ i.lane = n
                          /\ j.at = "ex" /\ j.lane = n /\ j.sub = 1 /\ j.wait = i.wait
                          /\ i.dest # None => (i.dest \in tags <=> AnnouncedEarly(i) /\ Depth[n] = 1)
           Stays(i, j) == /\ ~ (i.at = "rr" /\ i.lane = n)
                          /\ j.at = i.at /\ j.lane = i.lane /\ j.sub = i.sub
                          /\ j.wait = IF i.at = "iq" THEN i.wait \ tags ELSE i.wait
                          /\ i.dest \notin tags
<1>9. ASSUME NEW k \in Entries
      PROVE  /\ window'[k] \in Instr /\ Same(window'[k], window[k])
             /\ Reads(window[k], window'[k]) \/ Stays(window[k], window'[k])
  <2>1. PICK i : i = window[k]
    OBVIOUS
  <2>2. i \in Instr
    BY <1>2, <2>1
  <2>3. CASE k \in In("rr")
    <3>1. window'[k] = [i EXCEPT !.at = "ex", !.sub = 1] /\ i.at = "rr" /\ i.lane = n
      BY <1>3, <2>1, <2>3 DEF In
    <3>2. PICK j : j = [i EXCEPT !.at = "ex", !.sub = 1]
      OBVIOUS
    <3>3. j \in Instr /\ Same(j, i) /\ j.at = "ex" /\ j.sub = 1 /\ j.lane = i.lane /\ j.wait = i.wait
      BY <2>2, <3>2 DEF Instr, Same, Places
    <3>4. i.dest # None => (i.dest \in tags <=> AnnouncedEarly(i) /\ Depth[n] = 1)
      BY <1>4, <1>8, <2>1, <3>1
    <3>5. QED
      BY <2>1, <3>1, <3>2, <3>3, <3>4
  <2>4. CASE k \notin In("rr")
    <3>1. window'[k] = Hears(i, tags) /\ ~ (i.at = "rr" /\ i.lane = n)
      BY <1>3, <2>1, <2>4 DEF In
    <3>2. PICK j : j = Hears(i, tags)
      OBVIOUS
    <3>3. /\ j \in Instr /\ Same(j, i) /\ j.at = i.at /\ j.lane = i.lane /\ j.sub = i.sub
          /\ j.wait = IF i.at = "iq" THEN i.wait \ tags ELSE i.wait
      BY <2>2, <3>2, HearsFields
    <3>4. i.dest \notin tags
      BY <1>4, <1>5, <1>8, <2>1, <3>1
    <3>5. QED
      BY <2>1, <3>1, <3>2, <3>3, <3>4
  <2>5. QED
    BY <2>3, <2>4
<1>10. /\ window' \in Seq(Instr) /\ Len(window') = Len(window) /\ DOMAIN window' = Entries
       /\ Renamed(window', amt)
  <2>1. window' \in [Entries -> Instr]
    BY <1>3, <1>9
  <2>2. QED
    BY <1>1, <1>9, <2>1, MovedRenamed
<1> HIDE DEF Reads, Stays
<1>11. ASSUME NEW k \in Entries
       PROVE  /\ Shaped(window'[k]) /\ Announces(window'[k], ready')
              /\ Delivers(window'[k], written) /\ Listens(window'[k], ready')
              /\ Turn(window'[k], stage', n')
  <2>1. PICK i, j : i = window[k] /\ j = window'[k]
    OBVIOUS
  <2>2. i \in Instr /\ j \in Instr /\ Same(j, i) /\ Shaped(i)
    BY <1>2, <1>9, <2>1
  <2>3. /\ Announces(i, ready) /\ Delivers(i, written) /\ Listens(i, ready)
        /\ Turn(i, stage, n)
    BY <1>1, <1>2, <2>1 DEF Signalled, Flowing
  <2>4. Depth[n] \in Nat \ {0} /\ (i.at \in {"rr", "wb", "ex"} => i.lane \in Lanes)
    BY <1>1, <2>2, Sizes, InLanes
  <2>5. CASE Reads(i, j)
    <3>1. /\ i.at = "rr" /\ j.at = "ex" /\ j.lane = n /\ j.sub = 1 /\ j.wait = i.wait
      BY <2>5 DEF Reads
    <3>2. Shaped(j)
      BY <1>1, <2>2, <2>4, <3>1, Sizes DEF Shaped, InLane, Same
    <3>3. i.op \in AllOps /\ j.op = i.op /\ YetToAnnounce(i)
      BY <2>2, <3>1, InstrFields DEF Same, YetToAnnounce
    <3>4. i.dest # None => (i.dest \in tags <=> i.op \notin {"load", "amo", "SC"} /\ Depth[n] = 1)
      BY <2>5 DEF Reads, AnnouncedEarly, IsAmo
    <3>5. YetToAnnounce(j) <=> i.op \in {"load", "SC"} \/ 1 < Depth[n]
      BY <3>1, <3>3 DEF YetToAnnounce
    <3>6. Announces(j, Set(ready, tags))
      <4>1. i.dest \in tags => ~ YetToAnnounce(j)
        BY <1>5, <3>4, <3>5
      <4>2. i.op # "amo" /\ i.dest # None /\ i.dest \notin tags => YetToAnnounce(j)
        BY <2>4, <3>4, <3>5
      <4>3. QED
        BY <1>1, <2>2, <2>3, <3>3, <4>1, <4>2, SetAnnounces DEF Typed
    <3>7. Delivers(j, written) /\ Listens(j, Set(ready, tags))
      BY <3>1 DEF Delivers, Written, Listens
    <3>8. Turn(j, stage', n')
      BY <1>1, <1>7, <3>1, Sizes DEF Turn
    <3>9. QED
      BY <1>3, <2>1, <3>2, <3>6, <3>7, <3>8
  <2>6. CASE Stays(i, j)
    <3>1. /\ ~ (i.at = "rr" /\ i.lane = n) /\ j.at = i.at /\ j.lane = i.lane /\ j.sub = i.sub
          /\ i.at = "iq" => j.wait = i.wait \ tags
          /\ i.at # "iq" => j.wait = i.wait
          /\ i.dest \notin tags
      BY <2>6 DEF Stays
    <3>2. Shaped(j)
      BY <2>2, <3>1 DEF Shaped, InLane, Same
    <3>3. Announces(j, Set(ready, tags))
      <4>1. YetToAnnounce(j) <=> YetToAnnounce(i)
        BY <2>2, <3>1 DEF YetToAnnounce, Same
      <4>2. QED
        BY <1>1, <2>2, <2>3, <3>1, <4>1, SetAnnounces DEF Typed
    <3>4. Delivers(j, written)
      BY <2>2, <2>3, <3>1 DEF Delivers, Same, Written, WritesInLane
    <3>5. Listens(j, Set(ready, tags))
      BY <1>1, <2>2, <2>3, <3>1, SetListens DEF Typed
    <3>6. Turn(j, stage', n')
      BY <1>1, <1>7, <2>3, <2>4, <3>1, Sizes DEF Turn
    <3>7. QED
      BY <1>3, <2>1, <3>2, <3>3, <3>4, <3>5, <3>6
  <2>7. QED
    BY <1>9, <2>1, <2>5, <2>6
<1>12. Typed'
  <2>1. /\ stage' \in Stages /\ n' \in Nat
        /\ stage' \in {"writeback", "execute", "register_read"} => n' \in Lanes
    BY <1>7, Sizes DEF Stages
  <2>2. QED
    BY <1>1, <1>3, <1>6, <1>10, <1>11, <2>1 DEF Typed, Entries
<1>13. \A j, k \in Entries :
         window'[k].at = "rr" /\ window'[j].dest \in window'[k].srcs =>
           InTime(window'[j], stage', n')
  <2>1. SUFFICES ASSUME NEW j \in Entries, NEW k \in Entries,
                        window'[k].at = "rr", window'[j].dest \in window'[k].srcs
                 PROVE  Written(window'[j])
    BY DEF InTime
  <2>2. window[k].at = "rr" /\ window[j].dest \in window[k].srcs
    <3>1. Same(window'[j], window[j]) /\ Same(window'[k], window[k])
      BY <1>9
    <3>2. Reads(window[k], window'[k]) \/ Stays(window[k], window'[k])
      BY <1>9
    <3>3. window[k].at = "rr"
      BY <2>1, <3>2 DEF Reads, Stays
    <3>4. QED
      BY <2>1, <3>1, <3>3 DEF Same
  <2>3. InTime(window[j], stage, n)
    BY <1>1, <1>2, <2>2 DEF Signalled
  <2>4. Written(window[j])
    BY <1>1, <2>3 DEF InTime
  <2>5. QED
    BY <1>9, <2>4 DEF Written, Reads, Stays
<1>14. \A j, k \in Entries : j # k => Apart(window'[j], window'[k])
  <2>1. SUFFICES ASSUME NEW j \in Entries, NEW k \in Entries, j # k
                 PROVE  Apart(window'[j], window'[k])
    OBVIOUS
  <2>2. PICK i, x, y, z : i = window[j] /\ x = window'[j] /\ y = window[k] /\ z = window'[k]
    OBVIOUS
  <2>3. /\ Apart(i, y) /\ Turn(i, stage, n) /\ Turn(y, stage, n) /\ Shaped(i) /\ Shaped(y)
        /\ Reads(i, x) \/ Stays(i, x)
        /\ Reads(y, z) \/ Stays(y, z)
    BY <1>1, <1>2, <1>9, <2>1, <2>2 DEF Flowing
  <2>4. /\ Reads(i, x) => i.at = "rr" /\ i.lane = n /\ x.at = "ex" /\ x.lane = n /\ x.sub = 1
        /\ Stays(i, x) => x.at = i.at /\ x.lane = i.lane /\ x.sub = i.sub
        /\ Reads(y, z) => y.at = "rr" /\ y.lane = n /\ z.at = "ex" /\ z.lane = n /\ z.sub = 1
        /\ Stays(y, z) => z.at = y.at /\ z.lane = y.lane /\ z.sub = y.sub
    BY DEF Reads, Stays
  <2>5. CASE Stays(i, x) /\ Stays(y, z)
    <3>1. /\ x.at = i.at /\ x.lane = i.lane /\ x.sub = i.sub
          /\ z.at = y.at /\ z.lane = y.lane /\ z.sub = y.sub
      BY <2>4, <2>5
    <3>2. (InLane(x) <=> InLane(i)) /\ (InLane(z) <=> InLane(y))
      BY <3>1 DEF InLane
    <3>3. QED
      BY <2>2, <2>3, <3>1, <3>2, ApartIs
  <2>6. CASE Reads(i, x) /\ Reads(y, z)
    <3>1. i.sub = 0 /\ y.sub = 0
      BY <2>3, <2>4, <2>6, InLanes
    <3>2. QED
      BY <2>3, <2>4, <2>6, <3>1 DEF Apart, InLane
(* Sub-stage 1 of this lane is empty before its turn.                       *)
  <2>7. /\ ~ (i.at = "ex" /\ i.sub = 1 /\ i.lane = n)
        /\ ~ (y.at = "ex" /\ y.sub = 1 /\ y.lane = n)
    BY <1>1, <2>3, Sizes DEF Turn
  <2>8. CASE Reads(i, x) /\ Stays(y, z)
    <3>1. x.at = "ex" /\ x.lane = n /\ x.sub = 1
          /\ z.at = y.at /\ z.lane = y.lane /\ z.sub = y.sub
      BY <2>4, <2>8
    <3>2. QED
      BY <2>2, <2>7, <3>1, ApartIs
  <2>9. CASE Stays(i, x) /\ Reads(y, z)
    <3>1. z.at = "ex" /\ z.lane = n /\ z.sub = 1
          /\ x.at = i.at /\ x.lane = i.lane /\ x.sub = i.sub
      BY <2>4, <2>9
    <3>2. QED
      BY <2>2, <2>7, <3>1, ApartIs
  <2>10. QED
    BY <1>9, <2>2, <2>5, <2>6, <2>8, <2>9
<1>15. Signalled(window', amt', ready', written', stage', n')
  BY <1>3, <1>6, <1>10, <1>11, <1>13 DEF Signalled
<1>16. Flowing(window', stage', n')
  BY <1>10, <1>11, <1>14 DEF Flowing
<1>17. QED
  BY <1>3, <1>10, <1>12, <1>15, <1>16 DEF IInv

----------------------------------------------------------------------------
(* What an instruction that moves in a lane has to be told about it.        *)
LEMMA ExecuteKeeps ==
  ASSUME IInv, Execute
  PROVE  IInv'
<1> DEFINE D == Depth[n]
<1>1. /\ Typed /\ Renamed(window, amt) /\ Flowing(window, stage, n)
      /\ Signalled(window, amt, ready, written, stage, n)
      /\ stage = "execute" /\ n \in Lanes /\ D \in Nat \ {0}
  BY Sizes DEF IInv, Execute, Typed
<1>2. /\ Len(window) \in Nat /\ Entries = 1 .. Len(window) /\ DOMAIN window = Entries
      /\ \A k \in Entries : window[k] \in Instr /\ Shaped(window[k])
  BY <1>1, WindowEntries
<1>3. PICK stalls \in SUBSET {k \in InExecute(D) : window[k].op = "load"} :
        LET done  == InExecute(D) \ stalls
            early == UNION {Dest(window[k]) : k \in Announced}
            loads == UNION {Dest(window[k]) : k \in {j \in done : window[j].op = "load"}}
            late  == UNION {Dest(window[k]) : k \in {j \in done : SetsReadyInExecute(window[j])}}
        IN
        /\ window' = [k \in Entries |-> Hears(MovesOn(k, window[k], stalls), early \cup loads)]
        /\ ready' = Set(ready, early \cup late)
        /\ written' = Set(written,
             UNION {Dest(window[k]) : k \in {j \in done : WritesInLane(window[j])}})
  BY DEF Execute
<1> DEFINE done  == InExecute(D) \ stalls
           early == UNION {Dest(window[k]) : k \in Announced}
           Loads == {j \in done : window[j].op = "load"}
           loads == UNION {Dest(window[k]) : k \in Loads}
           Late  == {j \in done : SetsReadyInExecute(window[j])}
           late  == UNION {Dest(window[k]) : k \in Late}
           Wrote == {j \in done : WritesInLane(window[j])}
           wrote == UNION {Dest(window[k]) : k \in Wrote}
<1>4. /\ window' = [k \in Entries |-> Hears(MovesOn(k, window[k], stalls), early \cup loads)]
      /\ ready' = Set(ready, early \cup late) /\ written' = Set(written, wrote)
      /\ amt' = amt
  BY <1>3 DEF Execute
<1>5. \A k \in Entries :
        /\ k \in InExecute(D) <=> window[k].at = "ex" /\ window[k].lane = n /\ window[k].sub = D
        /\ k \in Announced <=> /\ window[k].at = "ex" /\ window[k].lane = n
                               /\ window[k].sub = D - 1 /\ AnnouncedEarly(window[k])
        /\ k \in In("ex") <=> window[k].at = "ex" /\ window[k].lane = n
  BY DEF InExecute, In, Announced
<1>6. /\ Announced \in SUBSET Entries /\ Loads \in SUBSET Entries
      /\ Late \in SUBSET Entries /\ Wrote \in SUBSET Entries
  BY DEF Announced, InExecute, In
<1>7. /\ \A j \in Entries : window[j].dest # None =>
           /\ window[j].dest \in early <=> j \in Announced
           /\ window[j].dest \in loads <=> j \in Loads
           /\ window[j].dest \in late <=> j \in Late
           /\ window[j].dest \in wrote <=> j \in Wrote
      /\ \A p : p \in late => \E j \in Late : p = window[j].dest /\ p # None
      /\ \A p : p \in loads => \E j \in Loads : p = window[j].dest /\ p # None
  BY <1>1, <1>6, TagsOf
<1>8. None \notin early \cup loads \cup late
  BY DEF Dest
<1>9. /\ stalls \subseteq InExecute(D) /\ \A k \in stalls : window[k].op = "load"
      /\ \A k : k \in done <=> k \in InExecute(D) /\ k \notin stalls
      /\ \A k : k \in Loads <=> k \in done /\ window[k].op = "load"
      /\ \A k : k \in Late <=> k \in done /\ window[k].op \in {"load", "SC"}
      /\ \A k : k \in Wrote <=> k \in done /\ window[k].op \notin {"amo", "csr"}
  BY <1>3 DEF SetsReadyInExecute, WritesInLane
<1>10. \/ n' = n + 1 /\ stage' = "execute" /\ n' \in Lanes
       \/ n' = 1 /\ stage' = "register_read" /\ \A m \in Lanes : m <= n
  BY <1>1, NextLaneIs DEF Execute
<1>11. /\ ready' \in [Phys -> BOOLEAN] /\ written' \in [Phys -> BOOLEAN]
       /\ Usable(amt, ready', written')
  <2>1. /\ amt \in [Log -> Phys] /\ ready \in [Phys -> BOOLEAN]
        /\ written \in [Phys -> BOOLEAN] /\ Usable(amt, ready, written)
    BY <1>1 DEF Typed, Signalled
  <2>2. Set(ready, early \cup late) \in [Phys -> BOOLEAN] /\ Set(written, wrote) \in [Phys -> BOOLEAN]
    BY <2>1, SetBits
  <2>3. Usable(amt, Set(ready, early \cup late), Set(written, wrote))
    BY <2>1, SetUsable
  <2>4. QED
    BY <1>4, <2>2, <2>3
<1> DEFINE tags == early \cup loads
           regs == early \cup late
<1>12. window' = [k \in Entries |-> Hears(MovesOn(k, window[k], stalls), tags)]
       /\ ready' = Set(ready, regs)
  BY <1>4
(* What is signalled of the instruction at k.                               *)
<1>13. ASSUME NEW k \in Entries, window[k].dest # None
       PROVE  /\ window[k].dest \in tags <=> k \in Announced \/ k \in Loads
              /\ window[k].dest \in regs <=> k \in Announced \/ k \in Late
              /\ window[k].dest \in wrote <=> k \in Wrote
  BY <1>7, <1>13
<1>14. None \notin tags \cup regs
  BY <1>8
<1>15. ASSUME NEW k \in Entries, NEW p \in window[k].srcs
       PROVE  p \in regs <=> p \in tags
  <2>1. p \in loads => p \in late
    BY <1>7, <1>9
  <2>2. ASSUME p \in late PROVE p \in loads
    <3>1. PICK j \in Late : p = window[j].dest /\ p # None
      BY <1>7, <2>2
    <3>2. j \in Entries
      BY <1>6, <3>1
    <3>3. ~ Serial(window[j])
      BY <1>1, <1>2, <3>1, <3>2, SourceOlder DEF Typed
    <3>4. j \in Loads
      BY <1>9, <3>1, <3>3 DEF Serial
    <3>5. QED
      BY <1>7, <3>1, <3>2, <3>4
  <2>3. QED
    BY <2>1, <2>2
<1> HIDE DEF D, done, early, Loads, loads, Late, late, Wrote, wrote, tags, regs
(* A load that has to wait; an instruction that leaves the lane; one that   *)
(* moves on in it; and the others.                                          *)
<1> DEFINE Stalls(k, i, j)   == k \in stalls /\ i.sub = D /\ j.at = "lsu" /\ j.lane = 0 /\ j.sub = 0
           Leaves(k, i, j)   == k \in done /\ i.sub = D /\ j.at = "wb" /\ j.lane = n /\ j.sub = 0
           Advances(k, i, j) == i.sub # D /\ j.at = "ex" /\ j.lane = n /\ j.sub = i.sub + 1
           Stays(i, j)       == /\ ~ (i.at = "ex" /\ i.lane = n)
                                /\ j.at = i.at /\ j.lane = i.lane /\ j.sub = i.sub
                                /\ i.at = "iq" => j.wait = i.wait \ tags
                                /\ i.at # "iq" => j.wait = i.wait
           Moves(k, i, j)    == /\ i.at = "ex" /\ i.lane = n /\ j.wait = i.wait
                                /\ Stalls(k, i, j) \/ Leaves(k, i, j) \/ Advances(k, i, j)
<1>16. ASSUME NEW k \in Entries
       PROVE  /\ window'[k] \in Instr /\ Same(window'[k], window[k])
              /\ Moves(k, window[k], window'[k]) \/ Stays(window[k], window'[k])
  <2>1. PICK i : i = window[k]
    OBVIOUS
  <2>2. i \in Instr /\ "lsu" \in Places /\ "wb" \in Places /\ i.at \in Places /\ i.sub \in Nat
        /\ i.lane \in Lanes \cup {0}
    BY <1>2, <2>1, InstrFields DEF Places
  <2>3. PICK m : m = MovesOn(k, i, stalls)
    OBVIOUS
  <2>4. window'[k] = Hears(m, tags)
    BY <1>12, <2>1, <2>3
  <2>5. CASE k \in stalls
    <3>1. i.at = "ex" /\ i.lane = n /\ i.sub = D
      BY <1>5, <1>9, <2>1, <2>5
    <3>2. m = [i EXCEPT !.at = "lsu", !.lane = 0, !.sub = 0]
      BY <1>9, <2>3, <2>5 DEF MovesOn, D
    <3>3. m \in Instr /\ Same(m, i) /\ m.wait = i.wait /\ m.at = "lsu" /\ m.lane = 0 /\ m.sub = 0
      BY <2>2, <3>2 DEF Instr, Same
    <3>4. Hears(m, tags) = m
      BY <3>3 DEF Hears
    <3>5. QED
      BY <2>1, <2>4, <2>5, <3>1, <3>3, <3>4
  <2>6. CASE k \in done
    <3>1. i.at = "ex" /\ i.lane = n /\ i.sub = D
      BY <1>5, <1>9, <2>1, <2>6
    <3>2. m = [i EXCEPT !.at = "wb", !.sub = 0]
      BY <2>3, <2>6, <1>9 DEF MovesOn, done, D
    <3>3. m \in Instr /\ Same(m, i) /\ m.wait = i.wait /\ m.at = "wb" /\ m.lane = i.lane /\ m.sub = 0
      BY <2>2, <3>2 DEF Instr, Same
    <3>4. Hears(m, tags) = m
      BY <3>3 DEF Hears
    <3>5. QED
      BY <2>1, <2>4, <2>6, <3>1, <3>3, <3>4
  <2>7. CASE k \in In("ex") /\ k \notin InExecute(D)
    <3>1. i.at = "ex" /\ i.lane = n /\ i.sub # D
      BY <1>5, <2>1, <2>7
    <3>2. m = [i EXCEPT !.sub = @ + 1]
      BY <1>9, <2>3, <2>7 DEF MovesOn, D
    <3>3. m \in Instr /\ Same(m, i) /\ m.wait = i.wait /\ m.at = i.at /\ m.lane = i.lane
          /\ m.sub = i.sub + 1
      BY <2>2, <3>2 DEF Instr, Same
    <3>4. Hears(m, tags) = m
      BY <3>1, <3>3 DEF Hears
    <3>5. QED
      BY <2>1, <2>4, <3>1, <3>3, <3>4
  <2>8. CASE k \notin In("ex")
    <3>1. ~ (i.at = "ex" /\ i.lane = n) /\ k \notin InExecute(D) /\ k \notin stalls
      BY <1>5, <1>9, <2>1, <2>8
    <3>2. m = i
      BY <2>3, <2>8, <3>1 DEF MovesOn, D
    <3>3. PICK j : j = Hears(i, tags)
      OBVIOUS
    <3>4. /\ j \in Instr /\ Same(j, i) /\ j.at = i.at /\ j.lane = i.lane /\ j.sub = i.sub
          /\ j.wait = IF i.at = "iq" THEN i.wait \ tags ELSE i.wait
      BY <2>2, <3>3, HearsFields
    <3>5. QED
      BY <2>1, <2>4, <3>1, <3>2, <3>3, <3>4
  <2>9. QED
    BY <1>9, <2>5, <2>6, <2>7, <2>8
<1> HIDE DEF Stalls, Leaves, Advances, Stays, Moves
<1>17. /\ window' \in Seq(Instr) /\ Len(window') = Len(window) /\ DOMAIN window' = Entries
       /\ Renamed(window', amt)
  <2>1. window' \in [Entries -> Instr]
    BY <1>12, <1>16
  <2>2. QED
    BY <1>1, <1>16, <2>1, MovedRenamed
<1>18. ASSUME NEW k \in Entries
       PROVE  /\ Shaped(window'[k]) /\ Announces(window'[k], ready')
              /\ Delivers(window'[k], written') /\ Listens(window'[k], ready')
              /\ Turn(window'[k], stage', n')
  <2>1. PICK i, j : i = window[k] /\ j = window'[k]
    OBVIOUS
  <2>2. i \in Instr /\ j \in Instr /\ Same(j, i) /\ Shaped(i)
    BY <1>2, <1>16, <2>1
  <2>3. /\ Announces(i, ready) /\ Delivers(i, written) /\ Listens(i, ready)
        /\ Turn(i, stage, n)
    BY <1>1, <1>2, <2>1 DEF Signalled, Flowing
  <2>4. /\ i.at \in {"rr", "wb", "ex"} => i.lane \in Lanes
        /\ j.op = i.op /\ j.dest = i.dest /\ j.srcs = i.srcs /\ i.op \in AllOps
        /\ i.wait \subseteq i.srcs
    BY <2>2, InLanes, InstrFields DEF Same, Shaped
  <2>5. i.dest # None => /\ i.dest \in tags <=> k \in Announced \/ k \in Loads
                         /\ i.dest \in regs <=> k \in Announced \/ k \in Late
                         /\ i.dest \in wrote <=> k \in Wrote
    BY <1>13, <2>1
  <2>6. ASSUME /\ i.dest \in regs => ~ YetToAnnounce(j)
               /\ i.op # "amo" /\ i.dest # None /\ i.dest \notin regs =>
                    (YetToAnnounce(j) <=> YetToAnnounce(i))
        PROVE  Announces(j, ready')
    BY <1>1, <1>12, <2>2, <2>3, <2>6, SetAnnounces DEF Typed
  <2>7. CASE Moves(k, i, j)
    <3>1. /\ i.at = "ex" /\ i.lane = n /\ j.wait = i.wait
          /\ Stalls(k, i, j) \/ Leaves(k, i, j) \/ Advances(k, i, j)
      BY <2>7 DEF Moves
    <3>2. /\ k \in Announced <=> i.sub = D - 1 /\ i.op \notin {"load", "amo", "SC"}
          /\ k \in stalls => i.op = "load" /\ k \notin done
          /\ k \in Loads <=> k \in done /\ i.op = "load"
          /\ k \in Late <=> k \in done /\ i.op \in {"load", "SC"}
          /\ k \in Wrote <=> k \in done /\ i.op \notin {"amo", "csr"}
          /\ k \in done => i.sub = D
      BY <1>5, <1>9, <2>1, <3>1 DEF AnnouncedEarly, IsAmo
    <3>3. i.sub \in 1 .. D /\ D \in Nat \ {0}
      BY <1>1, <2>2, <3>1, InLanes DEF D
    <3>4. CASE Stalls(k, i, j)
      <4>1. k \in stalls /\ i.sub = D /\ j.at = "lsu" /\ j.lane = 0 /\ j.sub = 0
        BY <3>4 DEF Stalls
      <4>2. Shaped(j)
        BY <2>2, <2>4, <3>1, <3>2, <4>1 DEF Shaped, InLane
      <4>3. Announces(j, ready')
        <5>1. YetToAnnounce(i) /\ YetToAnnounce(j)
          BY <3>1, <3>2, <4>1 DEF YetToAnnounce
        <5>2. i.dest \notin regs
          BY <1>14, <2>5, <3>2, <3>3, <4>1
        <5>3. QED
          BY <2>6, <5>1, <5>2
      <4>4. Delivers(j, written') /\ Listens(j, ready') /\ Turn(j, stage', n')
        BY <4>1 DEF Delivers, Written, Listens, Turn
      <4>5. QED
        BY <2>1, <4>2, <4>3, <4>4
    <3>5. CASE Leaves(k, i, j)
      <4>1. k \in done /\ i.sub = D /\ j.at = "wb" /\ j.lane = n /\ j.sub = 0
        BY <3>5 DEF Leaves
      <4>2. Shaped(j)
        BY <1>1, <2>2, <2>4, <3>1, <4>1, Sizes DEF Shaped, InLane
      <4>3. Announces(j, ready')
        <5>1. ~ YetToAnnounce(j)
          BY <4>1 DEF YetToAnnounce
        <5>2. i.dest # None /\ i.dest \notin regs => ~ YetToAnnounce(i)
          <6>1. i.dest # None /\ i.dest \notin regs => i.op \notin {"load", "SC"}
            BY <2>5, <3>2, <4>1
          <6>2. i.at = "ex" /\ i.sub = Depth[i.lane] /\ ~ (i.sub < Depth[i.lane])
            BY <3>1, <3>3, <4>1 DEF D
          <6>3. QED
            BY <6>1, <6>2 DEF YetToAnnounce
        <5>3. QED
          BY <2>6, <5>1, <5>2
      <4>4. Delivers(j, written')
        <5>1. i.dest # None /\ WritesInLane(i) => i.dest \in wrote
          BY <2>5, <3>2, <4>1 DEF WritesInLane
        <5>2. QED
          BY <1>1, <1>4, <2>2, <2>3, <5>1, SetDelivers DEF Typed
      <4>5. Listens(j, ready') /\ Turn(j, stage', n')
        BY <1>1, <1>10, <4>1, Sizes DEF Listens, Turn
      <4>6. QED
        BY <2>1, <4>2, <4>3, <4>4, <4>5
    <3>6. CASE Advances(k, i, j)
      <4>1. i.sub # D /\ j.at = "ex" /\ j.lane = n /\ j.sub = i.sub + 1
        BY <3>6 DEF Advances
      <4>2. j.sub \in 2 .. D
        BY <3>3, <4>1
      <4>3. Shaped(j)
        BY <1>1, <2>2, <2>4, <3>1, <3>3, <4>1, <4>2, Sizes DEF Shaped, InLane, D
      <4>4. Announces(j, ready')
        <5>1. YetToAnnounce(i)
          BY <3>1, <3>3, <4>1 DEF YetToAnnounce, D
        <5>2. YetToAnnounce(j) <=> i.op \in {"load", "SC"} \/ j.sub < D
          BY <2>4, <4>1 DEF YetToAnnounce, D
        <5>3. i.dest \in regs => i.sub = D - 1 /\ i.op \notin {"load", "amo", "SC"}
          BY <1>14, <2>5, <3>2, <4>1
        <5>4. i.op # "amo" /\ i.dest # None /\ i.dest \notin regs =>
                i.op \in {"load", "SC"} \/ i.sub # D - 1
          BY <2>5, <3>2
        <5>5. i.dest \in regs => ~ YetToAnnounce(j)
          BY <3>3, <4>1, <5>2, <5>3
        <5>6. i.op # "amo" /\ i.dest # None /\ i.dest \notin regs => YetToAnnounce(j)
          BY <3>3, <4>1, <4>2, <5>2, <5>4
        <5>7. QED
          BY <2>6, <5>1, <5>5, <5>6
      <4>5. Delivers(j, written') /\ Listens(j, ready')
        BY <4>1 DEF Delivers, Written, Listens
      <4>6. Turn(j, stage', n')
        BY <4>1, <4>2 DEF Turn
      <4>7. QED
        BY <2>1, <4>3, <4>4, <4>5, <4>6
    <3>7. QED
      BY <3>1, <3>4, <3>5, <3>6
  <2>8. CASE Stays(i, j)
    <3>1. /\ ~ (i.at = "ex" /\ i.lane = n) /\ j.at = i.at /\ j.lane = i.lane /\ j.sub = i.sub
          /\ i.at = "iq" => j.wait = i.wait \ tags
          /\ i.at # "iq" => j.wait = i.wait
      BY <2>8 DEF Stays
    <3>2. k \notin Announced /\ k \notin Loads /\ k \notin Late
      BY <1>5, <1>9, <2>1, <3>1
    <3>3. i.dest \notin tags /\ i.dest \notin regs
      BY <1>14, <2>5, <3>2
    <3>4. Shaped(j)
      BY <2>2, <2>4, <3>1 DEF Shaped, InLane
    <3>5. Announces(j, ready')
      <4>1. YetToAnnounce(j) <=> YetToAnnounce(i)
        BY <2>4, <3>1 DEF YetToAnnounce
      <4>2. QED
        BY <2>6, <3>3, <4>1
    <3>6. Delivers(j, written')
      <4>1. Written(j) => Written(i)
        BY <3>1 DEF Written
      <4>2. QED
        BY <1>1, <1>4, <2>2, <2>3, <4>1, SetDelivers DEF Typed
    <3>7. Listens(j, ready')
      <4>1. \A p \in i.srcs : p \in regs <=> p \in tags
        BY <1>15, <2>1
      <4>2. QED
        BY <1>1, <1>12, <2>2, <2>3, <3>1, <4>1, SetListens DEF Typed
    <3>8. Turn(j, stage', n')
      BY <1>1, <1>10, <2>3, <2>4, <3>1, Sizes DEF Turn
    <3>9. QED
      BY <2>1, <3>4, <3>5, <3>6, <3>7, <3>8
  <2>9. QED
    BY <1>16, <2>1, <2>7, <2>8
<1>19. Typed'
  <2>1. /\ stage' \in Stages /\ n' \in Nat
        /\ stage' \in {"writeback", "execute", "register_read"} => n' \in Lanes
    BY <1>10, Sizes DEF Stages
  <2>2. QED
    BY <1>1, <1>4, <1>11, <1>17, <1>18, <2>1 DEF Typed, Entries
<1>20. \A j, k \in Entries :
         window'[k].at = "rr" /\ window'[j].dest \in window'[k].srcs =>
           InTime(window'[j], stage', n')
  <2>1. SUFFICES ASSUME NEW j \in Entries, NEW k \in Entries,
                        window'[k].at = "rr", window'[j].dest \in window'[k].srcs
                 PROVE  InTime(window'[j], stage', n')
    OBVIOUS
  <2>2. window[k].at = "rr" /\ window[j].dest \in window[k].srcs
    <3>1. Same(window'[j], window[j]) /\ Same(window'[k], window[k])
      BY <1>16
    <3>2. Moves(k, window[k], window'[k]) \/ Stays(window[k], window'[k])
      BY <1>16
    <3>3. window[k].at = "rr"
      BY <2>1, <3>2 DEF Moves, Stalls, Leaves, Advances, Stays
    <3>4. QED
      BY <2>1, <3>1, <3>3 DEF Same
  <2>3. PICK i, x : i = window[j] /\ x = window'[j]
    OBVIOUS
  <2>4. InTime(i, stage, n) /\ Same(x, i) /\ Shaped(i)
    BY <1>1, <1>2, <1>16, <2>2, <2>3 DEF Signalled
  <2>5. i.at = "ex" => i.lane \in Lanes
    BY <2>4, InLanes
  <2>6. CASE Stays(i, x)
    <3>1. x.at = i.at /\ x.lane = i.lane /\ x.sub = i.sub /\ x.op = i.op
          /\ ~ (i.at = "ex" /\ i.lane = n)
      BY <2>4, <2>6 DEF Stays, Same
    <3>2. CASE Written(i)
      BY <2>3, <3>1, <3>2 DEF InTime, Written
    <3>3. CASE ~ Written(i)
      <4>1. i.at = "ex" /\ i.sub = Depth[i.lane] /\ i.op # "load" /\ n <= i.lane
        BY <1>1, <2>4, <3>3 DEF InTime
      <4>2. stage' = "execute" /\ n' <= i.lane
        BY <1>1, <1>10, <2>5, <3>1, <4>1, Sizes
      <4>3. QED
        BY <2>3, <3>1, <4>1, <4>2 DEF InTime
    <3>4. QED
      BY <3>2, <3>3
  <2>7. CASE Moves(j, i, x)
    <3>1. i.at = "ex" /\ i.lane = n /\ (Stalls(j, i, x) \/ Leaves(j, i, x) \/ Advances(j, i, x))
      BY <2>7 DEF Moves
    <3>2. i.sub = D /\ i.op # "load"
      BY <2>4, <3>1 DEF InTime, Written, D
    <3>3. ~ Stalls(j, i, x) /\ ~ Advances(j, i, x)
      BY <1>9, <2>3, <3>2 DEF Stalls, Advances
    <3>4. x.at = "wb"
      BY <3>1, <3>3 DEF Leaves
    <3>5. QED
      BY <2>3, <3>4 DEF InTime, Written
  <2>8. QED
    BY <1>16, <2>3, <2>6, <2>7
<1>21. \A j, k \in Entries : j # k => Apart(window'[j], window'[k])
  <2>1. SUFFICES ASSUME NEW j \in Entries, NEW k \in Entries, j # k
                 PROVE  Apart(window'[j], window'[k])
    OBVIOUS
  <2>2. PICK i, x, y, z : i = window[j] /\ x = window'[j] /\ y = window[k] /\ z = window'[k]
    OBVIOUS
  <2>3. /\ Apart(i, y) /\ Turn(i, stage, n) /\ Turn(y, stage, n) /\ Shaped(i) /\ Shaped(y)
        /\ i.sub \in Nat /\ y.sub \in Nat
    BY <1>1, <1>2, <2>1, <2>2, InstrFields DEF Flowing
  <2>4. SUFFICES Apart(x, z)
    BY <2>2
  <2>5. /\ Moves(j, i, x) => i.at = "ex" /\ i.lane = n
        /\ Moves(j, i, x) => \/ x.lane = 0 /\ x.at = "lsu"
                             \/ i.sub = D /\ x.at = "wb" /\ x.lane = n
                             \/ i.sub # D /\ x.at = "ex" /\ x.lane = n /\ x.sub = i.sub + 1
        /\ Stays(i, x) => /\ ~ (i.at = "ex" /\ i.lane = n)
                          /\ x.at = i.at /\ x.lane = i.lane /\ x.sub = i.sub
    BY DEF Moves, Stalls, Leaves, Advances, Stays
  <2>6. /\ Moves(k, y, z) => y.at = "ex" /\ y.lane = n
        /\ Moves(k, y, z) => \/ z.lane = 0 /\ z.at = "lsu"
                             \/ y.sub = D /\ z.at = "wb" /\ z.lane = n
                             \/ y.sub # D /\ z.at = "ex" /\ z.lane = n /\ z.sub = y.sub + 1
        /\ Stays(y, z) => /\ ~ (y.at = "ex" /\ y.lane = n)
                          /\ z.at = y.at /\ z.lane = y.lane /\ z.sub = y.sub
    BY DEF Moves, Stalls, Leaves, Advances, Stays
(* Writeback of this lane is empty before its turn.                         *)
  <2>7. ~ (i.at = "wb" /\ i.lane = n) /\ ~ (y.at = "wb" /\ y.lane = n)
    BY <1>1, <2>3, Sizes DEF Turn
  <2>8. CASE Stays(i, x) /\ Stays(y, z)
    <3>1. /\ x.at = i.at /\ x.lane = i.lane /\ x.sub = i.sub
          /\ z.at = y.at /\ z.lane = y.lane /\ z.sub = y.sub
      BY <2>5, <2>6, <2>8
    <3>2. (InLane(x) <=> InLane(i)) /\ (InLane(z) <=> InLane(y))
      BY <3>1 DEF InLane
    <3>3. QED
      BY <2>3, <3>1, <3>2, ApartIs
  <2>9. CASE Moves(j, i, x) /\ Moves(k, y, z)
    <3>1. i.at = "ex" /\ i.lane = n /\ y.at = "ex" /\ y.lane = n /\ InLane(i) /\ InLane(y)
      BY <2>5, <2>6, <2>9 DEF InLane
    <3>2. i.sub # y.sub
      BY <2>3, <3>1, ApartIs
    <3>3. CASE x.at = "lsu" \/ z.at = "lsu"
      <4>1. ~ InLane(x) \/ ~ InLane(z)
        BY <3>3 DEF InLane
      <4>2. QED
        BY <4>1, ApartIs
    <3>4. CASE x.at # z.at
      BY <3>4, ApartIs
    <3>5. CASE x.at = "ex" /\ z.at = "ex"
      <4>1. x.sub = i.sub + 1 /\ z.sub = y.sub + 1
        BY <2>5, <2>6, <2>9, <3>5
      <4>2. QED
        BY <2>3, <3>2, <4>1, ApartIs
    <3>6. QED
      BY <2>5, <2>6, <2>9, <3>2, <3>3, <3>4, <3>5
  <2>10. ASSUME NEW u, NEW v, ~ InLane(u) \/ (u.lane = n /\ u.at \in {"wb", "ex"}),
                ~ (v.at \in {"wb", "ex"} /\ v.lane = n)
         PROVE  Apart(u, v) /\ Apart(v, u)
    BY <2>10, ApartIs
  <2>11. CASE Moves(j, i, x) /\ Stays(y, z)
    <3>1. ~ InLane(x) \/ (x.lane = n /\ x.at \in {"wb", "ex"})
      BY <2>5, <2>11 DEF InLane
    <3>2. ~ (z.at \in {"wb", "ex"} /\ z.lane = n)
      BY <2>6, <2>7, <2>11
    <3>3. QED
      BY <2>10, <3>1, <3>2
  <2>12. CASE Stays(i, x) /\ Moves(k, y, z)
    <3>1. ~ InLane(z) \/ (z.lane = n /\ z.at \in {"wb", "ex"})
      BY <2>6, <2>12 DEF InLane
    <3>2. ~ (x.at \in {"wb", "ex"} /\ x.lane = n)
      BY <2>5, <2>7, <2>12
    <3>3. QED
      BY <2>10, <3>1, <3>2
  <2>13. QED
    BY <1>16, <2>2, <2>8, <2>9, <2>11, <2>12
<1>22. Signalled(window', amt', ready', written', stage', n')
  BY <1>4, <1>11, <1>17, <1>18, <1>20 DEF Signalled
<1>23. Flowing(window', stage', n')
  BY <1>17, <1>18, <1>21 DEF Flowing
<1>24. QED
  BY <1>4, <1>17, <1>19, <1>22, <1>23 DEF IInv

LEMMA ScheduleKeeps ==
  ASSUME IInv, Schedule
  PROVE  IInv'
<1>1. /\ Typed /\ Renamed(window, amt) /\ Flowing(window, stage, n)
      /\ Signalled(window, amt, ready, written, stage, n)
      /\ stage = "schedule" /\ stage' = "dispatch" /\ n' = 1
      /\ amt' = amt /\ ready' = ready /\ written' = written
  BY DEF IInv, Schedule, To
<1>2. /\ Len(window) \in Nat /\ Entries = 1 .. Len(window) /\ DOMAIN window = Entries
      /\ \A k \in Entries : window[k] \in Instr /\ Shaped(window[k])
  BY <1>1, WindowEntries
<1>3. PICK f \in Issues :
        window' = [k \in Entries |->
          IF f[k] = 0 THEN window[k] ELSE [window[k] EXCEPT !.at = "rr", !.lane = f[k]]]
  BY DEF Schedule
<1>4. /\ f \in [Entries -> Lanes \cup {0}]
      /\ \A k \in Entries : f[k] # 0 => window[k].at = "iq" /\ window[k].wait = {}
      /\ \A j, k \in Entries : j # k /\ f[j] # 0 => f[j] # f[k]
  BY DEF Issues, CouldTake, Exclusive
<1> DEFINE Issued(k, i, j) == /\ i.at = "iq" /\ i.wait = {} /\ f[k] \in Lanes
                              /\ j.at = "rr" /\ j.lane = f[k] /\ j.sub = i.sub /\ j.wait = i.wait
<1>5. ASSUME NEW k \in Entries
      PROVE  /\ window'[k] \in Instr /\ Same(window'[k], window[k])
             /\ \/ f[k] = 0 /\ window'[k] = window[k] /\ window[k].at # "rr"
                \/ f[k] # 0 /\ Issued(k, window[k], window'[k])
  <2>1. PICK i : i = window[k]
    OBVIOUS
  <2>2. i \in Instr /\ f[k] \in Lanes \cup {0} /\ "rr" \in Places
    BY <1>2, <1>4, <2>1 DEF Places
  <2>3. CASE f[k] = 0
    <3>1. window'[k] = i
      BY <1>3, <2>1, <2>3
    <3>2. Turn(i, stage, n)
      BY <1>1, <1>2, <2>1 DEF Flowing
    <3>3. i.at # "rr"
      BY <1>1, <3>2 DEF Turn
    <3>4. QED
      BY <2>1, <2>2, <2>3, <3>1, <3>3 DEF Same
  <2>4. CASE f[k] # 0
    <3>1. PICK j : j = [i EXCEPT !.at = "rr", !.lane = f[k]]
      OBVIOUS
    <3>2. window'[k] = j
      BY <1>3, <2>1, <2>4, <3>1
    <3>3. /\ j \in Instr /\ Same(j, i) /\ j.at = "rr" /\ j.lane = f[k]
          /\ j.sub = i.sub /\ j.wait = i.wait
      BY <2>2, <3>1 DEF Instr, Same
    <3>4. i.at = "iq" /\ i.wait = {} /\ f[k] \in Lanes
      BY <1>4, <2>1, <2>2, <2>4
    <3>5. QED
      BY <2>1, <2>4, <3>2, <3>3, <3>4
  <2>5. QED
    BY <2>3, <2>4
<1> HIDE DEF Issued
<1>6. /\ window' \in Seq(Instr) /\ Len(window') = Len(window) /\ DOMAIN window' = Entries
      /\ Renamed(window', amt)
  <2>1. window' \in [Entries -> Instr]
    BY <1>3, <1>5
  <2>2. QED
    BY <1>1, <1>5, <2>1, MovedRenamed
<1>7. ASSUME NEW k \in Entries
      PROVE  /\ Shaped(window'[k]) /\ Announces(window'[k], ready)
             /\ Delivers(window'[k], written) /\ Listens(window'[k], ready)
             /\ Turn(window'[k], "dispatch", 1)
  <2>1. PICK i, j : i = window[k] /\ j = window'[k]
    OBVIOUS
  <2>2. i \in Instr /\ j \in Instr /\ Same(j, i) /\ Shaped(i)
    BY <1>2, <1>5, <2>1
  <2>3. Announces(i, ready) /\ Delivers(i, written) /\ Listens(i, ready)
    BY <1>1, <1>2, <2>1 DEF Signalled
  <2>4. Turn(j, "dispatch", 1)
    BY DEF Turn
  <2>5. CASE j = i
    BY <2>1, <2>2, <2>3, <2>4, <2>5
  <2>6. CASE Issued(k, i, j)
    <3>1. /\ i.at = "iq" /\ j.at = "rr" /\ j.lane = f[k] /\ f[k] \in Lanes /\ j.sub = i.sub
          /\ j.wait = i.wait
      BY <2>6 DEF Issued
    <3>2. Shaped(j)
      BY <2>2, <3>1, Sizes DEF Shaped, InLane, Same
    <3>3. Announces(j, ready)
      BY <2>2, <2>3, <3>1 DEF Announces, YetToAnnounce, Same
    <3>4. Delivers(j, written) /\ Listens(j, ready)
      BY <3>1 DEF Delivers, Written, Listens
    <3>5. QED
      BY <2>1, <2>4, <3>2, <3>3, <3>4
  <2>7. QED
    BY <1>5, <2>1, <2>5, <2>6
<1>8. Typed'
  BY <1>1, <1>6, <1>7 DEF Typed, Entries, Stages
(* What issues now waits for nothing: its sources have been announced.      *)
<1>9. \A j, k \in Entries :
        window'[k].at = "rr" /\ window'[j].dest \in window'[k].srcs =>
          InTime(window'[j], "dispatch", 1)
  <2>1. SUFFICES ASSUME NEW j \in Entries, NEW k \in Entries,
                        window'[k].at = "rr", window'[j].dest \in window'[k].srcs
                 PROVE  InTime(window'[j], "dispatch", 1)
    OBVIOUS
  <2>2. PICK i, y : i = window[j] /\ y = window[k]
    OBVIOUS
  <2>3. Same(window'[j], i) /\ Same(window'[k], y) /\ Shaped(i) /\ Announces(i, ready)
        /\ Listens(y, ready) /\ y \in Instr /\ i \in Instr
    BY <1>1, <1>2, <1>5, <2>2 DEF Signalled
  <2>4. y.at = "iq" /\ y.wait = {}
    <3>1. Issued(k, y, window'[k])
      BY <1>5, <2>1, <2>2
    <3>2. QED
      BY <3>1 DEF Issued
  <2>5. i.dest \in y.srcs
    BY <2>1, <2>3 DEF Same
  <2>6. i.dest \in Phys /\ i.dest # None
    BY <2>3, <2>5, InstrFields, LanesAssumption
  <2>7. ready[i.dest]
    BY <2>3, <2>4, <2>5 DEF Listens
  <2>8. ~ Serial(i)
    BY <1>1, <1>2, <2>2, <2>5, SourceOlder DEF Typed
  <2>9. ~ YetToAnnounce(i)
    BY <2>3, <2>6, <2>7, <2>8 DEF Announces, Serial
  <2>10. i.at \in {"wb", "done", "ex"}
    BY <2>3, <2>9, InstrFields DEF YetToAnnounce, Places
  <2>11. window'[j] = i
    <3>1. ~ Issued(j, i, window'[j])
      BY <2>10 DEF Issued
    <3>2. QED
      BY <1>5, <2>2, <3>1
  <2>12. CASE i.at \in {"wb", "done"}
    BY <2>11, <2>12 DEF InTime, Written
  <2>13. CASE i.at = "ex"
    <3>1. i.op # "load" /\ ~ (i.sub < Depth[i.lane])
      BY <2>9, <2>13 DEF YetToAnnounce
    <3>2. i.sub \in 1 .. Depth[i.lane] /\ i.lane \in Lanes
      BY <2>3, <2>13, InLanes
    <3>3. i.sub = Depth[i.lane]
      BY <3>1, <3>2, Sizes
    <3>4. QED
      BY <2>11, <2>13, <3>1, <3>3 DEF InTime
  <2>14. QED
    BY <2>10, <2>12, <2>13
<1>10. \A j, k \in Entries : j # k => Apart(window'[j], window'[k])
  <2>1. SUFFICES ASSUME NEW j \in Entries, NEW k \in Entries, j # k
                 PROVE  Apart(window'[j], window'[k])
    OBVIOUS
  <2>2. PICK i, x, y, z : i = window[j] /\ x = window'[j] /\ y = window[k] /\ z = window'[k]
    OBVIOUS
  <2>3. Apart(i, y)
    BY <1>1, <1>2, <2>1, <2>2 DEF Flowing
  <2>4. SUFFICES Apart(x, z)
    BY <2>2
  <2>5. /\ f[j] = 0 => x = i /\ i.at # "rr"
        /\ f[j] # 0 => x.at = "rr" /\ x.lane = f[j]
        /\ f[k] = 0 => z = y /\ y.at # "rr"
        /\ f[k] # 0 => z.at = "rr" /\ z.lane = f[k]
    BY <1>5, <2>2 DEF Issued
  <2>6. CASE f[j] = 0 /\ f[k] = 0
    BY <2>3, <2>5, <2>6
  <2>7. CASE f[j] # 0 /\ f[k] # 0
    <3>1. x.lane # z.lane
      BY <1>4, <2>1, <2>5, <2>7
    <3>2. QED
      BY <3>1, ApartIs
  <2>8. CASE (f[j] = 0 /\ f[k] # 0) \/ (f[j] # 0 /\ f[k] = 0)
    <3>1. x.at # z.at
      BY <2>5, <2>8
    <3>2. QED
      BY <3>1, ApartIs
  <2>9. QED
    BY <2>6, <2>7, <2>8
<1>11. Signalled(window', amt', ready', written', stage', n')
  BY <1>1, <1>6, <1>7, <1>9 DEF Signalled
<1>12. Flowing(window', stage', n')
  BY <1>1, <1>6, <1>7, <1>10 DEF Flowing
<1>13. QED
  BY <1>1, <1>6, <1>8, <1>11, <1>12 DEF IInv

(* Clearing the bit of the register that is given away.                     *)
Without(bits, d) == [p \in Phys |-> bits[p] /\ p # d]

LEMMA ClearedBits ==
  ASSUME NEW bits \in [Phys -> BOOLEAN], NEW d
  PROVE  /\ Without(bits, d) \in [Phys -> BOOLEAN]
         /\ \A p \in Phys : p # d => (Without(bits, d)[p] <=> bits[p])
         /\ d \in Phys => ~ Without(bits, d)[d]
BY DEF Without

LEMMA ClearedElsewhere ==
  ASSUME NEW i \in Instr, NEW rd \in [Phys -> BOOLEAN], NEW wr \in [Phys -> BOOLEAN], NEW d,
         i.dest # None => i.dest # d, d \notin i.srcs,
         Announces(i, rd), Delivers(i, wr), Listens(i, rd)
  PROVE  /\ Announces(i, Without(rd, d)) /\ Delivers(i, Without(wr, d))
         /\ Listens(i, Without(rd, d))
<1>1. i.dest \in Phys \cup {None} /\ i.srcs \subseteq Phys
  BY InstrFields
<1>2. i.dest # None => /\ Without(rd, d)[i.dest] <=> rd[i.dest]
                       /\ Without(wr, d)[i.dest] <=> wr[i.dest]
  BY <1>1, ClearedBits
<1>3. Announces(i, Without(rd, d)) /\ Delivers(i, Without(wr, d))
  BY <1>2 DEF Announces, Delivers
<1>4. \A p \in i.srcs : Without(rd, d)[p] <=> rd[p]
  BY <1>1, ClearedBits
<1>5. Listens(i, Without(rd, d))
  BY <1>4 DEF Listens
<1>6. QED
  BY <1>3, <1>5

LEMMA ArrivesKeeps ==
  ASSUME IInv, stage = "dispatch", Len(window) < Window,
         \A k \in Entries : ~ Serial(window[k]),
         NEW kind \in Kinds, NEW dest \in IF kind.dest = None THEN {None} ELSE Unused,
         Arrives(kind, dest), UNCHANGED <<amt, stage, n>>
  PROVE  IInv'
<1>1. /\ Typed /\ Renamed(window, amt) /\ Flowing(window, stage, n)
      /\ Signalled(window, amt, ready, written, stage, n)
  BY DEF IInv
<1>2. /\ Len(window) \in Nat /\ Entries = 1 .. Len(window) /\ DOMAIN window = Entries
      /\ \A k \in Entries : window[k] \in Instr /\ Shaped(window[k])
  BY <1>1, WindowEntries
<1>3. PICK e : e = [op |-> kind.op, log |-> kind.dest, dest |-> dest, lane |-> 0, sub |-> 0,
                    at |-> IF kind.op = "nop" THEN "done" ELSE "iq",
                    srcs |-> Sources(kind), wait |-> {p \in Sources(kind) : ~ ready[p]}]
  OBVIOUS
<1>4. /\ window' = Append(window, e)
      /\ ready' = Without(ready, dest) /\ written' = Without(written, dest)
  BY <1>3 DEF Arrives, ClearReady, Without
<1>5. /\ kind.op \in AllOps /\ kind.srcs \subseteq Log /\ kind.dest \in Log \cup {None}
      /\ kind.op = "nop" => kind.dest = None
      /\ None \notin Log \cup Phys
  BY LanesAssumption
<1>6. /\ dest \in Phys \cup {None} /\ (dest = None <=> kind.dest = None)
      /\ \A l \in Log : amt[l] # dest
      /\ \A k \in Entries : dest # None => window[k].dest # dest
  <2>1. CASE kind.dest = None
    BY <1>1, <1>5, <2>1 DEF Typed
  <2>2. CASE kind.dest # None
    <3>1. dest \in Unused
      BY <2>2
    <3>2. dest \in Phys /\ \A l \in Log : amt[l] # dest
      BY <3>1 DEF Unused
    <3>3. dest # None
      BY <1>5, <3>2
    <3>4. \A k \in Entries : dest \notin Dest(window[k])
      BY <3>1 DEF Unused
    <3>5. QED
      BY <2>2, <3>2, <3>3, <3>4 DEF Dest
  <2>3. QED
    BY <2>1, <2>2
<1>7. ASSUME NEW p \in Sources(kind)
      PROVE  \E l \in Log : Names(window, amt, l, Len(window) + 1, p) /\ p \in Phys
  BY <1>1, <1>5, CurrentNamed DEF Sources
<1>8. Sources(kind) \in SUBSET Phys
  BY <1>7
<1>9. /\ e.op = kind.op /\ e.log = kind.dest /\ e.dest = dest /\ e.lane = 0 /\ e.sub = 0
      /\ e.at = (IF kind.op = "nop" THEN "done" ELSE "iq")
      /\ e.srcs = Sources(kind) /\ e.wait = {p \in Sources(kind) : ~ ready[p]}
  BY <1>3
<1>10. e \in Instr /\ Shaped(e)
  <2>1. e \in Instr
    BY <1>3, <1>5, <1>6, <1>8 DEF Instr, Places
  <2>2. QED
    BY <1>9, <2>1 DEF Shaped, InLane
(* The register that arrives is a source of nobody.                         *)
<1>11. dest # None => dest \notin e.srcs
  BY <1>2, <1>6, <1>7, <1>9 DEF Names
<1>12. ASSUME NEW k \in Entries PROVE dest \notin window[k].srcs
  <2>1. SUFFICES ASSUME dest \in window[k].srcs PROVE FALSE
    OBVIOUS
  <2>2. \/ \E l \in Log : amt[l] = dest
        \/ \E j \in Entries : window[j].dest = dest /\ window[j].dest # None
    <3>1. window \in Seq(Instr) /\ k \in DOMAIN window
      BY <1>1, <1>2 DEF Typed
    <3>2. \/ \E l \in Log : amt[l] = dest
          \/ \E j \in DOMAIN window : j < k /\ window[j].dest = dest /\ window[j].dest # None
      BY <1>1, <2>1, <3>1, SourceOlder
    <3>3. QED
      BY <1>2, <3>2
  <2>3. QED
    BY <1>6, <2>2
<1>13. /\ window' \in Seq(Instr) /\ Len(window') = Len(window) + 1
       /\ DOMAIN window' = 1 .. Len(window) + 1
       /\ \A k \in Entries : window'[k] = window[k]
       /\ window'[Len(window) + 1] = e
       /\ \A k \in DOMAIN window' : k \in Entries \/ k = Len(window) + 1
  BY <1>1, <1>2, <1>4, <1>10 DEF Typed
<1>14. Renamed(window', amt)
  <2>1. \A p \in e.srcs : \E l \in Log : Names(window, amt, l, Len(window) + 1, p)
    BY <1>7, <1>9
  <2>2. \A k \in DOMAIN window : (e.dest # None => window[k].dest # e.dest) /\ ~ Serial(window[k])
    BY <1>2, <1>6, <1>9
  <2>3. (e.dest = None <=> e.log = None) /\ \A l \in Log : amt[l] # e.dest
    BY <1>6, <1>9
  <2>4. QED
    BY <1>1, <1>4, <1>10, <2>1, <2>2, <2>3, ArriveRenamed DEF Typed
<1>15. ready' \in [Phys -> BOOLEAN] /\ written' \in [Phys -> BOOLEAN]
  BY <1>1, <1>4, ClearedBits DEF Typed
<1>16. Typed'
  <2>1. \A k \in DOMAIN window' : Shaped(window'[k])
    BY <1>2, <1>10, <1>13
  <2>2. Len(window') <= Window
    BY <1>2, <1>13, Sizes
  <2>3. QED
    BY <1>1, <1>13, <1>15, <2>1, <2>2 DEF Typed, Entries
<1>17. Usable(amt, ready', written')
  <2>1. SUFFICES ASSUME NEW l \in Log PROVE ready'[amt[l]] /\ written'[amt[l]]
    BY DEF Usable
  <2>2. amt[l] \in Phys /\ ready[amt[l]] /\ written[amt[l]] /\ amt[l] # dest
    BY <1>1, <1>6 DEF Signalled, Usable, Typed
  <2>3. QED
    BY <1>1, <1>4, <2>2, ClearedBits DEF Typed
<1>18. ASSUME NEW k \in Entries
       PROVE  /\ Announces(window[k], ready') /\ Delivers(window[k], written')
              /\ Listens(window[k], ready')
  <2>1. /\ Announces(window[k], ready) /\ Delivers(window[k], written)
        /\ Listens(window[k], ready)
    BY <1>1, <1>2 DEF Signalled
  <2>2. window[k].dest # None => window[k].dest # dest
    BY <1>6
  <2>3. QED
    BY <1>1, <1>2, <1>4, <1>12, <2>1, <2>2, ClearedElsewhere DEF Typed
<1>19. Announces(e, ready') /\ Delivers(e, written') /\ Listens(e, ready')
  <2>1. CASE kind.op = "nop"
    BY <1>5, <1>6, <1>9, <2>1 DEF Announces, Delivers, Listens
  <2>2. CASE kind.op # "nop"
    <3>1. e.at = "iq"
      BY <1>9, <2>2
    <3>2. e.dest # None => ~ ready'[e.dest]
      <4>1. e.dest # None => dest \in Phys /\ e.dest = dest
        BY <1>6, <1>9
      <4>2. dest \in Phys => ~ Without(ready, dest)[dest]
        BY <1>1, ClearedBits DEF Typed
      <4>3. QED
        BY <1>4, <4>1, <4>2
    <3>3. dest \notin e.srcs
      BY <1>5, <1>8, <1>9, <1>11
    <3>4. \A p \in e.srcs : Without(ready, dest)[p] <=> ready[p]
      <4>1. \A p \in Phys : p # dest => (Without(ready, dest)[p] <=> ready[p])
        BY <1>1, ClearedBits DEF Typed
      <4>2. e.srcs \subseteq Phys
        BY <1>8, <1>9
      <4>3. QED
        BY <3>3, <4>1, <4>2
    <3>5. e.wait = {p \in e.srcs : ~ Without(ready, dest)[p]}
      BY <1>9, <3>4
    <3>6. QED
      BY <1>4, <3>1, <3>2, <3>5 DEF Announces, Delivers, Listens, Written, YetToAnnounce
  <2>3. QED
    BY <2>1, <2>2
<1>20. \A j, k \in DOMAIN window' :
         window'[k].at = "rr" /\ window'[j].dest \in window'[k].srcs =>
           InTime(window'[j], stage, n)
  <2>1. SUFFICES ASSUME NEW j \in DOMAIN window', NEW k \in DOMAIN window',
                        window'[k].at = "rr", window'[j].dest \in window'[k].srcs
                 PROVE  InTime(window'[j], stage, n)
    OBVIOUS
  <2>2. k \in Entries /\ window'[k] = window[k]
    BY <1>9, <1>13, <2>1
  <2>3. j \in Entries /\ window'[j] = window[j]
    BY <1>9, <1>12, <1>13, <2>1, <2>2
  <2>4. QED
    BY <1>1, <1>2, <2>1, <2>2, <2>3 DEF Signalled
<1>21. Signalled(window', amt', ready', written', stage', n')
  BY <1>13, <1>17, <1>18, <1>19, <1>20 DEF Signalled
<1>22. Flowing(window', stage', n')
  <2>1. ~ InLane(e) /\ Turn(e, stage, n)
    BY <1>9 DEF InLane, Turn
  <2>2. \A k \in DOMAIN window' : Turn(window'[k], stage, n)
    BY <1>1, <1>2, <1>13, <2>1 DEF Flowing
  <2>3. \A j, k \in DOMAIN window' : j # k => Apart(window'[j], window'[k])
    <3>1. SUFFICES ASSUME NEW j \in DOMAIN window', NEW k \in DOMAIN window', j # k
                   PROVE  Apart(window'[j], window'[k])
      OBVIOUS
    <3>2. CASE j \in Entries /\ k \in Entries
      BY <1>1, <1>2, <1>13, <3>1, <3>2 DEF Flowing
    <3>3. CASE window'[j] = e \/ window'[k] = e
      BY <2>1, <3>3, ApartIs
    <3>4. QED
      BY <1>13, <3>2, <3>3
  <2>4. QED
    BY <2>2, <2>3 DEF Flowing
<1>23. QED
  BY <1>14, <1>16, <1>21, <1>22 DEF IInv

LEMMA EndCycleKeeps ==
  ASSUME IInv, EndCycle
  PROVE  IInv'
<1>1. /\ Typed /\ Renamed(window, amt) /\ Flowing(window, stage, n)
      /\ Signalled(window, amt, ready, written, stage, n)
      /\ stage = "dispatch" /\ stage' = "retire" /\ n' = 1
      /\ UNCHANGED <<window, amt, ready, written>>
  BY DEF IInv, EndCycle, To
<1>2. Typed'
  BY <1>1 DEF Typed, Entries, Stages
<1>3. Signalled(window, amt, ready, written, "retire", 1)
  BY <1>1 DEF Signalled, InTime
<1>4. Flowing(window, "retire", 1)
  BY <1>1 DEF Flowing, Turn
<1>5. QED
  BY <1>1, <1>2, <1>3, <1>4 DEF IInv

----------------------------------------------------------------------------
LEMMA InitInvariant ==
  ASSUME Init
  PROVE  IInv
<1>1. window = <<>> /\ stage = "retire" /\ n = 1
  BY DEF Init
<1>2. Typed
  BY <1>1, Sizes DEF Init, Typed, Stages, Entries
<1>3. Renamed(window, amt)
  BY <1>1, EmptyRenamed DEF Init
<1>4. Signalled(window, amt, ready, written, stage, n)
  BY <1>1, <1>2 DEF Init, Signalled, Usable, Typed
<1>5. Flowing(window, stage, n)
  BY <1>1 DEF Flowing
<1>6. QED
  BY <1>2, <1>3, <1>4, <1>5 DEF IInv

LEMMA InvariantStep ==
  ASSUME IInv, [Next]_vars
  PROVE  IInv'
<1>1. CASE Retire
  BY <1>1, CommitKeeps, SquashKeeps, NothingToRetireKeeps DEF Retire
<1>2. CASE Writeback
  BY <1>2, WritebackKeeps
<1>3. ASSUME NEW k \in Entries, ReplaySucceeds(k) PROVE IInv'
  BY <1>3, ReplayKeeps
<1>4. CASE ReplayNone
  BY <1>4, ReplayNoneKeeps
<1>5. CASE Execute
  BY <1>5, ExecuteKeeps
<1>6. CASE RegisterRead
  BY <1>6, RegisterReadKeeps
<1>7. CASE Schedule
  BY <1>7, ScheduleKeeps
<1>8. CASE Dispatch
  BY <1>8, ArrivesKeeps DEF Dispatch
<1>9. CASE EndCycle
  BY <1>9, EndCycleKeeps
<1>10. CASE UNCHANGED vars
  BY <1>10 DEF vars, IInv, Typed, Renamed, Signalled, Flowing, Entries
<1>11. QED
  BY <1>1, <1>2, <1>3, <1>4, <1>5, <1>6, <1>7, <1>8, <1>9, <1>10 DEF Next

(* In every state the parts of the invariant hold together.                 *)
THEOREM InvariantHolds == Spec => []IInv
<1>1. Init => IInv
  BY InitInvariant
<1>2. IInv /\ [Next]_vars => IInv'
  BY InvariantStep
<1>3. QED
  BY <1>1, <1>2, PTL DEF Spec

----------------------------------------------------------------------------
(* Every variable keeps its type, and an instruction is in a lane exactly   *)
(* from Schedule to Writeback.                                              *)
THEOREM AlwaysTypeOK == Spec => []TypeOK
<1>1. IInv => TypeOK
  <2>1. SUFFICES ASSUME IInv PROVE TypeOK
    OBVIOUS
  <2>2. Typed
    BY <2>1 DEF IInv
  <2>3. ASSUME NEW k \in Entries
        PROVE  LET i == window[k] IN
               /\ i.op \in AllOps /\ i.at \in Places /\ i.lane \in Lanes \cup {0}
               /\ i.dest \in Phys \cup {None} /\ i.log \in Log \cup {None}
               /\ i.wait \subseteq i.srcs /\ i.srcs \subseteq Phys
               /\ InLane(i) <=> i.lane # 0
               /\ i.sub \in IF i.at = "ex" THEN 1 .. Depth[i.lane] ELSE {0}
    <3>1. window[k] \in Instr /\ Shaped(window[k])
      BY <2>2, WindowEntries
    <3>2. QED
      BY <3>1, InstrFields DEF Shaped
  <2>4. QED
    BY <2>2, <2>3 DEF TypeOK, Typed, Stages
<1>2. QED
  BY <1>1, InvariantHolds, PTL

(* Nobody waits for a tag that has gone by, and wakeup() never finds a      *)
(* source that is ready already: an entry of the issue queue waits exactly  *)
(* for those of its sources that somebody has still to announce.            *)
THEOREM AlwaysTagsPrecise == Spec => []TagsPrecise
<1>1. IInv => TagsPrecise
  <2>1. SUFFICES ASSUME IInv, NEW k \in Entries, window[k].at = "iq", NEW p \in window[k].srcs
                 PROVE  ~ ready[p] <=>
                          \E j \in Entries : window[j].dest = p /\ YetToAnnounce(window[j])
    <3>1. SUFFICES ASSUME IInv, NEW k \in Entries, window[k].at = "iq"
                   PROVE  window[k].wait = {p \in window[k].srcs : \E j \in Entries :
                                              window[j].dest = p /\ YetToAnnounce(window[j])}
      BY DEF TagsPrecise
    <3>2. window[k].wait = {p \in window[k].srcs : ~ ready[p]}
      BY <3>1 DEF IInv, Signalled, Listens, Entries
    <3>3. \A p \in window[k].srcs :
            ~ ready[p] <=> \E j \in Entries : window[j].dest = p /\ YetToAnnounce(window[j])
      BY <2>1, <3>1
    <3>4. QED
      BY <3>2, <3>3
  <2>2. /\ Typed /\ Renamed(window, amt) /\ Usable(amt, ready, written)
        /\ \A j \in Entries : Announces(window[j], ready)
        /\ window[k] \in Instr
    BY <2>1, WindowEntries DEF IInv, Signalled, Entries
  <2>3. /\ \/ \E l \in Log : amt[l] = p
           \/ \E j \in Entries : j < k /\ window[j].dest = p /\ window[j].dest # None
        /\ \A j \in Entries : window[j].dest = p => j < k /\ ~ Serial(window[j])
    BY <2>2, SourceOlder DEF Typed, Entries
  <2>4. p # None
    BY <2>2, InstrFields, LanesAssumption
  <2>5. \A j \in Entries : window[j].dest = p => (ready[p] <=> ~ YetToAnnounce(window[j]))
    BY <2>2, <2>3, <2>4 DEF Announces, Serial
  <2>6. ASSUME NEW l \in Log, amt[l] = p
        PROVE  ready[p] /\ \A j \in Entries : window[j].dest # p
    BY <2>2, <2>6 DEF Usable, Renamed, Entries
  <2>7. QED
    BY <2>3, <2>5, <2>6
<1>2. QED
  BY <1>1, InvariantHolds, PTL

(* Announced is not yet written; but an instruction that reads its sources  *)
(* in Register Read finds the value of each in the register file.           *)
THEOREM AlwaysReadsWritten == Spec => []ReadsWritten
<1>1. IInv => ReadsWritten
  <2>1. SUFFICES ASSUME IInv, stage = "register_read", NEW k \in In("rr"), NEW p \in window[k].srcs
                 PROVE  written[p]
    BY DEF ReadsWritten
  <2>2. /\ Typed /\ Renamed(window, amt) /\ Signalled(window, amt, ready, written, stage, n)
        /\ k \in Entries /\ window[k].at = "rr"
    BY <2>1 DEF IInv, In
  <2>3. /\ \/ \E l \in Log : amt[l] = p
           \/ \E j \in Entries : j < k /\ window[j].dest = p /\ window[j].dest # None
        /\ \A j \in Entries : window[j].dest = p => j < k /\ ~ Serial(window[j])
    BY <2>2, SourceOlder DEF Typed, Entries
  <2>4. CASE \E l \in Log : amt[l] = p
    BY <2>2, <2>4 DEF Signalled, Usable
  <2>5. ASSUME NEW j \in Entries, window[j].dest = p, window[j].dest # None
        PROVE  written[p]
    <3>1. InTime(window[j], stage, n) /\ Delivers(window[j], written)
      BY <2>2, <2>5 DEF Signalled, Entries
    <3>2. Written(window[j])
      BY <2>1, <3>1 DEF InTime
    <3>3. WritesInLane(window[j])
      BY <2>3, <2>5 DEF Serial, WritesInLane
    <3>4. QED
      BY <2>5, <3>1, <3>2, <3>3 DEF Delivers
  <2>6. QED
    BY <2>3, <2>4, <2>5
<1>2. QED
  BY <1>1, InvariantHolds, PTL

(* A committed register is ready and written, whichever way its instruction *)
(* took.                                                                    *)
THEOREM AlwaysCommittedReady == Spec => []CommittedReady
<1>1. IInv => CommittedReady
  BY DEF IInv, Signalled, Usable, CommittedReady
<1>2. QED
  BY <1>1, InvariantHolds, PTL

(* No stage of a lane is ever given an instruction while it holds one.      *)
THEOREM AlwaysLanesFreeFlowing == Spec => []LanesFreeFlowing
<1>1. IInv => LanesFreeFlowing
  BY DEF IInv, Flowing, Apart, LanesFreeFlowing, Entries
<1>2. QED
  BY <1>1, InvariantHolds, PTL
=============================================================================
