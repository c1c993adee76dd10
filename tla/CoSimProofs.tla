---------------------------- MODULE CoSimProofs ----------------------------
(***************************************************************************)
(* For every size of the ring, every number of instructions in flight and  *)
(* every program: the pipeline and the functional simulator agree, and the *)
(* payload knows the records of what is on the right path, as long as the  *)
(* functional simulator has taken no interrupt.                            *)
(*                                                                         *)
(* The ring holds a piece of what the functional simulator does, each      *)
(* record being what follows from the one before it (Chain), and begins    *)
(* with the state of the pipeline, as if the bundle that is being retired  *)
(* ended here (Present).  That is where the two hosts and timers meet: the *)
(* functional simulator has them move after each instruction, the pipeline *)
(* after each bundle.  Nothing else of the past is needed.                 *)
(***************************************************************************)
EXTENDS CoSimProperties, FiniteSetTheorems, SequenceTheorems, WellFoundedInduction, TLAPS

----------------------------------------------------------------------------
(* Numbers.                                                                 *)
LEMMA LeastOf ==
  ASSUME NEW T \in SUBSET Nat, T # {}
  PROVE  \E n \in T : \A m \in T : n <= m
<1>1. PICK n \in T : \A m \in T : ~ (<<m, n>> \in OpToRel(<, Nat))
  BY NatLessThanWellFounded, WFMin
<1>2. \A m \in T : ~ (m < n)
  BY <1>1 DEF OpToRel
<1>3. QED
  BY <1>2

(* What holds at 0 and is handed on from each number to the next.           *)
LEMMA HandedOn ==
  ASSUME NEW b \in Nat, NEW T \in SUBSET Nat, 0 \in T, \A k \in T : k < b => k + 1 \in T
  PROVE  \A k \in 0 .. b : k \in T
<1> DEFINE U == {k \in 0 .. b : k \notin T}
<1>1. SUFFICES ASSUME U # {} PROVE FALSE
  OBVIOUS
<1>2. U \in SUBSET Nat
  OBVIOUS
<1>3. PICK n \in U : \A m \in U : n <= m
  BY <1>1, <1>2, LeastOf
<1>4. n \in Nat /\ 0 < n /\ n <= b /\ n \notin T
  BY <1>3
<1>5. n - 1 \in 0 .. b /\ n - 1 \notin U
  BY <1>3, <1>4
<1>6. n - 1 \in T /\ n - 1 + 1 = n
  BY <1>4, <1>5
<1>7. QED
  BY <1>4, <1>6

LEMMA ModRange ==
  ASSUME NEW n \in Nat \ {0}, NEW a \in Nat
  PROVE  a % n \in 0 .. n - 1
OBVIOUS

LEMMA ModBelow ==
  ASSUME NEW n \in Nat \ {0}, NEW a \in Nat, a < 2 * n
  PROVE  a % n = IF a < n THEN a ELSE a - n
<1>1. CASE a < n
  BY <1>1
<1>2. CASE ~ (a < n)
  BY <1>2
<1>3. QED
  BY <1>1, <1>2

LEMMA Sizes ==
  /\ {Size, MaxFlight, PCs, Word, INTERLEAVE, RetireWidth} \subseteq Nat \ {0}
  /\ Size \in Nat \ {0} /\ MaxFlight \in Nat \ {0} /\ PCs \in Nat \ {0} /\ Word \in Nat \ {0}
  /\ INTERLEAVE \in Nat \ {0} /\ MaxFlight < Size
  /\ Programs \subseteq [0 .. PCs - 1 -> Kinds]
BY CoSimAssumption

----------------------------------------------------------------------------
(* States of the architecture, and sequences of instructions.               *)
Addr == 0 .. PCs - 1
Bits == {0, 1}

States == [pc : Addr, r : Bits, count : Nat, compare : Nat, timer : BOOLEAN, host : Bits,
           ei : BOOLEAN, pei : BOOLEAN, epc : Addr, serialized : BOOLEAN, step : Nat]

(* Between two instructions the host has had its turn.                      *)
Settled(s) == s \in States /\ s.step < INTERLEAVE

Fetches == [pc : Addr, next : Addr, resolved : BOOLEAN, good : BOOLEAN, db : Nat]

(* The record of the instruction that the state s comes to, and the state   *)
(* after it.                                                                *)
Record(g, s) == Entry(s, StepOutcome(s, g[s.pc]), Trapping(g[s.pc]))

Onwards(s) == CountStep(UpdateTimer(s), 1)

(* The i-th place behind the head of the ring b.                            *)
Place(b, i) == (b.head + i) % Size

(* The state before the i-th record behind the head, if it was s before the *)
(* first.                                                                   *)
Before(b, s, i) == IF i = 0 THEN s ELSE Onwards(b.db[Place(b, i - 1)].state)

IsRing(b) ==
  /\ b = [isa |-> b.isa, db |-> b.db, head |-> b.head, tail |-> b.tail, length |-> b.length,
          oneEach |-> b.oneEach]
  /\ b.length \in Int /\ b.length <= Size /\ b.oneEach \in BOOLEAN

(* The ring holds what the functional simulator does from s.                *)
Chain(g, b, s) ==
  /\ b.head \in 0 .. Size - 1 /\ b.length \in 0 .. Size
  /\ b.tail = Place(b, IF b.length = 0 THEN Size - 1 ELSE b.length - 1)
  /\ b.db = [e \in 0 .. Size - 1 |-> b.db[e]]
  /\ \A i \in 0 .. b.length : Settled(Before(b, s, i))
  /\ \A i \in 0 .. b.length - 1 : b.db[Place(b, i)] = Record(g, Before(b, s, i))
  /\ b.isa = Before(b, s, b.length)

(* The pipeline, as if the bundle that is being retired ended here.         *)
Present == CountStep(mic, instret)

(* The bit of the register at the n-th instruction of p, and where it goes, *)
(* if it is a branch, when the bit is r at the first.                       *)
BitAt(g, p, r, n)  == (r + Cardinality({j \in 1 .. n - 1 : g[p[j].pc] = "op"})) % 2
GoesTo(g, p, r, n) == IF BitAt(g, p, r, n) = 1 THEN Target(p[n].pc) ELSE After(p[n].pc)

(* The instructions in flight follow one another from the state m to the    *)
(* address to be fetched, and only the last one serializes.                 *)
InFlight(g, p, m, next, fetching) ==
  /\ p \in Seq(Fetches) /\ Len(p) <= MaxFlight /\ next \in Addr /\ fetching \in BOOLEAN
  /\ next = IF p = <<>> THEN m.pc ELSE p[Len(p)].next
  /\ p # <<>> => p[1].pc = m.pc
  /\ \A n \in 1 .. Len(p) :
       /\ n < Len(p) => p[n + 1].pc = p[n].next
       /\ Serial(g[p[n].pc]) => n = Len(p) /\ ~ fetching
       /\ IF g[p[n].pc] = "br" THEN p[n].resolved => p[n].next = GoesTo(g, p, m.r, n)
          ELSE p[n].resolved /\ p[n].next = After(p[n].pc)

(* Those on the right path have the record in b that is theirs.             *)
OnRecord(g, p, b, s) ==
  /\ p # <<>> => p[1].good
  /\ \A n \in 1 .. Len(p) :
       /\ p[n].good =>
            /\ p[n].db = Place(b, n - 1)
            /\ b.db[Place(b, n - 1)].pc = p[n].pc
            /\ Before(b, s, n - 1).r = BitAt(g, p, s.r, n)
       /\ n < Len(p) =>
            p[n + 1].good = (p[n].good /\ b.db[Place(b, n - 1)].next = p[n + 1].pc)

(* The ring is never behind what is in flight.                              *)
Together(g, b, s, m, p, next, fetching) ==
  /\ Chain(g, b, s) /\ b.length >= Size - 1
  /\ InFlight(g, p, m, next, fetching) /\ OnRecord(g, p, b, s)

(* A bundle ends when the host is to have its turn, or before.              *)
Cycling(m, n, most, turn) ==
  /\ Settled(m) /\ n \in Nat /\ most \in Nat /\ turn \in Nat
  /\ m.step + most <= INTERLEAVE /\ n <= most

(* The functional simulator takes no interrupt if none is ever enabled.     *)
Quiet(g) == \A p \in Addr : g[p] # "csrenable"

Calm(b) == b.oneEach /\ ~ b.isa.ei /\ ~ b.isa.pei

IInv ==
  /\ program \in Programs
  /\ dbg = [db |-> dbg.db, head |-> dbg.head, tail |-> dbg.tail, length |-> dbg.length,
            oneEach |-> dbg.oneEach]
  /\ IsRing(Buffer)
  /\ dbg.oneEach =>
       /\ Cycling(mic, instret, limit, lane)
       /\ Together(program, Buffer, Present, mic, pay, pc, active)
       /\ ~ aborted
  /\ Quiet(program) => Calm(Buffer)

----------------------------------------------------------------------------
(* States.                                                                  *)
LEMMA AddrIs ==
  ASSUME NEW p \in Addr
  PROVE  After(p) \in Addr /\ Target(p) \in Addr /\ Evec \in Addr
<1>1. p + 1 \in Nat /\ p + 2 \in Nat /\ PCs \in Nat \ {0}
  BY Sizes DEF Addr
<1>2. (p + 1) % PCs \in 0 .. PCs - 1 /\ (p + 2) % PCs \in 0 .. PCs - 1
  BY <1>1, ModRange
<1>3. QED
  BY <1>1, <1>2 DEF Addr, After, Target, Evec

LEMMA WordIs ==
  ASSUME NEW a \in Nat
  PROVE  a % Word \in Nat /\ a % 2 \in Bits
<1>1. a % Word \in 0 .. Word - 1 /\ a % 2 \in 0 .. 1
  BY Sizes, ModRange
<1>2. QED
  BY <1>1, Sizes DEF Bits

LEMMA TriedOnce ==
  ASSUME NEW s, NEW k, Serializing(s, k)
  PROVE  ~ Trapping(k)
BY DEF Serializing, TriedTwice, Trapping

LEMMA TickIs ==
  ASSUME NEW s \in States
  PROVE  /\ Tick(s) \in States /\ Tick(s).step = s.step /\ Tick(s).pc = s.pc /\ Tick(s).r = s.r
         /\ Tick(s).ei = s.ei /\ Tick(s).pei = s.pei
<1>1. 1 - s.host \in Bits
  BY DEF States, Bits
<1>2. QED
  BY <1>1 DEF Tick, States

LEMMA OutcomeIs ==
  ASSUME NEW s \in States, NEW k \in Kinds
  PROVE  StepOutcome(s, k) \in States /\ StepOutcome(s, k).step = s.step
<1>1. /\ After(s.pc) \in Addr /\ Target(s.pc) \in Addr /\ Evec \in Addr
      /\ s.count % 2 \in Bits /\ (s.count + 2) % Word \in Nat
  BY AddrIs, WordIs DEF States
<1>2. 1 - s.r \in Bits /\ 1 - s.host \in Bits
  BY DEF States, Bits
<1>3. CASE Serializing(s, k)
  <2>1. StepOutcome(s, k) = [s EXCEPT !.serialized = TRUE]
    BY <1>3, TriedOnce DEF StepOutcome
  <2>2. QED
    BY <2>1 DEF States
<1>4. CASE ~ Serializing(s, k) /\ Trapping(k)
  BY <1>1, <1>4 DEF StepOutcome, TakeTrap, States
<1>5. CASE ~ Serializing(s, k) /\ ~ Trapping(k)
  <2>1. StepOutcome(s, k) = Execute(s, k)
    BY <1>5 DEF StepOutcome
  <2>2. CASE k = "op"
    BY <1>1, <1>2, <2>1, <2>2 DEF Execute, States
  <2>3. CASE k = "br"
    BY <1>1, <1>2, <2>1, <2>3 DEF Execute, States
  <2>4. CASE k = "csrcount"
    BY <1>1, <1>2, <2>1, <2>4 DEF Execute, States
  <2>5. CASE k = "csrcompare"
    BY <1>1, <1>2, <2>1, <2>5 DEF Execute, States
  <2>6. CASE k = "csrhost"
    BY <1>1, <1>2, <2>1, <2>6 DEF Execute, Tick, States
  <2>7. CASE k = "csrenable"
    BY <1>1, <1>2, <2>1, <2>7 DEF Execute, States
  <2>8. CASE k = "sret"
    BY <1>1, <1>2, <2>1, <2>8 DEF Execute, States
  <2>9. QED
    BY <1>5, <2>2, <2>3, <2>4, <2>5, <2>6, <2>7, <2>8 DEF Kinds, Trapping
<1>6. QED
  BY <1>3, <1>4, <1>5

LEMMA TimerIs ==
  ASSUME NEW s \in States
  PROVE  UpdateTimer(s) \in States /\ UpdateTimer(s).step = s.step /\ UpdateTimer(s).pc = s.pc
         /\ UpdateTimer(s).r = s.r /\ UpdateTimer(s).ei = s.ei /\ UpdateTimer(s).pei = s.pei
<1>1. (s.count + 1) % Word \in Nat
  BY WordIs DEF States
<1>2. (s.timer \/ s.count + 1 = s.compare) \in BOOLEAN
  BY DEF States
<1>3. QED
  BY <1>1, <1>2 DEF UpdateTimer, States

(* The state s with n more steps counted, when the host does not interfere. *)
Counting(s, n) == [s EXCEPT !.step = @ + n]

LEMMA CountIs ==
  ASSUME NEW s \in States, NEW n \in Nat, s.step + n <= INTERLEAVE
  PROVE  /\ Settled(CountStep(s, n)) /\ CountStep(s, n).pc = s.pc /\ CountStep(s, n).r = s.r
         /\ CountStep(s, n).ei = s.ei /\ CountStep(s, n).pei = s.pei
         /\ s.step + n < INTERLEAVE => CountStep(s, n) = Counting(s, n)
<1>1. s.step \in Nat /\ INTERLEAVE \in Nat \ {0} /\ 1 - s.host \in Bits
  BY Sizes DEF States, Bits
<1>2. CASE s.step + n = INTERLEAVE
  <2>1. CountStep(s, n) = [Tick(s) EXCEPT !.step = 0]
    BY <1>2 DEF CountStep
  <2>2. PICK t \in States : /\ t = Tick(s) /\ t.pc = s.pc /\ t.r = s.r
                             /\ t.ei = s.ei /\ t.pei = s.pei
    BY TickIs
  <2>3. CountStep(s, n) = [t EXCEPT !.step = 0]
    BY <2>1, <2>2
  <2>4. QED
    BY <1>1, <1>2, <2>2, <2>3 DEF States, Settled
<1>3. CASE s.step + n # INTERLEAVE
  <2>1. CountStep(s, n) = Counting(s, n)
    BY <1>3 DEF CountStep, Counting
  <2>2. QED
    BY <1>1, <1>3, <2>1 DEF Counting, States, Settled
<1>4. QED
  BY <1>2, <1>3

(* What an instruction does does not depend on the steps counted.           *)
LEMMA OutcomeCounting ==
  ASSUME NEW s \in States, NEW k \in Kinds, NEW n \in Nat
  PROVE  StepOutcome(Counting(s, n), k) = Counting(StepOutcome(s, k), n)
<1> DEFINE c == Counting(s, n)
<1>1. Serializing(c, k) <=> Serializing(s, k)
  BY DEF Serializing, Counting, States
<1>2. CASE Serializing(s, k)
  <2>1. /\ StepOutcome(s, k) = [s EXCEPT !.serialized = TRUE]
        /\ StepOutcome(c, k) = [c EXCEPT !.serialized = TRUE]
    BY <1>1, <1>2, TriedOnce DEF StepOutcome
  <2>2. QED
    BY <2>1 DEF Counting, States
<1>3. CASE ~ Serializing(s, k) /\ Trapping(k)
  BY <1>1, <1>3 DEF StepOutcome, TakeTrap, Counting, States
<1>4. CASE ~ Serializing(s, k) /\ ~ Trapping(k)
  <2>1. StepOutcome(s, k) = Execute(s, k) /\ StepOutcome(c, k) = Execute(c, k)
    BY <1>1, <1>4 DEF StepOutcome
  <2>2. CASE k = "op"
    BY <2>1, <2>2, ZenonT(60) DEF Execute, Counting, States
  <2>3. CASE k = "br"
    BY <2>1, <2>3, ZenonT(60) DEF Execute, Counting, States
  <2>4. CASE k = "csrcount"
    BY <2>1, <2>4, ZenonT(60) DEF Execute, Counting, States
  <2>5. CASE k = "csrcompare"
    BY <2>1, <2>5, ZenonT(60) DEF Execute, Counting, States
  <2>6. CASE k = "csrhost"
    <3>1. PICK t \in States : t = Tick(s) /\ t.pc = s.pc
      BY TickIs
    <3>2. Tick(c) = Counting(t, n) /\ c.host = s.host
      BY <3>1 DEF Tick, Counting, States
    <3>3. /\ Execute(s, k) = [t EXCEPT !.r = 1 - s.host, !.pc = After(@)]
          /\ Execute(c, k) = [Counting(t, n) EXCEPT !.r = 1 - s.host, !.pc = After(@)]
      BY <2>6, <3>1, <3>2 DEF Execute
    <3>4. PICK v, w : v = 1 - s.host /\ w = After(t.pc)
      OBVIOUS
    <3>5. Counting(t, n).pc = t.pc
      BY DEF Counting, States
    <3>6. /\ Execute(s, k) = [t EXCEPT !.r = v, !.pc = w]
          /\ Execute(c, k) = [Counting(t, n) EXCEPT !.r = v, !.pc = w]
      BY <3>3, <3>4, <3>5
    <3>7. [Counting(t, n) EXCEPT !.r = v, !.pc = w] = Counting([t EXCEPT !.r = v, !.pc = w], n)
      BY DEF Counting, States
    <3>8. Execute(c, k) = Counting(Execute(s, k), n)
      BY <3>6, <3>7, Zenon
    <3>9. QED
      BY <2>1, <3>8
  <2>7. CASE k = "csrenable"
    BY <2>1, <2>7, ZenonT(60) DEF Execute, Counting, States
  <2>8. CASE k = "sret"
    BY <2>1, <2>8, ZenonT(60) DEF Execute, Counting, States
  <2>9. QED
    BY <1>4, <2>2, <2>3, <2>4, <2>5, <2>6, <2>7, <2>8 DEF Kinds, Trapping
<1>5. QED
  BY <1>2, <1>3, <1>4

LEMMA OnwardsCounting ==
  ASSUME NEW s \in States, NEW n \in Nat
  PROVE  Onwards(Counting(s, n)) = CountStep(UpdateTimer(s), n + 1)
<1>1. UpdateTimer(s) \in States /\ UpdateTimer(s).step = s.step
  BY TimerIs
<1>2. UpdateTimer(Counting(s, n)) = Counting(UpdateTimer(s), n)
  BY DEF UpdateTimer, Counting, States
<1>3. PICK t \in States : t = UpdateTimer(s)
  BY <1>1
<1>4. CountStep(Counting(t, n), 1) = CountStep(t, n + 1)
  <2>1. /\ Counting(t, n).step = t.step + n /\ t.step + n + 1 = t.step + (n + 1)
        /\ t.step \in Nat
    BY DEF Counting, States
  <2>2. CASE t.step + (n + 1) = INTERLEAVE
    <3>1. /\ CountStep(t, n + 1) = [Tick(t) EXCEPT !.step = 0]
          /\ CountStep(Counting(t, n), 1) = [Tick(Counting(t, n)) EXCEPT !.step = 0]
      BY <2>1, <2>2 DEF CountStep
    <3>2. [Tick(Counting(t, n)) EXCEPT !.step = 0] = [Tick(t) EXCEPT !.step = 0]
      BY DEF Tick, Counting, States
    <3>3. QED
      BY <3>1, <3>2
  <2>3. CASE t.step + (n + 1) # INTERLEAVE
    <3>1. /\ CountStep(t, n + 1) = [t EXCEPT !.step = @ + (n + 1)]
          /\ CountStep(Counting(t, n), 1) = [Counting(t, n) EXCEPT !.step = @ + 1]
      BY <2>1, <2>3 DEF CountStep
    <3>2. [Counting(t, n) EXCEPT !.step = @ + 1] = [t EXCEPT !.step = @ + (n + 1)]
      BY <2>1 DEF Counting, States
    <3>3. QED
      BY <3>1, <3>2
  <2>4. QED
    BY <2>2, <2>3
<1>5. QED
  BY <1>2, <1>3, <1>4 DEF Onwards


----------------------------------------------------------------------------
(* The ring.                                                                *)
LEMMA WrappedIs ==
  ASSUME NEW n \in Nat \ {0}, NEW h \in 0 .. n - 1, NEW i \in 0 .. n
  PROVE  /\ (h + i) % n = IF h + i < n THEN h + i ELSE h + i - n
         /\ (h + i) % n \in 0 .. n - 1
<1>1. PICK a \in Nat : a = h + i
  OBVIOUS
<1>2. a < 2 * n
  BY <1>1
<1>3. a % n = IF a < n THEN a ELSE a - n
  BY <1>2, ModBelow
<1>4. a % n \in 0 .. n - 1
  BY ModRange
<1>5. QED
  BY <1>1, <1>3, <1>4

LEMMA PlaceIs ==
  ASSUME NEW h \in 0 .. Size - 1, NEW i \in 0 .. Size
  PROVE  /\ (h + i) % Size = IF h + i < Size THEN h + i ELSE h + i - Size
         /\ (h + i) % Size \in 0 .. Size - 1
<1>1. Size \in Nat \ {0}
  BY Sizes
<1>2. QED
  BY <1>1, WrappedIs, Zenon

LEMMA PlacesApart ==
  ASSUME NEW h \in 0 .. Size - 1, NEW i \in 0 .. Size - 1, NEW j \in 0 .. Size - 1,
         (h + i) % Size = (h + j) % Size
  PROVE  i = j
<1>1. Size \in Nat \ {0} /\ i \in 0 .. Size /\ j \in 0 .. Size
  BY Sizes
<1>2. (h + i) % Size = IF h + i < Size THEN h + i ELSE h + i - Size
  BY <1>1, PlaceIs
<1>3. (h + j) % Size = IF h + j < Size THEN h + j ELSE h + j - Size
  BY <1>1, PlaceIs
<1>4. QED
  BY <1>1, <1>2, <1>3

LEMMA PlaceOnwards ==
  ASSUME NEW h \in 0 .. Size - 1, NEW i \in Nat, NEW j \in Nat, i + j <= Size
  PROVE  (((h + i) % Size) + j) % Size = (h + (i + j)) % Size
<1>1. Size \in Nat \ {0} /\ i \in 0 .. Size /\ j \in 0 .. Size /\ i + j \in 0 .. Size
  BY Sizes
<1>2. /\ (h + i) % Size = IF h + i < Size THEN h + i ELSE h + i - Size
      /\ (h + i) % Size \in 0 .. Size - 1
  BY <1>1, PlaceIs
<1>3. PICK g \in 0 .. Size - 1 : g = (h + i) % Size
  BY <1>2
<1>4. (g + j) % Size = IF g + j < Size THEN g + j ELSE g + j - Size
  BY <1>1, PlaceIs
<1>5. (h + (i + j)) % Size = IF h + (i + j) < Size THEN h + (i + j) ELSE h + (i + j) - Size
  BY <1>1, PlaceIs
<1>6. QED
  BY <1>1, <1>2, <1>3, <1>4, <1>5

(* The place behind the last one.                                           *)
LEMMA TailIs ==
  ASSUME NEW b, NEW s, Chain(program, b, s)
  PROVE  /\ (b.tail + 1) % Size = Place(b, b.length)
         /\ b.length < Size => (b.tail + 1) % Size \in 0 .. Size - 1
<1>1. Size \in Nat \ {0} /\ b.head \in 0 .. Size - 1 /\ b.length \in 0 .. Size
  BY Sizes DEF Chain
<1>2. CASE b.length = 0
  <2>1. b.tail = (b.head + (Size - 1)) % Size
    BY <1>2 DEF Chain, Place
  <2>2. (((b.head + (Size - 1)) % Size) + 1) % Size = (b.head + ((Size - 1) + 1)) % Size
    <3>1. Size - 1 \in Nat /\ 1 \in Nat /\ (Size - 1) + 1 <= Size
      BY <1>1
    <3>2. QED
      BY <1>1, <3>1, PlaceOnwards
  <2>3. (b.head + Size) % Size = b.head /\ (b.head + 0) % Size = b.head
    <3>1. PICK h \in 0 .. Size - 1 : h = b.head
      BY <1>1
    <3>2. Size \in 0 .. Size /\ 0 \in 0 .. Size
      BY <1>1
    <3>3. /\ (h + Size) % Size = IF h + Size < Size THEN h + Size ELSE h + Size - Size
          /\ (h + 0) % Size = IF h + 0 < Size THEN h + 0 ELSE h + 0 - Size
      BY <3>2, PlaceIs
    <3>4. ~ (h + Size < Size) /\ h + Size - Size = h /\ h + 0 = h /\ h < Size
      BY <1>1
    <3>5. QED
      BY <3>1, <3>3, <3>4, Zenon
  <2>4. (Size - 1) + 1 = Size
    BY <1>1
  <2>5. QED
    BY <1>1, <1>2, <2>1, <2>2, <2>3, <2>4 DEF Place
<1>3. CASE b.length # 0
  <2>1. b.tail = (b.head + (b.length - 1)) % Size
    BY <1>3 DEF Chain, Place
  <2>2. b.length - 1 \in Nat /\ (b.length - 1) + 1 = b.length /\ (b.length - 1) + 1 <= Size
    BY <1>1, <1>3
  <2>3. (((b.head + (b.length - 1)) % Size) + 1) % Size = (b.head + ((b.length - 1) + 1)) % Size
    BY <1>1, <2>2, PlaceOnwards
  <2>4. (b.head + b.length) % Size \in 0 .. Size - 1
    BY <1>1, PlaceIs
  <2>5. QED
    BY <2>1, <2>2, <2>3, <2>4 DEF Place
<1>4. QED
  BY <1>2, <1>3

LEMMA RecordIs ==
  ASSUME program \in [Addr -> Kinds], NEW s, Settled(s)
  PROVE  /\ program[s.pc] \in Kinds /\ s.pc \in Addr
         /\ Record(program, s).state = StepOutcome(s, program[s.pc]) /\ Record(program, s).pc = s.pc
         /\ Record(program, s).next = StepOutcome(s, program[s.pc]).pc
         /\ Record(program, s).exception = Trapping(program[s.pc])
         /\ Record(program, s).state \in States /\ Settled(Onwards(Record(program, s).state))
<1>1. s \in States /\ s.pc \in Addr /\ s.step < INTERLEAVE /\ s.step \in Nat
  BY DEF Settled, States
<1>2. program[s.pc] \in Kinds
  BY <1>1 
<1>3. /\ Record(program, s).state = StepOutcome(s, program[s.pc]) /\ Record(program, s).pc = s.pc
      /\ Record(program, s).next = StepOutcome(s, program[s.pc]).pc
      /\ Record(program, s).exception = Trapping(program[s.pc])
  BY DEF Record, Entry
<1>4. PICK t \in States : t = Record(program, s).state /\ t.step = s.step
  BY <1>1, <1>2, <1>3, OutcomeIs
<1>5. PICK u \in States : u = UpdateTimer(t) /\ u.step = s.step
  BY <1>4, TimerIs
<1>6. u.step + 1 <= INTERLEAVE /\ 1 \in Nat
  BY <1>1, <1>5, Sizes
<1>7. Settled(CountStep(u, 1))
  BY <1>6, CountIs
<1>8. QED
  BY <1>1, <1>2, <1>3, <1>4, <1>5, <1>7 DEF Onwards

(* One instruction more.                                                    *)
LEMMA StepForm ==
  ASSUME NEW b, IsRing(b), ~ Interrupted(b.isa), NEW t, t = (b.tail + 1) % Size
  PROVE  IsaStep(b) =
           [isa |-> Onwards(Record(program, b.isa).state), db |-> [b.db EXCEPT ![t] = Record(program, b.isa)],
            head |-> b.head, tail |-> t, length |-> b.length + 1, oneEach |-> b.oneEach]
<1>1. PICK n : n = Onwards(Record(program, b.isa).state)
  OBVIOUS
<1>2. PICK e : e = Record(program, b.isa)
  OBVIOUS
<1>3. n = CountStep(UpdateTimer(StepOutcome(b.isa, program[b.isa.pc])), 1)
  BY <1>1 DEF Onwards, Record, Entry
<1>4. e = Entry(b.isa, StepOutcome(b.isa, program[b.isa.pc]), Trapping(program[b.isa.pc]))
  BY <1>2 DEF Record
<1>5. IsaStep(b) = [b EXCEPT !.isa = n, !.tail = t, !.length = @ + 1, !.db[t] = e]
  BY <1>3, <1>4 DEF IsaStep
<1>6. QED
  BY <1>1, <1>2, <1>5 DEF IsRing

LEMMA StepKeepsRing ==
  ASSUME NEW b, IsRing(b)
  PROVE  /\ IsaStep(b).oneEach => b.oneEach /\ ~ Interrupted(b.isa)
         /\ b.length < Size => IsRing(IsaStep(b))
         /\ IsaStep(b).length \in {b.length, b.length + 1}
<1>1. CASE Interrupted(b.isa)
  <2>1. PICK t, e : IsaStep(b) = [b EXCEPT !.isa = t, !.db[b.tail] = e, !.oneEach = FALSE]
    BY <1>1 DEF IsaStep
  <2>2. IsaStep(b) = [isa |-> t, db |-> [b.db EXCEPT ![b.tail] = e], head |-> b.head,
                      tail |-> b.tail, length |-> b.length, oneEach |-> FALSE]
    BY <2>1 DEF IsRing
  <2>3. QED
    BY <2>2 DEF IsRing
<1>2. CASE ~ Interrupted(b.isa)
  <2>1. PICK t : t = (b.tail + 1) % Size
    OBVIOUS
  <2>2. IsaStep(b) =
          [isa |-> Onwards(Record(program, b.isa).state), db |-> [b.db EXCEPT ![t] = Record(program, b.isa)],
           head |-> b.head, tail |-> t, length |-> b.length + 1, oneEach |-> b.oneEach]
    BY <1>2, <2>1, StepForm
  <2>3. QED
    BY <1>2, <2>2, Sizes DEF IsRing
<1>3. QED
  BY <1>1, <1>2

(* c is b with more records behind those of b.                              *)
Extends(b, c) ==
  /\ c.head = b.head
  /\ \A i \in 0 .. b.length - 1 : c.db[Place(b, i)] = b.db[Place(b, i)]

LEMMA StepKeepsChain ==
  ASSUME program \in [Addr -> Kinds], NEW b, NEW s, IsRing(b), Chain(program, b, s), b.length < Size,
         ~ Interrupted(b.isa), NEW c, c = IsaStep(b)
  PROVE  Chain(program, c, s) /\ Extends(b, c) /\ c.length = b.length + 1
<1>1. /\ b.head \in 0 .. Size - 1 /\ b.length \in 0 .. Size /\ Size \in Nat \ {0}
      /\ b.db = [e \in 0 .. Size - 1 |-> b.db[e]]
  BY Sizes DEF Chain
<1>2. PICK t : t = (b.tail + 1) % Size
  OBVIOUS
<1>3. t = Place(b, b.length) /\ t \in 0 .. Size - 1
  BY <1>2, TailIs
<1>4. PICK e : e = Record(program, b.isa)
  OBVIOUS
<1>5. c = [isa |-> Onwards(e.state), db |-> [b.db EXCEPT ![t] = e], head |-> b.head, tail |-> t,
           length |-> b.length + 1, oneEach |-> b.oneEach]
  BY <1>2, <1>4, StepForm
<1>6. /\ c.isa = Onwards(e.state) /\ c.db = [b.db EXCEPT ![t] = e] /\ c.head = b.head
      /\ c.tail = t /\ c.length = b.length + 1
  BY <1>5
<1>7. \A i \in 0 .. Size : Place(c, i) = Place(b, i)
  BY <1>6 DEF Place
<1>8. c.db[t] = e /\ c.db = [d \in 0 .. Size - 1 |-> c.db[d]]
  BY <1>1, <1>3, <1>6
<1>9. ASSUME NEW i \in 0 .. b.length - 1
      PROVE  c.db[Place(b, i)] = b.db[Place(b, i)]
  <2>1. i \in 0 .. Size - 1 /\ b.length \in 0 .. Size - 1 /\ i # b.length /\ i \in 0 .. Size
    BY <1>1
  <2>2. Place(b, i) # t
    BY <1>1, <1>3, <2>1, PlacesApart DEF Place
  <2>3. Place(b, i) \in 0 .. Size - 1
    BY <1>1, <2>1, PlaceIs DEF Place
  <2>4. QED
    BY <1>1, <1>6, <2>2, <2>3
<1>10. ASSUME NEW i \in 0 .. b.length
       PROVE  Before(c, s, i) = Before(b, s, i)
  <2>1. CASE i = 0
    BY <2>1 DEF Before
  <2>2. CASE i # 0
    <3>1. i - 1 \in 0 .. b.length - 1 /\ i - 1 \in 0 .. Size
      BY <1>1, <2>2
    <3>2. QED
      BY <1>7, <1>9, <2>2, <3>1 DEF Before
  <2>3. QED
    BY <2>1, <2>2
<1>11. b.isa = Before(b, s, b.length) /\ b.length \in 0 .. b.length
       /\ \A i \in 0 .. b.length : Settled(Before(b, s, i))
  BY <1>1 DEF Chain
<1>12. Before(c, s, c.length) = c.isa
  <2>1. c.length # 0 /\ c.length - 1 = b.length /\ b.length \in 0 .. Size
    BY <1>1, <1>6
  <2>2. Place(c, c.length - 1) = t
    BY <1>3, <1>7, <2>1
  <2>3. QED
    BY <1>6, <1>8, <2>1, <2>2 DEF Before
<1>13. Settled(c.isa)
  BY <1>4, <1>6, <1>11, RecordIs
<1>14. \A i \in 0 .. c.length : Settled(Before(c, s, i))
  <2>1. \A i \in 0 .. c.length : i \in 0 .. b.length \/ i = c.length
    BY <1>1, <1>6
  <2>2. QED
    BY <1>10, <1>11, <1>12, <1>13, <2>1
<1>15. ASSUME NEW i \in 0 .. c.length - 1
       PROVE  c.db[Place(c, i)] = Record(program, Before(c, s, i))
  <2>1. i \in 0 .. b.length /\ i \in 0 .. Size
    BY <1>1, <1>6
  <2>2. CASE i = b.length
    BY <1>3, <1>4, <1>7, <1>8, <1>10, <1>11, <2>1, <2>2
  <2>3. CASE i # b.length
    <3>1. i \in 0 .. b.length - 1
      BY <1>1, <2>1, <2>3
    <3>2. b.db[Place(b, i)] = Record(program, Before(b, s, i))
      BY <3>1 DEF Chain
    <3>3. QED
      BY <1>7, <1>9, <1>10, <2>1, <3>1, <3>2
  <2>4. QED
    BY <2>2, <2>3
<1>16. c.tail = Place(c, IF c.length = 0 THEN Size - 1 ELSE c.length - 1)
  <2>1. c.length # 0 /\ c.length - 1 = b.length /\ b.length \in 0 .. Size
    BY <1>1, <1>6
  <2>2. QED
    BY <1>3, <1>6, <1>7, <2>1
<1>17. c.head \in 0 .. Size - 1 /\ c.length \in 0 .. Size
  BY <1>1, <1>6
<1>18. Chain(program, c, s)
  BY <1>8, <1>12, <1>14, <1>15, <1>16, <1>17 DEF Chain
<1>19. QED
  BY <1>6, <1>9, <1>18 DEF Extends


----------------------------------------------------------------------------
(* Running ahead.                                                           *)
LEMMA CalmOutcome ==
  ASSUME NEW s \in States, NEW k \in Kinds, k # "csrenable", ~ s.ei, ~ s.pei
  PROVE  ~ StepOutcome(s, k).ei /\ ~ StepOutcome(s, k).pei
<1>1. CASE Serializing(s, k)
  <2>1. StepOutcome(s, k) = [s EXCEPT !.serialized = TRUE]
    BY <1>1, TriedOnce DEF StepOutcome
  <2>2. QED
    BY <2>1 DEF States
<1>2. CASE ~ Serializing(s, k) /\ Trapping(k)
  BY <1>2 DEF StepOutcome, TakeTrap, States
<1>3. CASE ~ Serializing(s, k) /\ ~ Trapping(k)
  <2>1. StepOutcome(s, k) = Execute(s, k)
    BY <1>3 DEF StepOutcome
  <2>2. CASE k = "op"
    BY <2>1, <2>2 DEF Execute, States
  <2>3. CASE k = "br"
    BY <2>1, <2>3 DEF Execute, States
  <2>4. CASE k = "csrcount"
    BY <2>1, <2>4 DEF Execute, States
  <2>5. CASE k = "csrcompare"
    BY <2>1, <2>5 DEF Execute, States
  <2>6. CASE k = "csrhost"
    BY <2>1, <2>6 DEF Execute, Tick, States
  <2>7. CASE k = "sret"
    BY <2>1, <2>7 DEF Execute, States
  <2>8. QED
    BY <1>3, <2>2, <2>3, <2>4, <2>5, <2>6, <2>7 DEF Kinds, Trapping
<1>4. QED
  BY <1>1, <1>2, <1>3

(* The same of the state that follows, when timer and host have moved.      *)
LEMMA CalmNext ==
  ASSUME NEW t \in States, ~ t.ei, ~ t.pei, NEW n \in Nat, t.step + n <= INTERLEAVE
  PROVE  ~ CountStep(UpdateTimer(t), n).ei /\ ~ CountStep(UpdateTimer(t), n).pei
<1>1. PICK u \in States : u = UpdateTimer(t) /\ u.step = t.step /\ u.ei = t.ei /\ u.pei = t.pei
  BY TimerIs
<1>2. CountStep(u, n).ei = u.ei /\ CountStep(u, n).pei = u.pei
  BY <1>1, CountIs
<1>3. QED
  BY <1>1, <1>2

(* c is the ring b after n steps, if s was before its first record.         *)
Fed(b, s, c, n) ==
  /\ IsRing(c) /\ c.length <= b.length + n
  /\ c.oneEach => b.oneEach
  /\ Chain(program, b, s) /\ c.oneEach => Chain(program, c, s) /\ Extends(b, c) /\ c.length = b.length + n
  /\ Quiet(program) /\ Calm(b) /\ Chain(program, b, s) => Calm(c)

LEMMA FedOn ==
  ASSUME program \in [Addr -> Kinds], NEW b, IsRing(b), NEW s, NEW c, NEW n \in Nat,
         Fed(b, s, c, n), n < Size - b.length
  PROVE  Fed(b, s, IsaStep(c), n + 1)
<1>1. PICK d : d = IsaStep(c)
  OBVIOUS
<1>2. IsRing(c) /\ b.length \in Int /\ c.length \in Int /\ c.length <= b.length + n /\ Size \in Nat
  BY Sizes DEF Fed, IsRing
<1>3. /\ d.oneEach => c.oneEach /\ ~ Interrupted(c.isa)
      /\ IsRing(d) /\ d.length <= b.length + (n + 1)
  <2>1. c.length < Size
    BY <1>2
  <2>2. d.length \in {c.length, c.length + 1}
    BY <1>1, <1>2, StepKeepsRing
  <2>3. QED
    BY <1>1, <1>2, <2>1, <2>2, StepKeepsRing
<1>4. ASSUME Chain(program, b, s), c.oneEach, ~ Interrupted(c.isa)
      PROVE  Chain(program, d, s) /\ Extends(b, d) /\ d.length = b.length + (n + 1) /\ d.oneEach = c.oneEach
             /\ d.isa = Onwards(Record(program, c.isa).state) /\ Settled(c.isa)
  <2>1. Chain(program, c, s) /\ Extends(b, c) /\ c.length = b.length + n
    BY <1>4 DEF Fed
  <2>2. Chain(program, d, s) /\ Extends(c, d) /\ d.length = c.length + 1
    <3>1. c.length < Size
      BY <1>2, <2>1
    <3>2. QED
      BY <1>1, <1>2, <1>4, <2>1, <3>1, StepKeepsChain
  <2>3. \A i \in 0 .. b.length - 1 : i \in 0 .. c.length - 1 /\ Place(c, i) = Place(b, i)
    BY <1>2, <2>1 DEF Extends, Place
  <2>4. Extends(b, d)
    BY <2>1, <2>2, <2>3 DEF Extends
  <2>5. d.oneEach = c.oneEach /\ d.isa = Onwards(Record(program, c.isa).state)
    <3>1. PICK t : t = (c.tail + 1) % Size
      OBVIOUS
    <3>2. d = [isa |-> Onwards(Record(program, c.isa).state), db |-> [c.db EXCEPT ![t] = Record(program, c.isa)],
               head |-> c.head, tail |-> t, length |-> c.length + 1, oneEach |-> c.oneEach]
      BY <1>1, <1>2, <1>4, <3>1, StepForm
    <3>3. QED
      BY <3>2
  <2>6. Settled(c.isa)
    <3>1. c.length \in 0 .. c.length /\ c.isa = Before(c, s, c.length)
      BY <2>1 DEF Chain
    <3>2. QED
      BY <2>1, <3>1 DEF Chain
  <2>7. QED
    BY <1>2, <2>1, <2>2, <2>4, <2>5, <2>6
<1>5. ASSUME Quiet(program), Calm(b), Chain(program, b, s)
      PROVE  Calm(d)
  <2>1. c.oneEach /\ ~ c.isa.ei /\ ~ c.isa.pei
    BY <1>5 DEF Fed, Calm
  <2>2. ~ Interrupted(c.isa)
    BY <2>1 DEF Interrupted
  <2>3. d.oneEach /\ d.isa = Onwards(Record(program, c.isa).state) /\ Settled(c.isa)
    BY <1>4, <1>5, <2>1, <2>2
  <2>4. PICK k \in Kinds : k = program[c.isa.pc] /\ k # "csrenable"
        /\ Record(program, c.isa).state = StepOutcome(c.isa, k)
    BY <1>5, <2>3, RecordIs DEF Quiet
  <2>5. PICK x \in States : x = c.isa /\ x.step < INTERLEAVE
    BY <2>3 DEF Settled
  <2>6. PICK t \in States : t = Record(program, c.isa).state /\ t.step = x.step /\ ~ t.ei /\ ~ t.pei
    BY <2>1, <2>4, <2>5, OutcomeIs, CalmOutcome
  <2>7. t.step + 1 <= INTERLEAVE
    BY <2>5, <2>6, Sizes DEF States
  <2>8. ~ d.isa.ei /\ ~ d.isa.pei
    BY <2>3, <2>6, <2>7, CalmNext DEF Onwards
  <2>9. QED
    BY <2>3, <2>8 DEF Calm
<1>6. Fed(b, s, d, n + 1)
  BY <1>3, <1>4, <1>5 DEF Fed
<1>7. QED
  BY <1>1, <1>6

LEMMA RunAheadIs ==
  ASSUME program \in [Addr -> Kinds], NEW b, IsRing(b), NEW s
  PROVE  Fed(b, s, RunAhead(b), Size - b.length)
<1> DEFINE len == Size - b.length
           Stepped(g, m) == IF m = 0 THEN b ELSE IsaStep(g[m - 1])
           Follows(g, m) == g = [n \in 0 .. m |-> Stepped(g, n)]
           T == {m \in Nat : \E g : Follows(g, m)}
           U(g) == {m \in Nat : m \in 0 .. len => Fed(b, s, g[m], m)}
<1>1. len \in Nat /\ len = Hungry(b)
  BY Sizes DEF IsRing, Hungry
<1> HIDE DEF len
<1>2. 0 \in T
  <2> DEFINE f == [n \in 0 .. 0 |-> b]
  <2>1. \A n \in 0 .. 0 : Stepped(f, n) = b
    OBVIOUS
  <2>2. Follows(f, 0)
    BY <2>1
  <2>3. QED
    BY <2>2
<1>3. ASSUME NEW m \in T PROVE m + 1 \in T
  <2>1. PICK g : Follows(g, m)
    BY <1>3
  <2>2. m \in Nat
    BY <1>3
  <2> DEFINE f == [n \in 0 .. m + 1 |-> IF n = m + 1 THEN IsaStep(g[m]) ELSE g[n]]
  <2>3. ASSUME NEW n \in 0 .. m + 1 PROVE f[n] = Stepped(f, n)
    <3>1. CASE n = m + 1
      <4>1. n # 0 /\ n - 1 = m /\ m \in 0 .. m + 1 /\ m # m + 1
        BY <2>2, <3>1
      <4>2. f[n] = IsaStep(g[m]) /\ f[n - 1] = g[m]
        BY <3>1, <4>1
      <4>3. QED
        BY <3>1, <4>1, <4>2
    <3>2. CASE n # m + 1 /\ n = 0
      <4>1. n \in 0 .. m
        BY <2>2, <3>2
      <4>2. f[n] = g[n] /\ g[n] = b
        BY <2>1, <3>2, <4>1
      <4>3. QED
        BY <3>2, <4>2
    <3>3. CASE n # m + 1 /\ n # 0
      <4>1. n \in 0 .. m /\ n - 1 \in 0 .. m + 1 /\ n - 1 # m + 1
        BY <2>2, <3>3
      <4>2. f[n] = g[n] /\ f[n - 1] = g[n - 1]
        BY <3>3, <4>1
      <4>3. g[n] = IsaStep(g[n - 1])
        BY <2>1, <3>3, <4>1
      <4>4. QED
        BY <3>3, <4>2, <4>3
    <3>4. QED
      BY <3>1, <3>2, <3>3
  <2>4. f = [n \in 0 .. m + 1 |-> f[n]]
    OBVIOUS
  <2> HIDE DEF f, Stepped
  <2>5. f = [n \in 0 .. m + 1 |-> Stepped(f, n)]
    BY <2>3, <2>4
  <2>6. QED
    BY <2>2, <2>5
<1>4. T \in SUBSET Nat /\ len \in 0 .. len /\ \A k \in T : k < len => k + 1 \in T
  <2>1. T \in SUBSET Nat
    OBVIOUS
  <2> HIDE DEF T
  <2>2. QED
    BY <1>1, <1>3, <2>1
<1>5. len \in T
  <2> HIDE DEF T
  <2>1. QED
    BY <1>1, <1>2, <1>4, HandedOn
<1>6. \E g : Follows(g, len)
  BY <1>5
<1>7. PICK g : Follows(g, len) /\ RunAhead(b) = g[len]
  <2>1. RunAhead(b) = (CHOOSE g : Follows(g, len))[len]
    BY <1>1 DEF RunAhead
  <2> HIDE DEF Follows
  <2>2. QED
    BY <1>6, <2>1
<1>8. 0 \in U(g)
  <2>1. g[0] = b
    BY <1>1, <1>7
  <2>2. Fed(b, s, b, 0)
    BY DEF Fed, IsRing, Extends
  <2>3. QED
    BY <2>1, <2>2
<1>9. ASSUME NEW m \in U(g), m < len PROVE m + 1 \in U(g)
  <2>1. m \in 0 .. len /\ m + 1 \in 1 .. len /\ m + 1 - 1 = m /\ m + 1 # 0
        /\ m + 1 \in 0 .. len /\ m \in Nat
    BY <1>1, <1>9
  <2>2. Fed(b, s, g[m], m)
    BY <1>9, <2>1
  <2>3. g[m + 1] = IsaStep(g[m])
    BY <1>7, <2>1
  <2>4. m < Size - b.length
    BY <1>9 DEF len
  <2>5. Fed(b, s, g[m + 1], m + 1)
    BY <2>1, <2>2, <2>3, <2>4, FedOn
  <2>6. QED
    BY <1>9, <2>5
<1>10. U(g) \in SUBSET Nat /\ \A k \in U(g) : k < len => k + 1 \in U(g)
  BY <1>9
<1>11. len \in U(g)
  <2> HIDE DEF U
  <2>1. QED
    BY <1>1, <1>4, <1>8, <1>10, HandedOn
<1>12. Fed(b, s, g[len], len)
  BY <1>4, <1>11
<1>13. QED
  BY <1>7, <1>12 DEF len

(* The ring filled up, and without its first record.                        *)
Popped(c, d) ==
  d = [isa |-> c.isa, db |-> c.db, head |-> (c.head + 1) % Size, tail |-> c.tail,
       length |-> c.length - 1, oneEach |-> c.oneEach]

LEMMA PopKeepsChain ==
  ASSUME NEW c, NEW s, Chain(program, c, s), c.length > 0, NEW d, Popped(c, d)
  PROVE  /\ Chain(program, d, Before(c, s, 1)) /\ d.length = c.length - 1 /\ c.length \in Nat
         /\ \A i \in 0 .. c.length - 1 : Place(d, i) = Place(c, i + 1)
         /\ \A i \in 0 .. c.length - 1 : Before(d, Before(c, s, 1), i) = Before(c, s, i + 1)
<1>1. /\ Size \in Nat \ {0} /\ c.head \in 0 .. Size - 1 /\ c.length \in 1 .. Size
      /\ c.length \in Nat
  BY Sizes DEF Chain
<1>2. /\ d.isa = c.isa /\ d.db = c.db /\ d.head = (c.head + 1) % Size /\ d.tail = c.tail
      /\ d.length = c.length - 1
  BY DEF Popped
<1>3. d.head \in 0 .. Size - 1
  <2>1. 1 \in 0 .. Size
    BY <1>1
  <2>2. QED
    BY <1>1, <1>2, <2>1, PlaceIs
<1>4. ASSUME NEW i \in 0 .. Size - 1
      PROVE  Place(d, i) = Place(c, i + 1)
  <2>1. 1 \in Nat /\ i \in Nat /\ 1 + i <= Size /\ 1 + i = i + 1
    BY <1>1
  <2>2. (((c.head + 1) % Size) + i) % Size = (c.head + (1 + i)) % Size
    BY <1>1, <2>1, PlaceOnwards
  <2>3. QED
    BY <1>2, <2>1, <2>2 DEF Place
<1>5. ASSUME NEW i \in 0 .. c.length - 1
      PROVE  Before(d, Before(c, s, 1), i) = Before(c, s, i + 1)
  <2>1. CASE i = 0
    BY <2>1 DEF Before
  <2>2. CASE i # 0
    <3>1. i - 1 \in 0 .. Size - 1 /\ i - 1 + 1 = i /\ i + 1 # 0 /\ i + 1 - 1 = i
      BY <1>1, <2>2
    <3>2. Place(d, i - 1) = Place(c, i)
      BY <1>4, <3>1
    <3>3. QED
      BY <1>2, <2>2, <3>1, <3>2 DEF Before
  <2>3. QED
    BY <2>1, <2>2
<1>6. \A i \in 0 .. d.length : i \in 0 .. c.length - 1 /\ i + 1 \in 0 .. c.length
  BY <1>1, <1>2
<1>7. \A i \in 0 .. d.length : Settled(Before(d, Before(c, s, 1), i))
  BY <1>5, <1>6 DEF Chain
<1>8. ASSUME NEW i \in 0 .. d.length - 1
      PROVE  d.db[Place(d, i)] = Record(program, Before(d, Before(c, s, 1), i))
  <2>1. i \in 0 .. Size - 1 /\ i \in 0 .. c.length - 1 /\ i + 1 \in 0 .. c.length - 1
    BY <1>1, <1>2
  <2>2. c.db[Place(c, i + 1)] = Record(program, Before(c, s, i + 1))
    BY <2>1 DEF Chain
  <2>3. QED
    BY <1>2, <1>4, <1>5, <2>1, <2>2
<1>9. d.isa = Before(d, Before(c, s, 1), d.length)
  <2>1. d.length \in 0 .. c.length - 1 /\ d.length + 1 = c.length
    BY <1>1, <1>2
  <2>2. QED
    BY <1>2, <1>5, <2>1 DEF Chain
<1>10. d.tail = Place(d, IF d.length = 0 THEN Size - 1 ELSE d.length - 1)
  <2>1. c.length # 0
    BY <1>1
  <2>2. d.tail = Place(c, c.length - 1)
    BY <1>2, <2>1 DEF Chain
  <2>3. CASE d.length = 0
    <3>1. Size - 1 \in 0 .. Size - 1 /\ Size - 1 + 1 = Size /\ c.length - 1 = 0
      BY <1>1, <1>2, <2>3
    <3>2. Place(d, Size - 1) = Place(c, Size)
      BY <1>4, <3>1
    <3>3. Place(c, Size) = Place(c, 0)
      <4>1. PICK h \in 0 .. Size - 1 : h = c.head
        BY <1>1
      <4>2. Size \in 0 .. Size /\ 0 \in 0 .. Size
        BY <1>1
      <4>3. /\ (h + Size) % Size = IF h + Size < Size THEN h + Size ELSE h + Size - Size
            /\ (h + 0) % Size = IF h + 0 < Size THEN h + 0 ELSE h + 0 - Size
        BY <4>2, PlaceIs
      <4>4. ~ (h + Size < Size) /\ h + Size - Size = h /\ h + 0 = h /\ h < Size
        BY <1>1
      <4>5. (h + Size) % Size = h /\ (h + 0) % Size = h
        BY <4>3, <4>4, Zenon
      <4>6. QED
        BY <4>1, <4>5 DEF Place
    <3>4. QED
      BY <2>2, <2>3, <3>1, <3>2, <3>3
  <2>4. CASE d.length # 0
    <3>1. d.length - 1 \in 0 .. Size - 1 /\ d.length - 1 + 1 = c.length - 1
      BY <1>1, <1>2, <2>4
    <3>2. QED
      BY <1>4, <2>2, <2>4, <3>1
  <2>5. QED
    BY <2>3, <2>4
<1>11. d.length \in 0 .. Size
  BY <1>1, <1>2
<1>12. Chain(program, d, Before(c, s, 1))
  BY <1>2, <1>3, <1>7, <1>8, <1>9, <1>10, <1>11 DEF Chain
<1>13. \A i \in 0 .. c.length - 1 : Place(d, i) = Place(c, i + 1)
  <2>1. \A i \in 0 .. c.length - 1 : i \in 0 .. Size - 1
    BY <1>1
  <2>2. QED
    BY <1>4, <2>1
<1>14. QED
  BY <1>1, <1>2, <1>5, <1>12, <1>13

----------------------------------------------------------------------------
(* What is in flight: the bit of the register at each instruction.          *)
Ops(g, p, n) == {j \in 1 .. n - 1 : g[p[j].pc] = "op"}

LEMMA OpsAre ==
  ASSUME NEW g, NEW p, NEW n \in Nat
  PROVE  /\ IsFiniteSet(Ops(g, p, n)) /\ Cardinality(Ops(g, p, n)) \in Nat
         /\ Ops(g, p, 1) = {} /\ Cardinality({}) = 0
         /\ n > 0 => Cardinality(Ops(g, p, n + 1)) = Cardinality(Ops(g, p, n))
                                                     + IF g[p[n].pc] = "op" THEN 1 ELSE 0
<1>1. IsFiniteSet(1 .. n - 1)
  BY FS_Interval
<1>2. Ops(g, p, n) \in SUBSET (1 .. n - 1)
  BY DEF Ops
<1>3. IsFiniteSet(Ops(g, p, n))
  BY <1>1, <1>2, FS_Subset
<1>4. Cardinality(Ops(g, p, n)) \in Nat
  BY <1>3, FS_CardinalityType
<1>5. ASSUME n > 0
      PROVE  Cardinality(Ops(g, p, n + 1)) = Cardinality(Ops(g, p, n)) + IF g[p[n].pc] = "op" THEN 1 ELSE 0
  <2>1. CASE g[p[n].pc] = "op"
    <3>1. Ops(g, p, n + 1) = Ops(g, p, n) \cup {n} /\ n \notin Ops(g, p, n)
      BY <1>5, <2>1 DEF Ops
    <3>2. QED
      BY <1>3, <2>1, <3>1, FS_AddElement
  <2>2. CASE g[p[n].pc] # "op"
    <3>1. Ops(g, p, n + 1) = Ops(g, p, n)
      BY <1>5, <2>2 DEF Ops
    <3>2. QED
      BY <1>4, <2>2, <3>1
  <2>3. QED
    BY <2>1, <2>2
<1>6. Ops(g, p, 1) = {} /\ Cardinality({}) = 0
  BY FS_EmptySet DEF Ops
<1>7. QED
  BY <1>3, <1>4, <1>5, <1>6

LEMMA BitAtIs ==
  ASSUME NEW g, NEW p, NEW r \in Bits, NEW n \in Nat \ {0}
  PROVE  /\ BitAt(g, p, r, n) \in Bits /\ BitAt(g, p, r, 1) = r
         /\ BitAt(g, p, r, n + 1) = IF g[p[n].pc] = "op" THEN 1 - BitAt(g, p, r, n) ELSE BitAt(g, p, r, n)
<1>1. PICK c \in Nat : c = Cardinality(Ops(g, p, n))
  BY OpsAre
<1>2. BitAt(g, p, r, n) = (r + c) % 2 /\ r \in {0, 1}
  BY <1>1 DEF BitAt, Ops, Bits
<1>3. BitAt(g, p, r, 1) = (r + 0) % 2
  <2>1. Ops(g, p, 1) = {} /\ Cardinality({}) = 0
    BY OpsAre
  <2>2. QED
    BY <2>1 DEF BitAt, Ops
<1>4. BitAt(g, p, r, n + 1) = (r + (c + IF g[p[n].pc] = "op" THEN 1 ELSE 0)) % 2
  <2>1. Cardinality(Ops(g, p, n + 1)) = c + IF g[p[n].pc] = "op" THEN 1 ELSE 0
    BY <1>1, OpsAre
  <2>2. QED
    BY <2>1 DEF BitAt, Ops
<1>5. (r + c) % 2 \in {0, 1} /\ (r + (c + 1)) % 2 = 1 - ((r + c) % 2) /\ (r + 0) % 2 = r
      /\ (r + (c + 0)) % 2 = (r + c) % 2
  BY <1>2
<1>6. QED
  BY <1>2, <1>3, <1>4, <1>5 DEF Bits

LEMMA BitAtNext ==
  ASSUME NEW g, NEW p, NEW r \in Bits, NEW n \in Nat \ {0}
  PROVE  BitAt(g, p, r, n + 1) = IF g[p[n].pc] = "op" THEN 1 - BitAt(g, p, r, n) ELSE BitAt(g, p, r, n)
BY BitAtIs

(* Only the instructions before the n-th matter.                            *)
LEMMA BitAtSame ==
  ASSUME NEW g, NEW p, NEW q, NEW r, NEW n \in Nat, \A j \in 1 .. n - 1 : q[j].pc = p[j].pc
  PROVE  BitAt(g, q, r, n) = BitAt(g, p, r, n)
<1>1. Ops(g, q, n) = Ops(g, p, n)
  BY DEF Ops
<1>2. QED
  BY <1>1 DEF BitAt, Ops

LEMMA GoesToSame ==
  ASSUME NEW g, NEW p, NEW q, NEW r, NEW n \in Nat, \A j \in 1 .. n - 1 : q[j].pc = p[j].pc,
         q[n].pc = p[n].pc
  PROVE  GoesTo(g, q, r, n) = GoesTo(g, p, r, n)
BY BitAtSame DEF GoesTo

(* q is p without its first instruction.                                    *)
Shifted(p, q, n) == \A j \in 1 .. n - 1 : q[j].pc = p[j + 1].pc

SameBits(g, p, q, r, n) == \A m \in 1 .. n : BitAt(g, q, BitAt(g, p, r, 2), m) = BitAt(g, p, r, m + 1)

LEMMA BitAtTail ==
  ASSUME NEW g, NEW p, NEW q, NEW r \in Bits, NEW n \in Nat \ {0}, Shifted(p, q, n)
  PROVE  SameBits(g, p, q, r, n)
<1> SUFFICES ASSUME NEW m \in 1 .. n PROVE BitAt(g, q, BitAt(g, p, r, 2), m) = BitAt(g, p, r, m + 1)
  BY DEF SameBits
<1> DEFINE T == {k \in Nat : k + 1 \in 1 .. n => BitAt(g, q, BitAt(g, p, r, 2), k + 1) = BitAt(g, p, r, k + 1 + 1)}
<1>1. PICK t \in Bits : t = BitAt(g, p, r, 2)
  <2>1. PICK k \in Nat \ {0} : k = 2
    OBVIOUS
  <2>2. BitAt(g, p, r, k) \in Bits
    BY BitAtIs
  <2>3. QED
    BY <2>1, <2>2
<1>2. 0 \in T
  <2>1. BitAt(g, q, t, 0 + 1) = t /\ BitAt(g, p, r, 0 + 1 + 1) = t
    BY <1>1, BitAtIs
  <2>2. QED
    BY <1>1, <2>1
<1>3. ASSUME NEW k \in T PROVE k + 1 \in T
  <2>1. k \in Nat /\ k + 1 \in Nat \ {0} /\ k + 1 + 1 \in Nat \ {0} /\ k + 1 \in Nat
    BY <1>3
  <2>2. SUFFICES ASSUME k + 1 + 1 \in 1 .. n
                 PROVE  BitAt(g, q, t, k + 1 + 1) = BitAt(g, p, r, k + 1 + 1 + 1)
    BY <1>1, <2>1
  <2>3. k + 1 \in 1 .. n /\ k + 1 \in 1 .. n - 1
    BY <2>1, <2>2
  <2>4. PICK i, j \in Nat \ {0} : i = k + 1 /\ j = k + 1 + 1
    BY <2>1
  <2>5. BitAt(g, q, t, i) = BitAt(g, p, r, j)
    BY <1>1, <1>3, <2>3, <2>4
  <2>6. BitAt(g, q, t, i + 1) = IF g[q[i].pc] = "op" THEN 1 - BitAt(g, q, t, i) ELSE BitAt(g, q, t, i)
    BY BitAtNext
  <2>7. BitAt(g, p, r, j + 1) = IF g[p[j].pc] = "op" THEN 1 - BitAt(g, p, r, j) ELSE BitAt(g, p, r, j)
    BY BitAtNext
  <2>8. q[i].pc = p[j].pc
    BY <2>3, <2>4 DEF Shifted
  <2>9. BitAt(g, q, t, i + 1) = BitAt(g, p, r, j + 1)
    BY <2>5, <2>6, <2>7, <2>8
  <2>10. QED
    BY <2>4, <2>9
<1>4. m - 1 \in Nat /\ m - 1 + 1 = m /\ m - 1 \in 0 .. m - 1
  OBVIOUS
<1>5. T \in SUBSET Nat /\ \A k \in T : k < m - 1 => k + 1 \in T
  BY <1>3
<1>6. m - 1 \in T
  <2> HIDE DEF T
  <2>1. QED
    BY <1>2, <1>4, <1>5, HandedOn
<1>7. BitAt(g, q, BitAt(g, p, r, 2), m - 1 + 1) = BitAt(g, p, r, m - 1 + 1 + 1)
  BY <1>4, <1>6
<1>8. QED
  BY <1>4, <1>7

----------------------------------------------------------------------------
(* What the parts of the invariant say of one another.                      *)
LEMMA PresentIs ==
  ASSUME NEW m, NEW n, NEW most, NEW turn, Cycling(m, n, most, turn)
  PROVE  /\ m \in States /\ n \in Nat /\ m.step + n <= INTERLEAVE
         /\ Settled(CountStep(m, n)) /\ CountStep(m, n).pc = m.pc /\ CountStep(m, n).r = m.r
         /\ n < most => CountStep(m, n) = Counting(m, n)
<1>1. m \in States /\ m.step \in Nat /\ n \in Nat /\ most \in Nat /\ INTERLEAVE \in Nat
  BY Sizes DEF Cycling, Settled, States
<1>2. m.step + n <= INTERLEAVE /\ (n < most => m.step + n < INTERLEAVE)
  BY <1>1 DEF Cycling
<1>3. QED
  BY <1>1, <1>2, CountIs

LEMMA OnwardsIs ==
  ASSUME NEW s, Settled(s), NEW k \in Kinds
  PROVE  /\ Onwards(StepOutcome(s, k)).pc = StepOutcome(s, k).pc
         /\ Onwards(StepOutcome(s, k)).r = StepOutcome(s, k).r
<1>1. PICK t \in States : t = StepOutcome(s, k) /\ t.step = s.step
  BY OutcomeIs DEF Settled
<1>2. PICK u \in States : u = UpdateTimer(t) /\ u.step = t.step /\ u.pc = t.pc /\ u.r = t.r
  BY TimerIs
<1>3. u.step + 1 <= INTERLEAVE
  BY <1>1, <1>2, Sizes DEF Settled, States
<1>4. CountStep(u, 1).pc = u.pc /\ CountStep(u, 1).r = u.r
  BY <1>3, CountIs
<1>5. QED
  BY <1>1, <1>2, <1>4 DEF Onwards

(* Only op changes the register while something younger is in flight.       *)
LEMMA PlainOutcome ==
  ASSUME NEW s \in States, NEW k \in Kinds, ~ Serial(k)
  PROVE  /\ StepOutcome(s, k).r = IF k = "op" THEN 1 - s.r ELSE s.r
         /\ ~ Trapping(k) => k \in {"op", "br"} /\ ~ Serializing(s, k)
         /\ k = "op" => StepOutcome(s, k).pc = After(s.pc)
         /\ k = "br" => StepOutcome(s, k).pc = IF s.r = 1 THEN Target(s.pc) ELSE After(s.pc)
<1>1. k \in {"op", "br", "fault"} /\ ~ Serializing(s, k)
  BY DEF Kinds, Serial, Serializing, TriedTwice
<1>2. CASE k = "op"
  BY <1>1, <1>2 DEF StepOutcome, Execute, Trapping, States
<1>3. CASE k = "br"
  BY <1>1, <1>3 DEF StepOutcome, Execute, Trapping, States
<1>4. CASE k = "fault"
  BY <1>1, <1>4 DEF StepOutcome, TakeTrap, Trapping, States
<1>5. QED
  BY <1>1, <1>2, <1>3, <1>4

(* A record of the chain, and what follows it.                              *)
LEMMA RecordAt ==
  ASSUME program \in [Addr -> Kinds], NEW b, NEW s, Chain(program, b, s), NEW i \in Nat, i < b.length
  PROVE  /\ Settled(Before(b, s, i)) /\ b.db[Place(b, i)] = Record(program, Before(b, s, i))
         /\ b.db[Place(b, i)].pc = Before(b, s, i).pc
         /\ b.db[Place(b, i)].next = Before(b, s, i + 1).pc
         /\ program[Before(b, s, i).pc] \in Kinds
         /\ ~ Serial(program[Before(b, s, i).pc]) =>
              Before(b, s, i + 1).r = IF program[Before(b, s, i).pc] = "op" THEN 1 - Before(b, s, i).r
                                      ELSE Before(b, s, i).r
<1>1. b.length \in Nat /\ i \in 0 .. b.length /\ i \in 0 .. b.length - 1 /\ i + 1 # 0 /\ i + 1 - 1 = i
  BY Sizes DEF Chain
<1>2. PICK t : t = Before(b, s, i)
  OBVIOUS
<1>3. Settled(t) /\ b.db[Place(b, i)] = Record(program, t)
  BY <1>1, <1>2 DEF Chain
<1>4. /\ program[t.pc] \in Kinds /\ Record(program, t).pc = t.pc
      /\ Record(program, t).state = StepOutcome(t, program[t.pc])
      /\ Record(program, t).next = StepOutcome(t, program[t.pc]).pc
  BY <1>3, RecordIs
<1>5. Before(b, s, i + 1) = Onwards(b.db[Place(b, i)].state)
  BY <1>1 DEF Before
<1>6. PICK k \in Kinds : k = program[t.pc]
  BY <1>4
<1>7. Before(b, s, i + 1) = Onwards(StepOutcome(t, k))
  BY <1>3, <1>4, <1>5, <1>6
<1>8. /\ Onwards(StepOutcome(t, k)).pc = StepOutcome(t, k).pc
      /\ Onwards(StepOutcome(t, k)).r = StepOutcome(t, k).r
  BY <1>3, OnwardsIs
<1>9. t \in States
  BY <1>3 DEF Settled
<1>10. ~ Serial(k) => StepOutcome(t, k).r = IF k = "op" THEN 1 - t.r ELSE t.r
  BY <1>9, PlainOutcome
<1>11. QED
  BY <1>2, <1>3, <1>4, <1>6, <1>7, <1>8, <1>10

(* The place behind what is in flight has a record.                         *)
LEMMA ActiveIs ==
  ASSUME NEW s, Chain(program, Buffer, s), Buffer.length >= Size - 1, NEW i \in Nat, i < Size - 1
  PROVE  IsActive(Place(Buffer, i)) /\ i < Buffer.length
<1>1. /\ Buffer.head = dbg.head /\ Buffer.tail = dbg.tail /\ Buffer.length = dbg.length
  BY DEF Buffer
<1>2. PICK h, len \in Nat : h = dbg.head /\ len = dbg.length
  BY <1>1, Sizes DEF Chain
<1>3. Size \in Nat /\ h \in 0 .. Size - 1 /\ len \in 1 .. Size /\ i < len
      /\ i \in 0 .. Size /\ len - 1 \in 0 .. Size /\ i <= len - 1
  BY <1>1, <1>2, Sizes DEF Chain
<1>4. (h + i) % Size = IF h + i < Size THEN h + i ELSE h + i - Size
  BY <1>3, PlaceIs
<1>5. (h + (len - 1)) % Size = IF h + (len - 1) < Size THEN h + (len - 1) ELSE h + (len - 1) - Size
  BY <1>3, PlaceIs
<1>6. len # 0
  BY <1>3
<1>7. dbg.tail = (h + (len - 1)) % Size
  BY <1>1, <1>2, <1>6 DEF Chain, Place
<1>8. PICK t : t = dbg.tail /\ t = IF h + (len - 1) < Size THEN h + (len - 1) ELSE h + (len - 1) - Size
  BY <1>5, <1>7
<1>9. PICK e : e = Place(Buffer, i) /\ e = IF h + i < Size THEN h + i ELSE h + i - Size
  BY <1>1, <1>2, <1>4 DEF Place
<1>10. IF h <= t THEN e >= h /\ e <= t ELSE e >= h \/ e <= t
  BY <1>3, <1>8, <1>9
<1>11. IsActive(e)
  BY <1>2, <1>3, <1>8, <1>10 DEF IsActive
<1>12. QED
  BY <1>1, <1>2, <1>3, <1>9, <1>11

(* What the invariant says as long as no interrupt was taken.               *)
LEMMA InvIs ==
  ASSUME IInv, dbg.oneEach
  PROVE  /\ program \in [Addr -> Kinds] /\ IsRing(Buffer) /\ ~ aborted
         /\ Cycling(mic, instret, limit, lane) /\ Chain(program, Buffer, Present) /\ Buffer.length >= Size - 1
         /\ InFlight(program, pay, mic, pc, active) /\ OnRecord(program, pay, Buffer, Present)
         /\ Settled(Present) /\ Present.pc = mic.pc /\ Present.r = mic.r
         /\ mic \in States /\ mic.r \in Bits /\ mic.pc \in Addr
         /\ Buffer.head = dbg.head /\ Buffer.db = dbg.db
<1>1. /\ program \in [Addr -> Kinds] /\ IsRing(Buffer) /\ ~ aborted
      /\ Cycling(mic, instret, limit, lane) /\ Together(program, Buffer, Present, mic, pay, pc, active)
  BY Sizes DEF IInv, Addr
<1>2. Settled(Present) /\ Present.pc = mic.pc /\ Present.r = mic.r /\ mic \in States
  BY <1>1, PresentIs DEF Present
<1>3. QED
  BY <1>1, <1>2 DEF Together, States, Buffer

----------------------------------------------------------------------------
(* Fetching, and cutting the path back.                                     *)
(* The record that the next instruction to be fetched is mapped to.         *)
LEMMA MappedIs ==
  ASSUME IInv, dbg.oneEach, active, Len(pay) < MaxFlight, NEW n \in Nat, n = Len(pay)
  PROVE  /\ Mapped(pc).good \in BOOLEAN /\ Mapped(pc).db \in Nat
         /\ pay = <<>> => Mapped(pc).good
         /\ n > 0 => Mapped(pc).good = (pay[n].good /\ dbg.db[Place(Buffer, n - 1)].next = pc)
         /\ Mapped(pc).good =>
              /\ Mapped(pc).db = Place(Buffer, n)
              /\ dbg.db[Place(Buffer, n)].pc = pc
              /\ Before(Buffer, Present, n).r = BitAt(program, pay, Present.r, n + 1)
<1>1. /\ program \in [Addr -> Kinds]
      /\ Chain(program, Buffer, Present) /\ Buffer.length >= Size - 1
      /\ InFlight(program, pay, mic, pc, active) /\ OnRecord(program, pay, Buffer, Present)
      /\ Present.pc = mic.pc /\ Present.r = mic.r /\ mic.r \in Bits
      /\ Buffer.head = dbg.head /\ Buffer.db = dbg.db
  BY InvIs
<1>2. /\ Size \in Nat \ {0} /\ n < Size - 1 /\ dbg.head \in 0 .. Size - 1
      /\ pay \in Seq(Fetches) /\ None \in Nat
  BY <1>1, Sizes DEF Chain, InFlight, None
<1>3. IsActive(Place(Buffer, n)) /\ n < Buffer.length
  BY <1>1, <1>2, ActiveIs
<1>4. /\ dbg.db[Place(Buffer, n)].pc = Before(Buffer, Present, n).pc
  BY <1>1, <1>3, RecordAt
<1>5. CASE pay = <<>>
  <2>1. n = 0 /\ Mapped(pc) = [good |-> TRUE, db |-> dbg.head] /\ pc = mic.pc
    BY <1>1, <1>5 DEF Mapped, InFlight
  <2>2. Place(Buffer, 0) = dbg.head
    <3>1. 0 \in 0 .. Size
      BY <1>2
    <3>2. (dbg.head + 0) % Size = IF dbg.head + 0 < Size THEN dbg.head + 0 ELSE dbg.head + 0 - Size
      BY <1>2, <3>1, PlaceIs
    <3>3. dbg.head + 0 = dbg.head /\ dbg.head < Size
      BY <1>2
    <3>4. (dbg.head + 0) % Size = dbg.head
      BY <3>2, <3>3
    <3>5. QED
      BY <1>1, <3>4 DEF Place
  <2>3. Before(Buffer, Present, 0) = Present
    BY DEF Before
  <2>4. BitAt(program, pay, mic.r, 1) = mic.r
    BY <1>1, BitAtIs
  <2>5. dbg.head \in Nat
    BY <1>2
  <2>6. QED
    BY <1>1, <1>4, <1>5, <2>1, <2>2, <2>3, <2>4, <2>5
<1>6. CASE pay # <<>>
  <2>1. n \in 1 .. Len(pay) /\ n \in Nat \ {0} /\ n - 1 \in Nat /\ n - 1 < Buffer.length /\ n - 1 + 1 = n
        /\ n - 1 + 1 <= Size /\ n - 1 \in 0 .. Size
    <3>1. n > 0
      BY <1>2, <1>6, EmptySeq
    <3>2. Buffer.length \in Int /\ n \in 1 .. Len(pay)
      BY <1>1, <3>1, Sizes DEF Chain
    <3>3. QED
      BY <1>2, <1>3, <3>1, <3>2
  <2>2. Last(pay) = pay[n] /\ pay[n] \in Fetches
    BY <1>2, <2>1 DEF Last
  <2>3. /\ pc = pay[n].next
        /\ ~ Serial(program[pay[n].pc])
        /\ pay[n].good =>
             /\ pay[n].db = Place(Buffer, n - 1)
             /\ dbg.db[Place(Buffer, n - 1)].pc = pay[n].pc
             /\ Before(Buffer, Present, n - 1).r = BitAt(program, pay, Present.r, n)
    BY <1>1, <1>6, <2>1 DEF InFlight, OnRecord
  <2>4. /\ dbg.db[Place(Buffer, n - 1)].pc = Before(Buffer, Present, n - 1).pc
        /\ dbg.db[Place(Buffer, n - 1)].next = Before(Buffer, Present, n).pc
        /\ ~ Serial(program[Before(Buffer, Present, n - 1).pc]) =>
             Before(Buffer, Present, n).r =
               IF program[Before(Buffer, Present, n - 1).pc] = "op" THEN 1 - Before(Buffer, Present, n - 1).r
               ELSE Before(Buffer, Present, n - 1).r
    <3>1. PICK i \in Nat : i = n - 1 /\ i < Buffer.length /\ i + 1 = n
      BY <2>1
    <3>2. /\ Buffer.db[Place(Buffer, i)].pc = Before(Buffer, Present, i).pc
          /\ Buffer.db[Place(Buffer, i)].next = Before(Buffer, Present, i + 1).pc
          /\ ~ Serial(program[Before(Buffer, Present, i).pc]) =>
               Before(Buffer, Present, i + 1).r =
                 IF program[Before(Buffer, Present, i).pc] = "op" THEN 1 - Before(Buffer, Present, i).r
                 ELSE Before(Buffer, Present, i).r
      BY <1>1, <3>1, RecordAt
    <3>3. QED
      BY <1>1, <3>1, <3>2
  <2>5. (Place(Buffer, n - 1) + 1) % Size = Place(Buffer, n)
    <3>1. PICK i \in Nat : i = n - 1 /\ i + 1 <= Size /\ i + 1 = n
      BY <2>1
    <3>2. 1 \in Nat
      OBVIOUS
    <3>3. (((dbg.head + i) % Size) + 1) % Size = (dbg.head + (i + 1)) % Size
      BY <1>2, <3>1, <3>2, PlaceOnwards
    <3>4. QED
      BY <1>1, <3>1, <3>3 DEF Place
  <2>6. pay[n].good => (CheckNext(pay[n].db, pc) <=> dbg.db[Place(Buffer, n)].pc = pc)
    BY <1>3, <2>3, <2>5 DEF CheckNext
  <2>7. Place(Buffer, n) \in Nat
    <3>1. n \in 0 .. Size
      BY <1>2
    <3>2. (dbg.head + n) % Size \in 0 .. Size - 1
      BY <1>2, <3>1, PlaceIs
    <3>3. QED
      BY <1>1, <1>2, <3>2 DEF Place
  <2>8. CASE pay[n].good /\ dbg.db[Place(Buffer, n)].pc = pc
    <3>1. Mapped(pc) = [good |-> TRUE, db |-> Place(Buffer, n)]
      BY <1>6, <2>2, <2>3, <2>5, <2>6, <2>8 DEF Mapped
    <3>2. BitAt(program, pay, mic.r, n + 1) =
            IF program[pay[n].pc] = "op" THEN 1 - BitAt(program, pay, mic.r, n) ELSE BitAt(program, pay, mic.r, n)
      BY <1>1, <2>1, BitAtNext
    <3>3. Before(Buffer, Present, n).r = BitAt(program, pay, Present.r, n + 1)
      BY <1>1, <2>3, <2>4, <2>8, <3>2
    <3>4. Mapped(pc).good = TRUE /\ Mapped(pc).db = Place(Buffer, n)
      BY <3>1
    <3>5. (pay[n].good /\ dbg.db[Place(Buffer, n - 1)].next = pc) = TRUE
      BY <1>4, <2>4, <2>8
    <3>6. QED
      BY <1>6, <2>7, <2>8, <3>3, <3>4, <3>5
  <2>9. CASE ~ (pay[n].good /\ dbg.db[Place(Buffer, n)].pc = pc)
    <3>1. Mapped(pc) = [good |-> FALSE, db |-> None]
      BY <1>6, <2>2, <2>3, <2>6, <2>9 DEF Mapped
    <3>2. pay[n].good \in BOOLEAN
      BY <2>2 DEF Fetches
    <3>3. Mapped(pc).good = FALSE /\ Mapped(pc).db \in Nat
      BY <1>2, <3>1
    <3>4. dbg.db[Place(Buffer, n)].pc = dbg.db[Place(Buffer, n - 1)].next
      BY <1>4, <2>4
    <3>5. QED
      BY <1>6, <2>9, <3>2, <3>3, <3>4
  <2>10. QED
    BY <2>8, <2>9
<1>7. QED
  BY <1>5, <1>6

LEMMA FetchKeeps ==
  ASSUME IInv, dbg.oneEach, Fetch
  PROVE  /\ InFlight(program, pay', mic, pc', active') /\ OnRecord(program, pay', Buffer, Present)
         /\ ~ aborted'
<1>1. /\ program \in [Addr -> Kinds] /\ ~ aborted
      /\ InFlight(program, pay, mic, pc, active) /\ OnRecord(program, pay, Buffer, Present)
      /\ Present.r = mic.r /\ Buffer.db = dbg.db
      /\ Chain(program, Buffer, Present) /\ Present.pc = mic.pc
  BY InvIs
<1>2. PICK n \in Nat : n = Len(pay) /\ n < MaxFlight
  BY <1>1 DEF Fetch, InFlight
<1>3. /\ pay \in Seq(Fetches) /\ pc \in Addr /\ MaxFlight \in Nat /\ program[pc] \in Kinds
      /\ active
  BY <1>1, Sizes DEF InFlight, Fetch
<1>4. PICK next \in IF program[pc] = "br" THEN {After(pc), Target(pc)} ELSE {After(pc)} :
        /\ pay' = Append(pay, [pc |-> pc, next |-> next, resolved |-> program[pc] # "br",
                                good |-> Mapped(pc).good, db |-> Mapped(pc).db])
        /\ pc' = next
        /\ active' = ~ Serial(program[pc])
  BY DEF Fetch
<1>5. /\ Mapped(pc).good \in BOOLEAN /\ Mapped(pc).db \in Nat
      /\ pay = <<>> => Mapped(pc).good
      /\ n > 0 => Mapped(pc).good = (pay[n].good /\ dbg.db[Place(Buffer, n - 1)].next = pc)
      /\ Mapped(pc).good =>
           /\ Mapped(pc).db = Place(Buffer, n)
           /\ dbg.db[Place(Buffer, n)].pc = pc
           /\ Before(Buffer, Present, n).r = BitAt(program, pay, Present.r, n + 1)
  BY <1>2, <1>3, MappedIs
<1>6. PICK e : e = [pc |-> pc, next |-> next, resolved |-> program[pc] # "br",
                    good |-> Mapped(pc).good, db |-> Mapped(pc).db]
  OBVIOUS
<1>7. next \in Addr /\ (program[pc] # "br" => next = After(pc))
  BY <1>3, <1>4, AddrIs
<1>8. e \in Fetches
  BY <1>3, <1>5, <1>6, <1>7 DEF Fetches
<1>9. /\ pay' \in Seq(Fetches) /\ Len(pay') = n + 1 /\ pay'[n + 1] = e
      /\ \A j \in 1 .. n : pay'[j] = pay[j]
  BY <1>2, <1>3, <1>4, <1>6, <1>8, AppendProperties
<1>10. PICK q : q = pay'
  OBVIOUS
<1>11. e.pc = pc /\ e.next = next /\ e.resolved = (program[pc] # "br") /\ e.good = Mapped(pc).good
       /\ e.db = Mapped(pc).db
  BY <1>6
<1>12. n = 0 <=> pay = <<>>
  BY <1>2, <1>3, EmptySeq
<1>13. \A i \in 1 .. n + 1 : \A j \in 1 .. i - 1 : q[j].pc = pay[j].pc
  BY <1>9, <1>10
<1>14. InFlight(program, q, mic, next, ~ Serial(program[pc]))
  <2>1. q \in Seq(Fetches) /\ Len(q) <= MaxFlight /\ q # <<>> /\ q[Len(q)].next = next
    <3>1. Len(q) <= MaxFlight /\ Len(q) # 0
      BY <1>2, <1>3, <1>9, <1>10
    <3>2. QED
      BY <1>9, <1>10, <1>11, <3>1, EmptySeq
  <2>2. q[1].pc = mic.pc
    <3>1. CASE n = 0
      BY <1>1, <1>9, <1>10, <1>11, <1>12, <3>1 DEF InFlight
    <3>2. CASE n # 0
      <4>1. 1 \in 1 .. n
        BY <3>2
      <4>2. QED
        BY <1>1, <1>9, <1>10, <1>12, <3>2, <4>1 DEF InFlight
    <3>3. QED
      BY <3>1, <3>2
  <2>3. ASSUME NEW i \in 1 .. n
        PROVE  /\ i < Len(q) => q[i + 1].pc = q[i].next
               /\ ~ Serial(program[q[i].pc])
               /\ IF program[q[i].pc] = "br"
                  THEN q[i].resolved => q[i].next = GoesTo(program, q, mic.r, i)
                  ELSE q[i].resolved /\ q[i].next = After(q[i].pc)
    <3>1. q[i] = pay[i] /\ i \in 1 .. Len(pay) /\ i \in 1 .. n + 1 /\ i \in Nat
      BY <1>2, <1>9, <1>10
    <3>2. GoesTo(program, q, mic.r, i) = GoesTo(program, pay, mic.r, i)
      BY <1>13, <3>1, GoesToSame
    <3>3. /\ ~ Serial(program[q[i].pc])
          /\ IF program[q[i].pc] = "br"
             THEN q[i].resolved => q[i].next = GoesTo(program, q, mic.r, i)
             ELSE q[i].resolved /\ q[i].next = After(q[i].pc)
      BY <1>1, <1>3, <3>1, <3>2 DEF InFlight
    <3>4. q[i + 1].pc = q[i].next
      <4>1. CASE i = n
        <5>1. pc = pay[n].next /\ n # 0
          BY <1>1, <1>2, <1>12, <4>1 DEF InFlight
        <5>2. QED
          BY <1>9, <1>10, <1>11, <3>1, <4>1, <5>1
      <4>2. CASE i # n
        <5>1. i + 1 \in 1 .. n /\ i < Len(pay)
          BY <1>2, <4>2
        <5>2. pay[i + 1].pc = pay[i].next
          BY <1>1, <3>1, <5>1 DEF InFlight
        <5>3. QED
          BY <1>9, <1>10, <3>1, <5>1, <5>2
      <4>3. QED
        BY <4>1, <4>2
    <3>5. QED
      BY <3>3, <3>4
  <2>4. /\ Serial(program[q[n + 1].pc]) => n + 1 = Len(q) /\ Serial(program[pc])
        /\ IF program[q[n + 1].pc] = "br"
           THEN q[n + 1].resolved => q[n + 1].next = GoesTo(program, q, mic.r, n + 1)
           ELSE q[n + 1].resolved /\ q[n + 1].next = After(q[n + 1].pc)
    BY <1>7, <1>9, <1>10, <1>11
  <2>5. \A i \in 1 .. Len(q) : i \in 1 .. n \/ i = n + 1
    BY <1>9, <1>10
  <2>6. Serial(program[pc]) \in BOOLEAN /\ Len(q) = n + 1
    BY <1>9, <1>10 DEF Serial
  <2>7. \A i \in 1 .. Len(q) :
          /\ i < Len(q) => q[i + 1].pc = q[i].next
          /\ Serial(program[q[i].pc]) => i = Len(q) /\ Serial(program[pc])
          /\ IF program[q[i].pc] = "br" THEN q[i].resolved => q[i].next = GoesTo(program, q, mic.r, i)
             ELSE q[i].resolved /\ q[i].next = After(q[i].pc)
    <3>1. TAKE i \in 1 .. Len(q)
    <3>2. CASE i \in 1 .. n
      BY <2>3, <3>2
    <3>3. CASE i = n + 1
      BY <2>4, <2>6, <3>3
    <3>4. QED
      BY <2>5, <3>2, <3>3
  <2>8. QED
    BY <1>7, <2>1, <2>2, <2>6, <2>7 DEF InFlight
<1>15. OnRecord(program, q, Buffer, Present)
  <2>1. q[1].good
    <3>1. CASE n = 0
      BY <1>5, <1>9, <1>10, <1>11, <1>12, <3>1
    <3>2. CASE n # 0
      <4>1. 1 \in 1 .. n
        BY <3>2
      <4>2. QED
        BY <1>1, <1>9, <1>10, <1>12, <3>2, <4>1 DEF OnRecord
    <3>3. QED
      BY <3>1, <3>2
  <2>2. ASSUME NEW i \in 1 .. n + 1, q[i].good
        PROVE  /\ q[i].db = Place(Buffer, i - 1)
               /\ Buffer.db[Place(Buffer, i - 1)].pc = q[i].pc
               /\ Before(Buffer, Present, i - 1).r = BitAt(program, q, Present.r, i)
    <3>1. BitAt(program, q, Present.r, i) = BitAt(program, pay, Present.r, i)
      <4>1. i \in Nat
        OBVIOUS
      <4>2. QED
        BY <1>13, <4>1, BitAtSame
    <3>2. CASE i = n + 1
      <4>1. i - 1 = n
        BY <3>2
      <4>2. QED
        BY <1>1, <1>5, <1>9, <1>10, <1>11, <2>2, <3>1, <3>2, <4>1
    <3>3. CASE i # n + 1
      <4>1. i \in 1 .. Len(pay) /\ q[i] = pay[i]
        BY <1>2, <1>9, <1>10, <3>3
      <4>2. QED
        BY <1>1, <2>2, <3>1, <4>1 DEF OnRecord
    <3>4. QED
      BY <3>2, <3>3
  <2>3. ASSUME NEW i \in 1 .. n
        PROVE  q[i + 1].good = (q[i].good /\ Buffer.db[Place(Buffer, i - 1)].next = q[i + 1].pc)
    <3>1. q[i] = pay[i]
      BY <1>9, <1>10
    <3>2. CASE i = n
      <4>1. n > 0 /\ q[i + 1] = e
        BY <1>9, <1>10, <3>2
      <4>2. e.good = (pay[n].good /\ dbg.db[Place(Buffer, n - 1)].next = pc)
        BY <1>5, <1>11, <4>1
      <4>3. QED
        BY <1>1, <1>11, <3>1, <3>2, <4>1, <4>2
    <3>3. CASE i # n
      <4>1. i + 1 \in 1 .. n /\ i \in 1 .. Len(pay) /\ i < Len(pay)
        BY <1>2, <3>3
      <4>2. q[i + 1] = pay[i + 1]
        BY <1>9, <1>10, <4>1
      <4>3. QED
        BY <1>1, <3>1, <4>1, <4>2 DEF OnRecord
    <3>4. QED
      BY <3>2, <3>3
  <2>4. \A i \in 1 .. Len(q) : i \in 1 .. n + 1 /\ (i < Len(q) => i \in 1 .. n)
    BY <1>9, <1>10
  <2>5. QED
    BY <2>1, <2>2, <2>3, <2>4 DEF OnRecord
<1>16. ~ aborted'
  <2>1. aborted' = (aborted \/ (pay = <<>> /\ dbg.db[dbg.head].pc # pc))
    BY DEF Fetch
  <2>2. ASSUME pay = <<>> PROVE dbg.db[dbg.head].pc = pc
    <3>1. n = 0 /\ Mapped(pc) = [good |-> TRUE, db |-> dbg.head]
      BY <1>12, <2>2 DEF Mapped
    <3>2. Mapped(pc).db = dbg.head
      BY <3>1
    <3>3. QED
      BY <1>5, <2>2, <3>1, <3>2
  <2>3. QED
    BY <1>1, <2>1, <2>2
<1>17. QED
  BY <1>4, <1>10, <1>14, <1>15, <1>16

(* A piece of the path, from its beginning.                                 *)
LEMMA OnRecordPrefix ==
  ASSUME NEW g, NEW p \in Seq(Fetches), NEW b, NEW s, OnRecord(g, p, b, s),
         NEW q \in Seq(Fetches), Len(q) <= Len(p),
         \A n \in 1 .. Len(q) : q[n].pc = p[n].pc /\ q[n].good = p[n].good /\ q[n].db = p[n].db
  PROVE  OnRecord(g, q, b, s)
<1>1. \A n \in 1 .. Len(q) : n \in 1 .. Len(p) /\ n \in Nat /\ (n < Len(q) => n < Len(p) /\ n + 1 \in 1 .. Len(q))
  OBVIOUS
<1>2. \A n \in 1 .. Len(q) : BitAt(g, q, s.r, n) = BitAt(g, p, s.r, n)
  <2>1. TAKE n \in 1 .. Len(q)
  <2>2. n \in Nat /\ \A j \in 1 .. n - 1 : q[j].pc = p[j].pc
    OBVIOUS
  <2>3. QED
    BY <2>2, BitAtSame
<1>3. q # <<>> => p # <<>> /\ 1 \in 1 .. Len(q)
  BY EmptySeq
<1>4. q # <<>> => q[1].good
  BY <1>3 DEF OnRecord
<1>5. QED
  BY <1>1, <1>2, <1>4 DEF OnRecord

(* The path is cut behind its n-th instruction, or this one is resolved.    *)
LEMMA InFlightPrefix ==
  ASSUME NEW g, NEW p, NEW m, NEW next, NEW fetching, InFlight(g, p, m, next, fetching),
         NEW q \in Seq(Fetches), q # <<>>, Len(q) <= Len(p),
         \A j \in 1 .. Len(q) - 1 : q[j].next = p[j].next,
         \A j \in 1 .. Len(q) : q[j].pc = p[j].pc,
         NEW i \in 1 .. Len(q), \A j \in 1 .. Len(q) : j # i => q[j] = p[j],
         q[i].next # p[i].next => i = Len(q),
         (g[p[i].pc] = "br" /\ q[i].next = GoesTo(g, p, m.r, i)) \/ q[i] = p[i],
         NEW to \in BOOLEAN,
         (to = fetching /\ Len(q) = Len(p)) \/ ~ Serial(g[q[Len(q)].pc])
  PROVE  InFlight(g, q, m, q[Len(q)].next, to)
<1>1. p \in Seq(Fetches) /\ Len(p) \in Nat /\ Len(q) \in Nat \ {0} /\ Len(p) <= MaxFlight /\ p # <<>>
  BY EmptySeq, LenProperties DEF InFlight
<1>2. Len(q) \in 1 .. Len(q) /\ q[Len(q)] \in Fetches /\ Len(q) <= MaxFlight /\ 1 \in 1 .. Len(q)
  <2>1. Len(q) \in 1 .. Len(q) /\ 1 \in 1 .. Len(q)
    BY <1>1
  <2>2. q[Len(q)] \in Fetches
    BY <2>1, ElementOfSeq
  <2>3. QED
    BY <1>1, <2>1, <2>2, Sizes
<1>3. q[Len(q)].next \in Addr /\ q[1].pc = m.pc
  BY <1>1, <1>2 DEF Fetches, InFlight
<1>4. ASSUME NEW n \in 1 .. Len(q)
      PROVE  /\ n < Len(q) => q[n + 1].pc = q[n].next
             /\ Serial(g[q[n].pc]) => n = Len(q) /\ ~ to
             /\ IF g[q[n].pc] = "br" THEN q[n].resolved => q[n].next = GoesTo(g, q, m.r, n)
                ELSE q[n].resolved /\ q[n].next = After(q[n].pc)
  <2>1. n \in 1 .. Len(p) /\ n \in Nat /\ (n < Len(q) => n + 1 \in 1 .. Len(q) /\ n \in 1 .. Len(q) - 1 /\ n < Len(p))
    BY <1>1
  <2>2. /\ n < Len(p) => p[n + 1].pc = p[n].next
        /\ Serial(g[p[n].pc]) => n = Len(p) /\ ~ fetching
        /\ IF g[p[n].pc] = "br" THEN p[n].resolved => p[n].next = GoesTo(g, p, m.r, n)
           ELSE p[n].resolved /\ p[n].next = After(p[n].pc)
    BY <2>1 DEF InFlight
  <2>3. n < Len(q) => q[n + 1].pc = q[n].next
    BY <2>1, <2>2
  <2>4. Serial(g[q[n].pc]) => n = Len(q) /\ ~ to
    <3>1. SUFFICES ASSUME Serial(g[q[n].pc]) PROVE n = Len(q) /\ ~ to
      OBVIOUS
    <3>2. n = Len(p) /\ ~ fetching
      BY <2>2, <3>1
    <3>3. n = Len(q)
      BY <1>1, <3>2
    <3>4. QED
      BY <3>1, <3>2, <3>3
  <2>5. GoesTo(g, q, m.r, n) = GoesTo(g, p, m.r, n)
    <3>1. \A j \in 1 .. n - 1 : q[j].pc = p[j].pc
      BY <1>1
    <3>2. QED
      BY <2>1, <3>1, GoesToSame
  <2>6. IF g[q[n].pc] = "br" THEN q[n].resolved => q[n].next = GoesTo(g, q, m.r, n)
        ELSE q[n].resolved /\ q[n].next = After(q[n].pc)
    <3>1. CASE q[n] = p[n]
      BY <2>2, <2>5, <3>1
    <3>2. CASE q[n] # p[n]
      <4>1. n = i /\ g[q[n].pc] = "br" /\ q[i].next = GoesTo(g, p, m.r, i)
        BY <3>2
      <4>2. QED
        BY <2>5, <4>1
    <3>3. QED
      BY <3>1, <3>2
  <2>7. QED
    BY <2>3, <2>4, <2>6
<1>5. QED
  BY <1>2, <1>3, <1>4 DEF InFlight

LEMMA MisfetchKeeps ==
  ASSUME IInv, dbg.oneEach, Misfetch
  PROVE  InFlight(program, pay', mic, pc', active') /\ OnRecord(program, pay', Buffer, Present)
<1>1. InFlight(program, pay, mic, pc, active) /\ OnRecord(program, pay, Buffer, Present)
      /\ mic.pc \in Addr
  BY InvIs
<1>2. /\ pay \in Seq(Fetches) /\ pay # <<>> /\ pay' = Front(pay) /\ pc' = Last(pay).pc
      /\ active' = TRUE
  BY <1>1 DEF InFlight, Misfetch
<1>3. PICK n \in Nat : n = Len(pay) /\ n > 0
  BY <1>2, EmptySeq
<1>4. PICK q : q = pay'
  OBVIOUS
<1>5. q = SubSeq(pay, 1, n - 1)
  BY <1>2, <1>3, <1>4 DEF Front
<1>6. /\ q \in Seq(Fetches) /\ Len(q) = n - 1
      /\ \A j \in 1 .. n - 1 : q[j] = pay[j]
  <2>1. 1 \in 1 .. Len(pay) + 1 /\ n - 1 \in 0 .. Len(pay) /\ n - 1 \in Int
    BY <1>3
  <2>2. QED
    BY <1>2, <1>3, <1>5, <2>1, SubSeqProperties
<1>7. OnRecord(program, q, Buffer, Present)
  <2>1. Len(q) <= Len(pay) /\ \A j \in 1 .. Len(q) : q[j] = pay[j]
    BY <1>3, <1>6
  <2>2. QED
    BY <1>1, <1>2, <1>6, <2>1, OnRecordPrefix
<1>8. pc' = pay[n].pc
  BY <1>2, <1>3 DEF Last
<1>9. InFlight(program, q, mic, pc', TRUE)
  <2>1. CASE q = <<>>
    <3>1. n = 1 /\ Len(q) = 0
      <4>1. Len(q) = 0
        BY <2>1
      <4>2. PICK l : l = Len(q) /\ l = n - 1 /\ l = 0
        BY <1>6, <4>1
      <4>3. n - 1 = 0 => n = 1
        OBVIOUS
      <4>4. QED
        BY <4>1, <4>2, <4>3
    <3>2. pc' = mic.pc
      BY <1>1, <1>2, <1>8, <3>1 DEF InFlight
    <3>3. \A j \in 1 .. Len(q) : FALSE
      BY <3>1
    <3>4. 0 <= MaxFlight
      BY Sizes
    <3>5. QED
      BY <1>1, <1>6, <2>1, <3>1, <3>2, <3>3, <3>4 DEF InFlight
  <2>2. CASE q # <<>>
    <3>1. n - 1 \in 1 .. n - 1 /\ Len(q) = n - 1 /\ Len(q) <= Len(pay) /\ n - 1 \in 1 .. Len(pay) /\ n - 1 < Len(pay)
          /\ n - 1 + 1 = n /\ n - 1 # Len(pay)
      BY <1>3, <1>6, <2>2, EmptySeq
    <3>2. q[n - 1].next = pc' /\ ~ Serial(program[q[n - 1].pc])
      BY <1>1, <1>6, <1>8, <3>1 DEF InFlight
    <3>3. PICK i \in 1 .. Len(q) : i = n - 1
      BY <3>1
    <3>4. /\ \A j \in 1 .. Len(q) - 1 : q[j].next = pay[j].next
          /\ \A j \in 1 .. Len(q) : q[j].pc = pay[j].pc
          /\ \A j \in 1 .. Len(q) : j # i => q[j] = pay[j]
          /\ q[i] = pay[i]
      BY <1>6, <3>1, <3>3
    <3>5. InFlight(program, q, mic, q[Len(q)].next, TRUE)
      BY <1>1, <1>6, <2>2, <3>1, <3>2, <3>3, <3>4, InFlightPrefix
    <3>6. QED
      BY <3>1, <3>2, <3>5
  <2>3. QED
    BY <2>1, <2>2
<1>10. QED
  BY <1>2, <1>4, <1>7, <1>9

LEMMA ResolveKeeps ==
  ASSUME IInv, dbg.oneEach, NEW n \in 1 .. MaxFlight, Resolve(n)
  PROVE  InFlight(program, pay', mic, pc', active') /\ OnRecord(program, pay', Buffer, Present)
<1>1. InFlight(program, pay, mic, pc, active) /\ OnRecord(program, pay, Buffer, Present)
  BY InvIs
<1>2. /\ pay \in Seq(Fetches) /\ n \in 1 .. Len(pay) /\ ~ pay[n].resolved /\ active \in BOOLEAN
      /\ pay # <<>> /\ 1 \in 1 .. Len(pay) + 1
  <2>1. pay \in Seq(Fetches) /\ n \in DOMAIN pay /\ ~ pay[n].resolved /\ active \in BOOLEAN
    BY <1>1 DEF InFlight, Resolve
  <2>2. n \in 1 .. Len(pay) /\ Len(pay) \in Nat
    BY <2>1, LenProperties
  <2>3. QED
    BY <2>1, <2>2, EmptySeq
<1>3. program[pay[n].pc] = "br"
  BY <1>1, <1>2 DEF InFlight
<1>4. PICK go : go = ActualNext(n) /\ go = GoesTo(program, pay, mic.r, n)
  BY DEF ActualNext, ValueAt, GoesTo, BitAt
<1>5. pay[n] \in Fetches /\ pay[n].pc \in Addr
  <2>1. pay[n] \in Fetches
    BY <1>2, ElementOfSeq
  <2>2. QED
    BY <2>1 DEF Fetches
<1>6. go \in Addr
  BY <1>4, <1>5, AddrIs DEF GoesTo
<1>7. CASE pay[n].next = go
  <2>1. PICK q : q = [pay EXCEPT ![n].resolved = TRUE] /\ pay' = q /\ pc' = pc /\ active' = active
    BY <1>4, <1>7 DEF Resolve
  <2>2. PICK e \in Fetches : e = [pay[n] EXCEPT !.resolved = TRUE]
    BY <1>5 DEF Fetches
  <2>3. /\ q \in Seq(Fetches) /\ Len(q) = Len(pay) /\ q[n] = e
        /\ \A j \in 1 .. Len(pay) : j # n => q[j] = pay[j]
    <3>1. q = [pay EXCEPT ![n] = e]
      BY <2>1, <2>2
    <3>2. QED
      BY <1>2, <3>1, ExceptSeq
  <2>4. e.pc = pay[n].pc /\ e.next = pay[n].next /\ e.good = pay[n].good /\ e.db = pay[n].db
    BY <1>5, <2>2 DEF Fetches
  <2>5. OnRecord(program, q, Buffer, Present)
    <3>1. Len(q) <= Len(pay) /\ \A j \in 1 .. Len(q) : q[j].pc = pay[j].pc /\ q[j].good = pay[j].good /\ q[j].db = pay[j].db
      BY <1>2, <2>3, <2>4
    <3>2. QED
      BY <1>1, <1>2, <2>3, <3>1, OnRecordPrefix
  <2>6. InFlight(program, q, mic, q[Len(q)].next, active)
    <3>1. /\ Len(q) <= Len(pay) /\ q # <<>> /\ n \in 1 .. Len(q) /\ q[n].next = pay[n].next
          /\ \A j \in 1 .. Len(q) - 1 : q[j].next = pay[j].next
          /\ \A j \in 1 .. Len(q) : q[j].pc = pay[j].pc
          /\ \A j \in 1 .. Len(q) : j # n => q[j] = pay[j]
      BY <1>2, <2>3, <2>4
    <3>2. q[n].next = GoesTo(program, pay, mic.r, n)
      BY <1>4, <1>7, <3>1
    <3>3. active \in BOOLEAN /\ Len(q) = Len(pay)
      BY <1>2, <2>3
    <3>4. QED
      BY <1>1, <1>3, <2>3, <3>1, <3>2, <3>3, InFlightPrefix, ZenonT(60)
  <2>7. q[Len(q)].next = pc
    <3>1. Len(pay) \in 1 .. Len(pay)
      BY <1>2
    <3>2. q[Len(q)].next = pay[Len(pay)].next
      BY <2>3, <2>4, <3>1
    <3>3. QED
      BY <1>1, <1>2, <3>2 DEF InFlight
  <2>8. QED
    BY <2>1, <2>5, <2>6, <2>7
<1>8. CASE pay[n].next # go
  <2>1. PICK q : /\ q = [SubSeq(pay, 1, n) EXCEPT ![n] = [@ EXCEPT !.resolved = TRUE, !.next = go]]
                 /\ pay' = q /\ pc' = go /\ active' = TRUE
    BY <1>4, <1>8 DEF Resolve
  <2>2. PICK e \in Fetches : e = [pay[n] EXCEPT !.resolved = TRUE, !.next = go]
    BY <1>5, <1>6 DEF Fetches
  <2>3. PICK c : c = SubSeq(pay, 1, n)
    OBVIOUS
  <2>4. c \in Seq(Fetches) /\ Len(c) = n /\ \A j \in 1 .. n : c[j] = pay[j]
    <3>1. n \in 0 .. Len(pay) /\ n \in Nat /\ n > 0
      BY <1>2
    <3>2. QED
      BY <1>2, <2>3, <3>1, SubSeqProperties
  <2>5. /\ q \in Seq(Fetches) /\ Len(q) = n /\ q[n] = e
        /\ \A j \in 1 .. n : j # n => q[j] = pay[j]
    <3>1. n \in 1 .. Len(c) /\ n \in 1 .. n
      BY <1>2, <2>4
    <3>2. q = [c EXCEPT ![n] = e]
      BY <2>1, <2>2, <2>3, <2>4, <3>1
    <3>3. q \in Seq(Fetches) /\ Len(q) = Len(c) /\ q[n] = e /\ \A j \in 1 .. Len(c) : j # n => q[j] = c[j]
      BY <2>4, <3>1, <3>2, ExceptSeq
    <3>4. QED
      BY <2>4, <3>3
  <2>6. e.pc = pay[n].pc /\ e.next = go /\ e.good = pay[n].good /\ e.db = pay[n].db
    BY <1>5, <2>2 DEF Fetches
  <2>7. OnRecord(program, q, Buffer, Present)
    <3>1. Len(q) <= Len(pay) /\ \A j \in 1 .. Len(q) : q[j].pc = pay[j].pc /\ q[j].good = pay[j].good /\ q[j].db = pay[j].db
      BY <1>2, <2>5, <2>6
    <3>2. QED
      BY <1>1, <1>2, <2>5, <3>1, OnRecordPrefix
  <2>8. InFlight(program, q, mic, q[Len(q)].next, TRUE)
    <3>1. /\ Len(q) <= Len(pay) /\ q # <<>> /\ n \in 1 .. Len(q)
          /\ \A j \in 1 .. Len(q) - 1 : q[j].next = pay[j].next
          /\ \A j \in 1 .. Len(q) : q[j].pc = pay[j].pc
          /\ \A j \in 1 .. Len(q) : j # n => q[j] = pay[j]
      BY <1>2, <2>5, <2>6
    <3>2. ~ Serial(program[q[Len(q)].pc])
      BY <1>3, <2>5, <2>6 DEF Serial
    <3>3. q[n].next = GoesTo(program, pay, mic.r, n) /\ n = Len(q)
      BY <1>4, <2>5, <2>6
    <3>4. QED
      BY <1>1, <1>3, <2>5, <3>1, <3>2, <3>3, InFlightPrefix, ZenonT(60)
  <2>9. QED
    BY <2>1, <2>5, <2>6, <2>7, <2>8
<1>9. QED
  BY <1>7, <1>8

(* Nothing in flight.                                                       *)
LEMMA NoneInFlight ==
  ASSUME NEW g, NEW m, m.pc \in Addr, NEW b, NEW s, NEW next, next = m.pc
  PROVE  InFlight(g, <<>>, m, next, TRUE) /\ OnRecord(g, <<>>, b, s)
<1>1. <<>> \in Seq(Fetches) /\ Len(<<>>) = 0 /\ 0 <= MaxFlight /\ \A j \in 1 .. 0 : FALSE
  BY Sizes
<1>2. QED
  BY <1>1 DEF InFlight, OnRecord

LEMMA LoadViolationKeeps ==
  ASSUME IInv, dbg.oneEach, LoadViolation
  PROVE  InFlight(program, pay', mic, pc', active') /\ OnRecord(program, pay', Buffer, Present)
<1>1. InFlight(program, pay, mic, pc, active) /\ mic.pc \in Addr
  BY InvIs
<1>2. pay' = <<>> /\ pc' = Head(pay).pc /\ active' = TRUE /\ pay # <<>> /\ pay \in Seq(Fetches)
  BY <1>1 DEF LoadViolation, Ready, InFlight
<1>3. pc' = mic.pc
  BY <1>1, <1>2 DEF InFlight
<1>4. QED
  BY <1>1, <1>2, <1>3, NoneInFlight

----------------------------------------------------------------------------
(* The end of a bundle.                                                     *)
LEMMA InFlightSame ==
  ASSUME NEW g, NEW p, NEW m, NEW next, NEW fetching, InFlight(g, p, m, next, fetching),
         NEW o, o.pc = m.pc, o.r = m.r
  PROVE  InFlight(g, p, o, next, fetching)
<1>1. \A n \in 1 .. Len(p) : GoesTo(g, p, o.r, n) = GoesTo(g, p, m.r, n)
  BY DEF GoesTo
<1>2. QED
  BY <1>1 DEF InFlight

LEMMA LimitIs ==
  ASSUME NEW s, Settled(s)
  PROVE  InstretLimit(s) \in Nat /\ s.step + InstretLimit(s) <= INTERLEAVE
<1>1. s \in States /\ s.step < INTERLEAVE /\ INTERLEAVE \in Nat /\ s.step \in Nat /\ Word \in Nat \ {0}
  BY Sizes DEF Settled, States
<1>2. s.compare + Word - s.count \in Int
  BY <1>1 DEF States
<1>3. \A z \in Int : z % Word \in Nat
  BY <1>1
<1>4. PICK t \in Nat : t = NextTimer(s)
  BY <1>2, <1>3 DEF NextTimer
<1>5. PICK a \in Nat : a = INTERLEAVE - s.step /\ s.step + a = INTERLEAVE
  BY <1>1
<1>6. PICK c \in Nat : c = t + 1 - (t % 2)
  BY <1>4
<1>7. InstretLimit(s) = Min({a, c})
  BY <1>4, <1>5, <1>6 DEF InstretLimit
<1>8. \E m \in {a, c} : \A y \in {a, c} : m <= y
  OBVIOUS
<1>9. PICK m : m = Min({a, c}) /\ m \in {a, c} /\ \A y \in {a, c} : m <= y
  BY <1>8 DEF Min
<1>10. m \in Nat /\ m <= a
  BY <1>9
<1>11. QED
  BY <1>1, <1>5, <1>7, <1>9, <1>10

LEMMA EndCycleKeeps ==
  ASSUME IInv, dbg.oneEach, EndCycle
  PROVE  /\ Cycling(mic', instret', limit', lane') /\ Present' = Present
         /\ InFlight(program, pay, mic', pc, active) /\ ~ aborted'
<1>1. /\ Settled(Present) /\ Present.pc = mic.pc /\ Present.r = mic.r /\ ~ aborted
      /\ InFlight(program, pay, mic, pc, active) /\ Cycling(mic, instret, limit, lane)
  BY InvIs
<1>2. /\ mic' = Present /\ limit' = InstretLimit(Present) /\ instret' = 0 /\ lane' = 0
      /\ aborted' = (aborted \/ mic.step + instret > INTERLEAVE)
  BY DEF EndCycle, Present
<1>3. PICK s : s = Present /\ s \in States /\ s.step \in Nat /\ s.step < INTERLEAVE
  BY <1>1 DEF Settled, States
<1>4. CountStep(s, 0) = s
  <2>1. s.step + 0 = s.step /\ s.step # INTERLEAVE
    BY <1>3, Sizes
  <2>2. CountStep(s, 0) = [s EXCEPT !.step = s.step + 0]
    BY <1>3, <2>1 DEF CountStep
  <2>3. QED
    BY <1>3, <2>1, <2>2 DEF States
<1>5. Present' = Present
  BY <1>2, <1>3, <1>4 DEF Present
<1>6. Cycling(mic', instret', limit', lane')
  <2>1. InstretLimit(s) \in Nat /\ s.step + InstretLimit(s) <= INTERLEAVE
    BY <1>1, <1>3, LimitIs
  <2>2. QED
    BY <1>1, <1>2, <1>3, <2>1 DEF Cycling
<1>7. ~ aborted'
  <2>1. mic.step + instret <= INTERLEAVE /\ mic.step + instret \in Int
    BY <1>1, PresentIs DEF States
  <2>2. ~ (mic.step + instret > INTERLEAVE)
    BY <2>1, Sizes
  <2>3. QED
    BY <1>1, <1>2, <2>2
<1>8. InFlight(program, pay, mic', pc, active)
  BY <1>1, <1>2, InFlightSame
<1>9. QED
  BY <1>5, <1>6, <1>7, <1>8

----------------------------------------------------------------------------
(* Retiring.                                                                *)
LEMMA PopIs ==
  ASSUME Pop, program \in [Addr -> Kinds], IsRing(Buffer), NEW s, NEW c, c = RunAhead(Buffer)
  PROVE  /\ Fed(Buffer, s, c, Size - Buffer.length) /\ IsRing(c) /\ Popped(c, Buffer')
         /\ dbg'.oneEach = c.oneEach /\ dbg'.db = c.db /\ Buffer'.isa = c.isa
         /\ Buffer'.oneEach = c.oneEach /\ IsRing(Buffer')
         /\ dbg' = [db |-> dbg'.db, head |-> dbg'.head, tail |-> dbg'.tail, length |-> dbg'.length,
                    oneEach |-> dbg'.oneEach]
<1>1. Fed(Buffer, s, c, Size - Buffer.length)
  BY RunAheadIs
<1>2. IsRing(c)
  BY <1>1 DEF Fed
<1>3. /\ isa' = c.isa
      /\ dbg' = [db |-> c.db, head |-> (c.head + 1) % Size, tail |-> c.tail,
                 length |-> c.length - 1, oneEach |-> c.oneEach]
  BY DEF Pop
<1>4. Popped(c, Buffer')
  BY <1>3 DEF Popped, Buffer
<1>5. /\ dbg'.oneEach = c.oneEach /\ dbg'.db = c.db /\ Buffer'.isa = c.isa /\ Buffer'.oneEach = c.oneEach
  BY <1>3 DEF Buffer
<1>6. IsRing(Buffer')
  <2>1. c.length \in Int /\ c.length <= Size /\ Size \in Int /\ c.oneEach \in BOOLEAN
    BY <1>2, Sizes DEF IsRing
  <2>2. PICK d : d = Buffer'
    OBVIOUS
  <2>3. /\ d = [isa |-> d.isa, db |-> d.db, head |-> d.head, tail |-> d.tail, length |-> d.length,
                oneEach |-> d.oneEach]
        /\ d.length = c.length - 1 /\ d.oneEach = c.oneEach
    BY <1>4, <2>2 DEF Popped
  <2>4. d.length \in Int /\ d.length <= Size /\ d.oneEach \in BOOLEAN
    BY <2>1, <2>3
  <2>5. IsRing(d)
    BY <2>3, <2>4 DEF IsRing
  <2>6. QED
    BY <2>2, <2>5 DEF IsRing
<1>7. dbg' = [db |-> dbg'.db, head |-> dbg'.head, tail |-> dbg'.tail, length |-> dbg'.length,
              oneEach |-> dbg'.oneEach]
  BY <1>3
<1>8. QED
  BY <1>1, <1>2, <1>4, <1>5, <1>6, <1>7

(* The instruction that retires, and the record that was made of it.        *)
LEMMA HeadIs ==
  ASSUME IInv, dbg.oneEach, Ready
  PROVE  /\ pay \in Seq(Fetches) /\ Len(pay) \in Nat \ {0} /\ Head(pay) = pay[1] /\ 1 \in 1 .. Len(pay)
         /\ pay[1].pc = mic.pc /\ pay[1].good /\ pay[1].db = Place(Buffer, 0) /\ Place(Buffer, 0) = dbg.head
         /\ pay[1].resolved /\ HeadKind = program[mic.pc] /\ HeadKind \in Kinds
         /\ [mic EXCEPT !.pc = Head(pay).pc] = mic
<1>1. /\ InFlight(program, pay, mic, pc, active) /\ OnRecord(program, pay, Buffer, Present)
      /\ Buffer.head = dbg.head /\ Chain(program, Buffer, Present) /\ mic \in States
      /\ program \in [Addr -> Kinds] /\ mic.pc \in Addr
  BY InvIs
<1>2. pay \in Seq(Fetches) /\ pay # <<>> /\ Head(pay).resolved
  BY <1>1 DEF InFlight, Ready
<1>3. Len(pay) \in Nat \ {0} /\ Head(pay) = pay[1] /\ 1 \in 1 .. Len(pay)
  BY <1>2, EmptySeq
<1>4. pay[1].pc = mic.pc
  BY <1>1, <1>2 DEF InFlight
<1>5. pay[1].good /\ pay[1].db = Place(Buffer, 1 - 1)
  BY <1>1, <1>2, <1>3 DEF OnRecord
<1>6. Place(Buffer, 0) = dbg.head
  <2>1. PICK h \in 0 .. Size - 1 : h = dbg.head
    BY <1>1 DEF Chain
  <2>2. Size \in Nat \ {0} /\ 0 \in 0 .. Size /\ h + 0 = h /\ h < Size
    BY Sizes
  <2>3. (h + 0) % Size = IF h + 0 < Size THEN h + 0 ELSE h + 0 - Size
    BY <2>2, PlaceIs
  <2>4. (h + 0) % Size = h
    BY <2>2, <2>3
  <2>5. QED
    BY <1>1, <2>1, <2>4 DEF Place
<1>7. HeadKind = program[mic.pc] /\ HeadKind \in Kinds
  BY <1>1, <1>3, <1>4 DEF HeadKind
<1>8. [mic EXCEPT !.pc = Head(pay).pc] = mic
  BY <1>1, <1>3, <1>4 DEF States
<1>9. QED
  BY <1>2, <1>3, <1>4, <1>5, <1>6, <1>7, <1>8

(* The record of it, as the pipeline sees it, and the state after it.       *)
LEMMA RetiredIs ==
  ASSUME IInv, dbg.oneEach, Ready, NEW v, v = StepOutcome(mic, HeadKind)
  PROVE  /\ v \in States /\ v.step = mic.step
         /\ Record(program, Present) = Entry(Present, Counting(v, instret), Trapping(HeadKind))
         /\ Onwards(Counting(v, instret)) = CountStep(UpdateTimer(v), instret + 1)
         /\ UpdateTimer(v) \in States /\ UpdateTimer(v).step = mic.step
         /\ UpdateTimer(v).pc = v.pc /\ UpdateTimer(v).r = v.r
<1>1. Cycling(mic, instret, limit, lane) /\ mic \in States /\ Present.pc = mic.pc
  BY InvIs
<1>2. HeadKind = program[mic.pc] /\ HeadKind \in Kinds
  BY HeadIs
<1>3. instret < limit /\ instret \in Nat /\ Present = Counting(mic, instret)
  BY <1>1, PresentIs DEF Ready, Present
<1>4. v \in States /\ v.step = mic.step
  BY <1>1, <1>2, OutcomeIs
<1>5. StepOutcome(Present, HeadKind) = Counting(v, instret)
  BY <1>1, <1>2, <1>3, OutcomeCounting
<1>6. Record(program, Present) = Entry(Present, Counting(v, instret), Trapping(HeadKind))
  BY <1>1, <1>2, <1>5 DEF Record
<1>7. Onwards(Counting(v, instret)) = CountStep(UpdateTimer(v), instret + 1)
  BY <1>3, <1>4, OnwardsCounting
<1>8. QED
  BY <1>4, <1>6, <1>7, TimerIs

LEMMA RetireKeeps ==
  ASSUME IInv, dbg.oneEach, Ready, NEW v, v = StepOutcome(mic, HeadKind),
         NEW x, Trapping(HeadKind) => x, Checker(v, x), dbg'.oneEach,
         mic' = UpdateTimer(v), Counted
  PROVE  /\ Cycling(mic', instret', limit', lane') /\ ~ aborted'
         /\ Chain(program, Buffer', Present') /\ Buffer'.length >= Size - 1
         /\ Present'.pc = v.pc /\ Present'.r = v.r
         /\ Buffer.db[Place(Buffer, 0)].next = v.pc
         /\ \A i \in 0 .. Size - 2 :
              /\ Place(Buffer', i) = Place(Buffer, i + 1)
              /\ Buffer'.db[Place(Buffer', i)] = Buffer.db[Place(Buffer, i + 1)]
                 \/ i + 1 = Buffer.length
              /\ Before(Buffer', Present', i) = Before(Buffer, Present, i + 1)
<1>1. /\ program \in [Addr -> Kinds] /\ IsRing(Buffer) /\ ~ aborted
      /\ Cycling(mic, instret, limit, lane) /\ Chain(program, Buffer, Present) /\ Buffer.length >= Size - 1
      /\ Present.pc = mic.pc
  BY InvIs
<1>2. PICK c : c = RunAhead(Buffer)
  OBVIOUS
<1>3. Pop
  BY DEF Checker
<1>4. /\ Fed(Buffer, Present, c, Size - Buffer.length) /\ Popped(c, Buffer')
      /\ c.oneEach /\ dbg'.db = c.db
  BY <1>1, <1>2, <1>3, PopIs
<1>5. /\ Size \in Nat \ {0} /\ Size > 1 /\ Buffer.length \in Nat /\ Buffer.length > 0 /\ Buffer.length <= Size
      /\ 0 \in 0 .. Buffer.length - 1 /\ 0 \in 0 .. Buffer.length
  BY <1>1, Sizes DEF Chain
<1>6. Chain(program, c, Present) /\ Extends(Buffer, c) /\ c.length = Size
  <2>1. Chain(program, c, Present) /\ Extends(Buffer, c) /\ c.length = Buffer.length + (Size - Buffer.length)
    BY <1>1, <1>4 DEF Fed
  <2>2. QED
    BY <1>5, <2>1
<1>7. /\ v \in States /\ v.step = mic.step
      /\ Record(program, Present) = Entry(Present, Counting(v, instret), Trapping(HeadKind))
      /\ Onwards(Counting(v, instret)) = CountStep(UpdateTimer(v), instret + 1)
      /\ UpdateTimer(v) \in States /\ UpdateTimer(v).step = mic.step
      /\ UpdateTimer(v).pc = v.pc /\ UpdateTimer(v).r = v.r
  BY RetiredIs
<1>8. Cycling(mic', instret', limit', lane')
  <2>1. instret' = instret + 1 /\ lane' = lane + 1 /\ limit' = limit /\ instret < limit
    BY DEF Counted, Ready
  <2>2. QED
    BY <1>1, <1>7, <2>1 DEF Cycling, Settled, States
<1>9. Present' = Onwards(Counting(v, instret)) /\ Present'.pc = v.pc /\ Present'.r = v.r
  <2>1. Present' = CountStep(mic', instret')
    BY DEF Present
  <2>2. CountStep(mic', instret').pc = mic'.pc /\ CountStep(mic', instret').r = mic'.r
    BY <1>8, PresentIs
  <2>3. QED
    BY <1>7, <2>1, <2>2 DEF Counted
<1>10. /\ c.db[Place(c, 0)] = Record(program, Present) /\ Place(c, 0) = Place(Buffer, 0)
       /\ c.db[Place(Buffer, 0)] = Buffer.db[Place(Buffer, 0)]
  <2>1. Before(c, Present, 0) = Present /\ 0 \in 0 .. c.length - 1
    BY <1>5, <1>6 DEF Before
  <2>2. c.db[Place(c, 0)] = Record(program, Present)
    BY <1>6, <2>1 DEF Chain
  <2>3. c.head = Buffer.head /\ c.db[Place(Buffer, 0)] = Buffer.db[Place(Buffer, 0)]
    BY <1>5, <1>6 DEF Extends
  <2>4. QED
    BY <2>2, <2>3 DEF Place
<1>11. Before(c, Present, 1) = Present'
  <2>1. Before(c, Present, 1) = Onwards(c.db[Place(c, 1 - 1)].state) /\ 1 - 1 = 0
    BY DEF Before
  <2>2. c.db[Place(c, 0)].state = Counting(v, instret)
    BY <1>7, <1>10 DEF Entry
  <2>3. QED
    BY <1>9, <2>1, <2>2
<1>12. PICK d : d = Buffer' /\ Popped(c, d)
  BY <1>4
<1>13. /\ Chain(program, d, Present') /\ d.length = Size - 1
       /\ \A i \in 0 .. Size - 1 : Place(d, i) = Place(c, i + 1)
       /\ \A i \in 0 .. Size - 1 : Before(d, Present', i) = Before(c, Present, i + 1)
  <2>1. c.length > 0
    BY <1>5, <1>6
  <2>2. QED
    BY <1>6, <1>11, <1>12, <2>1, PopKeepsChain
<1>14. ~ aborted'
  <2>1. aborted' = (aborted \/ ~ Head(pay).good \/ Head(pay).db # dbg.head
                            \/ ~ Agrees(dbg'.db[Head(pay).db], v, x))
    BY DEF Checker
  <2>2. Head(pay).good /\ Head(pay).db = dbg.head /\ Head(pay).pc = mic.pc /\ Place(Buffer, 0) = dbg.head
    BY HeadIs
  <2>3. PICK e : e = dbg'.db[Head(pay).db] /\ e = Entry(Present, Counting(v, instret), Trapping(HeadKind))
    BY <1>4, <1>7, <1>10, <2>2
  <2>4. e.pc = mic.pc /\ e.state = Counting(v, instret) /\ e.exception = Trapping(HeadKind)
    BY <1>1, <2>3 DEF Entry
  <2>5. /\ Counting(v, instret).count = v.count /\ Counting(v, instret).host = v.host
        /\ Counting(v, instret).timer = v.timer /\ Counting(v, instret).r = v.r
    BY <1>7 DEF Counting, States
  <2>6. Agrees(e, v, x)
    BY <2>2, <2>4, <2>5 DEF Agrees
  <2>7. QED
    BY <1>1, <2>1, <2>2, <2>3, <2>6
<1>15. Buffer.db[Place(Buffer, 0)].next = v.pc
  <2>1. Counting(v, instret).pc = v.pc
    BY <1>7 DEF Counting, States
  <2>2. QED
    BY <1>7, <1>10, <2>1 DEF Entry
<1>16. ASSUME NEW i \in 0 .. Size - 2
       PROVE  /\ Place(d, i) = Place(Buffer, i + 1)
              /\ d.db[Place(d, i)] = Buffer.db[Place(Buffer, i + 1)] \/ i + 1 = Buffer.length
              /\ Before(d, Present', i) = Before(Buffer, Present, i + 1)
  <2>1. /\ i \in 0 .. Size - 1 /\ i \in 0 .. Buffer.length - 1 /\ i + 1 # 0 /\ i + 1 - 1 = i
        /\ (i + 1 # Buffer.length => i + 1 \in 0 .. Buffer.length - 1)
    BY <1>1, <1>5
  <2>2. Place(d, i) = Place(c, i + 1) /\ Before(d, Present', i) = Before(c, Present, i + 1)
    BY <1>13, <2>1
  <2>3. c.head = Buffer.head /\ \A j \in 0 .. Buffer.length - 1 : c.db[Place(Buffer, j)] = Buffer.db[Place(Buffer, j)]
    BY <1>6 DEF Extends
  <2>4. Place(c, i + 1) = Place(Buffer, i + 1) /\ Place(c, i) = Place(Buffer, i) /\ d.db = c.db
    BY <1>12, <2>3 DEF Place, Popped
  <2>5. Before(c, Present, i + 1) = Before(Buffer, Present, i + 1)
    BY <2>1, <2>3, <2>4 DEF Before
  <2>6. QED
    BY <2>1, <2>2, <2>3, <2>4, <2>5
<1>17. d.length >= Size - 1
  BY <1>5, <1>13
<1>18. QED
  BY <1>8, <1>9, <1>12, <1>13, <1>14, <1>15, <1>16, <1>17

(* The path without its first instruction.                                  *)
LEMMA TailKeeps ==
  ASSUME IInv, dbg.oneEach, Ready, ~ Trapping(HeadKind), ~ Serial(HeadKind),
         NEW v, v = StepOutcome(mic, HeadKind), NEW q, q = Tail(pay),
         NEW b, NEW s, NEW o, s.r = o.r, o.pc = v.pc, o.r = v.r,
         \A i \in 0 .. Size - 2 :
           /\ Place(b, i) = Place(Buffer, i + 1)
           /\ b.db[Place(b, i)] = Buffer.db[Place(Buffer, i + 1)] \/ i + 1 = Buffer.length
           /\ Before(b, s, i) = Before(Buffer, Present, i + 1),
         Buffer.db[Place(Buffer, 0)].next = v.pc
  PROVE  InFlight(program, q, o, pc, active) /\ OnRecord(program, q, b, s)
<1>1. /\ InFlight(program, pay, mic, pc, active) /\ OnRecord(program, pay, Buffer, Present)
      /\ Buffer.length >= Size - 1 /\ Chain(program, Buffer, Present)
      /\ Present.r = mic.r /\ mic \in States /\ mic.r \in Bits
  BY InvIs
<1>2. /\ pay \in Seq(Fetches) /\ Len(pay) \in Nat \ {0} /\ 1 \in 1 .. Len(pay)
      /\ pay[1].pc = mic.pc /\ pay[1].good /\ pay[1].resolved
      /\ HeadKind = program[mic.pc] /\ HeadKind \in Kinds
  BY HeadIs
<1>3. PICK len \in Nat : len = Len(pay) /\ len > 0 /\ len <= Size - 1 /\ len <= MaxFlight
  BY <1>1, <1>2, Sizes DEF InFlight
<1>4. /\ q \in Seq(Fetches) /\ Len(q) = len - 1 /\ \A j \in 1 .. len - 1 : q[j] = pay[j + 1]
  <2>1. pay # <<>>
    BY <1>2, EmptySeq
  <2>2. q \in Seq(Fetches) /\ Len(q) = Len(pay) - 1 /\ \A i \in 1 .. Len(pay) - 1 : q[i] = pay[i + 1]
    BY <1>2, <2>1, HeadTailProperties
  <2>3. QED
    BY <1>3, <2>2
<1>5. /\ BitAt(program, pay, mic.r, 1) = mic.r
      /\ BitAt(program, pay, mic.r, 2) = IF HeadKind = "op" THEN 1 - mic.r ELSE mic.r
  <2>1. PICK a \in Nat \ {0} : a = 1 /\ a + 1 = 2
    OBVIOUS
  <2>2. /\ BitAt(program, pay, mic.r, 1) = mic.r
        /\ BitAt(program, pay, mic.r, a + 1) =
             IF program[pay[a].pc] = "op" THEN 1 - BitAt(program, pay, mic.r, a) ELSE BitAt(program, pay, mic.r, a)
    BY <1>1, BitAtIs
  <2>3. QED
    BY <1>2, <2>1, <2>2
<1>6. /\ v.r = BitAt(program, pay, mic.r, 2) /\ pay[1].next = v.pc
  <2>1. /\ v.r = IF HeadKind = "op" THEN 1 - mic.r ELSE mic.r
        /\ HeadKind \in {"op", "br"}
        /\ HeadKind = "op" => v.pc = After(mic.pc)
        /\ HeadKind = "br" => v.pc = IF mic.r = 1 THEN Target(mic.pc) ELSE After(mic.pc)
    BY <1>1, <1>2, PlainOutcome
  <2>2. IF HeadKind = "br" THEN pay[1].next = GoesTo(program, pay, mic.r, 1) ELSE pay[1].next = After(mic.pc)
    BY <1>1, <1>2 DEF InFlight
  <2>3. GoesTo(program, pay, mic.r, 1) = IF mic.r = 1 THEN Target(mic.pc) ELSE After(mic.pc)
    BY <1>2, <1>5 DEF GoesTo
  <2>4. QED
    BY <1>5, <2>1, <2>2, <2>3
<1>7. ASSUME NEW n \in 1 .. len - 1
      PROVE  BitAt(program, q, v.r, n) = BitAt(program, pay, mic.r, n + 1)
  <2>1. \A j \in 1 .. n - 1 : q[j].pc = pay[j + 1].pc
    BY <1>3, <1>4
  <2>2. PICK k \in Nat \ {0}, m \in 1 .. n : k = n /\ m = n /\ m \in 1 .. k
    OBVIOUS
  <2>3. PICK r \in Bits : r = mic.r
    BY <1>1
  <2>4. Shifted(pay, q, k)
    BY <2>1, <2>2 DEF Shifted
  <2>5. BitAt(program, q, BitAt(program, pay, r, 2), m) = BitAt(program, pay, r, m + 1)
    <3>1. SameBits(program, pay, q, r, k)
      BY <2>4, BitAtTail
    <3>2. QED
      BY <2>2, <3>1 DEF SameBits
  <2>6. QED
    BY <1>6, <2>2, <2>3, <2>5
<1>8. q # <<>> => len > 1 /\ Len(q) \in 1 .. len - 1 /\ 1 \in 1 .. len - 1
  <2>1. q # <<>> => Len(q) # 0
    BY <1>4, EmptySeq
  <2>2. QED
    BY <1>3, <1>4, <2>1
<1>9. \A n \in 1 .. len - 1 : /\ n \in 1 .. Len(pay) /\ n + 1 \in 1 .. Len(pay) /\ n + 1 - 1 = n
                              /\ n - 1 \in 0 .. Size - 2 /\ n - 1 + 1 = n /\ n # Buffer.length
                              /\ (n < len - 1 => n + 1 \in 1 .. len - 1 /\ n + 1 < Len(pay))
  <2>1. Buffer.length \in Nat /\ Size \in Nat /\ MaxFlight \in Nat /\ MaxFlight < Size
    BY <1>1, Sizes DEF Chain
  <2>2. len - 1 < Buffer.length
    BY <1>1, <1>3, <2>1
  <2>3. QED
    BY <1>3, <2>1, <2>2
<1>10. InFlight(program, q, o, pc, active)
  <2>1. pc = IF q = <<>> THEN o.pc ELSE q[Len(q)].next
    <3>1. pc = pay[len].next
      BY <1>1, <1>2, <1>3, EmptySeq DEF InFlight
    <3>2. CASE q = <<>>
      <4>1. len = 1
        <5>1. Len(q) = 0
          BY <3>2, EmptySeq
        <5>2. len - 1 = 0 => len = 1
          OBVIOUS
        <5>3. QED
          BY <1>4, <5>1, <5>2
      <4>2. QED
        BY <1>6, <3>1, <3>2, <4>1
    <3>3. CASE q # <<>>
      <4>1. q[Len(q)] = pay[Len(q) + 1] /\ Len(q) + 1 = len
        BY <1>3, <1>4, <1>8, <3>3
      <4>2. QED
        BY <3>1, <3>3, <4>1
    <3>4. QED
      BY <3>2, <3>3
  <2>2. q # <<>> => q[1].pc = o.pc
    <3>1. ASSUME q # <<>> PROVE q[1].pc = o.pc
      <4>1. q[1] = pay[1 + 1] /\ 1 < Len(pay)
        BY <1>3, <1>4, <1>8, <3>1
      <4>2. pay[1 + 1].pc = pay[1].next
        BY <1>1, <1>2, <4>1 DEF InFlight
      <4>3. QED
        BY <1>6, <4>1, <4>2
    <3>2. QED
      BY <3>1
  <2>3. ASSUME NEW n \in 1 .. len - 1
        PROVE  /\ n < Len(q) => q[n + 1].pc = q[n].next
               /\ Serial(program[q[n].pc]) => n = Len(q) /\ ~ active
               /\ IF program[q[n].pc] = "br" THEN q[n].resolved => q[n].next = GoesTo(program, q, o.r, n)
                  ELSE q[n].resolved /\ q[n].next = After(q[n].pc)
    <3>1. PICK m \in 1 .. Len(pay) : m = n + 1
      BY <1>9
    <3>2. /\ m < Len(pay) => pay[m + 1].pc = pay[m].next
          /\ Serial(program[pay[m].pc]) => m = Len(pay) /\ ~ active
          /\ IF program[pay[m].pc] = "br" THEN pay[m].resolved => pay[m].next = GoesTo(program, pay, mic.r, m)
             ELSE pay[m].resolved /\ pay[m].next = After(pay[m].pc)
      BY <1>1 DEF InFlight
    <3>3. q[n] = pay[m] /\ (m = Len(pay) => n = Len(q)) /\ (n < Len(q) => m < Len(pay) /\ q[n + 1] = pay[m + 1])
      BY <1>3, <1>4, <1>9, <3>1
    <3>4. GoesTo(program, q, o.r, n) = GoesTo(program, pay, mic.r, m)
      BY <1>7, <3>1, <3>3 DEF GoesTo
    <3>5. QED
      BY <3>2, <3>3, <3>4
  <2>4. Len(q) <= MaxFlight /\ pc \in Addr /\ active \in BOOLEAN
    <3>1. Len(q) <= MaxFlight
      BY <1>3, <1>4, Sizes
    <3>2. QED
      BY <1>1, <3>1 DEF InFlight
  <2>5. QED
    BY <1>4, <2>1, <2>2, <2>3, <2>4 DEF InFlight
<1>11. OnRecord(program, q, b, s)
  <2>1. q # <<>> => q[1].good
    <3>1. ASSUME q # <<>> PROVE q[1].good
      <4>1. q[1] = pay[1 + 1] /\ 1 < Len(pay)
        BY <1>3, <1>4, <1>8, <3>1
      <4>2. pay[1 + 1].pc = pay[1].next
        BY <1>1, <1>2, <4>1 DEF InFlight
      <4>3. pay[1 + 1].good = (pay[1].good /\ Buffer.db[Place(Buffer, 0)].next = pay[1 + 1].pc)
        <5>1. pay[1 + 1].good = (pay[1].good /\ Buffer.db[Place(Buffer, 1 - 1)].next = pay[1 + 1].pc)
          BY <1>1, <1>2, <4>1 DEF OnRecord
        <5>2. 1 - 1 = 0
          OBVIOUS
        <5>3. QED
          BY <5>1, <5>2
      <4>4. QED
        BY <1>2, <1>6, <4>1, <4>2, <4>3
    <3>2. QED
      BY <3>1
  <2>2. ASSUME NEW n \in 1 .. len - 1
        PROVE  /\ q[n].good =>
                    /\ q[n].db = Place(b, n - 1)
                    /\ b.db[Place(b, n - 1)].pc = q[n].pc
                    /\ Before(b, s, n - 1).r = BitAt(program, q, s.r, n)
               /\ n < Len(q) => q[n + 1].good = (q[n].good /\ b.db[Place(b, n - 1)].next = q[n + 1].pc)
    <3>1. PICK m \in 1 .. Len(pay) : m = n + 1 /\ m - 1 = n
      BY <1>9
    <3>2. /\ pay[m].good =>
               /\ pay[m].db = Place(Buffer, m - 1)
               /\ Buffer.db[Place(Buffer, m - 1)].pc = pay[m].pc
               /\ Before(Buffer, Present, m - 1).r = BitAt(program, pay, Present.r, m)
          /\ m < Len(pay) => pay[m + 1].good = (pay[m].good /\ Buffer.db[Place(Buffer, m - 1)].next = pay[m + 1].pc)
      BY <1>1 DEF OnRecord
    <3>3. q[n] = pay[m] /\ (n < Len(q) => m < Len(pay) /\ q[n + 1] = pay[m + 1])
      BY <1>3, <1>4, <1>9, <3>1
    <3>4. PICK i \in 0 .. Size - 2 : i = n - 1 /\ i + 1 = n /\ n # Buffer.length
      BY <1>9
    <3>5. /\ Place(b, i) = Place(Buffer, n) /\ b.db[Place(b, i)] = Buffer.db[Place(Buffer, n)]
          /\ Before(b, s, i) = Before(Buffer, Present, n)
      BY <3>4
    <3>6. BitAt(program, q, s.r, n) = BitAt(program, pay, Present.r, m)
      BY <1>1, <1>7, <3>1
    <3>7. QED
      BY <3>1, <3>2, <3>3, <3>4, <3>5, <3>6
  <2>3. QED
    BY <1>4, <2>1, <2>2 DEF OnRecord
<1>12. QED
  BY <1>10, <1>11

LEMMA CommitKeeps ==
  ASSUME IInv, dbg.oneEach, Commit, dbg'.oneEach
  PROVE  /\ Cycling(mic', instret', limit', lane') /\ ~ aborted'
         /\ Together(program, Buffer', Present', mic', pay', pc', active')
<1>1. /\ Ready /\ ~ Trapping(HeadKind) /\ ~ Serializing(mic, HeadKind)
      /\ InFlight(program, pay, mic, pc, active)
  BY InvIs DEF Commit
<1>2. PICK v : v = StepOutcome(mic, HeadKind)
  OBVIOUS
<1>3. [mic EXCEPT !.pc = Head(pay).pc] = mic
  BY <1>1, HeadIs
<1>4. v = Execute([mic EXCEPT !.pc = Head(pay).pc], HeadKind)
  BY <1>1, <1>2, <1>3 DEF StepOutcome
<1>5. /\ Checker(v, FALSE) /\ mic' = UpdateTimer(v) /\ pay' = Tail(pay) /\ Counted
      /\ IF Serial(HeadKind) THEN pc' = v.pc /\ active' = TRUE ELSE UNCHANGED <<pc, active>>
  BY <1>4 DEF Commit
<1>6. /\ Cycling(mic', instret', limit', lane') /\ ~ aborted'
      /\ Chain(program, Buffer', Present') /\ Buffer'.length >= Size - 1
      /\ Present'.pc = v.pc /\ Present'.r = v.r
      /\ Buffer.db[Place(Buffer, 0)].next = v.pc
      /\ \A i \in 0 .. Size - 2 :
           /\ Place(Buffer', i) = Place(Buffer, i + 1)
           /\ Buffer'.db[Place(Buffer', i)] = Buffer.db[Place(Buffer, i + 1)]
              \/ i + 1 = Buffer.length
           /\ Before(Buffer', Present', i) = Before(Buffer, Present, i + 1)
  BY <1>1, <1>2, <1>5, RetireKeeps
<1>7. /\ UpdateTimer(v).pc = v.pc /\ UpdateTimer(v).r = v.r /\ v.pc \in Addr
  BY <1>1, <1>2, RetiredIs DEF States
<1>8. CASE Serial(HeadKind)
  <2>1. pay' = <<>>
    <3>1. pay \in Seq(Fetches) /\ 1 \in 1 .. Len(pay) /\ HeadKind = program[pay[1].pc]
      BY <1>1, HeadIs
    <3>2. 1 = Len(pay)
      BY <1>1, <1>8, <3>1 DEF InFlight
    <3>3. Len(Tail(pay)) = 0 /\ Tail(pay) \in Seq(Fetches)
      BY <3>1, <3>2
    <3>4. QED
      BY <1>5, <3>3, EmptySeq
  <2>2. pc' = v.pc /\ active' = TRUE /\ mic'.pc \in Addr /\ mic'.pc = v.pc
    BY <1>5, <1>7, <1>8
  <2>3. InFlight(program, <<>>, mic', pc', TRUE) /\ OnRecord(program, <<>>, Buffer', Present')
    BY <2>2, NoneInFlight
  <2>4. QED
    BY <1>6, <2>1, <2>2, <2>3 DEF Together
<1>9. CASE ~ Serial(HeadKind)
  <2>1. PICK q, b, s, o : q = Tail(pay) /\ b = Buffer' /\ s = Present' /\ o = mic'
    OBVIOUS
  <2>2. s.r = o.r /\ o.pc = v.pc /\ o.r = v.r
    BY <1>5, <1>6, <1>7, <2>1
  <2>3. \A i \in 0 .. Size - 2 :
           /\ Place(b, i) = Place(Buffer, i + 1)
           /\ b.db[Place(b, i)] = Buffer.db[Place(Buffer, i + 1)] \/ i + 1 = Buffer.length
           /\ Before(b, s, i) = Before(Buffer, Present, i + 1)
    BY <1>6, <2>1
  <2>4. InFlight(program, q, o, pc, active) /\ OnRecord(program, q, b, s)
    BY <1>1, <1>2, <1>6, <1>9, <2>1, <2>2, <2>3, TailKeeps
  <2>5. QED
    BY <1>5, <1>6, <1>9, <2>1, <2>4 DEF Together
<1>10. QED
  BY <1>8, <1>9

LEMMA TakeExceptionKeeps ==
  ASSUME IInv, dbg.oneEach, TakeException, dbg'.oneEach
  PROVE  /\ Cycling(mic', instret', limit', lane') /\ ~ aborted'
         /\ Together(program, Buffer', Present', mic', pay', pc', active')
<1>1. Ready /\ (Trapping(HeadKind) \/ Serializing(mic, HeadKind))
  BY DEF TakeException
<1>2. PICK v : v = StepOutcome(mic, HeadKind)
  OBVIOUS
<1>3. mic \in States /\ Head(pay).pc = mic.pc
  BY <1>1, InvIs, HeadIs
<1>4. v = IF Trapping(HeadKind) THEN TakeTrap(mic, Head(pay).pc)
          ELSE [mic EXCEPT !.serialized = TRUE, !.pc = Head(pay).pc]
  <2>1. CASE Trapping(HeadKind)
    <3>1. ~ Serializing(mic, HeadKind)
      BY <2>1, TriedOnce
    <3>2. QED
      BY <1>2, <1>3, <2>1, <3>1 DEF StepOutcome
  <2>2. CASE ~ Trapping(HeadKind)
    <3>1. v = [mic EXCEPT !.serialized = TRUE]
      BY <1>1, <1>2, <2>2 DEF StepOutcome
    <3>2. [mic EXCEPT !.serialized = TRUE] = [mic EXCEPT !.serialized = TRUE, !.pc = mic.pc]
      BY <1>3 DEF States
    <3>3. QED
      BY <1>3, <2>2, <3>1, <3>2
  <2>3. QED
    BY <2>1, <2>2
<1>5. /\ Checker(v, TRUE) /\ mic' = UpdateTimer(v) /\ pc' = v.pc /\ pay' = <<>> /\ active' = TRUE /\ Counted
  BY <1>4 DEF TakeException
<1>6. /\ Cycling(mic', instret', limit', lane') /\ ~ aborted'
      /\ Chain(program, Buffer', Present') /\ Buffer'.length >= Size - 1
  BY <1>1, <1>2, <1>5, RetireKeeps
<1>7. UpdateTimer(v).pc = v.pc /\ v.pc \in Addr
  BY <1>1, <1>2, RetiredIs DEF States
<1>8. InFlight(program, <<>>, mic', pc', TRUE) /\ OnRecord(program, <<>>, Buffer', Present')
  BY <1>5, <1>7, NoneInFlight
<1>9. QED
  BY <1>5, <1>6, <1>8 DEF Together

----------------------------------------------------------------------------
(* What follows from the invariant.                                         *)
LEMMA InOrder ==
  ASSUME IInv, dbg.oneEach
  PROVE  NeverAborts /\ MappedInOrder
<1>1. /\ program \in [Addr -> Kinds] /\ ~ aborted
      /\ InFlight(program, pay, mic, pc, active) /\ OnRecord(program, pay, Buffer, Present)
      /\ Chain(program, Buffer, Present) /\ Buffer.length >= Size - 1
      /\ Present.r = mic.r /\ Buffer.head = dbg.head /\ Buffer.db = dbg.db
  BY InvIs
<1>2. /\ pay \in Seq(Fetches) /\ Len(pay) \in Nat /\ Len(pay) <= Size - 1 /\ dbg.head \in Nat
      /\ Buffer.length \in Nat /\ Size \in Nat
  <2>1. pay \in Seq(Fetches) /\ Len(pay) \in Nat /\ Len(pay) <= MaxFlight
    BY <1>1, LenProperties DEF InFlight
  <2>2. dbg.head \in Nat /\ Buffer.length \in Nat /\ MaxFlight \in Nat /\ Size \in Nat /\ MaxFlight < Size
    BY <1>1, Sizes DEF Chain
  <2>3. QED
    BY <2>1, <2>2
<1>3. pay # <<>> => Head(pay).good
  BY <1>1, <1>2 DEF OnRecord
<1>4. ASSUME NEW n \in DOMAIN pay
      PROVE  /\ pay[n].good =>
                  /\ pay[n].db = (dbg.head + n - 1) % Size
                  /\ dbg.db[pay[n].db].pc = pay[n].pc
                  /\ program[pay[n].pc] = "br" => dbg.db[pay[n].db].next = ActualNext(n)
             /\ n < Len(pay) =>
                  pay[n + 1].good = (pay[n].good /\ dbg.db[pay[n].db].next = pay[n + 1].pc)
  <2>1. n \in 1 .. Len(pay) /\ n \in Nat
    BY <1>2, LenProperties
  <2>2. PICK i \in Nat : i = n - 1 /\ i < Buffer.length /\ dbg.head + i = dbg.head + n - 1
    <3>1. n - 1 \in Nat /\ n - 1 < Len(pay) /\ Len(pay) <= Buffer.length
      BY <1>1, <1>2, <2>1
    <3>2. PICK i \in Nat : i = n - 1
      BY <3>1
    <3>3. i < Buffer.length
      BY <1>2, <3>1, <3>2
    <3>4. dbg.head + i = dbg.head + n - 1
      BY <1>2, <2>1, <3>2
    <3>5. QED
      BY <3>2, <3>3, <3>4
  <2>3. /\ pay[n].good =>
             /\ pay[n].db = Place(Buffer, i)
             /\ dbg.db[Place(Buffer, i)].pc = pay[n].pc
             /\ Before(Buffer, Present, i).r = BitAt(program, pay, mic.r, n)
        /\ n < Len(pay) =>
             pay[n + 1].good = (pay[n].good /\ dbg.db[Place(Buffer, i)].next = pay[n + 1].pc)
    BY <1>1, <2>1, <2>2 DEF OnRecord
  <2>4. Place(Buffer, i) = (dbg.head + n - 1) % Size
    BY <1>1, <2>2 DEF Place
  <2>5. ASSUME pay[n].good, program[pay[n].pc] = "br"
        PROVE  dbg.db[Place(Buffer, i)].next = ActualNext(n)
    <3>1. PICK s : s = Before(Buffer, Present, i)
      OBVIOUS
    <3>2. Settled(s) /\ dbg.db[Place(Buffer, i)] = Record(program, s) /\ dbg.db[Place(Buffer, i)].pc = s.pc
      BY <1>1, <2>2, <3>1, RecordAt
    <3>3. s.pc = pay[n].pc /\ s.r = ValueAt(n)
      BY <2>3, <2>5, <3>1, <3>2 DEF ValueAt, BitAt
    <3>4. dbg.db[Place(Buffer, i)].next = StepOutcome(s, "br").pc
      BY <1>1, <2>5, <3>2, <3>3, RecordIs
    <3>5. s \in States /\ "br" \in Kinds /\ ~ Serial("br")
      BY <3>2 DEF Settled, Kinds, Serial
    <3>6. StepOutcome(s, "br").pc = IF s.r = 1 THEN Target(s.pc) ELSE After(s.pc)
      BY <3>5, PlainOutcome
    <3>7. QED
      BY <3>3, <3>4, <3>6 DEF ActualNext
  <2>6. CASE pay[n].good
    BY <2>3, <2>4, <2>5, <2>6
  <2>7. CASE ~ pay[n].good
    BY <2>3, <2>7
  <2>8. QED
    BY <2>6, <2>7
<1>5. MappedInOrder
  BY <1>3, <1>4 DEF MappedInOrder
<1>6. QED
  BY <1>1, <1>5 DEF NeverAborts

----------------------------------------------------------------------------
(* The invariant is inductive.                                              *)
LEMMA ResetIs ==
  /\ Settled(Reset) /\ Reset.pc = 0 /\ Reset.r = 0 /\ ~ Reset.ei /\ ~ Reset.pei
  /\ CountStep(Reset, 0) = Reset /\ 0 \in Addr
<1>1. 0 \in Addr /\ INTERLEAVE \in Nat /\ INTERLEAVE # 0
  BY Sizes DEF Addr
<1>2. Settled(Reset) /\ Reset.pc = 0 /\ Reset.r = 0 /\ ~ Reset.ei /\ ~ Reset.pei /\ Reset.step = 0
  BY <1>1 DEF Settled, States, Reset, Bits
<1>3. CountStep(Reset, 0) = Reset
  BY <1>1, <1>2 DEF CountStep, Reset
<1>4. QED
  BY <1>1, <1>2, <1>3

LEMMA InvInit ==
  ASSUME Init
  PROVE  IInv
<1>1. program \in Programs /\ program \in [Addr -> Kinds]
  BY Sizes DEF Init, Addr
<1>2. PICK b : b = [isa |-> Reset, head |-> 0, tail |-> Size - 1, length |-> 0,
                    db |-> [e \in 0 .. Size - 1 |-> Entry(Reset, Reset, FALSE)],
                    oneEach |-> TRUE]
  OBVIOUS
<1>3. PICK c : c = RunAhead(b)
  OBVIOUS
<1>4. /\ isa = c.isa
      /\ dbg = [db |-> c.db, head |-> c.head, tail |-> c.tail, length |-> c.length, oneEach |-> c.oneEach]
  BY <1>2, <1>3 DEF Init
<1>5. /\ mic = Reset /\ pay = <<>> /\ pc = 0 /\ active = TRUE
      /\ instret = 0 /\ lane = 0 /\ limit = InstretLimit(Reset) /\ aborted = FALSE
  BY DEF Init
<1>6. Size \in Nat \ {0}
  BY Sizes
<1>7. /\ b.isa = Reset /\ b.head = 0 /\ b.tail = Size - 1 /\ b.length = 0 /\ b.oneEach = TRUE
      /\ b.db = [e \in 0 .. Size - 1 |-> Entry(Reset, Reset, FALSE)]
  BY <1>2
<1>8. IsRing(b)
  <2>1. b = [isa |-> b.isa, db |-> b.db, head |-> b.head, tail |-> b.tail, length |-> b.length,
             oneEach |-> b.oneEach]
    BY <1>2
  <2>2. b.length \in Int /\ b.length <= Size
    BY <1>6, <1>7
  <2>3. b.oneEach \in BOOLEAN
    BY <1>7
  <2>4. QED
    BY <2>1, <2>2, <2>3, Zenon DEF IsRing
<1>9. Chain(program, b, Reset)
  <2>1. b.head \in 0 .. Size - 1 /\ b.length \in 0 .. Size /\ b.db = [e \in 0 .. Size - 1 |-> b.db[e]]
    BY <1>6, <1>7
  <2>2. b.tail = Place(b, IF b.length = 0 THEN Size - 1 ELSE b.length - 1)
    <3>1. PICK h \in 0 .. Size - 1, i \in 0 .. Size : h = 0 /\ i = Size - 1 /\ h + i = i /\ i < Size
      BY <1>6
    <3>2. (h + i) % Size = IF h + i < Size THEN h + i ELSE h + i - Size
      BY PlaceIs
    <3>3. (h + i) % Size = i
      BY <3>1, <3>2
    <3>4. QED
      BY <1>7, <3>1, <3>3 DEF Place
  <2>3. \A i \in 0 .. b.length : i = 0
    BY <1>7
  <2>4. \A i \in 0 .. b.length - 1 : FALSE
    BY <1>7
  <2>5. Before(b, Reset, 0) = Reset
    BY DEF Before
  <2>6. Settled(Reset)
    BY ResetIs
  <2>7. b.isa = Before(b, Reset, b.length)
    BY <1>7, <2>5
  <2>8. \A i \in 0 .. b.length : Settled(Before(b, Reset, i))
    BY <2>3, <2>5, <2>6
  <2>9. QED
    BY <2>1, <2>2, <2>4, <2>7, <2>8 DEF Chain
<1>10. Fed(b, Reset, c, Size - b.length)
  BY <1>1, <1>3, <1>8, RunAheadIs
<1>11. IsRing(c) /\ (c.oneEach => Chain(program, c, Reset) /\ c.length = Size)
       /\ (Quiet(program) => Calm(c))
  <2>1. Calm(b)
    BY <1>7, ResetIs DEF Calm
  <2>2. 0 + (Size - 0) = Size
    BY <1>6
  <2>3. QED
    BY <1>7, <1>9, <1>10, <2>1, <2>2 DEF Fed
<1>12. Buffer = c
  <2>1. c = [isa |-> c.isa, db |-> c.db, head |-> c.head, tail |-> c.tail, length |-> c.length,
             oneEach |-> c.oneEach]
    BY <1>11 DEF IsRing
  <2>2. /\ isa = c.isa /\ dbg.db = c.db /\ dbg.head = c.head /\ dbg.tail = c.tail /\ dbg.length = c.length
        /\ dbg.oneEach = c.oneEach
    BY <1>4
  <2>3. QED
    BY <2>1, <2>2 DEF Buffer
<1>13. dbg = [db |-> dbg.db, head |-> dbg.head, tail |-> dbg.tail, length |-> dbg.length,
              oneEach |-> dbg.oneEach]
       /\ dbg.oneEach = c.oneEach
  BY <1>4
<1>14. Present = Reset
  BY <1>5, ResetIs DEF Present
<1>15. Cycling(mic, instret, limit, lane)
  <2>1. Reset.step + InstretLimit(Reset) <= INTERLEAVE /\ InstretLimit(Reset) \in Nat
    BY ResetIs, LimitIs
  <2>2. QED
    BY <1>5, <2>1, ResetIs DEF Cycling
<1>16. InFlight(program, pay, mic, pc, active) /\ OnRecord(program, pay, Buffer, Present)
  BY <1>5, ResetIs, NoneInFlight
<1>17. c.oneEach => Together(program, Buffer, Present, mic, pay, pc, active)
  <2>1. Size >= Size - 1
    BY <1>6
  <2>2. QED
    BY <1>11, <1>12, <1>14, <1>16, <2>1 DEF Together
<1>18. QED
  BY <1>1, <1>5, <1>11, <1>12, <1>13, <1>15, <1>17 DEF IInv

(* Steps that leave the functional simulator alone.                         *)
LEMMA InvAlone ==
  ASSUME IInv, UNCHANGED <<program, isa, dbg>>,
         dbg.oneEach => /\ Cycling(mic', instret', limit', lane') /\ Present' = Present
                        /\ InFlight(program, pay', mic', pc', active')
                        /\ OnRecord(program, pay', Buffer, Present) /\ ~ aborted'
  PROVE  IInv'
<1>1. program' = program /\ dbg' = dbg /\ isa' = isa /\ Buffer' = Buffer
  BY DEF Buffer
<1>2. dbg.oneEach => Chain(program, Buffer, Present) /\ Buffer.length >= Size - 1
  BY InvIs
<1>3. dbg.oneEach => Together(program, Buffer, Present', mic', pay', pc', active')
  BY <1>2 DEF Together
<1>4. QED
  BY <1>1, <1>3 DEF IInv

(* Steps that take a record from the ring.                                  *)
LEMMA InvPop ==
  ASSUME IInv, Pop, program' = program,
         dbg.oneEach /\ dbg'.oneEach =>
           /\ Cycling(mic', instret', limit', lane') /\ ~ aborted'
           /\ Together(program, Buffer', Present', mic', pay', pc', active')
  PROVE  IInv'
<1>1. /\ program \in Programs /\ program \in [Addr -> Kinds] /\ IsRing(Buffer)
      /\ Quiet(program) => Calm(Buffer)
  BY Sizes DEF IInv, Addr
<1>2. PICK c : c = RunAhead(Buffer)
  OBVIOUS
<1>3. /\ Fed(Buffer, Present, c, Size - Buffer.length)
      /\ dbg'.oneEach = c.oneEach /\ Buffer'.isa = c.isa /\ Buffer'.oneEach = c.oneEach /\ IsRing(Buffer')
      /\ dbg' = [db |-> dbg'.db, head |-> dbg'.head, tail |-> dbg'.tail, length |-> dbg'.length,
                 oneEach |-> dbg'.oneEach]
  BY <1>1, <1>2, PopIs
<1>4. Buffer.oneEach = dbg.oneEach
  BY DEF Buffer
<1>5. dbg'.oneEach => dbg.oneEach
  BY <1>3, <1>4 DEF Fed
<1>6. Quiet(program) => Calm(Buffer')
  <2>1. ASSUME Quiet(program) PROVE Calm(c)
    <3>1. Calm(Buffer) /\ dbg.oneEach
      BY <1>1, <1>4, <2>1 DEF Calm
    <3>2. Chain(program, Buffer, Present)
      BY <3>1, InvIs
    <3>3. QED
      BY <1>3, <2>1, <3>1, <3>2 DEF Fed
  <2>2. QED
    BY <1>3, <2>1 DEF Calm
<1>7. QED
  BY <1>1, <1>3, <1>5, <1>6 DEF IInv

LEMMA InvNext ==
  ASSUME IInv, [Next]_vars
  PROVE  IInv'
<1> DEFINE Kept == /\ Cycling(mic', instret', limit', lane') /\ Present' = Present
                   /\ InFlight(program, pay', mic', pc', active')
                   /\ OnRecord(program, pay', Buffer, Present) /\ ~ aborted'
<1>1. dbg.oneEach => /\ Cycling(mic, instret, limit, lane) /\ ~ aborted
                     /\ InFlight(program, pay, mic, pc, active) /\ OnRecord(program, pay, Buffer, Present)
  BY InvIs
<1>2. CASE Fetch
  <2>1. UNCHANGED <<program, isa, dbg, mic, instret, lane, limit>>
    BY <1>2 DEF Fetch
  <2>2. Present' = Present
    BY <2>1 DEF Present
  <2>3. dbg.oneEach => Kept
    BY <1>1, <1>2, <2>1, <2>2, FetchKeeps
  <2>4. QED
    BY <2>1, <2>3, InvAlone
<1>3. CASE Misfetch
  <2>1. UNCHANGED <<program, isa, dbg, mic, instret, lane, limit, aborted>>
    BY <1>3 DEF Misfetch
  <2>2. Present' = Present
    BY <2>1 DEF Present
  <2>3. dbg.oneEach => Kept
    BY <1>1, <1>3, <2>1, <2>2, MisfetchKeeps
  <2>4. QED
    BY <2>1, <2>3, InvAlone
<1>4. CASE \E n \in 1 .. MaxFlight : Resolve(n)
  <2>1. PICK n \in 1 .. MaxFlight : Resolve(n)
    BY <1>4
  <2>2. UNCHANGED <<program, isa, dbg, mic, instret, lane, limit, aborted>>
    BY <2>1 DEF Resolve
  <2>3. Present' = Present
    BY <2>2 DEF Present
  <2>4. dbg.oneEach => Kept
    BY <1>1, <2>1, <2>2, <2>3, ResolveKeeps
  <2>5. QED
    BY <2>2, <2>4, InvAlone
<1>5. CASE Commit
  <2>1. Pop /\ program' = program
    BY <1>5 DEF Commit, Checker, Counted
  <2>2. QED
    BY <1>5, <2>1, CommitKeeps, InvPop
<1>6. CASE TakeException
  <2>1. Pop /\ program' = program
    BY <1>6 DEF TakeException, Checker, Counted
  <2>2. QED
    BY <1>6, <2>1, TakeExceptionKeeps, InvPop
<1>7. CASE LoadViolation
  <2>1. UNCHANGED <<program, isa, dbg, mic, instret, limit, aborted>> /\ lane' = lane + 1
    BY <1>7 DEF LoadViolation
  <2>2. Present' = Present
    BY <2>1 DEF Present
  <2>3. dbg.oneEach => Cycling(mic', instret', limit', lane')
    BY <1>1, <2>1 DEF Cycling
  <2>4. dbg.oneEach => Kept
    BY <1>1, <1>7, <2>1, <2>2, <2>3, LoadViolationKeeps
  <2>5. QED
    BY <2>1, <2>4, InvAlone
<1>8. CASE EndCycle
  <2>1. UNCHANGED <<program, isa, dbg, pay, pc, active>>
    BY <1>8 DEF EndCycle
  <2>2. dbg.oneEach => Kept
    BY <1>1, <1>8, <2>1, EndCycleKeeps
  <2>3. QED
    BY <2>1, <2>2, InvAlone
<1>9. CASE UNCHANGED vars
  <2>1. UNCHANGED <<program, isa, dbg, mic, pay, pc, active, instret, lane, limit, aborted>>
    BY <1>9 DEF vars
  <2>2. Present' = Present
    BY <2>1 DEF Present
  <2>3. dbg.oneEach => Kept
    BY <1>1, <2>1, <2>2
  <2>4. QED
    BY <2>1, <2>3, InvAlone
<1>10. QED
  BY <1>2, <1>3, <1>4, <1>5, <1>6, <1>7, <1>8, <1>9 DEF Next

----------------------------------------------------------------------------
(* The inductive invariant: until the functional simulator takes an         *)
(* interrupt, the ring holds what it does from the state of the pipeline    *)
(* on, and what is in flight on the right path is mapped to it.             *)
THEOREM AheadOfThePipeline == Spec => []IInv
<1>1. Init => IInv
  BY InvInit
<1>2. IInv /\ [Next]_vars => IInv'
  BY InvNext
<1>3. QED
  BY <1>1, <1>2, PTL DEF Spec

(* Whatever the programs are: no assertion fails, and the payload is mapped *)
(* in order, as long as the functional simulator has counted an instruction *)
(* in each of its steps (the assertion of sim_t::step).                     *)
THEOREM AgreeUntilInterrupted == Spec => [](CountsOneEach => NeverAborts /\ MappedInOrder)
<1>1. IInv => (CountsOneEach => NeverAborts /\ MappedInOrder)
  BY InOrder DEF CountsOneEach
<1>2. QED
  BY <1>1, AheadOfThePipeline, PTL

(* No program enables interrupts.                                           *)
NoneEnables == \A g \in Programs : Quiet(g)

(* Then the functional simulator counts an instruction in every step.       *)
THEOREM CountsOneEachAlways ==
  ASSUME NoneEnables
  PROVE  Spec => []CountsOneEach
<1>1. IInv => CountsOneEach
  <2>1. SUFFICES ASSUME IInv PROVE CountsOneEach
    OBVIOUS
  <2>2. Calm(Buffer)
    BY <2>1 DEF IInv, NoneEnables
  <2>3. QED
    BY <2>2 DEF Calm, Buffer, CountsOneEach
<1>2. QED
  BY <1>1, AheadOfThePipeline, PTL

(* The two simulators never disagree: what the pipeline retires, in bundles *)
(* cut for the host and the timer, with squashes, traps and instructions    *)
(* tried twice, is what the functional simulator did, one instruction after *)
(* the other (checker.cc and the assertions of debug.cc and pipeline.cc).   *)
THEOREM NeverAbortsAlways ==
  ASSUME NoneEnables
  PROVE  Spec => []NeverAborts
BY CountsOneEachAlways, AgreeUntilInterrupted, PTL

(* The payload knows the record of each instruction on the right path, and  *)
(* of no other (payload_t::map_to_actual), and a branch's says where it     *)
(* goes.                                                                    *)
THEOREM MappedInOrderAlways ==
  ASSUME NoneEnables
  PROVE  Spec => []MappedInOrder
BY CountsOneEachAlways, AgreeUntilInterrupted, PTL

=============================================================================
