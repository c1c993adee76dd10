-------------------------- MODULE IssueQueueProofs --------------------------
(***************************************************************************)
(* For every size of the issue queue: the free list, the age list and the  *)
(* entries always agree, also between two iterations of the loops that     *)
(* take instructions out of the lists they walk on.                        *)
(*                                                                         *)
(* And it implements AgeQueue: read along the age list, the instructions   *)
(* are a pool in dispatch order, and every step of the queue, each         *)
(* iteration of its loops included, is a step of the pool or leaves it     *)
(* alone.                                                                  *)
(***************************************************************************)
EXTENDS IssueQueueProperties, FiniteSetTheorems, SequenceTheorems, WellFoundedInduction, TLAPS

----------------------------------------------------------------------------
(* The ring of the free list.                                               *)
Turn(a) == IF a < Size THEN a ELSE a - Size

FreeAt(n) == fl[Turn(flHead + n)]

LEMMA Sizes ==
  /\ Size \in Nat \ {0} /\ NumParts \in Nat \ {0} /\ Size % NumParts = 0
  /\ NLanes \in Nat \ {0} /\ NBranches \in Nat /\ Incoming \subseteq Insts /\ Incoming # {}
BY IssueQueueAssumption

LEMMA SizeNat == Size \in Nat \ {0}
BY Sizes

LEMMA Wrap ==
  ASSUME NEW n \in Nat \ {0}, NEW a \in 0 .. 2 * n - 1
  PROVE  a % n = IF a < n THEN a ELSE a - n
BY SMT

LEMMA TurnIsMod == \A a \in 0 .. 2 * Size - 1 : a % Size = Turn(a)
<1>1. TAKE a \in 0 .. 2 * Size - 1
<1>2. QED
  BY SizeNat, Wrap, Zenon DEF Turn

LEMMA TurnOfSum ==
  ASSUME NEW a \in 0 .. Size - 1, NEW b \in 0 .. Size
  PROVE  (a + b) % Size = Turn(a + b) /\ Turn(a + b) \in Slots
<1>1. (a + b) % Size = Turn(a + b)
  <2>1. a + b \in 0 .. 2 * Size - 1
    BY SizeNat
  <2>2. QED
    BY <2>1, TurnIsMod
<1>2. Turn(a + b) \in Slots
  BY SizeNat DEF Turn, Slots
<1>3. QED
  BY <1>1, <1>2

LEMMA IncTurns == \A i \in Slots : Inc(i) = Turn(i + 1) /\ Inc(i) \in Slots
BY SizeNat DEF Inc, Turn, Slots

LEMMA TurnInjective ==
  ASSUME NEW h \in Slots, NEW m \in 0 .. Size - 1, NEW n \in 0 .. Size - 1, m # n
  PROVE  Turn(h + m) # Turn(h + n)
BY SizeNat DEF Turn, Slots

LEMMA TurnAgain ==
  ASSUME NEW h \in Slots, NEW n \in 0 .. Size - 1
  PROVE  Turn(Turn(h + 1) + n) = Turn(h + (n + 1)) /\ Turn(h + 0) = h
         /\ Turn(Turn(h + n) + 1) = Turn(h + (n + 1))
BY SizeNat DEF Turn, Slots

----------------------------------------------------------------------------
(* What the free list holds, place by place.                                *)
FreeInv ==
  /\ length = Cardinality(Valid) /\ length + flLength = Size
  /\ flTail = Turn(flHead + flLength)
  /\ \A n \in 0 .. flLength - 1 : FreeAt(n) \in Slots \ Valid
  /\ \A m, n \in 0 .. flLength - 1 : m # n => FreeAt(m) # FreeAt(n)
  /\ \A i \in Slots \ Valid : \E n \in 0 .. flLength - 1 : FreeAt(n) = i

LEMMA ValidFinite ==
  /\ IsFiniteSet(Slots) /\ Cardinality(Slots) = Size
  /\ IsFiniteSet(Valid) /\ Cardinality(Valid) \in Nat
<1>1. IsFiniteSet(Slots) /\ Cardinality(Slots) = Size
  <2>1. 0 <= Size - 1 /\ Size - 1 - 0 + 1 = Size
    BY SizeNat
  <2>2. QED
    BY <2>1, SizeNat, FS_Interval DEF Slots
<1>2. Valid \in SUBSET Slots
  BY DEF Valid
<1>3. QED
  BY <1>1, <1>2, FS_Subset, FS_CardinalityType

LEMMA FreeIsConsistent ==
  ASSUME TypeOK, FreeInv
  PROVE  FreeListConsistent
<1>1. \A n \in 0 .. flLength - 1 : FreeSlot(n) = FreeAt(n)
  <2>1. TAKE n \in 0 .. flLength - 1
  <2>2. flHead \in 0 .. Size - 1 /\ n \in 0 .. Size
    BY SizeNat DEF TypeOK, Slots
  <2>3. QED
    BY <2>2, TurnOfSum, Zenon DEF FreeSlot, FreeAt
<1>2. flTail = (flHead + flLength) % Size
  <2>1. flHead \in 0 .. Size - 1 /\ flLength \in 0 .. Size
    BY DEF TypeOK, Slots
  <2>2. QED
    BY <2>1, TurnOfSum, Zenon DEF FreeInv
<1>3. {FreeSlot(n) : n \in 0 .. flLength - 1} = Slots \ Valid
  <2>1. \A n \in 0 .. flLength - 1 : FreeSlot(n) \in Slots \ Valid
    BY <1>1, Zenon DEF FreeInv
  <2>2. \A i \in Slots \ Valid : \E n \in 0 .. flLength - 1 : FreeSlot(n) = i
    BY <1>1, Zenon DEF FreeInv
  <2>3. QED
    BY <2>1, <2>2
<1>4. \A m, n \in 0 .. flLength - 1 : m # n => FreeSlot(m) # FreeSlot(n)
  BY <1>1, Zenon DEF FreeInv
<1>5. QED
  BY <1>2, <1>3, <1>4 DEF FreeListConsistent, FreeInv

(* dispatch() takes the entry at the head.                                  *)
LEMMA TakeFree ==
  ASSUME TypeOK, FreeInv, NEW inst \in Incoming, Dispatch(inst)
  PROVE  FreeInv' /\ flHead' \in Slots /\ flLength' \in 0 .. Size /\ length' \in 0 .. Size
         /\ fl[flHead] \in Slots \ Valid /\ Valid' = Valid \cup {fl[flHead]}
<1> DEFINE free == fl[flHead]
<1>1. /\ flLength \in Nat /\ flLength >= 1 /\ flLength <= Size /\ length \in Nat
      /\ flHead \in Slots /\ fl \in [Slots -> Slots]
  BY SizeNat DEF TypeOK, Dispatch, Stall
<1>2. /\ q' = Link(free, inst) /\ length' = length + 1 /\ flHead' = Inc(flHead)
      /\ flLength' = flLength - 1 /\ fl' = fl /\ flTail' = flTail
  BY DEF Dispatch
<1>3. FreeAt(0) = free /\ 0 \in 0 .. flLength - 1
  <2>1. Turn(flHead + 0) = flHead
    BY <1>1, SizeNat DEF Turn, Slots
  <2>2. QED
    BY <1>1, <2>1 DEF FreeAt
<1>4. free \in Slots \ Valid
  BY <1>3, Zenon DEF FreeInv
<1>5. Valid' = Valid \cup {free}
  BY <1>2, <1>4 DEF Valid, Link
<1>6. flHead' = Turn(flHead + 1) /\ flHead' \in Slots
  BY <1>1, <1>2, IncTurns
<1>7. \A n \in 0 .. flLength' - 1 : FreeAt(n)' = FreeAt(n + 1) /\ n + 1 \in 0 .. flLength - 1 /\ n + 1 # 0
  <2>1. TAKE n \in 0 .. flLength' - 1
  <2>2. n \in 0 .. Size - 1 /\ n + 1 \in 0 .. flLength - 1 /\ n + 1 # 0
    BY <1>1, <1>2, SizeNat
  <2>3. Turn(flHead' + n) = Turn(flHead + (n + 1))
    BY <1>1, <1>6, <2>2, TurnAgain
  <2>4. QED
    BY <1>2, <2>2, <2>3 DEF FreeAt
<1>8. length' = Cardinality(Valid')
  BY <1>2, <1>4, <1>5, ValidFinite, FS_AddElement DEF FreeInv
<1>9. length' + flLength' = Size /\ length' \in 0 .. Size /\ flLength' \in 0 .. Size
  BY <1>1, <1>2, SizeNat DEF FreeInv
<1>10. flTail' = Turn(flHead' + flLength')
  <2>1. flLength - 1 \in 0 .. Size - 1 /\ (flLength - 1) + 1 = flLength
    BY <1>1, SizeNat
  <2>2. Turn(Turn(flHead + 1) + (flLength - 1)) = Turn(flHead + ((flLength - 1) + 1))
    BY <1>1, <2>1, TurnAgain, Zenon
  <2>3. QED
    BY <1>2, <1>6, <2>1, <2>2 DEF FreeInv
<1>11. \A n \in 0 .. flLength' - 1 : FreeAt(n)' \in Slots \ Valid'
  <2>1. TAKE n \in 0 .. flLength' - 1
  <2>2. FreeAt(n + 1) \in Slots \ Valid /\ FreeAt(n + 1) # free
    BY <1>3, <1>7, Zenon DEF FreeInv
  <2>3. QED
    BY <1>5, <1>7, <2>2
<1>12. \A m, n \in 0 .. flLength' - 1 : m # n => FreeAt(m)' # FreeAt(n)'
  <2>1. TAKE m, n \in 0 .. flLength' - 1
  <2>2. m # n => m + 1 # n + 1
    BY <1>1, <1>2
  <2>3. QED
    BY <1>7, <2>2, Zenon DEF FreeInv
<1>13. \A i \in Slots \ Valid' : \E n \in 0 .. flLength' - 1 : FreeAt(n)' = i
  <2>1. TAKE i \in Slots \ Valid'
  <2>2. i \in Slots \ Valid /\ i # free
    BY <1>5
  <2>3. PICK n \in 0 .. flLength - 1 : FreeAt(n) = i
    BY <2>2, Zenon DEF FreeInv
  <2>4. n # 0
    BY <1>3, <2>2, <2>3
  <2>5. n - 1 \in 0 .. flLength' - 1 /\ (n - 1) + 1 = n
    BY <1>1, <1>2, <2>4
  <2>6. FreeAt(n - 1)' = FreeAt((n - 1) + 1)
    BY <1>7, <2>5, Zenon
  <2>7. FreeAt(n - 1)' = i
    BY <2>3, <2>5, <2>6
  <2>8. QED
    BY <2>5, <2>7
<1>14. QED
  BY <1>4, <1>5, <1>6, <1>8, <1>9, <1>10, <1>11, <1>12, <1>13 DEF FreeInv

(* remove() puts the entry at the tail.                                     *)
LEMMA GiveFree ==
  ASSUME TypeOK, FreeInv, NEW i \in Valid, Remove(i)
  PROVE  FreeInv' /\ flTail' \in Slots /\ flLength' \in 0 .. Size /\ length' \in 0 .. Size
         /\ fl' \in [Slots -> Slots] /\ length >= 1 /\ Valid' = Valid \ {i}
<1>1. /\ flLength \in Nat /\ length \in Nat /\ length + flLength = Size
      /\ flHead \in Slots /\ flTail \in Slots /\ fl \in [Slots -> Slots]
      /\ q \in [Slots -> Entry] /\ i \in Slots
  BY SizeNat DEF TypeOK, FreeInv, Valid
<1>2. /\ q' = Unlink(i) /\ length' = length - 1 /\ flHead' = flHead
      /\ flLength' = flLength + 1 /\ fl' = [fl EXCEPT ![flTail] = i] /\ flTail' = Inc(flTail)
  BY DEF Remove, PushFree
<1>3. Valid' = Valid \ {i}
  <2>1. \A k \in Slots : q'[k].valid = (k # i /\ q[k].valid)
    BY <1>1, <1>2 DEF Unlink, Entry
  <2>2. QED
    BY <2>1 DEF Valid
<1>4. length' = Cardinality(Valid') /\ length >= 1
  <2>1. Cardinality(Valid \ {i}) = Cardinality(Valid) - 1
    BY ValidFinite, FS_RemoveElement
  <2>2. IsFiniteSet(Valid \ {i})
    BY ValidFinite, FS_RemoveElement
  <2>3. Cardinality(Valid \ {i}) \in Nat
    BY <2>2, FS_CardinalityType
  <2>4. length = Cardinality(Valid)
    BY DEF FreeInv
  <2>5. QED
    BY <1>1, <1>2, <1>3, <2>1, <2>3, <2>4
<1>5. length' + flLength' = Size /\ length' \in 0 .. Size /\ flLength' \in 0 .. Size
      /\ flLength \in 0 .. Size - 1
  BY <1>1, <1>2, <1>4, SizeNat
<1>6. flTail = Turn(flHead + flLength)
  BY DEF FreeInv
<1>7. flTail' = Turn(flHead' + flLength') /\ flTail' \in Slots
  <2>1. Inc(flTail) = Turn(flTail + 1) /\ Inc(flTail) \in Slots
    BY <1>1, IncTurns
  <2>2. Turn(Turn(flHead + flLength) + 1) = Turn(flHead + (flLength + 1))
    BY <1>1, <1>5, TurnAgain
  <2>3. QED
    BY <1>2, <1>6, <2>1, <2>2
<1>8. \A n \in 0 .. flLength' - 1 :
        FreeAt(n)' = IF n = flLength THEN i ELSE FreeAt(n)
  <2>1. TAKE n \in 0 .. flLength' - 1
  <2>2. n \in 0 .. Size - 1 /\ (n # flLength => n \in 0 .. flLength - 1)
    BY <1>1, <1>2, <1>5
  <2>3. n # flLength => Turn(flHead + n) # flTail
    BY <1>1, <1>5, <1>6, <2>2, TurnInjective
  <2>4. Turn(flHead + n) \in Slots
    BY <1>1, <2>2, SizeNat DEF Turn, Slots
  <2>5. fl'[Turn(flHead' + n)] = IF n = flLength THEN i ELSE fl[Turn(flHead + n)]
    BY <1>1, <1>2, <1>6, <2>3, <2>4
  <2>6. QED
    BY <2>5 DEF FreeAt
<1>9. \A n \in 0 .. flLength' - 1 : n # flLength => n \in 0 .. flLength - 1
  BY <1>1, <1>2
<1>10. \A n \in 0 .. flLength - 1 : FreeAt(n) \in Slots \ Valid /\ FreeAt(n) # i
  BY Zenon DEF FreeInv
<1>11. \A n \in 0 .. flLength' - 1 : FreeAt(n)' \in Slots \ Valid'
  BY <1>1, <1>3, <1>8, <1>9, <1>10
<1>12. \A m, n \in 0 .. flLength' - 1 : m # n => FreeAt(m)' # FreeAt(n)'
  <2>1. TAKE m, n \in 0 .. flLength' - 1
  <2>2. \A k, l \in 0 .. flLength - 1 : k # l => FreeAt(k) # FreeAt(l)
    BY Zenon DEF FreeInv
  <2>3. FreeAt(m)' = (IF m = flLength THEN i ELSE FreeAt(m)) /\ FreeAt(n)' = (IF n = flLength THEN i ELSE FreeAt(n))
    BY <1>8, Zenon
  <2>4. QED
    BY <1>9, <1>10, <2>2, <2>3, Zenon
<1>13. \A k \in Slots \ Valid' : \E n \in 0 .. flLength' - 1 : FreeAt(n)' = k
  <2>1. TAKE k \in Slots \ Valid'
  <2>2. CASE k = i
    <3>1. flLength \in 0 .. flLength' - 1
      BY <1>1, <1>2
    <3>2. PICK n \in 0 .. flLength' - 1 : n = flLength
      BY <3>1
    <3>3. FreeAt(n)' = k
      BY <1>8, <2>2, <3>2
    <3>4. QED
      BY <3>3
  <2>3. CASE k # i
    <3>1. k \in Slots \ Valid
      BY <1>3, <2>3
    <3>2. PICK n \in 0 .. flLength - 1 : FreeAt(n) = k
      BY <3>1, Zenon DEF FreeInv
    <3>3. n \in 0 .. flLength' - 1 /\ n # flLength
      BY <1>1, <1>2
    <3>4. FreeAt(n)' = k
      BY <1>8, <3>2, <3>3
    <3>5. QED
      BY <3>3, <3>4
  <2>4. QED
    BY <2>2, <2>3
<1>14. fl' \in [Slots -> Slots]
  BY <1>1, <1>2
<1>15. QED
  BY <1>3, <1>4, <1>5, <1>7, <1>11, <1>12, <1>13, <1>14 DEF FreeInv

(* All other steps leave the free list alone, or make it new.               *)
LEMMA SameFree ==
  ASSUME FreeInv, Valid' = Valid, length' = length, UNCHANGED flVars
  PROVE  FreeInv'
<1>1. \A n : FreeAt(n)' = FreeAt(n)
  BY DEF FreeAt, flVars
<1>2. Cardinality(Valid') = Cardinality(Valid)
  OBVIOUS
<1>3. flLength' = flLength /\ flHead' = flHead /\ flTail' = flTail
  BY DEF flVars
<1>4. QED
  BY <1>1, <1>2, <1>3, Zenon DEF FreeInv

Emptied ==
  /\ Valid = {} /\ length = 0 /\ oldest = Nil /\ youngest = Nil
  /\ fl = [i \in Slots |-> i] /\ flHead = 0 /\ flTail = 0 /\ flLength = Size

LEMMA NewFree == Emptied => FreeInv
<1> SUFFICES ASSUME Emptied PROVE FreeInv
  OBVIOUS
<1> USE DEF Emptied
<1>1. \A n \in 0 .. Size - 1 : FreeAt(n) = n /\ n \in Slots
  BY SizeNat DEF FreeAt, Turn, Slots
<1>2. Cardinality({}) = 0
  BY FS_EmptySet
<1>3. Turn(0 + Size) = 0
  BY SizeNat DEF Turn
<1>4. \A i \in Slots : i \in 0 .. flLength - 1
  BY DEF Slots
<1>5. length + flLength = Size
  BY SizeNat
<1>6. \A n \in 0 .. flLength - 1 : FreeAt(n) \in Slots \ Valid
  BY <1>1
<1>7. \A m, n \in 0 .. flLength - 1 : m # n => FreeAt(m) # FreeAt(n)
  BY <1>1
<1>8. \A i \in Slots \ Valid : \E n \in 0 .. flLength - 1 : FreeAt(n) = i
  BY <1>1, <1>4
<1>9. QED
  BY <1>2, <1>3, <1>5, <1>6, <1>7, <1>8 DEF FreeInv

----------------------------------------------------------------------------
(* The age list: there is an order o of the entries that hold an            *)
(* instruction, and all links follow it.                                    *)
Places == 0 .. length - 1

AgeOrder(o) ==
  /\ \A n \in Places : o[n] \in Valid
  /\ \A m, n \in Places : m # n => o[m] # o[n]
  /\ \A i \in Valid : \E n \in Places : o[n] = i
  /\ oldest = IF length = 0 THEN Nil ELSE o[0]
  /\ youngest = IF length = 0 THEN Nil ELSE o[length - 1]
  /\ \A n \in Places : q[o[n]].next = IF n = length - 1 THEN Nil ELSE o[n + 1]
  /\ \A n \in Places : q[o[n]].prev = IF n = 0 THEN Nil ELSE o[n - 1]

AgeInv == \E o : AgeOrder(o)

LEMMA EntryFields ==
  \A e \in Entry : \A f :
    /\ [e EXCEPT !.next = f].next = f /\ [e EXCEPT !.next = f].prev = e.prev
    /\ [e EXCEPT !.next = f].valid = e.valid /\ [e EXCEPT !.next = f].inst = e.inst
    /\ [e EXCEPT !.prev = f].prev = f /\ [e EXCEPT !.prev = f].next = e.next
    /\ [e EXCEPT !.prev = f].valid = e.valid /\ [e EXCEPT !.prev = f].inst = e.inst
    /\ [e EXCEPT !.valid = f].prev = e.prev /\ [e EXCEPT !.valid = f].next = e.next
    /\ [e EXCEPT !.valid = f].valid = f /\ [e EXCEPT !.valid = f].inst = e.inst
BY DEF Entry

(* dispatch() puts the new entry behind the youngest.                       *)
LEMMA DispatchOrder ==
  ASSUME TypeOK, NEW o, AgeOrder(o), NEW inst \in Incoming, Dispatch(inst),
         fl[flHead] \in Slots \ Valid, Valid' = Valid \cup {fl[flHead]}
  PROVE  \E p : /\ AgeOrder(p)' /\ p[length] = fl[flHead]
               /\ \A n \in Places : p[n] = o[n]
<1>1. PICK free \in Slots \ Valid : free = fl[flHead]
  OBVIOUS
<1>2. /\ q' = Link(free, inst) /\ length' = length + 1 /\ youngest' = free
      /\ oldest' = IF oldest = Nil THEN free ELSE oldest
      /\ length \in Nat /\ q \in [Slots -> Entry]
  BY <1>1 DEF Dispatch, TypeOK
<1>3. PICK p : p = [n \in 0 .. length |-> IF n = length THEN free ELSE o[n]]
  OBVIOUS
<1>4. Places' = 0 .. length /\ \A n \in Places' : n = length \/ n \in Places
  BY <1>2 DEF Places
<1>5. /\ \A n \in Places : n \in Places' /\ p[n] = o[n] /\ n # length
      /\ length \in Places' /\ p[length] = free
  BY <1>2, <1>3, <1>4 DEF Places
<1>6. \A n \in Places : o[n] \in Valid /\ o[n] \in Slots /\ o[n] # free
  BY <1>1, Zenon DEF AgeOrder, Valid
<1>7. \A n \in Places' : p[n] \in Valid'
  BY <1>1, <1>4, <1>5, <1>6
<1>8. \A m, n \in Places' : m # n => p[m] # p[n]
  <2>1. TAKE m, n \in Places'
  <2>2. HAVE m # n
  <2>3. CASE m \in Places /\ n \in Places
    BY <1>5, <2>2, <2>3 DEF AgeOrder
  <2>4. CASE m = length /\ n \in Places
    BY <1>5, <1>6, <2>4
  <2>5. CASE m \in Places /\ n = length
    BY <1>5, <1>6, <2>5
  <2>6. QED
    BY <1>4, <2>2, <2>3, <2>4, <2>5
<1>9. \A i \in Valid' : \E n \in Places' : p[n] = i
  <2>1. TAKE i \in Valid'
  <2>2. CASE i = free
    BY <1>5, <2>2
  <2>3. CASE i # free
    <3>1. PICK n \in Places : o[n] = i
      BY <1>1, <2>3 DEF AgeOrder
    <3>2. QED
      BY <1>5, <3>1
  <2>4. QED
    BY <2>2, <2>3
<1>10. oldest' = p[0]
  <2>1. CASE length = 0
    BY <1>2, <1>5, <2>1 DEF AgeOrder
  <2>2. CASE length # 0
    <3>1. 0 \in Places
      BY <1>2, <2>2 DEF Places
    <3>2. oldest = o[0] /\ oldest # Nil
      BY <1>6, <2>2, <3>1 DEF AgeOrder, Slots, Nil
    <3>3. QED
      BY <1>2, <1>5, <3>1, <3>2
  <2>3. QED
    BY <2>1, <2>2
<1>11. youngest' = p[length' - 1]
  BY <1>2, <1>5
<1>12. \A n \in Places : q'[o[n]] = IF n = length - 1 THEN [q[o[n]] EXCEPT !.next = free] ELSE q[o[n]]
  <2>1. TAKE n \in Places
  <2>2. length # 0 /\ length - 1 \in Places
    BY <1>2 DEF Places
  <2>3. o[n] = youngest <=> n = length - 1
    BY <2>2, Zenon DEF AgeOrder
  <2>4. QED
    BY <1>2, <1>6, <2>3 DEF Link
<1>13. q'[free] = [valid |-> TRUE, inst |-> inst, prev |-> youngest, next |-> Nil]
  BY <1>1, <1>2 DEF Link
<1>14. \A n \in Places : /\ q'[o[n]].prev = q[o[n]].prev
                         /\ n = length - 1 => q'[o[n]].next = free
                         /\ n # length - 1 => q'[o[n]].next = q[o[n]].next
  <2>1. TAKE n \in Places
  <2>2. q[o[n]] \in Entry
    BY <1>2, <1>6
  <2>3. CASE n = length - 1
    <3>1. q'[o[n]] = [q[o[n]] EXCEPT !.next = free]
      BY <1>12, <2>3
    <3>2. q'[o[n]].prev = q[o[n]].prev /\ q'[o[n]].next = free
      BY <2>2, <3>1, EntryFields
    <3>3. QED
      BY <2>3, <3>2
  <2>4. CASE n # length - 1
    BY <1>12, <2>4
  <2>5. QED
    BY <2>3, <2>4
<1>15. \A n \in Places' : q'[p[n]].next = IF n = length' - 1 THEN Nil ELSE p[n + 1]
  <2>1. TAKE n \in Places'
  <2>2. CASE n = length
    BY <1>2, <1>5, <1>13, <2>2
  <2>3. CASE n \in Places /\ n = length - 1
    <3>1. p[n] = o[n] /\ q'[o[n]].next = free
      BY <1>5, <1>14, <2>3, Zenon
    <3>2. n + 1 = length /\ n # length' - 1
      BY <1>2, <2>3
    <3>3. QED
      BY <1>5, <3>1, <3>2
  <2>4. CASE n \in Places /\ n # length - 1
    <3>1. n + 1 \in Places /\ n # length' - 1
      BY <1>2, <2>4 DEF Places
    <3>2. q'[p[n]].next = q[o[n]].next
      BY <1>5, <1>12, <2>4
    <3>3. q[o[n]].next = o[n + 1]
      BY <2>4, Zenon DEF AgeOrder
    <3>4. QED
      BY <1>5, <3>1, <3>2, <3>3
  <2>5. QED
    BY <1>4, <2>2, <2>3, <2>4
<1>16. \A n \in Places' : q'[p[n]].prev = IF n = 0 THEN Nil ELSE p[n - 1]
  <2>1. TAKE n \in Places'
  <2>2. CASE n = length
    <3>1. q'[p[n]].prev = youngest
      BY <1>5, <1>13, <2>2
    <3>2. n # 0 => n - 1 \in Places
      BY <1>2, <2>2 DEF Places
    <3>3. QED
      BY <1>5, <2>2, <3>1, <3>2 DEF AgeOrder
  <2>3. CASE n \in Places
    <3>1. q'[p[n]].prev = q[o[n]].prev
      BY <1>5, <1>14, <2>3, Zenon
    <3>2. n # 0 => n - 1 \in Places
      BY <1>2, <2>3 DEF Places
    <3>3. q[o[n]].prev = IF n = 0 THEN Nil ELSE o[n - 1]
      BY <2>3, Zenon DEF AgeOrder
    <3>4. QED
      BY <1>5, <3>1, <3>2, <3>3
  <2>4. QED
    BY <1>4, <2>2, <2>3
<1>17. length' # 0
  BY <1>2
<1>18. AgeOrder(p)'
  BY <1>7, <1>8, <1>9, <1>10, <1>11, <1>15, <1>16, <1>17 DEF AgeOrder
<1>19. QED
  BY <1>1, <1>5, <1>18

(* remove() takes the entry at place k out of the order.                    *)
LEMMA UnlinkedFields ==
  ASSUME TypeOK, NEW i \in Slots, NEW j \in Slots, j # i, q' = Unlink(i),
         q[i].next # j \/ q[i].prev # j
  PROVE  /\ q'[j].prev = IF j = q[i].next THEN q[i].prev ELSE q[j].prev
         /\ q'[j].next = IF j = q[i].prev THEN q[i].next ELSE q[j].next
<1>1. q[j] \in Entry
  BY DEF TypeOK
<1>2. q'[j] = IF j = q[i].next THEN [q[j] EXCEPT !.prev = q[i].prev]
              ELSE IF j = q[i].prev THEN [q[j] EXCEPT !.next = q[i].next] ELSE q[j]
  BY DEF Unlink
<1>3. CASE j = q[i].next
  <2>1. q'[j] = [q[j] EXCEPT !.prev = q[i].prev]
    BY <1>2, <1>3
  <2>2. q'[j].prev = q[i].prev /\ q'[j].next = q[j].next
    BY <1>1, <2>1, EntryFields
  <2>3. QED
    BY <1>3, <2>2
<1>4. CASE j # q[i].next /\ j = q[i].prev
  <2>1. q'[j] = [q[j] EXCEPT !.next = q[i].next]
    BY <1>2, <1>4
  <2>2. q'[j].next = q[i].next /\ q'[j].prev = q[j].prev
    BY <1>1, <2>1, EntryFields
  <2>3. QED
    BY <1>4, <2>2
<1>5. CASE j # q[i].next /\ j # q[i].prev
  BY <1>2, <1>5
<1>6. QED
  BY <1>3, <1>4, <1>5

LEMMA RemoveOrder ==
  ASSUME TypeOK, NEW o, AgeOrder(o), NEW k \in Places, NEW i \in Valid, o[k] = i,
         Remove(i), Valid' = Valid \ {i}
  PROVE  \E p : AgeOrder(p)' /\ \A n \in Places' : p[n] = IF n < k THEN o[n] ELSE o[n + 1]
<1>1. k \in Places /\ o[k] = i
  OBVIOUS
<1>2. /\ q' = Unlink(i) /\ length' = length - 1 /\ length \in Nat
      /\ oldest' = IF oldest = i THEN q[i].next ELSE oldest
      /\ youngest' = IF youngest = i THEN q[i].prev ELSE youngest
  BY DEF Remove, TypeOK
<1>3. /\ k \in Nat /\ k < length /\ Places' = 0 .. length - 2
      /\ \A n \in Places' : n \in Nat /\ n <= length - 2 /\ n \in Places /\ n + 1 \in Places
  BY <1>2 DEF Places
<1>4. PICK p : p = [n \in 0 .. length - 2 |-> IF n < k THEN o[n] ELSE o[n + 1]]
  OBVIOUS
<1>5. \A n \in Places' : /\ n < k => p[n] = o[n]
                         /\ ~ (n < k) => p[n] = o[n + 1]
  BY <1>3, <1>4
<1>6. \A n \in Places : o[n] \in Valid /\ o[n] \in Slots /\ o[n] # Nil /\ (o[n] = i <=> n = k)
  <2>1. \A n \in Places : o[n] \in Valid
    BY Zenon DEF AgeOrder
  <2>2. \A n \in Places : o[n] = i <=> n = k
    BY <1>1, Zenon DEF AgeOrder
  <2>3. \A j \in Valid : j \in Slots /\ j # Nil
    BY SizeNat DEF Valid, Slots, Nil
  <2>4. QED
    BY <2>1, <2>2, <2>3
<1>7. /\ q[i].next = IF k = length - 1 THEN Nil ELSE o[k + 1]
      /\ q[i].prev = IF k = 0 THEN Nil ELSE o[k - 1]
  BY <1>1, Zenon DEF AgeOrder
<1>8. \A n \in Places : /\ o[n] = q[i].next <=> n = k + 1
                        /\ o[n] = q[i].prev <=> n = k - 1
  <2>1. TAKE n \in Places
  <2>2. n \in Nat /\ n < length
    BY <1>2 DEF Places
  <2>3. k # length - 1 => k + 1 \in Places
    BY <1>2, <1>3 DEF Places
  <2>4. k # 0 => k - 1 \in Places
    BY <1>2, <1>3 DEF Places
  <2>5. \A m \in Places : o[n] = o[m] <=> n = m
    BY Zenon DEF AgeOrder
  <2>6. o[n] # Nil
    BY <1>6
  <2>7. o[n] = q[i].next <=> n = k + 1
    <3>1. CASE k = length - 1
      BY <1>2, <1>3, <1>7, <2>2, <2>6, <3>1
    <3>2. CASE k # length - 1
      BY <1>7, <2>3, <2>5, <3>2
    <3>3. QED
      BY <3>1, <3>2
  <2>8. o[n] = q[i].prev <=> n = k - 1
    <3>1. CASE k = 0
      BY <1>7, <2>2, <2>6, <3>1
    <3>2. CASE k # 0
      BY <1>7, <2>4, <2>5, <3>2
    <3>3. QED
      BY <3>1, <3>2
  <2>9. QED
    BY <2>7, <2>8
<1>9. \A n \in Places : n # k =>
        /\ q'[o[n]].prev = IF n = k + 1 THEN q[i].prev ELSE q[o[n]].prev
        /\ q'[o[n]].next = IF n = k - 1 THEN q[i].next ELSE q[o[n]].next
  <2>1. TAKE n \in Places
  <2>2. HAVE n # k
  <2>3. o[n] \in Slots /\ o[n] # i /\ i \in Slots
    BY <1>6, <2>2 DEF Valid
  <2>4. q[i].next # o[n] \/ q[i].prev # o[n]
    BY <1>3, <1>8
  <2>5. /\ q'[o[n]].prev = IF o[n] = q[i].next THEN q[i].prev ELSE q[o[n]].prev
        /\ q'[o[n]].next = IF o[n] = q[i].prev THEN q[i].next ELSE q[o[n]].next
    BY <1>2, <2>3, <2>4, UnlinkedFields
  <2>6. QED
    BY <1>8, <2>5
<1>10. \A n \in Places' : p[n] \in Valid'
  <2>1. TAKE n \in Places'
  <2>2. n < k => n # k
    BY <1>3
  <2>3. ~ (n < k) => n + 1 # k
    BY <1>3
  <2>4. QED
    BY <1>3, <1>5, <1>6, <2>2, <2>3
<1>11. \A m, n \in Places' : m # n => p[m] # p[n]
  <2>1. TAKE m, n \in Places'
  <2>2. HAVE m # n
  <2>3. \A a, b \in Places : a # b => o[a] # o[b]
    BY Zenon DEF AgeOrder
  <2>4. m \in Nat /\ n \in Nat /\ m \in Places /\ n \in Places /\ m + 1 \in Places /\ n + 1 \in Places
    BY <1>3
  <2>5. PICK a \in Places : p[m] = o[a] /\ a = IF m < k THEN m ELSE m + 1
    BY <1>5, <2>4
  <2>6. PICK b \in Places : p[n] = o[b] /\ b = IF n < k THEN n ELSE n + 1
    BY <1>5, <2>4
  <2>7. a # b
    BY <1>3, <2>2, <2>4, <2>5, <2>6
  <2>8. QED
    BY <2>3, <2>5, <2>6, <2>7
<1>12. \A j \in Valid' : \E n \in Places' : p[n] = j
  <2>1. TAKE j \in Valid'
  <2>2. PICK m \in Places : o[m] = j
    BY Zenon DEF AgeOrder
  <2>3. m # k /\ m \in Nat /\ m < length
    BY <1>1, <1>2, <2>2 DEF Places
  <2>4. CASE m < k
    <3>1. m \in Places'
      BY <1>2, <1>3, <2>3, <2>4
    <3>2. QED
      BY <1>5, <2>2, <2>4, <3>1
  <2>5. CASE ~ (m < k)
    <3>1. m - 1 \in Places' /\ ~ (m - 1 < k) /\ (m - 1) + 1 = m
      BY <1>2, <1>3, <2>3, <2>5
    <3>2. p[m - 1] = o[(m - 1) + 1]
      BY <1>5, <3>1
    <3>3. QED
      BY <2>2, <3>1, <3>2
  <2>6. QED
    BY <2>4, <2>5
<1>13. length # 0 /\ 0 \in Places /\ length - 1 \in Places
  BY <1>2, <1>3 DEF Places
<1>14. oldest = o[0] /\ youngest = o[length - 1]
  BY <1>13 DEF AgeOrder
<1>15. oldest' = IF length' = 0 THEN Nil ELSE p[0]
  <2>1. CASE k = 0
    <3>1. oldest' = q[i].next
      BY <1>1, <1>2, <1>14, <2>1
    <3>2. length' # 0 => 0 \in Places' /\ p[0] = o[0 + 1]
      BY <1>2, <1>3, <1>5, <2>1
    <3>3. QED
      BY <1>2, <1>7, <2>1, <3>1, <3>2
  <2>2. CASE k # 0
    <3>1. oldest' = o[0]
      BY <1>2, <1>6, <1>13, <1>14, <2>2
    <3>2. length' # 0 /\ 0 \in Places' /\ 0 < k
      BY <1>2, <1>3, <2>2
    <3>3. QED
      BY <1>5, <3>1, <3>2
  <2>3. QED
    BY <2>1, <2>2
<1>16. youngest' = IF length' = 0 THEN Nil ELSE p[length' - 1]
  <2>1. CASE k = length - 1
    <3>1. youngest' = q[i].prev
      BY <1>1, <1>2, <1>14, <2>1
    <3>2. length' # 0 => length' - 1 \in Places' /\ length' - 1 < k /\ length' - 1 = k - 1
      BY <1>2, <1>3, <2>1
    <3>3. length' # 0 => p[length' - 1] = o[k - 1]
      BY <1>5, <3>2
    <3>4. QED
      BY <1>2, <1>7, <2>1, <3>1, <3>3
  <2>2. CASE k # length - 1
    <3>1. youngest' = o[length - 1]
      BY <1>2, <1>6, <1>13, <1>14, <2>2
    <3>2. length' # 0 /\ length' - 1 \in Places' /\ ~ (length' - 1 < k) /\ (length' - 1) + 1 = length - 1
      BY <1>2, <1>3, <2>2
    <3>3. p[length' - 1] = o[(length' - 1) + 1]
      BY <1>5, <3>2
    <3>4. QED
      BY <3>1, <3>2, <3>3
  <2>3. QED
    BY <2>1, <2>2
<1>17. \A n \in Places : /\ q[o[n]].next = IF n = length - 1 THEN Nil ELSE o[n + 1]
                         /\ q[o[n]].prev = IF n = 0 THEN Nil ELSE o[n - 1]
  BY Zenon DEF AgeOrder
<1>18. \A n \in Places' : q'[p[n]].next = IF n = length' - 1 THEN Nil ELSE p[n + 1]
  <2>1. TAKE n \in Places'
  <2>2. n \in Nat /\ n <= length - 2 /\ n \in Places /\ n + 1 \in Places
    BY <1>3
  <2>3. CASE n < k /\ n = k - 1
    <3>1. p[n] = o[n] /\ q'[o[n]].next = q[i].next
      BY <1>3, <1>5, <1>9, <2>2, <2>3
    <3>2. n # length' - 1 => n + 1 \in Places' /\ ~ (n + 1 < k) /\ (n + 1) + 1 = k + 1
      BY <1>2, <1>3, <2>2, <2>3
    <3>3. n # length' - 1 => p[n + 1] = o[k + 1]
      BY <1>5, <3>2
    <3>4. n = length' - 1 <=> k = length - 1
      BY <1>2, <1>3, <2>3
    <3>5. QED
      BY <1>7, <3>1, <3>3, <3>4
  <2>4. CASE n < k /\ n # k - 1
    <3>1. p[n] = o[n] /\ q'[o[n]].next = q[o[n]].next
      BY <1>3, <1>5, <1>9, <2>2, <2>4
    <3>2. n # length - 1 /\ n # length' - 1 /\ n + 1 \in Places' /\ n + 1 < k
      BY <1>2, <1>3, <2>2, <2>4
    <3>3. q[o[n]].next = o[n + 1] /\ p[n + 1] = o[n + 1]
      BY <1>5, <1>17, <2>2, <3>2
    <3>4. QED
      BY <3>1, <3>2, <3>3
  <2>5. CASE ~ (n < k)
    <3>1. PICK m \in Places : m = n + 1
      BY <2>2
    <3>2. m # k /\ m # k - 1
      BY <1>3, <2>2, <2>5, <3>1
    <3>3. p[n] = o[m] /\ q'[o[m]].next = q[o[m]].next
      BY <1>5, <1>9, <2>5, <3>1, <3>2
    <3>4. m = length - 1 <=> n = length' - 1
      BY <1>2, <2>2, <3>1
    <3>5. n # length' - 1 => n + 1 \in Places' /\ ~ (n + 1 < k)
      BY <1>2, <1>3, <2>2, <2>5
    <3>6. n # length' - 1 => p[n + 1] = o[m + 1]
      BY <1>5, <3>1, <3>5
    <3>7. QED
      BY <1>17, <3>3, <3>4, <3>6
  <2>6. QED
    BY <2>3, <2>4, <2>5
<1>19. \A n \in Places' : q'[p[n]].prev = IF n = 0 THEN Nil ELSE p[n - 1]
  <2>1. TAKE n \in Places'
  <2>2. n \in Nat /\ n <= length - 2 /\ n \in Places /\ n + 1 \in Places
    BY <1>3
  <2>3. CASE n < k
    <3>1. p[n] = o[n] /\ q'[o[n]].prev = q[o[n]].prev
      BY <1>3, <1>5, <1>9, <2>2, <2>3
    <3>2. n # 0 => n - 1 \in Places' /\ n - 1 < k
      BY <1>2, <1>3, <2>2, <2>3
    <3>3. n # 0 => p[n - 1] = o[n - 1]
      BY <1>5, <3>2
    <3>4. QED
      BY <1>17, <2>2, <3>1, <3>3
  <2>4. CASE n = k
    <3>1. PICK m \in Places : m = n + 1
      BY <2>2
    <3>2. m = k + 1 /\ m # k /\ ~ (n < k)
      BY <1>3, <2>4, <3>1
    <3>3. p[n] = o[m] /\ q'[o[m]].prev = q[i].prev
      BY <1>5, <1>9, <3>1, <3>2
    <3>4. n # 0 => n - 1 \in Places' /\ n - 1 < k
      BY <1>2, <1>3, <2>2, <2>4
    <3>5. n # 0 => p[n - 1] = o[n - 1]
      BY <1>5, <3>4
    <3>6. QED
      BY <1>7, <2>4, <3>3, <3>5
  <2>5. CASE n > k
    <3>1. PICK m \in Places : m = n + 1
      BY <2>2
    <3>2. m # k + 1 /\ m # k /\ m # 0 /\ m - 1 = n /\ n # 0 /\ ~ (n < k)
      BY <1>3, <2>2, <2>5, <3>1
    <3>3. p[n] = o[m] /\ q'[o[m]].prev = q[o[m]].prev
      BY <1>5, <1>9, <3>1, <3>2
    <3>4. n - 1 \in Places' /\ ~ (n - 1 < k) /\ (n - 1) + 1 = n
      BY <1>2, <1>3, <2>2, <2>5
    <3>5. p[n - 1] = o[(n - 1) + 1]
      BY <1>5, <3>4
    <3>6. QED
      BY <1>17, <3>2, <3>3, <3>4, <3>5
  <2>6. QED
    BY <1>3, <2>2, <2>3, <2>4, <2>5
<1>20. AgeOrder(p)'
  BY <1>10, <1>11, <1>12, <1>15, <1>16, <1>18, <1>19 DEF AgeOrder
<1>21. QED
  BY <1>5, <1>20

(* The order stays when no instruction comes or goes, and is empty with the *)
(* queue.                                                                   *)
LEMMA SameOrder ==
  ASSUME NEW o, AgeOrder(o), Valid' = Valid, UNCHANGED <<length, oldest, youngest>>,
         \A i \in Slots : q'[i].next = q[i].next /\ q'[i].prev = q[i].prev
  PROVE  AgeOrder(o)'
<1>1. Places' = Places
  BY DEF Places
<1>2. \A n \in Places : o[n] \in Slots
  BY Zenon DEF AgeOrder, Valid
<1>3. \A n \in Places : q'[o[n]].next = q[o[n]].next /\ q'[o[n]].prev = q[o[n]].prev
  BY <1>2
<1>4. /\ \A n \in Places' : q'[o[n]].next = IF n = length' - 1 THEN Nil ELSE o[n + 1]
      /\ \A n \in Places' : q'[o[n]].prev = IF n = 0 THEN Nil ELSE o[n - 1]
  BY <1>1, <1>3 DEF AgeOrder
<1>5. /\ oldest' = IF length' = 0 THEN Nil ELSE o[0]
      /\ youngest' = IF length' = 0 THEN Nil ELSE o[length' - 1]
  BY DEF AgeOrder
<1>6. QED
  BY <1>1, <1>4, <1>5 DEF AgeOrder

LEMMA NewOrder == Emptied => AgeInv
<1> SUFFICES ASSUME Emptied PROVE AgeInv
  OBVIOUS
<1> USE DEF Emptied
<1>1. PICK o : o = {}
  OBVIOUS
<1>2. Places = {}
  BY DEF Places
<1>3. AgeOrder(o)
  BY <1>2 DEF AgeOrder
<1>4. QED
  BY <1>3 DEF AgeInv

----------------------------------------------------------------------------
(* Types.                                                                   *)
LEMMA Division ==
  ASSUME NEW s \in Nat \ {0}, NEW n \in Nat \ {0}, s % n = 0
  PROVE  s = n * (s \div n) /\ s \div n \in Nat
BY SMT

LEMMA ProductMonotone ==
  ASSUME NEW a \in Nat, NEW b \in Nat, NEW d \in Nat, a <= b
  PROVE  a * d <= b * d /\ a * d \in Nat /\ b * d \in Nat
BY SMT

LEMMA ProductSucc ==
  ASSUME NEW a \in Nat, NEW d \in Nat
  PROVE  (a + 1) * d = a * d + d /\ a * d \in Nat
BY SMT

(* The partition that is served first is one of the partitions.             *)
Parts == {p * PartSize : p \in 0 .. NumParts - 1}

LEMMA PartsInside ==
  ASSUME NEW a \in Parts
  PROVE  /\ a \in Slots
         /\ (IF a + PartSize = Size THEN 0 ELSE a + PartSize) \in Parts
<1>1. Size = NumParts * PartSize /\ PartSize \in Nat
  BY Sizes, Division, Zenon DEF PartSize
<1>2. PICK p \in 0 .. NumParts - 1 : a = p * PartSize
  BY Zenon DEF Parts
<1>3. p \in Nat /\ p + 1 \in Nat /\ p + 1 <= NumParts /\ NumParts \in Nat
      /\ (p + 1 # NumParts => p + 1 \in 0 .. NumParts - 1) /\ 0 \in 0 .. NumParts - 1
  BY <1>2, Sizes
<1>4. (p + 1) * PartSize = a + PartSize /\ a \in Nat
  BY <1>1, <1>2, <1>3, ProductSucc
<1>5. (p + 1) * PartSize <= NumParts * PartSize
  BY <1>1, <1>3, ProductMonotone
<1>6. PartSize # 0
  <2>1. NumParts * 0 = 0
    BY <1>3
  <2>2. QED
    BY <1>1, <2>1, SizeNat, Zenon
<1>7. a \in Slots
  BY <1>1, <1>4, <1>5, <1>6, SizeNat DEF Slots
<1>8. CASE a + PartSize = Size
  <2>1. 0 * PartSize = 0
    BY <1>1
  <2>2. 0 \in Parts
    BY <1>3, <2>1 DEF Parts
  <2>3. QED
    BY <1>7, <1>8, <2>2
<1>9. CASE a + PartSize # Size
  <2>1. p + 1 # NumParts
    BY <1>1, <1>4, <1>9, Zenon
  <2>2. a + PartSize \in Parts
    BY <1>3, <1>4, <2>1 DEF Parts
  <2>3. QED
    BY <1>7, <1>9, <2>2
<1>10. QED
  BY <1>8, <1>9

(* A removed entry keeps its links, and its neighbours get links to         *)
(* entries.                                                                 *)
LEMMA RemoveTypes ==
  ASSUME TypeOK, NEW i \in Valid, Remove(i)
  PROVE  /\ q' \in [Slots -> Entry]
         /\ oldest' \in Slots \cup {Nil} /\ youngest' \in Slots \cup {Nil}
         /\ q'[i].next = q[i].next
         /\ \A j \in Slots : q'[j].inst = q[j].inst
         /\ \A j \in Slots : q'[j].valid = (j # i /\ q[j].valid)
<1>1. i \in Slots /\ q \in [Slots -> Entry] /\ q' = Unlink(i)
  BY DEF Valid, TypeOK, Remove
<1>2. \A e \in Entry, l \in Slots \cup {Nil} :
        /\ [e EXCEPT !.next = l] \in Entry /\ [e EXCEPT !.prev = l] \in Entry
        /\ [e EXCEPT !.valid = FALSE] \in Entry
  BY DEF Entry
<1>3. \A j \in Slots : q[j] \in Entry /\ q[j].next \in Slots \cup {Nil} /\ q[j].prev \in Slots \cup {Nil}
  BY <1>1 DEF Entry
<1>4. \A j \in Slots : /\ q'[j] \in Entry /\ q'[j].inst = q[j].inst
                       /\ j # i => q'[j].valid = q[j].valid
  <2>1. TAKE j \in Slots
  <2>2. CASE j = i
    <3>1. q'[j] = [q[j] EXCEPT !.valid = FALSE]
      BY <1>1, <2>2 DEF Unlink
    <3>2. q[j] \in Entry /\ q[i].next \in Slots \cup {Nil} /\ q[i].prev \in Slots \cup {Nil}
      BY <1>1, <1>3
    <3>3. q'[j] \in Entry
      BY <1>2, <3>1, <3>2, Zenon
    <3>4. q'[j].inst = q[j].inst
      BY <3>1, <3>2, EntryFields
    <3>5. QED
      BY <2>2, <3>3, <3>4
  <2>3. CASE j # i /\ j = q[i].next
    <3>1. q'[j] = [q[j] EXCEPT !.prev = q[i].prev]
      BY <1>1, <2>3 DEF Unlink
    <3>2. q[j] \in Entry /\ q[i].next \in Slots \cup {Nil} /\ q[i].prev \in Slots \cup {Nil}
      BY <1>1, <1>3
    <3>3. q'[j] \in Entry
      BY <1>2, <3>1, <3>2, Zenon
    <3>4. q'[j].inst = q[j].inst /\ q'[j].valid = q[j].valid
      BY <3>1, <3>2, EntryFields
    <3>5. QED
      BY <3>3, <3>4
  <2>4. CASE j # i /\ j # q[i].next /\ j = q[i].prev
    <3>1. q'[j] = [q[j] EXCEPT !.next = q[i].next]
      BY <1>1, <2>4 DEF Unlink
    <3>2. q[j] \in Entry /\ q[i].next \in Slots \cup {Nil} /\ q[i].prev \in Slots \cup {Nil}
      BY <1>1, <1>3
    <3>3. q'[j] \in Entry
      BY <1>2, <3>1, <3>2, Zenon
    <3>4. q'[j].inst = q[j].inst /\ q'[j].valid = q[j].valid
      BY <3>1, <3>2, EntryFields
    <3>5. QED
      BY <3>3, <3>4
  <2>5. CASE j # i /\ j # q[i].next /\ j # q[i].prev
    <3>1. q'[j] = q[j]
      BY <1>1, <2>5 DEF Unlink
    <3>2. QED
      BY <1>3, <3>1
  <2>6. QED
    BY <2>2, <2>3, <2>4, <2>5
<1>5. q'[i].next = q[i].next /\ q'[i].valid = FALSE
  <2>1. q'[i] = [q[i] EXCEPT !.valid = FALSE]
    BY <1>1 DEF Unlink
  <2>2. QED
    BY <1>1, <1>3, <2>1, EntryFields
<1>6. q' \in [Slots -> Entry]
  BY <1>1, <1>4 DEF Unlink
<1>7. oldest' \in Slots \cup {Nil} /\ youngest' \in Slots \cup {Nil}
  BY <1>1, <1>3 DEF Remove, TypeOK
<1>8. \A j \in Slots : q[j].valid \in BOOLEAN
  BY <1>3 DEF Entry
<1>9. \A j \in Slots : q'[j].valid = (j # i /\ q[j].valid)
  BY <1>4, <1>5, <1>8
<1>10. QED
  BY <1>4, <1>5, <1>6, <1>7, <1>9

----------------------------------------------------------------------------
(* The loops.  squash() has left nothing behind in the entries it has seen. *)
SquashInv ==
  InLoop("squash") =>
    \A i \in Slots : i < loop.i /\ q[i].valid => loop.b \notin q[i].inst.branch_mask

(* select_and_issue() has left nothing behind either: in the entries from   *)
(* the first partition on, or in those older than the one it looks at,      *)
(* which is in the age list.                                                *)
Passed(o, k) == \A m \in Places : m < k => ~ CanIssue(o[m])

ScannedByAge ==
  \E o : /\ AgeOrder(o)
         /\ \E k \in Places : o[k] = loop.i /\ Passed(o, k) /\ loop.j + (length - k) <= Size

ScannedByPart ==
  /\ loop.i = Turn(partNext + loop.j)
  /\ \A m \in 0 .. loop.j - 1 : ~ CanIssue(Turn(partNext + m))

ScanInv == InLoop("select") => IF ageBased THEN ScannedByAge ELSE ScannedByPart

IQInv == TypeOK /\ FreeInv /\ AgeInv /\ SquashInv /\ ScanInv

LEMMA LoopTypes ==
  /\ Idle \in Loops /\ Idle.in = "none"
  /\ \A l \in Loops, i \in Slots :
       /\ [l EXCEPT !.i = i] \in Loops /\ [l EXCEPT !.i = i].in = l.in
       /\ [l EXCEPT !.i = i].b = l.b /\ [l EXCEPT !.i = i].i = i
  /\ \A l \in Loops, i \in Slots, j \in Slots :
       /\ [l EXCEPT !.i = i, !.j = j] \in Loops /\ [l EXCEPT !.i = i, !.j = j].in = l.in
       /\ [l EXCEPT !.i = i, !.j = j].i = i /\ [l EXCEPT !.i = i, !.j = j].j = j
<1>1. Idle \in Loops /\ Idle.in = "none"
  BY SizeNat DEF Loops, Idle, Slots
<1>2. \A l \in Loops, i \in Slots :
       /\ [l EXCEPT !.i = i] \in Loops /\ [l EXCEPT !.i = i].in = l.in
       /\ [l EXCEPT !.i = i].b = l.b /\ [l EXCEPT !.i = i].i = i
  BY DEF Loops
<1>3. \A l \in Loops, i \in Slots, j \in Slots :
       /\ [l EXCEPT !.i = i, !.j = j] \in Loops /\ [l EXCEPT !.i = i, !.j = j].in = l.in
       /\ [l EXCEPT !.i = i, !.j = j].i = i /\ [l EXCEPT !.i = i, !.j = j].j = j
  BY DEF Loops
<1>4. QED
  BY <1>1, <1>2, <1>3

LEMMA InitIQ == Init => IQInv
<1> SUFFICES ASSUME Init PROVE IQInv
  OBVIOUS
<1>1. NoEntry \in Entry /\ NoEntry.valid = FALSE
  <2>1. (CHOOSE inst \in Incoming : TRUE) \in Insts
    BY Sizes
  <2>2. QED
    BY <2>1 DEF NoEntry, Entry
<1>2. q \in [Slots -> Entry] /\ Valid = {}
  BY <1>1 DEF Init, Valid
<1>3. Emptied
  BY <1>2 DEF Init, Emptied
<1>4. 0 \in {p * PartSize : p \in 0 .. NumParts - 1}
  <2>1. PartSize \in Nat
    BY Sizes, Division, Zenon DEF PartSize
  <2>2. 0 * PartSize = 0 /\ 0 \in 0 .. NumParts - 1
    BY <2>1, Sizes
  <2>3. QED
    BY <2>2
<1>5. TypeOK
  <2>1. length \in 0 .. Size /\ flLength \in 0 .. Size /\ flHead \in Slots /\ flTail \in Slots
        /\ fl \in [Slots -> Slots]
    BY SizeNat DEF Init, Slots
  <2>2. QED
    BY <1>2, <1>4, <2>1, LoopTypes DEF Init, TypeOK
<1>6. SquashInv /\ ScanInv
  BY LoopTypes DEF Init, SquashInv, ScanInv, InLoop
<1>7. QED
  BY <1>3, <1>5, <1>6, NewFree, NewOrder DEF IQInv

(* Outside of the loops the two conditions on them say nothing.             *)
LEMMA OutsideLoops ==
  ASSUME loop'.in = "none"
  PROVE  SquashInv' /\ ScanInv'
BY DEF SquashInv, ScanInv, InLoop

LEMMA DispatchKeeps ==
  ASSUME IQInv, NEW inst \in Incoming, Dispatch(inst)
  PROVE  IQInv'
<1>1. TypeOK /\ FreeInv
  BY DEF IQInv
<1>2. /\ FreeInv' /\ flHead' \in Slots /\ flLength' \in 0 .. Size /\ length' \in 0 .. Size
      /\ fl[flHead] \in Slots \ Valid /\ Valid' = Valid \cup {fl[flHead]}
  BY <1>1, TakeFree
<1>3. AgeInv'
  <2>1. PICK o : AgeOrder(o)
    BY DEF IQInv, AgeInv
  <2>2. \E p : AgeOrder(p)'
    BY <1>1, <1>2, <2>1, DispatchOrder
  <2>3. QED
    BY <2>2 DEF AgeInv
<1>4. loop'.in = "none"
  BY DEF Dispatch, InLoop
<1>5. TypeOK'
  <2>1. \A e \in Entry, l \in Slots : [e EXCEPT !.next = l] \in Entry
    BY DEF Entry
  <2>2. [valid |-> TRUE, inst |-> inst, prev |-> youngest, next |-> Nil] \in Entry
    BY <1>1, Sizes DEF Entry, TypeOK
  <2>3. \A i \in Slots : q[i] \in Entry
    BY <1>1 DEF TypeOK
  <2>4. Link(fl[flHead], inst) \in [Slots -> Entry]
    <3>1. \A i \in Slots : Link(fl[flHead], inst)[i] \in Entry
      <4>1. TAKE i \in Slots
      <4>2. CASE i = fl[flHead]
        BY <2>2, <4>2 DEF Link
      <4>3. CASE i # fl[flHead] /\ i = youngest
        BY <1>2, <2>1, <2>3, <4>3 DEF Link
      <4>4. CASE i # fl[flHead] /\ i # youngest
        BY <2>3, <4>4 DEF Link
      <4>5. QED
        BY <4>2, <4>3, <4>4
    <3>2. QED
      BY <3>1 DEF Link
  <2>5. oldest' \in Slots \cup {Nil} /\ youngest' \in Slots \cup {Nil}
    BY <1>1, <1>2 DEF Dispatch, TypeOK
  <2>6. QED
    BY <1>1, <1>2, <2>4, <2>5 DEF TypeOK, Dispatch
<1>6. QED
  BY <1>2, <1>3, <1>4, <1>5, OutsideLoops DEF IQInv

(* A step that changes nothing of an entry but its instruction.             *)
LEMMA OnlyInstructions ==
  ASSUME IQInv, loop'.in = "none", UNCHANGED <<length, oldest, youngest, flVars>>,
         \A i \in Slots : /\ q'[i].valid = q[i].valid
                          /\ q'[i].next = q[i].next /\ q'[i].prev = q[i].prev
  PROVE  FreeInv' /\ AgeInv' /\ SquashInv' /\ ScanInv'
<1>1. Valid' = Valid
  BY DEF Valid
<1>2. FreeInv'
  BY <1>1, SameFree DEF IQInv
<1>3. AgeInv'
  <2>1. PICK o : AgeOrder(o)
    BY DEF IQInv, AgeInv
  <2>2. AgeOrder(o)'
    BY <1>1, <2>1, SameOrder
  <2>3. QED
    BY <2>2 DEF AgeInv
<1>4. QED
  BY <1>2, <1>3, OutsideLoops

LEMMA InstFields ==
  \A e \in Entry, u \in Insts :
    /\ [e EXCEPT !.inst = u] \in Entry /\ [e EXCEPT !.inst = u].inst = u
    /\ [e EXCEPT !.inst = u].valid = e.valid
    /\ [e EXCEPT !.inst = u].next = e.next /\ [e EXCEPT !.inst = u].prev = e.prev
BY DEF Entry

LEMMA WakeupKeeps ==
  ASSUME IQInv, NEW tag \in Tags, Wakeup(tag)
  PROVE  IQInv'
<1>1. /\ q' = [i \in Slots |-> IF q[i].valid
                               THEN [q[i] EXCEPT !.inst.wait = @ \ {tag}] ELSE q[i]]
      /\ UNCHANGED <<length, oldest, youngest, flVars, partNext, ageBased, rr, loop>>
      /\ loop'.in = "none" /\ TypeOK
  BY DEF Wakeup, InLoop, IQInv
<1>2. \A i \in Slots : /\ q'[i] \in Entry /\ q'[i].valid = q[i].valid
                       /\ q'[i].next = q[i].next /\ q'[i].prev = q[i].prev
  <2>1. TAKE i \in Slots
  <2>2. q[i] \in Entry /\ q[i].inst \in Insts
    BY <1>1 DEF TypeOK, Entry
  <2>3. PICK u \in Insts : u = [q[i].inst EXCEPT !.wait = @ \ {tag}]
    BY <2>2 DEF Insts
  <2>4. CASE q[i].valid
    <3>1. q'[i] = [q[i] EXCEPT !.inst = u]
      BY <1>1, <2>3, <2>4
    <3>2. QED
      BY <2>2, <3>1, InstFields
  <2>5. CASE ~ q[i].valid
    BY <1>1, <2>2, <2>5
  <2>6. QED
    BY <2>4, <2>5
<1>3. q' \in [Slots -> Entry]
  BY <1>1, <1>2
<1>4. TypeOK'
  BY <1>1, <1>3 DEF TypeOK, flVars
<1>5. QED
  BY <1>1, <1>2, <1>4, OnlyInstructions DEF IQInv

LEMMA ClearBranchBitKeeps ==
  ASSUME IQInv, NEW b \in BranchIDs, ClearBranchBit(b)
  PROVE  IQInv'
<1>1. /\ q' = [i \in Slots |-> [q[i] EXCEPT !.inst.branch_mask = @ \ {b}]]
      /\ UNCHANGED <<length, oldest, youngest, flVars, partNext, ageBased, rr, loop>>
      /\ loop'.in = "none" /\ TypeOK
  BY DEF ClearBranchBit, InLoop, IQInv
<1>2. \A i \in Slots : /\ q'[i] \in Entry /\ q'[i].valid = q[i].valid
                       /\ q'[i].next = q[i].next /\ q'[i].prev = q[i].prev
  <2>1. TAKE i \in Slots
  <2>2. q[i] \in Entry /\ q[i].inst \in Insts
    BY <1>1 DEF TypeOK, Entry
  <2>3. PICK u \in Insts : u = [q[i].inst EXCEPT !.branch_mask = @ \ {b}]
    BY <2>2 DEF Insts
  <2>4. q'[i] = [q[i] EXCEPT !.inst = u]
    BY <1>1, <2>3
  <2>5. QED
    BY <2>2, <2>4, InstFields
<1>3. q' \in [Slots -> Entry]
  BY <1>1, <1>2
<1>4. TypeOK'
  BY <1>1, <1>3 DEF TypeOK, flVars
<1>5. QED
  BY <1>1, <1>2, <1>4, OnlyInstructions DEF IQInv

LEMMA FlushKeeps ==
  ASSUME IQInv, Flush
  PROVE  IQInv'
<1>1. TypeOK /\ loop'.in = "none"
  BY DEF Flush, InLoop, IQInv
<1>2. \A i \in Slots : q'[i] \in Entry /\ q'[i].valid = FALSE
  <2>1. TAKE i \in Slots
  <2>2. q[i] \in Entry /\ q'[i] = [q[i] EXCEPT !.valid = FALSE]
    BY <1>1 DEF Flush, TypeOK
  <2>3. QED
    BY <2>2 DEF Entry
<1>3. Valid' = {}
  BY <1>2 DEF Valid
<1>4. Emptied'
  BY <1>3 DEF Emptied, Flush
<1>5. (Emptied => FreeInv)' /\ (Emptied => AgeInv)'
  BY NewFree, NewOrder, PTL
<1>6. q' \in [Slots -> Entry]
  BY <1>2 DEF Flush
<1>7. /\ length' \in 0 .. Size /\ flLength' \in 0 .. Size /\ flHead' \in Slots
      /\ flTail' \in Slots /\ fl' \in [Slots -> Slots]
  BY SizeNat DEF Flush, Slots
<1>8. TypeOK'
  BY <1>1, <1>6, <1>7 DEF Flush, TypeOK
<1>9. QED
  BY <1>1, <1>4, <1>5, <1>8, OutsideLoops DEF IQInv

(* The start of the loops.                                                  *)
LEMMA SameLists ==
  ASSUME IQInv, KeepQueue
  PROVE  /\ FreeInv' /\ AgeInv' /\ Valid' = Valid /\ Places' = Places
         /\ \A o : AgeOrder(o) => AgeOrder(o)'
<1>1. Valid' = Valid /\ Places' = Places /\ UNCHANGED flVars /\ UNCHANGED listVars
  BY DEF KeepQueue, listVars, Valid, Places
<1>2. length' = length /\ oldest' = oldest /\ youngest' = youngest /\ q' = q
  BY <1>1 DEF listVars
<1>3. FreeInv'
  BY <1>1, <1>2, SameFree DEF IQInv
<1>4. \A o : AgeOrder(o) => AgeOrder(o)'
  BY <1>1, <1>2, SameOrder
<1>5. AgeInv'
  BY <1>4 DEF IQInv, AgeInv
<1>6. QED
  BY <1>1, <1>3, <1>4, <1>5

LEMMA StartSelectKeeps ==
  ASSUME IQInv, StartSelect
  PROVE  IQInv'
<1>1. TypeOK /\ KeepQueue /\ UNCHANGED <<partNext, ageBased>> /\ rr' = {}
      /\ (ageBased => oldest # Nil)
      /\ loop' = [in |-> "select", b |-> Nil, i |-> ScanStart, j |-> 0]
  BY DEF IQInv, StartSelect
<1>2. /\ FreeInv' /\ AgeInv' /\ Places' = Places
      /\ \A o : AgeOrder(o) => AgeOrder(o)'
  BY <1>1, SameLists
<1>3. partNext \in Slots
  BY <1>1, PartsInside DEF TypeOK, Parts
<1>4. ScanStart \in Slots
  BY <1>1, <1>3 DEF ScanStart, TypeOK
<1>5. loop' \in Loops
  BY <1>1, <1>4, SizeNat DEF Loops, Slots
<1>6. TypeOK'
  BY <1>1, <1>5 DEF TypeOK, KeepQueue, listVars, flVars
<1>7. SquashInv'
  BY <1>1 DEF SquashInv, InLoop
<1>8. CASE ageBased
  <2>1. PICK o : AgeOrder(o)
    BY DEF IQInv, AgeInv
  <2>2. length \in 0 .. Size /\ Size \in Nat
    BY <1>1, SizeNat DEF TypeOK
  <2>3. length # 0 /\ oldest = o[0]
    BY <1>1, <1>8, <2>1 DEF AgeOrder
  <2>4. 0 \in Places' /\ \A m \in Places' : ~ (m < 0)
    <3>1. 0 \in Places /\ \A m \in Places : ~ (m < 0)
      BY <2>2, <2>3 DEF Places
    <3>2. QED
      BY <1>2, <3>1
  <2>5. Passed(o, 0)'
    BY <2>4 DEF Passed
  <2>6. loop'.i = o[0] /\ loop'.j = 0
    BY <1>1, <1>8, <2>3 DEF ScanStart
  <2>7. 0 + (length' - 0) <= Size
    BY <1>1, <2>2 DEF KeepQueue, listVars
  <2>8. o[0] = loop'.i /\ Passed(o, 0)' /\ loop'.j + (length' - 0) <= Size
    BY <2>5, <2>6, <2>7
  <2>9. ScannedByAge'
    BY <1>2, <2>1, <2>4, <2>8 DEF ScannedByAge
  <2>10. ageBased' = TRUE
    BY <1>1, <1>8
  <2>11. QED
    BY <1>2, <1>6, <1>7, <2>9, <2>10 DEF IQInv, ScanInv
<1>9. CASE ~ ageBased
  <2>1. loop'.i = partNext /\ loop'.j = 0 /\ partNext' = partNext
    BY <1>1, <1>9 DEF ScanStart
  <2>2. Turn(partNext + 0) = partNext
    BY <1>3, SizeNat DEF Turn, Slots
  <2>3. ScannedByPart'
    BY <2>1, <2>2 DEF ScannedByPart
  <2>4. ~ ageBased'
    BY <1>1, <1>9
  <2>5. QED
    BY <1>2, <1>6, <1>7, <2>3, <2>4 DEF IQInv, ScanInv
<1>10. QED
  BY <1>8, <1>9

LEMMA StartSquashKeeps ==
  ASSUME IQInv, NEW b \in BranchIDs, StartSquash(b)
  PROVE  IQInv'
<1>1. TypeOK /\ KeepQueue /\ UNCHANGED <<partNext, ageBased, rr>>
      /\ loop' = [in |-> "squash", b |-> b, i |-> 0, j |-> 0]
  BY DEF IQInv, StartSquash
<1>2. FreeInv' /\ AgeInv'
  BY <1>1, SameLists
<1>3. loop' \in Loops
  BY <1>1, SizeNat DEF Loops, Slots
<1>4. TypeOK'
  BY <1>1, <1>3 DEF TypeOK, KeepQueue, listVars, flVars
<1>5. SquashInv'
  <2>1. \A i \in Slots : ~ (i < 0)
    BY SizeNat DEF Slots
  <2>2. loop'.i = 0
    BY <1>1
  <2>3. QED
    BY <2>1, <2>2 DEF SquashInv
<1>6. ScanInv'
  BY <1>1 DEF ScanInv, InLoop
<1>7. QED
  BY <1>2, <1>4, <1>5, <1>6 DEF IQInv

(* One iteration that removes an entry.                                     *)
LEMMA RemoveKeeps ==
  ASSUME IQInv, NEW i \in Valid, Remove(i)
  PROVE  /\ FreeInv' /\ AgeInv' /\ Valid' = Valid \ {i}
         /\ flTail' \in Slots /\ flLength' \in 0 .. Size /\ length' \in 0 .. Size
         /\ fl' \in [Slots -> Slots]
<1>1. TypeOK /\ FreeInv
  BY DEF IQInv
<1>2. /\ FreeInv' /\ Valid' = Valid \ {i}
      /\ flTail' \in Slots /\ flLength' \in 0 .. Size /\ length' \in 0 .. Size
      /\ fl' \in [Slots -> Slots]
  BY <1>1, GiveFree
<1>3. PICK o : AgeOrder(o)
  BY DEF IQInv, AgeInv
<1>4. PICK k \in Places : o[k] = i
  BY <1>3, Zenon DEF AgeOrder
<1>5. \E p : AgeOrder(p)'
  BY <1>1, <1>2, <1>3, <1>4, RemoveOrder
<1>6. AgeInv'
  BY <1>5 DEF AgeInv
<1>7. QED
  BY <1>2, <1>6

(* squash() looks at every entry in turn.                                   *)
LEMMA SquashStepKeeps ==
  ASSUME IQInv, SquashStep
  PROVE  /\ IQInv'
         /\ ~ InLoop("squash")' => \A i \in Valid' : loop.b \notin q'[i].inst.branch_mask
<1> DEFINE Hit == q[loop.i].valid /\ loop.b \in q[loop.i].inst.branch_mask
<1>1. TypeOK /\ SquashInv /\ InLoop("squash") /\ UNCHANGED <<partNext, ageBased, rr>>
      /\ loop' = (IF SquashNext(loop.i) < Size
                  THEN [loop EXCEPT !.i = SquashNext(loop.i)] ELSE Idle)
      /\ (Hit => Remove(loop.i)) /\ (~ Hit => KeepQueue)
  BY DEF IQInv, SquashStep
<1>2. loop \in Loops /\ loop.i \in Slots /\ loop.in = "squash"
  BY <1>1 DEF TypeOK, Loops, InLoop
<1>3. /\ FreeInv' /\ AgeInv'
      /\ q' \in [Slots -> Entry] /\ length' \in 0 .. Size
      /\ oldest' \in Slots \cup {Nil} /\ youngest' \in Slots \cup {Nil}
      /\ fl' \in [Slots -> Slots]
      /\ flHead' \in Slots /\ flTail' \in Slots /\ flLength' \in 0 .. Size
      /\ \A j \in Slots : q'[j].inst = q[j].inst /\ (q'[j].valid => q[j].valid)
      /\ q'[loop.i].valid => loop.b \notin q'[loop.i].inst.branch_mask
  <2>1. CASE Hit
    <3>1. loop.i \in Valid /\ Remove(loop.i)
      BY <1>1, <1>2, <2>1 DEF Valid
    <3>2. /\ FreeInv' /\ AgeInv' /\ flTail' \in Slots /\ flLength' \in 0 .. Size
          /\ length' \in 0 .. Size /\ fl' \in [Slots -> Slots]
      BY <3>1, RemoveKeeps
    <3>3. /\ q' \in [Slots -> Entry]
          /\ oldest' \in Slots \cup {Nil} /\ youngest' \in Slots \cup {Nil}
          /\ \A j \in Slots : q'[j].inst = q[j].inst
          /\ \A j \in Slots : q'[j].valid = (j # loop.i /\ q[j].valid)
      BY <1>1, <3>1, RemoveTypes
    <3>4. flHead' \in Slots
      BY <1>1, <3>1 DEF Remove, TypeOK
    <3>5. QED
      BY <1>2, <3>2, <3>3, <3>4
  <2>2. CASE ~ Hit
    <3>1. KeepQueue
      BY <1>1, <2>2
    <3>2. FreeInv' /\ AgeInv'
      BY <3>1, SameLists
    <3>3. q' = q
      BY <3>1 DEF KeepQueue, listVars
    <3>4. QED
      BY <1>1, <2>2, <3>1, <3>2, <3>3 DEF TypeOK, KeepQueue, listVars, flVars
  <2>3. QED
    BY <2>1, <2>2
<1>4. \A j \in Slots : j < loop.i + 1 /\ q'[j].valid => loop.b \notin q'[j].inst.branch_mask
  <2>1. \A j \in Slots : j < loop.i + 1 => j < loop.i \/ j = loop.i
    BY <1>2, SizeNat DEF Slots
  <2>2. QED
    BY <1>1, <1>3, <2>1 DEF SquashInv
<1>5. CASE loop.i + 1 < Size
  <2>1. loop.i + 1 \in Slots
    BY <1>2, <1>5, SizeNat DEF Slots
  <2>2. loop' \in Loops /\ loop'.in = "squash" /\ loop'.b = loop.b /\ loop'.i = loop.i + 1
    <3>1. loop' = [loop EXCEPT !.i = loop.i + 1]
      BY <1>1, <1>5 DEF SquashNext
    <3>2. PICK j \in Slots : j = loop.i + 1
      BY <2>1
    <3>3. /\ [loop EXCEPT !.i = j] \in Loops /\ [loop EXCEPT !.i = j].in = loop.in
          /\ [loop EXCEPT !.i = j].b = loop.b /\ [loop EXCEPT !.i = j].i = j
      BY <1>2, LoopTypes
    <3>4. QED
      BY <1>2, <3>1, <3>2, <3>3
  <2>3. TypeOK'
    BY <1>1, <1>3, <2>2 DEF TypeOK
  <2>4. SquashInv' /\ ScanInv' /\ InLoop("squash")'
    BY <1>4, <2>2 DEF SquashInv, ScanInv, InLoop
  <2>5. QED
    BY <1>3, <2>3, <2>4 DEF IQInv
<1>6. CASE ~ (loop.i + 1 < Size)
  <2>1. loop' = Idle
    BY <1>1, <1>6 DEF SquashNext
  <2>2. TypeOK'
    BY <1>1, <1>3, <2>1, LoopTypes DEF TypeOK
  <2>3. SquashInv' /\ ScanInv'
    BY <2>1, LoopTypes DEF SquashInv, ScanInv, InLoop
  <2>4. \A j \in Slots : j < loop.i + 1
    BY <1>2, <1>6, SizeNat DEF Slots
  <2>5. \A j \in Valid' : j \in Slots /\ q'[j].valid
    BY DEF Valid
  <2>6. QED
    BY <1>3, <1>4, <2>2, <2>3, <2>4, <2>5 DEF IQInv
<1>7. QED
  BY <1>5, <1>6

(* What an iteration of select_and_issue() leaves of the entries: an        *)
(* instruction that can issue afterwards could before, and the entry looked *)
(* at cannot issue again.                                                   *)
LEMMA SelectEffect ==
  ASSUME IQInv, SelectStep
  PROVE  /\ FreeInv' /\ AgeInv'
         /\ q' \in [Slots -> Entry] /\ length' \in 0 .. Size
         /\ oldest' \in Slots \cup {Nil} /\ youngest' \in Slots \cup {Nil}
         /\ fl' \in [Slots -> Slots]
         /\ flHead' \in Slots /\ flTail' \in Slots /\ flLength' \in 0 .. Size
         /\ rr' \subseteq Lanes
         /\ q'[loop.i].next = q[loop.i].next
         /\ \A j \in Slots : CanIssue(j)' => CanIssue(j) /\ j # loop.i
<1>1. TypeOK /\ loop.i \in Slots
  BY DEF IQInv, TypeOK, Loops
<1>2. CASE CanIssue(loop.i)
  <2>1. loop.i \in Valid /\ Issue(loop.i)
    BY <1>1, <1>2 DEF SelectStep, Valid, CanIssue, Ready
  <2>2. PICK l \in FreeLanes(loop.i) : rr' = rr \cup {l}
    BY <2>1, Zenon DEF Issue
  <2>3. Remove(loop.i)
    BY <2>1 DEF Issue
  <2>4. /\ FreeInv' /\ AgeInv' /\ flTail' \in Slots /\ flLength' \in 0 .. Size
        /\ length' \in 0 .. Size /\ fl' \in [Slots -> Slots]
    BY <2>1, <2>3, RemoveKeeps
  <2>5. /\ q' \in [Slots -> Entry]
        /\ oldest' \in Slots \cup {Nil} /\ youngest' \in Slots \cup {Nil}
        /\ q'[loop.i].next = q[loop.i].next
        /\ \A j \in Slots : q'[j].inst = q[j].inst
        /\ \A j \in Slots : q'[j].valid = (j # loop.i /\ q[j].valid)
    BY <1>1, <2>1, <2>3, RemoveTypes
  <2>6. flHead' \in Slots
    BY <1>1, <2>3 DEF Remove, TypeOK
  <2>7. rr' \subseteq Lanes
    <3>1. q[loop.i].inst.lanes \subseteq Lanes
      BY <1>1 DEF TypeOK, Entry, Insts
    <3>2. QED
      BY <1>1, <2>2, <3>1 DEF TypeOK, FreeLanes
  <2>8. \A j \in Slots : CanIssue(j)' => CanIssue(j) /\ j # loop.i
    BY <2>2, <2>5 DEF CanIssue, Ready, FreeLanes
  <2>9. QED
    BY <2>4, <2>5, <2>6, <2>7, <2>8
<1>3. CASE ~ CanIssue(loop.i)
  <2>1. KeepQueue /\ rr' = rr
    BY <1>3 DEF SelectStep
  <2>2. FreeInv' /\ AgeInv'
    BY <2>1, SameLists
  <2>3. q' = q
    BY <2>1 DEF KeepQueue, listVars
  <2>4. \A j \in Slots : CanIssue(j)' => CanIssue(j) /\ j # loop.i
    BY <1>3, <2>1, <2>3 DEF CanIssue, Ready, FreeLanes
  <2>5. QED
    BY <1>1, <2>1, <2>2, <2>3, <2>4 DEF TypeOK, KeepQueue, listVars, flVars
<1>4. QED
  BY <1>2, <1>3

(* In age order: the entry looked at moves one place on, or was the last.   *)
LEMMA SelectByAge ==
  ASSUME IQInv, SelectStep, ageBased
  PROVE  /\ ScanDone => \A j \in Slots : ~ CanIssue(j)'
         /\ ~ ScanDone =>
              \E p : /\ AgeOrder(p)'
                     /\ \E l \in Places' : /\ p[l] = q'[loop.i].next /\ Passed(p, l)'
                                           /\ (loop.j + 1) + (length' - l) <= Size
<1>1. TypeOK /\ ScannedByAge /\ loop.i \in Slots /\ loop.j \in Nat /\ loop.j < Size
      /\ length \in Nat /\ Size \in Nat
  <2>1. loop.i \in Slots /\ loop.j \in 0 .. Size - 1
    BY DEF IQInv, TypeOK, Loops, Slots
  <2>2. QED
    BY <2>1, SizeNat DEF IQInv, ScanInv, SelectStep, TypeOK
<1>2. PICK o : /\ AgeOrder(o)
               /\ \E k \in Places : o[k] = loop.i /\ Passed(o, k) /\ loop.j + (length - k) <= Size
  BY <1>1 DEF ScannedByAge
<1>3. PICK k \in Places : o[k] = loop.i /\ Passed(o, k) /\ loop.j + (length - k) <= Size
  BY <1>2
<1>4. k \in Nat /\ k < length
  BY <1>1 DEF Places
<1>5. /\ q'[loop.i].next = q[loop.i].next
      /\ \A j \in Slots : CanIssue(j)' => CanIssue(j) /\ j # loop.i
  BY SelectEffect
<1>6. q[loop.i].next = IF k = length - 1 THEN Nil ELSE o[k + 1]
  BY <1>2, <1>3, Zenon DEF AgeOrder
<1>7. \A n \in Places : o[n] \in Slots /\ o[n] # Nil
  BY <1>2, SizeNat DEF AgeOrder, Valid, Slots, Nil
<1>8. k # length - 1 => k + 1 \in Places
  BY <1>1, <1>4 DEF Places
<1>9. ScanDone => k = length - 1
  <2>1. CASE loop.j + 1 = Size
    BY <1>1, <1>3, <1>4, <2>1
  <2>2. CASE q'[loop.i].next = Nil
    BY <1>5, <1>6, <1>7, <1>8, <2>2
  <2>3. QED
    BY <2>1, <2>2 DEF ScanDone
<1>10. \A m \in Places : m <= k => ~ CanIssue(o[m])'
  <2>1. TAKE m \in Places
  <2>2. m <= k => m < k \/ m = k
    BY <1>1, <1>4 DEF Places
  <2>3. m < k => ~ CanIssue(o[m])
    BY <1>3 DEF Passed
  <2>4. o[m] \in Slots
    BY <1>7
  <2>5. CanIssue(o[m])' => CanIssue(o[m]) /\ o[m] # loop.i
    BY <1>5, <2>4
  <2>6. QED
    BY <1>3, <2>2, <2>3, <2>5
<1>11. \A j \in Slots : CanIssue(j)' => \E n \in Places : o[n] = j
  <2>1. TAKE j \in Slots
  <2>2. HAVE CanIssue(j)'
  <2>3. j \in Valid
    BY <1>5, <2>2 DEF CanIssue, Ready, Valid
  <2>4. QED
    BY <1>2, <2>3, Zenon DEF AgeOrder
<1>12. ScanDone => \A j \in Slots : ~ CanIssue(j)'
  <2>1. HAVE ScanDone
  <2>2. \A m \in Places : m <= k
    BY <1>1, <1>9, <2>1 DEF Places
  <2>3. QED
    BY <1>10, <1>11, <2>2
<1>13. ASSUME ~ ScanDone
       PROVE  \E p : /\ AgeOrder(p)'
                     /\ \E l \in Places' : /\ p[l] = q'[loop.i].next /\ Passed(p, l)'
                                           /\ (loop.j + 1) + (length' - l) <= Size
  <2>1. k # length - 1 /\ k + 1 \in Places /\ q'[loop.i].next = o[k + 1]
    BY <1>5, <1>6, <1>8, <1>13 DEF ScanDone
  <2>2. CASE CanIssue(loop.i)
    <3>1. loop.i \in Valid /\ Remove(loop.i)
      BY <1>1, <2>2 DEF SelectStep, Issue, Valid, CanIssue, Ready
    <3>2. Valid' = Valid \ {loop.i}
      BY <3>1, RemoveKeeps
    <3>3. PICK p : AgeOrder(p)' /\ \A n \in Places' : p[n] = IF n < k THEN o[n] ELSE o[n + 1]
      BY <1>1, <1>2, <1>3, <3>1, <3>2, RemoveOrder
    <3>4. length' = length - 1
      BY <3>1 DEF Remove
    <3>5. k \in Places' /\ \A m \in Places' : m < k => m \in Places /\ m <= k
      BY <1>1, <1>4, <2>1, <3>4 DEF Places
    <3>6. p[k] = q'[loop.i].next
      BY <1>4, <2>1, <3>3, <3>5
    <3>7. Passed(p, k)'
      <4>1. \A m \in Places' : m < k => ~ CanIssue(p[m])'
        <5>1. TAKE m \in Places'
        <5>2. HAVE m < k
        <5>3. p[m] = o[m] /\ m \in Places /\ m <= k
          BY <3>3, <3>5, <5>2
        <5>4. QED
          BY <1>10, <5>3
      <4>2. QED
        BY <4>1 DEF Passed
    <3>8. (loop.j + 1) + (length' - k) <= Size
      BY <1>1, <1>3, <1>4, <3>4
    <3>9. QED
      BY <3>3, <3>5, <3>6, <3>7, <3>8
  <2>3. CASE ~ CanIssue(loop.i)
    <3>1. KeepQueue
      BY <2>3 DEF SelectStep
    <3>2. Places' = Places /\ AgeOrder(o)' /\ length' = length
      BY <1>2, <3>1, SameLists DEF KeepQueue, listVars
    <3>3. \A m \in Places : m < k + 1 => m <= k
      BY <1>1, <1>4 DEF Places
    <3>4. \A m \in Places' : m < k + 1 => ~ CanIssue(o[m])'
      BY <1>10, <3>2, <3>3
    <3>5. Passed(o, k + 1)'
      BY <3>4 DEF Passed
    <3>6. (loop.j + 1) + (length' - (k + 1)) <= Size
      BY <1>1, <1>3, <1>4, <3>2
    <3>7. QED
      BY <2>1, <3>2, <3>5, <3>6
  <2>4. QED
    BY <2>2, <2>3
<1>14. QED
  BY <1>12, <1>13

(* In partition order: one more entry from the first partition on has been  *)
(* looked at.                                                               *)
LEMMA SelectByPart ==
  ASSUME IQInv, SelectStep, ~ ageBased
  PROVE  /\ ScanDone => \A j \in Slots : ~ CanIssue(j)'
         /\ Inc(loop.i) = Turn(partNext + (loop.j + 1))
         /\ \A m \in 0 .. loop.j, s \in Slots : s = Turn(partNext + m) => ~ CanIssue(s)'
<1>1. TypeOK /\ ScannedByPart /\ loop.i \in Slots /\ loop.j \in Slots /\ partNext \in Slots
  <2>1. TypeOK /\ ScannedByPart
    BY DEF IQInv, ScanInv, SelectStep
  <2>2. partNext \in Slots
    BY <2>1, PartsInside DEF TypeOK, Parts
  <2>3. QED
    BY <2>1, <2>2 DEF TypeOK, Loops
<1>2. loop.j \in 0 .. Size - 1
  BY <1>1 DEF Slots
<1>3. Inc(loop.i) = Turn(partNext + (loop.j + 1))
  <2>1. Inc(loop.i) = Turn(loop.i + 1)
    BY <1>1, IncTurns
  <2>2. Turn(Turn(partNext + loop.j) + 1) = Turn(partNext + (loop.j + 1))
    BY <1>1, <1>2, TurnAgain
  <2>3. QED
    BY <1>1, <2>1, <2>2 DEF ScannedByPart
<1>4. \A j \in Slots : CanIssue(j)' => CanIssue(j) /\ j # loop.i
  BY SelectEffect
<1>5. \A m \in 0 .. loop.j, s \in Slots : s = Turn(partNext + m) => ~ CanIssue(s)'
  <2>1. TAKE m \in 0 .. loop.j, s \in Slots
  <2>2. HAVE s = Turn(partNext + m)
  <2>3. m = loop.j \/ m \in 0 .. loop.j - 1
    BY <1>2, SizeNat
  <2>4. QED
    BY <1>1, <1>4, <2>2, <2>3 DEF ScannedByPart
<1>6. ScanDone => \A j \in Slots : ~ CanIssue(j)'
  <2>1. HAVE ScanDone
  <2>2. loop.j + 1 = Size
    BY <2>1 DEF ScanDone
  <2>3. TAKE s \in Slots
  <2>4. PICK m \in 0 .. loop.j : s = Turn(partNext + m)
    <3>1. CASE s >= partNext
      <4>1. s - partNext \in 0 .. loop.j /\ s = Turn(partNext + (s - partNext))
        BY <1>1, <1>2, <2>2, <3>1, SizeNat DEF Turn, Slots
      <4>2. QED
        BY <4>1
    <3>2. CASE s < partNext
      <4>1. s - partNext + Size \in 0 .. loop.j /\ s = Turn(partNext + (s - partNext + Size))
        BY <1>1, <1>2, <2>2, <3>2, SizeNat DEF Turn, Slots
      <4>2. QED
        BY <4>1
    <3>3. QED
      BY <1>1, <3>1, <3>2, SizeNat DEF Slots
  <2>5. QED
    BY <1>5, <2>4
<1>7. QED
  BY <1>3, <1>5, <1>6

LEMMA SelectStepKeeps ==
  ASSUME IQInv, SelectStep
  PROVE  /\ IQInv'
         /\ ~ InLoop("select")' => \A j \in Slots : ~ CanIssue(j)'
<1>1. TypeOK /\ loop \in Loops /\ loop.i \in Slots /\ loop.j \in Slots /\ loop.in = "select"
      /\ partNext \in Slots
  <2>1. TypeOK /\ loop.in = "select"
    BY DEF IQInv, SelectStep, InLoop
  <2>2. partNext \in Slots
    BY <2>1, PartsInside DEF TypeOK, Parts
  <2>3. QED
    BY <2>1, <2>2 DEF TypeOK, Loops
<1>2. /\ FreeInv' /\ AgeInv'
      /\ q' \in [Slots -> Entry] /\ length' \in 0 .. Size
      /\ oldest' \in Slots \cup {Nil} /\ youngest' \in Slots \cup {Nil}
      /\ fl' \in [Slots -> Slots]
      /\ flHead' \in Slots /\ flTail' \in Slots /\ flLength' \in 0 .. Size
      /\ rr' \subseteq Lanes
      /\ q'[loop.i].next = q[loop.i].next
  BY SelectEffect
<1>3. CASE ScanDone
  <2>1. loop' = Idle /\ partNext' = NextPart /\ ageBased' = ageBased
    BY <1>3 DEF SelectStep
  <2>2. NextPart \in Parts
    BY <1>1, PartsInside DEF NextPart, TypeOK, Parts
  <2>3. TypeOK'
    BY <1>1, <1>2, <2>1, <2>2, LoopTypes DEF TypeOK, Parts
  <2>4. \A j \in Slots : ~ CanIssue(j)'
    BY <1>1, <1>3, SelectByAge, SelectByPart
  <2>5. SquashInv' /\ ScanInv'
    BY <2>1, LoopTypes DEF SquashInv, ScanInv, InLoop
  <2>6. QED
    BY <1>2, <2>3, <2>4, <2>5 DEF IQInv
<1>4. CASE ~ ScanDone
  <2>1. loop' = [loop EXCEPT !.i = ScanNext, !.j = @ + 1]
        /\ partNext' = partNext /\ ageBased' = ageBased
    BY <1>4 DEF SelectStep
  <2>2. loop.j + 1 \in Slots
    BY <1>1, <1>4, SizeNat DEF ScanDone, Slots
  <2>3. ScanNext \in Slots
    <3>1. Inc(loop.i) \in Slots
      BY <1>1, IncTurns
    <3>2. ageBased => q'[loop.i].next # Nil
      BY <1>4 DEF ScanDone
    <3>3. q'[loop.i].next \in Slots \cup {Nil}
      BY <1>1, <1>2 DEF Entry
    <3>4. QED
      BY <3>1, <3>2, <3>3 DEF ScanNext
  <2>4. PICK x \in Slots : x = ScanNext
    BY <2>3
  <2>5. PICK y \in Slots : y = loop.j + 1
    BY <2>2
  <2>6. loop' = [loop EXCEPT !.i = x, !.j = y]
    BY <2>1, <2>4, <2>5
  <2>7. loop' \in Loops /\ loop'.in = "select" /\ loop'.i = x /\ loop'.j = y
    BY <1>1, <2>6 DEF Loops
  <2>8. TypeOK'
    BY <1>1, <1>2, <2>1, <2>7 DEF TypeOK
  <2>9. CASE ageBased
    <3>1. PICK p : /\ AgeOrder(p)'
                   /\ \E l \in Places' : /\ p[l] = q'[loop.i].next /\ Passed(p, l)'
                                         /\ (loop.j + 1) + (length' - l) <= Size
      BY <1>4, <2>9, SelectByAge
    <3>2. PICK l \in Places' : /\ p[l] = q'[loop.i].next /\ Passed(p, l)'
                               /\ (loop.j + 1) + (length' - l) <= Size
      BY <3>1
    <3>3. p[l] = loop'.i /\ Passed(p, l)' /\ loop'.j + (length' - l) <= Size
      BY <2>4, <2>5, <2>7, <2>9, <3>2 DEF ScanNext
    <3>4. ScannedByAge'
      BY <3>1, <3>3 DEF ScannedByAge
    <3>5. ageBased' /\ InLoop("select")' /\ ~ InLoop("squash")'
      BY <2>1, <2>7, <2>9 DEF InLoop
    <3>6. QED
      BY <1>2, <2>8, <3>4, <3>5 DEF IQInv, ScanInv, SquashInv
  <2>10. CASE ~ ageBased
    <3>1. /\ Inc(loop.i) = Turn(partNext + (loop.j + 1))
          /\ \A m \in 0 .. loop.j, s \in Slots : s = Turn(partNext + m) => ~ CanIssue(s)'
      BY <2>10, SelectByPart
    <3>2. loop'.i = Turn(partNext' + loop'.j)
      BY <2>1, <2>4, <2>5, <2>7, <2>10, <3>1 DEF ScanNext
    <3>3. \A m \in 0 .. loop'.j - 1 : m \in 0 .. loop.j /\ Turn(partNext + m) \in Slots
      BY <1>1, <2>2, <2>5, <2>7, SizeNat DEF Turn, Slots
    <3>4. \A m \in 0 .. loop'.j - 1, s \in Slots : s = Turn(partNext' + m) => ~ CanIssue(s)'
      BY <2>1, <3>1, <3>3
    <3>5. \A m \in 0 .. loop'.j - 1 : ~ CanIssue(Turn(partNext + m))'
      <4>1. TAKE m \in 0 .. loop'.j - 1
      <4>2. PICK s \in Slots : s = Turn(partNext' + m)
        BY <2>1, <3>3
      <4>3. CanIssue(Turn(partNext + m))' = CanIssue(s)'
        BY <4>2
      <4>4. QED
        BY <3>4, <4>2, <4>3
    <3>6. ScannedByPart'
      BY <3>2, <3>5 DEF ScannedByPart
    <3>7. ~ ageBased' /\ InLoop("select")' /\ ~ InLoop("squash")'
      BY <2>1, <2>7, <2>10 DEF InLoop
    <3>8. QED
      BY <1>2, <2>8, <3>6, <3>7 DEF IQInv, ScanInv, SquashInv
  <2>11. QED
    BY <2>7, <2>9, <2>10 DEF InLoop
<1>5. QED
  BY <1>3, <1>4

----------------------------------------------------------------------------
LEMMA NextKeeps == IQInv /\ [Next]_vars => IQInv'
<1> SUFFICES ASSUME IQInv, [Next]_vars PROVE IQInv'
  OBVIOUS
<1>1. CASE \E inst \in Incoming : Dispatch(inst)
  BY <1>1, DispatchKeeps
<1>2. CASE \E tag \in Tags : Wakeup(tag)
  BY <1>2, WakeupKeeps
<1>3. CASE StartSelect
  BY <1>3, StartSelectKeeps
<1>4. CASE SelectStep
  BY <1>4, SelectStepKeeps
<1>5. CASE \E b \in BranchIDs : StartSquash(b)
  BY <1>5, StartSquashKeeps
<1>6. CASE SquashStep
  BY <1>6, SquashStepKeeps
<1>7. CASE \E b \in BranchIDs : ClearBranchBit(b)
  BY <1>7, ClearBranchBitKeeps
<1>8. CASE Flush
  BY <1>8, FlushKeeps
<1>9. CASE UNCHANGED vars
  <2>1. KeepQueue /\ UNCHANGED <<partNext, ageBased, rr, loop>>
    BY <1>9 DEF vars, KeepQueue
  <2>2. FreeInv' /\ AgeInv' /\ Places' = Places /\ \A o : AgeOrder(o) => AgeOrder(o)'
    BY <2>1, SameLists
  <2>3. TypeOK'
    BY <2>1 DEF IQInv, TypeOK, KeepQueue, listVars, flVars
  <2>4. SquashInv'
    BY <2>1 DEF IQInv, SquashInv, InLoop, KeepQueue, listVars
  <2>5. \A i : CanIssue(i)' = CanIssue(i)
    BY <2>1 DEF KeepQueue, listVars, CanIssue, Ready, FreeLanes
  <2>6. ScanInv'
    <3>1. ScannedByPart => ScannedByPart'
      BY <2>1, <2>5 DEF ScannedByPart, CanIssue, Ready, FreeLanes, KeepQueue, listVars
    <3>2. \A o, k : Passed(o, k) => Passed(o, k)'
      BY <2>2, <2>5 DEF Passed
    <3>3. length' = length
      BY <2>1 DEF KeepQueue, listVars
    <3>4. ScannedByAge => ScannedByAge'
      BY <2>1, <2>2, <3>2, <3>3 DEF ScannedByAge
    <3>5. QED
      BY <2>1, <3>1, <3>4 DEF IQInv, ScanInv, InLoop
  <2>7. QED
    BY <2>2, <2>3, <2>4, <2>6 DEF IQInv
<1>10. QED
  BY <1>1, <1>2, <1>3, <1>4, <1>5, <1>6, <1>7, <1>8, <1>9 DEF Next

LEMMA InvariantHolds == Spec => []IQInv
BY InitIQ, NextKeeps, PTL DEF Spec

----------------------------------------------------------------------------
(* For every size of the queue, the variables of the queue keep their       *)
(* types: no link, index or counter leaves its range (issue_queue.cc).      *)
THEOREM TypeCorrect == Spec => []TypeOK
<1>1. IQInv => TypeOK
  BY DEF IQInv
<1>2. QED
  BY <1>1, InvariantHolds, PTL

(* For every size of the queue, the free list holds the entries without an  *)
(* instruction, each once, from flHead on (dispatch() and remove()).        *)
THEOREM FreeListAlwaysConsistent == Spec => []FreeListConsistent
<1>1. IQInv => FreeListConsistent
  BY FreeIsConsistent DEF IQInv
<1>2. QED
  BY <1>1, InvariantHolds, PTL

(* Following the links from the oldest entry gives the order.               *)
Follow(c) ==
  [n \in 0 .. Size |->
    IF n = 0 THEN oldest
    ELSE IF c[n - 1] = Nil THEN Nil ELSE q[c[n - 1]].next]

LEMMA ChainFollows ==
  ASSUME NEW w, w = Follow(w)
  PROVE  \A n \in 0 .. Size : Chain[n] = w[n]
<1>1. Chain = Follow(Chain)
  <2>1. Chain = CHOOSE c : c = Follow(c)
    BY DEF Chain, Follow
  <2>2. QED
    BY <2>1, Zenon
<1>2. \A n \in 0 .. Size : /\ n = 0 => Chain[n] = w[n]
                           /\ n # 0 => n - 1 \in 0 .. Size /\ (Chain[n - 1] = w[n - 1] => Chain[n] = w[n])
  <2>1. TAKE n \in 0 .. Size
  <2>2. /\ Chain[n] = IF n = 0 THEN oldest
                      ELSE IF Chain[n - 1] = Nil THEN Nil ELSE q[Chain[n - 1]].next
        /\ w[n] = IF n = 0 THEN oldest
                  ELSE IF w[n - 1] = Nil THEN Nil ELSE q[w[n - 1]].next
    BY <1>1 DEF Follow
  <2>3. n # 0 => n - 1 \in 0 .. Size
    BY SizeNat
  <2>4. QED
    BY <2>2, <2>3
<1>3. \A n \in 0 .. Size : Chain[n] = w[n]
  <2>1. SUFFICES ASSUME NEW a \in 0 .. Size, Chain[a] # w[a] PROVE FALSE
    OBVIOUS
  <2>2. PICK T : T = {n \in 0 .. Size : Chain[n] # w[n]}
    OBVIOUS
  <2>3. T \subseteq Nat /\ T # {}
    BY <2>1, <2>2
  <2>4. PICK x \in T : \A y \in T : ~ (<<y, x>> \in OpToRel(<, Nat))
    BY <2>3, NatLessThanWellFounded, WFMin
  <2>5. x \in 0 .. Size /\ x # 0 /\ x - 1 \in T
    BY <1>2, <2>2
  <2>6. <<x - 1, x>> \in OpToRel(<, Nat)
    BY <2>3, <2>5 DEF OpToRel
  <2>7. QED
    BY <2>4, <2>5, <2>6
<1>4. QED
  BY <1>3

LEMMA ChainIsOrder ==
  ASSUME TypeOK, NEW o, AgeOrder(o)
  PROVE  /\ \A n \in Places : Chain[n] = o[n] /\ o[n] # Nil /\ n \in 0 .. Size
         /\ \A n \in 0 .. Size : n \notin Places => Chain[n] = Nil
<1>2. length \in Nat /\ length <= Size /\ Size \in Nat
  BY SizeNat DEF TypeOK
<1>3. \A n \in Places : o[n] \in Valid /\ o[n] # Nil /\ n \in 0 .. Size
  BY <1>2, SizeNat DEF AgeOrder, Valid, Slots, Nil, Places
<1>4. PICK w : w = [n \in 0 .. Size |-> IF n < length THEN o[n] ELSE Nil]
  OBVIOUS
<1>5. /\ \A n \in Places : w[n] = o[n]
      /\ \A n \in 0 .. Size : n \notin Places => w[n] = Nil
  BY <1>2, <1>3, <1>4 DEF Places
<1>6. w = Follow(w)
  <2>1. \A n \in 0 .. Size :
          w[n] = IF n = 0 THEN oldest ELSE IF w[n - 1] = Nil THEN Nil ELSE q[w[n - 1]].next
    <3>1. TAKE n \in 0 .. Size
    <3>2. CASE n = 0
      <4>1. length # 0 <=> n \in Places
        BY <1>2, <3>2 DEF Places
      <4>2. QED
        BY <1>5, <3>2, <4>1 DEF AgeOrder
    <3>3. CASE n # 0
      <4>1. n - 1 \in 0 .. Size
        BY <1>2, <3>3
      <4>2. CASE n - 1 \in Places
        <5>1. w[n - 1] = o[n - 1] /\ o[n - 1] # Nil
          BY <1>3, <1>5, <4>2
        <5>2. PICK m \in Places : m = n - 1
          BY <4>2
        <5>3. q[o[m]].next = IF m = length - 1 THEN Nil ELSE o[m + 1]
          BY Zenon DEF AgeOrder
        <5>4. m + 1 = n /\ (m = length - 1 <=> n \notin Places)
          BY <1>2, <3>3, <5>2 DEF Places
        <5>5. w[n] = IF m = length - 1 THEN Nil ELSE o[m + 1]
          BY <1>5, <5>4
        <5>6. QED
          BY <3>3, <5>1, <5>2, <5>3, <5>5
      <4>3. CASE n - 1 \notin Places
        <5>1. w[n - 1] = Nil /\ n \notin Places
          BY <1>2, <1>5, <3>3, <4>1, <4>3 DEF Places
        <5>2. QED
          BY <1>5, <3>3, <5>1
      <4>4. QED
        BY <4>2, <4>3
    <3>4. QED
      BY <3>2, <3>3
  <2>2. QED
    BY <1>4, <2>1 DEF Follow
<1>7. \A n \in 0 .. Size : Chain[n] = w[n]
  BY <1>6, ChainFollows
<1>8. \A n \in Places : Chain[n] = o[n]
  BY <1>3, <1>5, <1>7
<1>9. QED
  BY <1>3, <1>5, <1>7, <1>8

LEMMA AgeIsConsistent ==
  ASSUME TypeOK, FreeInv, AgeInv
  PROVE  AgeListConsistent
<1>1. PICK o : AgeOrder(o)
  BY DEF AgeInv
<1>2. length \in Nat /\ length <= Size /\ Size \in Nat
  BY SizeNat DEF TypeOK
<1>3. \A n \in Places : o[n] \in Valid
  BY <1>1, Zenon DEF AgeOrder
<1>4. /\ \A n \in Places : Chain[n] = o[n]
      /\ \A n \in 0 .. Size : n \notin Places => Chain[n] = Nil
  BY <1>1, ChainIsOrder
<1>5. Places = 0 .. length - 1
  BY DEF Places
<1>6. {Chain[n] : n \in 0 .. length - 1} = Valid
  <2>1. \A i \in Valid : \E n \in Places : o[n] = i
    BY <1>1 DEF AgeOrder
  <2>2. \A n \in Places : Chain[n] \in Valid
    BY <1>3, <1>4
  <2>3. \A i \in Valid : \E n \in Places : Chain[n] = i
    BY <1>4, <2>1
  <2>4. QED
    BY <1>5, <2>2, <2>3
<1>7. Chain[length] = Nil
  <2>1. length \in 0 .. Size /\ length \notin Places
    BY <1>2 DEF Places
  <2>2. QED
    BY <1>4, <2>1
<1>8. youngest = IF length = 0 THEN Nil ELSE Chain[length - 1]
  <2>1. length # 0 => length - 1 \in Places
    BY <1>2 DEF Places
  <2>2. QED
    BY <1>1, <1>4, <2>1 DEF AgeOrder
<1>9. \A n \in 0 .. length - 1 : q[Chain[n]].prev = IF n = 0 THEN Nil ELSE Chain[n - 1]
  <2>1. TAKE n \in 0 .. length - 1
  <2>2. n \in Places /\ (n # 0 => n - 1 \in Places)
    BY <1>2, <1>5
  <2>3. q[o[n]].prev = IF n = 0 THEN Nil ELSE o[n - 1]
    BY <1>1, <2>2, Zenon DEF AgeOrder
  <2>4. QED
    BY <1>4, <2>2, <2>3
<1>10. length = Cardinality(Valid)
  BY DEF FreeInv
<1>11. QED
  BY <1>6, <1>7, <1>8, <1>9, <1>10 DEF AgeListConsistent

(* For every size of the queue, the age list visits every entry that holds  *)
(* an instruction once, in both directions, also between two iterations of  *)
(* the loops that unlink the entries they stand on (remove()).              *)
THEOREM AgeListAlwaysConsistent == Spec => []AgeListConsistent
<1>1. IQInv => AgeListConsistent
  BY AgeIsConsistent DEF IQInv
<1>2. QED
  BY <1>1, InvariantHolds, PTL

(* For every size of the queue and number of lanes, when select_and_issue() *)
(* returns no ready instruction is left beside a free lane it can use.      *)
THEOREM ScanAlwaysComplete == Spec => ScanComplete
<1>1. IQInv /\ [Next]_vars =>
        [InLoop("select") /\ ~ InLoop("select")' => \A i \in Slots : ~ CanIssue(i)']_vars
  <2>1. SUFFICES ASSUME IQInv, Next, InLoop("select"), ~ InLoop("select")'
                 PROVE  \A i \in Slots : ~ CanIssue(i)'
    OBVIOUS
  <2>2. SelectStep
    BY <2>1 DEF Next, InLoop, Dispatch, Wakeup, StartSelect, StartSquash, SquashStep,
                ClearBranchBit, Flush
  <2>3. QED
    BY <2>1, <2>2, SelectStepKeeps
<1>2. QED
  BY <1>1, InvariantHolds, PTL DEF Spec, ScanComplete

(* For every size of the queue, when squash() returns no instruction that   *)
(* depends on the mispredicted branch is left.                              *)
THEOREM SquashAlwaysComplete == Spec => SquashComplete
<1>1. IQInv /\ [Next]_vars =>
        [InLoop("squash") /\ ~ InLoop("squash")' =>
           \A i \in Valid' : loop.b \notin q'[i].inst.branch_mask]_vars
  <2>1. SUFFICES ASSUME IQInv, Next, InLoop("squash"), ~ InLoop("squash")'
                 PROVE  \A i \in Valid' : loop.b \notin q'[i].inst.branch_mask
    OBVIOUS
  <2>2. SquashStep
    BY <2>1 DEF Next, InLoop, Dispatch, Wakeup, StartSelect, StartSquash, SelectStep,
                ClearBranchBit, Flush
  <2>3. QED
    BY <2>1, <2>2, SquashStepKeeps
<1>2. QED
  BY <1>1, InvariantHolds, PTL DEF Spec, SquashComplete

----------------------------------------------------------------------------
(* Sequences written as functions.                                          *)
LEMMA FunctionIsSeq ==
  ASSUME NEW n \in Nat, NEW S, NEW f \in [1 .. n -> S]
  PROVE  f \in Seq(S) /\ Len(f) = n
BY SMT

LEMMA WithoutOne ==
  ASSUME NEW S, NEW s \in Seq(S), NEW k \in 1 .. Len(s),
         NEW t \in Seq(S), Len(t) = Len(s) - 1,
         \A n \in 1 .. Len(t) : t[n] = IF n < k THEN s[n] ELSE s[n + 1]
  PROVE  t = SubSeq(s, 1, k - 1) \o SubSeq(s, k + 1, Len(s))
<1>1. PICK a : a = SubSeq(s, 1, k - 1)
  OBVIOUS
<1>2. PICK b : b = SubSeq(s, k + 1, Len(s))
  OBVIOUS
<1>3. Len(s) \in Nat /\ k \in Nat /\ k >= 1 /\ k <= Len(s)
  BY LenProperties
<1>4. /\ a \in Seq(S) /\ Len(a) = k - 1
      /\ \A i \in 1 .. k - 1 : a[i] = s[i]
  <2>1. \A i \in 1 .. k - 1 : s[i] \in S
    BY <1>3, ElementOfSeq
  <2>2. 1 \in Int /\ k - 1 \in Int
    BY <1>3
  <2>3. /\ a \in Seq(S) /\ Len(a) = IF 1 <= k - 1 THEN k - 1 - 1 + 1 ELSE 0
        /\ \A i \in 1 .. k - 1 - 1 + 1 : a[i] = s[1 + i - 1]
    BY <1>1, <2>1, <2>2, SubSeqProperties
  <2>4. Len(a) = k - 1
    BY <1>3, <2>3
  <2>5. ASSUME NEW i \in 1 .. k - 1 PROVE a[i] = s[i]
    <3>1. i \in 1 .. k - 1 - 1 + 1 /\ 1 + i - 1 = i
      BY <1>3
    <3>2. QED
      BY <2>3, <3>1
  <2>6. QED
    BY <2>3, <2>4, <2>5
<1>5. /\ b \in Seq(S) /\ Len(b) = Len(s) - k
      /\ \A i \in 1 .. Len(s) - k : b[i] = s[k + i]
  <2>1. \A i \in k + 1 .. Len(s) : s[i] \in S
    BY <1>3, ElementOfSeq
  <2>2. k + 1 \in Int /\ Len(s) \in Int
    BY <1>3
  <2>3. /\ b \in Seq(S) /\ Len(b) = IF k + 1 <= Len(s) THEN Len(s) - (k + 1) + 1 ELSE 0
        /\ \A i \in 1 .. Len(s) - (k + 1) + 1 : b[i] = s[k + 1 + i - 1]
    BY <1>2, <2>1, <2>2, SubSeqProperties
  <2>4. Len(b) = Len(s) - k
    BY <1>3, <2>3
  <2>5. ASSUME NEW i \in 1 .. Len(s) - k PROVE b[i] = s[k + i]
    <3>1. i \in 1 .. Len(s) - (k + 1) + 1 /\ k + 1 + i - 1 = k + i
      BY <1>3
    <3>2. QED
      BY <2>3, <3>1
  <2>6. QED
    BY <2>3, <2>4, <2>5
<1>6. /\ a \o b \in Seq(S) /\ Len(a \o b) = Len(a) + Len(b)
      /\ \A i \in 1 .. Len(a) + Len(b) : (a \o b)[i] = IF i <= Len(a) THEN a[i] ELSE b[i - Len(a)]
  BY <1>4, <1>5, ConcatProperties
<1>7. \A i \in 1 .. Len(t) : t[i] = (a \o b)[i]
  <2>1. TAKE i \in 1 .. Len(t)
  <2>2. i \in 1 .. Len(a) + Len(b)
    BY <1>3, <1>4, <1>5
  <2>3. CASE i < k
    <3>1. i \in 1 .. k - 1 /\ i <= Len(a)
      BY <1>3, <1>4, <2>3
    <3>2. QED
      BY <1>4, <1>6, <2>2, <2>3, <3>1
  <2>4. CASE ~ (i < k)
    <3>1. i - Len(a) \in 1 .. Len(s) - k /\ ~ (i <= Len(a)) /\ k + (i - Len(a)) = i + 1
      BY <1>3, <1>4, <2>4
    <3>2. b[i - Len(a)] = s[k + (i - Len(a))]
      BY <1>5, <3>1
    <3>3. QED
      BY <1>6, <2>2, <2>4, <3>1, <3>2
  <2>5. QED
    BY <2>3, <2>4
<1>8. Len(t) = Len(a \o b)
  BY <1>3, <1>4, <1>5, <1>6
<1>9. t = a \o b
  BY <1>6, <1>7, <1>8, SeqEqual
<1>10. QED
  BY <1>1, <1>2, <1>9

----------------------------------------------------------------------------
(* The pool is the age list.                                                *)
Listed(o) == [k \in 1 .. length |-> q[o[k - 1]].inst]

LEMMA PoolIsListed ==
  \A o : TypeOK /\ AgeOrder(o) =>
    /\ Pool = Listed(o) /\ Pool \in Seq(Insts) /\ Len(Pool) = length
    /\ \A k \in 1 .. length : k - 1 \in Places /\ Pool[k] = q[o[k - 1]].inst /\ Pool[k] \in Insts
<1>1. SUFFICES ASSUME NEW o, TypeOK, AgeOrder(o)
               PROVE  /\ Pool = Listed(o) /\ Pool \in Seq(Insts) /\ Len(Pool) = length
                      /\ \A k \in 1 .. length : k - 1 \in Places /\ Pool[k] = q[o[k - 1]].inst
                                                /\ Pool[k] \in Insts
  OBVIOUS
<1>2. length \in Nat /\ length <= Size /\ Size \in Nat
  BY <1>1, SizeNat DEF TypeOK
<1>3. /\ \A n \in Places : Chain[n] = o[n] /\ o[n] # Nil /\ n \in 0 .. Size
      /\ \A n \in 0 .. Size : n \notin Places => Chain[n] = Nil
  BY <1>1, ChainIsOrder
<1>4. {k \in 0 .. Size - 1 : Chain[k] # Nil} = 0 .. length - 1
  <2>1. \A k \in 0 .. Size - 1 : Chain[k] # Nil <=> k \in Places
    BY <1>2, <1>3
  <2>2. \A k \in Places : k \in 0 .. Size - 1
    BY <1>2 DEF Places
  <2>3. QED
    BY <2>1, <2>2 DEF Places
<1>5. Cardinality({k \in 0 .. Size - 1 : Chain[k] # Nil}) = length
  <2>1. Cardinality(0 .. length - 1) = IF 0 > length - 1 THEN 0 ELSE length - 1 - 0 + 1
    BY <1>2, FS_Interval
  <2>2. length = IF 0 > length - 1 THEN 0 ELSE length - 1 - 0 + 1
    BY <1>2
  <2>3. QED
    BY <1>4, <2>1, <2>2, Zenon
<1>6. Pool = [k \in 1 .. length |-> q[Chain[k - 1]].inst]
  BY <1>5 DEF Pool
<1>7. \A k \in 1 .. length : k - 1 \in Places /\ Chain[k - 1] = o[k - 1] /\ o[k - 1] \in Slots
  <2>1. \A k \in 1 .. length : k - 1 \in Places
    BY <1>2 DEF Places
  <2>2. \A n \in Places : o[n] \in Slots
    BY <1>1, Zenon DEF AgeOrder, Valid
  <2>3. QED
    BY <1>3, <2>1, <2>2
<1>8. Pool = Listed(o)
  BY <1>6, <1>7 DEF Listed
<1>9. \A k \in 1 .. length : Pool[k] = q[o[k - 1]].inst /\ Pool[k] \in Insts
  <2>1. \A i \in Slots : q[i].inst \in Insts
    BY <1>1 DEF TypeOK, Entry
  <2>2. QED
    BY <1>7, <1>8, <2>1 DEF Listed
<1>10. Pool \in [1 .. length -> Insts]
  BY <1>8, <1>9 DEF Listed
<1>11. QED
  BY <1>2, <1>7, <1>8, <1>9, <1>10, FunctionIsSeq

LEMMA PoolIsListedNext ==
  (\A o : TypeOK /\ AgeOrder(o) =>
    /\ Pool = Listed(o) /\ Pool \in Seq(Insts) /\ Len(Pool) = length
    /\ \A k \in 1 .. length : k - 1 \in Places /\ Pool[k] = q[o[k - 1]].inst /\ Pool[k] \in Insts)'
BY PoolIsListed, PTL

LEMMA SameTypes == Abstract!Insts = Insts
BY DEF Abstract!Insts, Insts

LEMMA InitMaps == Init => Abstract!Init
<1> SUFFICES ASSUME Init PROVE Abstract!Init
  OBVIOUS
<1>1. IQInv
  BY InitIQ
<1>2. PICK o : AgeOrder(o)
  BY <1>1 DEF IQInv, AgeInv
<1>3. Pool = Listed(o)
  BY <1>1, <1>2, PoolIsListed DEF IQInv
<1>4. Pool = <<>>
  BY <1>3 DEF Listed, Init
<1>5. QED
  BY <1>4 DEF Init, Abstract!Init

----------------------------------------------------------------------------
(* The steps.                                                               *)
LEMMA DispatchMaps ==
  ASSUME IQInv, NEW inst \in Incoming, Dispatch(inst)
  PROVE  Abstract!Enter(inst)
<1>1. TypeOK /\ FreeInv /\ TypeOK'
  BY DispatchKeeps DEF IQInv
<1>2. fl[flHead] \in Slots \ Valid /\ Valid' = Valid \cup {fl[flHead]}
  BY <1>1, TakeFree
<1>3. PICK o : AgeOrder(o)
  BY DEF IQInv, AgeInv
<1>4. PICK p : AgeOrder(p)' /\ p[length] = fl[flHead] /\ \A n \in Places : p[n] = o[n]
  BY <1>1, <1>2, <1>3, DispatchOrder
<1>5. /\ Pool \in Seq(Insts) /\ Len(Pool) = length
      /\ \A k \in 1 .. length : k - 1 \in Places /\ Pool[k] = q[o[k - 1]].inst
  BY <1>1, <1>3, PoolIsListed
<1>6. /\ Pool' \in Seq(Insts) /\ Len(Pool') = length'
      /\ \A k \in 1 .. length' : Pool'[k] = q'[p[k - 1]].inst
  BY <1>1, <1>4, PoolIsListedNext
<1>7. length \in Nat /\ length < Size /\ length' = length + 1 /\ inst \in Insts
      /\ rr' = rr /\ ageBased' = ageBased /\ q' = Link(fl[flHead], inst)
  BY <1>1, Sizes DEF TypeOK, FreeInv, Dispatch, Stall
<1>8. q'[fl[flHead]].inst = inst
  BY <1>2, <1>7 DEF Link
<1>9. \A n \in Places : q'[o[n]].inst = q[o[n]].inst
  <2>1. TAKE n \in Places
  <2>2. o[n] \in Slots /\ o[n] # fl[flHead]
    BY <1>2, <1>3, Zenon DEF AgeOrder, Valid
  <2>3. q[o[n]] \in Entry
    BY <1>1, <2>2 DEF TypeOK
  <2>4. q'[o[n]] = IF o[n] = youngest THEN [q[o[n]] EXCEPT !.next = fl[flHead]] ELSE q[o[n]]
    BY <1>7, <2>2 DEF Link
  <2>5. QED
    BY <2>3, <2>4, EntryFields
<1>10. /\ Append(Pool, inst) \in Seq(Insts) /\ Len(Append(Pool, inst)) = length + 1
       /\ \A k \in 1 .. length : Append(Pool, inst)[k] = Pool[k]
       /\ Append(Pool, inst)[length + 1] = inst
  BY <1>5, <1>7, AppendProperties
<1>11. \A k \in 1 .. length + 1 : Pool'[k] = Append(Pool, inst)[k]
  <2>1. TAKE k \in 1 .. length + 1
  <2>2. CASE k = length + 1
    <3>1. k - 1 = length /\ k \in 1 .. length'
      BY <1>7, <2>2
    <3>2. QED
      BY <1>4, <1>6, <1>8, <1>10, <2>2, <3>1
  <2>3. CASE k # length + 1
    <3>1. k \in 1 .. length /\ k \in 1 .. length'
      BY <1>7, <2>3
    <3>2. QED
      BY <1>4, <1>5, <1>6, <1>9, <1>10, <3>1
  <2>4. QED
    BY <2>2, <2>3
<1>12. Pool' = Append(Pool, inst)
  BY <1>6, <1>7, <1>10, <1>11, SeqEqual
<1>13. Len(Pool) < Size
  BY <1>5, <1>7
<1>14. QED
  BY <1>7, <1>12, <1>13 DEF Abstract!Enter

(* A removal takes the instruction at its place out of the pool.            *)
LEMMA RemoveMaps ==
  ASSUME IQInv, IQInv', NEW o, AgeOrder(o), NEW k \in Places, NEW i \in Valid, o[k] = i, Remove(i)
  PROVE  /\ Pool' = Abstract!RemoveAt(Pool, k + 1)
         /\ k + 1 \in DOMAIN Pool /\ Pool[k + 1] = q[i].inst
<1>1. TypeOK /\ FreeInv /\ TypeOK'
  BY DEF IQInv
<1>2. Valid' = Valid \ {i}
  BY RemoveKeeps
<1>3. PICK p : AgeOrder(p)' /\ \A n \in Places' : p[n] = IF n < k THEN o[n] ELSE o[n + 1]
  BY <1>1, <1>2, RemoveOrder
<1>4. /\ Pool \in Seq(Insts) /\ Len(Pool) = length
      /\ \A m \in 1 .. length : Pool[m] = q[o[m - 1]].inst
  BY <1>1, PoolIsListed
<1>5. /\ Pool' \in Seq(Insts) /\ Len(Pool') = length'
      /\ \A m \in 1 .. length' : m - 1 \in Places' /\ Pool'[m] = q'[p[m - 1]].inst
  BY <1>1, <1>3, PoolIsListedNext
<1>6. length \in Nat /\ length' = length - 1 /\ k \in Nat /\ k < length
  BY <1>1 DEF TypeOK, Remove, Places
<1>7. \A j \in Slots : q'[j].inst = q[j].inst
  BY <1>1, RemoveTypes
<1>8. \A n \in Places : o[n] \in Slots
  BY Zenon DEF AgeOrder, Valid
<1>9. \A m \in 1 .. length' : Pool'[m] = IF m < k + 1 THEN Pool[m] ELSE Pool[m + 1]
  <2>1. TAKE m \in 1 .. length'
  <2>2. m - 1 \in Places /\ m \in Places /\ m \in 1 .. length /\ m + 1 \in 1 .. length
        /\ (m + 1) - 1 = m /\ (m - 1) + 1 = m
    BY <1>6 DEF Places
  <2>3. CASE m < k + 1
    <3>1. m - 1 < k
      BY <1>6, <2>3
    <3>2. p[m - 1] = o[m - 1]
      BY <1>3, <1>5, <3>1
    <3>3. QED
      BY <1>4, <1>5, <1>7, <1>8, <2>2, <2>3, <3>2
  <2>4. CASE ~ (m < k + 1)
    <3>1. ~ (m - 1 < k)
      BY <1>6, <2>4
    <3>2. p[m - 1] = o[(m - 1) + 1]
      BY <1>3, <1>5, <3>1
    <3>3. Pool'[m] = q[o[m]].inst
      BY <1>5, <1>7, <1>8, <2>2, <3>2
    <3>4. Pool[m + 1] = q[o[m]].inst
      BY <1>4, <2>2
    <3>5. QED
      BY <2>4, <3>3, <3>4
  <2>5. QED
    BY <2>3, <2>4
<1>10. k + 1 \in 1 .. Len(Pool) /\ Len(Pool') = Len(Pool) - 1
  BY <1>4, <1>5, <1>6
<1>11. Pool' = SubSeq(Pool, 1, (k + 1) - 1) \o SubSeq(Pool, (k + 1) + 1, Len(Pool))
  <2>1. \A m \in 1 .. Len(Pool') : Pool'[m] = IF m < k + 1 THEN Pool[m] ELSE Pool[m + 1]
    BY <1>5, <1>9
  <2>2. QED
    BY <1>4, <1>5, <1>10, <2>1, WithoutOne
<1>12. DOMAIN Pool = 1 .. Len(Pool)
  BY <1>4, LenProperties
<1>13. Pool[k + 1] = q[i].inst
  <2>1. (k + 1) - 1 = k /\ k + 1 \in 1 .. length
    BY <1>4, <1>10, <1>6
  <2>2. QED
    BY <1>4, <2>1
<1>14. QED
  BY <1>10, <1>11, <1>12, <1>13 DEF Abstract!RemoveAt

(* A step that keeps the order, and the instructions.                       *)
LEMMA SamePool ==
  ASSUME IQInv, IQInv', KeepQueue
  PROVE  Pool' = Pool
<1>1. PICK o : AgeOrder(o)
  BY DEF IQInv, AgeInv
<1>2. AgeOrder(o)' /\ TypeOK /\ TypeOK'
  BY <1>1, SameLists DEF IQInv
<1>3. Pool = Listed(o) /\ Pool' = Listed(o)'
  BY <1>1, <1>2, PoolIsListed, PoolIsListedNext
<1>4. Listed(o)' = Listed(o)
  BY DEF Listed, KeepQueue, listVars
<1>5. QED
  BY <1>3, <1>4

(* A step that changes the instructions only.                               *)
LEMMA MapPool ==
  ASSUME IQInv, IQInv', UNCHANGED <<length, oldest, youngest>>,
         \A i \in Slots : /\ q'[i].valid = q[i].valid
                          /\ q'[i].next = q[i].next /\ q'[i].prev = q[i].prev
  PROVE  \E o : /\ \A k \in 1 .. length : o[k - 1] \in Valid /\ Pool[k] = q[o[k - 1]].inst
                /\ Pool' = [k \in 1 .. length |-> q'[o[k - 1]].inst]
                /\ DOMAIN Pool = 1 .. length
<1>1. PICK o : AgeOrder(o)
  BY DEF IQInv, AgeInv
<1>2. Valid' = Valid
  BY DEF Valid
<1>3. AgeOrder(o)' /\ TypeOK /\ TypeOK'
  BY <1>1, <1>2, SameOrder DEF IQInv
<1>4. /\ Pool \in Seq(Insts) /\ Len(Pool) = length
      /\ \A k \in 1 .. length : k - 1 \in Places /\ Pool[k] = q[o[k - 1]].inst
  BY <1>1, <1>3, PoolIsListed
<1>5. Pool' = Listed(o)'
  BY <1>3, PoolIsListedNext
<1>6. Pool' = [k \in 1 .. length |-> q'[o[k - 1]].inst]
  BY <1>5 DEF Listed
<1>7. \A n \in Places : o[n] \in Valid
  BY <1>1, Zenon DEF AgeOrder
<1>8. DOMAIN Pool = 1 .. length
  BY <1>4, LenProperties
<1>9. QED
  BY <1>4, <1>6, <1>7, <1>8

LEMMA WakeupMaps ==
  ASSUME IQInv, NEW tag \in Tags, Wakeup(tag)
  PROVE  Abstract!Arrive(tag)
<1>1. /\ q' = [i \in Slots |-> IF q[i].valid
                               THEN [q[i] EXCEPT !.inst.wait = @ \ {tag}] ELSE q[i]]
      /\ UNCHANGED <<length, oldest, youngest, ageBased, rr>>
      /\ \A i \in Slots : q[i] \in Entry
  BY DEF Wakeup, IQInv, TypeOK
<1>2. IQInv'
  BY WakeupKeeps
<1>3. \A i \in Slots : /\ q'[i].valid = q[i].valid
                       /\ q'[i].next = q[i].next /\ q'[i].prev = q[i].prev
                       /\ q[i].valid => q'[i].inst = [q[i].inst EXCEPT !.wait = @ \ {tag}]
  <2>1. TAKE i \in Slots
  <2>2. q[i] \in Entry /\ q[i].inst \in Insts
    BY <1>1 DEF Entry
  <2>3. PICK u \in Insts : u = [q[i].inst EXCEPT !.wait = @ \ {tag}]
    BY <2>2 DEF Insts
  <2>4. CASE q[i].valid
    <3>1. q'[i] = [q[i] EXCEPT !.inst = u]
      BY <1>1, <2>3, <2>4
    <3>2. QED
      BY <2>2, <2>3, <3>1, InstFields
  <2>5. CASE ~ q[i].valid
    BY <1>1, <2>5
  <2>6. QED
    BY <2>4, <2>5
<1>4. PICK o : /\ \A k \in 1 .. length : o[k - 1] \in Valid /\ Pool[k] = q[o[k - 1]].inst
               /\ Pool' = [k \in 1 .. length |-> q'[o[k - 1]].inst]
               /\ DOMAIN Pool = 1 .. length
  BY <1>1, <1>2, <1>3, MapPool
<1>5. \A k \in 1 .. length : q'[o[k - 1]].inst = [Pool[k] EXCEPT !.wait = @ \ {tag}]
  <2>1. TAKE k \in 1 .. length
  <2>2. o[k - 1] \in Slots /\ q[o[k - 1]].valid /\ Pool[k] = q[o[k - 1]].inst
    BY <1>4 DEF Valid
  <2>3. QED
    BY <1>3, <2>2
<1>6. Pool' = [k \in DOMAIN Pool |-> [Pool[k] EXCEPT !.wait = @ \ {tag}]]
  BY <1>4, <1>5
<1>7. QED
  BY <1>1, <1>6 DEF Abstract!Arrive

LEMMA ClearBranchBitMaps ==
  ASSUME IQInv, NEW b \in BranchIDs, ClearBranchBit(b)
  PROVE  Abstract!Resolve(b)
<1>1. /\ q' = [i \in Slots |-> [q[i] EXCEPT !.inst.branch_mask = @ \ {b}]]
      /\ UNCHANGED <<length, oldest, youngest, ageBased, rr>>
      /\ \A i \in Slots : q[i] \in Entry
  BY DEF ClearBranchBit, IQInv, TypeOK
<1>2. IQInv'
  BY ClearBranchBitKeeps
<1>3. \A i \in Slots : /\ q'[i].valid = q[i].valid
                       /\ q'[i].next = q[i].next /\ q'[i].prev = q[i].prev
                       /\ q'[i].inst = [q[i].inst EXCEPT !.branch_mask = @ \ {b}]
  <2>1. TAKE i \in Slots
  <2>2. q[i] \in Entry /\ q[i].inst \in Insts
    BY <1>1 DEF Entry
  <2>3. PICK u \in Insts : u = [q[i].inst EXCEPT !.branch_mask = @ \ {b}]
    BY <2>2 DEF Insts
  <2>4. q'[i] = [q[i] EXCEPT !.inst = u]
    BY <1>1, <2>3
  <2>5. QED
    BY <2>2, <2>3, <2>4, InstFields
<1>4. PICK o : /\ \A k \in 1 .. length : o[k - 1] \in Valid /\ Pool[k] = q[o[k - 1]].inst
               /\ Pool' = [k \in 1 .. length |-> q'[o[k - 1]].inst]
               /\ DOMAIN Pool = 1 .. length
  BY <1>1, <1>2, <1>3, MapPool
<1>5. \A k \in 1 .. length : q'[o[k - 1]].inst = [Pool[k] EXCEPT !.branch_mask = @ \ {b}]
  <2>1. TAKE k \in 1 .. length
  <2>2. o[k - 1] \in Slots /\ Pool[k] = q[o[k - 1]].inst
    BY <1>4 DEF Valid
  <2>3. QED
    BY <1>3, <2>2
<1>6. Pool' = [k \in DOMAIN Pool |-> [Pool[k] EXCEPT !.branch_mask = @ \ {b}]]
  BY <1>4, <1>5
<1>7. QED
  BY <1>1, <1>6 DEF Abstract!Resolve

LEMMA FlushMaps ==
  ASSUME IQInv, Flush
  PROVE  Abstract!Empty
<1>1. IQInv'
  BY FlushKeeps
<1>2. PICK o : AgeOrder(o)'
  BY <1>1 DEF IQInv, AgeInv
<1>3. Pool' = Listed(o)'
  BY <1>1, <1>2, PoolIsListedNext DEF IQInv
<1>4. length' = 0 /\ rr' = {} /\ ageBased' = ageBased
  BY DEF Flush
<1>5. Pool' = <<>>
  BY <1>3, <1>4 DEF Listed
<1>6. QED
  BY <1>4, <1>5 DEF Abstract!Empty

(* An iteration of select_and_issue() issues one instruction of the pool,   *)
(* in age order none that an older one could have kept from the lane, or    *)
(* none.                                                                    *)
LEMMA SelectStepMaps ==
  ASSUME IQInv, SelectStep
  PROVE  Abstract!Next \/ UNCHANGED <<Pool, rr, ageBased>>
<1>1. TypeOK /\ IQInv' /\ ageBased' = ageBased /\ loop.i \in Slots
  BY SelectStepKeeps DEF IQInv, SelectStep, TypeOK, Loops
<1>2. CASE ~ CanIssue(loop.i)
  <2>1. KeepQueue /\ rr' = rr
    BY <1>2 DEF SelectStep
  <2>2. QED
    BY <1>1, <2>1, SamePool
<1>3. CASE CanIssue(loop.i)
  <2>1. loop.i \in Valid /\ Issue(loop.i)
    BY <1>1, <1>3 DEF SelectStep, Valid, CanIssue, Ready
  <2>2. Remove(loop.i) /\ \E l \in FreeLanes(loop.i) : rr' = rr \cup {l}
    BY <2>1, Zenon DEF Issue
  <2>3. PICK o : AgeOrder(o) /\ \E k \in Places : o[k] = loop.i /\ (ageBased => Passed(o, k))
    <3>1. CASE ageBased
      <4>1. ScannedByAge
        BY <3>1 DEF IQInv, ScanInv, SelectStep
      <4>2. QED
        BY <4>1 DEF ScannedByAge
    <3>2. CASE ~ ageBased
      <4>1. PICK o : AgeOrder(o)
        BY DEF IQInv, AgeInv
      <4>2. PICK k \in Places : o[k] = loop.i
        BY <2>1, <4>1, Zenon DEF AgeOrder
      <4>3. QED
        BY <3>2, <4>1, <4>2
    <3>3. QED
      BY <3>1, <3>2
  <2>4. PICK k \in Places : o[k] = loop.i /\ (ageBased => Passed(o, k))
    BY <2>3
  <2>5. /\ Pool' = Abstract!RemoveAt(Pool, k + 1)
        /\ k + 1 \in DOMAIN Pool /\ Pool[k + 1] = q[loop.i].inst
    BY <1>1, <2>1, <2>2, <2>3, <2>4, RemoveMaps
  <2>6. Abstract!CouldIssue(k + 1)
    BY <1>3, <2>5 DEF Abstract!CouldIssue, CanIssue, Ready, FreeLanes
  <2>7. \E l \in Pool[k + 1].lanes \ rr : rr' = rr \cup {l}
    BY <2>2, <2>5 DEF FreeLanes
  <2>8. ageBased => \A m \in 1 .. (k + 1) - 1 : ~ Abstract!CouldIssue(m)
    <3>1. HAVE ageBased
    <3>2. TAKE m \in 1 .. (k + 1) - 1
    <3>3. length \in Nat /\ k \in Nat /\ k < length
      BY <1>1 DEF TypeOK, Places
    <3>4. m \in 1 .. length /\ m - 1 \in Places /\ m - 1 < k
      BY <3>3 DEF Places
    <3>5. Pool[m] = q[o[m - 1]].inst
      BY <1>1, <2>3, <3>4, PoolIsListed
    <3>6. ~ CanIssue(o[m - 1])
      BY <2>4, <3>1, <3>4 DEF Passed
    <3>7. q[o[m - 1]].valid
      BY <2>3, <3>4 DEF AgeOrder, Valid
    <3>8. QED
      BY <3>5, <3>6, <3>7 DEF Abstract!CouldIssue, CanIssue, Ready, FreeLanes
  <2>9. Abstract!Issue(k + 1)
    BY <1>1, <2>5, <2>6, <2>7, <2>8 DEF Abstract!Issue
  <2>10. QED
    BY <2>5, <2>9 DEF Abstract!Next
<1>4. QED
  BY <1>2, <1>3

LEMMA SquashStepMaps ==
  ASSUME IQInv, SquashStep
  PROVE  Abstract!Next \/ UNCHANGED <<Pool, rr, ageBased>>
<1> DEFINE Hit == q[loop.i].valid /\ loop.b \in q[loop.i].inst.branch_mask
<1>1. TypeOK /\ IQInv' /\ ageBased' = ageBased /\ rr' = rr /\ loop.i \in Slots
      /\ (Hit => Remove(loop.i)) /\ (~ Hit => KeepQueue)
  BY SquashStepKeeps DEF IQInv, SquashStep, TypeOK, Loops
<1>2. CASE ~ Hit
  BY <1>1, <1>2, SamePool
<1>3. CASE Hit
  <2>1. loop.i \in Valid /\ Remove(loop.i)
    BY <1>1, <1>3 DEF Valid
  <2>2. PICK o : AgeOrder(o)
    BY DEF IQInv, AgeInv
  <2>3. PICK k \in Places : o[k] = loop.i
    BY <2>1, <2>2, Zenon DEF AgeOrder
  <2>4. /\ Pool' = Abstract!RemoveAt(Pool, k + 1)
        /\ k + 1 \in DOMAIN Pool /\ Pool[k + 1] = q[loop.i].inst
    BY <1>1, <2>1, <2>2, <2>3, RemoveMaps
  <2>5. Pool[k + 1].branch_mask # {}
    BY <1>3, <2>4
  <2>6. Abstract!Drop(k + 1)
    BY <1>1, <2>4, <2>5 DEF Abstract!Drop
  <2>7. QED
    BY <2>4, <2>6 DEF Abstract!Next
<1>4. QED
  BY <1>2, <1>3

----------------------------------------------------------------------------
LEMMA NextMaps ==
  IQInv /\ [Next]_vars => [Abstract!Next]_<<Pool, rr, ageBased>>
<1> SUFFICES ASSUME IQInv, [Next]_vars
             PROVE  Abstract!Next \/ UNCHANGED <<Pool, rr, ageBased>>
  OBVIOUS
<1>1. IQInv'
  BY NextKeeps
<1>2. CASE \E inst \in Incoming : Dispatch(inst)
  <2>1. PICK inst \in Incoming : Dispatch(inst)
    BY <1>2
  <2>2. inst \in Abstract!Insts
    BY Sizes, SameTypes
  <2>3. QED
    BY <2>1, <2>2, DispatchMaps DEF Abstract!Next
<1>3. CASE \E tag \in Tags : Wakeup(tag)
  BY <1>3, WakeupMaps DEF Abstract!Next
<1>4. CASE StartSelect
  <2>1. KeepQueue /\ rr' = {} /\ ageBased' = ageBased
    BY <1>4 DEF StartSelect
  <2>2. QED
    BY <1>1, <2>1, SamePool DEF Abstract!Next, Abstract!NewCycle
<1>5. CASE SelectStep
  BY <1>5, SelectStepMaps
<1>6. CASE \E b \in BranchIDs : StartSquash(b)
  <2>1. KeepQueue /\ UNCHANGED <<rr, ageBased>>
    BY <1>6 DEF StartSquash
  <2>2. QED
    BY <1>1, <2>1, SamePool
<1>7. CASE SquashStep
  BY <1>7, SquashStepMaps
<1>8. CASE \E b \in BranchIDs : ClearBranchBit(b)
  BY <1>8, ClearBranchBitMaps DEF Abstract!Next
<1>9. CASE Flush
  BY <1>9, FlushMaps DEF Abstract!Next
<1>10. CASE UNCHANGED vars
  <2>1. KeepQueue /\ UNCHANGED <<rr, ageBased>>
    BY <1>10 DEF vars, KeepQueue
  <2>2. QED
    BY <1>1, <2>1, SamePool
<1>11. QED
  BY <1>2, <1>3, <1>4, <1>5, <1>6, <1>7, <1>8, <1>9, <1>10 DEF Next

(* For every size of the queue and number of lanes, the issue queue         *)
(* implements AgeQueue: dispatch order survives every removal, only ready   *)
(* instructions issue, to a free lane, and with IDEAL_AGE_BASED never past  *)
(* an older one that could have issued (issue_queue.cc).                    *)
THEOREM AlwaysImplementsAgeQueue == Spec => ImplementsAgeQueue
<1>1. Spec => Abstract!Init /\ [][Abstract!Next]_<<Pool, rr, ageBased>>
  BY InitMaps, NextMaps, InvariantHolds, PTL DEF Spec
<1>2. QED
  BY <1>1 DEF ImplementsAgeQueue, Abstract!Spec

=============================================================================
