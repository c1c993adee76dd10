--------------------------- MODULE FrontEndProofs ---------------------------
(***************************************************************************)
(* For every width of the stages and every size of the structures: no      *)
(* bundle takes more than there is.  A stage asks once, for its whole      *)
(* bundle, and another stage takes what it asked for: that what was asked  *)
(* for is what is taken holds of the sums of the counts.                   *)
(*                                                                         *)
(* And instructions are dispatched in the order in which they were         *)
(* fetched.  The path is followed from structure to structure: each ends   *)
(* where the next that is not empty begins.                                *)
(***************************************************************************)
EXTENDS FrontEndProperties, FiniteSetTheorems, SequenceTheorems, TLAPS

----------------------------------------------------------------------------
(* Counting the elements of a sequence that are in a set.                   *)
Places(s, S)  == {k \in 1 .. Len(s) : s[k] \in S}
Members(s, S) == Cardinality(Places(s, S))

LEMMA PlacesFinite ==
  ASSUME NEW E, NEW s \in Seq(E), NEW S
  PROVE  IsFiniteSet(Places(s, S)) /\ Members(s, S) \in Nat
<1>1. Len(s) \in Nat /\ IsFiniteSet(1 .. Len(s))
  BY FS_Interval
<1>2. Places(s, S) \in SUBSET (1 .. Len(s))
  BY DEF Places
<1>3. QED
  BY <1>1, <1>2, FS_Subset, FS_CardinalityType DEF Members

(* The members of t are, d places further on, members of s.                 *)
LEMMA MembersShift ==
  ASSUME NEW E, NEW s \in Seq(E), NEW t \in Seq(E), NEW S, NEW d \in Nat,
         \A k \in Places(t, S) : k + d \in Places(s, S)
  PROVE  Members(t, S) <= Members(s, S)
<1> DEFINE f == [k \in Places(t, S) |-> k + d]
<1>1. f \in [Places(t, S) -> Places(s, S)]
  OBVIOUS
<1>2. \A j, k \in Places(t, S) : f[j] = f[k] => j = k
  BY DEF Places
<1>3. f \in Injection(Places(t, S), Places(s, S))
  BY <1>1, <1>2, Zenon DEF Injection, IsInjective
<1>4. QED
  BY <1>3, PlacesFinite, FS_Injection, Zenon DEF Members

LEMMA MembersWithin ==
  ASSUME NEW E, NEW s \in Seq(E), NEW t \in Seq(E), NEW S, NEW T,
         \A k \in Places(t, T) : k \in Places(s, S)
  PROVE  Members(t, T) <= Members(s, S)
<1>1. Places(t, T) \in SUBSET Places(s, S)
  OBVIOUS
<1>2. QED
  BY <1>1, PlacesFinite, FS_Subset, Zenon DEF Members

LEMMA MembersConcat ==
  ASSUME NEW E, NEW s \in Seq(E), NEW t \in Seq(E), NEW S
  PROVE  Members(s \o t, S) = Members(s, S) + Members(t, S)
<1> DEFINE m == Len(s)
           T == {k \in m + 1 .. m + Len(t) : t[k - m] \in S}
           f == [k \in Places(t, S) |-> k + m]
<1>1. m \in Nat /\ Len(t) \in Nat
  OBVIOUS
<1>2. f \in [Places(t, S) -> T]
  BY <1>1 DEF Places
<1>3. \A j, k \in Places(t, S) : f[j] = f[k] => j = k
  BY <1>1 DEF Places
<1>4. \A k \in T : k - m \in Places(t, S) /\ f[k - m] = k
  BY <1>1 DEF Places
<1>5. f \in Bijection(Places(t, S), T)
  <2>1. f \in Injection(Places(t, S), T)
    BY <1>2, <1>3, Zenon DEF Injection, IsInjective
  <2>2. f \in Surjection(Places(t, S), T)
    <3>1. \A k \in T : \E j \in Places(t, S) : f[j] = k
      BY <1>4, Zenon
    <3>2. QED
      BY <1>2, <3>1, Zenon DEF Surjection
  <2>3. QED
    BY <2>1, <2>2, Zenon DEF Bijection
<1>6. IsFiniteSet(T) /\ Cardinality(T) = Members(t, S)
  <2>1. ExistsBijection(Places(t, S), T) /\ IsFiniteSet(Places(t, S))
    BY <1>5, PlacesFinite, Zenon DEF ExistsBijection
  <2>2. QED
    BY <2>1, FS_Bijection, Zenon DEF Members
<1>7. Places(s \o t, S) = Places(s, S) \cup T
  BY <1>1 DEF Places
<1>8. Places(s, S) \cap T = {}
  BY <1>1 DEF Places
<1>9. /\ IsFiniteSet(Places(s, S)) /\ Members(s, S) \in Nat
      /\ Members(t, S) \in Nat
  BY PlacesFinite
<1>10. Cardinality(Places(s, S) \cup T) = Cardinality(Places(s, S)) + Cardinality(T) - 0
  <2>1. Cardinality(Places(s, S) \cup T)
          = Cardinality(Places(s, S)) + Cardinality(T) - Cardinality(Places(s, S) \cap T)
    BY <1>6, <1>9, FS_Union
  <2>2. Cardinality(Places(s, S) \cap T) = 0
    BY <1>8, FS_EmptySet
  <2>3. QED
    BY <2>1, <2>2
<1>11. Members(s \o t, S) = Cardinality(Places(s, S) \cup T)
  BY <1>7, Zenon DEF Members
<1>12. Cardinality(Places(s, S)) = Members(s, S)
  BY Zenon DEF Members
<1>13. QED
  BY <1>6, <1>9, <1>10, <1>11, <1>12

----------------------------------------------------------------------------
(* The inductive invariant.  What is in a latch has the type that its stage *)
(* gave it, the used part of the ring holds what decode put there, and no   *)
(* count is above its size.                                                 *)
Coming == [id : 0 .. Ids - 1, inst : Instructions, fault : BOOLEAN]

Entries == [id : 0 .. Ids - 1, inst : Instructions, flags : SUBSET AllFlags, trap : BOOLEAN,
            iq : BOOLEAN, resolved : BOOLEAN, at : {"iq", "ex", "done"}]

RingInv ==
  /\ fq \in [0 .. FQSize - 1 -> Decoded \cup {<<>>}]
  /\ fqHead \in 0 .. FQSize - 1 /\ fqTail \in 0 .. FQSize - 1 /\ fqLength \in 0 .. FQSize
  /\ fqTail = (fqHead + fqLength) % FQSize
  /\ \A n \in 0 .. fqLength - 1 : fq[(fqHead + n) % FQSize] \in Decoded

LatchesInv ==
  /\ DECODE \in Seq(Coming)
  /\ RENAME2 \in Seq(Decoded) /\ DISPATCH \in Seq(Decoded)
  /\ window \in Seq(Entries)
  /\ next \in 0 .. Ids - 1

TakesReg    == {d \in Entries \cup Decoded : NeedsReg(d)}
TakesBranch == {d \in Entries \cup Decoded : NeedsBranch(d)}
OpenBranch  == {d \in Entries \cup Decoded : NeedsBranch(d) /\ ~ d.resolved}
TakesLoad   == {d \in Entries \cup Decoded : NeedsLoad(d)}
TakesStore  == {d \in Entries \cup Decoded : NeedsStore(d)}
TakesIQ     == {d \in Entries \cup Decoded : NeedsIQ(d)}
Waiting     == {d \in Entries : d.at = "iq"}

RoomInv ==
  /\ Members(Renamed, TakesReg) <= Registers
  /\ Members(Renamed, OpenBranch) <= Checkpoints
  /\ Members(window, Waiting) <= IQSize
  /\ Members(window, TakesLoad) <= LQSize
  /\ Members(window, TakesStore) <= SQSize
  /\ Len(window) <= ALSize

FrontEndInv == RingInv /\ LatchesInv /\ RoomInv

(* What the model counts, in these terms.                                   *)
LEMMA Counts ==
  ASSUME NEW s \in Seq(Entries \cup Decoded)
  PROVE  /\ Count(s, NeedsReg) = Members(s, TakesReg)
         /\ Count(s, NeedsBranch) = Members(s, TakesBranch)
         /\ Count(s, LAMBDA d : NeedsBranch(d) /\ ~ d.resolved) = Members(s, OpenBranch)
         /\ Count(s, NeedsLoad) = Members(s, TakesLoad)
         /\ Count(s, NeedsStore) = Members(s, TakesStore)
         /\ Count(s, NeedsIQ) = Members(s, TakesIQ)
<1>1. DOMAIN s = 1 .. Len(s) /\ \A k \in 1 .. Len(s) : s[k] \in Entries \cup Decoded
  OBVIOUS
<1>2. /\ {k \in DOMAIN s : NeedsReg(s[k])} = Places(s, TakesReg)
      /\ {k \in DOMAIN s : NeedsBranch(s[k])} = Places(s, TakesBranch)
      /\ {k \in DOMAIN s : NeedsBranch(s[k]) /\ ~ s[k].resolved} = Places(s, OpenBranch)
      /\ {k \in DOMAIN s : NeedsLoad(s[k])} = Places(s, TakesLoad)
      /\ {k \in DOMAIN s : NeedsStore(s[k])} = Places(s, TakesStore)
      /\ {k \in DOMAIN s : NeedsIQ(s[k])} = Places(s, TakesIQ)
  BY <1>1 DEF Places, TakesReg, TakesBranch, OpenBranch, TakesLoad, TakesStore, TakesIQ
<1>3. QED
  BY <1>2, Zenon DEF Count, Quantify, Members

LEMMA WaitingCount ==
  ASSUME NEW s \in Seq(Entries)
  PROVE  Count(s, LAMBDA d : d.at = "iq") = Members(s, Waiting)
<1>1. {k \in DOMAIN s : s[k].at = "iq"} = Places(s, Waiting)
  BY DEF Places, Waiting
<1>2. QED
  BY <1>1, Zenon DEF Count, Quantify, Members

LEMMA RenamedType ==
  ASSUME LatchesInv
  PROVE  /\ window \in Seq(Entries \cup Decoded) /\ DISPATCH \in Seq(Entries \cup Decoded)
         /\ RENAME2 \in Seq(Entries \cup Decoded)
         /\ Renamed \in Seq(Entries \cup Decoded)
<1>1. /\ window \in Seq(Entries \cup Decoded) /\ DISPATCH \in Seq(Entries \cup Decoded)
      /\ RENAME2 \in Seq(Entries \cup Decoded)
  BY SeqMonotonic DEF LatchesInv
<1>2. QED
  BY <1>1, ConcatProperties DEF Renamed

(* FrontEndInv says what is promised.                                       *)
LEMMA InvIsRoom == FrontEndInv => NoOverrun
<1> SUFFICES ASSUME FrontEndInv PROVE NoOverrun
  OBVIOUS
<1>1. /\ RegsInUse = Members(Renamed, TakesReg)
      /\ BranchesOpen = Members(Renamed, OpenBranch)
  BY RenamedType, Counts, Zenon DEF FrontEndInv, RegsInUse, BranchesOpen
<1>2. /\ LQLength = Members(window, TakesLoad)
      /\ SQLength = Members(window, TakesStore)
  BY RenamedType, Counts, Zenon DEF FrontEndInv, LQLength, SQLength
<1>3. InIQ = Members(window, Waiting)
  BY WaitingCount, Zenon DEF FrontEndInv, LatchesInv, InIQ
<1>4. fqLength <= FQSize /\ fqTail = (fqHead + fqLength) % FQSize
  BY FrontEndAssumption DEF FrontEndInv, RingInv
<1>5. QED
  BY <1>1, <1>2, <1>3, <1>4 DEF NoOverrun, FrontEndInv, RoomInv

----------------------------------------------------------------------------
(* The initial state, and the ring of the fetch queue.                      *)
LEMMA Sizes ==
  /\ FetchWidth \in Nat \ {0} /\ DispatchWidth \in Nat \ {0} /\ FQSize \in Nat \ {0}
  /\ Registers \in Nat /\ Checkpoints \in Nat /\ ALSize \in Nat
  /\ IQSize \in Nat /\ LQSize \in Nat /\ SQSize \in Nat
  /\ Ids \in Nat \ {0}
BY FrontEndAssumption, SizesAssumption DEF Ids

(* The place after the last is the first.                                   *)
Turn(a) == IF a < FQSize THEN a ELSE a - FQSize

LEMMA Size == FQSize \in Nat \ {0}
BY Sizes

LEMMA Wrap ==
  ASSUME NEW n \in Nat \ {0}, NEW a \in 0 .. 2 * n - 1
  PROVE  a % n = IF a < n THEN a ELSE a - n
BY SMT

LEMMA InRange ==
  ASSUME NEW n \in Nat \ {0}, NEW a \in Nat
  PROVE  a % n \in 0 .. n - 1
BY SMT

LEMMA TurnIsMod == \A a \in 0 .. 2 * FQSize - 1 : a % FQSize = Turn(a)
<1>1. TAKE a \in 0 .. 2 * FQSize - 1
<1>2. QED
  BY Size, Wrap, Zenon DEF Turn

LEMMA TurnOfSum ==
  ASSUME NEW a \in 0 .. FQSize - 1, NEW b \in 0 .. FQSize
  PROVE  (a + b) % FQSize = Turn(a + b)
<1>1. a + b \in 0 .. 2 * FQSize - 1
  BY Size
<1>2. QED
  BY <1>1, TurnIsMod, Zenon

(* A used place that is less than L behind the end is one of the first.     *)
LEMMA NotPushed ==
  ASSUME NEW h \in 0 .. FQSize - 1, NEW n \in 0 .. FQSize, NEW L \in 0 .. FQSize,
         n + L <= FQSize, NEW k \in 0 .. n + L - 1,
         Turn(Turn(h + k) + FQSize - Turn(h + n)) >= L
  PROVE  k \in 0 .. n - 1
<1> SUFFICES ASSUME k >= n PROVE Turn(Turn(h + k) + FQSize - Turn(h + n)) = k - n
  BY Size
<1>1. CASE h + n >= FQSize
  BY <1>1, Size DEF Turn
<1>2. CASE h + k < FQSize
  BY <1>2, Size DEF Turn
<1>3. CASE h + n < FQSize /\ h + k >= FQSize
  BY <1>3, Size DEF Turn
<1>4. QED
  BY <1>1, <1>2, <1>3, Size

LEMMA FlushRing ==
  ASSUME RingInv, FlushQueue
  PROVE  RingInv'
<1>1. 0 \in 0 .. 2 * FQSize - 1
  BY Size
<1>2. 0 % FQSize = Turn(0)
  BY <1>1, TurnIsMod, Zenon
<1>3. QED
  BY <1>2, Size DEF RingInv, FlushQueue, Turn

LEMMA PopRing ==
  ASSUME RingInv, NEW n \in 0 .. fqLength, Pop(n)
  PROVE  RingInv'
<1>1. /\ fqHead' = (fqHead + n) % FQSize /\ fqLength' = fqLength - n
      /\ fq' = fq /\ fqTail' = fqTail
  BY DEF Pop
<1>2. fqHead' = Turn(fqHead + n)
  <2>1. fqHead + n \in 0 .. 2 * FQSize - 1
    BY Size DEF RingInv
  <2>2. QED
    BY <1>1, <2>1, TurnIsMod, Zenon
<1>3. fqTail = Turn(fqHead + fqLength)
  <2>1. fqHead + fqLength \in 0 .. 2 * FQSize - 1
    BY Size DEF RingInv
  <2>2. QED
    BY <2>1, TurnIsMod, Zenon DEF RingInv
<1>4. fqHead' \in 0 .. FQSize - 1 /\ fqLength' \in 0 .. FQSize
  BY <1>1, <1>2, Size DEF RingInv, Turn
<1>5. (fqHead' + fqLength') % FQSize = Turn(fqHead' + fqLength')
  BY <1>4, TurnOfSum, Zenon
<1>6. fqTail' = (fqHead' + fqLength') % FQSize
  BY <1>1, <1>2, <1>3, <1>5, Size DEF RingInv, Turn
<1>7. ASSUME NEW k \in 0 .. fqLength' - 1
      PROVE  fq'[(fqHead' + k) % FQSize] \in Decoded
  <2>1. n + k \in 0 .. fqLength - 1
    BY <1>1 DEF RingInv
  <2>2. (fqHead' + k) % FQSize = Turn(fqHead' + k)
    <3>1. k \in 0 .. FQSize
      BY <2>1, Size DEF RingInv
    <3>2. QED
      BY <1>4, <3>1, TurnOfSum, Zenon
  <2>3. (fqHead + (n + k)) % FQSize = Turn(fqHead + (n + k))
    <3>1. fqHead + (n + k) \in 0 .. 2 * FQSize - 1
      BY <2>1, Size DEF RingInv
    <3>2. QED
      BY <3>1, TurnIsMod, Zenon
  <2>4. Turn(fqHead' + k) = Turn(fqHead + (n + k))
    BY <1>2, <2>1, Size DEF RingInv, Turn
  <2>5. fq[(fqHead + (n + k)) % FQSize] \in Decoded
    BY <2>1, Zenon DEF RingInv
  <2>6. QED
    BY <1>1, <2>2, <2>3, <2>4, <2>5
<1>8. QED
  BY <1>1, <1>4, <1>6, <1>7, Size DEF RingInv

LEMMA PushRing ==
  ASSUME RingInv, NEW b \in Seq(Decoded), EnoughSpace(Len(b)), Push(b)
  PROVE  RingInv'
<1> DEFINE L     == Len(b)
           At(p) == (p + FQSize - fqTail) % FQSize
<1>1. L \in Nat /\ fqLength + L <= FQSize
  BY Size DEF EnoughSpace, RingInv
<1>2. /\ fqTail' = (fqTail + L) % FQSize /\ fqLength' = fqLength + L /\ fqHead' = fqHead
      /\ fq' = [p \in 0 .. FQSize - 1 |-> IF At(p) < L THEN b[At(p) + 1] ELSE fq[p]]
  BY Zenon DEF Push, RingInv
<1>3. fqTail = Turn(fqHead + fqLength)
  <2>1. fqHead + fqLength \in 0 .. 2 * FQSize - 1
    BY Size DEF RingInv
  <2>2. QED
    BY <2>1, TurnIsMod, Zenon DEF RingInv
<1>4. fqTail' = Turn(fqTail + L)
  <2>1. fqTail + L \in 0 .. 2 * FQSize - 1
    BY <1>1, Size DEF RingInv
  <2>2. QED
    BY <1>2, <2>1, TurnIsMod, Zenon
<1>5. (fqHead' + fqLength') % FQSize = Turn(fqHead' + fqLength')
  <2>1. fqHead' \in 0 .. FQSize - 1 /\ fqLength' \in 0 .. FQSize
    BY <1>1, <1>2, Size DEF RingInv
  <2>2. QED
    BY <2>1, TurnOfSum, Zenon
<1>6. /\ fqHead' \in 0 .. FQSize - 1 /\ fqTail' \in 0 .. FQSize - 1
      /\ fqLength' \in 0 .. FQSize
      /\ fqTail' = (fqHead' + fqLength') % FQSize
  <2>1. fqHead' \in 0 .. FQSize - 1 /\ fqLength' \in 0 .. FQSize
    BY <1>1, <1>2, Size DEF RingInv
  <2>2. fqTail' \in 0 .. FQSize - 1
    BY <1>1, <1>4, Size DEF RingInv, Turn
  <2>3. Turn(fqTail + L) = Turn(fqHead + (fqLength + L))
    BY <1>1, <1>3, Size DEF RingInv, Turn
  <2>4. fqHead' + fqLength' = fqHead + (fqLength + L)
    BY <1>1, <1>2
  <2>5. QED
    BY <1>4, <1>5, <2>1, <2>2, <2>3, <2>4
<1>7. ASSUME NEW p \in 0 .. FQSize - 1
      PROVE  At(p) = Turn(p + FQSize - fqTail)
  <2>1. p + FQSize - fqTail \in 0 .. 2 * FQSize - 1
    BY Size DEF RingInv
  <2>2. QED
    BY <2>1, TurnIsMod, Zenon
<1>8. ASSUME NEW p \in 0 .. FQSize - 1, At(p) < L
      PROVE  b[At(p) + 1] \in Decoded
  <2>1. At(p) \in Nat
    BY <1>7, Size DEF RingInv, Turn
  <2>2. At(p) + 1 \in 1 .. Len(b)
    BY <1>1, <1>8, <2>1
  <2>3. QED
    BY <2>2, ElementOfSeq, Zenon
<1>9. fq' \in [0 .. FQSize - 1 -> Decoded \cup {<<>>}]
  <2>1. ASSUME NEW p \in 0 .. FQSize - 1
        PROVE  (IF At(p) < L THEN b[At(p) + 1] ELSE fq[p]) \in Decoded \cup {<<>>}
    <3>1. fq[p] \in Decoded \cup {<<>>}
      BY DEF RingInv
    <3>2. QED
      BY <1>8, <3>1, Zenon
  <2>2. QED
    BY <1>2, <2>1, Zenon
<1>10. ASSUME NEW k \in 0 .. fqLength' - 1
       PROVE  fq'[(fqHead' + k) % FQSize] \in Decoded
  <2> DEFINE p == (fqHead + k) % FQSize
  <2>1. p = Turn(fqHead + k)
    <3>1. fqHead + k \in 0 .. 2 * FQSize - 1
      BY <1>1, <1>2, Size DEF RingInv
    <3>2. QED
      BY <3>1, TurnIsMod, Zenon
  <2>2. p \in 0 .. FQSize - 1
    BY <1>1, <1>2, <2>1, Size DEF RingInv, Turn
  <2>3. fq'[p] = IF At(p) < L THEN b[At(p) + 1] ELSE fq[p]
    BY <1>2, <2>2, Zenon
  <2>4. CASE At(p) < L
    BY <1>2, <1>8, <2>2, <2>3, <2>4, Zenon
  <2>5. CASE ~ (At(p) < L)
    <3>1. At(p) = Turn(p + FQSize - fqTail)
      BY <1>7, <2>2, Zenon
    <3>2. k \in 0 .. fqLength - 1
      <4>1. /\ L \in 0 .. FQSize /\ fqLength + L <= FQSize /\ k \in 0 .. fqLength + L - 1
            /\ fqHead \in 0 .. FQSize - 1 /\ fqLength \in 0 .. FQSize
        BY <1>1, <1>2, Size DEF RingInv
      <4>2. Turn(Turn(fqHead + k) + FQSize - Turn(fqHead + fqLength)) = At(p)
        BY <1>3, <2>1, <3>1
      <4>3. At(p) \in Nat
        BY <2>2, <3>1, Size DEF RingInv, Turn
      <4>4. At(p) >= L
        BY <1>1, <2>5, <4>3
      <4> HIDE DEF p, At, L
      <4>5. QED
        BY <4>1, <4>2, <4>4, NotPushed, Zenon
    <3>3. fq[p] \in Decoded
      BY <3>2, Zenon DEF RingInv
    <3>4. QED
      BY <1>2, <2>3, <2>5, <3>3, Zenon
  <2>6. QED
    BY <2>4, <2>5
<1>11. QED
  BY <1>6, <1>9, <1>10, Zenon DEF RingInv

LEMMA QueuedType ==
  ASSUME RingInv
  PROVE  Queued \in Seq(Decoded) /\ Len(Queued) = fqLength
<1>1. ASSUME NEW n \in 1 .. fqLength
      PROVE  fq[(fqHead + n - 1) % FQSize] \in Decoded
  <2>1. n - 1 \in 0 .. fqLength - 1 /\ fqHead + n - 1 = fqHead + (n - 1)
    BY Sizes DEF RingInv
  <2>2. fq[(fqHead + (n - 1)) % FQSize] \in Decoded
    BY <2>1, Zenon DEF RingInv
  <2>3. QED
    BY <2>1, <2>2
<1>2. fqLength \in Nat
  BY Sizes DEF RingInv
<1>3. Queued \in [1 .. fqLength -> Decoded]
  BY <1>1, Zenon DEF Queued
<1>4. QED
  BY <1>2, <1>3

----------------------------------------------------------------------------
(* One sequence follows another: each of its places needs what the place d  *)
(* further on in the other needs, or less.                                  *)
Follows(t, s, d) ==
  \A k \in 1 .. Len(t) :
    /\ k + d \in 1 .. Len(s)
    /\ t[k].inst = s[k + d].inst /\ t[k].flags = s[k + d].flags
    /\ s[k + d].resolved => t[k].resolved

Waits(t, s, d) == \A k \in 1 .. Len(t) : t[k].at = "iq" => s[k + d].at = "iq"

LEMMA FollowsTakesLess ==
  ASSUME NEW s \in Seq(Entries \cup Decoded), NEW t \in Seq(Entries \cup Decoded),
         NEW d \in Nat, Follows(t, s, d)
  PROVE  /\ Members(t, TakesReg) <= Members(s, TakesReg)
         /\ Members(t, OpenBranch) <= Members(s, OpenBranch)
         /\ Members(t, TakesLoad) <= Members(s, TakesLoad)
         /\ Members(t, TakesStore) <= Members(s, TakesStore)
<1>1. \A k \in 1 .. Len(t) : /\ t[k] \in Entries \cup Decoded
                            /\ k + d \in 1 .. Len(s) /\ s[k + d] \in Entries \cup Decoded
  BY ElementOfSeq DEF Follows
<1>2. \A k \in Places(t, TakesReg) : k + d \in Places(s, TakesReg)
  BY <1>1 DEF Follows, Places, TakesReg, NeedsReg
<1>3. \A k \in Places(t, OpenBranch) : k + d \in Places(s, OpenBranch)
  BY <1>1 DEF Follows, Places, OpenBranch, NeedsBranch
<1>4. \A k \in Places(t, TakesLoad) : k + d \in Places(s, TakesLoad)
  BY <1>1 DEF Follows, Places, TakesLoad, NeedsLoad
<1>5. \A k \in Places(t, TakesStore) : k + d \in Places(s, TakesStore)
  BY <1>1 DEF Follows, Places, TakesStore, NeedsStore
<1>6. QED
  BY <1>2, <1>3, <1>4, <1>5, MembersShift, Zenon

LEMMA EmptyTakesNothing == \A S : Members(<<>>, S) = 0
<1>1. \A S : Places(<<>>, S) = {}
  BY DEF Places
<1>2. QED
  BY <1>1, FS_EmptySet DEF Members

(* What leaves the window, or goes on in it, makes room.                    *)
LEMMA BackendRoom ==
  ASSUME LatchesInv, RoomInv, NEW d \in Nat,
         window' \in Seq(Entries), Follows(window', window, d),
         Waits(window', window, d),
         DISPATCH' = DISPATCH \/ DISPATCH' = <<>>
  PROVE  RoomInv'
<1> DEFINE E == Entries \cup Decoded
           Sums(S) == /\ Members(DISPATCH', S) <= Members(DISPATCH, S)
                      /\ Members(DISPATCH', S) \in Nat /\ Members(DISPATCH, S) \in Nat
                      /\ Members(window', S) \in Nat /\ Members(window, S) \in Nat
                      /\ Members(Renamed, S) = Members(window, S) + Members(DISPATCH, S)
                      /\ Members(Renamed', S) = Members(window', S) + Members(DISPATCH', S)
<1>1. window \in Seq(E) /\ window' \in Seq(E) /\ DISPATCH \in Seq(E) /\ DISPATCH' \in Seq(E)
  <2>1. window' \in Seq(E)
    BY SeqMonotonic
  <2>2. <<>> \in Seq(E)
    OBVIOUS
  <2>3. QED
    BY <2>1, <2>2, RenamedType
<1>2. /\ Members(window', TakesReg) <= Members(window, TakesReg)
      /\ Members(window', OpenBranch) <= Members(window, OpenBranch)
      /\ Members(window', TakesLoad) <= Members(window, TakesLoad)
      /\ Members(window', TakesStore) <= Members(window, TakesStore)
  BY <1>1, FollowsTakesLess, Zenon
<1>3. Members(window', Waiting) <= Members(window, Waiting)
  <2>1. window \in Seq(Entries) /\ window' \in Seq(Entries)
    BY DEF LatchesInv
  <2>2. \A k \in Places(window', Waiting) : k + d \in Places(window, Waiting)
    BY <2>1, ElementOfSeq DEF Follows, Waits, Places, Waiting
  <2>3. QED
    BY <2>1, <2>2, MembersShift, Zenon
<1>4. Len(window') <= Len(window)
  BY <1>1 DEF Follows
<1>5. ASSUME NEW S PROVE Sums(S)
  <2>1. /\ Members(DISPATCH', S) \in Nat /\ Members(DISPATCH, S) \in Nat
        /\ Members(window', S) \in Nat /\ Members(window, S) \in Nat
    BY <1>1, PlacesFinite, Zenon
  <2>2. /\ Members(Renamed, S) = Members(window, S) + Members(DISPATCH, S)
        /\ Members(Renamed', S) = Members(window', S) + Members(DISPATCH', S)
    BY <1>1, MembersConcat, Zenon DEF Renamed
  <2>3. Members(DISPATCH', S) <= Members(DISPATCH, S)
    BY <2>1, EmptyTakesNothing
  <2>4. QED
    BY <2>1, <2>2, <2>3
<1>6. ASSUME NEW S, NEW max \in Nat,
             Members(Renamed, S) <= max, Members(window', S) <= Members(window, S)
      PROVE  Members(Renamed', S) <= max
  <2>1. Sums(S)
    BY <1>5, Zenon
  <2>2. QED
    BY <1>6, <2>1
<1>7. /\ Members(Renamed', TakesReg) <= Registers
      /\ Members(Renamed', OpenBranch) <= Checkpoints
  <2>1. /\ Members(Renamed, TakesReg) <= Registers /\ Members(Renamed, OpenBranch) <= Checkpoints
        /\ Registers \in Nat /\ Checkpoints \in Nat
    BY Sizes DEF RoomInv
  <2>2. QED
    BY <1>2, <1>6, <2>1, Zenon
<1>8. ASSUME NEW S, NEW max \in Nat,
             Members(window, S) <= max, Members(window', S) <= Members(window, S)
      PROVE  Members(window', S) <= max
  <2>1. Sums(S)
    BY <1>5, Zenon
  <2>2. QED
    BY <1>8, <2>1
<1>9. /\ Members(window', Waiting) <= IQSize
      /\ Members(window', TakesLoad) <= LQSize
      /\ Members(window', TakesStore) <= SQSize
  <2>1. /\ Members(window, Waiting) <= IQSize /\ Members(window, TakesLoad) <= LQSize
        /\ Members(window, TakesStore) <= SQSize
        /\ IQSize \in Nat /\ LQSize \in Nat /\ SQSize \in Nat
    BY Sizes DEF RoomInv
  <2>2. QED
    BY <1>2, <1>3, <1>8, <2>1, Zenon
<1>10. Len(window') <= ALSize
  BY <1>1, <1>4, Sizes DEF RoomInv
<1>11. QED
  BY <1>7, <1>9, <1>10 DEF RoomInv

----------------------------------------------------------------------------
(* One step per action.                                                     *)
LEMMA FlagsType == \A i \in Instructions, left \in SUBSET AllFlags : Flags(i, left) \in SUBSET AllFlags
<1>1. TAKE i \in Instructions, left \in SUBSET AllFlags
<1>2. i.op \in DOMAIN FunctionCodes
  BY DEF Instructions
<1>3. i.op \in {"OP_JAL", "OP_JALR", "OP_BRANCH", "OP_LOAD", "OP_STORE", "OP_LOAD_FP", "OP_STORE_FP",
               "OP_SYSTEM", "OP_MISC_MEM", "OP_AMO", "unknown"} \cup Integer \cup ArithFP
  BY <1>2 DEF FunctionCodes, Integer, ArithFP, FusedFP
<1>4. QED
  BY <1>3 DEF Flags, AllFlags, Integer, ArithFP, FusedFP

LEMMA FetchStep ==
  ASSUME FrontEndInv, Fetch
  PROVE  FrontEndInv'
<1>1. PICK bundle \in BoundedSeq(Kinds, FetchWidth) \ {<<>>} :
        /\ DECODE' = [n \in DOMAIN bundle |->
                        [id |-> (next + n - 1) % Ids, inst |-> bundle[n].inst,
                         fault |-> bundle[n].fault]]
        /\ next' = (next + Len(bundle)) % Ids
  BY DEF Fetch
<1>2. PICK m \in 0 .. FetchWidth : bundle \in [1 .. m -> Kinds]
  BY <1>1 DEF BoundedSeq, SeqOf
<1>3. m \in Nat /\ Len(bundle) = m /\ next \in Nat /\ Ids \in Nat \ {0}
  BY <1>2, Sizes DEF FrontEndInv, LatchesInv
<1>4. next' \in 0 .. Ids - 1
  <2>1. next + Len(bundle) \in Nat
    BY <1>3
  <2>2. QED
    BY <1>1, <1>3, <2>1, InRange, Zenon
<1>5. DECODE' \in Seq(Coming)
  <2>1. ASSUME NEW n \in 1 .. m
        PROVE  [id |-> (next + n - 1) % Ids, inst |-> bundle[n].inst,
                fault |-> bundle[n].fault] \in Coming
    <3>1. next + n - 1 \in Nat
      BY <1>3
    <3>2. (next + n - 1) % Ids \in 0 .. Ids - 1
      BY <1>3, <3>1, InRange, Zenon
    <3>3. bundle[n] \in Fetched
      BY <1>2, FrontEndAssumption
    <3>4. QED
      BY <3>2, <3>3 DEF Fetched, Coming
  <2>2. DECODE' \in [1 .. m -> Coming]
    BY <1>1, <1>2, <2>1, Zenon
  <2>3. QED
    BY <1>3, <2>2
<1>6. UNCHANGED <<fqVars, RENAME2, DISPATCH, window>>
  BY DEF Fetch
<1>7. QED
  BY <1>4, <1>5, <1>6 DEF FrontEndInv, RingInv, LatchesInv, RoomInv, Renamed, fqVars

LEMMA DecodedType ==
  ASSUME NEW s \in Seq(Coming), NEW left \in [DOMAIN s -> SUBSET AllFlags]
  PROVE  LET b == [n \in DOMAIN s |-> DecodedFrom(s[n], left[n])] IN
         b \in Seq(Decoded) /\ Len(b) = Len(s)
<1> DEFINE b == [n \in DOMAIN s |-> DecodedFrom(s[n], left[n])]
<1>1. Len(s) \in Nat /\ DOMAIN s = 1 .. Len(s)
  OBVIOUS
<1>2. ASSUME NEW n \in 1 .. Len(s)
      PROVE  DecodedFrom(s[n], left[n]) \in Decoded
  <2>1. s[n] \in Coming /\ left[n] \in SUBSET AllFlags
    BY <1>1, ElementOfSeq
  <2>2. s[n].inst \in Instructions /\ Flags(s[n].inst, left[n]) \in SUBSET AllFlags
    BY <2>1, FlagsType DEF Coming
  <2>3. ToIQ(s[n].inst) \in BOOLEAN /\ Traps(s[n].inst) \in BOOLEAN
    BY DEF ToIQ, Traps
  <2>4. QED
    BY <2>1, <2>2, <2>3 DEF DecodedFrom, Decoded, Coming
<1>3. b \in [1 .. Len(s) -> Decoded]
  BY <1>1, <1>2, Zenon
<1>4. QED
  BY <1>1, <1>3

LEMMA DecodeStep ==
  ASSUME FrontEndInv, DecodeStage
  PROVE  FrontEndInv'
<1>1. PICK left \in [DOMAIN DECODE -> SUBSET AllFlags] :
        Push([n \in DOMAIN DECODE |-> DecodedFrom(DECODE[n], left[n])])
  <2> DEFINE L == IF \E n \in DOMAIN DECODE : DECODE[n].inst.op = "unknown"
                  THEN LeftFlags ELSE {{}}
  <2>1. {} \in SUBSET AllFlags /\ LeftFlags \in SUBSET (SUBSET AllFlags)
    BY FlagsType DEF LeftFlags
  <2>2. \A x \in L : x \in SUBSET AllFlags
    BY <2>1
  <2>3. PICK left \in [DOMAIN DECODE -> L] :
          Push([n \in DOMAIN DECODE |-> DecodedFrom(DECODE[n], left[n])])
    BY Zenon DEF DecodeStage
  <2> HIDE DEF L
  <2>4. left \in [DOMAIN DECODE -> SUBSET AllFlags]
    BY <2>2
  <2>5. QED
    BY <2>3, <2>4
<1> DEFINE b == [n \in DOMAIN DECODE |-> DecodedFrom(DECODE[n], left[n])]
<1>2. b \in Seq(Decoded) /\ Len(b) = Len(DECODE)
  BY DecodedType DEF FrontEndInv, LatchesInv
<1>3. EnoughSpace(Len(b))
  <2>1. EnoughSpace(2 * Len(b)) /\ Len(b) \in Nat /\ fqLength \in Nat
    <3>1. EnoughSpace(2 * Len(DECODE)) /\ Len(DECODE) \in Nat
      BY DEF DecodeStage, RoomToDecode, FrontEndInv, LatchesInv
    <3>2. fqLength \in Nat
      BY Sizes DEF FrontEndInv, RingInv
    <3>3. QED
      BY <1>2, <3>1, <3>2
  <2>2. QED
    BY <2>1, Sizes DEF EnoughSpace
<1>4. RingInv'
  BY <1>1, <1>2, <1>3, PushRing, Zenon DEF FrontEndInv
<1>5. DECODE' \in Seq(Coming) /\ UNCHANGED <<RENAME2, DISPATCH, window, next>>
  BY DEF DecodeStage
<1>6. QED
  BY <1>4, <1>5 DEF FrontEndInv, LatchesInv, RoomInv, Renamed

LEMMA MinOfTwo ==
  ASSUME NEW a \in Nat, NEW b \in Nat
  PROVE  Min({a, b}) \in 0 .. a
<1> DEFINE n == Min({a, b})
<1>1. \E x \in {a, b} : \A y \in {a, b} : x <= y
  OBVIOUS
<1>2. n \in {a, b} /\ \A y \in {a, b} : n <= y
  BY <1>1, Zenon DEF Min
<1>3. QED
  BY <1>2

LEMMA Rename1Step ==
  ASSUME FrontEndInv, Rename1
  PROVE  FrontEndInv'
<1> DEFINE n == Min({fqLength, DispatchWidth})
<1>1. fqLength \in Nat /\ Queued \in Seq(Decoded) /\ Len(Queued) = fqLength
  BY QueuedType, Sizes DEF FrontEndInv, RingInv
<1>2. n \in 0 .. fqLength
  BY <1>1, MinOfTwo, Sizes
<1>3. /\ RENAME2' = SubSeq(Queued, 1, n) /\ Pop(n)
      /\ UNCHANGED <<DECODE, DISPATCH, window, next>>
  BY DEF Rename1
<1>4. RingInv'
  BY <1>2, <1>3, PopRing, Zenon DEF FrontEndInv
<1>5. RENAME2' \in Seq(Decoded)
  <2> HIDE DEF n
  <2>1. QED
    BY <1>1, <1>2, <1>3
<1>6. QED
  BY <1>3, <1>4, <1>5 DEF FrontEndInv, LatchesInv, RoomInv, Renamed

(* Rename2 asked for the registers and checkpoints of its bundle.           *)
LEMMA Rename2Step ==
  ASSUME FrontEndInv, Rename2
  PROVE  FrontEndInv'
<1> DEFINE E == Entries \cup Decoded
<1>1. /\ DISPATCH = <<>> /\ DISPATCH' = RENAME2 /\ RENAME2' = <<>>
      /\ UNCHANGED <<DECODE, fqVars, window, next>> /\ ~ RenameStalls
  BY DEF Rename2
<1>2. window \in Seq(E) /\ RENAME2 \in Seq(E) /\ DISPATCH \in Seq(E)
  BY RenamedType, Zenon DEF FrontEndInv
<1>3. ASSUME NEW S
      PROVE  /\ Members(Renamed', S) = Members(window, S) + Members(RENAME2, S)
             /\ Members(Renamed, S) = Members(window, S) + 0
             /\ Members(window, S) \in Nat /\ Members(RENAME2, S) \in Nat
  <2>1. Renamed' = window \o RENAME2 /\ Renamed = window \o <<>>
    BY <1>1 DEF Renamed
  <2>2. /\ Members(window \o RENAME2, S) = Members(window, S) + Members(RENAME2, S)
        /\ Members(window \o <<>>, S) = Members(window, S) + Members(<<>>, S)
        /\ Members(window, S) \in Nat /\ Members(RENAME2, S) \in Nat
    <3>1. <<>> \in Seq(E)
      OBVIOUS
    <3>2. QED
      BY <1>2, <3>1, MembersConcat, PlacesFinite, Zenon
  <2>3. QED
    BY <2>1, <2>2, EmptyTakesNothing
<1>4. Members(Renamed', TakesReg) <= Registers
  <2>1. Members(Renamed, TakesReg) + Members(RENAME2, TakesReg) <= Registers
    <3>1. ~ (Registers - RegsInUse < Count(RENAME2, NeedsReg))
      BY <1>1, Zenon DEF RenameStalls, StallReg
    <3>2. RegsInUse = Members(Renamed, TakesReg)
      BY RenamedType, Counts, Zenon DEF FrontEndInv, RegsInUse
    <3>3. Count(RENAME2, NeedsReg) = Members(RENAME2, TakesReg)
      BY <1>2, Counts, Zenon
    <3>4. Members(Renamed, TakesReg) \in Nat /\ Members(RENAME2, TakesReg) \in Nat
      BY <1>3
    <3>5. QED
      BY <3>1, <3>2, <3>3, <3>4, Sizes
  <2>2. QED
    BY <1>3, <2>1
<1>5. Members(Renamed', OpenBranch) <= Checkpoints
  <2>1. Members(Renamed, OpenBranch) + Members(RENAME2, TakesBranch) <= Checkpoints
    <3>1. ~ (Checkpoints - BranchesOpen < Count(RENAME2, NeedsBranch))
      BY <1>1, Zenon DEF RenameStalls, StallBranch
    <3>2. BranchesOpen = Members(Renamed, OpenBranch)
      BY RenamedType, Counts, Zenon DEF FrontEndInv, BranchesOpen
    <3>3. Count(RENAME2, NeedsBranch) = Members(RENAME2, TakesBranch)
      BY <1>2, Counts, Zenon
    <3>4. Members(Renamed, OpenBranch) \in Nat /\ Members(RENAME2, TakesBranch) \in Nat
      BY <1>3
    <3>5. QED
      BY <3>1, <3>2, <3>3, <3>4, Sizes
  <2>2. Members(RENAME2, OpenBranch) <= Members(RENAME2, TakesBranch)
    <3>1. \A k \in Places(RENAME2, OpenBranch) : k \in Places(RENAME2, TakesBranch)
      BY DEF Places, OpenBranch, TakesBranch
    <3>2. QED
      BY <1>2, <3>1, MembersWithin, Zenon
  <2>3. /\ Members(Renamed, OpenBranch) \in Nat
        /\ Members(RENAME2, OpenBranch) \in Nat /\ Members(RENAME2, TakesBranch) \in Nat
        /\ Members(Renamed', OpenBranch) = Members(Renamed, OpenBranch) + Members(RENAME2, OpenBranch)
    BY <1>3
  <2>4. QED
    BY <2>1, <2>2, <2>3, Sizes
<1>6. RoomInv'
  BY <1>1, <1>4, <1>5 DEF FrontEndInv, RoomInv
<1>7. LatchesInv'
  BY <1>1 DEF FrontEndInv, LatchesInv
<1>8. RingInv'
  BY <1>1 DEF FrontEndInv, RingInv, fqVars
<1>9. QED
  BY <1>6, <1>7, <1>8 DEF FrontEndInv

LEMMA EnteredType ==
  ASSUME NEW s \in Seq(Decoded), NEW enabled \in BOOLEAN
  PROVE  LET w == [n \in DOMAIN s |-> Entered(s[n], enabled)] IN
         w \in Seq(Entries) /\ Len(w) = Len(s)
<1> DEFINE w == [n \in DOMAIN s |-> Entered(s[n], enabled)]
<1>1. Len(s) \in Nat /\ DOMAIN s = 1 .. Len(s)
  OBVIOUS
<1>2. ASSUME NEW n \in 1 .. Len(s)
      PROVE  Entered(s[n], enabled) \in Entries
  <2>1. s[n] \in Decoded
    BY ElementOfSeq
  <2>2. QED
    BY <2>1 DEF Entered, Decoded, Entries
<1>3. w \in [1 .. Len(s) -> Entries]
  BY <1>1, <1>2, Zenon
<1>4. QED
  BY <1>1, <1>3

(* Dispatch asked for the places of its bundle; registers and checkpoints   *)
(* are taken already.                                                       *)
LEMMA DispatchStep ==
  ASSUME FrontEndInv, Dispatch
  PROVE  FrontEndInv'
<1> DEFINE E == Entries \cup Decoded
<1>1. PICK enabled \in BOOLEAN :
        window' = window \o [n \in DOMAIN DISPATCH |-> Entered(DISPATCH[n], enabled)]
  BY DEF Dispatch
<1> DEFINE w == [n \in DOMAIN DISPATCH |-> Entered(DISPATCH[n], enabled)]
<1>2. /\ DISPATCH' = <<>> /\ UNCHANGED <<DECODE, fqVars, RENAME2, next>> /\ ~ DispatchStalls
  BY DEF Dispatch
<1>3. /\ window \in Seq(E) /\ DISPATCH \in Seq(E) /\ window \in Seq(Entries)
      /\ DISPATCH \in Seq(Decoded)
  BY RenamedType, Zenon DEF FrontEndInv, LatchesInv
<1>4. Len(DISPATCH) \in Nat /\ DOMAIN DISPATCH = 1 .. Len(DISPATCH) /\ Len(window) \in Nat
  BY <1>3
<1>5. w \in Seq(Entries) /\ Len(w) = Len(DISPATCH)
  BY <1>3, EnteredType
<1>6. \A n \in 1 .. Len(w) : w[n] = Entered(DISPATCH[n], enabled)
  BY <1>4, <1>5
<1> HIDE DEF w
<1>7. w \in Seq(E)
  BY <1>5, SeqMonotonic
<1>8. Follows(w, DISPATCH, 0)
  <2>1. ASSUME NEW k \in 1 .. Len(w)
        PROVE  /\ k + 0 = k /\ k \in 1 .. Len(DISPATCH)
               /\ w[k].inst = DISPATCH[k].inst /\ w[k].flags = DISPATCH[k].flags
               /\ w[k].resolved = DISPATCH[k].resolved
    <3>1. w[k] = Entered(DISPATCH[k], enabled)
      BY <1>6
    <3>2. QED
      BY <1>4, <1>5, <3>1 DEF Entered
  <2>2. QED
    BY <2>1, Zenon DEF Follows
<1>9. /\ Members(w, TakesReg) <= Members(DISPATCH, TakesReg)
      /\ Members(w, OpenBranch) <= Members(DISPATCH, OpenBranch)
      /\ Members(w, TakesLoad) <= Members(DISPATCH, TakesLoad)
      /\ Members(w, TakesStore) <= Members(DISPATCH, TakesStore)
  BY <1>3, <1>7, <1>8, FollowsTakesLess
<1>10. Members(w, Waiting) <= Members(DISPATCH, TakesIQ)
  <2>1. \A k \in Places(w, Waiting) : k \in Places(DISPATCH, TakesIQ)
    <3>1. ASSUME NEW k \in Places(w, Waiting)
          PROVE  k \in 1 .. Len(DISPATCH) /\ DISPATCH[k] \in TakesIQ
      <4>1. k \in 1 .. Len(DISPATCH) /\ k \in 1 .. Len(w) /\ w[k].at = "iq"
        BY <1>5 DEF Places, Waiting
      <4>2. DISPATCH[k] \in Decoded /\ w[k] = Entered(DISPATCH[k], enabled)
        BY <1>3, <1>6, <4>1, ElementOfSeq
      <4>3. DISPATCH[k].iq
        BY <4>1, <4>2 DEF Entered
      <4>4. QED
        BY <4>1, <4>2, <4>3 DEF TakesIQ, NeedsIQ
    <3>2. QED
      BY <3>1, Zenon DEF Places
  <2>2. QED
    BY <1>3, <1>7, <2>1, MembersWithin, Zenon
<1>11. ASSUME NEW S
       PROVE  /\ Members(window', S) = Members(window, S) + Members(w, S)
              /\ Members(Renamed, S) = Members(window, S) + Members(DISPATCH, S)
              /\ Members(Renamed', S) = Members(window, S) + Members(w, S)
              /\ Members(window, S) \in Nat /\ Members(w, S) \in Nat
              /\ Members(DISPATCH, S) \in Nat
  <2>1. Renamed' = (window \o w) \o <<>> /\ Renamed = window \o DISPATCH /\ window' = window \o w
    BY <1>1, <1>2 DEF Renamed, w
  <2>2. <<>> \in Seq(E) /\ window \o w \in Seq(E)
    BY <1>3, <1>7, ConcatProperties
  <2>3. /\ Members(window \o w, S) = Members(window, S) + Members(w, S)
        /\ Members(window \o DISPATCH, S) = Members(window, S) + Members(DISPATCH, S)
        /\ Members((window \o w) \o <<>>, S) = Members(window \o w, S) + Members(<<>>, S)
        /\ Members(window, S) \in Nat /\ Members(w, S) \in Nat /\ Members(DISPATCH, S) \in Nat
    BY <1>3, <1>7, <2>2, MembersConcat, PlacesFinite, Zenon
  <2>4. QED
    BY <2>1, <2>3, EmptyTakesNothing
<1>12. ASSUME NEW S, NEW max \in Nat,
              Members(Renamed, S) <= max, Members(w, S) <= Members(DISPATCH, S)
       PROVE  Members(Renamed', S) <= max
  BY <1>11, <1>12
<1>13. ASSUME NEW S, NEW n \in Nat, NEW max \in Nat,
              Members(window, S) + n <= max, Members(w, S) <= n
       PROVE  Members(window', S) <= max
  BY <1>11, <1>13
<1>14. Members(Renamed', TakesReg) <= Registers /\ Members(Renamed', OpenBranch) <= Checkpoints
  <2>1. /\ Members(Renamed, TakesReg) <= Registers /\ Registers \in Nat
        /\ Members(Renamed, OpenBranch) <= Checkpoints /\ Checkpoints \in Nat
    BY Sizes DEF FrontEndInv, RoomInv
  <2>2. QED
    BY <1>9, <1>12, <2>1, Zenon
<1>15. Members(window', Waiting) <= IQSize
  <2>1. ~ (InIQ + Count(DISPATCH, NeedsIQ) > IQSize)
    BY <1>2, Zenon DEF DispatchStalls, StallIQ
  <2>2. InIQ = Members(window, Waiting) /\ Count(DISPATCH, NeedsIQ) = Members(DISPATCH, TakesIQ)
    BY <1>3, WaitingCount, Counts, Zenon DEF InIQ
  <2>3. Members(window, Waiting) \in Nat /\ Members(DISPATCH, TakesIQ) \in Nat
    BY <1>11
  <2>4. Members(window, Waiting) + Members(DISPATCH, TakesIQ) <= IQSize /\ IQSize \in Nat
    BY <2>1, <2>2, <2>3, Sizes
  <2>5. QED
    BY <1>10, <1>13, <2>3, <2>4, Zenon
<1>16. Members(window', TakesLoad) <= LQSize /\ Members(window', TakesStore) <= SQSize
  <2>1. /\ ~ (LQLength + Count(DISPATCH, NeedsLoad) > LQSize)
        /\ ~ (SQLength + Count(DISPATCH, NeedsStore) > SQSize)
    BY <1>2, Zenon DEF DispatchStalls, StallLSU
  <2>2. /\ LQLength = Members(window, TakesLoad) /\ SQLength = Members(window, TakesStore)
        /\ Count(DISPATCH, NeedsLoad) = Members(DISPATCH, TakesLoad)
        /\ Count(DISPATCH, NeedsStore) = Members(DISPATCH, TakesStore)
    BY <1>3, Counts, Zenon DEF LQLength, SQLength
  <2>3. /\ Members(window, TakesLoad) \in Nat /\ Members(DISPATCH, TakesLoad) \in Nat
        /\ Members(window, TakesStore) \in Nat /\ Members(DISPATCH, TakesStore) \in Nat
    BY <1>11
  <2>4. /\ Members(window, TakesLoad) + Members(DISPATCH, TakesLoad) <= LQSize
        /\ Members(window, TakesStore) + Members(DISPATCH, TakesStore) <= SQSize
        /\ LQSize \in Nat /\ SQSize \in Nat
    BY <2>1, <2>2, <2>3, Sizes
  <2>5. QED
    BY <1>9, <1>13, <2>3, <2>4, Zenon
<1>17. window' \in Seq(Entries) /\ Len(window') = Len(window) + Len(DISPATCH)
  <2>1. window' = window \o w
    BY <1>1 DEF w
  <2>2. window \o w \in Seq(Entries) /\ Len(window \o w) = Len(window) + Len(w)
    BY <1>3, <1>5, ConcatProperties, Zenon
  <2>3. QED
    BY <1>5, <2>1, <2>2
<1>18. Len(window') <= ALSize
  <2>1. ~ (ALSize - Len(window) < Len(DISPATCH))
    BY <1>2, Zenon DEF DispatchStalls, StallDispatch
  <2>2. QED
    BY <1>4, <1>17, <2>1, Sizes
<1>19. RoomInv'
  BY <1>14, <1>15, <1>16, <1>18 DEF RoomInv
<1>20. QED
  BY <1>2, <1>17, <1>19 DEF FrontEndInv, LatchesInv, RingInv, fqVars

(* The back end: what an instruction of the window becomes.                 *)
LEMMA IssueStep ==
  ASSUME FrontEndInv, NEW k \in DOMAIN window, Issue(k)
  PROVE  FrontEndInv'
<1>1. /\ window' = [window EXCEPT ![k].at = "ex"]
      /\ UNCHANGED <<DECODE, fqVars, RENAME2, DISPATCH, next>>
  BY DEF Issue
<1>2. window \in Seq(Entries) /\ k \in 1 .. Len(window)
  BY DEF FrontEndInv, LatchesInv
<1>3. window[k] \in Entries
  BY <1>2, ElementOfSeq
<1>4. [window[k] EXCEPT !.at = "ex"] \in Entries
  BY <1>3 DEF Entries
<1>5. window' \in Seq(Entries) /\ Len(window') = Len(window)
  BY <1>1, <1>2, <1>4
<1>6. ASSUME NEW j \in 1 .. Len(window')
      PROVE  /\ j + 0 \in 1 .. Len(window)
             /\ window'[j].inst = window[j + 0].inst /\ window'[j].flags = window[j + 0].flags
             /\ window'[j].resolved = window[j + 0].resolved
             /\ window'[j].at = "iq" => window[j + 0].at = "iq"
  <2>1. j \in 1 .. Len(window) /\ j + 0 = j /\ window[j] \in Entries
    BY <1>2, <1>5, ElementOfSeq
  <2>2. window'[j] = IF j = k THEN [window[k] EXCEPT !.at = "ex"] ELSE window[j]
    BY <1>1, <1>2, <2>1
  <2>3. QED
    BY <1>3, <2>1, <2>2 DEF Entries
<1>7. Follows(window', window, 0) /\ Waits(window', window, 0)
  BY <1>6, Zenon DEF Follows, Waits
<1>8. RoomInv'
  BY <1>1, <1>5, <1>7, BackendRoom DEF FrontEndInv
<1>9. QED
  BY <1>1, <1>5, <1>8 DEF FrontEndInv, LatchesInv, RingInv, fqVars

LEMMA CompleteStep ==
  ASSUME FrontEndInv, NEW k \in DOMAIN window, Complete(k)
  PROVE  FrontEndInv'
<1>1. PICK trap \in {window[k].trap, TRUE} :
        window' = [window EXCEPT ![k] = [@ EXCEPT !.at = "done", !.resolved = TRUE, !.trap = trap]]
  BY DEF Complete
<1>2. UNCHANGED <<DECODE, fqVars, RENAME2, DISPATCH, next>>
  BY DEF Complete
<1>3. window \in Seq(Entries) /\ k \in 1 .. Len(window)
  BY DEF FrontEndInv, LatchesInv
<1> DEFINE e == [window[k] EXCEPT !.at = "done", !.resolved = TRUE, !.trap = trap]
<1>4. window[k] \in Entries
  BY <1>3, ElementOfSeq
<1>5. /\ e \in Entries /\ e.inst = window[k].inst /\ e.flags = window[k].flags
      /\ e.resolved = TRUE /\ e.at = "done"
  BY <1>4 DEF Entries
<1> HIDE DEF e
<1>6. window' = [window EXCEPT ![k] = e]
  BY <1>1 DEF e
<1>7. window' \in Seq(Entries) /\ Len(window') = Len(window)
  BY <1>3, <1>5, <1>6
<1>8. ASSUME NEW j \in 1 .. Len(window')
      PROVE  /\ j + 0 \in 1 .. Len(window)
             /\ window'[j].inst = window[j + 0].inst /\ window'[j].flags = window[j + 0].flags
             /\ window[j + 0].resolved => window'[j].resolved
             /\ window'[j].at = "iq" => window[j + 0].at = "iq"
  <2>1. j \in 1 .. Len(window) /\ j + 0 = j
    BY <1>7
  <2>2. window'[j] = IF j = k THEN e ELSE window[j]
    BY <1>3, <1>6, <2>1
  <2>3. QED
    BY <1>5, <2>1, <2>2
<1>9. Follows(window', window, 0) /\ Waits(window', window, 0)
  BY <1>8, Zenon DEF Follows, Waits
<1>10. RoomInv'
  BY <1>2, <1>7, <1>9, BackendRoom DEF FrontEndInv
<1>11. QED
  BY <1>2, <1>7, <1>10 DEF FrontEndInv, LatchesInv, RingInv, fqVars

LEMMA MispredictStep ==
  ASSUME FrontEndInv, NEW k \in DOMAIN window, Mispredict(k)
  PROVE  FrontEndInv'
<1> DEFINE e == [window[k] EXCEPT !.at = "done", !.resolved = TRUE]
           kept == SubSeq(window, 1, k)
<1>1. /\ window' = [kept EXCEPT ![k] = [@ EXCEPT !.at = "done", !.resolved = TRUE]]
      /\ next' = (window[k].id + 1) % Ids
      /\ DECODE' = <<>> /\ FlushQueue /\ RENAME2' = <<>> /\ DISPATCH' = <<>>
  BY DEF Mispredict, EmptyLatches
<1>2. window \in Seq(Entries) /\ k \in 1 .. Len(window)
  BY DEF FrontEndInv, LatchesInv
<1>3. window[k] \in Entries
  BY <1>2, ElementOfSeq
<1>4. /\ kept \in Seq(Entries) /\ Len(kept) = k /\ k <= Len(window)
      /\ \A j \in 1 .. k : kept[j] = window[j]
  BY <1>2
<1>5. /\ e \in Entries /\ e.inst = window[k].inst /\ e.flags = window[k].flags
      /\ e.resolved = TRUE /\ e.at = "done"
  BY <1>3 DEF Entries
<1> HIDE DEF e
<1>6. window' = [kept EXCEPT ![k] = e]
  <2>1. kept[k] = window[k]
    BY <1>2, <1>4
  <2>2. QED
    BY <1>1, <2>1 DEF e
<1> HIDE DEF kept
<1>7. window' \in Seq(Entries) /\ Len(window') = k
  BY <1>2, <1>4, <1>5, <1>6
<1>8. ASSUME NEW j \in 1 .. Len(window')
      PROVE  /\ j + 0 \in 1 .. Len(window)
             /\ window'[j].inst = window[j + 0].inst /\ window'[j].flags = window[j + 0].flags
             /\ window[j + 0].resolved => window'[j].resolved
             /\ window'[j].at = "iq" => window[j + 0].at = "iq"
  <2>1. j \in 1 .. k /\ j \in 1 .. Len(window) /\ j + 0 = j
    BY <1>2, <1>7
  <2>2. window'[j] = IF j = k THEN e ELSE window[j]
    BY <1>4, <1>6, <2>1
  <2>3. QED
    BY <1>5, <2>1, <2>2
<1>9. Follows(window', window, 0) /\ Waits(window', window, 0)
  BY <1>8, Zenon DEF Follows, Waits
<1>10. RoomInv'
  BY <1>1, <1>7, <1>9, BackendRoom DEF FrontEndInv
<1>11. RingInv'
  BY <1>1, FlushRing DEF FrontEndInv
<1>12. next' \in 0 .. Ids - 1
  <2>1. window[k].id + 1 \in Nat
    BY <1>3, Sizes DEF Entries
  <2>2. QED
    BY <1>1, <2>1, Sizes, InRange, Zenon
<1>13. LatchesInv'
  BY <1>1, <1>7, <1>12 DEF LatchesInv
<1>14. QED
  BY <1>10, <1>11, <1>13 DEF FrontEndInv

LEMMA CommitStep ==
  ASSUME FrontEndInv, Commit
  PROVE  FrontEndInv'
<1>1. /\ window # <<>> /\ window' = Tail(window)
      /\ UNCHANGED <<DECODE, fqVars, RENAME2, DISPATCH, next>>
  BY DEF Commit
<1>2. window \in Seq(Entries)
  BY DEF FrontEndInv, LatchesInv
<1>3. /\ window' \in Seq(Entries) /\ Len(window') = Len(window) - 1 /\ Len(window) \in Nat
      /\ \A j \in 1 .. Len(window') : window'[j] = window[j + 1] /\ j + 1 \in 1 .. Len(window)
  BY <1>1, <1>2
<1>4. Follows(window', window, 1) /\ Waits(window', window, 1)
  BY <1>3, Zenon DEF Follows, Waits
<1>5. RoomInv'
  <2>1. 1 \in Nat
    OBVIOUS
  <2>2. DISPATCH' = DISPATCH
    BY <1>1
  <2>3. QED
    BY <1>3, <1>4, <2>1, <2>2, BackendRoom, Zenon DEF FrontEndInv
<1>6. QED
  BY <1>1, <1>3, <1>5 DEF FrontEndInv, LatchesInv, RingInv, fqVars

LEMMA SquashStep ==
  ASSUME FrontEndInv, SquashComplete
  PROVE  FrontEndInv'
<1>1. /\ window # <<>> /\ window' = <<>> /\ next' = Head(window).id
      /\ DECODE' = <<>> /\ FlushQueue /\ RENAME2' = <<>> /\ DISPATCH' = <<>>
  BY DEF SquashComplete, EmptyLatches
<1>2. Follows(window', window, 0) /\ Waits(window', window, 0)
  BY <1>1 DEF Follows, Waits
<1>3. window' \in Seq(Entries)
  BY <1>1
<1>4. RoomInv'
  BY <1>1, <1>2, <1>3, BackendRoom DEF FrontEndInv
<1>5. RingInv'
  BY <1>1, FlushRing DEF FrontEndInv
<1>6. next' \in 0 .. Ids - 1
  <2>1. window \in Seq(Entries)
    BY DEF FrontEndInv, LatchesInv
  <2>2. Head(window) \in Entries
    BY <1>1, <2>1
  <2>3. QED
    BY <1>1, <2>2 DEF Entries
<1>7. LatchesInv'
  BY <1>1, <1>3, <1>6 DEF LatchesInv
<1>8. QED
  BY <1>4, <1>5, <1>7 DEF FrontEndInv

LEMMA InitInv == Init => FrontEndInv
<1> SUFFICES ASSUME Init PROVE FrontEndInv
  OBVIOUS
<1>1. RingInv
  <2>1. 0 \in 0 .. FQSize - 1 /\ 0 \in 0 .. FQSize /\ 0 + 0 = 0
    BY Size
  <2>2. 0 % FQSize = 0
    BY <2>1, TurnOfSum, Size DEF Turn
  <2>3. QED
    BY <2>1, <2>2, Size DEF Init, RingInv
<1>2. LatchesInv
  BY Sizes DEF Init, LatchesInv
<1>3. RoomInv
  <2>1. Renamed = <<>> /\ window = <<>> /\ Len(window) = 0
    BY DEF Init, Renamed
  <2>2. QED
    BY <2>1, EmptyTakesNothing, Sizes DEF RoomInv
<1>4. QED
  BY <1>1, <1>2, <1>3 DEF FrontEndInv

LEMMA InvStep ==
  ASSUME FrontEndInv, [Next]_vars
  PROVE  FrontEndInv'
<1>1. CASE Fetch
  BY <1>1, FetchStep
<1>2. CASE DecodeStage
  BY <1>2, DecodeStep
<1>3. CASE Rename1
  BY <1>3, Rename1Step
<1>4. CASE Rename2
  BY <1>4, Rename2Step
<1>5. CASE Dispatch
  BY <1>5, DispatchStep
<1>6. CASE \E k \in DOMAIN window : Issue(k) \/ Complete(k) \/ Mispredict(k)
  BY <1>6, IssueStep, CompleteStep, MispredictStep
<1>7. CASE Retire
  BY <1>7, CommitStep, SquashStep DEF Retire
<1>8. CASE UNCHANGED vars
  BY <1>8 DEF vars, FrontEndInv, RingInv, LatchesInv, RoomInv, Renamed, fqVars
<1>9. QED
  BY <1>1, <1>2, <1>3, <1>4, <1>5, <1>6, <1>7, <1>8 DEF Next, Backend

----------------------------------------------------------------------------
(* The stages never take more than there is, whatever the sizes: what a     *)
(* stage asked for once per bundle is still there when it takes it.         *)
THEOREM NeverOverrun == Spec => []NoOverrun
<1>1. Init => FrontEndInv
  BY InitInv
<1>2. FrontEndInv /\ [Next]_vars => FrontEndInv'
  BY InvStep
<1>3. FrontEndInv => NoOverrun
  BY InvIsRoom
<1>4. QED
  BY <1>1, <1>2, <1>3, PTL DEF Spec

----------------------------------------------------------------------------
(* The order of the instructions.                                           *)

(* The instructions of s are consecutive, and x comes after them.           *)
Path(s, x) ==
  \A n \in 1 .. Len(s) : (IF n = Len(s) THEN x ELSE s[n + 1].id) = (s[n].id + 1) % Ids

First(s, x) == IF s = <<>> THEN x ELSE s[1].id

FromDECODE   == First(DECODE, next)
FromQueue    == First(Queued, FromDECODE)
FromRENAME2  == First(RENAME2, FromQueue)
FromDISPATCH == First(DISPATCH, FromRENAME2)

OrderInv ==
  /\ Path(window, FromDISPATCH)
  /\ Path(DISPATCH, FromRENAME2)
  /\ Path(RENAME2, FromQueue)
  /\ Path(Queued, FromDECODE)
  /\ Path(DECODE, next)

LEMMA EmptyPath == \A x : Path(<<>>, x) /\ First(<<>>, x) = x
BY DEF Path, First

LEMMA FirstConcat ==
  ASSUME NEW E, NEW s \in Seq(E), NEW t \in Seq(E), NEW x
  PROVE  First(s \o t, x) = First(s, First(t, x))
<1>1. CASE s = <<>>
  BY <1>1 DEF First
<1>2. CASE s # <<>>
  <2>1. s \o t # <<>> /\ (s \o t)[1] = s[1]
    BY <1>2
  <2>2. QED
    BY <1>2, <2>1 DEF First
<1>3. QED
  BY <1>1, <1>2

LEMMA PathConcat ==
  ASSUME NEW E, NEW s \in Seq(E), NEW t \in Seq(E), NEW x
  PROVE  Path(s \o t, x) <=> Path(s, First(t, x)) /\ Path(t, x)
<1> DEFINE st == s \o t
<1>1. /\ Len(s) \in Nat /\ Len(t) \in Nat /\ Len(st) = Len(s) + Len(t)
      /\ \A n \in 1 .. Len(s) : st[n] = s[n]
      /\ \A n \in 1 .. Len(t) : st[Len(s) + n] = t[n]
  OBVIOUS
<1>2. ASSUME t = <<>>
      PROVE  Path(st, x) <=> Path(s, First(t, x)) /\ Path(t, x)
  BY <1>2, EmptyPath
<1>3. ASSUME t # <<>>, Path(st, x)
      PROVE  Path(s, First(t, x)) /\ Path(t, x)
  <2> HIDE DEF st
  <2>1. First(t, x) = t[1].id /\ Len(t) >= 1
    BY <1>1, <1>3 DEF First
  <2>2. ASSUME NEW n \in 1 .. Len(s)
        PROVE  (IF n = Len(s) THEN t[1].id ELSE s[n + 1].id) = (s[n].id + 1) % Ids
    <3>1. n \in 1 .. Len(st) /\ n # Len(st) /\ st[n] = s[n]
      BY <1>1, <2>1
    <3>2. st[n + 1].id = (s[n].id + 1) % Ids
      BY <1>3, <3>1 DEF Path
    <3>3. st[n + 1] = IF n = Len(s) THEN t[1] ELSE s[n + 1]
      <4>1. CASE n = Len(s)
        <5>1. 1 \in 1 .. Len(t)
          BY <1>1, <2>1
        <5>2. QED
          BY <1>1, <4>1, <5>1
      <4>2. CASE n # Len(s)
        <5>1. n + 1 \in 1 .. Len(s)
          BY <1>1, <4>2
        <5>2. QED
          BY <1>1, <4>2, <5>1
      <4>3. QED
        BY <4>1, <4>2
    <3>4. QED
      BY <3>2, <3>3
  <2>3. ASSUME NEW n \in 1 .. Len(t)
        PROVE  (IF n = Len(t) THEN x ELSE t[n + 1].id) = (t[n].id + 1) % Ids
    <3>1. Len(s) + n \in 1 .. Len(st) /\ st[Len(s) + n] = t[n]
      BY <1>1
    <3>2. (IF Len(s) + n = Len(st) THEN x ELSE st[Len(s) + n + 1].id) = (t[n].id + 1) % Ids
      BY <1>3, <3>1 DEF Path
    <3>3. (Len(s) + n = Len(st)) <=> (n = Len(t))
      BY <1>1
    <3>4. n # Len(t) => st[Len(s) + n + 1] = t[n + 1]
      <4>1. SUFFICES ASSUME n # Len(t) PROVE st[Len(s) + n + 1] = t[n + 1]
        OBVIOUS
      <4>2. n + 1 \in 1 .. Len(t) /\ Len(s) + (n + 1) = Len(s) + n + 1
        BY <1>1, <4>1
      <4>3. QED
        BY <1>1, <4>2
    <3>5. QED
      BY <3>2, <3>3, <3>4
  <2>4. QED
    BY <2>1, <2>2, <2>3 DEF Path
<1>4. ASSUME t # <<>>, Path(s, First(t, x)), Path(t, x)
      PROVE  Path(st, x)
  <2> HIDE DEF st
  <2>1. First(t, x) = t[1].id /\ Len(t) >= 1
    BY <1>1, <1>4 DEF First
  <2>2. ASSUME NEW n \in 1 .. Len(st), n <= Len(s)
        PROVE  (IF n = Len(st) THEN x ELSE st[n + 1].id) = (st[n].id + 1) % Ids
    <3>1. n \in 1 .. Len(s) /\ n # Len(st) /\ st[n] = s[n]
      BY <1>1, <2>1, <2>2
    <3>2. (IF n = Len(s) THEN t[1].id ELSE s[n + 1].id) = (s[n].id + 1) % Ids
      BY <1>4, <2>1, <3>1 DEF Path
    <3>3. st[n + 1] = IF n = Len(s) THEN t[1] ELSE s[n + 1]
      BY <1>1, <2>1, <3>1
    <3>4. QED
      BY <3>1, <3>2, <3>3
  <2>3. ASSUME NEW n \in 1 .. Len(st), ~ (n <= Len(s))
        PROVE  (IF n = Len(st) THEN x ELSE st[n + 1].id) = (st[n].id + 1) % Ids
    <3> DEFINE m == n - Len(s)
    <3>1. m \in 1 .. Len(t) /\ Len(s) + m = n /\ ((n = Len(st)) <=> (m = Len(t)))
      BY <1>1, <2>3
    <3>2. (IF m = Len(t) THEN x ELSE t[m + 1].id) = (t[m].id + 1) % Ids
      BY <1>4, <3>1 DEF Path
    <3>3. st[n] = t[m]
      BY <1>1, <3>1
    <3>4. m # Len(t) => st[n + 1] = t[m + 1]
      <4>1. SUFFICES ASSUME m # Len(t) PROVE st[n + 1] = t[m + 1]
        OBVIOUS
      <4>2. m + 1 \in 1 .. Len(t) /\ Len(s) + (m + 1) = n + 1
        BY <1>1, <3>1, <4>1
      <4>3. QED
        BY <1>1, <4>2
    <3>5. QED
      BY <3>1, <3>2, <3>3, <3>4
  <2>4. QED
    BY <2>2, <2>3 DEF Path
<1>5. QED
  BY <1>2, <1>3, <1>4

(* Only the numbers matter.                                                 *)
SameIds(t, s) == Len(t) = Len(s) /\ \A n \in 1 .. Len(s) : t[n].id = s[n].id

LEMMA PathSame ==
  ASSUME NEW E, NEW F, NEW s \in Seq(E), NEW t \in Seq(F), SameIds(t, s), NEW x
  PROVE  (Path(s, x) => Path(t, x)) /\ First(t, x) = First(s, x)
<1>1. Len(s) \in Nat /\ Len(t) = Len(s) /\ \A n \in 1 .. Len(s) : t[n].id = s[n].id
  BY DEF SameIds
<1>2. (t = <<>>) <=> (s = <<>>)
  BY <1>1
<1>3. First(t, x) = First(s, x)
  <2>1. s # <<>> => 1 \in 1 .. Len(s)
    BY <1>1
  <2>2. QED
    BY <1>1, <1>2, <2>1 DEF First
<1>4. ASSUME Path(s, x) PROVE Path(t, x)
  <2>1. ASSUME NEW n \in 1 .. Len(s)
        PROVE  (IF n = Len(t) THEN x ELSE t[n + 1].id) = (t[n].id + 1) % Ids
    <3>1. (IF n = Len(s) THEN x ELSE s[n + 1].id) = (s[n].id + 1) % Ids
      BY <1>4 DEF Path
    <3>2. t[n].id = s[n].id /\ (n # Len(s) => t[n + 1].id = s[n + 1].id)
      BY <1>1
    <3>3. QED
      BY <1>1, <3>1, <3>2
  <2>2. QED
    BY <1>1, <2>1 DEF Path
<1>5. QED
  BY <1>3, <1>4

----------------------------------------------------------------------------
(* Followed from end to end, the path is what is promised.                  *)
Anything == Entries \cup Decoded \cup Coming

LEMMA OrderTypes ==
  ASSUME FrontEndInv
  PROVE  /\ window \in Seq(Anything) /\ DISPATCH \in Seq(Anything) /\ RENAME2 \in Seq(Anything)
         /\ Queued \in Seq(Anything) /\ DECODE \in Seq(Anything)
BY QueuedType, SeqMonotonic DEF FrontEndInv, LatchesInv, Anything

LEMMA OrderIsProgramOrder ==
  ASSUME FrontEndInv, OrderInv
  PROVE  ProgramOrder
<1> DEFINE a == window \o DISPATCH
           b == a \o RENAME2
           c == b \o Queued
<1>1. /\ window \in Seq(Anything) /\ DISPATCH \in Seq(Anything) /\ RENAME2 \in Seq(Anything)
      /\ Queued \in Seq(Anything) /\ DECODE \in Seq(Anything)
  BY OrderTypes
<1>2. a \in Seq(Anything) /\ b \in Seq(Anything) /\ c \in Seq(Anything)
  BY <1>1, ConcatProperties, Zenon
<1>3. InOrder = c \o DECODE
  BY Zenon DEF InOrder
<1>4. Path(a, FromRENAME2)
  BY <1>1, PathConcat, Zenon DEF OrderInv, FromDISPATCH
<1>5. Path(b, FromQueue)
  BY <1>1, <1>2, <1>4, PathConcat, Zenon DEF OrderInv, FromRENAME2
<1>6. Path(c, FromDECODE)
  BY <1>1, <1>2, <1>5, PathConcat, Zenon DEF OrderInv, FromQueue
<1>7. Path(InOrder, next)
  BY <1>1, <1>2, <1>3, <1>6, PathConcat, Zenon DEF OrderInv, FromDECODE
<1>8. InOrder \in Seq(Anything) /\ Len(InOrder) \in Nat
  <2>1. InOrder \in Seq(Anything)
    BY <1>1, <1>2, <1>3, ConcatProperties, Zenon
  <2>2. QED
    BY <2>1
<1>9. ASSUME NEW n \in 1 .. Len(InOrder) - 1
      PROVE  InOrder[n + 1].id = (InOrder[n].id + 1) % Ids
  <2>1. n \in 1 .. Len(InOrder) /\ n # Len(InOrder)
    BY <1>8
  <2>2. QED
    BY <1>7, <2>1 DEF Path
<1>10. ASSUME InOrder # <<>>
       PROVE  next = (Last(InOrder).id + 1) % Ids
  <2>1. Len(InOrder) \in 1 .. Len(InOrder)
    BY <1>8, <1>10
  <2>2. QED
    BY <1>7, <2>1 DEF Path, Last
<1>11. QED
  BY <1>9, <1>10 DEF ProgramOrder

----------------------------------------------------------------------------
(* What is pushed into the fetch queue follows what is in it, and what is   *)
(* popped came first.                                                       *)
LEMMA PushedAt ==
  ASSUME NEW h \in 0 .. FQSize - 1, NEW n \in 0 .. FQSize, NEW k \in 0 .. FQSize - 1
  PROVE  Turn(Turn(h + k) + FQSize - Turn(h + n)) = IF k >= n THEN k - n ELSE k - n + FQSize
<1>1. CASE h + n >= FQSize /\ h + k >= FQSize
  BY <1>1, Size DEF Turn
<1>2. CASE h + n >= FQSize /\ h + k < FQSize
  BY <1>2, Size DEF Turn
<1>3. CASE h + n < FQSize /\ h + k < FQSize
  BY <1>3, Size DEF Turn
<1>4. CASE h + n < FQSize /\ h + k >= FQSize
  BY <1>4, Size DEF Turn
<1>5. QED
  BY <1>1, <1>2, <1>3, <1>4, Size

LEMMA QueuedPush ==
  ASSUME RingInv, NEW b \in Seq(Decoded), EnoughSpace(Len(b)), Push(b)
  PROVE  Queued' = Queued \o b
<1> DEFINE At(p) == (p + FQSize - fqTail) % FQSize
<1>1. /\ Len(b) \in Nat /\ fqLength \in Nat /\ fqLength + Len(b) <= FQSize
      /\ fqHead \in 0 .. FQSize - 1 /\ fqTail \in 0 .. FQSize - 1 /\ fqLength \in 0 .. FQSize
  BY Size DEF EnoughSpace, RingInv
<1>2. /\ fqLength' = fqLength + Len(b) /\ fqHead' = fqHead
      /\ fq' = [p \in 0 .. FQSize - 1 |-> IF At(p) < Len(b) THEN b[At(p) + 1] ELSE fq[p]]
  BY Zenon DEF Push, RingInv
<1>3. fqTail = Turn(fqHead + fqLength)
  BY <1>1, TurnOfSum, Zenon DEF RingInv
<1>4. ASSUME NEW n \in 1 .. fqLength + Len(b)
      PROVE  fq'[(fqHead + n - 1) % FQSize] =
               IF n <= fqLength THEN fq[(fqHead + n - 1) % FQSize] ELSE b[n - fqLength]
  <2> DEFINE k == n - 1
             p == (fqHead + k) % FQSize
  <2>1. k \in 0 .. FQSize - 1 /\ k \in 0 .. FQSize /\ fqHead + n - 1 = fqHead + k
    BY <1>1, Size
  <2>2. p = Turn(fqHead + k)
    BY <1>1, <2>1, TurnOfSum, Zenon
  <2>3. p \in 0 .. FQSize - 1
    BY <1>1, <2>1, <2>2, Size DEF Turn
  <2>4. At(p) = IF k >= fqLength THEN k - fqLength ELSE k - fqLength + FQSize
    <3>1. p + FQSize - fqTail \in 0 .. 2 * FQSize - 1
      BY <1>1, <2>3, Size
    <3>2. At(p) = Turn(p + FQSize - fqTail)
      BY <3>1, TurnIsMod, Zenon
    <3>3. Turn(Turn(fqHead + k) + FQSize - Turn(fqHead + fqLength))
            = IF k >= fqLength THEN k - fqLength ELSE k - fqLength + FQSize
      BY <1>1, <2>1, PushedAt, Zenon
    <3>4. QED
      BY <1>3, <2>2, <3>2, <3>3
  <2>5. fq'[p] = IF At(p) < Len(b) THEN b[At(p) + 1] ELSE fq[p]
    BY <1>2, <2>3, Zenon
  <2>6. (n <= fqLength => ~ (At(p) < Len(b))) /\ (n > fqLength => At(p) + 1 = n - fqLength /\ At(p) < Len(b))
    BY <1>1, <2>1, <2>4, Size
  <2> HIDE DEF At, p
  <2>7. fq'[p] = IF n <= fqLength THEN fq[p] ELSE b[n - fqLength]
    BY <1>1, <2>5, <2>6
  <2>8. QED
    BY <2>1, <2>7 DEF p
<1>5. Queued' = [n \in 1 .. fqLength + Len(b) |-> fq'[(fqHead + n - 1) % FQSize]]
  BY <1>2 DEF Queued
<1>6. /\ Queued \in Seq(Decoded) /\ Len(Queued) = fqLength
      /\ \A n \in 1 .. fqLength : Queued[n] = fq[(fqHead + n - 1) % FQSize]
  BY QueuedType, Zenon DEF Queued
<1>7. ASSUME NEW n \in 1 .. fqLength + Len(b)
      PROVE  Queued'[n] = (Queued \o b)[n] /\ Queued'[n] \in Decoded
  <2>1. Queued'[n] = fq'[(fqHead + n - 1) % FQSize]
    BY <1>5
  <2>2. (Queued \o b)[n] = IF n <= fqLength THEN Queued[n] ELSE b[n - fqLength]
    BY <1>1, <1>6
  <2>3. CASE n <= fqLength
    <3>1. n \in 1 .. fqLength
      BY <2>3
    <3>2. Queued[n] = fq[(fqHead + n - 1) % FQSize] /\ Queued[n] \in Decoded
      BY <1>6, <3>1, ElementOfSeq, Zenon
    <3>3. QED
      BY <1>4, <2>1, <2>2, <2>3, <3>2, Zenon
  <2>4. CASE ~ (n <= fqLength)
    <3>1. n - fqLength \in 1 .. Len(b)
      BY <1>1, <2>4
    <3>2. b[n - fqLength] \in Decoded
      BY <3>1, ElementOfSeq, Zenon
    <3>3. QED
      BY <1>4, <2>1, <2>2, <2>4, <3>2, Zenon
  <2>5. QED
    BY <2>3, <2>4
<1>8. Queued' \in Seq(Decoded) /\ Len(Queued') = fqLength + Len(b)
  <2>1. Queued' \in [1 .. fqLength + Len(b) -> Decoded]
    BY <1>5, <1>7, Zenon
  <2>2. QED
    BY <1>1, <2>1
<1>9. Queued \o b \in Seq(Decoded) /\ Len(Queued \o b) = fqLength + Len(b)
  BY <1>6, ConcatProperties, Zenon
<1>10. QED
  BY <1>7, <1>8, <1>9, SeqEqual, Zenon

LEMMA QueuedPop ==
  ASSUME RingInv, NEW m \in 0 .. fqLength, Pop(m)
  PROVE  /\ Queued = SubSeq(Queued, 1, m) \o Queued'
         /\ Queued' \in Seq(Decoded)
<1>1. /\ m \in Nat /\ fqLength \in Nat /\ fqLength \in 0 .. FQSize
      /\ fqHead \in 0 .. FQSize - 1
  BY Size DEF RingInv
<1>2. fqHead' = (fqHead + m) % FQSize /\ fqLength' = fqLength - m /\ fq' = fq
  BY DEF Pop
<1>3. m \in 0 .. FQSize /\ fqLength - m \in Nat
  BY <1>1, Size
<1>4. fqHead' = Turn(fqHead + m)
  BY <1>1, <1>2, <1>3, TurnOfSum, Zenon
<1>5. fqHead' \in 0 .. FQSize - 1
  BY <1>1, <1>3, <1>4, Size DEF Turn
<1>6. /\ Queued \in Seq(Decoded) /\ Len(Queued) = fqLength
      /\ \A n \in 1 .. fqLength : Queued[n] = fq[(fqHead + n - 1) % FQSize]
  BY QueuedType, Zenon DEF Queued
<1>7. ASSUME NEW n \in 1 .. fqLength - m
      PROVE  fq[(fqHead' + n - 1) % FQSize] = Queued[m + n]
  <2> DEFINE k == n - 1
             q == m + k
  <2>1. /\ k \in 0 .. FQSize /\ q \in 0 .. FQSize /\ fqHead' + n - 1 = fqHead' + k
        /\ m + n \in 1 .. fqLength /\ fqHead + (m + n) - 1 = fqHead + q
    BY <1>1, <1>3, <1>5, Size
  <2>2. (fqHead' + k) % FQSize = Turn(fqHead' + k)
    BY <1>5, <2>1, TurnOfSum, Zenon
  <2>3. (fqHead + q) % FQSize = Turn(fqHead + q)
    BY <1>1, <2>1, TurnOfSum, Zenon
  <2>4. Turn(fqHead' + k) = Turn(fqHead + q)
    BY <1>1, <1>3, <1>4, <2>1, Size DEF Turn
  <2>5. Queued[m + n] = fq[(fqHead + (m + n) - 1) % FQSize]
    BY <1>6, <2>1, Zenon
  <2> HIDE DEF k, q
  <2>6. QED
    BY <2>1, <2>2, <2>3, <2>4, <2>5
<1>8. Queued' = [n \in 1 .. fqLength - m |-> Queued[m + n]]
  <2>1. Queued' = [n \in 1 .. fqLength - m |-> fq[(fqHead' + n - 1) % FQSize]]
    BY <1>2 DEF Queued
  <2>2. QED
    BY <1>7, <2>1, Zenon
<1>9. Queued' \in Seq(Decoded) /\ Len(Queued') = fqLength - m
  <2>1. \A n \in 1 .. fqLength - m : Queued[m + n] \in Decoded
    BY <1>1, <1>6
  <2>2. Queued' \in [1 .. fqLength - m -> Decoded]
    BY <1>8, <2>1, Zenon
  <2>3. QED
    BY <1>3, <2>2
<1>10. Queued = SubSeq(Queued, 1, m) \o Queued'
  <2> DEFINE s == SubSeq(Queued, 1, m)
  <2>1. s \in Seq(Decoded) /\ Len(s) = m /\ \A n \in 1 .. m : s[n] = Queued[n]
    BY <1>1, <1>6
  <2> HIDE DEF s
  <2>2. s \o Queued' \in Seq(Decoded) /\ Len(s \o Queued') = fqLength
    BY <1>1, <1>9, <2>1
  <2>3. ASSUME NEW n \in 1 .. fqLength
        PROVE  (s \o Queued')[n] = Queued[n]
    <3>1. CASE n <= m
      BY <1>1, <1>9, <2>1, <3>1
    <3>2. CASE ~ (n <= m)
      <4>1. n - m \in 1 .. fqLength - m /\ m + (n - m) = n
        BY <1>1, <3>2
      <4>2. (s \o Queued')[n] = Queued'[n - m]
        BY <1>1, <1>9, <2>1, <3>2
      <4>3. Queued'[n - m] = Queued[m + (n - m)]
        BY <1>8, <4>1, Zenon
      <4>4. QED
        BY <4>1, <4>2, <4>3
    <3>3. QED
      BY <3>1, <3>2
  <2>4. QED
    BY <1>6, <2>2, <2>3 DEF s
<1>11. QED
  BY <1>9, <1>10

----------------------------------------------------------------------------
(* One step per action: what moves on leaves the path as it was.            *)
LEMMA SuccessorWraps ==
  ASSUME NEW n \in Nat \ {0}, NEW a \in 0 .. 2 * n - 1, a + 1 \in 0 .. 2 * n - 1
  PROVE  (a + 1) % n = ((a % n) + 1) % n
<1>1. CASE a < n
  <2>1. a % n = a
    BY <1>1, Wrap
  <2>2. QED
    BY <2>1
<1>2. CASE ~ (a < n)
  <2>1. a % n = a - n /\ (a + 1) % n = a + 1 - n
    BY <1>2
  <2>2. a + 1 - n \in 0 .. n - 1 /\ a - n + 1 = a + 1 - n
    BY <1>2
  <2>3. (a + 1 - n) % n = a + 1 - n
    BY <2>2
  <2>4. QED
    BY <2>1, <2>2, <2>3
<1>3. QED
  BY <1>1, <1>2

LEMMA FetchOrder ==
  ASSUME FrontEndInv, OrderInv, Fetch
  PROVE  OrderInv'
<1>1. PICK bundle \in BoundedSeq(Kinds, FetchWidth) \ {<<>>} :
        /\ DECODE' = [n \in DOMAIN bundle |->
                        [id |-> (next + n - 1) % Ids, inst |-> bundle[n].inst,
                         fault |-> bundle[n].fault]]
        /\ next' = (next + Len(bundle)) % Ids
  BY DEF Fetch
<1>2. PICK m \in 0 .. FetchWidth : bundle \in [1 .. m -> Kinds]
  BY <1>1 DEF BoundedSeq, SeqOf
<1>3. /\ DECODE = <<>> /\ UNCHANGED <<RENAME2, DISPATCH, window>> /\ Queued' = Queued
  BY DEF Fetch, Queued, fqVars
<1>4. m \in 1 .. FetchWidth /\ Len(bundle) = m /\ DOMAIN bundle = 1 .. m
  <2>1. m # 0
    <3>1. ASSUME m = 0 PROVE bundle = <<>>
      BY <1>2, <3>1
    <3>2. QED
      BY <1>1, <3>1
  <2>2. QED
    BY <1>2, <2>1, Sizes
<1>5. Ids \in Nat \ {0} /\ FetchWidth \in 1 .. Ids /\ next \in 0 .. Ids - 1
  <2>1. FetchWidth \in 1 .. Ids
    BY Sizes DEF Ids
  <2>2. QED
    BY <2>1, Sizes DEF FrontEndInv, LatchesInv
<1>6. /\ DECODE' # <<>> /\ Len(DECODE') = m
      /\ \A n \in 1 .. m : DECODE'[n].id = (next + n - 1) % Ids
  BY <1>1, <1>4
<1>7. ASSUME NEW n \in 1 .. m
      PROVE  (next + n) % Ids = (((next + n - 1) % Ids) + 1) % Ids
  <2> DEFINE a == next + n - 1
  <2>1. a \in 0 .. 2 * Ids - 1 /\ a + 1 \in 0 .. 2 * Ids - 1 /\ next + n = a + 1
    BY <1>4, <1>5
  <2>2. (a + 1) % Ids = ((a % Ids) + 1) % Ids
    BY <1>5, <2>1, SuccessorWraps, Zenon
  <2>3. QED
    BY <2>1, <2>2
<1>8. Path(DECODE', next')
  <2>1. ASSUME NEW n \in 1 .. m
        PROVE  (IF n = m THEN next' ELSE DECODE'[n + 1].id) = (DECODE'[n].id + 1) % Ids
    <3>1. n # m => DECODE'[n + 1].id = (next + n) % Ids
      <4>1. n # m => n + 1 \in 1 .. m /\ next + (n + 1) - 1 = next + n
        BY <1>4, <1>5
      <4>2. n # m => DECODE'[n + 1].id = (next + (n + 1) - 1) % Ids
        BY <1>6, <4>1, Zenon
      <4>3. QED
        BY <4>1, <4>2
    <3>2. n = m => next' = (next + n) % Ids
      BY <1>1, <1>4
    <3>3. QED
      BY <1>6, <1>7, <3>1, <3>2, Zenon
  <2>2. QED
    BY <1>6, <2>1, Zenon DEF Path
<1>9. FromDECODE' = FromDECODE
  <2>1. FromDECODE = next
    BY <1>3 DEF FromDECODE, First
  <2>2. FromDECODE' = (next + 1 - 1) % Ids
    <3>1. 1 \in 1 .. m
      BY <1>4
    <3>2. QED
      BY <1>6, <3>1, Zenon DEF FromDECODE, First
  <2>3. next \in 0 .. 2 * Ids - 1 /\ next + 1 - 1 = next /\ next < Ids
    BY <1>5
  <2>4. next % Ids = (IF next < Ids THEN next ELSE next - Ids)
    BY <1>5, <2>3, Wrap, Zenon
  <2>5. QED
    BY <2>1, <2>2, <2>3, <2>4
<1>10. FromQueue' = FromQueue /\ FromRENAME2' = FromRENAME2 /\ FromDISPATCH' = FromDISPATCH
  BY <1>3, <1>9 DEF FromQueue, FromRENAME2, FromDISPATCH
<1>11. QED
  BY <1>3, <1>8, <1>9, <1>10 DEF OrderInv

LEMMA DecodeOrder ==
  ASSUME FrontEndInv, OrderInv, DecodeStage
  PROVE  OrderInv'
<1>1. PICK left \in [DOMAIN DECODE -> SUBSET AllFlags] :
        Push([n \in DOMAIN DECODE |-> DecodedFrom(DECODE[n], left[n])])
  <2> DEFINE L == IF \E n \in DOMAIN DECODE : DECODE[n].inst.op = "unknown"
                  THEN LeftFlags ELSE {{}}
  <2>1. {} \in SUBSET AllFlags /\ LeftFlags \in SUBSET (SUBSET AllFlags)
    BY FlagsType DEF LeftFlags
  <2>2. \A x \in L : x \in SUBSET AllFlags
    BY <2>1
  <2>3. PICK left \in [DOMAIN DECODE -> L] :
          Push([n \in DOMAIN DECODE |-> DecodedFrom(DECODE[n], left[n])])
    BY Zenon DEF DecodeStage
  <2> HIDE DEF L
  <2>4. left \in [DOMAIN DECODE -> SUBSET AllFlags]
    BY <2>2
  <2>5. QED
    BY <2>3, <2>4
<1> DEFINE b == [n \in DOMAIN DECODE |-> DecodedFrom(DECODE[n], left[n])]
<1>2. DECODE \in Seq(Coming) /\ Len(DECODE) \in Nat /\ DOMAIN DECODE = 1 .. Len(DECODE)
  BY DEF FrontEndInv, LatchesInv
<1>3. b \in Seq(Decoded) /\ Len(b) = Len(DECODE)
  BY <1>2, DecodedType
<1>4. SameIds(b, DECODE)
  BY <1>2, <1>3 DEF SameIds, DecodedFrom
<1>5. EnoughSpace(Len(b)) /\ Push(b)
  <2>1. EnoughSpace(2 * Len(b)) /\ Len(b) \in Nat /\ fqLength \in Nat
    BY <1>2, <1>3, Sizes DEF DecodeStage, RoomToDecode, FrontEndInv, RingInv
  <2>2. QED
    BY <1>1, <2>1, Sizes DEF EnoughSpace
<1> HIDE DEF b
<1>6. Queued' = Queued \o b
  BY <1>3, <1>5, QueuedPush DEF FrontEndInv
<1>7. DECODE' = <<>> /\ UNCHANGED <<RENAME2, DISPATCH, window, next>>
  BY DEF DecodeStage
<1>8. First(b, next) = FromDECODE /\ Path(b, next)
  <2>1. (Path(DECODE, next) => Path(b, next)) /\ First(b, next) = First(DECODE, next)
    BY <1>2, <1>3, <1>4, PathSame
  <2>2. QED
    BY <2>1 DEF OrderInv, FromDECODE
<1>9. FromDECODE' = next /\ Path(DECODE', next')
  BY <1>7, EmptyPath DEF FromDECODE
<1>10. Queued \in Seq(Decoded)
  BY QueuedType DEF FrontEndInv
<1>11. Path(Queued', FromDECODE')
  BY <1>3, <1>6, <1>8, <1>9, <1>10, PathConcat, Zenon DEF OrderInv
<1>12. FromQueue' = FromQueue
  <2>1. First(Queued \o b, next) = First(Queued, First(b, next))
    BY <1>3, <1>10, FirstConcat
  <2>2. QED
    BY <1>6, <1>8, <1>9, <2>1 DEF FromQueue
<1>13. FromRENAME2' = FromRENAME2 /\ FromDISPATCH' = FromDISPATCH
  BY <1>7, <1>12 DEF FromRENAME2, FromDISPATCH
<1>14. QED
  BY <1>7, <1>9, <1>11, <1>12, <1>13 DEF OrderInv

LEMMA Rename1Order ==
  ASSUME FrontEndInv, OrderInv, Rename1
  PROVE  OrderInv'
<1> DEFINE m == Min({fqLength, DispatchWidth})
<1>1. /\ RENAME2 = <<>> /\ RENAME2' = SubSeq(Queued, 1, m) /\ Pop(m)
      /\ UNCHANGED <<DECODE, DISPATCH, window, next>>
  BY DEF Rename1
<1>2. m \in 0 .. fqLength
  <2>1. fqLength \in Nat /\ DispatchWidth \in Nat
    BY Sizes DEF FrontEndInv, RingInv
  <2>2. QED
    BY <2>1, MinOfTwo
<1> HIDE DEF m
<1>3. Queued = RENAME2' \o Queued' /\ Queued' \in Seq(Decoded)
  BY <1>1, <1>2, QueuedPop DEF FrontEndInv
<1>4. RENAME2' \in Seq(Decoded)
  BY <1>1, <1>2, QueuedType DEF FrontEndInv
<1>5. FromDECODE' = FromDECODE
  BY <1>1 DEF FromDECODE
<1>6. Path(RENAME2', FromQueue') /\ Path(Queued', FromDECODE')
  BY <1>3, <1>4, <1>5, PathConcat, Zenon DEF OrderInv, FromQueue
<1>7. FromRENAME2' = FromRENAME2
  <2>1. FromQueue = First(RENAME2', FromQueue')
    <3>1. First(RENAME2' \o Queued', FromDECODE) = First(RENAME2', First(Queued', FromDECODE))
      BY <1>3, <1>4, FirstConcat
    <3>2. QED
      BY <1>3, <1>5, <3>1 DEF FromQueue
  <2>2. FromRENAME2 = FromQueue
    BY <1>1, EmptyPath DEF FromRENAME2
  <2>3. QED
    BY <2>1, <2>2 DEF FromRENAME2
<1>8. FromDISPATCH' = FromDISPATCH
  BY <1>1, <1>7 DEF FromDISPATCH
<1>9. QED
  BY <1>1, <1>6, <1>7, <1>8 DEF OrderInv

LEMMA Rename2Order ==
  ASSUME OrderInv, Rename2
  PROVE  OrderInv'
<1>1. /\ DISPATCH = <<>> /\ DISPATCH' = RENAME2 /\ RENAME2' = <<>> /\ Queued' = Queued
      /\ UNCHANGED <<DECODE, window, next>>
  BY DEF Rename2, Queued, fqVars
<1>2. FromDECODE' = FromDECODE /\ FromQueue' = FromQueue
  BY <1>1 DEF FromDECODE, FromQueue
<1>3. FromRENAME2' = FromQueue /\ FromDISPATCH' = FromRENAME2 /\ FromDISPATCH = FromRENAME2
  BY <1>1, <1>2, EmptyPath DEF FromRENAME2, FromDISPATCH
<1>4. QED
  BY <1>1, <1>2, <1>3, EmptyPath DEF OrderInv

LEMMA DispatchOrder ==
  ASSUME FrontEndInv, OrderInv, Dispatch
  PROVE  OrderInv'
<1>1. PICK enabled \in BOOLEAN :
        window' = window \o [n \in DOMAIN DISPATCH |-> Entered(DISPATCH[n], enabled)]
  BY DEF Dispatch
<1> DEFINE w == [n \in DOMAIN DISPATCH |-> Entered(DISPATCH[n], enabled)]
<1>2. /\ DISPATCH' = <<>> /\ UNCHANGED <<DECODE, RENAME2, next>> /\ Queued' = Queued
  BY DEF Dispatch, Queued, fqVars
<1>3. /\ window \in Seq(Entries) /\ DISPATCH \in Seq(Decoded) /\ Len(DISPATCH) \in Nat
      /\ DOMAIN DISPATCH = 1 .. Len(DISPATCH)
  BY DEF FrontEndInv, LatchesInv
<1>4. w \in Seq(Entries) /\ Len(w) = Len(DISPATCH)
  BY <1>3, EnteredType
<1>5. SameIds(w, DISPATCH)
  BY <1>3, <1>4 DEF SameIds, Entered
<1>6. window' = window \o w
  BY <1>1
<1> HIDE DEF w
<1>7. /\ FromDECODE' = FromDECODE /\ FromQueue' = FromQueue /\ FromRENAME2' = FromRENAME2
      /\ FromDISPATCH' = FromRENAME2
  BY <1>2, EmptyPath DEF FromDECODE, FromQueue, FromRENAME2, FromDISPATCH
<1>8. Path(w, FromRENAME2) /\ First(w, FromRENAME2) = FromDISPATCH
  <2>1. /\ Path(DISPATCH, FromRENAME2) => Path(w, FromRENAME2)
        /\ First(w, FromRENAME2) = First(DISPATCH, FromRENAME2)
    BY <1>3, <1>4, <1>5, PathSame
  <2>2. QED
    BY <2>1 DEF OrderInv, FromDISPATCH
<1>9. Path(window', FromRENAME2)
  BY <1>3, <1>4, <1>6, <1>8, PathConcat, Zenon DEF OrderInv
<1>10. QED
  BY <1>2, <1>7, <1>9, EmptyPath DEF OrderInv

LEMMA WindowOrder ==
  ASSUME FrontEndInv, OrderInv, NEW k \in DOMAIN window, Issue(k) \/ Complete(k)
  PROVE  OrderInv'
<1>1. UNCHANGED <<DECODE, RENAME2, DISPATCH, next>> /\ Queued' = Queued
  BY DEF Issue, Complete, Queued, fqVars
<1>2. window \in Seq(Entries) /\ Len(window) \in Nat /\ k \in 1 .. Len(window)
  BY DEF FrontEndInv, LatchesInv
<1>3. window' \in Seq(Entries)
  <2>1. FrontEndInv'
    BY IssueStep, CompleteStep
  <2>2. QED
    BY <2>1 DEF FrontEndInv, LatchesInv
<1>4. SameIds(window', window)
  <2>1. window[k] \in Entries
    BY <1>2, ElementOfSeq
  <2>2. CASE Issue(k)
    <3>1. window' = [window EXCEPT ![k] = [window[k] EXCEPT !.at = "ex"]]
      BY <2>2 DEF Issue
    <3>2. QED
      BY <1>2, <2>1, <3>1 DEF SameIds, Entries
  <2>3. CASE Complete(k)
    <3>1. PICK trap : window' = [window EXCEPT ![k] = [@ EXCEPT !.at = "done", !.resolved = TRUE,
                                                           !.trap = trap]]
      BY <2>3 DEF Complete
    <3>2. QED
      BY <1>2, <2>1, <3>1 DEF SameIds, Entries
  <2>4. QED
    BY <2>2, <2>3
<1>5. /\ FromDECODE' = FromDECODE /\ FromQueue' = FromQueue /\ FromRENAME2' = FromRENAME2
      /\ FromDISPATCH' = FromDISPATCH
  BY <1>1 DEF FromDECODE, FromQueue, FromRENAME2, FromDISPATCH
<1>6. Path(window', FromDISPATCH)
  <2>1. Path(window, FromDISPATCH) => Path(window', FromDISPATCH)
    BY <1>2, <1>3, <1>4, PathSame
  <2>2. QED
    BY <2>1 DEF OrderInv
<1>7. QED
  BY <1>1, <1>5, <1>6 DEF OrderInv

(* After a recovery nothing follows the window.                             *)
LEMMA Recovered ==
  ASSUME EmptyLatches, Path(window', next')
  PROVE  OrderInv'
<1>1. DECODE' = <<>> /\ RENAME2' = <<>> /\ DISPATCH' = <<>> /\ fqLength' = 0
  BY DEF EmptyLatches, FlushQueue
<1>2. Queued' = <<>>
  BY <1>1 DEF Queued
<1>3. /\ FromDECODE' = next' /\ FromQueue' = next' /\ FromRENAME2' = next'
      /\ FromDISPATCH' = next'
  BY <1>1, <1>2, EmptyPath DEF FromDECODE, FromQueue, FromRENAME2, FromDISPATCH
<1>4. QED
  BY <1>1, <1>2, <1>3, EmptyPath DEF OrderInv

LEMMA MispredictOrder ==
  ASSUME FrontEndInv, OrderInv, NEW k \in DOMAIN window, Mispredict(k)
  PROVE  OrderInv'
<1> DEFINE kept == SubSeq(window, 1, k)
<1>1. /\ window' = [kept EXCEPT ![k] = [@ EXCEPT !.at = "done", !.resolved = TRUE]]
      /\ next' = (window[k].id + 1) % Ids /\ EmptyLatches
  BY DEF Mispredict
<1>2. window \in Seq(Entries) /\ Len(window) \in Nat /\ k \in 1 .. Len(window)
  BY DEF FrontEndInv, LatchesInv
<1>3. /\ kept \in Seq(Entries) /\ Len(kept) = k /\ k <= Len(window)
      /\ \A j \in 1 .. k : kept[j] = window[j]
  BY <1>2
<1>4. window[k] \in Entries
  BY <1>2, ElementOfSeq
<1> HIDE DEF kept
<1>5. Len(window') = k /\ \A j \in 1 .. k : window'[j].id = window[j].id
  BY <1>1, <1>2, <1>3, <1>4 DEF Entries
<1>6. ASSUME NEW n \in 1 .. k
      PROVE  (IF n = k THEN next' ELSE window'[n + 1].id) = (window'[n].id + 1) % Ids
  <2>1. n # k => /\ n + 1 \in 1 .. k /\ n \in 1 .. Len(window) /\ n # Len(window)
    BY <1>2, <1>3
  <2>2. n # k => window[n + 1].id = (window[n].id + 1) % Ids
    BY <2>1 DEF OrderInv, Path
  <2>3. QED
    BY <1>1, <1>5, <2>1, <2>2, Zenon
<1>7. Path(window', next')
  BY <1>5, <1>6, Zenon DEF Path
<1>8. QED
  BY <1>1, <1>7, Recovered

LEMMA CommitOrder ==
  ASSUME FrontEndInv, OrderInv, Commit
  PROVE  OrderInv'
<1>1. /\ window # <<>> /\ window' = Tail(window) /\ UNCHANGED <<DECODE, RENAME2, DISPATCH, next>>
      /\ Queued' = Queued
  BY DEF Commit, Queued, fqVars
<1>2. window \in Seq(Entries)
  BY DEF FrontEndInv, LatchesInv
<1>3. /\ Len(window') = Len(window) - 1 /\ Len(window) \in Nat
      /\ \A j \in 1 .. Len(window') : window'[j] = window[j + 1]
  BY <1>1, <1>2
<1>4. /\ FromDECODE' = FromDECODE /\ FromQueue' = FromQueue /\ FromRENAME2' = FromRENAME2
      /\ FromDISPATCH' = FromDISPATCH
  BY <1>1 DEF FromDECODE, FromQueue, FromRENAME2, FromDISPATCH
<1>5. ASSUME NEW n \in 1 .. Len(window')
      PROVE  (IF n = Len(window') THEN FromDISPATCH ELSE window'[n + 1].id)
               = (window'[n].id + 1) % Ids
  <2>1. n + 1 \in 1 .. Len(window) /\ (n = Len(window') <=> n + 1 = Len(window))
    BY <1>3
  <2>2. (IF n + 1 = Len(window) THEN FromDISPATCH ELSE window[n + 1 + 1].id)
          = (window[n + 1].id + 1) % Ids
    BY <2>1 DEF OrderInv, Path
  <2>3. window'[n] = window[n + 1]
    BY <1>3
  <2>4. n # Len(window') => window'[n + 1] = window[n + 1 + 1]
    BY <1>3
  <2>5. QED
    BY <2>1, <2>2, <2>3, <2>4, Zenon
<1>6. Path(window', FromDISPATCH)
  BY <1>5, Zenon DEF Path
<1>7. QED
  BY <1>1, <1>4, <1>6 DEF OrderInv

LEMMA SquashOrder ==
  ASSUME SquashComplete
  PROVE  OrderInv'
<1>1. window' = <<>> /\ EmptyLatches
  BY DEF SquashComplete
<1>2. Path(window', next')
  BY <1>1, EmptyPath
<1>3. QED
  BY <1>1, <1>2, Recovered

LEMMA InitOrder == Init => OrderInv
<1> SUFFICES ASSUME Init PROVE OrderInv
  OBVIOUS
<1>1. window = <<>> /\ DISPATCH = <<>> /\ RENAME2 = <<>> /\ DECODE = <<>> /\ Queued = <<>>
  BY DEF Init, Queued
<1>2. QED
  BY <1>1, EmptyPath DEF OrderInv

----------------------------------------------------------------------------
(* From the Active List to DECODE the instructions are consecutive on the   *)
(* path that is fetched, whatever was recovered from and wherever the fetch *)
(* queue wraps around.                                                      *)
THEOREM AlwaysProgramOrder == Spec => []ProgramOrder
<1>1. Init => FrontEndInv /\ OrderInv
  BY InitInv, InitOrder
<1>2. FrontEndInv /\ OrderInv /\ [Next]_vars => FrontEndInv' /\ OrderInv'
  <2> SUFFICES ASSUME FrontEndInv, OrderInv, [Next]_vars PROVE FrontEndInv' /\ OrderInv'
    OBVIOUS
  <2>1. FrontEndInv'
    BY InvStep
  <2>2. CASE Fetch
    BY <2>1, <2>2, FetchOrder
  <2>3. CASE DecodeStage
    BY <2>1, <2>3, DecodeOrder
  <2>4. CASE Rename1
    BY <2>1, <2>4, Rename1Order
  <2>5. CASE Rename2
    BY <2>1, <2>5, Rename2Order
  <2>6. CASE Dispatch
    BY <2>1, <2>6, DispatchOrder
  <2>7. CASE \E k \in DOMAIN window : Issue(k) \/ Complete(k) \/ Mispredict(k)
    BY <2>1, <2>7, WindowOrder, MispredictOrder
  <2>8. CASE Retire
    BY <2>1, <2>8, CommitOrder, SquashOrder DEF Retire
  <2>9. CASE UNCHANGED vars
    BY <2>1, <2>9 DEF vars, OrderInv, FromDISPATCH, FromRENAME2, FromQueue, FromDECODE, Queued, fqVars
  <2>10. QED
    BY <2>2, <2>3, <2>4, <2>5, <2>6, <2>7, <2>8, <2>9 DEF Next, Backend
<1>3. FrontEndInv /\ OrderInv => ProgramOrder
  BY OrderIsProgramOrder
<1>4. QED
  BY <1>1, <1>2, <1>3, PTL DEF Spec

=============================================================================
