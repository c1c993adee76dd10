--------------------------- MODULE LSUProperties ---------------------------
(***************************************************************************)
(* What the load/store unit promises: loads and stores that execute in any *)
(* order, on right and wrong paths, commit as if they had executed one by  *)
(* one in program order.                                                   *)
(***************************************************************************)
EXTENDS LSU

Entries == DOMAIN window
Loads   == {k \in Entries : IsLoad(window[k].op)}
Stores  == {k \in Entries : IsStore(window[k].op)}

LoadOf(k)  == LQ[window[k].lq]
StoreOf(k) == SQ[window[k].sq]

Pointer(i, p, size) == i \in 0 .. size - 1 /\ p \in Phase

(* The queue positions in use, from head to tail, in order.                 *)
LQPositions == [n \in 1 .. lqLength |-> (lqHead + n - 1) % LQSize]
SQPositions == [n \in 1 .. sqLength |-> (sqHead + n - 1) % SQSize]

Before(S, k) == Cardinality({j \in S : j < k})

(* A pointer and its phase after n entries from the head.                   *)
After(head, phase, n, size) ==
  <<(head + n) % size, IF head + n >= size THEN 1 - phase ELSE phase>>

----------------------------------------------------------------------------
TypeOK ==
  /\ Pointer(lqHead, lqHeadPhase, LQSize) /\ Pointer(lqTail, lqTailPhase, LQSize)
  /\ Pointer(sqHead, sqHeadPhase, SQSize) /\ Pointer(sqTail, sqTailPhase, SQSize)
  /\ lqLength \in 0 .. LQSize /\ sqLength \in 0 .. SQSize
  /\ load_reservation \in Addr \cup {None}
  /\ mem \in [Addr -> Values]
  /\ Len(window) <= Window

(* The queues hold exactly the loads and the stores in flight, in program   *)
(* order, with length, phases, valid bits and pointers in agreement, and    *)
(* every instruction in flight remembers where both queues stood before it: *)
(* the search for older stores and the search for younger loads start at    *)
(* the right entry, also after a rollback, a wrap-around or a full queue.   *)
QueuesMatchWindow ==
  /\ lqLength = Cardinality(Loads) /\ sqLength = Cardinality(Stores)
  /\ \A i \in LQIndex : LQ[i].valid <=> \E n \in 1 .. lqLength : LQPositions[n] = i
  /\ \A i \in SQIndex : SQ[i].valid <=> \E n \in 1 .. sqLength : SQPositions[n] = i
  /\ <<lqTail, lqTailPhase>> = After(lqHead, lqHeadPhase, lqLength, LQSize)
  /\ <<sqTail, sqTailPhase>> = After(sqHead, sqHeadPhase, sqLength, SQSize)
  /\ \A k \in Entries :
       LET e == window[k] IN
       /\ <<e.lq, e.lqPhase>> = After(lqHead, lqHeadPhase, Before(Loads, k), LQSize)
       /\ <<e.sq, e.sqPhase>> = After(sqHead, sqHeadPhase, Before(Stores, k), SQSize)

(* The byte that program order gives to position k: that of the youngest    *)
(* older store to it, None before that store has its value, or else the one *)
(* in memory.                                                               *)
StoresTo(b, k) ==
  {j \in Stores : j < k /\ b \in Cover(StoreOf(j).addr, StoreOf(j).size)}

ByteBefore(b, k) ==
  IF StoresTo(b, k) = {} THEN mem[b]
  ELSE LET s == StoreOf(CHOOSE j \in StoresTo(b, k) : \A i \in StoresTo(b, k) : i <= j)
       IN IF s.value_avail THEN s.value[b] ELSE None

AlignedLoad(l) == Aligned(l.addr, l.size)

(* An aligned load that has taken its value has taken the one that program  *)
(* order prescribes, unless an older store has yet to learn its address, or *)
(* a load not younger than it, or an older store, is marked to squash it:   *)
(* whatever misaligned loads and stores are in flight around it.            *)
LoadsPrecise ==
  \A k \in Loads :
    /\ LoadOf(k).value_avail /\ ~ window[k].exception /\ AlignedLoad(LoadOf(k))
    /\ \A j \in Stores : j < k => StoreOf(j).addr_avail /\ ~ window[j].exception
    /\ \A j \in Loads : j <= k => ~ window[j].load_viol
    => \A b \in Cover(LoadOf(k).addr, LoadOf(k).size) :
         LoadOf(k).value[b] = ByteBefore(b, k)

(* Whatever an aligned load did speculatively, when it commits its value is *)
(* the one in memory, where every older store has arrived and no younger    *)
(* one: loads and stores are sequential to the program.                     *)
CommitsReadMemory ==
  [][CommitLoad /\ AlignedLoad(LQ[lqHead])
       => \A b \in Cover(LQ[lqHead].addr, LQ[lqHead].size) :
            LQ[lqHead].value[b] = mem[b]]_vars

(* "If an architectural exception / Make sure that MICRO_SIM also excepts"  *)
(* (the checker, of every instruction that retires): the functional         *)
(* simulator traps on every misaligned load, so none of them commits.  One  *)
(* can: a store of its size in the same container forwards to it, and only  *)
(* memory would have looked at the address.                                 *)
MisalignedLoadsTrap == [][CommitLoad => AlignedLoad(LQ[lqHead])]_vars

----------------------------------------------------------------------------
(* Each instruction executes once its operands arrive, load_replay() runs   *)
(* every cycle and tries the loads that wait, a missing line is filled in   *)
(* the end, branches resolve and Retire takes the head.                     *)
GetsValue(k) == LoadReplay(k) /\ LQ'[window[k].lq].value_avail

Execute(k) == LoadAddr(k) \/ StoreExecute(k) \/ ResolveCorrect(k) \/ Mispredict(k)

Positions == 1 .. Window

Fairness ==
  /\ \A k \in Positions : /\ WF_vars(k \in DOMAIN window /\ Execute(k))
                          /\ WF_vars(k \in DOMAIN window /\ GetsValue(k))
  /\ WF_vars(CommitLoad \/ CommitStore \/ CommitBranch \/ Squash)

FairSpec == Spec /\ Fairness

(* Every load leaves the queue: no load waits for ever for an older store   *)
(* of another size, for a store predicted to conflict, or, if it reserves,  *)
(* for the head of the load queue.                                          *)
LoadsLeave ==
  \A i \in LQIndex : (lqHead = i /\ lqLength > 0) ~> (lqHead # i \/ lqLength = 0)

============================================================================
