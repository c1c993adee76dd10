-------------------------------- MODULE LSU --------------------------------
(***************************************************************************)
(* The load/store unit of 721sim (lsu.cc): a load queue and a store queue, *)
(* disambiguation and forwarding, load violations, the load reservation,   *)
(* and the memory that stores are written to when they commit.             *)
(*                                                                         *)
(* It runs under the instructions in flight, in program order: what the    *)
(* Active List and the payload of each hold that the LSU uses.  The issue  *)
(* queue executes them in any order, a branch may squash those behind it,  *)
(* and retire takes them in order.                                         *)
(*                                                                         *)
(* The data cache is a choice: whenever a load could read memory it may    *)
(* also have to wait for its line.  So is the memory dependence predictor: *)
(* it may predict anything for a load.                                     *)
(*                                                                         *)
(* An operator whose comment begins "Mutant" is not the code: it is the    *)
(* mistake that a property of LSUProperties is shown to catch.             *)
(***************************************************************************)
EXTENDS Integers, Sequences, FiniteSets, SequencesExt

CONSTANTS
  LQSize, SQSize,    \* lq_size, sq_size
  Window,            \* bound: instructions in flight
  Bytes,             \* bound: byte addresses are 0 .. Bytes - 1
  Sizes,             \* access sizes, powers of two
  Values,            \* what a store may store
  SpecDisambig,      \* SPEC_DISAMBIG: may loads pass stores of unknown address?
  OracleDisambig,    \* ORACLE_DISAMBIG: are addresses of stores known early?
  Ops                \* the kinds of instructions that arrive

None    == -1
LQIndex == 0 .. LQSize - 1
SQIndex == 0 .. SQSize - 1
Addr    == 0 .. Bytes - 1
Phase   == {0, 1}

ASSUME LSUAssumption ==
  /\ LQSize \in Nat \ {0} /\ SQSize \in Nat \ {0}
  /\ Window \in Nat \ {0}
  /\ Bytes \in Nat \ {0}
  /\ Sizes \subseteq 1 .. Bytes /\ Sizes # {}
  /\ \A s, t \in Sizes : s <= t => t % s = 0
  /\ \A s \in Sizes : Bytes % s = 0
  /\ Values # {}
  /\ SpecDisambig \in BOOLEAN /\ OracleDisambig \in BOOLEAN
  /\ ~ (SpecDisambig /\ OracleDisambig)
  /\ Ops \subseteq {"load", "store", "branch", "LR", "SC"}

(* The bytes of an access.                                                  *)
Cover(a, size) == a .. a + size - 1

(* What translate() tests before anything else.  Nothing tests it before    *)
(* an address is recorded in a queue.                                       *)
Aligned(a, size) == a % size = 0

NoData == <<>>

NoEntry == [valid |-> FALSE, amo |-> FALSE, size |-> CHOOSE s \in Sizes : TRUE,
            addr_avail |-> FALSE, addr |-> 0,
            value_avail |-> FALSE, value |-> NoData,
            mdp_stall |-> FALSE, sq_index |-> 0, sq_index_phase |-> 0]

VARIABLES
  LQ, lqHead, lqHeadPhase, lqTail, lqTailPhase, lqLength,
  SQ, sqHead, sqHeadPhase, sqTail, sqTailPhase, sqLength,
  load_reservation,
  mem,       \* committed memory, one value per byte
  window     \* the instructions in flight, the oldest first

lqVars == <<LQ, lqHead, lqHeadPhase, lqTail, lqTailPhase, lqLength>>
sqVars == <<SQ, sqHead, sqHeadPhase, sqTail, sqTailPhase, sqLength>>
vars   == <<lqVars, sqVars, load_reservation, mem, window>>

IsLoad(op)  == op \in {"load", "LR"}
IsStore(op) == op \in {"store", "SC"}
IsAmo(op)   == op \in {"LR", "SC"}

(* An instruction in flight: the queue positions recorded at dispatch and   *)
(* what its Active List entry says.                                         *)
InFlight(op) ==
  [op |-> op, lq |-> lqTail, lqPhase |-> lqTailPhase,
   sq |-> sqTail, sqPhase |-> sqTailPhase,
   resolved |-> FALSE, exception |-> FALSE, load_viol |-> FALSE]

Inc(i, size)          == IF i + 1 = size THEN 0 ELSE i + 1
Toggle(i, p, size)    == IF Inc(i, size) = 0 THEN 1 - p ELSE p
Back(i, n, size)      == (i - n + size) % size

(* How many entries a walk from one pointer to another visits: equal        *)
(* pointers are the same place or a full circle apart, as the phases say.   *)
Distance(i, p, j, r, size) ==
  IF i = j THEN (IF p = r THEN 0 ELSE size) ELSE (j - i + size) % size

Init ==
  /\ LQ = [i \in LQIndex |-> NoEntry]
  /\ lqHead = 0 /\ lqHeadPhase = 0 /\ lqTail = 0 /\ lqTailPhase = 0 /\ lqLength = 0
  /\ SQ = [i \in SQIndex |-> NoEntry]
  /\ sqHead = 0 /\ sqHeadPhase = 0 /\ sqTail = 0 /\ sqTailPhase = 0 /\ sqLength = 0
  /\ load_reservation = None
  /\ mem \in [Addr -> Values]        \* whatever was loaded there
  /\ window = <<>>

----------------------------------------------------------------------------
(* dispatch(): an entry at the tail of its queue.  A load remembers where   *)
(* the store queue ended.  An amo is the last instruction to be fetched     *)
(* until it retires.                                                        *)

Stall(op) == \/ IsLoad(op) /\ lqLength + 1 > LQSize
             \/ IsStore(op) /\ sqLength + 1 > SQSize

MayEnter(op) ==
  /\ Len(window) < Window
  /\ \A k \in DOMAIN window : ~ IsAmo(window[k].op)
  /\ ~ Stall(op)

NewEntry(op, size) == [NoEntry EXCEPT !.valid = TRUE, !.size = size, !.amo = IsAmo(op)]

DispatchLoad(op, size, stall) ==
  /\ MayEnter(op)
  /\ LQ' = [LQ EXCEPT ![lqTail] =
             [NewEntry(op, size) EXCEPT !.mdp_stall = stall,
                !.sq_index = sqTail, !.sq_index_phase = sqTailPhase]]
  /\ lqTail' = Inc(lqTail, LQSize)
  /\ lqTailPhase' = Toggle(lqTail, lqTailPhase, LQSize)
  /\ lqLength' = lqLength + 1
  /\ window' = Append(window, InFlight(op))
  /\ UNCHANGED <<lqHead, lqHeadPhase, sqVars, load_reservation, mem>>

(* With oracle disambiguation the address of a store on the right path is   *)
(* recorded right away, and may not translate: never if it is misaligned.   *)
DispatchStore(op, size) ==
  /\ MayEnter(op)
  /\ \/ /\ SQ' = [SQ EXCEPT ![sqTail] = NewEntry(op, size)]
        /\ window' = Append(window, InFlight(op))
     \/ /\ OracleDisambig
        /\ \E a \in Addr, trap \in BOOLEAN :
             /\ trap \/ Aligned(a, size)
             /\ SQ' = [SQ EXCEPT ![sqTail] = [NewEntry(op, size) EXCEPT
                         !.addr_avail = TRUE, !.addr = a]]
             /\ window' = Append(window, [InFlight(op) EXCEPT !.exception = trap])
  /\ sqTail' = Inc(sqTail, SQSize)
  /\ sqTailPhase' = Toggle(sqTail, sqTailPhase, SQSize)
  /\ sqLength' = sqLength + 1
  /\ UNCHANGED <<lqVars, sqHead, sqHeadPhase, load_reservation, mem>>

DispatchBranch ==
  /\ MayEnter("branch")
  /\ window' = Append(window, InFlight("branch"))
  /\ UNCHANGED <<lqVars, sqVars, load_reservation, mem>>

----------------------------------------------------------------------------
(* disambiguate(): a load looks at the stores before it, the youngest       *)
(* first, until one makes it stall or forwards.                             *)

Container(a, s, t) == LET m == IF s < t THEN t ELSE s IN a - (a % m)

(* The accesses overlap: they fall into one aligned container of the larger *)
(* of their two sizes.                                                      *)
Conflict(s, l) == Container(s.addr, s.size, l.size) = Container(l.addr, s.size, l.size)

Verdict(s, l) ==
  CASE ~ s.addr_avail                   -> IF l.mdp_stall THEN "stall" ELSE "pass"
    [] s.addr_avail /\ ~ Conflict(s, l) -> "pass"
    [] OTHER -> IF s.size = l.size /\ s.value_avail THEN "forward" ELSE "stall"

(* Mutant: equal pointers always mean that the whole queue is before it.    *)
StoresBeforeFull(l) ==
  LET n == (l.sq_index - sqHead + SQSize) % SQSize IN IF n = 0 THEN SQSize ELSE n

StoresBefore(l) == Distance(sqHead, sqHeadPhase, l.sq_index, l.sq_index_phase, SQSize)

(* Mutant: the oldest store that has a say decides, not the youngest.       *)
OldestFirst(n, m) == n >= m

NearestFirst(n, m) == n <= m

(* The store that decides, as its distance from the load; 0 if none does.   *)
Deciding(l) ==
  LET say == {n \in 1 .. StoresBefore(l) :
               Verdict(SQ[Back(l.sq_index, n, SQSize)], l) # "pass"}
  IN IF say = {} THEN 0 ELSE CHOOSE n \in say : \A m \in say : NearestFirst(n, m)

MemValue(l) == [b \in Cover(l.addr, l.size) |-> mem[b]]

(* The whole value of the store, wherever in their container either starts. *)
ForwardValue(s, l) == [b \in Cover(l.addr, l.size) |-> s.value[s.addr + (b - l.addr)]]

(* The load that an entry describes gets its value, with or without a trap  *)
(* raised by the memory.                                                    *)
Obtain(i, l, v) == LQ' = [LQ EXCEPT ![i] = [l EXCEPT !.value_avail = TRUE, !.value = v]]

Mark(k, flag) == window' = [window EXCEPT ![k][flag] = TRUE]

(* execute_load(), for the load of window entry k with queue entry l.  Only *)
(* memory can refuse the address; a store forwards to it whatever it is.    *)
Reserve(l) == IF l.amo THEN load_reservation' = l.addr ELSE UNCHANGED load_reservation

AtHead(k) == window[k].lq = lqHead /\ window[k].lqPhase = lqHeadPhase

ExecuteLoad(k, l) ==
  LET i == window[k].lq
      n == Deciding(l)
      s == SQ[Back(l.sq_index, n, SQSize)]
      stalled == LQ' = [LQ EXCEPT ![i] = l] /\ UNCHANGED window IN
  IF l.amo /\ ~ AtHead(k)
  THEN stalled /\ UNCHANGED load_reservation
  ELSE /\ Reserve(l)
       /\ \/ /\ n # 0 /\ Verdict(s, l) = "stall"
             /\ stalled
          \/ /\ n # 0 /\ Verdict(s, l) = "forward"
             /\ Obtain(i, l, ForwardValue(s, l)) /\ UNCHANGED window
          \/ /\ n = 0                       \* the line is in the cache
             /\ \/ /\ Aligned(l.addr, l.size)
                   /\ Obtain(i, l, MemValue(l)) /\ UNCHANGED window
                \/ Obtain(i, l, NoData) /\ Mark(k, "exception")
          \/ /\ n = 0                       \* or it is not there yet
             /\ stalled

(* load_addr(): the load has its address and tries to execute.              *)
LoadAddr(k) ==
  /\ IsLoad(window[k].op)
  /\ LET e == LQ[window[k].lq] IN
     /\ ~ e.addr_avail
     /\ \E a \in Addr :
          ExecuteLoad(k, [e EXCEPT !.addr_avail = TRUE, !.addr = a])
  /\ UNCHANGED <<lqHead, lqHeadPhase, lqTail, lqTailPhase, lqLength, sqVars, mem>>

(* load_unstall(): a load that has its address but no value tries again.    *)
LoadReplay(k) ==
  /\ IsLoad(window[k].op)
  /\ LET e == LQ[window[k].lq] IN
     /\ e.addr_avail /\ ~ e.value_avail
     /\ ExecuteLoad(k, e)
  /\ UNCHANGED <<lqHead, lqHeadPhase, lqTail, lqTailPhase, lqLength, sqVars, mem>>

----------------------------------------------------------------------------
(* ld_violation(): a store that learns its address looks, from the first    *)
(* load behind it, for the oldest one that has taken its bytes too early.   *)

TookEarly(s, l) == l.addr_avail /\ l.value_avail /\ Conflict(s, l)

(* Mutant: equal pointers always mean that no load is behind the store.     *)
LoadsBehindNoPhase(k) == (lqTail - window[k].lq + LQSize) % LQSize

LoadsBehind(k) ==
  Distance(window[k].lq, window[k].lqPhase, lqTail, lqTailPhase, LQSize)

(* The queue indices, from the oldest on, of the loads behind a store.      *)
LoadBehind(k, n) == (window[k].lq + n) % LQSize

Violating(k, s) ==
  LET early == {n \in 0 .. LoadsBehind(k) - 1 : TookEarly(s, LQ[LoadBehind(k, n)])}
  IN IF early = {} THEN None
     ELSE LoadBehind(k, CHOOSE n \in early : \A m \in early : n <= m)

(* The window entry that a load queue entry's pay_index leads to.           *)
OwnerOf(i) == CHOOSE k \in DOMAIN window : IsLoad(window[k].op) /\ window[k].lq = i

MarkViolation(k, s) ==
  LET v == Violating(k, s) IN
  IF SpecDisambig /\ v # None THEN Mark(OwnerOf(v), "load_viol") ELSE UNCHANGED window

(* A store executes: store_addr(), which does nothing when the address is   *)
(* already there and stops at a translation trap, and then store_value().   *)
StoreExecute(k) ==
  /\ IsStore(window[k].op)
  /\ LET j == window[k].sq
         e == SQ[j] IN
     /\ ~ e.value_avail
     /\ \E a \in IF e.addr_avail THEN {e.addr} ELSE Addr, v \in Values :
          LET s == [e EXCEPT !.addr_avail = TRUE, !.addr = a, !.value_avail = TRUE,
                             !.value = [b \in Cover(a, e.size) |-> v]] IN
          /\ SQ' = [SQ EXCEPT ![j] = s]
          /\ IF e.addr_avail THEN UNCHANGED window
             ELSE \/ Mark(k, "exception")
                  \/ Aligned(a, e.size) /\ MarkViolation(k, s)
  /\ UNCHANGED <<lqVars, sqHead, sqHeadPhase, sqTail, sqTailPhase, sqLength,
                 load_reservation, mem>>

----------------------------------------------------------------------------
(* Branches.  A misprediction takes the queues back to their tails at the   *)
(* branch: restore() recomputes the length and the valid bits from them.    *)

ResolveCorrect(k) ==
  /\ window[k].op = "branch" /\ ~ window[k].resolved
  /\ Mark(k, "resolved")
  /\ UNCHANGED <<lqVars, sqVars, load_reservation, mem>>

(* Mutant: the length is taken modulo the size, so that full reads empty.   *)
LengthModulo(head, hp, tail, tp, size) == (size + tail - head) % size

Length(head, hp, tail, tp, size) ==
  LET n == (size + tail - head) % size IN IF n = 0 /\ tp # hp THEN size ELSE n

Revalidate(Q, head, n, size) ==
  [i \in DOMAIN Q |-> [Q[i] EXCEPT !.valid = \E m \in 0 .. n - 1 : (head + m) % size = i]]

Mispredict(k) ==
  /\ window[k].op = "branch" /\ ~ window[k].resolved
  /\ lqTail' = window[k].lq /\ lqTailPhase' = window[k].lqPhase
  /\ sqTail' = window[k].sq /\ sqTailPhase' = window[k].sqPhase
  /\ lqLength' = Length(lqHead, lqHeadPhase, lqTail', lqTailPhase', LQSize)
  /\ sqLength' = Length(sqHead, sqHeadPhase, sqTail', sqTailPhase', SQSize)
  /\ LQ' = Revalidate(LQ, lqHead, lqLength', LQSize)
  /\ SQ' = Revalidate(SQ, sqHead, sqLength', SQSize)
  /\ window' = SubSeq([window EXCEPT ![k].resolved = TRUE], 1, k)
  /\ UNCHANGED <<lqHead, lqHeadPhase, sqHead, sqHeadPhase, load_reservation, mem>>

----------------------------------------------------------------------------
(* The Retire stage, for the oldest instruction in flight.                  *)

Completed(e) ==
  CASE IsLoad(e.op)  -> LQ[e.lq].value_avail
    [] IsStore(e.op) -> SQ[e.sq].value_avail
    [] OTHER         -> e.resolved

MayCommit(e) == Completed(e) /\ ~ e.exception /\ ~ e.load_viol

CommitLoad ==
  /\ window # <<>> /\ IsLoad(Head(window).op) /\ MayCommit(Head(window))
  /\ LQ' = [LQ EXCEPT ![lqHead].valid = FALSE]
  /\ lqHead' = Inc(lqHead, LQSize)
  /\ lqHeadPhase' = Toggle(lqHead, lqHeadPhase, LQSize)
  /\ lqLength' = lqLength - 1
  /\ window' = Tail(window)
  /\ UNCHANGED <<lqTail, lqTailPhase, sqVars, load_reservation, mem>>

(* A store-conditional whose reservation is lost is not sent to memory.     *)
ReservationLost(s) == s.amo /\ load_reservation # s.addr

CommitStore ==
  /\ window # <<>> /\ IsStore(Head(window).op) /\ MayCommit(Head(window))
  /\ LET s == SQ[sqHead] IN
     mem' = IF ReservationLost(s) THEN mem
            ELSE [b \in Addr |-> IF b \in Cover(s.addr, s.size) THEN s.value[b] ELSE mem[b]]
  /\ SQ' = [SQ EXCEPT ![sqHead].valid = FALSE]
  /\ sqHead' = Inc(sqHead, SQSize)
  /\ sqHeadPhase' = Toggle(sqHead, sqHeadPhase, SQSize)
  /\ sqLength' = sqLength - 1
  /\ window' = Tail(window)
  /\ UNCHANGED <<lqVars, sqTail, sqTailPhase, load_reservation>>

CommitBranch ==
  /\ window # <<>> /\ Head(window).op = "branch" /\ MayCommit(Head(window))
  /\ window' = Tail(window)
  /\ UNCHANGED <<lqVars, sqVars, load_reservation, mem>>

Invalid(Q) == [i \in DOMAIN Q |-> [Q[i] EXCEPT !.valid = FALSE]]

(* squash_complete() for an exception or a load violation calls flush().    *)
(* A trap also yields the load reservation.                                 *)
Squash ==
  /\ window # <<>> /\ Completed(Head(window))
  /\ Head(window).exception \/ Head(window).load_viol
  /\ lqHead' = 0 /\ lqHeadPhase' = 0 /\ lqTail' = 0 /\ lqTailPhase' = 0 /\ lqLength' = 0
  /\ LQ' = Invalid(LQ)
  /\ sqHead' = 0 /\ sqHeadPhase' = 0 /\ sqTail' = 0 /\ sqTailPhase' = 0 /\ sqLength' = 0
  /\ SQ' = Invalid(SQ)
  /\ window' = <<>>
  /\ load_reservation' = IF Head(window).exception THEN None ELSE load_reservation
  /\ UNCHANGED mem

----------------------------------------------------------------------------
Arrive(op) ==
  \/ \E size \in Sizes, stall \in {TRUE, ~ SpecDisambig} :
       IsLoad(op) /\ DispatchLoad(op, size, stall)
  \/ \E size \in Sizes : IsStore(op) /\ DispatchStore(op, size)
  \/ op = "branch" /\ DispatchBranch

Next ==
  \/ \E op \in Ops : Arrive(op)
  \/ \E k \in DOMAIN window : LoadAddr(k)
  \/ \E k \in DOMAIN window : LoadReplay(k)
  \/ \E k \in DOMAIN window : StoreExecute(k)
  \/ \E k \in DOMAIN window : ResolveCorrect(k)
  \/ \E k \in DOMAIN window : Mispredict(k)
  \/ CommitLoad
  \/ CommitStore
  \/ CommitBranch
  \/ Squash

Spec == Init /\ [][Next]_vars

=============================================================================
