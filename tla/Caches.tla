------------------------------- MODULE Caches -------------------------------
(***************************************************************************)
(* The cache hierarchy (CacheClass.cc): a data cache and an instruction    *)
(* cache over a second level that they share.  A cache answers an access   *)
(* at once with the cycle in which it will be done, and keeps only what it *)
(* takes to know that: tags in LRU order, the miss handling status         *)
(* registers (MHSRs) of the lines being loaded, and when each port to the  *)
(* next level is free.  An access that finds no MHSR is refused; the       *)
(* load/store unit tries a refused load again in the next cycle.           *)
(*                                                                         *)
(* All cycles are relative to the current one, and what lies further back  *)
(* than its predecessor is as good as that.                                *)
(***************************************************************************)
EXTENDS Integers, SequencesExt, FiniteSetsExt

CONSTANTS
  Lines,        \* line addresses 0 .. Lines - 1
  CodeLines,    \* of which the program begins in the first
  Sets, Assoc,  \* of each cache: the number of sets and of ways,
  MHSRs, Ports, \* of MHSRs and of miss ports,
  Hit, Reuse,   \* the latency of a hit and of the reuse of a port
  MissLatency,  \* of the second level
  MemWindow     \* memory operations in flight

L1s        == {"dc", "ic"}
CacheNames == L1s \cup {"l2"}

ASSUME CachesAssumption ==
  /\ {Lines, CodeLines, MissLatency, MemWindow} \subseteq Nat \ {0}
  /\ {Sets, Assoc, MHSRs, Ports, Hit} \subseteq [CacheNames -> Nat \ {0}]
  /\ Reuse \in [CacheNames -> Nat]

VARIABLES
  caches,     \* of each cache: array (of each set the lines, most recently used
              \* first), mhsr and port (cycle in which it is available)
  overrun,    \* the second level has refused an access: the first takes the -1
              \* for a cycle, and all that follows is wrong
  memops,     \* loads and stores in flight, oldest first
  fetching,   \* the line fetched from and the cycle to wait for
  even        \* the number of the cycle is even

cacheVars == <<caches, overrun, memops, fetching, even>>

NoMHSR  == 0
Refused == -1
Idle    == [busy |-> FALSE, line |-> 0, resolved |-> 0]

CachesInit ==
  /\ caches = [c \in CacheNames |->
                 [array |-> [s \in 0 .. Sets[c] - 1 |-> <<>>],
                  mhsr  |-> [i \in 1 .. MHSRs[c] |-> Idle],
                  port  |-> [i \in 1 .. Ports[c] |-> 0]]]
  /\ overrun = FALSE
  /\ memops = <<>>
  /\ fetching = [line |-> 0, until |-> 0]
  /\ even = TRUE

----------------------------------------------------------------------------
(* One cache, as the record k, and a line.                                  *)
SetOf(c, line)     == line % Sets[c]
Present(set, line) == \E w \in DOMAIN set : set[w].tag = line
Way(set, line)     == CHOOSE w \in DOMAIN set : set[w].tag = line

(* lookup() makes the line it finds the most recently used one.             *)
From(w, i) == IF i = 1 THEN w ELSE IF i <= w THEN i - 1 ELSE i

Touch(set, line) ==
  IF Present(set, line) THEN [i \in DOMAIN set |-> set[From(Way(set, line), i)]] ELSE set

(* The first line of the set has come, and lets go of its MHSR.             *)
LetGo(set) == [set EXCEPT ![1].mhsr = NoMHSR]

(* Mutant: leaves the lines alone.                                          *)
JustIdle(c, k, i) == [k EXCEPT !.mhsr[i] = Idle]

(* FindFreeMHSR: a finished MHSR is freed by who needs one, and the line it *)
(* loaded may have been replaced, or be loaded again by another.            *)
Release(c, k, i) ==
  LET s   == SetOf(c, k.mhsr[i].line)
      set == Touch(k.array[s], k.mhsr[i].line) IN
  [k EXCEPT !.mhsr[i] = Idle,
            !.array[s] = IF Present(set, k.mhsr[i].line) /\ set[1].mhsr = i
                         THEN LetGo(set) ELSE set]

(* Mutant: only those that a hit has freed.                                 *)
OnlyIdle(m, cur) == ~ m.busy

Finished(m, cur) == ~ m.busy \/ m.resolved < cur

FreeMHSRs(k, cur) == {i \in DOMAIN k.mhsr : Finished(k.mhsr[i], cur)}

FindNextPort(k) == CHOOSE p \in DOMAIN k.port :
                     \A q \in DOMAIN k.port : k.port[p] < k.port[q]
                                              \/ (k.port[p] = k.port[q] /\ p <= q)

Latest(a, b) == IF a < b THEN b ELSE a

(* A hit: the line may still be on its way.                                 *)
Found(set, line, store) == [Touch(set, line) EXCEPT ![1].dirty = @ \/ store]

Come(k, m, cur) == m # NoMHSR /\ k.mhsr[m].resolved <= cur

HitAccess(c, k, cur, line, store) ==
  LET s   == SetOf(c, line)
      set == Found(k.array[s], line, store)
      m   == set[1].mhsr IN
  IF Come(k, m, cur)
  THEN [k |-> [k EXCEPT !.array[s] = LetGo(set), !.mhsr[m] = Idle],
        t |-> cur]
  ELSE [k |-> [k EXCEPT !.array[s] = set],
        t |-> IF m = NoMHSR THEN cur ELSE Latest(k.mhsr[m].resolved, cur + Hit[c])]

(* A new line takes the place of the least recently used one, if the set is *)
(* full.                                                                    *)
Full(c, set) == Len(set) = Assoc[c]

Pushed(c, set, new) ==
  [i \in 1 .. (IF Full(c, set) THEN Len(set) ELSE Len(set) + 1) |->
     IF i = 1 THEN new ELSE set[i - 1]]

Filled(c, k, line, store, m) ==
  [k EXCEPT !.array[SetOf(c, line)] =
     Pushed(c, @, [tag |-> line, mhsr |-> m, dirty |-> store])]

VictimThere(c, k, set) ==
  IF Full(c, set) /\ Last(set).mhsr # NoMHSR THEN k.mhsr[Last(set).mhsr].resolved ELSE 0

(* What a miss finds, when the MHSR m is free: a port, when it may begin to *)
(* load its line (the cache has been looked up, the port is free, and the   *)
(* line that it replaces has arrived), and whether that one must be written *)
(* back first.                                                              *)
MissIn(c, k, cur, line, m) ==
  LET p   == FindNextPort(k)
      set == k.array[SetOf(c, line)] IN
  [m |-> m, k |-> k, p |-> p,
   start |-> Latest(Latest(cur + Hit[c], k.port[p]), VictimThere(c, k, set)),
   dirty |-> Full(c, set) /\ Last(set).dirty]

Miss(c, k, cur, line) ==
  LET m == Min(FreeMHSRs(k, cur)) IN
  MissIn(c, IF k.mhsr[m].busy THEN Release(c, k, m) ELSE k, cur, line, m)

(* The cache after the miss a, written back by the cycle wb and with the    *)
(* line arriving in the cycle t.                                            *)
Missed(c, a, line, store, wb, t) ==
  [Filled(c, a.k, line, store, a.m) EXCEPT
     !.port[a.p] = wb + Reuse[c],
     !.mhsr[a.m] = [busy |-> TRUE, line |-> line, resolved |-> t]]

(* Memory always answers.                                                   *)
FromMemory(a, line, store) ==
  LET wb == IF a.dirty THEN a.start + MissLatency ELSE a.start IN
  [k |-> Missed("l2", a, line, store, wb, wb + MissLatency), t |-> wb + MissLatency]

(* Access to the second level: k after it and the cycle t in which the line *)
(* is in the array (Refused: no MHSR).                                      *)
SecondLevel(k, cur, line, store) ==
  IF Present(k.array[SetOf("l2", line)], line) THEN HitAccess("l2", k, cur, line, store)
  ELSE IF FreeMHSRs(k, cur) = {} THEN [k |-> k, t |-> Refused]
  ELSE FromMemory(Miss("l2", k, cur, line), line, store)

(* What the second level answers, for the first.                            *)
Answered(b) == [k |-> b.k, t |-> b.t + Hit["l2"], over |-> b.t = Refused]

(* A dirty line is written back to the second level, at the address of the  *)
(* new one, before that is loaded.                                          *)
WriteBack(l2, a, line) ==
  IF a.dirty THEN Answered(SecondLevel(l2, a.start, line, TRUE))
  ELSE [k |-> l2, t |-> a.start, over |-> FALSE]

(* The line is loaded (b) after what was written back (w).                  *)
Loaded(all, c, a, line, store, w, b) ==
  [all  |-> [all EXCEPT ![c] = Missed(c, a, line, store, w.t, b.t), !["l2"] = b.k],
   t    |-> b.t,
   over |-> w.over \/ b.over]

LoadAfter(all, c, a, line, store, w) ==
  Loaded(all, c, a, line, store, w, Answered(SecondLevel(w.k, w.t, line, FALSE)))

FirstLevelMiss(all, c, a, line, store) ==
  LoadAfter(all, c, a, line, store, WriteBack(all["l2"], a, line))

(* Access to a first-level cache, in the current cycle.                     *)
FirstLevelHit(all, c, h) == [all |-> [all EXCEPT ![c] = h.k], t |-> h.t, over |-> FALSE]

FirstLevel(all, c, line, store) ==
  LET k == all[c] IN
  IF Present(k.array[SetOf(c, line)], line)
  THEN FirstLevelHit(all, c, HitAccess(c, k, 0, line, store))
  ELSE IF FreeMHSRs(k, 0) = {} THEN [all |-> all, t |-> Refused, over |-> FALSE]
  ELSE FirstLevelMiss(all, c, Miss(c, k, 0, line), line, store)

----------------------------------------------------------------------------
(* The load/store unit.  until is the cycle a load waits for, Done for a    *)
(* load that has its value and for a store, which waits for nothing; the    *)
(* line is not needed any more once the access was taken.                   *)
Done == -2

MemOp(line, until) == [line |-> IF until = Refused THEN line ELSE 0, until |-> until]

LoadUntil(a) == CASE a.t = Refused -> Refused
                  [] a.t = 0       -> Done
                  [] OTHER         -> a.t + Hit["dc"]

Load(line) ==
  /\ Len(memops) < MemWindow
  /\ LET a == FirstLevel(caches, "dc", line, FALSE) IN
     /\ caches' = a.all /\ overrun' = (overrun \/ a.over)
     /\ memops' = Append(memops, MemOp(line, LoadUntil(a)))
  /\ UNCHANGED <<fetching, even>>

(* A refused store is not tried again.                                      *)
Store(line) ==
  /\ Len(memops) < MemWindow
  /\ LET a == FirstLevel(caches, "dc", line, TRUE) IN
     /\ caches' = a.all /\ overrun' = (overrun \/ a.over)
     /\ memops' = Append(memops, MemOp(line, Done))
  /\ UNCHANGED <<fetching, even>>

(* The access a is the n-th operation's new try.                            *)
TriedAgain(b, n, a) ==
  [b EXCEPT !.all = a.all, !.over = @ \/ a.over, !.ops[n] = MemOp(b.ops[n].line, LoadUntil(a)),
            !.unstalled = (LoadUntil(a) = Done)]

(* load_unstall: tries refused loads again, oldest first, up to the first   *)
(* load that has its value now.                                             *)
Unstall(b, n) ==
  LET op == b.ops[n] IN
  CASE b.unstalled \/ op.until = Done -> b
    [] ~ b.unstalled /\ op.until = Refused ->
         TriedAgain(b, n, FirstLevel(b.all, "dc", op.line, FALSE))
    [] ~ b.unstalled /\ op.until = 0 ->
         [b EXCEPT !.ops[n].until = Done, !.unstalled = TRUE]
    [] OTHER -> b

LoadReplay(all, over, ops) ==
  LET b[n \in 0 .. Len(ops)] ==
        IF n = 0 THEN [all |-> all, over |-> over, ops |-> ops, unstalled |-> FALSE]
        ELSE Unstall(b[n - 1], n)
  IN b[Len(ops)]

----------------------------------------------------------------------------
(* The fetch unit needs a line and its successor, and waits until the later *)
(* one is there; then it looks them up again.  It takes a refusal for the   *)
(* last cycle of all, and waits to be redirected.                           *)
Forever == -1

FetchUntil(a) == IF a.t = 0 THEN 0 ELSE a.t + Hit["ic"]

LookedUp(first, second) ==
  [all |-> second.all, over |-> first.over \/ second.over,
   until |-> IF Refused \in {first.t, second.t} THEN Forever
             ELSE Latest(FetchUntil(first), FetchUntil(second))]

Lookup(line) ==
  LET first == FirstLevel(caches, "ic", line, FALSE) IN
  LookedUp(first, FirstLevel(first.all, "ic", (line + 1) % Lines, FALSE))

(* One cycle later.                                                         *)
Later(t) == IF t > -1 THEN t - 1 ELSE t

LaterMHSRs(regs) ==
  [i \in DOMAIN regs |-> IF regs[i].busy THEN [regs[i] EXCEPT !.resolved = Later(@)] ELSE Idle]

LaterPorts(ports) == [p \in DOMAIN ports |-> Latest(0, ports[p] - 1)]

AfterCycle(all) ==
  [c \in CacheNames |-> [all[c] EXCEPT !.mhsr = LaterMHSRs(@), !.port = LaterPorts(@)]]

Waits(until) == IF until > 0 THEN until - 1 ELSE until

OpsAfterCycle == [n \in DOMAIN memops |-> [memops[n] EXCEPT !.until = Waits(@)]]

(* Fetching comes last in a cycle, if the fetch unit does not wait, for the *)
(* cache or for the decode stage.                                           *)
Fetched ==
  {[all |-> caches, over |-> FALSE, until |-> fetching.until]}
  \cup (IF fetching.until = 0 THEN {Lookup(fetching.line)} ELSE {})

(* Where to fetch from in the next cycle: go on, or be redirected; a        *)
(* misprediction does not change the cycle to wait for, a flush does.       *)
NextFetches(until) ==
  {[line |-> line, until |-> u] : line \in 0 .. CodeLines - 1, u \in {until, 0}}

(* From the fetch stage of one cycle to the execute stage of the next: what *)
(* is done may retire, and the stalled loads have their turn.               *)
NextCycle ==
  \E f \in Fetched, retired \in 0 .. Len(memops) :
    /\ \A n \in 1 .. retired : memops[n].until = Done
    /\ LET b == LoadReplay(AfterCycle(f.all), overrun \/ f.over,
                           SubSeq(OpsAfterCycle, retired + 1, Len(memops)))
       IN caches' = b.all /\ overrun' = b.over /\ memops' = b.ops
    /\ fetching' \in NextFetches(Waits(f.until))
    /\ even' = ~ even

CachesNext ==
  \/ \E line \in 0 .. Lines - 1 : Load(line) \/ Store(line)
  \/ NextCycle

(* The simulator goes from cycle to cycle: weak fairness of NextCycle,      *)
(* which is always enabled and never a stuttering step.                     *)
CachesSpec ==
  CachesInit /\ [][CachesNext]_cacheVars /\ []<><<NextCycle>>_cacheVars

=============================================================================
