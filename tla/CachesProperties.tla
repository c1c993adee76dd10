-------------------------- MODULE CachesProperties --------------------------
(***************************************************************************)
(* What the caches promise: that an access knows when its line will be     *)
(* there, and that everybody gets it.                                      *)
(***************************************************************************)
EXTENDS Caches

(* No line is in two ways.                                                  *)
LinesApart(k) ==
  \A s \in DOMAIN k.array : \A i, j \in DOMAIN k.array[s] :
    k.array[s][i].tag = k.array[s][j].tag => i = j

(* The MHSR that a line names is at work, and for this line.                *)
Names(k, l) == l.mhsr # NoMHSR => k.mhsr[l.mhsr].busy /\ k.mhsr[l.mhsr].line = l.tag

MHSRsNamed(k) == \A s \in DOMAIN k.array : \A i \in DOMAIN k.array[s] : Names(k, k.array[s][i])

(* A line that names none is not on its way.  With more ways and more MHSRs *)
(* it may have been replaced while it was loaded, and loaded again by an    *)
(* MHSR that was faster.                                                    *)
InOrder(c) == Assoc[c] = 1 \/ MHSRs[c] = 1

Arrived(k) ==
  \A s \in DOMAIN k.array : \A i \in DOMAIN k.array[s] : k.array[s][i].mhsr = NoMHSR =>
    \A m \in DOMAIN k.mhsr :
      k.mhsr[m].busy /\ k.mhsr[m].line = k.array[s][i].tag => k.mhsr[m].resolved <= 0

(* MHSRs are freed lazily, by whoever needs one or finds that the line has  *)
(* come, after the line may have been replaced and loaded again: still, the *)
(* MHSR that a line names is at work and for this line; in a first-level    *)
(* cache a line on its way is not mistaken for one that is there; no line   *)
(* is in two ways; and the second level never refuses a miss of the first,  *)
(* which would not notice, if it has as many MHSRs as all that share it.    *)
MHSRsPrecise ==
  /\ \A c \in CacheNames : LinesApart(caches[c]) /\ MHSRsNamed(caches[c])
  /\ ~ overrun => \A c \in L1s : InOrder(c) => Arrived(caches[c])
  /\ MHSRs["l2"] >= MHSRs["dc"] + MHSRs["ic"] => ~ overrun

(* The oldest operation gets its line, if it has to be tried again every    *)
(* cycle, while younger ones and the fetch unit take MHSRs, ways and ports. *)
RefusedAccepted ==
  (memops # <<>> /\ Head(memops).until # Done) ~> (memops # <<>> /\ Head(memops).until = Done)

=============================================================================
