------------------------------ MODULE MCUnits ------------------------------
(***************************************************************************)
(* The caches with the load queue and the fetch unit that use them, and    *)
(* the floating-point unit, which share nothing: a behaviour is one of the *)
(* one or of the other.                                                    *)
(***************************************************************************)
EXTENDS CachesProperties, FPUnitProperties

VARIABLE unit    \* the one that runs

UnitsInit == CachesInit /\ FPInit /\ unit \in {"caches", "fp"}

UnitsNext ==
  \/ unit = "caches" /\ CachesNext /\ UNCHANGED <<fpVars, unit>>
  \/ unit = "fp" /\ FPNext /\ UNCHANGED <<cacheVars, unit>>

UnitsSpec ==
  /\ UnitsInit /\ [][UnitsNext]_<<cacheVars, fpVars, unit>>
  /\ unit = "caches" => []<><<NextCycle>>_cacheVars

(* One line of code and two of data, in caches of one set that two lines    *)
(* share or of two sets of one line, with fewer MHSRs than accesses.        *)
Small(d, i, s) == [c \in CacheNames |-> CASE c = "dc" -> d [] c = "ic" -> i [] OTHER -> s]
MCSets  == Small(1, 2, 1)
MCAssoc == Small(2, 1, 1)
MCMHSRs == Small(1, 1, 2)
MCPorts == Small(1, 1, 1)
MCHit   == Small(1, 1, 1)
MCReuse == Small(0, 0, 0)

(* Words of 8 and of 16 bits.                                               *)
MCF32 == [e |-> 5, m |-> 2]
MCF64 == [e |-> 6, m |-> 9]

Floats(mags) == [sign : BOOLEAN, mag : mags]
Mags(F, exps, fracs) == {x * 2 ^ F.m + y : x \in exps, y \in fracs}

(* Every single-precision number; double-precision ones whose fraction is   *)
(* all zeros, all ones, or next to a point where a rounding changes.        *)
MCNumbers ==
  [s |-> Floats(0 .. 2 ^ 7 - 1),
   d |-> Floats(Mags(MCF64, {0, 1, 2} \cup (29 .. 44) \cup {62, 63},
                     {0, 1, 2, 200, 255, 256, 257, 300, 510, 511}))]

Single == Floats(Mags(MCF32, {0, 1, 14, 15, 30}, 0 .. 3) \cup {124, 125, 127})
Double == Floats(Mags(MCF64, {0, 1, 31, 34, 62}, {0, 1, 256, 511}) \cup {63 * 512, 64 * 512 - 1})
MCPairs == [s |-> Single \X Single, d |-> Double \X Double]

(* In double precision also a product and an addend that cancel each other  *)
(* but for the last bit.                                                    *)
Few32 == Floats({0, 1, 4, 7, 59, 62, 63, 123, 124, 127})
Few64 == Floats({0, 3, 31 * 512, 31 * 512 + 1, 30 * 512 + 510, 62 * 512 + 511, 63 * 512})
MCTriples == [s |-> Few32 \X Few32 \X Few32, d |-> Few64 \X Few64 \X Few64]

MCIntegers32 == -200 .. 300
MCIntegers64 ==
  UNION {{s * (2 ^ k + d) : s \in {1, -1}, d \in {-2, -1, 0, 1, 2, 3, 5, 6}} : k \in 0 .. 14}
    \cup {2 ^ 15 - 1, - 2 ^ 15}

=============================================================================
