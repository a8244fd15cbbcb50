----------------------------- MODULE Difficulty -----------------------------
(***************************************************************************)
(* pkg/core: the targets and times of a chain's headers.  A chain is the   *)
(* sequence of its headers after the zero block, so a header's height is   *)
(* its index; hashes and targets are numbers.                              *)
(***************************************************************************)
EXTENDS Naturals, Sequences, FiniteSets, SequencesExt

CONSTANTS
    DifficultyPeriod, BlockTargetTime, MaxTarget, OriginalTarget,   \* core.Params
    HashMax,    \* 2^256 - 1
    Hour        \* how far in the future a header may be

\* Params.verify, and what the nets' parameters have in common.
ASSUME DifficultyAssumption ==
    /\ {DifficultyPeriod, BlockTargetTime, MaxTarget, OriginalTarget, HashMax, Hour} \subseteq Nat
    /\ DifficultyPeriod >= 4 /\ BlockTargetTime > 0
    /\ 4 * MaxTarget <= HashMax
    /\ OriginalTarget \in 1..MaxTarget

Header == [target : 1..HashMax, time : Nat]

Lesser(a, b) == IF a < b THEN a ELSE b

-----------------------------------------------------------------------------
(* Targets *)

MinNextTarget(t) == t \div 4

\* Mutant: the bound of the net is left out.
MaxNextTarget_Unbounded(t) == 4 * t
MaxNextTarget(t) == IF MaxTarget < t THEN MaxTarget ELSE Lesser(4 * t, MaxTarget)

\* Params.MaxTarget bounds the work from below, HashMax from above.
TargetToWork(t) == HashMax \div t

\* TargetsToTotalWork, and BlockRecord.TotalWork by WorkAppendTarget.
TotalWork(chain) == FoldLeft(LAMBDA work, b : work + TargetToWork(b.target), 0, chain)

\* The height of the first block that ExpectedTargetAdjustment measures from: of the
\* period of the block at h.
PeriodFirst(h) ==
    IF h < DifficultyPeriod THEN 1 ELSE (h \div DifficultyPeriod) * DifficultyPeriod

\* The block after this chain begins a period, and has its target adjusted.
EndsPeriod(chain) == (Len(chain) + 1) % DifficultyPeriod = 0

\* ExpectedTargetAdjustment has an error, which NextTarget panics with.
NextTargetPanics(chain) ==
    /\ chain # <<>> /\ EndsPeriod(chain)
    /\ Last(chain).time <= chain[PeriodFirst(Len(chain))].time

\* Mutant: the new target is not held below its maximum.
Adjusted_NoCeiling(chain) ==
    LET first == PeriodFirst(Len(chain)) IN
    (Last(chain).target * (Last(chain).time - chain[first].time))
        \div (BlockTargetTime * (Len(chain) - first))

\* The last target, scaled by the time that the period took over the time it should
\* have taken, within a factor of four.
Adjusted(chain) ==
    LET first == PeriodFirst(Len(chain))
        actual == Last(chain).time - chain[first].time
        desired == BlockTargetTime * (Len(chain) - first)
        prev == Last(chain).target
        scaled == Lesser((prev * actual) \div desired, HashMax)
        raised == IF scaled < MinNextTarget(prev) THEN MinNextTarget(prev) ELSE scaled
    IN  Lesser(raised, MaxNextTarget(prev))

NextTarget(chain) ==
    IF chain = <<>> THEN OriginalTarget
    ELSE IF EndsPeriod(chain) THEN Adjusted(chain) ELSE Last(chain).target

-----------------------------------------------------------------------------
(* VerifyBlock, what it says of the header of a block on this chain *)

LastTimes(chain) ==
    LET n == Lesser(Len(chain), 5)
    IN  [i \in 1..n |-> chain[Len(chain) - n + i].time]

\* The k-th smallest of the times.
Kth(times, k) ==
    CHOOSE t \in {times[i] : i \in DOMAIN times} :
        /\ Cardinality({i \in DOMAIN times : times[i] < t}) < k
        /\ Cardinality({i \in DOMAIN times : times[i] <= t}) >= k

\* Mutant: the times are not sorted.
MedianTime_Unsorted(chain) ==
    LET times == LastTimes(chain) IN times[(Len(times) + 1) \div 2]

MedianTime(chain) ==
    LET times == LastTimes(chain)
        n == Len(times)
    IN  IF n % 2 = 1 THEN Kth(times, (n + 1) \div 2)
        ELSE (Kth(times, n \div 2) + Kth(times, n \div 2 + 1)) \div 2

AboveMedian(chain, b) == chain # <<>> => b.time > MedianTime(chain)

\* The height of the new block.  In Go, % binds tighter than +, so this holds of none.
IsLastInPeriod(h) == h + (1 % DifficultyPeriod) = 0

AfterFirstInPeriod(chain, b) ==
    LET h == Len(chain) + 1 IN IsLastInPeriod(h) => b.time > chain[PeriodFirst(h)].time

NotInFuture(b, now) == b.time <= now + Hour

\* Mutant: a target may change in any block.
TargetFollows_Anywhere(chain, b) ==
    IF chain = <<>> THEN b.target = OriginalTarget
    ELSE b.target \in MinNextTarget(Last(chain).target)..MaxNextTarget(Last(chain).target)

TargetFollows(chain, b) ==
    /\ chain = <<>> => b.target = OriginalTarget
    /\ chain # <<>> /\ EndsPeriod(chain) =>
         b.target \in MinNextTarget(Last(chain).target)..MaxNextTarget(Last(chain).target)
    /\ chain # <<>> /\ ~EndsPeriod(chain) => b.target = Last(chain).target

\* VerifyBlockIsolated: a hash below the target was found, and none is below 0.
Beatable(b) == b.target > 0

VerifyHeader(chain, b, now) ==
    /\ Beatable(b)
    /\ AboveMedian(chain, b)
    /\ AfterFirstInPeriod(chain, b)
    /\ NotInFuture(b, now)
    /\ TargetFollows(chain, b)

=============================================================================
