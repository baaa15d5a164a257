--------------------------- MODULE ScheduleProofs ---------------------------
(***************************************************************************)
(* Proofs about the back-end schedule and the executors that run it.       *)
(* The memory plan: a feasible plan stays within the memory of its         *)
(* device, streaming is reserved for exactly when it happens, no fewer     *)
(* rows could be spilled, and the split between CPU and GPU is balanced.   *)
(* The executors, for every graph, matrix, depth and layout: after every   *)
(* layer the matrix is the one a single device computes, and the halo      *)
(* plan moves exactly the rows that are needed.                            *)
(***************************************************************************)
EXTENDS BackEndSchedule, Executors, Counting

\* The plans that the branches of plan_memory make for device k.
MadeFor(k, p) ==
    \/ Fit(k) >= 1 /\ p = SnapshotPlan(k)
    \/ /\ Fit(k) < 1 /\ ~(w.aware /\ RowBudget(k) > 0)
       /\ \E n \in Nat : p = InfeasiblePlan(k, n)
    \/ Fit(k) < 1 /\ w.aware /\ RowBudget(k) > 0 /\ p = RowPlan(k)

\* The inductive invariant.
PlansInv ==
    /\ InputOK
    /\ plans \in Seq({SnapshotPlan(k) : k \in Devices} \cup {RowPlan(k) : k \in Devices}
                     \cup {InfeasiblePlan(k, n) : k \in Devices, n \in Nat})
    /\ \A k \in DOMAIN plans : k \in Devices /\ MadeFor(k, plans[k])

-----------------------------------------------------------------------------
(* Arithmetic.                                                             *)

\* Rounding a fraction of natural numbers gives a natural number, and one
\* more or less crosses the fraction.
LEMMA RoundedIsNat ==
    ASSUME NEW p \in Nat, NEW q \in Nat \ {0}
    PROVE  /\ Rounded(p, q) \in Nat
           /\ (Rounded(p, q) + 1) * q >= p
           /\ (Rounded(p, q) - 1) * q <= p
<1> DEFINE d == p \div q
<1>1. d \in Nat /\ d * q <= p /\ p < (d + 1) * q OBVIOUS
<1>2. Rounded(p, q) \in {d, d + 1} BY DEF Rounded
<1> HIDE DEF d
<1>3. /\ (d + 1) * q = d * q + q /\ (d - 1) * q = d * q - q
      /\ (d + 1 + 1) * q = d * q + q + q /\ d + 1 - 1 = d
      /\ d * q \in Int
    BY <1>1
<1>4. CASE Rounded(p, q) = d BY <1>1, <1>3, <1>4
<1>5. CASE Rounded(p, q) = d + 1 BY <1>1, <1>3, <1>5
<1> QED BY <1>2, <1>4, <1>5

\* A product grows with its first factor.
LEMMA ProductMonotone ==
    ASSUME NEW m \in Int, NEW n \in Int, NEW x \in Nat, m <= n
    PROVE  m * x <= n * x
<1>1. \A d \in Nat : d * x >= 0 OBVIOUS
<1>2. n * x - m * x = (n - m) * x OBVIOUS
<1>3. (n - m) * x >= 0 BY <1>1
<1> m * x \in Int /\ n * x \in Int OBVIOUS
<1> QED BY <1>2, <1>3

\* A floored quotient times its divisor does not exceed the dividend, and
\* one more does.
LEMMA QuotientBounds ==
    ASSUME NEW a \in Int, NEW b \in Nat \ {0}
    PROVE  /\ a \div b \in Int
           /\ (a \div b) * b <= a
           /\ a < (a \div b + 1) * b
OBVIOUS

\* What fits by the quotient fits by its bytes.
LEMMA FitHolds ==
    ASSUME NEW cap \in Nat, NEW ov \in Nat, NEW ps \in Nat, NEW m \in Nat \ {0}, ps <= m,
           NEW n \in Nat, n <= (4 * cap - 5 * ov) \div (5 * m)
    PROVE  5 * (n * ps + ov) <= 4 * cap
<1> DEFINE q == (4 * cap - 5 * ov) \div (5 * m)
<1>1. /\ q \in Int
      /\ q * (5 * m) <= 4 * cap - 5 * ov
    <2>1. 4 * cap - 5 * ov \in Int /\ 5 * m \in Nat \ {0} OBVIOUS
    <2> QED BY <2>1, QuotientBounds
<1>2. ps * n <= m * n BY ProductMonotone
<1>3. n * m <= q * m BY <1>1, ProductMonotone
<1> HIDE DEF q
<1>4. /\ n * ps \in Int /\ n * m \in Int /\ q * m \in Int
      /\ ps * n = n * ps /\ m * n = n * m
    BY <1>1
<1>5. q * (5 * m) = 5 * (q * m) BY <1>1
<1>6. n * ps <= q * m BY <1>2, <1>3, <1>4
<1>7. 5 * (n * ps) <= 4 * cap - 5 * ov BY <1>1, <1>4, <1>5, <1>6
<1> QED BY <1>4, <1>7

\* What fits by its bytes fits by the quotient.
LEMMA HoldsFit ==
    ASSUME NEW cap \in Nat, NEW ov \in Nat, NEW ps \in Nat \ {0}, NEW n \in Nat,
           5 * (n * ps + ov) <= 4 * cap
    PROVE  n <= (4 * cap - 5 * ov) \div (5 * ps)
<1> DEFINE q == (4 * cap - 5 * ov) \div (5 * ps)
<1>1. q \in Int /\ 4 * cap - 5 * ov < (q + 1) * (5 * ps)
    <2>1. 4 * cap - 5 * ov \in Int /\ 5 * ps \in Nat \ {0} OBVIOUS
    <2> QED BY <2>1, QuotientBounds
<1> HIDE DEF q
<1>2. SUFFICES ASSUME q + 1 <= n PROVE FALSE
    BY <1>1 DEF q
<1>3. (q + 1) * ps <= n * ps BY <1>1, <1>2, ProductMonotone
<1>4. /\ (q + 1) * (5 * ps) = 5 * ((q + 1) * ps)
      /\ (q + 1) * ps \in Int /\ n * ps \in Int
    BY <1>1
<1> QED BY <1>1, <1>3, <1>4

-----------------------------------------------------------------------------
(* The plan of one device.                                                 *)

\* The sizes of any vertices add up to a natural number.
LEMMA DimsAreNumbers ==
    ASSUME InputOK, NEW S \in SUBSET DOMAIN w.home
    PROVE  /\ IsFiniteSet(S) /\ (\A v \in S : w.fv[v] \in Nat)
           /\ DimsOf(S) \in Nat /\ WeightOf(S) \in Nat
<1>1. IsFiniteSet(S) /\ (\A v \in S : w.fv[v] \in Nat)
    BY FS_Subset DEF InputOK
<1>2. DimsOf(S) \in Nat
    <2>1. \A v \in S : w.fv[v] \in Int BY <1>1
    <2> QED BY <1>1, <2>1, SumType DEF DimsOf
<1>3. WeightOf(S) \in Nat
    <2>1. DimsOf(S) * BytesPerFeat \in Nat /\ 1 + Layers \in Nat
        BY <1>2, PlannerAssumption
    <2> QED BY <2>1 DEF WeightOf
<1> QED BY <1>1, <1>2, <1>3

\* The bandwidths add up to a positive number.
LEMMA BandwidthIsPositive == InputOK => TotalBandwidth \in Nat \ {0}
<1> SUFFICES ASSUME InputOK PROVE TotalBandwidth \in Nat \ {0} OBVIOUS
<1> DEFINE f == [k \in Devices |-> hw[k].bw]
<1>1. IsFiniteSet(Devices) /\ 1 \in Devices /\ DOMAIN f = Devices
    BY FS_Interval, PlannerAssumption DEF Devices
<1>2. (\A k \in Devices : f[k] \in Nat /\ f[k] \in Int) /\ f[1] >= 1
    BY <1>1 DEF InputOK
<1> HIDE DEF f
<1>3. SumFunctionOnSet(f, Devices) = f[1] + SumFunctionOnSet(f, Devices \ {1})
    BY <1>1, <1>2, SumWithout
<1>4. SumFunctionOnSet(f, Devices \ {1}) \in Nat
    BY <1>1, <1>2, SumOfPart
<1>5. SumFunctionOnSet(f, Devices) \in Nat \ {0}
    BY <1>1, <1>2, <1>3, <1>4
<1> QED BY <1>1, <1>5 DEF TotalBandwidth, SumFunction, f

\* The fair shares and the share of every device are natural numbers.
LEMMA SharesAreNumbers ==
    ASSUME InputOK, NEW k \in Devices
    PROVE  NodesOn(k) \in Nat /\ DimsOn(k) \in Nat
<1> USE PlannerAssumption
<1>1. \A j \in Devices : FairShare[j] \in Nat
    <2> SUFFICES ASSUME NEW j \in Devices PROVE FairShare[j] \in Nat OBVIOUS
    <2>1. hw[j].bw * w.nodes \in Nat BY DEF InputOK
    <2>2. Rounded(hw[j].bw * w.nodes, TotalBandwidth) \in Nat
        BY <2>1, BandwidthIsPositive, RoundedIsNat
    <2> QED BY <2>2 DEF FairShare, Larger
<1>2. SumFunction(FairShare) \in Nat
    <2>1. IsFiniteSet(Devices) /\ DOMAIN FairShare = Devices
        BY FS_Interval DEF Devices, FairShare
    <2>2. \A j \in Devices : FairShare[j] \in Int BY <1>1
    <2> QED BY <1>1, <2>1, <2>2, SumType DEF SumFunction
<1>3. ScalarShare(k) \in Nat /\ w.nodes \in Nat /\ w.featDim \in Nat
    BY <1>1, <1>2 DEF ScalarShare, Larger, InputOK, Devices
<1>4. Core \in SUBSET DOMAIN w.home /\ HomedOn(k) \in SUBSET DOMAIN w.home
    BY DEF Core, HomedOn
<1>5. Cardinality(HomedOn(k)) + Cardinality(Core) \in Nat
    <2>1. Cardinality(HomedOn(k)) \in Nat /\ Cardinality(Core) \in Nat
        BY <1>4, DimsAreNumbers, FS_CardinalityType
    <2> QED BY <2>1
<1>6. DimsOf(HomedOn(k) \cup Core) \in Nat
    <2>1. HomedOn(k) \cup Core \in SUBSET DOMAIN w.home BY <1>4
    <2> QED BY <2>1, DimsAreNumbers
<1>7. ScalarShare(k) * w.featDim \in Nat BY <1>3
<1> QED BY <1>3, <1>5, <1>6, <1>7 DEF NodesOn, DimsOn

\* The byte counts of a device are natural numbers.
LEMMA DeviceFacts ==
    ASSUME InputOK, NEW k \in Devices
    PROVE  /\ hw[k].cap \in Nat /\ w.window \in Nat \ {0}
           /\ FeatBytes(k) \in Nat /\ EdgesOn(k) \in Nat /\ PerSnap(k) \in Nat
           /\ Overhead(k, WillStream(k)) \in Nat
           /\ Larger(1, PerSnap(k)) \in Nat \ {0} /\ PerSnap(k) <= Larger(1, PerSnap(k))
           /\ Fit(k) \in Int
<1> USE PlannerAssumption
<1>1. /\ hw[k].cap \in Nat /\ w.window \in Nat \ {0}
      /\ w.nodes \in Nat /\ w.edges \in Nat /\ NodesOn(k) \in Nat /\ DimsOn(k) \in Nat
    BY SharesAreNumbers DEF InputOK
<1>2. FeatBytes(k) \in Nat BY <1>1 DEF FeatBytes
<1>3. w.edges * NodesOn(k) \in Nat /\ Larger(1, w.nodes) \in Nat \ {0}
    BY <1>1 DEF Larger
<1>4. EdgesOn(k) \in Nat BY <1>3, RoundedIsNat DEF EdgesOn
<1>5. (1 + Layers) * FeatBytes(k) \in Nat /\ EdgesOn(k) * BytesPerEdge \in Nat
    BY <1>2, <1>4
<1>6. PerSnap(k) \in Nat BY <1>5 DEF PerSnap
<1>7. \A b \in BOOLEAN : Overhead(k, b) \in Nat
    <2>1. 3 * FeatBytes(k) \in Nat /\ 4 * FeatBytes(k) \in Nat BY <1>2
    <2> QED BY <2>1, <1>2 DEF Overhead, FwdTransientCopies
<1>8. WillStream(k) \in BOOLEAN BY DEF WillStream
<1>9. Larger(1, PerSnap(k)) \in Nat \ {0} /\ PerSnap(k) <= Larger(1, PerSnap(k))
    BY <1>6 DEF Larger
<1>10. Fit(k) \in Int
    <2>1. /\ 4 * hw[k].cap - 5 * Overhead(k, WillStream(k)) \in Int
          /\ 5 * Larger(1, PerSnap(k)) \in Nat \ {0}
        BY <1>1, <1>7, <1>8, <1>9
    <2> QED BY <2>1, QuotientBounds DEF Fit
<1> QED BY <1>1, <1>2, <1>4, <1>6, <1>7, <1>8, <1>9, <1>10

\* At most Fit(k) snapshots, their overhead and the allocator's quarter are
\* within the memory.
LEMMA FitIsSafe ==
    ASSUME InputOK, NEW k \in Devices, NEW n \in Nat, n <= Fit(k)
    PROVE  Inflated4(k, n, WillStream(k)) <= 4 * hw[k].cap
BY DeviceFacts, FitHolds DEF Inflated4, Fit

\* The device streams a part of the window exactly when the second prefetch
\* buffer was reserved.
LEMMA OverFitIffStreaming ==
    ASSUME InputOK, NEW k \in Devices, PerSnap(k) > 0
    PROVE  w.window > Fit(k) <=> WillStream(k)
<1> DEFINE f == FeatBytes(k) ps == PerSnap(k) cap == hw[k].cap
<1>1. /\ cap \in Nat /\ w.window \in Nat /\ f \in Nat /\ ps \in Nat \ {0}
      /\ Larger(1, ps) = ps
    BY DeviceFacts DEF Larger
<1>2. CASE ~WillStream(k)
    <2>1. Overhead(k, WillStream(k)) = 3 * f /\ Overhead(k, FALSE) = 3 * f
        BY <1>1, <1>2 DEF Overhead, FwdTransientCopies, WillStream
    <2>2. 5 * (w.window * ps + 3 * f) <= 4 * cap
        <3>1. Inflated4(k, w.window, FALSE) = 5 * (w.window * ps + 3 * f)
            BY <2>1 DEF Inflated4
        <3>2. ~(Inflated4(k, w.window, FALSE) > 4 * cap) BY <1>2 DEF WillStream
        <3>3. 5 * (w.window * ps + 3 * f) \in Int
            <4>1. w.window * ps \in Int BY <1>1
            <4> QED BY <1>1, <4>1
        <3>4. ~(5 * (w.window * ps + 3 * f) > 4 * cap) BY <3>1, <3>2
        <3>5. \A i \in Int : ~(i > 4 * cap) => i <= 4 * cap BY <1>1
        <3> QED BY ONLY <3>3, <3>4, <3>5
    <2>3. w.window <= (4 * cap - 5 * (3 * f)) \div (5 * ps)
        <3>1. 3 * f \in Nat BY <1>1
        <3> HIDE DEF f, ps, cap
        <3> QED BY <1>1, <2>2, <3>1, HoldsFit
    <2>4. w.window <= Fit(k) BY <2>1, <2>3, <1>1 DEF Fit
    <2> QED BY <1>1, <1>2, <2>4, DeviceFacts
<1>3. CASE WillStream(k)
    <2>1. Overhead(k, WillStream(k)) = 4 * f /\ Overhead(k, FALSE) = 3 * f
        BY <1>1, <1>3 DEF Overhead, FwdTransientCopies, WillStream
    <2>2. 5 * (w.window * ps + 3 * f) > 4 * cap
        BY <1>3, <2>1 DEF WillStream, Inflated4
    <2>3. SUFFICES ASSUME w.window <= Fit(k) PROVE FALSE
        BY <1>1, <1>3, DeviceFacts
    <2>4. 5 * (w.window * ps + 4 * f) <= 4 * cap
        BY <1>1, <2>1, <2>3, FitIsSafe DEF Inflated4
    <2>5. w.window * ps \in Int BY <1>1
    <2> HIDE DEF f, ps, cap
    <2> QED BY <1>1, <2>2, <2>4, <2>5
<1> QED BY <1>2, <1>3

\* The plan of a device that can hold a snapshot keeps its peak, unless it
\* can hold no more than are set aside.
LEMMA SnapshotPeak ==
    ASSUME InputOK, NEW k \in Devices, Fit(k) >= 1
    PROVE  LET p == SnapshotPlan(k)
           IN  \/ p.peak <= hw[k].cap
               \/ p.resident = 1 /\ p.streamed > 0 /\ Fit(k) \in 1 .. ReserveBuffers
<1>1. /\ hw[k].cap \in Nat /\ w.window \in Nat \ {0} /\ Fit(k) \in Nat \ {0}
      /\ PerSnap(k) \in Nat /\ Overhead(k, WillStream(k)) \in Nat /\ ReserveBuffers \in Nat
    BY DeviceFacts, PlannerAssumption
<1>2. Counted(k) \in Nat BY <1>1 DEF Counted, Resident, Smaller, Larger
<1>3. CASE Counted(k) <= Fit(k)
    <2>1. Inflated4(k, Counted(k), WillStream(k)) <= 4 * hw[k].cap
        BY <1>2, <1>3, FitIsSafe
    <2>2. Inflated4(k, Counted(k), WillStream(k)) \in Int
        <3>1. Counted(k) * PerSnap(k) \in Int BY <1>1, <1>2
        <3> QED BY <1>1, <3>1 DEF Inflated4
    <2>3. Inflated4(k, Counted(k), WillStream(k)) \div 4 <= hw[k].cap BY <1>1, <2>1, <2>2
    <2> QED BY <2>3 DEF SnapshotPlan
<1>4. CASE Counted(k) > Fit(k)
    <2>1. /\ Resident(k) = 1 /\ w.window - Resident(k) > 0
          /\ Fit(k) \in 1 .. ReserveBuffers
        BY <1>1, <1>4 DEF Counted, Resident, Smaller, Larger
    <2> QED BY <2>1 DEF SnapshotPlan
<1> QED BY <1>1, <1>2, <1>3, <1>4

\* Spilled rows: the plan is feasible only within the memory.
LEMMA RowPeak ==
    ASSUME InputOK, NEW k \in Devices, RowPlan(k).feasible
    PROVE  RowPlan(k).peak <= hw[k].cap
<1> USE PlannerAssumption
<1>1. hw[k].cap \in Nat /\ EdgesOn(k) \in Nat BY DeviceFacts
<1>2. \A S \in SUBSET DOMAIN w.home : DimsOf(S) \in Nat /\ WeightOf(S) \in Nat
    BY DimsAreNumbers
<1>3. HomedOn(k) \in SUBSET DOMAIN w.home /\ Spilled(k) \in SUBSET DOMAIN w.home
    BY DEF HomedOn, Spilled
<1>4. EdgeBytes(k) \in Nat BY <1>1 DEF EdgeBytes
<1>5. /\ WeightOf(HomedOn(k)) \in Nat /\ WeightOf(Spilled(k)) \in Nat
      /\ DimsOf(HomedOn(k)) * BytesPerFeat \in Nat
    BY <1>2, <1>3
<1>6. Resident2(k) \in Int
    <2> DEFINE a == WeightOf(HomedOn(k)) b == WeightOf(Spilled(k)) e == EdgeBytes(k)
               d == DimsOf(HomedOn(k)) * BytesPerFeat
    <2>1. a \in Nat /\ b \in Nat /\ e \in Nat /\ d \in Nat BY <1>4, <1>5
    <2>2. Resident2(k) \in {2 * (a - b + e) + d, 2 * (a - b + e) + 0} BY DEF Resident2
    <2> HIDE DEF a, b, e, d
    <2> QED BY <2>1, <2>2
<1>7. Resident2(k) <= 2 * hw[k].cap BY DEF RowPlan
<1>8. Resident2(k) \div 2 <= hw[k].cap BY <1>1, <1>6, <1>7
<1> QED BY <1>8 DEF RowPlan

\* The bytes of the rows of a device, and what has to go.
LEMMA RowNumbers ==
    ASSUME InputOK, NEW k \in Devices
    PROVE  /\ EdgeBytes(k) \in Nat /\ RowBudget(k) \in Int /\ NeedFree(k) \in Int
           /\ HomedOn(k) \in SUBSET DOMAIN w.home
           /\ Spilled(k) \in SUBSET HomedOn(k)
<1> USE PlannerAssumption
<1>1. hw[k].cap \in Nat /\ EdgesOn(k) \in Nat BY DeviceFacts
<1>2. EdgeBytes(k) \in Nat BY <1>1 DEF EdgeBytes
<1>3. RowBudget(k) \in Int BY <1>1, <1>2 DEF RowBudget
<1>4. HomedOn(k) \in SUBSET DOMAIN w.home /\ Spilled(k) \in SUBSET HomedOn(k)
    BY DEF HomedOn, Spilled
<1>5. NeedFree(k) \in Int BY <1>3, <1>4, DimsAreNumbers DEF NeedFree
<1> QED BY <1>2, <1>3, <1>4, <1>5

\* The rows that come before v in the order of the spill.
First(k, v) == {u \in HomedOn(k) : Ahead(u, v)}

\* The order of the spill is total: the rows before an earlier row are fewer.
LEMMA SpillOrder ==
    ASSUME InputOK, NEW k \in Devices, NEW u \in HomedOn(k), NEW v \in HomedOn(k)
    PROVE  /\ First(k, u) \in SUBSET HomedOn(k) /\ Cardinality(First(k, u)) \in Nat
           /\ u = v \/ Ahead(u, v) \/ Ahead(v, u)
           /\ Ahead(u, v) => Cardinality(First(k, u)) < Cardinality(First(k, v))
<1>1. /\ \A x \in HomedOn(k) : x \in Nat /\ w.fv[x] \in Nat
      /\ IsFiniteSet(HomedOn(k))
    <2>1. HomedOn(k) \in SUBSET DOMAIN w.home BY RowNumbers
    <2> QED BY <2>1, DimsAreNumbers DEF InputOK
<1>2. \A x : /\ First(k, x) \in SUBSET HomedOn(k) /\ IsFiniteSet(First(k, x))
             /\ Cardinality(First(k, x)) \in Nat
    BY <1>1, FS_Subset, FS_CardinalityType DEF First
<1>3. u = v \/ Ahead(u, v) \/ Ahead(v, u) BY <1>1 DEF Ahead
<1>4. ASSUME Ahead(u, v) PROVE Cardinality(First(k, u)) < Cardinality(First(k, v))
    <2>1. \A x \in HomedOn(k) : Ahead(x, u) => Ahead(x, v) BY <1>1, <1>4 DEF Ahead
    <2>2. ~Ahead(u, u) BY <1>1 DEF Ahead
    <2>3. u \in First(k, v) /\ u \notin First(k, u) BY <1>4, <2>2 DEF First
    <2>4. First(k, u) \subseteq First(k, v) BY <2>1 DEF First
    <2>5. First(k, u) \subseteq First(k, v) \ {u} BY <2>3, <2>4
    <2>6. /\ IsFiniteSet(First(k, v) \ {u})
          /\ Cardinality(First(k, v) \ {u}) = Cardinality(First(k, v)) - 1
        BY <1>2, <2>3, FS_RemoveElement
    <2>7. Cardinality(First(k, u)) <= Cardinality(First(k, v) \ {u})
        BY <2>5, <2>6, FS_Subset
    <2> QED BY <1>2, <2>6, <2>7
<1> QED BY <1>2, <1>3, <1>4

\* The bytes of a set of rows grow with their sizes.
LEMMA WeightsCompare ==
    ASSUME InputOK, NEW S \in SUBSET DOMAIN w.home, NEW R \in SUBSET DOMAIN w.home,
           DimsOf(S) <= DimsOf(R)
    PROVE  WeightOf(S) <= WeightOf(R)
<1>1. DimsOf(S) \in Nat /\ DimsOf(R) \in Nat BY DimsAreNumbers
<1>2. BytesPerFeat \in Nat /\ 1 + Layers \in Nat BY PlannerAssumption
<1>3. DimsOf(S) * BytesPerFeat <= DimsOf(R) * BytesPerFeat
    BY <1>1, <1>2, ProductMonotone
<1>4. DimsOf(S) * BytesPerFeat \in Int /\ DimsOf(R) * BytesPerFeat \in Int
    BY <1>1, <1>2
<1>5. DimsOf(S) * BytesPerFeat * (1 + Layers) <= DimsOf(R) * BytesPerFeat * (1 + Layers)
    BY <1>2, <1>3, <1>4, ProductMonotone
<1> QED BY <1>5 DEF WeightOf

\* What is spilled suffices: the first row that stays has enough bytes ahead
\* of it, all of them spilled.
LEMMA SpillSuffices ==
    ASSUME InputOK, NEW k \in Devices, RowBudget(k) > 0
    PROVE  WeightOf(Spilled(k)) >= NeedFree(k)
<1> DEFINE H == HomedOn(k) P == Spilled(k)
<1>1. /\ H \in SUBSET DOMAIN w.home /\ P \in SUBSET H
      /\ RowBudget(k) \in Int /\ NeedFree(k) \in Int
      /\ \A S \in SUBSET H : WeightOf(S) \in Nat
    BY RowNumbers, DimsAreNumbers
<1>2. CASE P = H
    BY <1>1, <1>2 DEF NeedFree
<1>3. CASE P # H
    <2> DEFINE T == {Cardinality(First(k, v)) : v \in H \ P}
    <2>1. T \in SUBSET Nat /\ T # {} BY <1>1, <1>3, SpillOrder
    <2>2. PICK m \in T : \A n \in T : m <= n
        <3> HIDE DEF T
        <3> QED BY <2>1, Least
    <2>3. PICK v \in H \ P : m = Cardinality(First(k, v)) BY <2>2
    <2>4. First(k, v) \subseteq P
        <3> SUFFICES ASSUME NEW u \in First(k, v), u \notin P PROVE FALSE OBVIOUS
        <3>1. u \in H \ P /\ Ahead(u, v) BY DEF First
        <3>2. Cardinality(First(k, u)) < m BY <2>3, <3>1, SpillOrder
        <3>3. m <= Cardinality(First(k, u)) BY <2>2, <3>1
        <3>4. Cardinality(First(k, u)) \in Nat /\ m \in Nat BY <2>1, <2>2, <3>1, SpillOrder
        <3> QED BY <3>2, <3>3, <3>4
    <2>5. ~(WeightOf(First(k, v)) < NeedFree(k)) BY <2>3 DEF Spilled, First
    <2>6. WeightOf(First(k, v)) <= WeightOf(P)
        <3>1. First(k, v) \in SUBSET P /\ P \in SUBSET DOMAIN w.home BY <1>1, <2>4
        <3>2. DimsOf(First(k, v)) <= DimsOf(P)
            BY <3>1, DimsAreNumbers, SumOfPart DEF DimsOf
        <3> QED BY <3>1, <3>2, WeightsCompare
    <2>7. WeightOf(First(k, v)) \in Nat /\ WeightOf(P) \in Nat BY <1>1, <2>4
    <2> QED BY <1>1, <2>5, <2>6, <2>7
<1> QED BY <1>2, <1>3

\* No fewer rows suffice: those ahead of the last spilled one do not, and
\* they are the largest.
LEMMA SpillIsFewest ==
    ASSUME InputOK, NEW k \in Devices, NeedFree(k) > 0,
           NEW S \in SUBSET HomedOn(k), WeightOf(S) >= NeedFree(k)
    PROVE  Cardinality(S) >= Cardinality(Spilled(k))
<1> DEFINE H == HomedOn(k) P == Spilled(k)
<1>1. /\ H \in SUBSET DOMAIN w.home /\ P \in SUBSET H /\ NeedFree(k) \in Int
      /\ \A R \in SUBSET H : /\ IsFiniteSet(R) /\ Cardinality(R) \in Nat
                             /\ DimsOf(R) \in Nat /\ WeightOf(R) \in Nat
      /\ \A v \in H : w.fv[v] \in Nat
    BY RowNumbers, DimsAreNumbers, FS_CardinalityType
<1> SUFFICES ASSUME ~(Cardinality(S) >= Cardinality(P)) PROVE FALSE OBVIOUS
<1>2. Cardinality(S) < Cardinality(P) BY <1>1
<1>3. P # {} BY <1>1, <1>2, FS_EmptySet
<1> DEFINE T == {Cardinality(H) - Cardinality(First(k, v)) : v \in P}
<1>4. \A v \in H : First(k, v) \in SUBSET H /\ Cardinality(First(k, v)) \in Nat
    BY SpillOrder
<1>5. T \in SUBSET Nat /\ T # {}
    <2>1. \A v \in P : Cardinality(First(k, v)) <= Cardinality(H)
        BY <1>1, <1>4, FS_Subset
    <2> QED BY <1>1, <1>3, <1>4, <2>1
<1>6. PICK t \in T : \A n \in T : t <= n
    <2> HIDE DEF T
    <2> QED BY <1>5, Least
<1>7. PICK m \in P : t = Cardinality(H) - Cardinality(First(k, m)) BY <1>6
<1> DEFINE F1 == First(k, m)
<1>8. F1 \in SUBSET H /\ Cardinality(F1) \in Nat BY <1>1, <1>4
<1>9. \A u \in P : Cardinality(First(k, u)) <= Cardinality(F1)
    <2> SUFFICES ASSUME NEW u \in P
                 PROVE  Cardinality(First(k, u)) <= Cardinality(F1)
        OBVIOUS
    <2>1. t <= Cardinality(H) - Cardinality(First(k, u)) BY <1>6
    <2>2. Cardinality(First(k, u)) \in Nat /\ Cardinality(H) \in Nat BY <1>1, <1>4
    <2> QED BY <1>7, <1>8, <2>1, <2>2
<1>10. P \ {m} \subseteq F1
    <2> SUFFICES ASSUME NEW u \in P \ {m}, u \notin F1 PROVE FALSE OBVIOUS
    <2>1. Ahead(m, u) BY <1>1, SpillOrder DEF First
    <2>2. Cardinality(F1) < Cardinality(First(k, u)) BY <1>1, <2>1, SpillOrder
    <2>3. Cardinality(First(k, u)) \in Nat BY <1>1, <1>4
    <2> QED BY <1>8, <1>9, <2>2, <2>3
<1>11. Cardinality(S) <= Cardinality(F1)
    <2>1. Cardinality(P \ {m}) = Cardinality(P) - 1 BY <1>1, FS_RemoveElement
    <2>2. Cardinality(P \ {m}) <= Cardinality(F1) BY <1>1, <1>8, <1>10, FS_Subset
    <2>3. Cardinality(P) \in Nat /\ Cardinality(S) \in Nat BY <1>1
    <2> QED BY <1>2, <1>8, <2>1, <2>2, <2>3
<1>12. DimsOf(S) <= DimsOf(F1)
    <2>1. \A u \in S \ F1 : w.fv[u] <= w.fv[m]
        <3> SUFFICES ASSUME NEW u \in S \ F1 PROVE w.fv[u] <= w.fv[m] OBVIOUS
        <3>1. ~Ahead(u, m) BY DEF First
        <3>2. w.fv[u] \in Nat /\ w.fv[m] \in Nat BY <1>1
        <3> QED BY <3>1, <3>2 DEF Ahead
    <2>2. \A u \in F1 \ S : w.fv[u] >= w.fv[m]
        <3> SUFFICES ASSUME NEW u \in F1 \ S PROVE w.fv[u] >= w.fv[m] OBVIOUS
        <3>1. Ahead(u, m) BY DEF First
        <3>2. w.fv[u] \in Nat /\ w.fv[m] \in Nat BY <1>1, <1>8
        <3> QED BY <3>1, <3>2 DEF Ahead
    <2>3. /\ IsFiniteSet(S) /\ IsFiniteSet(F1) /\ w.fv[m] \in Nat
          /\ \A u \in S \cup F1 : w.fv[u] \in Nat
        BY <1>1, <1>8
    <2> HIDE DEF F1
    <2> QED BY <1>11, <2>1, <2>2, <2>3, SumOfExchange DEF DimsOf
<1>13. WeightOf(S) <= WeightOf(F1) BY <1>1, <1>8, <1>12, WeightsCompare
<1>14. F1 = {} \/ WeightOf(F1) < NeedFree(k)
    <2>1. m \in Spilled(k) OBVIOUS
    <2> QED BY <2>1 DEF Spilled, First
<1>15. CASE F1 = {}
    <2>1. Cardinality({}) = 0 /\ DimsOf({}) = 0 BY FS_EmptySet, SumUnfolds DEF DimsOf
    <2>2. WeightOf({}) = 0
        <3>1. 0 * BytesPerFeat = 0 /\ 0 * (1 + Layers) = 0 BY PlannerAssumption
        <3> QED BY <2>1, <3>1 DEF WeightOf
    <2>3. WeightOf(S) \in Nat BY <1>1
    <2> HIDE DEF F1
    <2> QED BY <1>1, <1>13, <1>15, <2>2, <2>3
<1>16. CASE WeightOf(F1) < NeedFree(k)
    <2>1. WeightOf(S) \in Nat /\ WeightOf(F1) \in Nat BY <1>1, <1>8
    <2> HIDE DEF F1
    <2> QED BY <1>1, <1>13, <1>16, <2>1
<1> QED BY <1>14, <1>15, <1>16

-----------------------------------------------------------------------------
(* The invariant.                                                          *)

\* What a device's plan is computed from never changes, so neither does it.
LEMMA InputsStay ==
    ASSUME w' = w, hw' = hw
    PROVE  /\ InputOK' <=> InputOK
           /\ \A k \in Devices :
                 /\ Fit(k)' = Fit(k) /\ RowBudget(k)' = RowBudget(k)
                 /\ SnapshotPlan(k)' = SnapshotPlan(k)
                 /\ RowPlan(k)' = RowPlan(k)
                 /\ \A n \in Nat : InfeasiblePlan(k, n)' = InfeasiblePlan(k, n)
<1>1. \A k : HomedOn(k)' = HomedOn(k) BY DEF HomedOn
<1>2. \A S : DimsOf(S)' = DimsOf(S) BY DEF DimsOf
<1>3. \A S : WeightOf(S)' = WeightOf(S) BY <1>2 DEF WeightOf
<1>4. TotalBandwidth' = TotalBandwidth BY DEF TotalBandwidth
<1>5. FairShare' = FairShare BY <1>4 DEF FairShare
<1>6. \A k : NodesOn(k)' = NodesOn(k) BY <1>1, <1>5 DEF NodesOn, ScalarShare, Core
<1>7. \A k : DimsOn(k)' = DimsOn(k) BY <1>1, <1>2, <1>5 DEF DimsOn, ScalarShare, Core
<1>8. \A k : EdgesOn(k)' = EdgesOn(k) BY <1>6 DEF EdgesOn
<1>9. \A k : FeatBytes(k)' = FeatBytes(k) BY <1>7 DEF FeatBytes
<1>10. \A k : PerSnap(k)' = PerSnap(k) BY <1>8, <1>9 DEF PerSnap
<1>11. \A k, b : Overhead(k, b)' = Overhead(k, b) BY <1>9 DEF Overhead
<1>12. \A k, n, b : Inflated4(k, n, b)' = Inflated4(k, n, b)
    BY <1>10, <1>11 DEF Inflated4
<1>13. \A k : WillStream(k)' = WillStream(k) BY <1>12 DEF WillStream
<1>14. \A k : Fit(k)' = Fit(k) BY <1>10, <1>11, <1>13 DEF Fit
<1>15. \A k : Resident(k)' = Resident(k) /\ Counted(k)' = Counted(k)
    BY <1>14 DEF Resident, Counted
<1>16. \A k : /\ SnapshotCompute(k)' = SnapshotCompute(k)
              /\ SnapshotStaging(k)' = SnapshotStaging(k)
    BY <1>6, <1>8, <1>9, <1>15 DEF SnapshotCompute, SnapshotStaging
<1>17. \A k : EdgeBytes(k)' = EdgeBytes(k) BY <1>8 DEF EdgeBytes
<1>18. \A k : RowBudget(k)' = RowBudget(k) /\ NeedFree(k)' = NeedFree(k)
    BY <1>1, <1>3, <1>17 DEF NeedFree, RowBudget
<1>19. \A u, v : Ahead(u, v)' = Ahead(u, v) BY DEF Ahead
<1>20. \A k : Spilled(k)' = Spilled(k) BY <1>1, <1>3, <1>18, <1>19 DEF Spilled
<1>21. \A k : Resident2(k)' = Resident2(k)
    BY <1>1, <1>2, <1>3, <1>17, <1>18, <1>20 DEF Resident2
<1>22. \A k : RowCompute(k)' = RowCompute(k) /\ RowStaging(k)' = RowStaging(k)
    BY <1>3, <1>6, <1>8, <1>9, <1>20 DEF RowCompute, RowStaging
<1>23. InputOK' <=> InputOK BY DEF InputOK
<1>24. \A k : SnapshotPlan(k)' = SnapshotPlan(k)
    BY <1>6, <1>8, <1>12, <1>13, <1>15, <1>16 DEF SnapshotPlan
<1>25. \A k : RowPlan(k)' = RowPlan(k)
    BY <1>6, <1>8, <1>20, <1>21, <1>22 DEF RowPlan
<1>26. \A k, n : InfeasiblePlan(k, n)' = InfeasiblePlan(k, n)
    BY <1>6, <1>8, <1>10 DEF InfeasiblePlan
<1> QED BY <1>14, <1>18, <1>23, <1>24, <1>25, <1>26

\* The invariant holds initially.
LEMMA PlansInvInit == ScheduleInit => PlansInv
<1> SUFFICES ASSUME ScheduleInit PROVE PlansInv OBVIOUS
<1>1. InputOK /\ plans = << >> BY DEF ScheduleInit, PlannerInit
<1> QED BY <1>1 DEF PlansInv

\* A plan that is added is the one its branch makes.
LEMMA AddMakesPlan ==
    ASSUME PlansInv, NEW k \in Devices, NEW p, Add(k, p), MadeFor(k, p)
    PROVE  PlansInv'
<1> DEFINE S == {SnapshotPlan(i) : i \in Devices} \cup {RowPlan(i) : i \in Devices}
                \cup {InfeasiblePlan(i, n) : i \in Devices, n \in Nat}
<1>1. /\ k = Len(plans) + 1 /\ plans' = Append(plans, p)
      /\ w' = w /\ hw' = hw
    BY DEF Add
<1>2. /\ plans \in Seq(S) /\ InputOK
      /\ \A i \in DOMAIN plans : i \in Devices /\ MadeFor(i, plans[i])
    BY DEF PlansInv
<1>3. p \in S
    <2>1. CASE p = SnapshotPlan(k) BY <2>1
    <2>2. CASE p = RowPlan(k) BY <2>2
    <2>3. CASE \E n \in Nat : p = InfeasiblePlan(k, n) BY <2>3
    <2> QED BY <2>1, <2>2, <2>3 DEF MadeFor
<1>4. InputOK' /\ S' = S BY <1>1, <1>2, InputsStay DEF Devices
<1> HIDE DEF S
<1>5. plans' \in Seq(S) BY <1>1, <1>2, <1>3
<1>6. ASSUME NEW i \in DOMAIN plans'
      PROVE  i \in Devices /\ MadeFor(i, plans'[i])
    <2>1. CASE i \in DOMAIN plans
        <3>1. plans'[i] = plans[i] BY <1>1, <1>2, <2>1
        <3> QED BY <1>2, <2>1, <3>1
    <2>2. CASE i \notin DOMAIN plans
        <3>1. i = k /\ plans'[i] = p BY <1>1, <1>2, <1>6, <2>2
        <3> QED BY <3>1
    <2> QED BY <2>1, <2>2
<1>7. (\A i \in DOMAIN plans : i \in Devices /\ MadeFor(i, plans[i]))'
    BY <1>1, <1>6, InputsStay DEF MadeFor, Devices
<1>8. (plans \in Seq(S))' BY <1>4, <1>5
<1>9. (/\ InputOK /\ plans \in Seq(S)
       /\ \A i \in DOMAIN plans : i \in Devices /\ MadeFor(i, plans[i]))'
    BY <1>4, <1>7, <1>8
<1> QED BY ONLY <1>9 DEF PlansInv, S

\* A step that leaves the plans and their inputs alone keeps the invariant.
LEMMA IdleKeepsPlans ==
    ASSUME PlansInv, w' = w, hw' = hw, plans' = plans
    PROVE  PlansInv'
<1> DEFINE S == {SnapshotPlan(i) : i \in Devices} \cup {RowPlan(i) : i \in Devices}
                \cup {InfeasiblePlan(i, n) : i \in Devices, n \in Nat}
<1>1. /\ plans \in Seq(S) /\ InputOK
      /\ \A i \in DOMAIN plans : i \in Devices /\ MadeFor(i, plans[i])
    BY DEF PlansInv
<1>2. InputOK' /\ S' = S BY <1>1, InputsStay DEF Devices
<1>3. (\A i \in DOMAIN plans : i \in Devices /\ MadeFor(i, plans[i]))'
    BY <1>1, InputsStay DEF MadeFor, Devices
<1> HIDE DEF S
<1>4. (/\ InputOK /\ plans \in Seq(S)
       /\ \A i \in DOMAIN plans : i \in Devices /\ MadeFor(i, plans[i]))'
    BY <1>1, <1>2, <1>3
<1> QED BY ONLY <1>4 DEF PlansInv, S

\* Every step keeps the invariant.
LEMMA PlansInvStep == PlansInv /\ [ScheduleNext]_scheduleVars => PlansInv'
<1> SUFFICES ASSUME PlansInv, [ScheduleNext]_scheduleVars PROVE PlansInv' OBVIOUS
<1> USE DEF MadeFor
<1>1. ASSUME NEW k \in Devices, PlanSnapshots(k) PROVE PlansInv'
    BY <1>1, AddMakesPlan DEF PlanSnapshots
<1>2. ASSUME NEW k \in Devices, PlanNothing(k) PROVE PlansInv'
    <2>1. w.window \in Nat BY DEF PlansInv, InputOK
    <2> QED BY <1>2, <2>1, AddMakesPlan DEF PlanNothing
<1>3. ASSUME NEW k \in Devices, PlanNoRows(k) PROVE PlansInv'
    <2>1. NodesOn(k) \in Nat /\ RowBudget(k) \in Int
        BY SharesAreNumbers, RowNumbers DEF PlansInv
    <2>2. ~(RowBudget(k) > 0) BY <1>3, <2>1 DEF PlanNoRows
    <2> QED BY <1>3, <2>1, <2>2, AddMakesPlan DEF PlanNoRows
<1>4. ASSUME NEW k \in Devices, PlanRows(k) PROVE PlansInv'
    BY <1>4, AddMakesPlan DEF PlanRows
<1>5. CASE Globalise BY <1>5, IdleKeepsPlans DEF Globalise
<1>6. CASE UNCHANGED plannerVars BY <1>6, IdleKeepsPlans DEF plannerVars
<1>7. \/ PlannerNext \/ UNCHANGED plannerVars
    BY DEF ScheduleNext, scheduleVars, SizePool, CoexecNothing, CoexecResident, CoexecCold, Coexecute, Conclude
<1> QED BY <1>1, <1>2, <1>3, <1>4, <1>5, <1>6, <1>7 DEF PlannerNext

\* Every plan is always the one its branch makes for the unchanged input.
THEOREM PlansAreMade == ScheduleSpec => []PlansInv
BY PlansInvInit, PlansInvStep, PTL DEF ScheduleSpec

-----------------------------------------------------------------------------
(* The split between CPU and GPU.                                          *)

\* The rows the CPU gets of a device's cold rows.
SplitFor(k, p) == RowsForCpu(k, ColdEdges(p), ColdRows(p))

\* The rows of the CPU are those of the closed form for the device's plan.
SplitInv ==
    /\ \E S : coexec \in Seq(S)
    /\ \A k \in DOMAIN coexec :
          /\ k \in DOMAIN plans
          /\ plans[k].feasible /\ plans[k].streamed > 0
             => coexec[k].cpuRows = SplitFor(k, plans[k])

\* Both branches over the common denominator of their comparison: what is
\* left is a comparison of the rows times the three rates.
LEMMA BranchesOverOne ==
    ASSUME NEW G \in Nat, NEW R \in Nat, NEW H \in Nat, NEW B \in Nat,
           NEW fd \in Nat, NEW bpf \in Nat, NEW rows \in Nat, NEW x \in Int
    PROVE  /\ ((x * G) * H + ((x * fd) * bpf) * (rows * R)) * (rows * B)
                = rows * (x * (G * B * H + rows * fd * bpf * B * R))
           /\ ((rows - x) * G) * ((rows * R) * H) = rows * ((rows - x) * (G * R * H))
<1>1. ((x * G) * H + ((x * fd) * bpf) * (rows * R)) * (rows * B)
          = rows * (x * (G * B * H + rows * fd * bpf * B * R))
    OBVIOUS
<1>2. ((rows - x) * G) * ((rows * R) * H) = rows * ((rows - x) * (G * R * H))
    OBVIOUS
<1> QED BY <1>1, <1>2

\* Which branch is longer when the CPU gets x rows.
LEMMA BranchesCompare ==
    ASSUME InputOK, NEW k \in Devices, NEW inc \in Nat, NEW rows \in Nat \ {0}, NEW x \in Int
    PROVE  LET gpu   == Gathered(inc) * CpuRate * hw[k].h2d
               cpu   == Gathered(inc) * hw[k].bw * hw[k].h2d
               stage == rows * w.featDim * BytesPerFeat * hw[k].bw * CpuRate
           IN  /\ gpu \in Nat /\ cpu \in Nat /\ stage \in Nat
               /\ x * (gpu + cpu + stage) >= rows * gpu
                  => ~Before(CpuBranch(k, inc, rows, x), GpuTime(k, inc, rows, rows - x))
               /\ x * (gpu + cpu + stage) <= rows * gpu
                  => ~Before(GpuTime(k, inc, rows, rows - x), CpuBranch(k, inc, rows, x))
<1> DEFINE G == Gathered(inc) R == CpuRate H == hw[k].h2d B == hw[k].bw
           fd == w.featDim bpf == BytesPerFeat
           gpu == G * R * H
           rest == G * B * H + rows * fd * bpf * B * R
           lhs == ((x * G) * H + ((x * fd) * bpf) * (rows * R)) * (rows * B)
           rhs == ((rows - x) * G) * ((rows * R) * H)
<1>1. /\ G \in Nat /\ R \in Nat \ {0} /\ H \in Nat \ {0} /\ B \in Nat \ {0}
      /\ fd \in Nat /\ bpf \in Nat
    <2>1. w.featDim \in Nat /\ hw[k].h2d \in Nat \ {0} /\ hw[k].bw \in Nat \ {0}
        BY DEF InputOK
    <2>2. Layers * 2 * inc * w.featDim * BytesPerFeat \in Nat BY <2>1, PlannerAssumption
    <2> QED BY <2>1, <2>2, PlannerAssumption, CpuAssumption DEF Gathered
<1>2. /\ Before(CpuBranch(k, inc, rows, x), GpuTime(k, inc, rows, rows - x)) <=> lhs < rhs
      /\ Before(GpuTime(k, inc, rows, rows - x), CpuBranch(k, inc, rows, x)) <=> rhs < lhs
    BY DEF Before, CpuBranch, Plus, CpuTime, StageTime, GpuTime
<1> HIDE DEF G, R, H, B, fd, bpf
<1>3. lhs = rows * (x * rest) /\ rhs = rows * ((rows - x) * gpu)
    BY <1>1, BranchesOverOne
<1>4. /\ gpu \in Nat /\ G * B * H \in Nat /\ rows * fd * bpf * B * R \in Nat /\ rest \in Nat
    <2>1. G * R \in Nat /\ G * B \in Nat /\ rows * fd * bpf \in Nat BY <1>1
    <2>2. gpu \in Nat /\ G * B * H \in Nat BY <1>1, <2>1
    <2>3. rows * fd * bpf * B \in Nat BY <1>1, <2>1
    <2>4. rows * fd * bpf * B * R \in Nat BY <1>1, <2>3
    <2> QED BY <2>2, <2>4
<1>5. (G * R * H + G * B * H + rows * fd * bpf * B * R) = gpu + rest
    BY <1>4
<1> HIDE DEF lhs, rhs, gpu, rest
<1>6. /\ x * (gpu + rest) = x * gpu + x * rest
      /\ (rows - x) * gpu = rows * gpu - x * gpu
      /\ x * gpu \in Int /\ x * rest \in Int /\ rows * gpu \in Int
    BY <1>4
<1>7. \A a, b \in Int : a <= b => rows * a <= rows * b
    <2> SUFFICES ASSUME NEW a \in Int, NEW b \in Int, a <= b PROVE rows * a <= rows * b
        OBVIOUS
    <2>1. a * rows <= b * rows BY ProductMonotone
    <2> QED BY <2>1
<1>8. x * (gpu + rest) >= rows * gpu => ~(lhs < rhs)
    <2> SUFFICES ASSUME x * (gpu + rest) >= rows * gpu PROVE ~(lhs < rhs) OBVIOUS
    <2>1. (rows - x) * gpu <= x * rest BY <1>6
    <2>2. rhs <= lhs BY <1>3, <1>6, <1>7, <2>1
    <2>3. rhs \in Int /\ lhs \in Int BY <1>3, <1>6
    <2> QED BY <2>2, <2>3
<1>9. x * (gpu + rest) <= rows * gpu => ~(rhs < lhs)
    <2> SUFFICES ASSUME x * (gpu + rest) <= rows * gpu PROVE ~(rhs < lhs) OBVIOUS
    <2>1. (rows - x) * gpu >= x * rest BY <1>6
    <2>2. lhs <= rhs BY <1>3, <1>6, <1>7, <2>1
    <2>3. rhs \in Int /\ lhs \in Int BY <1>3, <1>6
    <2> QED BY <2>2, <2>3
<1> QED BY <1>2, <1>4, <1>5, <1>8, <1>9 DEF gpu, G, R, H, B, fd, bpf

\* The rounded share is within a row of the balance.
LEMMA BalancedRowsBracket ==
    ASSUME InputOK, NEW k \in Devices, NEW inc \in Nat, NEW rows \in Nat,
           ~NoWork(inc, rows), NEW n, n = RowsForCpu(k, inc, rows)
    PROVE  /\ n \in Nat
           /\ ~Before(CpuBranch(k, inc, rows, n + 1), GpuTime(k, inc, rows, rows - n - 1))
           /\ ~Before(GpuTime(k, inc, rows, rows - n + 1), CpuBranch(k, inc, rows, n - 1))
<1> DEFINE gpu   == Gathered(inc) * CpuRate * hw[k].h2d
           cpu   == Gathered(inc) * hw[k].bw * hw[k].h2d
           stage == rows * w.featDim * BytesPerFeat * hw[k].bw * CpuRate
           q     == gpu + cpu + stage
<1>1. rows \in Nat \ {0} /\ Gathered(inc) # 0 BY DEF NoWork
<1>2. gpu \in Nat /\ cpu \in Nat /\ stage \in Nat /\ gpu > 0
    <2>1. gpu \in Nat /\ cpu \in Nat /\ stage \in Nat BY <1>1, BranchesCompare
    <2>2. gpu # 0
        <3>1. Gathered(inc) \in Nat
            <4>1. w.featDim \in Nat BY DEF InputOK
            <4>2. Layers * 2 * inc * w.featDim * BytesPerFeat \in Nat
                BY <4>1, PlannerAssumption
            <4> QED BY <4>2 DEF Gathered
        <3>2. hw[k].h2d \in Nat \ {0} /\ CpuRate \in Nat \ {0} BY CpuAssumption DEF InputOK
        <3>3. Gathered(inc) * CpuRate # 0 /\ Gathered(inc) * CpuRate \in Nat
            BY <1>1, <3>1, <3>2
        <3> QED BY <3>2, <3>3
    <2> QED BY <2>1, <2>2
<1>3. n = Rounded(rows * gpu, q) BY DEF RowsForCpu, BalancedRows
<1> HIDE DEF gpu, cpu, stage
<1>4. q \in Nat \ {0} /\ rows * gpu \in Nat BY <1>1, <1>2
<1>5. n \in Nat /\ (n + 1) * q >= rows * gpu /\ (n - 1) * q <= rows * gpu
    BY <1>3, <1>4, RoundedIsNat
<1>6. ~Before(CpuBranch(k, inc, rows, n + 1), GpuTime(k, inc, rows, rows - (n + 1)))
    <2>1. n + 1 \in Int BY <1>5
    <2> QED BY <1>1, <1>5, <2>1, BranchesCompare DEF gpu, cpu, stage
<1>7. ~Before(GpuTime(k, inc, rows, rows - (n - 1)), CpuBranch(k, inc, rows, n - 1))
    <2>1. n - 1 \in Int BY <1>5
    <2> QED BY <1>1, <1>5, <2>1, BranchesCompare DEF gpu, cpu, stage
<1>8. rows - (n + 1) = rows - n - 1 /\ rows - (n - 1) = rows - n + 1 BY <1>1, <1>5
<1> QED BY <1>5, <1>6, <1>7, <1>8

\* The numbers of a device's plan.
LEMMA PlanNumbers ==
    ASSUME InputOK, NEW k \in Devices, NEW p, MadeFor(k, p), p.feasible
    PROVE  p.work \in Nat /\ p.edges \in Nat /\ p.streamed \in Int
<1>1. /\ NodesOn(k) \in Nat /\ EdgesOn(k) \in Nat /\ w.window \in Nat \ {0} /\ Fit(k) \in Int
    BY DeviceFacts, SharesAreNumbers
<1>2. CASE Fit(k) >= 1 /\ p = SnapshotPlan(k)
    <2>1. Resident(k) \in Int BY <1>1, PlannerAssumption DEF Resident, Smaller, Larger
    <2>2. p.streamed = w.window - Resident(k) /\ p.work = NodesOn(k) /\ p.edges = EdgesOn(k)
        BY <1>2 DEF SnapshotPlan
    <2> QED BY <1>1, <2>1, <2>2
<1>3. CASE \E n \in Nat : p = InfeasiblePlan(k, n)
    BY <1>3 DEF InfeasiblePlan
<1>4. CASE p = RowPlan(k)
    <2>1. Cardinality(Spilled(k)) \in Nat
        <3>1. Spilled(k) \in SUBSET DOMAIN w.home BY RowNumbers
        <3> QED BY <3>1, DimsAreNumbers, FS_CardinalityType
    <2>2. /\ p.streamed = Cardinality(Spilled(k)) /\ p.work = NodesOn(k)
          /\ p.edges = EdgesOn(k)
        BY <1>4 DEF RowPlan
    <2> QED BY <1>1, <2>1, <2>2
<1> QED BY <1>2, <1>3, <1>4 DEF MadeFor

\* What is left cold of a device's plan.
LEMMA ColdNumbers ==
    ASSUME InputOK, NEW k \in Devices, NEW p, MadeFor(k, p), p.feasible, p.streamed > 0
    PROVE  ColdRows(p) \in Nat /\ ColdEdges(p) \in Nat
<1>2. p.work \in Nat /\ p.edges \in Nat /\ p.streamed \in Nat BY PlanNumbers
<1>3. ColdRows(p) \in Nat
    <2>1. p.streamed * p.work \in Nat BY <1>2
    <2> QED BY <1>2, <2>1 DEF ColdRows
<1>4. ColdEdges(p) \in Nat
    <2>1. Smaller(p.work, ColdRows(p)) \in Nat BY <1>2, <1>3 DEF Smaller
    <2>2. p.edges * Smaller(p.work, ColdRows(p)) \in Nat BY <1>2, <2>1
    <2>3. p.work > 0 => p.work \in Nat \ {0} BY <1>2
    <2> QED BY <1>2, <2>2, <2>3, RoundedIsNat DEF ColdEdges
<1> QED BY <1>3, <1>4

\* The split of a device follows from its plan and the unchanged input.
LEMMA SplitsStay ==
    ASSUME w' = w, hw' = hw, NEW k, plans'[k] = plans[k]
    PROVE  SplitFor(k, plans[k])' = SplitFor(k, plans[k])
BY DEF SplitFor, RowsForCpu, BalancedRows, NoWork, Gathered, ColdRows, ColdEdges

\* Plans that are made stay, so the splits made from them stay right.
LEMMA IdleKeepsSplits ==
    ASSUME SplitInv, w' = w, hw' = hw, coexec' = coexec,
           \A k \in DOMAIN plans : k \in DOMAIN plans' /\ plans'[k] = plans[k]
    PROVE  SplitInv'
<1>1. PICK S : coexec \in Seq(S) BY DEF SplitInv
<1>2. \E T : coexec' \in Seq(T) BY <1>1
<1>3. ASSUME NEW k \in DOMAIN coexec'
      PROVE  /\ k \in DOMAIN plans'
             /\ plans'[k].feasible /\ plans'[k].streamed > 0
                => coexec'[k].cpuRows = SplitFor(k, plans[k])'
    <2>1. k \in DOMAIN coexec /\ k \in DOMAIN plans /\ plans'[k] = plans[k]
        BY <1>3 DEF SplitInv
    <2>2. SplitFor(k, plans[k])' = SplitFor(k, plans[k]) BY <2>1, SplitsStay
    <2> QED BY <2>1, <2>2 DEF SplitInv
<1> QED BY <1>2, <1>3 DEF SplitInv

\* A split that is added is the one for the device's plan.
LEMMA AddedSplit ==
    ASSUME SplitInv, NEW k \in Devices, k \in DOMAIN plans, NEW split, Coexecute(k, split),
           plans[k].feasible /\ plans[k].streamed > 0 => split.cpuRows = SplitFor(k, plans[k])
    PROVE  SplitInv'
<1>1. /\ k = Len(coexec) + 1 /\ coexec' = Append(coexec, split)
      /\ w' = w /\ hw' = hw /\ plans' = plans
    BY DEF Coexecute, plannerVars
<1>2. PICK S : coexec \in Seq(S) BY DEF SplitInv
<1>3. coexec' \in Seq(S \cup {split}) BY <1>1, <1>2
<1>4. ASSUME NEW i \in DOMAIN coexec'
      PROVE  /\ i \in DOMAIN plans'
             /\ plans'[i].feasible /\ plans'[i].streamed > 0
                => coexec'[i].cpuRows = SplitFor(i, plans[i])'
    <2>1. SplitFor(i, plans[i])' = SplitFor(i, plans[i]) BY <1>1, SplitsStay
    <2>2. CASE i \in DOMAIN coexec
        <3>1. coexec'[i] = coexec[i] BY <1>1, <1>2, <2>2
        <3> QED BY <1>1, <2>1, <2>2, <3>1 DEF SplitInv
    <2>3. CASE i \notin DOMAIN coexec
        <3>1. i = k /\ coexec'[i] = split BY <1>1, <1>2, <1>4, <2>3
        <3> QED BY <1>1, <2>1, <3>1
    <2> QED BY <2>2, <2>3
<1> QED BY <1>3, <1>4 DEF SplitInv

\* The splits are right initially.
LEMMA SplitInvInit == ScheduleInit => SplitInv
<1> SUFFICES ASSUME ScheduleInit PROVE SplitInv OBVIOUS
<1>1. coexec = << >> BY DEF ScheduleInit
<1>2. coexec \in Seq({}) BY <1>1
<1> QED BY <1>1, <1>2 DEF SplitInv

\* Every step keeps the splits right.
LEMMA SplitInvStep == PlansInv /\ SplitInv /\ [ScheduleNext]_scheduleVars => SplitInv'
<1> SUFFICES ASSUME PlansInv, SplitInv, [ScheduleNext]_scheduleVars PROVE SplitInv' OBVIOUS
<1>1. PICK P : plans \in Seq(P) BY DEF PlansInv
<1>2. ASSUME NEW k \in Devices, NEW p, Add(k, p), coexec' = coexec PROVE SplitInv'
    <2>1. /\ plans' = Append(plans, p) /\ w' = w /\ hw' = hw BY <1>2 DEF Add
    <2>2. \A i \in DOMAIN plans : i \in DOMAIN plans' /\ plans'[i] = plans[i]
        BY <1>1, <2>1
    <2> QED BY <1>2, <2>1, <2>2, IdleKeepsSplits
<1>3. CASE PlannerNext /\ coexec' = coexec
    <2>1. ASSUME NEW k \in Devices,
                 PlanSnapshots(k) \/ PlanNothing(k) \/ PlanNoRows(k) \/ PlanRows(k)
          PROVE  SplitInv'
        BY <1>2, <1>3, <2>1 DEF PlanSnapshots, PlanNothing, PlanNoRows, PlanRows
    <2>2. CASE Globalise BY <1>3, <2>2, IdleKeepsSplits DEF Globalise
    <2> QED BY <1>3, <2>1, <2>2 DEF PlannerNext
<1>4. ASSUME NEW k \in Devices, CoexecNothing(k) \/ CoexecResident(k) \/ CoexecCold(k)
      PROVE  SplitInv'
    <2>1. k \in DOMAIN plans
        <3>1. k <= Len(plans) BY <1>4 DEF CoexecNothing, CoexecResident, CoexecCold
        <3>2. Len(plans) \in Nat /\ DOMAIN plans = 1 .. Len(plans) BY <1>1
        <3> QED BY <3>1, <3>2, PlannerAssumption DEF Devices
    <2>2. CASE CoexecNothing(k)
        BY <2>1, <2>2, AddedSplit DEF CoexecNothing
    <2>3. CASE CoexecResident(k)
        <3>1. ~(plans[k].streamed > 0)
            <4>1. k \in Devices /\ InputOK /\ MadeFor(k, plans[k]) BY <2>1 DEF PlansInv
            <4>2. plans[k].streamed \in Int BY <4>1, <2>3, PlanNumbers DEF CoexecResident
            <4> QED BY <2>3, <4>2 DEF CoexecResident
        <3> QED BY <2>1, <2>3, <3>1, AddedSplit DEF CoexecResident
    <2>4. CASE CoexecCold(k)
        <3>1. Offload(k, plans[k]).cpuRows = SplitFor(k, plans[k])
            BY DEF Offload, Split, SplitFor
        <3> QED BY <2>1, <2>4, <3>1, AddedSplit DEF CoexecCold
    <2> QED BY <1>4, <2>2, <2>3, <2>4
<1>5. CASE \/ \E k \in Devices : SizePool(k)
           \/ Conclude
           \/ UNCHANGED scheduleVars
    <2>1. UNCHANGED <<w, hw, plans, coexec>>
        BY <1>5 DEF SizePool, Conclude, scheduleVars, plannerVars
    <2> QED BY <2>1, IdleKeepsSplits
<1> QED BY <1>3, <1>4, <1>5 DEF ScheduleNext

-----------------------------------------------------------------------------
(* The properties.                                                         *)

\* A feasible plan stays within the memory of its device, except where it
\* can hold no more snapshots than are set aside for the streamed ones.
THEOREM PeakIsHeld == ScheduleSpec => []PeakHeld
<1>1. PlansInv => PeakHeld
    <2> SUFFICES ASSUME PlansInv, NEW k \in DOMAIN plans, plans[k].feasible
                 PROVE  \/ plans[k].peak <= hw[k].cap
                        \/ /\ plans[k].resident = 1 /\ plans[k].streamed > 0
                           /\ Fit(k) \in 1 .. ReserveBuffers
        BY DEF PeakHeld
    <2>1. k \in Devices /\ InputOK /\ MadeFor(k, plans[k]) BY DEF PlansInv
    <2>2. CASE Fit(k) >= 1 /\ plans[k] = SnapshotPlan(k)
        BY <2>1, <2>2, SnapshotPeak
    <2>3. CASE \E n \in Nat : plans[k] = InfeasiblePlan(k, n)
        BY <2>3 DEF InfeasiblePlan
    <2>4. CASE plans[k] = RowPlan(k)
        BY <2>1, <2>4, RowPeak
    <2> QED BY <2>1, <2>2, <2>3, <2>4 DEF MadeFor
<1> QED BY <1>1, PlansAreMade, PTL

\* A device streams snapshots exactly when the second prefetch buffer was
\* reserved for it.
THEOREM StreamingIsReserved == ScheduleSpec => []StreamsIffReserved
<1>1. PlansInv => StreamsIffReserved
    <2> SUFFICES ASSUME PlansInv, NEW k \in DOMAIN plans, Fit(k) >= 1, PerSnap(k) > 0
                 PROVE  plans[k].streamed > 0 <=> WillStream(k)
        BY DEF StreamsIffReserved
    <2>1. k \in Devices /\ InputOK /\ MadeFor(k, plans[k]) BY DEF PlansInv
    <2>2. /\ w.window \in Nat \ {0} /\ Fit(k) \in Nat \ {0} /\ ReserveBuffers \in Nat
        BY <2>1, DeviceFacts, PlannerAssumption
    <2>3. plans[k].streamed = w.window - Resident(k)
        BY <2>1, <2>2 DEF MadeFor, SnapshotPlan
    <2>4. w.window - Resident(k) > 0 <=> w.window > Fit(k)
        BY <2>2 DEF Resident, Smaller, Larger
    <2> QED BY <2>1, <2>3, <2>4, OverFitIffStreaming
<1> QED BY <1>1, PlansAreMade, PTL

\* Where rows have to go, what is spilled suffices and no fewer rows would.
THEOREM FewestAreSpilled == ScheduleSpec => []FewestRowsSpilled
<1>1. PlansInv => FewestRowsSpilled
    <2> SUFFICES ASSUME PlansInv, NEW k \in DOMAIN plans,
                        w.aware, Fit(k) < 1, RowBudget(k) > 0, NeedFree(k) > 0
                 PROVE  /\ WeightOf(Spilled(k)) >= NeedFree(k)
                        /\ \A S \in SUBSET HomedOn(k) :
                               WeightOf(S) >= NeedFree(k) => Cardinality(S) >= plans[k].streamed
        BY DEF FewestRowsSpilled
    <2>1. k \in Devices /\ InputOK /\ MadeFor(k, plans[k]) BY DEF PlansInv
    <2>2. plans[k].streamed = Cardinality(Spilled(k))
        <3>1. Fit(k) \in Int BY <2>1, DeviceFacts
        <3>2. ~(Fit(k) >= 1) BY <3>1
        <3> QED BY <2>1, <3>2 DEF MadeFor, RowPlan
    <2> QED BY <2>1, <2>2, SpillSuffices, SpillIsFewest
<1> QED BY <1>1, PlansAreMade, PTL

\* Every split is always the rounded balance of its device's cold rows.
THEOREM SplitsAreBalanced == ScheduleSpec => []SplitBracketsBalance
<1>1. PlansInv /\ SplitInv => SplitBracketsBalance
    <2> SUFFICES ASSUME PlansInv, SplitInv, NEW k \in DOMAIN coexec,
                        plans[k].feasible, plans[k].streamed > 0,
                        ~NoWork(ColdEdges(plans[k]), ColdRows(plans[k]))
                 PROVE  LET p    == plans[k]
                            rows == ColdRows(p)
                            inc  == ColdEdges(p)
                            n    == coexec[k].cpuRows
                        IN  /\ ~Before(CpuBranch(k, inc, rows, n + 1),
                                       GpuTime(k, inc, rows, rows - n - 1))
                            /\ ~Before(GpuTime(k, inc, rows, rows - n + 1),
                                       CpuBranch(k, inc, rows, n - 1))
        BY DEF SplitBracketsBalance
    <2>1. k \in DOMAIN plans /\ coexec[k].cpuRows = SplitFor(k, plans[k]) BY DEF SplitInv
    <2>2. k \in Devices /\ InputOK /\ MadeFor(k, plans[k]) BY <2>1 DEF PlansInv
    <2>3. ColdRows(plans[k]) \in Nat /\ ColdEdges(plans[k]) \in Nat BY <2>2, ColdNumbers
    <2> QED BY <2>1, <2>2, <2>3, BalancedRowsBracket DEF SplitFor
<1>2. ScheduleSpec => []SplitInv
    BY SplitInvInit, SplitInvStep, PlansAreMade, PTL DEF ScheduleSpec
<1> QED BY <1>1, <1>2, PlansAreMade, PTL

-----------------------------------------------------------------------------
(* The executors.                                                          *)

\* What a job must give its executor: sharded_llayer asserts that the columns
\* add up, and its weights are a matrix over them.
SoundJob ==
    /\ job.executor \in {"coexec", "distributed", "recombine"}
    /\ job.executor = "distributed" =>
          /\ job.assign \in [Vertices -> {-1} \cup RankSet]
          /\ job.edges \in Seq(Vertices \X Vertices)
    /\ job.executor = "recombine" =>
          /\ job.edges \in Seq(Vertices \X Vertices) /\ job.x \in Matrix
          /\ job.w = Unmixed \/ job.w \in [Columns -> [Columns -> Int]]
          /\ job.splits \in Seq(Nat) /\ Offset(NumDevices + 1) = F

\* Nothing but coalesce() precedes the first layer.  While a product may
\* still run, both copies of the matrix agree; when none does, the device's
\* output is the layer, and at the join the host's rows are too.
CoexecInv ==
    /\ pc \in {"setup", "settle", "launch", "share", "join", "simulate", "returned"}
    /\ pc \in {"setup", "settle", "launch", "share", "join"} => dev = h
    /\ pc \in {"setup", "launch"} => pending = {}
    /\ pc \in {"share", "join"} =>
          /\ done < job.layers
          /\ pending \subseteq {"spmm"}
          /\ pending = {} => gpuOut = MeanLayer(job, h)
    /\ pc = "join" => cpuOut = [v \in CpuRows |-> PhiRow(job, MeanRow(job, h, v))]

\* Where the ranks before the current one have their rows, the others zeros.
DistInv ==
    /\ turn \in -1 .. Ranks
    /\ done < job.layers =>
          next = [v \in Vertices |->
                     IF job.assign[v] >= 0 /\ job.assign[v] < turn
                     THEN MeanRow(job, h, v) ELSE Zeros[v]]

\* The column f of row v of the aggregated matrix, as it enters column g.
Weighted(v, g) == [f \in Columns |-> EdgeSum(job, h, v, f) * job.w[f][g]]
\* The part of column g that the first k columns make.
MixedBelow(k, v, g) == SumFunctionOnSet(Weighted(v, g), 0 .. (k - 1))

MixedSoFar ==
    [v \in Vertices |-> [g \in Columns |-> MixedBelow(Offset(device), v, g)]]

\* The columns of device d of the sum over the neighbours.
SumsOn(d) == [v \in Vertices |-> [f \in Shard(d) |-> EdgeSum(job, h, v, f)]]

\* The shards there are hold their columns of the sum over the neighbours,
\* and the partial product is that of the columns before the next shard.
RecInv ==
    /\ h \in Matrix
    /\ shards \in Seq({SumsOn(d) : d \in 1 .. NumDevices})
    /\ Len(shards) <= NumDevices
    /\ \A d \in 1 .. Len(shards) : shards[d] = SumsOn(d)
    /\ device \in 1 .. NumDevices + 1
    /\ job.w # Unmixed => partial = MixedSoFar

IInv ==
    /\ SoundJob
    /\ job.executor = "coexec" => CoexecInv
    /\ job.executor = "distributed" => DistInv
    /\ job.executor = "recombine" => RecInv

-----------------------------------------------------------------------------
(* run_coexec.                                                             *)

\* Every row is the host's or the device's.
LEMMA EveryRowOnce == CpuRows \cup GpuRows = Vertices /\ CpuRows \subseteq Vertices
BY DEF CpuRows, GpuRows

\* Grafting the host's rows over the device's gives the whole layer.
LEMMA GraftIsLayer ==
    ASSUME cpuOut = [v \in CpuRows |-> PhiRow(job, MeanRow(job, h, v))],
           gpuOut = MeanLayer(job, h)
    PROVE  Grafted = MeanLayer(job, h)
BY EveryRowOnce DEF Grafted, MeanLayer

\* A step of run_coexec keeps the invariant and is a layer, a restart or no
\* step of the promise.
LEMMA CoexecSound ==
    ASSUME job.executor = "coexec", CoexecInv, CoexecNext
    PROVE  CoexecInv' /\ [Promise!Next]_<<job, h, done>>
<1>1. job' = job /\ CpuRows' = CpuRows
  BY DEF CoexecNext, HostStep, DeviceStep, Setup, Settle, Launch, HostShare, Join,
         Return, Simulate, ReturnSimulated, DeviceRuns, GiveUp, CpuRows, CpuCount
<1>2. JobLayer(job, h) = MeanLayer(job, h) BY DEF JobLayer
<1> USE DEF CoexecInv
<1>3. CASE Setup BY <1>1, <1>3 DEF Setup
<1>4. CASE Settle BY <1>1, <1>4 DEF Settle, Synchronized
<1>5. CASE Launch BY <1>1, <1>5 DEF Launch
<1>6. CASE HostShare BY <1>1, <1>6 DEF HostShare
<1>7. CASE Join
  <2>1. Grafted = MeanLayer(job, h) BY <1>7, GraftIsLayer DEF Join, Synchronized
  <2>2. Promise!Next BY <1>2, <1>7, <2>1 DEF Join, Promise!Next, Promise!ApplyLayer
  <2>3. CoexecInv' BY <1>1, <1>7 DEF Join, Synchronized
  <2> QED BY <2>2, <2>3
<1>8. CASE Return BY <1>1, <1>8 DEF Return
<1>9. CASE Simulate
  <2>1. h' = MeanLayer(job, h) BY <1>9, EveryRowOnce DEF Simulate, MeanLayer
  <2>2. Promise!Next BY <1>2, <1>9, <2>1 DEF Simulate, Promise!Next, Promise!ApplyLayer
  <2>3. CoexecInv' BY <1>1, <1>9 DEF Simulate
  <2> QED BY <2>2, <2>3
<1>10. CASE ReturnSimulated BY <1>1, <1>10 DEF ReturnSimulated
<1>11. CASE DeviceStep
  <2>1. PICK op \in {"coalesce", "spmm"} : DeviceRuns(op) BY <1>11 DEF DeviceStep
  <2>2. UNCHANGED <<job, h, done, pc, dev, cpuOut>> BY <2>1 DEF DeviceRuns
  <2>3. CASE pc \in {"share", "join"}
    <3>1. op = "spmm" /\ "coalesce" \notin pending BY <2>1, <2>3 DEF DeviceRuns
    <3>2. pending' = {} /\ gpuOut' = MeanLayer(job, h) BY <2>1, <2>3, <3>1 DEF DeviceRuns
    <3> QED BY <1>1, <2>2, <2>3, <3>2
  <2>4. CASE pc \notin {"share", "join"}
    BY <1>1, <2>1, <2>2, <2>4 DEF DeviceRuns
  <2> QED BY <2>3, <2>4
<1>12. CASE GiveUp
  BY <1>1, <1>12 DEF GiveUp, Promise!Next, Promise!Restart
<1> QED BY <1>3, <1>4, <1>5, <1>6, <1>7, <1>8, <1>9, <1>10, <1>11, <1>12
        DEF CoexecNext, HostStep

-----------------------------------------------------------------------------
(* run_distributed.                                                        *)

\* A step of run_distributed keeps the invariant and is a layer or no step
\* of the promise.
LEMMA DistSound ==
    ASSUME job.executor = "distributed", SoundJob, DistInv, DistNext
    PROVE  DistInv' /\ [Promise!Next]_<<job, h, done>>
<1>1. job' = job /\ JobLayer(job, h) = MeanLayer(job, h)
  BY DEF DistNext, Plan, RankComputes, Following, EndLayer, JobLayer
<1>2. job.assign \in [Vertices -> {-1} \cup RankSet] /\ Ranks \in Nat \ {0}
  BY TopologyAssumption DEF SoundJob
<1>3. \A v \in Vertices : job.assign[v] \in -1 .. (Ranks - 1)
  BY <1>2 DEF RankSet
<1> USE DEF DistInv
<1>4. CASE Plan
  <2>1. turn' = 0 /\ turn = -1 /\ UNCHANGED <<job, h, done, next>> BY <1>4 DEF Plan
  <2>2. \A v \in Vertices : (job.assign[v] >= 0 /\ job.assign[v] < 0) <=> FALSE BY <1>3
  <2>3. \A v \in Vertices : (job.assign[v] >= 0 /\ job.assign[v] < -1) <=> FALSE BY <1>3
  <2> QED BY <1>2, <2>1, <2>2, <2>3 DEF Zeros
<1>5. ASSUME NEW r \in RankSet, RankComputes(r) PROVE DistInv' /\ UNCHANGED <<job, h, done>>
  <2>1. /\ turn = r /\ turn' = r + 1 /\ done < job.layers /\ UNCHANGED <<job, h, done>>
        /\ next' = WithRows(Rows(r))
    BY <1>5 DEF RankComputes, Following
  <2>2. \A v \in Vertices : (job.assign[v] >= 0 /\ job.assign[v] < r + 1)
                <=> (v \in Rows(r) \/ (job.assign[v] >= 0 /\ job.assign[v] < r))
    BY <1>3 DEF Rows, RankSet
  <2>3. next' = [v \in Vertices |->
                    IF job.assign[v] >= 0 /\ job.assign[v] < r + 1
                    THEN MeanRow(job, h, v) ELSE Zeros[v]]
    <3>1. \A v \in Vertices : next[v] = IF job.assign[v] >= 0 /\ job.assign[v] < r
                                        THEN MeanRow(job, h, v) ELSE Zeros[v]
      BY <2>1
    <3>2. \A v \in Vertices :
             (IF v \in Rows(r) THEN MeanRow(job, h, v) ELSE next[v])
                 = IF job.assign[v] >= 0 /\ job.assign[v] < r + 1
                   THEN MeanRow(job, h, v) ELSE Zeros[v]
      BY <2>2, <3>1
    <3> QED BY <2>1, <3>2 DEF WithRows
  <2>4. Zeros' = Zeros /\ \A v : MeanRow(job, h, v)' = MeanRow(job, h, v)
    BY <2>1 DEF Zeros, MeanRow, EdgeSum, Degree
  <2> QED BY <1>2, <2>1, <2>3, <2>4 DEF RankSet
<1>6. CASE EndLayer
  <2>1. /\ turn = Ranks /\ done < job.layers /\ done' = done + 1
        /\ next' = Zeros /\ turn' \in {0, Ranks}
        /\ h' = [v \in Vertices |-> PhiRow(job, WithRows(Rows(-1))[v])]
    BY <1>6 DEF EndLayer, Replicated
  <2>2. \A v \in Vertices : WithRows(Rows(-1))[v] = MeanRow(job, h, v)
    BY <1>2, <1>3, <2>1 DEF WithRows, Rows
  <2>3. h' = MeanLayer(job, h) BY <2>1, <2>2 DEF MeanLayer
  <2>4. DistInv'
    <3>1. turn' \in -1 .. Ranks BY <1>2, <2>1
    <3>2. done' < job.layers => turn' = 0 BY <1>6 DEF EndLayer
    <3>3. \A v \in Vertices : (job.assign[v] >= 0 /\ job.assign[v] < 0) <=> FALSE BY <1>3
    <3>4. Zeros' = Zeros BY DEF Zeros
    <3>5. Zeros = [v \in Vertices |-> Zeros[v]] BY DEF Zeros
    <3> QED BY <1>1, <2>1, <3>1, <3>2, <3>3, <3>4, <3>5
  <2>5. Promise!Next BY <1>1, <2>1, <2>3 DEF Promise!Next, Promise!ApplyLayer
  <2> QED BY <2>4, <2>5
<1> QED BY <1>1, <1>4, <1>5, <1>6 DEF DistNext

-----------------------------------------------------------------------------
(* sharded_llayer.                                                         *)

\* The columns of a device follow those of the devices before it.
LEMMA OffsetsStack ==
    ASSUME SoundJob, job.executor = "recombine", NEW d \in 1 .. NumDevices
    PROVE  /\ Offset(d) \in Nat /\ Offset(d + 1) = Offset(d) + job.splits[d]
           /\ job.splits[d] \in Nat /\ Offset(d + 1) <= F /\ Offset(1) = 0
<1>1. /\ NumDevices \in Nat /\ NumDevices = Len(job.splits)
      /\ \A i \in 1 .. NumDevices : job.splits[i] \in Nat /\ job.splits[i] \in Int
  BY DEF SoundJob, NumDevices
<1>2. \A k \in 0 .. NumDevices : 1 .. k \in SUBSET (1 .. NumDevices) /\ IsFiniteSet(1 .. k)
  <2> SUFFICES ASSUME NEW k \in 0 .. NumDevices
               PROVE  1 .. k \in SUBSET (1 .. NumDevices) /\ IsFiniteSet(1 .. k)
    OBVIOUS
  <2>1. k \in Int /\ 1 \in Int BY <1>1
  <2>2. IsFiniteSet(1 .. k) BY <2>1, FS_Interval
  <2> QED BY <1>1, <2>1, <2>2
<1>3. d - 1 \in 0 .. NumDevices /\ d \in 0 .. NumDevices /\ d + 1 - 1 = d
      /\ NumDevices + 1 - 1 = NumDevices /\ NumDevices \in 0 .. NumDevices
  BY <1>1
<1>4. Offset(d) \in Nat
  <2>1. IsFiniteSet(1 .. (d - 1)) /\ \A i \in 1 .. (d - 1) : job.splits[i] \in Nat
    BY <1>1, <1>2, <1>3
  <2> QED BY <2>1, SumOfPart DEF Offset
<1>5. Offset(d + 1) = job.splits[d] + Offset(d)
  <2>1. IsFiniteSet(1 .. d) /\ (\A i \in 1 .. d : job.splits[i] \in Int) /\ d \in 1 .. d
    BY <1>1, <1>2, <1>3
  <2>2. (1 .. d) \ {d} = 1 .. (d - 1) OBVIOUS
  <2>3. SumFunctionOnSet(job.splits, 1 .. d)
            = job.splits[d] + SumFunctionOnSet(job.splits, (1 .. d) \ {d})
    BY <2>1, SumWithout
  <2>4. Offset(d + 1) = SumFunctionOnSet(job.splits, 1 .. d) BY <1>3 DEF Offset
  <2> QED BY <2>2, <2>3, <2>4 DEF Offset
<1>6. Offset(d + 1) <= F
  <2>1. SumFunctionOnSet(job.splits, 1 .. d)
            <= SumFunctionOnSet(job.splits, 1 .. NumDevices)
    <3>1. 1 .. d \in SUBSET (1 .. NumDevices) /\ IsFiniteSet(1 .. NumDevices)
      BY <1>2, <1>3
    <3> QED BY <1>1, <3>1, SumOfPart
  <2> QED BY <1>3, <2>1 DEF SoundJob, Offset
<1>7. Offset(1) = 0
  <2>1. 1 .. (1 - 1) = {} OBVIOUS
  <2> QED BY <2>1, FS_EmptySet, SumUnfolds DEF Offset
<1> QED BY <1>1, <1>4, <1>5, <1>6, <1>7

\* Every column is on a device.
LEMMA EveryColumnIsSharded ==
    ASSUME SoundJob, job.executor = "recombine", NEW f \in Columns
    PROVE  \E d \in 1 .. NumDevices : f \in Shard(d)
<1>1. NumDevices \in Nat /\ f \in Nat /\ f < F BY JobAssumption DEF SoundJob, NumDevices, Columns
<1> DEFINE T == {d \in 0 .. NumDevices : f < Offset(d + 1)}
<1>2. T \in SUBSET Nat /\ NumDevices \in T BY <1>1 DEF SoundJob
<1>3. PICK d \in T : \A e \in T : d <= e
  <2> HIDE DEF T
  <2> QED BY <1>2, Least
<1>4. d # 0
  <2>1. Offset(1) = 0
    <3>1. 1 .. (1 - 1) = {} OBVIOUS
    <3> QED BY <3>1, FS_EmptySet, SumUnfolds DEF Offset
  <2> QED BY <1>1, <2>1
<1>5. d \in 1 .. NumDevices /\ f < Offset(d + 1) BY <1>1, <1>4
<1>6. ~(f < Offset(d))
  <2>1. d - 1 \notin T BY <1>3, <1>5
  <2>2. d - 1 \in 0 .. NumDevices /\ d - 1 + 1 = d BY <1>1, <1>5
  <2> QED BY <2>1, <2>2
<1>7. /\ Offset(d) \in Nat /\ Offset(d + 1) = Offset(d) + job.splits[d]
      /\ job.splits[d] \in Nat
  BY <1>5, OffsetsStack
<1>8. f \in Shard(d)
  <2> DEFINE o == Offset(d) n == job.splits[d]
  <2>1. f < o + n /\ ~(f < o) /\ o \in Nat /\ n \in Nat BY <1>5, <1>6, <1>7
  <2> HIDE DEF o, n
  <2>2. f \in o .. (o + n - 1) BY <1>1, <2>1
  <2> QED BY <2>2 DEF Shard, o, n
<1> QED BY <1>5, <1>8

\* The concatenated shards are the sum over the neighbours.
LEMMA ConcatenationIsSum ==
    ASSUME SoundJob, job.executor = "recombine", RecInv, Len(shards) = NumDevices,
           NEW v \in Vertices
    PROVE  [f \in Columns |-> shards[CHOOSE d \in 1..NumDevices : f \in Shard(d)][v][f]]
               = SumRow(job, h, v)
<1> SUFFICES ASSUME NEW f \in Columns
             PROVE  shards[CHOOSE d \in 1..NumDevices : f \in Shard(d)][v][f]
                        = EdgeSum(job, h, v, f)
  BY DEF SumRow
<1> DEFINE d == CHOOSE d \in 1..NumDevices : f \in Shard(d)
<1>1. d \in 1 .. NumDevices /\ f \in Shard(d) BY EveryColumnIsSharded
<1> HIDE DEF d
<1>2. shards[d] = [u \in Vertices |-> [g \in Shard(d) |-> EdgeSum(job, h, u, g)]]
  BY <1>1 DEF RecInv, SumsOn
<1>3. shards[d][v][f] = EdgeSum(job, h, v, f) BY <1>1, <1>2
<1> QED BY <1>3 DEF d

\* Sums and products of the matrix are integers.
LEMMA SumsAreIntegers ==
    ASSUME SoundJob, job.executor = "recombine", h \in Matrix, NEW v \in Vertices
    PROVE  /\ \A f \in Columns : EdgeSum(job, h, v, f) \in Int
           /\ job.w # Unmixed => \A f, g \in Columns : Weighted(v, g)[f] \in Int
<1>1. ASSUME NEW f \in Columns PROVE EdgeSum(job, h, v, f) \in Int
  <2> DEFINE t == [i \in DOMAIN job.edges |->
                      LET e == job.edges[i]
                      IN  (IF e[2] = v THEN h[e[1]][f] ELSE 0)
                          + (IF e[1] = v THEN h[e[2]][f] ELSE 0)]
  <2>1. job.edges \in Seq(Vertices \X Vertices) BY DEF SoundJob
  <2>2. IsFiniteSet(DOMAIN job.edges)
    <3>1. DOMAIN job.edges = 1 .. Len(job.edges) /\ Len(job.edges) \in Nat BY <2>1
    <3> QED BY <3>1, FS_Interval
  <2>3. ASSUME NEW i \in DOMAIN job.edges PROVE t[i] \in Int
    <3>1. job.edges[i][1] \in Vertices /\ job.edges[i][2] \in Vertices
      <4>1. job.edges[i] \in Vertices \X Vertices BY <2>1
      <4> QED BY <4>1
    <3>2. \A u \in Vertices : h[u][f] \in Int BY DEF Matrix
    <3> DEFINE a == h[job.edges[i][1]][f] b == h[job.edges[i][2]][f]
    <3>3. a \in Int /\ b \in Int BY <3>1, <3>2
    <3>4. t[i] \in {a + b, a + 0, 0 + b, 0 + 0} OBVIOUS
    <3> HIDE DEF a, b, t
    <3> QED BY <3>3, <3>4
  <2>4. DOMAIN t = DOMAIN job.edges OBVIOUS
  <2> HIDE DEF t
  <2>5. SumFunctionOnSet(t, DOMAIN t) \in Int BY <2>2, <2>3, <2>4, SumType
  <2> QED BY <2>5 DEF EdgeSum, SumFunction, t
<1>2. ASSUME job.w # Unmixed, NEW f \in Columns, NEW g \in Columns
      PROVE  Weighted(v, g)[f] \in Int
  <2>1. job.w[f][g] \in Int BY <1>2 DEF SoundJob
  <2> QED BY <1>1, <2>1 DEF Weighted
<1> QED BY <1>1, <1>2

\* The partial product of a shard extends the part of the columns below it.
LEMMA ProductExtends ==
    ASSUME SoundJob, job.executor = "recombine", RecInv, job.w # Unmixed,
           Len(shards) = NumDevices, NEW d \in 1 .. NumDevices,
           NEW v \in Vertices, NEW g \in Columns
    PROVE  MixedBelow(Offset(d), v, g) + PartialProduct(d)[v][g]
               = MixedBelow(Offset(d + 1), v, g)
<1> DEFINE o == Offset(d) n == job.splits[d]
<1>1. o \in Nat /\ n \in Nat /\ Offset(d + 1) = o + n /\ o + n <= F /\ F \in Nat
  BY OffsetsStack, JobAssumption
<1>2. Shard(d) = o .. (o + n - 1) BY DEF Shard
<1> HIDE DEF o, n
<1>3. /\ 0 .. (o + n - 1) = (0 .. (o - 1)) \cup Shard(d)
      /\ (0 .. (o - 1)) \cap Shard(d) = {}
      /\ IsFiniteSet(0 .. (o - 1)) /\ IsFiniteSet(Shard(d))
      /\ 0 .. (o + n - 1) \subseteq Columns
  <2>1. IsFiniteSet(0 .. (o - 1)) /\ IsFiniteSet(Shard(d)) BY <1>1, <1>2, FS_Interval
  <2> QED BY <1>1, <1>2, <2>1 DEF Columns
<1>4. \A f \in (0 .. (o - 1)) \cup Shard(d) : Weighted(v, g)[f] \in Int
  BY <1>3, SumsAreIntegers DEF RecInv
<1>5. SumFunctionOnSet(Weighted(v, g), (0 .. (o - 1)) \cup Shard(d))
          = SumFunctionOnSet(Weighted(v, g), 0 .. (o - 1))
            + SumFunctionOnSet(Weighted(v, g), Shard(d))
  BY <1>3, <1>4, SumOfUnion
<1>6. PartialProduct(d)[v][g] = SumFunctionOnSet(Weighted(v, g), Shard(d))
  <2> DEFINE r == [f \in Shard(d) |-> shards[d][v][f] * [e \in Shard(d) |-> job.w[e]][f][g]]
  <2>1. shards[d] = [u \in Vertices |-> [f \in Shard(d) |-> EdgeSum(job, h, u, f)]]
    BY DEF RecInv, SumsOn
  <2>2. shards[d][v] = [f \in Shard(d) |-> EdgeSum(job, h, v, f)] BY <2>1
  <2>3. PartialProduct(d)[v][g] = SumFunction(r) BY <2>2 DEF PartialProduct, MixedRow
  <2>4. \A f \in Shard(d) : r[f] = Weighted(v, g)[f] BY <1>3, <2>2 DEF Weighted
  <2>5. DOMAIN r = Shard(d) OBVIOUS
  <2> HIDE DEF r
  <2>6. SumFunctionOnSet(r, Shard(d)) = SumFunctionOnSet(Weighted(v, g), Shard(d))
    BY <1>3, <2>4, SumOfSame
  <2> QED BY <2>3, <2>5, <2>6 DEF SumFunction
<1>7. MixedBelow(Offset(d), v, g) = SumFunctionOnSet(Weighted(v, g), 0 .. (o - 1))
  BY DEF MixedBelow, o
<1>8. MixedBelow(Offset(d + 1), v, g)
          = SumFunctionOnSet(Weighted(v, g), (0 .. (o - 1)) \cup Shard(d))
  <2>1. MixedBelow(o + n, v, g) = SumFunctionOnSet(Weighted(v, g), 0 .. (o + n - 1))
    <3>1. (o + n) - 1 = o + n - 1 BY <1>1
    <3> QED BY <3>1 DEF MixedBelow
  <2> QED BY <1>1, <1>3, <2>1
<1> QED BY <1>5, <1>6, <1>7, <1>8

\* After the last shard the partial product is the mixed row.
LEMMA AllColumnsMix ==
    ASSUME SoundJob, job.executor = "recombine", NEW v \in Vertices
    PROVE  [g \in Columns |-> MixedBelow(Offset(NumDevices + 1), v, g)]
               = MixedRow(job.w, SumRow(job, h, v))
<1> SUFFICES ASSUME NEW g \in Columns
             PROVE  MixedBelow(Offset(NumDevices + 1), v, g)
                        = MixedRow(job.w, SumRow(job, h, v))[g]
  BY DEF MixedRow
<1> DEFINE r == [f \in DOMAIN SumRow(job, h, v) |-> SumRow(job, h, v)[f] * job.w[f][g]]
<1>1. r = Weighted(v, g) BY DEF SumRow, Weighted
<1>2. MixedRow(job.w, SumRow(job, h, v))[g] = SumFunction(r) BY DEF MixedRow
<1>3. DOMAIN Weighted(v, g) = Columns BY DEF Weighted
<1>4. 0 .. (Offset(NumDevices + 1) - 1) = Columns BY DEF SoundJob, Columns
<1> HIDE DEF r
<1> QED BY <1>1, <1>2, <1>3, <1>4 DEF MixedBelow, SumFunction

\* Nothing of the invariant but the shards and the partial product depends
\* on a step inside a layer.
LEMMA LayerStays ==
    ASSUME UNCHANGED <<job, h>>
    PROVE  /\ NumDevices' = NumDevices
           /\ \A d : SumsOn(d)' = SumsOn(d)
           /\ UNCHANGED device => MixedSoFar' = MixedSoFar
<1>1. NumDevices' = NumDevices BY DEF NumDevices
<1>2. \A d : SumsOn(d)' = SumsOn(d) BY DEF SumsOn, Shard, Offset, EdgeSum, Vertices
<1>3. UNCHANGED device => MixedSoFar' = MixedSoFar
  BY DEF MixedSoFar, MixedBelow, Offset, Weighted, EdgeSum, Vertices, Columns
<1> QED BY <1>1, <1>2, <1>3

\* A new layer starts without shards and with an empty product.
LEMMA NextLayerStarts ==
    ASSUME SoundJob, job.executor = "recombine", NEW z, NextLayer(z),
           \A v \in Vertices : z[v] \in [Columns -> Int]
    PROVE  RecInv'
<1>1. job' = job /\ shards' = << >> /\ partial' = Zeros /\ device' = 1
      /\ h' = [v \in Vertices |-> PhiRow(job, z[v])]
  BY DEF NextLayer
<1>2. NumDevices' = NumDevices /\ NumDevices \in Nat
  BY <1>1 DEF SoundJob, NumDevices
<1>3. h' \in Matrix
  <2>1. ASSUME NEW v \in Vertices PROVE PhiRow(job, z[v]) \in [Columns -> Int]
    <3>1. z[v] \in [Columns -> Int] OBVIOUS
    <3>2. \A f \in Columns : Phi(job, z[v][f]) \in Int BY <3>1 DEF Phi
    <3> QED BY <3>1, <3>2 DEF PhiRow
  <2> QED BY <1>1, <2>1 DEF Matrix
<1>4. Matrix' = Matrix BY DEF Matrix
<1>5. partial' = MixedSoFar'
  <2>1. Offset(device)' = 0
    <3>1. 1 .. (1 - 1) = {} OBVIOUS
    <3> QED BY <1>1, <3>1, FS_EmptySet, SumUnfolds DEF Offset
  <2>2. \A v, g : MixedBelow(Offset(device), v, g)' = 0
    <3>1. 0 .. (0 - 1) = {} OBVIOUS
    <3> QED BY <2>1, <3>1, FS_EmptySet, SumUnfolds DEF MixedBelow
  <2>3. Zeros' = Zeros BY DEF Zeros, Vertices, Columns
  <2> QED BY <1>1, <2>2, <2>3 DEF Zeros, MixedSoFar, Vertices, Columns
<1> QED BY <1>1, <1>2, <1>3, <1>4, <1>5 DEF RecInv

\* A step of sharded_llayer keeps the invariant and is a layer or no step of
\* the promise.
LEMMA RecSound ==
    ASSUME job.executor = "recombine", SoundJob, RecInv, RecNext
    PROVE  RecInv' /\ [Promise!Next]_<<job, h, done>>
<1>1. job' = job
  BY DEF RecNext, AggregateShard, MixShard, ActivateMixed, ActivateConcatenated, NextLayer
<1>2. NumDevices \in Nat BY DEF SoundJob, NumDevices
<1>3. CASE AggregateShard
  <2>1. /\ Len(shards) < NumDevices /\ UNCHANGED <<job, h, done, partial, device>>
        /\ shards' = Append(shards, SumsOn(Len(shards) + 1))
    BY <1>3 DEF AggregateShard, SumsOn
  <2>2. Len(shards) + 1 \in 1 .. NumDevices
        /\ shards \in Seq({SumsOn(d) : d \in 1 .. NumDevices})
        /\ \A d \in 1 .. Len(shards) : shards[d] = SumsOn(d)
    BY <1>2, <2>1 DEF RecInv
  <2>3. /\ shards' \in Seq({SumsOn(d) : d \in 1 .. NumDevices})
        /\ Len(shards') <= NumDevices
        /\ \A d \in 1 .. Len(shards') : shards'[d] = SumsOn(d)
    BY <1>2, <2>1, <2>2
  <2>4. /\ NumDevices' = NumDevices /\ MixedSoFar' = MixedSoFar
        /\ \A d : SumsOn(d)' = SumsOn(d)
    BY <2>1, LayerStays
  <2>5. RecInv'
    BY <2>1, <2>3, <2>4 DEF RecInv, Matrix, Vertices, Columns, Unmixed
  <2> QED BY <2>1, <2>5
<1>4. CASE MixShard
  <2>1. /\ Len(shards) = NumDevices /\ job.w # Unmixed
        /\ device \in 1 .. NumDevices /\ UNCHANGED <<job, h, done, shards>>
        /\ partial' = Reduce(partial, PartialProduct(device)) /\ device' = device + 1
    BY <1>2, <1>4 DEF MixShard, Aggregated, RecInv
  <2>2. ASSUME NEW v \in Vertices, NEW g \in Columns
        PROVE  partial'[v][g] = MixedBelow(Offset(device + 1), v, g)
    <3>1. partial'[v][g] = partial[v][g] + PartialProduct(device)[v][g]
      BY <2>1 DEF Reduce
    <3>2. partial[v][g] = MixedBelow(Offset(device), v, g) BY <2>1 DEF RecInv, MixedSoFar
    <3> QED BY <2>1, <3>1, <3>2, ProductExtends
  <2>3. partial' = [v \in Vertices |-> [g \in Columns |-> MixedBelow(Offset(device + 1), v, g)]]
    <3>1. partial' = [v \in Vertices |-> [g \in Columns |-> partial'[v][g]]]
      BY <2>1 DEF Reduce
    <3> QED BY <2>2, <3>1
  <2>4. partial' = MixedSoFar'
    BY <2>1, <2>3 DEF MixedSoFar, MixedBelow, Offset, Weighted, EdgeSum, Vertices, Columns
  <2>5. /\ NumDevices' = NumDevices /\ \A d : SumsOn(d)' = SumsOn(d)
    BY <2>1, LayerStays
  <2>6. device' \in 1 .. NumDevices + 1 BY <1>2, <2>1
  <2>7. RecInv'
    BY <2>1, <2>4, <2>5, <2>6 DEF RecInv, Matrix, Vertices, Columns, Unmixed
  <2> QED BY <2>1, <2>7
<1>5. CASE ActivateMixed
  <2>1. /\ done < job.layers /\ job.w # Unmixed /\ device = NumDevices + 1
        /\ NextLayer(partial)
    BY <1>5 DEF ActivateMixed, Aggregated
  <2>2. \A v \in Vertices : partial[v] = MixedRow(job.w, SumRow(job, h, v))
    BY <2>1, AllColumnsMix DEF RecInv, MixedSoFar
  <2>3. h' = FullLayer(job, h) BY <1>1, <2>1, <2>2 DEF NextLayer, FullLayer
  <2>4. Promise!Next
    BY <2>1, <2>3 DEF NextLayer, Promise!Next, Promise!ApplyLayer, JobLayer
  <2>5. ASSUME NEW v \in Vertices PROVE partial[v] \in [Columns -> Int]
    <3>1. partial[v] = [g \in Columns |-> MixedBelow(F, v, g)]
      BY <2>1 DEF RecInv, MixedSoFar, SoundJob
    <3>2. ASSUME NEW g \in Columns PROVE MixedBelow(F, v, g) \in Int
      <4>1. IsFiniteSet(0 .. (F - 1)) /\ 0 .. (F - 1) = Columns
        BY FS_Interval, JobAssumption DEF Columns
      <4>2. \A f \in 0 .. (F - 1) : Weighted(v, g)[f] \in Int
        BY <2>1, <4>1, SumsAreIntegers DEF RecInv
      <4> QED BY <4>1, <4>2, SumType DEF MixedBelow
    <3> QED BY <3>1, <3>2
  <2>6. RecInv' BY <2>1, <2>5, NextLayerStarts
  <2> QED BY <2>4, <2>6
<1>6. CASE ActivateConcatenated
  <2> DEFINE z == [v \in Vertices |->
                      [f \in Columns |->
                          shards[CHOOSE d \in 1..NumDevices : f \in Shard(d)][v][f]]]
  <2>1. /\ done < job.layers /\ Len(shards) = NumDevices /\ NextLayer(z)
        /\ job.w = Unmixed
    BY <1>6 DEF ActivateConcatenated, Aggregated
  <2>2. \A v \in Vertices : z[v] = SumRow(job, h, v) BY <2>1, ConcatenationIsSum
  <2> HIDE DEF z
  <2>3. h' = FullLayer(job, h) BY <1>1, <2>1, <2>2 DEF NextLayer, FullLayer
  <2>4. Promise!Next
    BY <2>1, <2>3 DEF NextLayer, Promise!Next, Promise!ApplyLayer, JobLayer
  <2>5. \A v \in Vertices : z[v] \in [Columns -> Int]
    <3> SUFFICES ASSUME NEW v \in Vertices PROVE z[v] \in [Columns -> Int] OBVIOUS
    <3>1. \A f \in Columns : EdgeSum(job, h, v, f) \in Int BY SumsAreIntegers DEF RecInv
    <3> QED BY <2>2, <3>1 DEF SumRow
  <2>6. RecInv' BY <2>1, <2>5, NextLayerStarts
  <2> QED BY <2>4, <2>6
<1> QED BY <1>3, <1>4, <1>5, <1>6 DEF RecNext

-----------------------------------------------------------------------------
(* The theorems.                                                           *)

LEMMA InitSound == ASSUME Init, SoundJob PROVE IInv /\ Promise!Init
<1>1. job.executor = "coexec" => CoexecInv
  BY DEF Init, CoexecInit, CoexecInv
<1>2. job.executor = "distributed" => DistInv
  <2> SUFFICES ASSUME job.executor = "distributed" PROVE DistInv OBVIOUS
  <2>1. turn = -1 /\ next = Zeros BY DEF Init, DistInit
  <2>2. \A v \in Vertices : job.assign[v] \in -1 .. (Ranks - 1)
    BY TopologyAssumption DEF SoundJob, RankSet
  <2>3. \A v \in Vertices : (job.assign[v] >= 0 /\ job.assign[v] < -1) <=> FALSE BY <2>2
  <2> QED BY <2>1, <2>3, TopologyAssumption DEF DistInv, Zeros
<1>3. job.executor = "recombine" => RecInv
  <2> SUFFICES ASSUME job.executor = "recombine" PROVE RecInv OBVIOUS
  <2>1. /\ h = job.x /\ shards = << >> /\ partial = Zeros /\ device = 1
        /\ h \in Matrix /\ NumDevices \in Nat
    BY DEF Init, RecInit, SoundJob, NumDevices
  <2>2. Offset(device) = 0
    <3>1. 1 .. (1 - 1) = {} OBVIOUS
    <3> QED BY <2>1, <3>1, FS_EmptySet, SumUnfolds DEF Offset
  <2>3. \A v, g : MixedBelow(Offset(device), v, g) = 0
    <3>1. 0 .. (0 - 1) = {} OBVIOUS
    <3> QED BY <2>2, <3>1, FS_EmptySet, SumUnfolds DEF MixedBelow
  <2> QED BY <2>1, <2>3 DEF RecInv, MixedSoFar, Zeros
<1> QED BY <1>1, <1>2, <1>3 DEF IInv, Init, CoexecInit, Promise!Init

\* One executor's step leaves the job alone.
LEMMA NextSound == ASSUME IInv, [Next]_vars PROVE IInv' /\ [Promise!Next]_<<job, h, done>>
<1>1. CASE CoexecStep
  <2>1. job' = job
    BY <1>1 DEF CoexecStep, CoexecNext, HostStep, DeviceStep, Setup, Settle, Launch,
                HostShare, Join, Return, Simulate, ReturnSimulated, DeviceRuns, GiveUp
  <2>2. SoundJob' BY <2>1 DEF IInv, SoundJob, NumDevices, Shard, Offset
  <2> QED BY <1>1, <2>1, <2>2, CoexecSound DEF CoexecStep, IInv
<1>2. CASE DistStep
  <2>1. job' = job BY <1>2 DEF DistStep, DistNext, Plan, RankComputes, Following, EndLayer
  <2>2. SoundJob' BY <2>1 DEF IInv, SoundJob, NumDevices, Shard, Offset
  <2> QED BY <1>2, <2>1, <2>2, DistSound DEF DistStep, IInv
<1>3. CASE RecStep
  <2>1. job' = job
    BY <1>3 DEF RecStep, RecNext, AggregateShard, MixShard, ActivateMixed,
                ActivateConcatenated, NextLayer
  <2>2. SoundJob' BY <2>1 DEF IInv, SoundJob, NumDevices, Shard, Offset
  <2> QED BY <1>3, <2>1, <2>2, RecSound DEF RecStep, IInv
<1>4. CASE UNCHANGED vars
  <2>1. SoundJob' BY <1>4 DEF IInv, SoundJob, NumDevices, Shard, Offset, vars, coVars
  <2>2. CoexecInv' <=> CoexecInv
    BY <1>4 DEF vars, coVars, CoexecInv, MeanLayer, PhiRow, Phi, MeanRow, EdgeSum, Degree,
                CpuRows, CpuCount
  <2>3. DistInv' <=> DistInv
    BY <1>4 DEF vars, distVars, DistInv, MeanRow, EdgeSum, Degree, Zeros
  <2>4. RecInv' <=> RecInv
    <3>1. UNCHANGED <<job, h, shards, partial, device>> BY <1>4 DEF vars, coVars, recVars
    <3>2. /\ NumDevices' = NumDevices /\ MixedSoFar' = MixedSoFar
          /\ \A d : SumsOn(d)' = SumsOn(d)
      BY <3>1, LayerStays
    <3> QED BY <3>1, <3>2 DEF RecInv, Matrix
  <2> QED BY <1>4, <2>1, <2>2, <2>3, <2>4 DEF IInv, vars, coVars
<1> QED BY <1>1, <1>2, <1>3, <1>4 DEF Next

\* Wherever the rows and the columns are computed, with the device running
\* when it likes and the torch path raising anywhere, the matrix after every
\* layer is a single device's: for every graph, matrix, depth, layout and
\* weight matrix.
THEOREM ExecutorsImplement ==
    SoundJob /\ Init /\ [][Next]_vars => ExecutorsImplementLayers
<1>1. Init /\ SoundJob => IInv /\ Promise!Init BY InitSound
<1>2. IInv /\ [Next]_vars => IInv' /\ [Promise!Next]_<<job, h, done>> BY NextSound
<1> QED BY <1>1, <1>2, PTL DEF ExecutorsImplementLayers, Promise!Spec

-----------------------------------------------------------------------------
(* The halo plan.                                                          *)

\* The plan is that of the job.
HaloInv ==
    /\ SoundJob
    /\ turn >= 0 =>
          /\ job.executor = "distributed"
          /\ halo.intra = [r \in RankSet |-> ReceivedIntra(r)]
          /\ halo.inter = [r \in RankSet |-> ReceivedInter(r)]

\* As many pairs with the same first element as second elements.
LEMMA PairsCount ==
    ASSUME NEW S, IsFiniteSet(S), NEW r
    PROVE  Cardinality({<<r, u>> : u \in S}) = Cardinality(S)
<1> DEFINE T == {<<r, u>> : u \in S}
           f == [u \in S |-> <<r, u>>]
<1>1. f \in Injection(S, T) BY DEF Injection, IsInjective
<1>2. f \in Surjection(S, T) BY DEF Surjection
<1>3. ExistsBijection(S, T) BY <1>1, <1>2 DEF ExistsBijection, Bijection
<1> QED BY <1>3, FS_Bijection

\* The rows a rank receives are those its own rows need.
LEMMA ReceivesAreNeeded ==
    ASSUME SoundJob, job.executor = "distributed", NEW r \in RankSet
    PROVE  \A rcv : (rcv \in Receives /\ rcv[1] = r) <=> \E u \in Needed(r) : rcv = <<r, u>>
<1>1. /\ job.assign \in [Vertices -> {-1} \cup RankSet]
      /\ job.edges \in Seq(Vertices \X Vertices)
  BY DEF SoundJob
<1>2. Ranks \in Nat /\ \A k \in RankSet : k \in Nat BY TopologyAssumption DEF RankSet
<1>3. \A v \in Vertices : job.assign[v] >= 0 <=> job.assign[v] # -1 BY <1>1, <1>2
<1>4. \A i \in DOMAIN job.edges : job.edges[i] \in Vertices \X Vertices BY <1>1
<1>5. \A a, b : <<a, b>> \in Dependencies <=>
          \E i \in DOMAIN job.edges : job.edges[i] \in {<<a, b>>, <<b, a>>}
  <2> TAKE a, b
  <2>1. ASSUME NEW i \in DOMAIN job.edges, job.edges[i] = <<b, a>>
        PROVE  <<a, b>> \in Dependencies
    BY <2>1 DEF Dependencies, Range
  <2>2. ASSUME NEW i \in DOMAIN job.edges, job.edges[i] = <<a, b>>
        PROVE  <<a, b>> \in Dependencies
    BY <2>2 DEF Dependencies, Range
  <2>3. ASSUME <<a, b>> \in Dependencies
        PROVE  \E i \in DOMAIN job.edges : job.edges[i] \in {<<a, b>>, <<b, a>>}
    BY <1>4, <2>3 DEF Dependencies, Range
  <2> QED BY <2>1, <2>2, <2>3
<1>6. \A d \in Dependencies : \E a, b \in Vertices : d = <<a, b>>
  BY <1>4 DEF Dependencies, Range
<1>7. ASSUME NEW rcv, rcv \in Receives, rcv[1] = r
      PROVE  \E u \in Needed(r) : rcv = <<r, u>>
  <2>1. PICK d \in Crossing : rcv = <<job.assign[d[1]], d[2]>> BY <1>7 DEF Receives
  <2>2. PICK a, b \in Vertices : d = <<a, b>> BY <1>6, <2>1 DEF Crossing
  <2>3. /\ job.assign[a] = r /\ rcv = <<r, b>>
        /\ job.assign[b] # r /\ job.assign[b] # -1
    BY <1>3, <1>7, <2>1, <2>2 DEF Crossing
  <2>4. PICK i \in DOMAIN job.edges : job.edges[i] \in {<<a, b>>, <<b, a>>}
    BY <1>5, <2>1, <2>2 DEF Crossing
  <2>5. a \in Rows(r) BY <2>3 DEF Rows
  <2>6. b \in Needed(r) BY <2>3, <2>4, <2>5 DEF Needed
  <2> QED BY <2>3, <2>6
<1>8. ASSUME NEW u \in Needed(r)
      PROVE  <<r, u>> \in Receives
  <2>1. PICK i \in DOMAIN job.edges, v \in Rows(r) : job.edges[i] \in {<<u, v>>, <<v, u>>}
    BY DEF Needed
  <2>2. u \in Vertices /\ v \in Vertices /\ job.assign[v] = r /\ job.assign[u] \notin {r, -1}
    BY DEF Needed, Rows
  <2>3. <<v, u>> \in Dependencies BY <1>5, <2>1
  <2>4. job.assign[v] >= 0 /\ job.assign[u] >= 0 BY <1>2, <1>3, <2>2
  <2>5. <<v, u>> \in Crossing BY <2>2, <2>3, <2>4 DEF Crossing
  <2> QED BY <2>2, <2>5 DEF Receives
<1> QED BY <1>7, <1>8

\* What the plan counts, in terms of the needed rows.
LEMMA ReceivedCounts ==
    ASSUME SoundJob, job.executor = "distributed", NEW r \in RankSet
    PROVE  /\ ReceivedInter(r) = Cardinality({u \in Needed(r) :
                                      MachineOf(job.assign[u]) # MachineOf(r)})
           /\ ReceivedIntra(r) + ReceivedInter(r) = Cardinality(Needed(r))
<1> DEFINE Far  == {u \in Needed(r) : MachineOf(job.assign[u]) # MachineOf(r)}
           Near == {u \in Needed(r) : MachineOf(job.assign[u]) = MachineOf(r)}
<1>1. IsFiniteSet(Needed(r))
  <2>1. N - 1 \in Int /\ 0 \in Int BY JobAssumption
  <2>2. IsFiniteSet(Vertices) BY <2>1, FS_Interval DEF Vertices
  <2>3. Needed(r) \subseteq Vertices BY DEF Needed
  <2> QED BY <2>2, <2>3, FS_Subset
<1>2. IsFiniteSet(Far) /\ IsFiniteSet(Near) BY <1>1, FS_Subset
<1>3. {rcv \in Receives : rcv[1] = r /\ ~SameMachine(rcv)} = {<<r, u>> : u \in Far}
  BY ReceivesAreNeeded DEF SameMachine
<1>4. {rcv \in Receives : rcv[1] = r /\ SameMachine(rcv)} = {<<r, u>> : u \in Near}
  BY ReceivesAreNeeded DEF SameMachine
<1>5. ReceivedInter(r) = Cardinality(Far) BY <1>2, <1>3, PairsCount DEF ReceivedInter
<1>6. ReceivedIntra(r) = Cardinality(Near)
  <2>1. Cardinality({<<r, u>> : u \in Near}) = Cardinality(Near)
    <3> HIDE DEF Near
    <3> QED BY <1>2, PairsCount
  <2> QED BY <1>4, <2>1 DEF ReceivedIntra
<1>7. Near \cup Far = Needed(r) /\ Near \cap Far = {} OBVIOUS
<1> HIDE DEF Near, Far
<1>8. Cardinality(Needed(r)) = Cardinality(Near) + Cardinality(Far)
  <2>1. Cardinality(Near \cup Far)
            = Cardinality(Near) + Cardinality(Far) - Cardinality(Near \cap Far)
    BY <1>2, FS_Union
  <2>2. Cardinality({}) = 0 BY FS_EmptySet
  <2>3. Cardinality(Near) \in Nat /\ Cardinality(Far) \in Nat BY <1>2, FS_CardinalityType
  <2>4. Cardinality(Needed(r)) = Cardinality(Near) + Cardinality(Far) - Cardinality({})
    BY <1>7, <2>1
  <2> QED BY <2>2, <2>3, <2>4
<1>9. /\ ReceivedIntra(r) + ReceivedInter(r) = Cardinality(Needed(r))
      /\ ReceivedInter(r) = Cardinality(Far)
  BY <1>5, <1>6, <1>8
<1> QED BY <1>9 DEF Far

\* A plan of the job is exact.
LEMMA PlanIsExact == HaloInv => HaloIsExact
<1> SUFFICES ASSUME HaloInv, turn >= 0, NEW r \in RankSet
             PROVE  /\ halo.inter[r] = Cardinality({u \in Needed(r) :
                                           MachineOf(job.assign[u]) # MachineOf(r)})
                    /\ halo.intra[r] + halo.inter[r] = Cardinality(Needed(r))
                    /\ Verified => \A i \in DOMAIN job.edges, k \in {1, 2} :
                          job.assign[job.edges[i][k]] = r
                              => job.assign[job.edges[i][3 - k]] = r
                                 \/ job.edges[i][3 - k] \in Needed(r)
  BY DEF HaloIsExact
<1>1. halo.inter[r] = ReceivedInter(r) /\ halo.intra[r] = ReceivedIntra(r)
      /\ SoundJob /\ job.executor = "distributed"
  BY DEF HaloInv
<1>2. ASSUME Verified, NEW i \in DOMAIN job.edges, NEW k \in {1, 2},
             job.assign[job.edges[i][k]] = r, job.assign[job.edges[i][3 - k]] # r
      PROVE  job.edges[i][3 - k] \in Needed(r)
  <2> DEFINE v == job.edges[i][k]
             u == job.edges[i][3 - k]
  <2>1. u \in Vertices /\ v \in Vertices /\ job.edges[i] \in {<<u, v>>, <<v, u>>}
        /\ job.assign[v] = r /\ job.assign[u] # r
    BY <1>1, <1>2 DEF SoundJob
  <2>2. <<v, u>> \in Dependencies BY <2>1 DEF Dependencies, Range
  <2>3. job.assign[v] < 0 <=> job.assign[u] < 0 BY <1>2, <2>2 DEF Verified
  <2>4. ~(r < 0) BY TopologyAssumption DEF RankSet
  <2>5. job.assign[u] # -1 BY <2>1, <2>3, <2>4
  <2> HIDE DEF u, v
  <2>6. u \in Needed(r) BY <2>1, <2>5 DEF Needed, Rows
  <2> QED BY <2>6 DEF u
<1> QED BY <1>1, <1>2, ReceivedCounts

\* For every assignment and topology the plan moves every row that is needed
\* once, over the link that joins the two machines, and what the verifier
\* accepts lacks no row.
THEOREM HaloExact == SoundJob /\ Init /\ [][Next]_vars => []HaloIsExact
<1>1. Init /\ SoundJob => HaloInv
  BY DEF Init, DistInit, HaloInv
<1>2. HaloInv /\ [Next]_vars => HaloInv'
  <2> SUFFICES ASSUME HaloInv, [Next]_vars PROVE HaloInv' OBVIOUS
  <2>1. job' = job
    BY DEF Next, CoexecStep, CoexecNext, HostStep, DeviceStep, Setup, Settle, Launch,
           HostShare, Join, Return, Simulate, ReturnSimulated, DeviceRuns, GiveUp,
           DistStep, DistNext, Plan, RankComputes, Following, EndLayer,
           RecStep, RecNext, AggregateShard, MixShard, ActivateMixed,
           ActivateConcatenated, NextLayer, vars, coVars
  <2>2. SoundJob' BY <2>1 DEF HaloInv, SoundJob, NumDevices, Shard, Offset
  <2>3. \A r : ReceivedIntra(r)' = ReceivedIntra(r) /\ ReceivedInter(r)' = ReceivedInter(r)
    BY <2>1 DEF ReceivedIntra, ReceivedInter, Receives, Crossing, Dependencies, SameMachine
  <2>4. CASE UNCHANGED <<halo, turn>> BY <2>1, <2>2, <2>3, <2>4 DEF HaloInv
  <2>5. CASE DistStep /\ Plan BY <2>1, <2>2, <2>3, <2>5 DEF DistStep, Plan, HaloInv
  <2>6. CASE DistStep /\ (\E r \in RankSet : RankComputes(r))
    <3>1. turn >= 0 /\ halo' = halo
      BY <2>6, TopologyAssumption DEF RankComputes, Following, RankSet
    <3> QED BY <2>1, <2>2, <2>3, <3>1 DEF HaloInv
  <2>7. CASE DistStep /\ EndLayer
    <3>1. turn = Ranks /\ turn >= 0 /\ halo' = halo
      BY <2>7, TopologyAssumption DEF EndLayer
    <3> QED BY <2>1, <2>2, <2>3, <3>1 DEF HaloInv
  <2> QED BY <2>4, <2>5, <2>6, <2>7
          DEF Next, CoexecStep, RecStep, DistStep, DistNext, vars, distVars
<1> QED BY <1>1, <1>2, PlanIsExact, PTL
=============================================================================
