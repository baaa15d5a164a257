-------------------------- MODULE AllocationProofs --------------------------
(***************************************************************************)
(* Proofs about SupraSolver and Allocation for every graph, weight,        *)
(* capacity, number of devices and set of arrange's layouts: the loads are *)
(* exact and within the capacity, every move of the refinement lowers the  *)
(* weighted cut and refinement ends in a local optimum, and the plan keeps *)
(* the guarantees of the solver.                                           *)
(***************************************************************************)
EXTENDS Allocation, FiniteSetTheorems, TLAPS

\* A pair of cells has two different ends, both of them cells.
PairsAmong(pairs, C) ==
    /\ IsFiniteSet(pairs)
    /\ \A p \in pairs : p[2] \in C /\ p[3] \in C /\ p[2] # p[3]

TypeOK ==
    /\ IsFiniteSet(cells) /\ cells # {} /\ cells \subseteq Vertices \X Snapshots
    /\ PairsAmong(sp, cells) /\ PairsAmong(tp, cells)
    /\ ws \in Nat /\ wt \in Nat /\ capCells \in Nat
    /\ dev \in [cells -> Devices \cup {Unplaced}]
    /\ load \in [Devices -> Nat]
    /\ phase \in {"greedy", "refine", "solved", "fallback"}
    /\ todo \in SUBSET cells

\* What is still to be streamed is what has no device.
PlacedOnce ==
    /\ phase = "greedy" => \A c \in cells : c \in todo <=> dev[c] = Unplaced
    /\ phase = "refine" => dev \in [cells -> Devices]

IInv == TypeOK /\ PlacedOnce /\ LoadsExactWithinCap

-----------------------------------------------------------------------------
(* Cuts.                                                                   *)

\* The pairs of a cell that are cut are those whose other end is elsewhere.
LEMMA CutSplits ==
    ASSUME NEW C, NEW pairs, PairsAmong(pairs, C),
           NEW Target, NEW asg \in [C -> Target], NEW c \in C
    PROVE  Cardinality(CutPairs(asg, pairs)) =
               Cardinality(CutPairs(asg, pairs \ Touching(c, pairs)))
                   + Cardinality(Touching(c, pairs))
                   - Cardinality(PairsOn(asg, c, asg[c], pairs))
<1> DEFINE T == Touching(c, pairs)
           R == pairs \ T
           On == PairsOn(asg, c, asg[c], pairs)
<1>1. IsFiniteSet(T) /\ IsFiniteSet(R) /\ IsFiniteSet(pairs)
  BY FS_Subset DEF PairsAmong, Touching
<1>2. On \in SUBSET T /\ IsFiniteSet(On) /\ IsFiniteSet(T \ On) /\ IsFiniteSet(CutPairs(asg, R))
  BY <1>1, FS_Subset DEF PairsOn, CutPairs
<1>3. CutPairs(asg, pairs) = CutPairs(asg, R) \cup (T \ On)
  BY DEF CutPairs, PairsOn, Touching, OtherEnd, PairsAmong
<1>4. CutPairs(asg, R) \cap (T \ On) = {}
  BY DEF CutPairs
<1>5. Cardinality(CutPairs(asg, pairs)) = Cardinality(CutPairs(asg, R)) + Cardinality(T \ On)
  <2>1. Cardinality(CutPairs(asg, R) \cup (T \ On)) =
            Cardinality(CutPairs(asg, R)) + Cardinality(T \ On) - Cardinality(CutPairs(asg, R) \cap (T \ On))
    BY <1>2, FS_Union
  <2>2. Cardinality(CutPairs(asg, R)) \in Nat /\ Cardinality(T \ On) \in Nat
    BY <1>2, FS_CardinalityType
  <2>3. Cardinality(CutPairs(asg, R) \cap (T \ On)) = 0
    BY <1>4, FS_EmptySet
  <2> HIDE DEF T, R, On
  <2> QED BY <2>1, <2>2, <2>3, <1>3
<1>6. Cardinality(T \ On) = Cardinality(T) - Cardinality(On)
  <2>1. Cardinality(T \ On) = Cardinality(T) - Cardinality(T \cap On)
    BY <1>1, <1>2, FS_Difference
  <2>2. T \cap On = On
    BY <1>2
  <2> QED BY <2>1, <2>2
<1>7. /\ Cardinality(CutPairs(asg, R)) \in Nat /\ Cardinality(T) \in Nat
      /\ Cardinality(On) \in Nat
  BY <1>1, <1>2, FS_CardinalityType
<1> HIDE DEF T, R, On
<1> QED BY <1>5, <1>6, <1>7 DEF T, R, On

\* What moving one cell does to the number of cut pairs.
LEMMA CutAfterMove ==
    ASSUME NEW C, NEW pairs, PairsAmong(pairs, C),
           NEW Target, NEW asg \in [C -> Target], NEW c \in C, NEW d \in Target,
           NEW new \in [C -> Target], new[c] = d,
           \A x \in C \ {c} : new[x] = asg[x]
    PROVE  /\ Cardinality(CutPairs(new, pairs))
                   + Cardinality(PairsOn(asg, c, d, pairs))
               = Cardinality(CutPairs(asg, pairs))
                   + Cardinality(PairsOn(asg, c, asg[c], pairs))
           /\ Cardinality(CutPairs(new, pairs)) \in Nat
           /\ Cardinality(CutPairs(asg, pairs)) \in Nat
           /\ Cardinality(PairsOn(asg, c, d, pairs)) \in Nat
           /\ Cardinality(PairsOn(asg, c, asg[c], pairs)) \in Nat
<1> DEFINE T == Touching(c, pairs)
           R == pairs \ T
<1>1. Cardinality(CutPairs(asg, pairs)) =
          Cardinality(CutPairs(asg, R)) + Cardinality(T) - Cardinality(PairsOn(asg, c, asg[c], pairs))
  BY CutSplits
<1>2. Cardinality(CutPairs(new, pairs)) =
          Cardinality(CutPairs(new, R)) + Cardinality(T) - Cardinality(PairsOn(new, c, d, pairs))
  BY CutSplits
<1>3. CutPairs(new, R) = CutPairs(asg, R)
  BY DEF CutPairs, Touching, PairsAmong
<1>4. PairsOn(new, c, d, pairs) = PairsOn(asg, c, d, pairs)
  BY DEF PairsOn, Touching, OtherEnd, PairsAmong
<1>5. /\ IsFiniteSet(CutPairs(asg, R)) /\ IsFiniteSet(T) /\ IsFiniteSet(CutPairs(asg, pairs))
      /\ IsFiniteSet(CutPairs(new, pairs))
      /\ IsFiniteSet(PairsOn(asg, c, d, pairs)) /\ IsFiniteSet(PairsOn(asg, c, asg[c], pairs))
  BY FS_Subset DEF PairsAmong, Touching, CutPairs, PairsOn
<1>6. /\ Cardinality(CutPairs(asg, R)) \in Nat /\ Cardinality(T) \in Nat
      /\ Cardinality(CutPairs(asg, pairs)) \in Nat /\ Cardinality(CutPairs(new, pairs)) \in Nat
      /\ Cardinality(PairsOn(asg, c, d, pairs)) \in Nat
      /\ Cardinality(PairsOn(asg, c, asg[c], pairs)) \in Nat
  BY <1>5, FS_CardinalityType
<1> HIDE DEF T, R
<1> QED BY <1>1, <1>2, <1>3, <1>4, <1>6

\* The weights multiply what moves between the two sides.
LEMMA WeightedBalance ==
    ASSUME NEW w \in Nat, NEW x \in Nat, NEW y \in Nat, NEW a \in Nat, NEW b \in Nat,
           x + a = y + b
    PROVE  w * x + w * a = w * y + w * b
<1>1. w * (x + a) = w * x + w * a /\ w * (y + b) = w * y + w * b
  OBVIOUS
<1> QED BY <1>1

\* What moving one cell does to the cost: it falls by what the new device
\* retains and rises by what the old one did.
LEMMA MoveBalance ==
    ASSUME TypeOK, dev \in [cells -> Devices], NEW c \in cells, NEW d \in Devices
    PROVE  /\ CostOf([dev EXCEPT ![c] = d]) + Pull(c, d) = CostOf(dev) + Pull(c, dev[c])
           /\ CostOf([dev EXCEPT ![c] = d]) \in Nat /\ CostOf(dev) \in Nat
           /\ Pull(c, d) \in Nat /\ Pull(c, dev[c]) \in Nat
<1> DEFINE new == [dev EXCEPT ![c] = d]
           s  == Cardinality(CutPairs(dev, sp))  s1 == Cardinality(CutPairs(new, sp))
           t  == Cardinality(CutPairs(dev, tp))  t1 == Cardinality(CutPairs(new, tp))
           sa == Cardinality(PairsOn(dev, c, dev[c], sp))  sb == Cardinality(PairsOn(dev, c, d, sp))
           ta == Cardinality(PairsOn(dev, c, dev[c], tp))  tb == Cardinality(PairsOn(dev, c, d, tp))
<1>a. new \in [cells -> Devices] /\ new[c] = d /\ \A x \in cells \ {c} : new[x] = dev[x]
  OBVIOUS
<1> HIDE DEF new
<1>b. ASSUME NEW q, PairsAmong(q, cells)
      PROVE  /\ Cardinality(CutPairs(new, q)) + Cardinality(PairsOn(dev, c, d, q))
                    = Cardinality(CutPairs(dev, q)) + Cardinality(PairsOn(dev, c, dev[c], q))
             /\ Cardinality(CutPairs(new, q)) \in Nat /\ Cardinality(CutPairs(dev, q)) \in Nat
             /\ Cardinality(PairsOn(dev, c, d, q)) \in Nat
             /\ Cardinality(PairsOn(dev, c, dev[c], q)) \in Nat
  BY ONLY <1>b, <1>a, CutAfterMove, dev \in [cells -> Devices], c \in cells, d \in Devices
<1>1. s1 + sb = s + sa /\ s1 \in Nat /\ s \in Nat /\ sb \in Nat /\ sa \in Nat
  BY <1>b, Zenon DEF TypeOK
<1>2. t1 + tb = t + ta /\ t1 \in Nat /\ t \in Nat /\ tb \in Nat /\ ta \in Nat
  BY <1>b, Zenon DEF TypeOK
<1>3. Pull(c, d) = ws * sb + wt * tb /\ Pull(c, dev[c]) = ws * sa + wt * ta
  BY DEF Pull
<1>4. CostOf(new) = ws * s1 + wt * t1 /\ CostOf(dev) = ws * s + wt * t
  BY DEF CostOf
<1> HIDE DEF s, s1, t, t1, sa, sb, ta, tb
<1>5. ws * s1 + ws * sb = ws * s + ws * sa
  BY <1>1, WeightedBalance DEF TypeOK
<1>6. wt * t1 + wt * tb = wt * t + wt * ta
  BY <1>2, WeightedBalance DEF TypeOK
<1>7. /\ ws * s1 \in Nat /\ ws * sb \in Nat /\ ws * s \in Nat /\ ws * sa \in Nat
      /\ wt * t1 \in Nat /\ wt * tb \in Nat /\ wt * t \in Nat /\ wt * ta \in Nat
  BY <1>1, <1>2 DEF TypeOK
<1>8. /\ CostOf(new) + Pull(c, d) = CostOf(dev) + Pull(c, dev[c])
      /\ CostOf(new) \in Nat /\ CostOf(dev) \in Nat /\ Pull(c, d) \in Nat /\ Pull(c, dev[c]) \in Nat
  BY <1>3, <1>4, <1>5, <1>6, <1>7
<1> QED BY <1>8 DEF new

\* The cost of any assignment is a natural number.
LEMMA CostType ==
    ASSUME TypeOK, NEW asg
    PROVE  CostOf(asg) \in Nat
<1>1. IsFiniteSet(CutPairs(asg, sp)) /\ IsFiniteSet(CutPairs(asg, tp))
  BY FS_Subset DEF CutPairs, TypeOK, PairsAmong
<1>2. Cardinality(CutPairs(asg, sp)) \in Nat /\ Cardinality(CutPairs(asg, tp)) \in Nat
  BY <1>1, FS_CardinalityType
<1>3. \A a \in Nat, b \in Nat : a * b \in Nat
  OBVIOUS
<1>4. ws \in Nat /\ wt \in Nat
  BY DEF TypeOK
<1>5. /\ ws * Cardinality(CutPairs(asg, sp)) \in Nat
      /\ wt * Cardinality(CutPairs(asg, tp)) \in Nat
  BY <1>2, <1>3, <1>4
<1> QED BY <1>5 DEF CostOf

-----------------------------------------------------------------------------
(* Loads.                                                                  *)

\* Giving a cell the device d adds it to the cells of d and removes it from
\* those of the device it had.
LEMMA LoadAfterMove ==
    ASSUME NEW asg, IsFiniteSet(DOMAIN asg), NEW new, DOMAIN new = DOMAIN asg,
           NEW c \in DOMAIN asg, new[c] # asg[c],
           \A x \in (DOMAIN asg) \ {c} : new[x] = asg[x],
           NEW e
    PROVE  /\ e = new[c] => Cardinality(CellsOn(new, e)) = Cardinality(CellsOn(asg, e)) + 1
           /\ e = asg[c] => Cardinality(CellsOn(new, e)) = Cardinality(CellsOn(asg, e)) - 1
           /\ e # new[c] /\ e # asg[c] => Cardinality(CellsOn(new, e)) = Cardinality(CellsOn(asg, e))
<1>1. IsFiniteSet(CellsOn(asg, e))
  BY FS_Subset DEF CellsOn
<1>2. ASSUME e = new[c]
      PROVE  Cardinality(CellsOn(new, e)) = Cardinality(CellsOn(asg, e)) + 1
  <2>1. CellsOn(new, e) = CellsOn(asg, e) \cup {c} /\ c \notin CellsOn(asg, e)
    BY <1>2 DEF CellsOn
  <2> QED BY <2>1, <1>1, FS_AddElement
<1>3. ASSUME e = asg[c]
      PROVE  Cardinality(CellsOn(new, e)) = Cardinality(CellsOn(asg, e)) - 1
  <2>1. CellsOn(new, e) = CellsOn(asg, e) \ {c} /\ c \in CellsOn(asg, e)
    BY <1>3 DEF CellsOn
  <2> QED BY <2>1, <1>1, FS_RemoveElement
<1>4. ASSUME e # new[c], e # asg[c]
      PROVE  CellsOn(new, e) = CellsOn(asg, e)
  BY <1>4 DEF CellsOn
<1> QED BY <1>2, <1>3, <1>4

\* The capacity is a natural number.
LEMMA CapacityType ==
    ASSUME TypeOK
    PROVE  Capacity \in Nat
<1>1. Cardinality(cells) \in Nat
  BY FS_CardinalityType DEF TypeOK
<1>2. \A a \in Nat, b \in Nat \ {0} : a \div b \in Nat
  BY SMT
<1>3. Cardinality(cells) + D - 1 \in Nat /\ D \in Nat \ {0}
  BY <1>1, SupraAssumption
<1>4. MinFeasible \in Nat
  BY <1>2, <1>3 DEF MinFeasible
<1> QED BY <1>4 DEF Capacity, TypeOK

-----------------------------------------------------------------------------
(* The invariant.                                                          *)

\* The cells are finitely many, and so are the pairs of either kind.
LEMMA GraphIsFinite ==
    ASSUME NEW E \in Seq(TimedEdges)
    PROVE  /\ IsFiniteSet(CellsOf(E)) /\ CellsOf(E) \subseteq Vertices \X Snapshots
           /\ PairsAmong(SpatialPairs(E), CellsOf(E))
           /\ PairsAmong(TemporalPairs(E), CellsOf(E))
<1>1. IsFiniteSet(CellsOf(E)) /\ CellsOf(E) \subseteq Vertices \X Snapshots
  <2>1. CellsOf(E) \subseteq Vertices \X Snapshots
    <3>1. \A k \in DOMAIN E : E[k].src \in Vertices /\ E[k].dst \in Vertices /\ E[k].snap \in Snapshots
      <4>1. \A k \in DOMAIN E : E[k] \in TimedEdges
        OBVIOUS
      <4> QED BY <4>1 DEF TimedEdges
    <3> QED BY <3>1 DEF CellsOf
  <2>2. IsFiniteSet(Vertices \X Snapshots)
    BY FS_Product, SupraAssumption
  <2> QED BY <2>1, <2>2, FS_Subset
<1>2. PairsAmong(SpatialPairs(E), CellsOf(E))
  <2> DEFINE K == {j \in DOMAIN E : E[j].src # E[j].dst}
             f == [k \in K |-> <<k, <<E[k].src, E[k].snap>>, <<E[k].dst, E[k].snap>>>>]
  <2>1. IsFiniteSet(K)
    <3>1. IsFiniteSet(1 .. Len(E))
      BY FS_Interval
    <3> QED BY <3>1, FS_Subset
  <2>2. f \in Surjection(K, SpatialPairs(E))
    BY DEF Surjection, SpatialPairs
  <2>3. IsFiniteSet(SpatialPairs(E))
    BY <2>1, <2>2, FS_Surjection
  <2>4. \A p \in SpatialPairs(E) : p[2] \in CellsOf(E) /\ p[3] \in CellsOf(E) /\ p[2] # p[3]
    BY DEF SpatialPairs, CellsOf
  <2> QED BY <2>3, <2>4 DEF PairsAmong
<1>3. PairsAmong(TemporalPairs(E), CellsOf(E))
  <2> DEFINE C == CellsOf(E)
             K == {q \in C \X C :
                      /\ q[1][1] = q[2][1] /\ q[1][2] < q[2][2]
                      /\ \A c \in C : ~(c[1] = q[1][1] /\ q[1][2] < c[2] /\ c[2] < q[2][2])}
             f == [q \in K |-> <<0, q[1], q[2]>>]
  <2>1. IsFiniteSet(K)
    <3>1. IsFiniteSet(C \X C)
      BY <1>1, FS_Product
    <3> QED BY <3>1, FS_Subset
  <2>2. TemporalPairs(E) = {<<0, q[1], q[2]>> : q \in K}
    BY DEF TemporalPairs
  <2>3. f \in Surjection(K, TemporalPairs(E))
    BY <2>2 DEF Surjection
  <2>4. IsFiniteSet(TemporalPairs(E))
    BY <2>1, <2>3, FS_Surjection
  <2>5. \A q \in K : q[1] \in C /\ q[2] \in C /\ q[1] # q[2]
    <3>1. \A q \in K : q[1][2] \in Int /\ q[2][2] \in Int /\ q[1][2] < q[2][2]
      <4>1. \A k \in DOMAIN E : E[k].snap \in Int
        <5>1. \A k \in DOMAIN E : E[k] \in TimedEdges
          OBVIOUS
        <5>2. \A e \in TimedEdges : e.snap \in Snapshots
          BY DEF TimedEdges
        <5>3. \A t \in Snapshots : t \in Int
          BY SupraAssumption
        <5> HIDE DEF C, K, f
        <5> QED BY <5>1, <5>2, <5>3
      <4>2. \A c \in C : c[2] \in Int
        BY <4>1 DEF CellsOf
      <4> QED BY <4>2
    <3> QED BY <3>1
  <2>6. \A p \in TemporalPairs(E) : p[2] \in C /\ p[3] \in C /\ p[2] # p[3]
    BY <2>2, <2>5
  <2> QED BY <2>4, <2>6 DEF PairsAmong
<1> QED BY <1>1, <1>2, <1>3

LEMMA InitIInv == SolverInit => IInv
<1> SUFFICES ASSUME SolverInit PROVE IInv
  OBVIOUS
<1>1. /\ IsFiniteSet(cells) /\ cells \subseteq Vertices \X Snapshots
      /\ PairsAmong(sp, cells) /\ PairsAmong(tp, cells)
  BY GraphIsFinite DEF SolverInit
<1>2. TypeOK
  <2>1. ws \in Nat /\ wt \in Nat /\ capCells \in Nat
    BY SolverAssumption DEF SolverInit
  <2>2. dev \in [cells -> Devices \cup {Unplaced}] /\ load \in [Devices -> Nat]
    BY DEF SolverInit, Init
  <2>3. cells # {} /\ phase = "greedy" /\ todo = cells
    BY DEF SolverInit, Init
  <2> QED BY <1>1, <2>1, <2>2, <2>3 DEF TypeOK
<1>3. PlacedOnce
  BY DEF PlacedOnce, SolverInit, Init
<1>4. \A d \in Devices : CellsOn(dev, d) = {} /\ load[d] = 0
  BY DEF CellsOn, SolverInit, Init, Devices, Unplaced
<1>5. LoadsExactWithinCap
  BY <1>2, <1>4, FS_EmptySet, CapacityType DEF LoadsExactWithinCap
<1> QED BY <1>2, <1>3, <1>5 DEF IInv

\* A step that gives one cell a new device, adds it to the load of a device
\* with room and takes it from the load of the device it had.
LEMMA Relocation ==
    ASSUME IInv, UNCHANGED input, NEW c \in cells, NEW d \in Devices, d # dev[c],
           load[d] + 1 <= Capacity,
           dev' = [dev EXCEPT ![c] = d],
           load' = [e \in Devices |-> IF e = d THEN load[e] + 1
                                      ELSE IF e = dev[c] THEN load[e] - 1 ELSE load[e]]
    PROVE  /\ dev' \in [cells' -> Devices \cup {Unplaced}]
           /\ load' \in [Devices -> Nat]
           /\ LoadsExactWithinCap'
<1>1. Capacity \in Nat /\ Capacity' = Capacity
  BY CapacityType DEF IInv, Capacity, input, HardCap, MinFeasible
<1>2. dev \in [cells -> Devices \cup {Unplaced}] /\ IsFiniteSet(cells) /\ cells' = cells
  BY DEF IInv, TypeOK, input
<1>3. \A e \in Devices : Cardinality(CellsOn(dev', e)) =
              IF e = d THEN Cardinality(CellsOn(dev, e)) + 1
              ELSE IF e = dev[c] THEN Cardinality(CellsOn(dev, e)) - 1
              ELSE Cardinality(CellsOn(dev, e))
  <2>1. /\ DOMAIN dev = cells /\ DOMAIN dev' = cells /\ dev'[c] = d
        /\ \A x \in cells \ {c} : dev'[x] = dev[x]
    BY <1>2
  <2>2. SUFFICES ASSUME NEW new, new = dev', NEW e \in Devices
                 PROVE  Cardinality(CellsOn(new, e)) =
                            IF e = d THEN Cardinality(CellsOn(dev, e)) + 1
                            ELSE IF e = dev[c] THEN Cardinality(CellsOn(dev, e)) - 1
                            ELSE Cardinality(CellsOn(dev, e))
    OBVIOUS
  <2>3. /\ DOMAIN dev = cells /\ DOMAIN new = cells /\ new[c] = d
        /\ \A x \in cells \ {c} : new[x] = dev[x]
    BY <2>1, <2>2
  <2> QED BY ONLY <1>2, <2>3, LoadAfterMove, c \in cells, d # dev[c]
<1>4. \A e \in Devices : load[e] = Cardinality(CellsOn(dev, e)) /\ load[e] <= Capacity /\ load[e] \in Nat
  BY DEF IInv, LoadsExactWithinCap, TypeOK
<1>5. \A e \in Devices : load'[e] = Cardinality(CellsOn(dev', e))
  BY <1>3, <1>4
<1>6. \A e \in Devices : IsFiniteSet(CellsOn(dev', e))
  BY <1>2, FS_Subset DEF CellsOn
<1>7. \A e \in Devices : load'[e] \in Nat
  BY <1>5, <1>6, FS_CardinalityType
<1>8. \A e \in Devices : load'[e] <= Capacity'
  BY <1>1, <1>4, <1>7
<1> QED BY <1>2, <1>5, <1>7, <1>8 DEF LoadsExactWithinCap

LEMMA StepIInv == IInv /\ [SolverNext]_solverVars => IInv'
<1> SUFFICES ASSUME IInv, [SolverNext]_solverVars PROVE IInv'
  OBVIOUS
<1> USE DEF IInv, TypeOK, PlacedOnce
<1>1. ASSUME NEW c \in todo, Place(c) PROVE IInv'
  <2>1. PICK d \in Open : /\ dev' = [dev EXCEPT ![c] = d]
                         /\ load' = [load EXCEPT ![d] = @ + 1]
    BY <1>1 DEF Place
  <2>2. d \in Devices /\ load[d] + 1 <= Capacity
    BY CapacityType DEF Open
  <2>3. dev[c] = Unplaced /\ Unplaced \notin Devices /\ c \in cells /\ d # dev[c]
    BY <1>1, <2>2 DEF Place, Unplaced, Devices
  <2>4. load' = [e \in Devices |-> IF e = d THEN load[e] + 1
                                   ELSE IF e = dev[c] THEN load[e] - 1 ELSE load[e]]
    BY <2>1, <2>2, <2>3
  <2>5. UNCHANGED input /\ phase' = "greedy" /\ todo' = todo \ {c} /\ phase = "greedy"
    BY <1>1 DEF Place
  <2>6. /\ dev' \in [cells' -> Devices \cup {Unplaced}] /\ load' \in [Devices -> Nat]
        /\ LoadsExactWithinCap'
    <3>1. dev' = [dev EXCEPT ![c] = d] /\ UNCHANGED input
      BY <2>1, <2>5
    <3>2. IInv
      OBVIOUS
    <3> HIDE DEF IInv, TypeOK, PlacedOnce
    <3> QED BY <3>1, <3>2, <2>2, <2>3, <2>4, Relocation, Zenon
  <2>7. PlacedOnce'
    BY <2>1, <2>2, <2>3, <2>5 DEF input
  <2>8. TypeOK'
    BY <2>5, <2>6 DEF input
  <2> QED BY <2>6, <2>7, <2>8
<1>2. ASSUME NEW c \in todo, Move(c) PROVE IInv'
  <2>1. PICK d \in Better(c) : /\ dev' = [dev EXCEPT ![c] = d]
                              /\ load' = [load EXCEPT ![dev[c]] = @ - 1, ![d] = @ + 1]
    BY <1>2 DEF Move
  <2>2. d \in Devices /\ d # dev[c] /\ load[d] + 1 <= Capacity /\ c \in cells
    BY DEF Better, Roomy
  <2>3. UNCHANGED input /\ phase' = "refine" /\ phase = "refine" /\ todo' = todo \ {c}
    BY <1>2 DEF Move
  <2>4. load' = [e \in Devices |-> IF e = d THEN load[e] + 1
                                   ELSE IF e = dev[c] THEN load[e] - 1 ELSE load[e]]
    BY <2>1, <2>2, <2>3
  <2>5. /\ dev' \in [cells' -> Devices \cup {Unplaced}] /\ load' \in [Devices -> Nat]
        /\ LoadsExactWithinCap'
    <3>1. dev' = [dev EXCEPT ![c] = d] /\ UNCHANGED input
      BY <2>1, <2>3
    <3>2. IInv
      OBVIOUS
    <3> HIDE DEF IInv, TypeOK, PlacedOnce
    <3> QED BY <3>1, <3>2, <2>2, <2>4, Relocation, Zenon
  <2>6. PlacedOnce'
    BY <2>1, <2>2, <2>3 DEF input
  <2>7. TypeOK'
    BY <2>3, <2>5 DEF input
  <2> QED BY <2>5, <2>6, <2>7
<1>3. ASSUME UNCHANGED <<input, dev, load>>, todo' \in SUBSET cells,
             phase' \in {"greedy", "refine", "solved", "fallback"}, PlacedOnce'
      PROVE  IInv'
  <2>1. LoadsExactWithinCap'
    BY <1>3 DEF LoadsExactWithinCap, Capacity, HardCap, MinFeasible, input
  <2> QED BY <1>3, <2>1 DEF input
<1>4. ASSUME NEW c \in todo, Stay(c) PROVE IInv'
  BY <1>4, <1>3 DEF Stay, input
<1>5. CASE StartRefine
  <2>1. dev \in [cells -> Devices]
    BY <1>5 DEF StartRefine
  <2> QED BY <1>5, <2>1, <1>3 DEF StartRefine, input
<1>6. CASE NextRound
  BY <1>6, <1>3 DEF NextRound, input
<1>7. CASE Pick
  BY <1>7, <1>3 DEF Pick, input
<1>8. CASE Fallback
  BY <1>8, <1>3 DEF Fallback, input
<1>9. CASE UNCHANGED solverVars
  BY <1>9, <1>3 DEF solverVars, input
<1> QED BY <1>1, <1>2, <1>4, <1>5, <1>6, <1>7, <1>8, <1>9 DEF SolverNext

-----------------------------------------------------------------------------
(* The local optimum.                                                      *)

\* Of the cells a round without a move has visited, none can be moved.
RoundIsQuiet ==
    /\ phase = "solved" => todo = {} /\ dev \in [cells -> Devices]
    /\ phase \in {"refine", "solved"} /\ ~moved => \A c \in cells \ todo : Better(c) = {}

LEMMA StepRoundIsQuiet ==
    ASSUME IInv, RoundIsQuiet, [SolverNext]_solverVars
    PROVE  RoundIsQuiet'
<1>1. ASSUME UNCHANGED <<input, dev, load>>, NEW c \in cells
      PROVE  Better(c)' = Better(c)
  BY <1>1 DEF Better, Roomy, Pull, Capacity, HardCap, MinFeasible, input
<1>2. ASSUME NEW c \in todo, Place(c) PROVE RoundIsQuiet'
  BY <1>2 DEF Place, RoundIsQuiet
<1>3. ASSUME NEW c \in todo, Move(c) PROVE RoundIsQuiet'
  BY <1>3 DEF Move, RoundIsQuiet
<1>4. ASSUME NEW c \in todo, Stay(c) PROVE RoundIsQuiet'
  <2>1. /\ UNCHANGED <<input, dev, load>> /\ cells' = cells
        /\ phase = "refine" /\ phase' = "refine" /\ moved' = moved /\ todo' = todo \ {c} /\ Better(c) = {}
    BY <1>4 DEF Stay, input
  <2>2. \A b \in cells : Better(b)' = Better(b)
    BY <2>1, <1>1
  <2> QED BY <2>1, <2>2 DEF RoundIsQuiet
<1>5. CASE StartRefine
  BY <1>5 DEF StartRefine, RoundIsQuiet, input
<1>6. CASE NextRound
  BY <1>6 DEF NextRound, RoundIsQuiet, input
<1>7. CASE Pick
  <2>1. /\ UNCHANGED <<input, dev, load>> /\ cells' = cells
        /\ phase = "refine" /\ phase' = "solved" /\ moved' = moved /\ todo' = todo /\ todo = {}
    BY <1>7 DEF Pick, input
  <2>2. \A b \in cells : Better(b)' = Better(b)
    BY <2>1, <1>1
  <2>3. dev \in [cells -> Devices] /\ dev' = dev
    BY <2>1 DEF IInv, PlacedOnce
  <2> QED BY <2>1, <2>2, <2>3 DEF RoundIsQuiet
<1>8. CASE Fallback
  BY <1>8 DEF Fallback, RoundIsQuiet
<1>9. CASE UNCHANGED solverVars
  <2>1. UNCHANGED <<input, dev, load>> /\ cells' = cells /\ UNCHANGED <<phase, moved, todo>> /\ dev' = dev
    BY <1>9 DEF solverVars, input
  <2>2. \A b \in cells : Better(b)' = Better(b)
    BY <2>1, <1>1
  <2> QED BY <2>1, <2>2 DEF RoundIsQuiet
<1> QED BY <1>2, <1>3, <1>4, <1>5, <1>6, <1>7, <1>8, <1>9 DEF SolverNext

\* A cell that has no better device cannot lower the cost by moving.
LEMMA QuietIsOptimal ==
    ASSUME IInv, RoundIsQuiet
    PROVE  LocalOptimum
<1> SUFFICES ASSUME phase = "solved", ~moved, NEW c \in cells, NEW d \in Devices, load[d] < Capacity
             PROVE  CostOf([dev EXCEPT ![c] = d]) >= CostOf(dev)
  BY DEF LocalOptimum
<1>1. dev \in [cells -> Devices] /\ Better(c) = {} /\ TypeOK
  BY DEF RoundIsQuiet, IInv
<1>2. Roomy(d)
  <2>1. load[d] \in Nat /\ Capacity \in Nat
    BY <1>1, CapacityType DEF TypeOK
  <2> QED BY <2>1 DEF Roomy
<1>3. d = dev[c] \/ ~(Pull(c, d) > Pull(c, dev[c]))
  BY <1>1, <1>2 DEF Better
<1>4. \A a, b, p, q \in Nat : a + p = b + q /\ (p = q \/ ~(p > q)) => a >= b
  OBVIOUS
<1>5. Pull(c, d) = Pull(c, dev[c]) \/ ~(Pull(c, d) > Pull(c, dev[c]))
  BY <1>3
<1> QED BY <1>1, <1>4, <1>5, MoveBalance

-----------------------------------------------------------------------------
(* The assignment that is written.                                         *)

\* A block assignment gives every cell a device.
LEMMA BlocksAreTotal ==
    ASSUME TypeOK, NEW coord \in {1, 2}
    PROVE  BlockAssignment(cells, coord) \in [cells -> Devices]
<1> DEFINE Values == {c[coord] : c \in cells}
           Rank(x) == Cardinality({y \in Values : y < x})
           n == Cardinality(Values)
<1>1. IsFiniteSet(Values) /\ Values \in SUBSET Nat
  <2> DEFINE f == [c \in cells |-> c[coord]]
  <2>1. f \in Surjection(cells, Values)
    BY DEF Surjection
  <2>2. IsFiniteSet(Values)
    BY <2>1, FS_Surjection DEF TypeOK
  <2>3. \A c \in cells : c[coord] \in Nat
    BY SupraAssumption DEF TypeOK
  <2> QED BY <2>2, <2>3
<1>2. ASSUME NEW x \in Values PROVE Rank(x) \in Nat /\ n \in Nat /\ Rank(x) < n
  <2>1. {y \in Values : y < x} \in SUBSET Values /\ x \notin {y \in Values : y < x}
    BY <1>1
  <2>2. {y \in Values : y < x} # Values
    BY <2>1
  <2> DEFINE Below == {y \in Values : y < x}
  <2>3. Below \in SUBSET Values /\ Below # Values /\ IsFiniteSet(Values)
    BY <1>1, <2>1, <2>2
  <2> HIDE DEF Below, Values
  <2>4. IsFiniteSet(Below) /\ Cardinality(Below) < Cardinality(Values)
    <3>1. IsFiniteSet(Below) /\ Cardinality(Below) <= Cardinality(Values)
      BY <2>3, FS_Subset
    <3>2. Cardinality(Below) # Cardinality(Values)
      BY <2>3, FS_Subset
    <3>3. Cardinality(Below) \in Nat /\ Cardinality(Values) \in Nat
      BY <2>3, <3>1, FS_CardinalityType
    <3> QED BY <3>1, <3>2, <3>3
  <2> QED BY <2>3, <2>4, FS_CardinalityType DEF Below
<1>3. \A r, m \in Nat : r < m => (r * D) \div m \in 0 .. D - 1
  <2> TAKE r, m \in Nat
  <2> HAVE r < m
  <2>1. D \in Nat \ {0}
    BY SupraAssumption
  <2>2. r * D \in Nat /\ r * D < m * D
    BY <2>1
  <2> DEFINE q == (r * D) \div m
  <2>3. q \in Nat /\ m * q <= r * D
    BY <2>2
  <2>4. q < D
    <3>1. SUFFICES ASSUME q >= D PROVE FALSE
      BY <2>1, <2>3
    <3>2. m * q >= m * D
      BY <3>1, <2>1, <2>3
    <3> QED BY <3>2, <2>2, <2>3, <2>1
  <2> QED BY <2>1, <2>3, <2>4
<1>4. \A c \in cells : (Rank(c[coord]) * D) \div n \in Devices
  <2> TAKE c \in cells
  <2>1. c[coord] \in Values
    OBVIOUS
  <2> HIDE DEF Values, Rank, n
  <2> QED BY <1>2, <1>3, <2>1 DEF Devices
<1>5. BlockAssignment(cells, coord) = [c \in cells |-> (Rank(c[coord]) * D) \div n]
  BY DEF BlockAssignment
<1> QED BY <1>4, <1>5

\* What is written is an assignment no dearer than either feasible block
\* assignment, and on the path of the binary it is feasible itself.
OutWins ==
    /\ phase \in {"solved", "fallback"} =>
           /\ out \in [cells -> Devices]
           /\ \A corner \in {PSSBlocks(cells), PTSBlocks(cells)} :
                  Feasible(corner) => CostOf(out) <= CostOf(corner)
    /\ phase = "solved" => Feasible(out)

LEMMA StepOutWins ==
    ASSUME IInv, OutWins, [SolverNext]_solverVars
    PROVE  OutWins'
<1>1. /\ PSSBlocks(cells) \in [cells -> Devices] /\ PTSBlocks(cells) \in [cells -> Devices]
      /\ CostOf(PSSBlocks(cells)) \in Nat /\ CostOf(PTSBlocks(cells)) \in Nat
  BY BlocksAreTotal, CostType DEF IInv, PSSBlocks, PTSBlocks
<1>2. ASSUME UNCHANGED input, NEW asg
      PROVE  /\ CostOf(asg)' = CostOf(asg') /\ Feasible(asg)' = Feasible(asg')
  BY <1>2 DEF CostOf, Feasible, HardCap, Capacity, MinFeasible, input
<1>3. ASSUME UNCHANGED input, phase' \notin {"solved", "fallback"}
      PROVE  OutWins'
  BY <1>3 DEF OutWins
<1>4. ASSUME NEW c \in todo, Place(c) \/ Move(c) \/ Stay(c) PROVE OutWins'
  BY <1>4, <1>3 DEF Place, Move, Stay
<1>5. CASE StartRefine \/ NextRound
  BY <1>5, <1>3 DEF StartRefine, NextRound
<1>6. CASE Pick
  <2>1. UNCHANGED input /\ cells' = cells /\ phase = "refine" /\ phase' = "solved"
    BY <1>6 DEF Pick, input
  <2>2. PICK i \in 1 .. 3 :
           /\ Feasible(Candidates[i])
           /\ \A j \in 1 .. 3 : Feasible(Candidates[j]) =>
                  \/ CostOf(Candidates[i]) < CostOf(Candidates[j])
                  \/ CostOf(Candidates[i]) = CostOf(Candidates[j]) /\ i <= j
           /\ out' = Candidates[i]
    BY <1>6 DEF Pick
  <2>3. /\ Candidates[1] = dev /\ Candidates[2] = PSSBlocks(cells) /\ Candidates[3] = PTSBlocks(cells)
    BY DEF Candidates
  <2>4. dev \in [cells -> Devices]
    BY <2>1 DEF IInv, PlacedOnce
  <2>5. out' \in [cells -> Devices]
    BY <2>2, <2>3, <2>4, <1>1
  <2>6. CostOf(out') \in Nat
    BY CostType DEF IInv
  <2>7. \A corner \in {PSSBlocks(cells), PTSBlocks(cells)} :
            Feasible(corner) => CostOf(out') <= CostOf(corner)
    BY <2>2, <2>3, <2>6, <1>1
  <2>8. Feasible(out')
    BY <2>2
  <2> QED
  BY <2>1, <2>5, <2>7, <2>8 DEF OutWins, CostOf, Feasible, HardCap, Capacity, MinFeasible, input
<1>7. CASE Fallback
  <2>1. UNCHANGED input /\ cells' = cells /\ phase' = "fallback"
    BY <1>7 DEF Fallback, input
  <2>2. out' = IF CostOf(PSSBlocks(cells)) <= CostOf(PTSBlocks(cells))
                   THEN PSSBlocks(cells) ELSE PTSBlocks(cells)
    BY <1>7 DEF Fallback
  <2>3. out' \in [cells -> Devices]
    BY <2>2, <1>1
  <2>4. \A corner \in {PSSBlocks(cells), PTSBlocks(cells)} : CostOf(out') <= CostOf(corner)
    BY <2>2, <1>1
  <2> QED
  BY <2>1, <2>3, <2>4 DEF OutWins, CostOf, Feasible, HardCap, Capacity, MinFeasible, input
<1>8. CASE UNCHANGED solverVars
  <2>1. UNCHANGED input /\ UNCHANGED <<phase, out>> /\ cells' = cells
    BY <1>8 DEF solverVars, input
  <2> QED
  BY <2>1 DEF OutWins, CostOf, Feasible, HardCap, Capacity, MinFeasible, input
<1> QED BY <1>4, <1>5, <1>6, <1>7, <1>8 DEF SolverNext

-----------------------------------------------------------------------------
(* The plan.                                                               *)

\* On the node axis the plan is the solver's, or a layout of arrange that is
\* cheaper; on the other axes it is a layout of arrange.
Composed ==
    /\ axis # "node" => phase = "greedy"
    /\ plan # NoPlan =>
           \/ axis # "node" /\ \E h \in Homes : plan = ArrangePlan(h)
           \/ /\ axis = "node" /\ phase \in {"solved", "fallback"}
              /\ \/ plan = SupraPlan
                 \/ \E h \in Homes : plan = ArrangePlan(h) /\ ~SupraWins(h)

AInv == IInv /\ RoundIsQuiet /\ OutWins /\ Composed

\* The solver has nothing left to do once it has written its assignment.
LEMMA SolverStops ==
    ASSUME phase \in {"solved", "fallback"}
    PROVE  ~SolverNext
BY DEF SolverNext, Place, Move, Stay, StartRefine, NextRound, Pick, Fallback

\* A plan of one source is not a plan of the other, nor the lack of one.
LEMMA Sources ==
    /\ SupraPlan.source = "supra" /\ SupraPlan.cellDevice = out /\ SupraPlan.assignment = Folded(out)
    /\ \A h \in Homes : /\ ArrangePlan(h).source = "arrange"
                        /\ ArrangePlan(h).cellDevice = Lifted(h, cells)
    /\ NoPlan.source = "none"
BY DEF SupraPlan, ArrangePlan, PlanOf, NoPlan

LEMMA AllocationStep == AInv /\ [Next]_vars => AInv'
<1> SUFFICES ASSUME AInv, [Next]_vars PROVE AInv'
  OBVIOUS
<1>1. [SolverNext]_solverVars
  BY DEF Next, RunSolver, ComposeNodePlan, ComposeOtherPlan, Done, vars
<1>2. IInv' /\ RoundIsQuiet' /\ OutWins'
  BY <1>1, StepIInv, StepRoundIsQuiet, StepOutWins DEF AInv
<1>3. Composed'
  <2>1. CASE RunSolver
    <3>1. phase \notin {"solved", "fallback"} /\ axis = "node" /\ axis' = axis /\ plan' = plan
      BY <2>1, SolverStops DEF RunSolver
    <3> QED BY <3>1 DEF AInv, Composed
  <2>2. ASSUME UNCHANGED solverVars
        PROVE  /\ phase' = phase /\ SupraPlan' = SupraPlan
               /\ \A h \in Homes : ArrangePlan(h)' = ArrangePlan(h) /\ SupraWins(h)' = SupraWins(h)
    BY <2>2 DEF solverVars, input, SupraPlan, ArrangePlan, PlanOf, SupraWins, CostOf
  <2>3. CASE ComposeNodePlan
    <3>1. UNCHANGED solverVars /\ axis' = axis /\ phase \in {"solved", "fallback"}
      BY <2>3 DEF ComposeNodePlan
    <3>2. PICK h \in Homes : plan' = IF SupraWins(h) THEN SupraPlan ELSE ArrangePlan(h)
      BY <2>3 DEF ComposeNodePlan
    <3>3. axis = "node"
      BY <3>1 DEF AInv, Composed
    <3> QED BY <3>1, <3>2, <3>3, <2>2 DEF Composed
  <2>4. CASE ComposeOtherPlan
    <3>1. UNCHANGED solverVars /\ axis' = axis /\ axis # "node" /\ \E h \in Homes : plan' = ArrangePlan(h)
      BY <2>4 DEF ComposeOtherPlan
    <3> QED BY <3>1, <2>2 DEF AInv, Composed
  <2>5. CASE UNCHANGED vars
    <3>1. UNCHANGED solverVars /\ axis' = axis /\ plan' = plan
      BY <2>5 DEF vars
    <3> QED BY <3>1, <2>2 DEF AInv, Composed
  <2> QED BY <2>1, <2>3, <2>4, <2>5 DEF Next, Done
<1> QED BY <1>2, <1>3 DEF AInv

LEMMA AllocationStart == AllocationInit => AInv
<1> SUFFICES ASSUME AllocationInit PROVE AInv
  OBVIOUS
<1>1. IInv
  BY InitIInv DEF AllocationInit
<1>2. phase = "greedy" /\ plan = NoPlan
  BY DEF AllocationInit, SolverInit, Init
<1> QED BY <1>1, <1>2 DEF AInv, RoundIsQuiet, OutWins, Composed

\* A vertex with all its cells on one device has its majority there.
LEMMA WholeTimelinesFold ==
    ASSUME TypeOK, NEW asg \in [cells -> Devices], NEW c \in cells,
           \A e \in cells : e[1] = c[1] => asg[e] = asg[c]
    PROVE  Majority(asg, c[1]) = asg[c]
<1> DEFINE n(d) == Cardinality(CellsAt(asg, c[1], d))
           Most(d) == \A e \in Devices \ {d} : n(d) > n(e) \/ (n(d) = n(e) /\ d < e)
<1>1. \A d \in Devices : n(d) \in Nat
  <2> TAKE d \in Devices
  <2>1. CellsAt(asg, c[1], d) \in SUBSET cells
    BY DEF CellsAt, CellsOn
  <2> QED BY <2>1, FS_Subset, FS_CardinalityType DEF TypeOK
<1>2. \A e \in Devices \ {asg[c]} : n(e) = 0
  <2> TAKE e \in Devices \ {asg[c]}
  <2>1. CellsAt(asg, c[1], e) = {}
    BY DEF CellsAt, CellsOn
  <2> QED BY <2>1, FS_EmptySet
<1>3. n(asg[c]) > 0
  <2>1. c \in CellsAt(asg, c[1], asg[c])
    BY DEF CellsAt, CellsOn
  <2>2. IsFiniteSet(CellsAt(asg, c[1], asg[c]))
    <3>1. CellsAt(asg, c[1], asg[c]) \in SUBSET cells
      BY DEF CellsAt, CellsOn
    <3> QED BY <3>1, FS_Subset DEF TypeOK
  <2>3. Cardinality(CellsAt(asg, c[1], asg[c])) # 0
    BY <2>1, <2>2, FS_EmptySet
  <2> QED BY <2>3, <1>1
<1>4. asg[c] \in Devices
  OBVIOUS
<1>5. Majority(asg, c[1]) = CHOOSE d \in Devices : Most(d)
  BY DEF Majority
<1> HIDE DEF n
<1>6. Most(asg[c])
  BY <1>1, <1>2, <1>3, <1>4
<1>7. ASSUME NEW d \in Devices, Most(d) PROVE d = asg[c]
  <2>1. SUFFICES ASSUME d # asg[c] PROVE FALSE
    OBVIOUS
  <2>2. n(d) = 0 /\ n(asg[c]) > 0 /\ n(asg[c]) \in Nat
    BY <2>1, <1>1, <1>2, <1>3, <1>4
  <2>3. n(d) > n(asg[c]) \/ n(d) = n(asg[c])
    BY <1>7, <2>1, <1>4
  <2> QED BY <2>2, <2>3
<1> HIDE DEF Most
<1> QED BY <1>4, <1>5, <1>6, <1>7

LEMMA AInvGuarantees ==
    ASSUME AInv
    PROVE  /\ LoadsExactWithinCap /\ LocalOptimum
           /\ NoWorseThanCorners /\ SupraPlanFits /\ FoldKeepsWholeTimelines
<1> USE DEF AInv
<1>1. LoadsExactWithinCap /\ LocalOptimum
  BY QuietIsOptimal DEF IInv
<1>2. NoWorseThanCorners
  <2> SUFFICES ASSUME plan # NoPlan, axis = "node",
                      NEW corner \in {PSSBlocks(cells), PTSBlocks(cells)}, Feasible(corner)
               PROVE  CostOf(plan.cellDevice) <= CostOf(corner)
    BY DEF NoWorseThanCorners
  <2>1. CostOf(out) <= CostOf(corner) /\ CostOf(out) \in Nat /\ CostOf(corner) \in Nat
    BY CostType DEF Composed, OutWins, IInv
  <2>2. CASE plan = SupraPlan
    BY <2>1, <2>2, Sources
  <2>3. ASSUME NEW h \in Homes, plan = ArrangePlan(h), ~SupraWins(h)
        PROVE  CostOf(plan.cellDevice) <= CostOf(corner)
    <3>1. plan.cellDevice = Lifted(h, cells) /\ CostOf(Lifted(h, cells)) \in Nat
      BY <2>3, Sources, CostType DEF IInv
    <3>2. ~(CostOf(out) <= CostOf(Lifted(h, cells)))
      BY <2>3 DEF SupraWins
    <3> QED BY <2>1, <3>1, <3>2
  <2> QED BY <2>2, <2>3 DEF Composed
<1>3. ASSUME plan # NoPlan, plan.source = "supra"
      PROVE  plan = SupraPlan /\ axis = "node" /\ phase \in {"solved", "fallback"}
  BY <1>3, Sources DEF Composed
<1>4. SupraPlanFits
  <2> SUFFICES ASSUME plan # NoPlan, plan.source = "supra", phase = "solved", HardCap
               PROVE  \A d \in Devices : Cardinality(CellsOn(plan.cellDevice, d)) <= Capacity
    BY DEF SupraPlanFits
  <2>1. plan.cellDevice = out /\ Feasible(out)
    BY <1>3, Sources DEF OutWins
  <2> QED BY <2>1 DEF Feasible
<1>5. FoldKeepsWholeTimelines
  <2> SUFFICES ASSUME plan # NoPlan, plan.source = "supra", NEW c \in cells,
                      \A e \in cells : e[1] = c[1] => plan.cellDevice[e] = plan.cellDevice[c]
               PROVE  Lifted(plan.assignment, cells)[c] = plan.cellDevice[c]
    BY DEF FoldKeepsWholeTimelines
  <2>1. plan.cellDevice = out /\ plan.assignment = Folded(out) /\ out \in [cells -> Devices]
    BY <1>3, Sources DEF OutWins
  <2>2. c[1] \in Vertices
    BY DEF IInv, TypeOK
  <2>3. Lifted(plan.assignment, cells)[c] = Majority(out, c[1])
    BY <2>1, <2>2 DEF Lifted, Folded
  <2>4. \A e \in cells : e[1] = c[1] => out[e] = out[c]
    BY <2>1
  <2>5. Majority(out, c[1]) = out[c]
    BY <2>1, <2>4, WholeTimelinesFold DEF IInv
  <2> QED BY <2>1, <2>3, <2>5
<1> QED BY <1>1, <1>2, <1>4, <1>5

-----------------------------------------------------------------------------
(* The theorems.                                                           *)

\* An allocation runs the solver and otherwise leaves it alone: what holds of
\* the solver holds of it within an allocation.
THEOREM AllocationRunsSolver == Spec => SolverSpec
<1>1. AllocationInit => SolverInit
  BY DEF AllocationInit
<1>2. [Next]_vars => [SolverNext]_solverVars
  BY DEF Next, RunSolver, ComposeNodePlan, ComposeOtherPlan, Done, vars
<1> QED BY <1>1, <1>2, PTL DEF Spec, SolverSpec

\* Type correctness of the solver, and what is still to be streamed.
THEOREM SolverTypeCorrect == SolverSpec => [](TypeOK /\ PlacedOnce)
<1>1. IInv => TypeOK /\ PlacedOnce
  BY DEF IInv
<1> QED BY <1>1, InitIInv, StepIInv, PTL DEF SolverSpec

\* The loads kept by increments are exact and no device is ever above the
\* capacity, during the greedy pass and every round of refinement.
THEOREM LoadsAreExact == SolverSpec => []LoadsExactWithinCap
<1>1. IInv => LoadsExactWithinCap
  BY DEF IInv
<1> QED BY <1>1, InitIInv, StepIInv, PTL DEF SolverSpec

\* Every move of the refinement lowers the weighted cut.
THEOREM RefinementDescends == SolverSpec => RefineDescends
<1> DEFINE Descent == phase = "refine" /\ dev' # dev => CostOf(dev') < CostOf(dev)
<1>1. IInv /\ [SolverNext]_solverVars => [Descent]_solverVars
  <2> SUFFICES ASSUME IInv, SolverNext, phase = "refine", dev' # dev
               PROVE  CostOf(dev') < CostOf(dev)
    BY DEF solverVars
  <2>1. PICK c \in todo : Move(c)
    BY DEF SolverNext, Place, Stay, StartRefine, NextRound, Pick, Fallback
  <2>2. PICK d \in Better(c) : dev' = [dev EXCEPT ![c] = d]
    BY <2>1 DEF Move
  <2>3. /\ d \in Devices /\ Pull(c, d) > Pull(c, dev[c]) /\ c \in cells
        /\ dev \in [cells -> Devices] /\ TypeOK
    BY <2>2 DEF Better, IInv, PlacedOnce, TypeOK
  <2>4. CostOf([dev EXCEPT ![c] = d]) < CostOf(dev)
    <3>1. \A a, b, p, q \in Nat : a + p = b + q /\ p > q => a < b
      OBVIOUS
    <3> QED BY <2>3, <3>1, MoveBalance
  <2> QED BY <2>2, <2>4
<1> QED BY <1>1, InitIInv, StepIInv, PTL DEF SolverSpec, RefineDescends

\* Refinement that ends in a round without a move ends in a local optimum:
\* no cell can move to a device with room and lower the cut.
THEOREM RefinementEndsOptimal == Spec => []LocalOptimum
BY AllocationStart, AllocationStep, AInvGuarantees, PTL DEF Spec

\* The plan of the node axis is never dearer than a block assignment that
\* respects the capacity, whether the binary ran or the fallback did.
THEOREM PlanBeatsCorners == Spec => []NoWorseThanCorners
BY AllocationStart, AllocationStep, AInvGuarantees, PTL DEF Spec

\* A plan made of the solver's cells respects the capacity on the binary's path.
THEOREM SupraPlanIsInCapacity == Spec => []SupraPlanFits
BY AllocationStart, AllocationStep, AInvGuarantees, PTL DEF Spec

\* The fold of the solver's cells to homes of vertices moves no vertex whose
\* cells are all on one device.
THEOREM FoldIsFaithful == Spec => []FoldKeepsWholeTimelines
BY AllocationStart, AllocationStep, AInvGuarantees, PTL DEF Spec
=============================================================================
