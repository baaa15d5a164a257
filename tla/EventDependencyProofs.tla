------------------------ MODULE EventDependencyProofs ------------------------
(***************************************************************************)
(* Proofs about EventDependency, for every stream over every set of        *)
(* vertices: one pass with a dictionary of latest events finds, for every  *)
(* event, the latest earlier event that shares an endpoint.                *)
(***************************************************************************)
EXTENDS EventDependency, TLAPS

\* The dictionary holds the latest event of every vertex so far.
LastSeenIsLatest ==
    \A w \in Vertices :
        /\ lastSeen[w] # Root => Touches(lastSeen[w], w)
        /\ \A k \in 1 .. i - 1 : Touches(k, w) => k <= lastSeen[w]

IInv == TypeOK /\ LastSeenIsLatest /\ EarIsLatestSharedEvent

\* A lemma: an event has two endpoints, both vertices.
LEMMA Endpoints ==
    ASSUME TypeOK, NEW k \in 1 .. Len(stream)
    PROVE  /\ stream[k][1] \in Vertices /\ stream[k][2] \in Vertices
           /\ Len(stream) \in Nat
<1>1. stream \in Seq(Vertices \X Vertices)
  BY DEF TypeOK
<1>2. stream[k] \in Vertices \X Vertices
  BY <1>1
<1> QED
  BY <1>1, <1>2

\* A lemma: the pass starts in the invariant.
LEMMA InitInvariant == Init => IInv
<1> SUFFICES ASSUME Init
             PROVE  IInv
  OBVIOUS
<1>1. Len(stream) \in Nat
  BY DEF Init
<1>2. TypeOK
  BY <1>1 DEF Init, TypeOK, Root
<1>3. LastSeenIsLatest /\ EarIsLatestSharedEvent
  BY DEF Init, LastSeenIsLatest, EarIsLatestSharedEvent, Root
<1> QED
  BY <1>2, <1>3 DEF IInv

\* A lemma: an iteration keeps the dictionary exact and writes a right ear.
LEMMA LinkInvariant == IInv /\ Link => IInv'
<1> SUFFICES ASSUME IInv, Link
             PROVE  IInv'
  OBVIOUS
<1> DEFINE u == stream[i][1]
           v == stream[i][2]
           p == Predecessor(lastSeen[u], lastSeen[v])
<1>1. i \in 1 .. Len(stream) /\ Len(stream) \in Nat
  BY DEF Link, IInv, TypeOK
<1>2. u \in Vertices /\ v \in Vertices
  BY <1>1, Endpoints DEF IInv
<1>3. lastSeen[u] \in 0 .. i - 1 /\ lastSeen[v] \in 0 .. i - 1
  BY <1>2 DEF IInv, TypeOK
<1>4. /\ p \in {lastSeen[u], lastSeen[v]} /\ p \in 0 .. i - 1
      /\ lastSeen[u] <= p /\ lastSeen[v] <= p
  BY <1>1, <1>3 DEF Predecessor
<1>5. /\ ear' = Append(ear, p) /\ depth' = Append(depth, DepthAbove(p))
      /\ i' = i + 1 /\ UNCHANGED <<stream, cone>>
      /\ lastSeen' = [w \in Vertices |-> IF Touches(i, w) THEN i ELSE lastSeen[w]]
  BY DEF Link
<1>6. /\ ear \in Seq(Nat) /\ Len(ear) = i - 1
      /\ depth \in Seq(Nat) /\ Len(depth) = i - 1
  BY DEF IInv, TypeOK
<1>7. DepthAbove(p) \in Nat
  <2>1. p # Root => depth[p] \in Nat
    <3> HIDE DEF p
    <3> QED
      BY <1>1, <1>4, <1>6 DEF Root
  <2> QED
    BY <2>1 DEF DepthAbove
<1>8. /\ ear' \in Seq(Nat) /\ Len(ear') = i /\ ear'[i] = p
      /\ \A k \in 1 .. i - 1 : ear'[k] = ear[k]
      /\ depth' \in Seq(Nat) /\ Len(depth') = i
  <2>1. p \in Nat
    BY <1>1, <1>4
  <2> HIDE DEF p
  <2> QED
    BY <1>1, <1>5, <1>6, <1>7, <2>1
<1>9. TypeOK'
  <2>1. lastSeen' \in [Vertices -> 0 .. i]
    <3>1. i \in 0 .. i /\ 0 .. i - 1 \subseteq 0 .. i
      BY <1>1
    <3> QED
      BY <1>5, <3>1 DEF IInv, TypeOK
  <2>2. \A k \in 1 .. i : ear'[k] < k
    <3>1. ear'[i] < i
      <4> HIDE DEF p
      <4> QED
        BY <1>1, <1>4, <1>8
    <3>2. \A k \in 1 .. i - 1 : ear'[k] < k
      BY <1>8 DEF IInv, TypeOK
    <3> QED
      BY <1>1, <3>1, <3>2
  <2>3. i' - 1 = i /\ i' \in 1 .. Len(stream') + 1
    BY <1>1, <1>5
  <2> QED
    BY <1>5, <1>8, <2>1, <2>2, <2>3 DEF IInv, TypeOK
<1>10. \A k, w : Touches(k, w)' <=> Touches(k, w)
  BY <1>5 DEF Touches
<1>11. LastSeenIsLatest'
  <2> SUFFICES ASSUME NEW w \in Vertices
               PROVE  /\ lastSeen'[w] # Root => Touches(lastSeen'[w], w)
                      /\ \A k \in 1 .. i : Touches(k, w) => k <= lastSeen'[w]
    BY <1>1, <1>5, <1>10 DEF LastSeenIsLatest
  <2>1. CASE Touches(i, w)
    BY <1>1, <1>5, <2>1
  <2>2. CASE ~Touches(i, w)
    BY <1>1, <1>5, <2>2 DEF IInv, LastSeenIsLatest
  <2> QED
    BY <2>1, <2>2
<1>12. EarIsLatestSharedEvent'
  <2> SUFFICES ASSUME NEW k \in 1 .. i
               PROVE  /\ ear'[k] # Root => Shares(ear'[k], k)
                      /\ \A m \in 1 .. k - 1 : Shares(m, k) => m <= ear'[k]
    <3>1. DOMAIN ear' = 1 .. i
      BY <1>8
    <3>2. \A m, n : Shares(m, n)' <=> Shares(m, n)
      BY <1>10 DEF Shares
    <3> QED
      BY <3>1, <3>2 DEF EarIsLatestSharedEvent
  <2>1. CASE k # i
    <3>1. k \in DOMAIN ear /\ ear'[k] = ear[k]
      BY <1>1, <1>6, <1>8, <2>1, SMTT(60)
    <3> QED
      BY <3>1 DEF IInv, EarIsLatestSharedEvent
  <2>2. CASE k = i
    <3>1. ear'[k] # Root => Shares(ear'[k], k)
      <4>1. Touches(i, u) /\ Touches(i, v)
        BY DEF Touches
      <4>2. p # Root => Touches(p, u) \/ Touches(p, v)
        BY <1>2, <1>4 DEF IInv, LastSeenIsLatest
      <4> QED
        BY <1>2, <1>8, <2>2, <4>1, <4>2 DEF Shares
    <3>2. ASSUME NEW m \in 1 .. k - 1, Shares(m, k)
          PROVE  m <= ear'[k]
      <4>1. Touches(m, u) \/ Touches(m, v)
        BY <2>2, <3>2 DEF Shares, Touches
      <4>2. m <= lastSeen[u] \/ m <= lastSeen[v]
        BY <1>2, <2>2, <3>2, <4>1 DEF IInv, LastSeenIsLatest
      <4> QED
        BY <1>1, <1>3, <1>4, <1>8, <2>2, <4>2, SMTT(60)
    <3> QED
      BY <3>1, <3>2
  <2> QED
    BY <2>1, <2>2
<1> QED
  BY <1>9, <1>11, <1>12 DEF IInv

\* A lemma: so does every other step.
LEMMA NextInvariant == IInv /\ [Next]_vars => IInv'
<1>1. CASE Link
  BY <1>1, LinkInvariant
<1>2. CASE Collect \/ UNCHANGED vars
  <2> SUFFICES ASSUME IInv
               PROVE  IInv'
    OBVIOUS
  <2>1. UNCHANGED <<stream, i, lastSeen, ear, depth>>
    BY <1>2 DEF Collect, vars
  <2>2. cone' \subseteq Vertices
    BY <1>2 DEF Collect, vars, IInv, TypeOK
  <2>3. \A k, w : Touches(k, w)' <=> Touches(k, w)
    BY <2>1 DEF Touches
  <2>4. TypeOK'
    BY <2>1, <2>2 DEF IInv, TypeOK
  <2>5. LastSeenIsLatest' /\ EarIsLatestSharedEvent'
    BY <2>1, <2>3 DEF IInv, LastSeenIsLatest, EarIsLatestSharedEvent, Shares
  <2> QED
    BY <2>4, <2>5 DEF IInv
<1> QED
  BY <1>1, <1>2 DEF Next

\* Whatever the stream, the ear of an event is the latest earlier event that
\* shares an endpoint with it, and ears and depths point backwards only.
THEOREM EarsAreRight == Spec => [](TypeOK /\ EarIsLatestSharedEvent)
<1>1. IInv => TypeOK /\ EarIsLatestSharedEvent
  BY DEF IInv
<1> QED
  BY <1>1, InitInvariant, NextInvariant, PTL DEF Spec
=============================================================================
