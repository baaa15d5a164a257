-------------------------- MODULE MemoryControlLoop --------------------------
(***************************************************************************)
(* The reactive memory controller of runtime/control_loop.py: once per     *)
(* tick it spills cold bytes when the device is above its high watermark,  *)
(* admits as much of the incoming demand as the headroom allows, and       *)
(* defers the rest to the next tick.  run() feeds it a stream of demands   *)
(* and then keeps ticking until the deferred bytes are drained.  Bytes are *)
(* whole units; a tick is one synchronous call.                            *)
(***************************************************************************)
EXTENDS Integers

CONSTANTS Cap,           \* cap_bytes, the device capacity
          High,          \* high_frac * cap_bytes
          Low,           \* low_frac * cap_bytes
          Usable,        \* (1 - headroom_frac) * cap_bytes
          HostBudget,    \* bytes a tick can spill over PCIe
          BufferBudget,  \* bytes a tick can spill to a spare GPU, 0 if none
          HostCap,       \* host_cap_bytes
          Demands,       \* the demands a step of the stream may bring
          Hints,         \* the hot bytes a caller may declare for a step
          StreamLength,  \* bound: the length of the incoming stream
          MaxDrain,      \* the guard of the draining loop
          Negligible     \* the carry run() does not drain any more

ConfigAssumption ==
    /\ Cap \in Nat /\ High \in Nat /\ Low \in Nat /\ Usable \in Nat
    /\ HostCap \in Nat /\ StreamLength \in Nat
    /\ MaxDrain \in Nat /\ Negligible \in Nat
    /\ HostBudget \in Nat /\ BufferBudget \in Nat
    /\ Demands \subseteq Nat /\ Hints \subseteq Nat
    /\ Low <= High /\ High < Usable /\ Usable <= Cap
    /\ HostBudget > 0
ASSUME ConfigAssumption

VARIABLES resident,      \* bytes in device memory
          spilled,       \* self.host, bytes spilled so far
          pc,            \* which loop of run() is executing
          fed,           \* steps of the stream consumed
          carry,         \* bytes deferred by the previous tick
          guard,         \* ticks of the draining loop
          hot,           \* hot_bytes of the last tick
          oom,           \* the oom flag of the last tick
          arrived        \* all the bytes the producer has offered (history)

loopVars == <<resident, spilled, pc, fed, carry, guard, hot, oom, arrived>>

Lesser(a, b)  == IF a <= b THEN a ELSE b
Greater(a, b) == IF a >= b THEN a ELSE b

\* The spill budget of one tick: the faster of the two tiers.
EvictCap == IF BufferBudget > HostBudget THEN BufferBudget ELSE HostBudget

\* Seeded fault: everything resident counts as hot.
DefaultHotFault(r) == r
\* Without a hint, the low-watermark mass is hot.
DefaultHot(r) == Lesser(r, Low)

Evictable(r, h) == Greater(0, r - h)

\* Seeded fault: the watermark is taken to be the admission ceiling.
ProactiveFault(r, h) ==
    IF r > Usable THEN Lesser(Lesser(r - Low, Evictable(r, h)), EvictCap) ELSE 0
\* Step 1 of tick: above the high watermark, spill down to the low one.
Proactive(r, h) ==
    IF r > High THEN Lesser(Lesser(r - Low, Evictable(r, h)), EvictCap) ELSE 0

\* Seeded fault: admission fills the headroom.
RoomFault(r) == Greater(0, Cap - r)
\* What the headroom leaves to admit.
Room(r) == Greater(0, Usable - r)

\* Seeded fault: what step 1 spilled is not taken off the budget.
ReactiveFault(r, h, deferred, evicted) ==
    IF deferred > 0 /\ evicted < EvictCap
        THEN Lesser(Lesser(EvictCap, Evictable(r, h)),
                    IF r > Low THEN r - Low ELSE 0)
        ELSE 0
\* Step 3 of tick: with demand left over, spill the rest of the budget.
Reactive(r, h, deferred, evicted) ==
    IF deferred > 0 /\ evicted < EvictCap
        THEN Lesser(Lesser(EvictCap - evicted, Evictable(r, h)),
                    IF r > Low THEN r - Low ELSE 0)
        ELSE 0

\* tick(demand, hot_bytes = h), the whole control step.
Tick(demand, h) ==
    LET ev    == Proactive(resident, h)
        r1    == resident - ev
        admit == Lesser(demand, Room(r1))
        rest  == demand - admit
        r2    == r1 + admit
        ev2   == Reactive(r2, h, rest, ev)
    IN  /\ resident' = r2 - ev2
        /\ spilled' = spilled + ev + ev2
        /\ carry' = rest
        /\ hot' = h
        /\ oom' = (resident' > Cap \/ spilled' > HostCap)

LoopInit == /\ resident = 0 /\ spilled = 0
            /\ pc = "stream" /\ fed = 0 /\ carry = 0 /\ guard = 0
            /\ hot = 0 /\ oom = FALSE
            /\ arrived = 0

\* Seeded fault: the deferred bytes do not roll forward.
OfferedFault(demand) == demand
\* The deferred bytes roll forward into the next step.
Offered(demand) == demand + carry

StreamTick(demand, h) ==
    /\ pc = "stream" /\ fed < StreamLength
    /\ Tick(Offered(demand), h)
    /\ fed' = fed + 1
    /\ arrived' = arrived + demand
    /\ UNCHANGED <<pc, guard>>

StreamEnds ==
    /\ pc = "stream" /\ fed = StreamLength
    /\ pc' = "drain"
    /\ UNCHANGED <<resident, spilled, fed, carry, guard, hot, oom, arrived>>

DrainTick ==
    /\ pc = "drain" /\ carry > Negligible /\ guard < MaxDrain
    /\ Tick(carry, DefaultHot(resident))
    /\ guard' = guard + 1
    /\ UNCHANGED <<pc, fed, arrived>>

Return ==
    /\ pc = "drain" /\ ~(carry > Negligible /\ guard < MaxDrain)
    /\ pc' = "returned"
    /\ UNCHANGED <<resident, spilled, fed, carry, guard, hot, oom, arrived>>

Terminated == pc = "returned" /\ UNCHANGED loopVars

LoopNext == \/ \E demand \in Demands :
                  \E h \in Hints \cup {DefaultHot(resident)} : StreamTick(demand, h)
            \/ StreamEnds \/ DrainTick \/ Return
            \/ Terminated

\* run() is a sequential loop: it keeps taking its next step.
LoopSpec == LoopInit /\ [][LoopNext]_loopVars /\ WF_loopVars(LoopNext)

-----------------------------------------------------------------------------
(* Properties.                                                             *)

LoopTypeOK == /\ resident \in 0 .. Cap
              /\ spilled \in Nat /\ carry \in Nat /\ arrived \in Nat
              /\ pc \in {"stream", "drain", "returned"}
              /\ fed \in 0 .. StreamLength /\ guard \in 0 .. MaxDrain
              /\ hot \in Nat /\ oom \in BOOLEAN

\* Backpressure delays bytes and never loses them: what the producer offered
\* is resident, spilled or deferred, over every mixture of proactive spill,
\* partial admission and reactive spill in tick.
BytesConserved == arrived = resident + spilled + carry

\* The headroom that protects the next single allocation is never eaten.
HeadroomKept == resident <= Usable

\* A tick spills twice and admits in between, and its third step works with
\* the hint and the budget the first has already used.  Over the whole tick
\* it spills at most the budget of its bandwidth, never takes bytes that are
\* hot in this tick or below the low watermark, and leaves the headroom free.
TickIsBounded ==
    [][/\ resident' <= Usable
       /\ spilled' - spilled <= EvictCap
       /\ spilled' > spilled => resident' >= Lesser(hot', resident)
       /\ spilled' > spilled => resident' >= Low]_loopVars

MinProgress == Lesser(EvictCap, Usable - High)

\* The draining loop cannot stall: each of its ticks shrinks the backlog by
\* MinProgress or empties it, whatever the stream left in device memory.
DrainProgress ==
    [][guard' # guard => carry' <= Greater(0, carry - MinProgress)]_loopVars

\* run() returns, and with a guard that the backlog does not exhaust only a
\* negligible remainder is left behind.
RunDrains == <>(pc = "returned" /\ carry <= Negligible)

=============================================================================
