------------------------ MODULE CompletionRingProofs ------------------------
(***************************************************************************)
(* Proofs about the completion queue, for rings of every size: the host    *)
(* reads what was posted, in order, and nothing it has yet to read is      *)
(* overwritten.                                                            *)
(***************************************************************************)
EXTENDS CompletionRing, SequenceTheorems, TLAPS

-----------------------------------------------------------------------------
(* Positions in the ring                                                   *)

\* Going round the ring from the host's head h, whose phase is p: the k-th slot and the phase
\* bit that marks a new entry in it, for k in 0..(Size - 1).
Wrap(x)    == IF x < Size THEN x ELSE x - Size
SlotFrom(h, k)     == Wrap(h + k)
PhaseFrom(h, p, k) == IF h + k < Size THEN p ELSE 1 - p
SlotAt(k)          == SlotFrom(hostHead, k)
PhaseFor(k)        == PhaseFrom(hostHead, hostPhase, k)

\* The remainder, where the code uses it: one wrap at most.
LEMMA ModWrap ==
  ASSUME NEW x \in Nat, x < 2 * Size
  PROVE  x % Size = Wrap(x)
<1>1. CASE x < Size
  BY <1>1, SizeAssumption DEF Wrap
<1>2. CASE x >= Size
  BY <1>2, SizeAssumption DEF Wrap
<1> QED
  BY <1>1, <1>2, SizeAssumption

-----------------------------------------------------------------------------
(* The inductive invariant                                                 *)

\* How many of the completions owed to the host are in its memory.
Landed == Len(owed) - Len(inflight)

\* The RPU's tail and phase are where the host will look for the entry after
\* all those it is owed.
TailAhead ==
  /\ cq_tail = SlotAt(Len(owed))
  /\ PhaseAt(cq_tail, cq_phase) = PhaseFor(Len(owed))

\* The RPU's head is behind the doorbell, which is behind the host; what lies
\* between the RPU's head and its tail is less than the ring.
HeadsInOrder ==
  /\ Dist(cq_head, hostHead) + Len(owed) < Size
  /\ Dist(cq_head, headDb) + Dist(headDb, hostHead) = Dist(cq_head, hostHead)

\* The entries in flight are the youngest owed, on their way to the slots
\* where the host will look for them.
InflightOwed ==
  /\ Len(inflight) <= Len(owed)
  /\ \A j \in 1..Len(inflight) :
       inflight[j] = [slot |-> SlotAt(Landed + j - 1),
                      data |-> owed[Landed + j],
                      p |-> PhaseFor(Landed + j - 1)]

\* The entries in host memory: first those owed, marked as new, then old ones
\* that do not look new.
RingOwed ==
  /\ \A k \in 0..(Landed - 1) :
       ring[SlotAt(k)] = [data |-> owed[k + 1], p |-> PhaseFor(k)]
  /\ \A k \in Landed..(Size - 1) : ring[SlotAt(k)].p # PhaseFor(k)

IInv == TypeOK /\ TailAhead /\ HeadsInOrder /\ InflightOwed /\ RingOwed

-----------------------------------------------------------------------------
(* Types                                                                   *)

LEMMA NextSlotWrap ==
  ASSUME NEW s \in Slot
  PROVE  /\ NextSlot(s) = IF s = Size - 1 THEN 0 ELSE s + 1
         /\ NextSlot(s) \in Slot
BY ModWrap, SizeAssumption DEF NextSlot, Slot, Wrap

\* With n entries after the host's head h, the slot after the next entry's is
\* the RPU's head c exactly when the ring has no room for that entry.
LEMMA RoomLeft ==
  ASSUME NEW h \in Slot, NEW c \in Slot, NEW n \in Nat, Dist(c, h) + n < Size
  PROVE  /\ n < Size /\ SlotFrom(h, n) \in Slot
         /\ c = NextSlot(SlotFrom(h, n)) <=> n + Dist(c, h) = Size - 1
<1>1. n < Size /\ SlotFrom(h, n) \in Slot
  BY SizeAssumption DEF Dist, SlotFrom, Wrap, Slot
<1>2. NextSlot(SlotFrom(h, n)) = IF SlotFrom(h, n) = Size - 1
                                 THEN 0 ELSE SlotFrom(h, n) + 1
  BY <1>1, NextSlotWrap
<1> QED
  BY <1>1, <1>2, SizeAssumption DEF Dist, SlotFrom, Wrap, Slot

\* The head and the tail of a sequence that is not empty.
LEMMA HeadTail ==
  ASSUME NEW S, NEW s \in Seq(S), s # <<>>
  PROVE  /\ Len(s) \in Nat \ {0} /\ Head(s) = s[1] /\ Head(s) \in S
         /\ Tail(s) \in Seq(S) /\ Len(Tail(s)) = Len(s) - 1
         /\ \A j \in 1..(Len(s) - 1) : Tail(s)[j] = s[j + 1]
<1>1. Len(s) \in Nat \ {0}
  BY EmptySeq
<1> QED
  BY <1>1

\* Every step keeps the type invariant.
LEMMA TypeStep ==
  ASSUME TypeOK, [Next]_vars
  PROVE  TypeOK'
<1> USE DEF Phase, ctrl, host
<1>1. ASSUME NEW d \in Data, Post(d) PROVE TypeOK'
  <2>1. /\ NextSlot(cq_tail) \in Slot
        /\ PhaseAt(cq_tail, cq_phase) \in Phase
    BY NextSlotWrap DEF TypeOK, PhaseAt
  <2>2. inflight' \in Seq([slot : Slot, data : Data, p : Phase])
    <3>1. [slot |-> cq_tail, data |-> d, p |-> PhaseAt(cq_tail, cq_phase)]
             \in [slot : Slot, data : Data, p : Phase]
      BY <2>1 DEF TypeOK
    <3> QED
      BY <1>1, <3>1 DEF TypeOK, Post
  <2>3. owed' \in Seq(Data)
    BY <1>1 DEF TypeOK, Post
  <2>4. /\ cq_tail' \in Slot /\ cq_phase' \in Phase
        /\ UNCHANGED <<cq_head, ring, hostHead, hostPhase, headDb, headIrq,
                       dropped>>
    BY <1>1, <2>1 DEF Post
  <2> QED
    BY <2>2, <2>3, <2>4 DEF TypeOK
<1>2. CASE PostFull
  BY <1>2 DEF TypeOK, PostFull
<1>3. CASE HeadHandler
  BY <1>3 DEF TypeOK, HeadHandler
<1>4. CASE DmaWrite
  <2>1. Head(inflight) \in [slot : Slot, data : Data, p : Phase]
    BY <1>4, HeadTail DEF TypeOK, DmaWrite
  <2>2. ring' \in [Slot -> [data : Data \cup {NoData}, p : Phase]]
    BY <1>4, <2>1 DEF TypeOK, DmaWrite
  <2>3. inflight' \in Seq([slot : Slot, data : Data, p : Phase])
    BY <1>4 DEF TypeOK, DmaWrite
  <2> QED
    BY <1>4, <2>2, <2>3 DEF TypeOK, DmaWrite
<1>5. CASE Consume
  <2>1. NextSlot(hostHead) \in Slot
    BY NextSlotWrap DEF TypeOK
  <2> QED
    BY <1>5, <2>1 DEF TypeOK, Consume
<1>6. CASE RingHead
  BY <1>6 DEF TypeOK, RingHead
<1>7. CASE UNCHANGED vars
  BY <1>7 DEF TypeOK, vars
<1> QED
  BY <1>1, <1>2, <1>3, <1>4, <1>5, <1>6, <1>7 DEF Next

\* TypeOK is an invariant of the completion queue of every size.
THEOREM TypeCorrect == Spec => []TypeOK
<1>1. Init => TypeOK
  BY SizeAssumption DEF Init, TypeOK, Slot, Phase
<1> QED
  BY <1>1, TypeStep, PTL DEF Spec

-----------------------------------------------------------------------------
(* The invariant is inductive, one action at a time                        *)

\* While there is room, the RPU's tail runs ahead of the host as before.
LEMMA PostPreserves ==
  ASSUME IInv, NEW d \in Data, Post(d)
  PROVE  TailAhead' /\ HeadsInOrder' /\ InflightOwed' /\ RingOwed'
<1> DEFINE n == Len(owed)
<1>types. /\ cq_head \in Slot /\ cq_tail \in Slot /\ cq_phase \in Phase
          /\ hostHead \in Slot /\ hostPhase \in Phase /\ headDb \in Slot
          /\ owed \in Seq(Data) /\ n \in Nat /\ Len(inflight) \in Nat
          /\ inflight \in Seq([slot : Slot, data : Data, p : Phase])
  BY DEF IInv, TypeOK
<1>step. /\ hostHead' = hostHead /\ hostPhase' = hostPhase
         /\ ring' = ring /\ cq_head' = cq_head /\ headDb' = headDb
  BY DEF Post, host
<1>lens. /\ owed' = Append(owed, d) /\ Len(owed') = n + 1
         /\ Len(inflight') = Len(inflight) + 1
         /\ inflight' = Append(inflight, [slot |-> cq_tail, data |-> d,
                                   p |-> PhaseAt(cq_tail, cq_phase)])
         /\ Landed' = Landed
  BY <1>types DEF Post, Landed
<1>room. Dist(cq_head, hostHead) + n + 1 < Size /\ n + 1 < Size
  <2>1. cq_tail = SlotAt(n) /\ Dist(cq_head, hostHead) + n < Size
    BY DEF IInv, TailAhead, HeadsInOrder
  <2>2. Dist(cq_head, hostHead) \in Nat
    BY <1>types, SizeAssumption DEF Dist, Slot
  <2>3. cq_head # NextSlot(SlotFrom(hostHead, n))
    BY <2>1 DEF Post, Full, SlotAt
  <2>4. n + Dist(cq_head, hostHead) # Size - 1
    BY <2>1, <2>3, <1>types, RoomLeft
  <2> QED
    BY <1>types, <2>1, <2>2, <2>4, SizeAssumption
<1>1. TailAhead'
  <2>1. /\ cq_tail = SlotAt(n)
        /\ PhaseAt(cq_tail, cq_phase) = PhaseFor(n)
    BY DEF IInv, TailAhead
  <2>2. /\ cq_tail' = IF cq_tail = Size - 1 THEN 0 ELSE cq_tail + 1
        /\ cq_phase' = PhaseAt(cq_tail, cq_phase)
    BY <1>types, NextSlotWrap DEF Post
  <2> HIDE DEF n
  <2>3. cq_tail' = Wrap(hostHead + (n + 1))
    BY <1>types, <1>room, <2>1, <2>2, SizeAssumption DEF SlotAt, SlotFrom, Wrap, Slot
  <2>4. PhaseAt(cq_tail', cq_phase') =
          IF hostHead + (n + 1) < Size THEN hostPhase ELSE 1 - hostPhase
    BY <1>types, <1>room, <2>1, <2>2, <2>3, SizeAssumption
    DEF PhaseAt, PhaseFor, PhaseFrom, SlotAt, SlotFrom, Wrap, Slot, Phase
  <2> QED
    BY <1>step, <1>lens, <2>3, <2>4
    DEF TailAhead, SlotAt, SlotFrom, PhaseFor, PhaseFrom, PhaseAt
<1>2. HeadsInOrder'
  <2>1. Dist(cq_head, headDb) + Dist(headDb, hostHead) = Dist(cq_head, hostHead)
    BY DEF IInv, HeadsInOrder
  <2>2. Dist(cq_head, hostHead) + (n + 1) < Size
    BY <1>room, <1>types, SizeAssumption DEF Dist, Slot
  <2> QED
    BY <2>1, <2>2, <1>step, <1>lens DEF HeadsInOrder, Dist
<1>owed. /\ Landed \in Nat /\ Landed + Len(inflight) = n
  BY <1>types DEF IInv, InflightOwed, Landed
<1>3. InflightOwed'
  <2>1. ASSUME NEW j \in 1..Len(inflight')
        PROVE  inflight'[j] = [slot |-> SlotAt(Landed + j - 1),
                               data |-> owed'[Landed + j],
                               p |-> PhaseFor(Landed + j - 1)]
    <3>1. CASE j \in 1..Len(inflight)
      <4>1. inflight'[j] = inflight[j]
        BY <3>1, <1>lens, <1>types
      <4>2. owed'[Landed + j] = owed[Landed + j]
        BY <3>1, <1>lens, <1>types, <1>owed
      <4>3. inflight[j] = [slot |-> SlotAt(Landed + j - 1),
                           data |-> owed[Landed + j],
                           p |-> PhaseFor(Landed + j - 1)]
        BY <3>1 DEF IInv, InflightOwed
      <4> QED
        BY <4>1, <4>2, <4>3
    <3>2. CASE j = Len(inflight) + 1
      <4>1. inflight'[j] = [slot |-> cq_tail, data |-> d,
                            p |-> PhaseAt(cq_tail, cq_phase)]
        BY <3>2, <1>lens, <1>types
      <4>2. Landed + j = n + 1 /\ Landed + j - 1 = n
        BY <3>2, <1>owed, <1>types
      <4>3. owed'[n + 1] = d
        BY <1>lens, <1>types
      <4>4. cq_tail = SlotAt(n) /\ PhaseAt(cq_tail, cq_phase) = PhaseFor(n)
        BY DEF IInv, TailAhead
      <4> QED
        BY <4>1, <4>2, <4>3, <4>4
    <3>3. j \in 1..Len(inflight) \/ j = Len(inflight) + 1
      BY <1>lens, <1>types
    <3> QED
      BY <3>1, <3>2, <3>3
  <2>2. Len(inflight') <= Len(owed')
    BY <1>lens, <1>types, <1>owed
  <2> QED
    BY <2>1, <2>2, <1>step, <1>lens DEF InflightOwed, SlotAt, PhaseFor
<1>4. RingOwed'
  <2>1. \A k \in 0..(Landed - 1) : owed'[k + 1] = owed[k + 1]
    BY <1>lens, <1>types, <1>owed
  <2> QED
    BY <2>1, <1>step, <1>lens DEF IInv, RingOwed, SlotAt, PhaseFor
<1> QED
  BY <1>1, <1>2, <1>3, <1>4

\* The oldest entry in flight lands in the slot after those that landed.
LEMMA WritePreserves ==
  ASSUME IInv, DmaWrite
  PROVE  TailAhead' /\ HeadsInOrder' /\ InflightOwed' /\ RingOwed'
<1>types. /\ hostHead \in Slot /\ hostPhase \in Phase
          /\ owed \in Seq(Data) /\ Len(owed) \in Nat
          /\ inflight \in Seq([slot : Slot, data : Data, p : Phase])
          /\ Len(inflight) \in Nat \ {0} /\ Landed \in Nat
          /\ Landed + Len(inflight) = Len(owed)
          /\ DOMAIN ring = Slot
  BY DEF IInv, TypeOK, DmaWrite, InflightOwed, Landed
<1>step. UNCHANGED <<cq_head, cq_tail, cq_phase, hostHead, hostPhase, headDb, owed>>
  BY DEF DmaWrite, ctrl, host
<1>lens. /\ Len(inflight') = Len(inflight) - 1 /\ Landed' = Landed + 1
         /\ \A j \in 1..Len(inflight') : inflight'[j] = inflight[j + 1]
  BY <1>types DEF DmaWrite, Landed
<1>small. Len(owed) < Size
  BY <1>types, SizeAssumption DEF IInv, HeadsInOrder, TypeOK, Slot, Dist
<1>head. inflight[1] = [slot |-> SlotAt(Landed), data |-> owed[Landed + 1],
                        p |-> PhaseFor(Landed)]
  <2>1. 1 \in 1..Len(inflight) /\ Landed + 1 - 1 = Landed
    BY <1>types
  <2> QED
    BY <2>1 DEF IInv, InflightOwed
<1>ring. ring' = [ring EXCEPT ![SlotAt(Landed)] =
                    [data |-> owed[Landed + 1], p |-> PhaseFor(Landed)]]
  <2>1. Head(inflight) = inflight[1]
    BY <1>types
  <2>2. /\ Head(inflight).slot = SlotAt(Landed)
        /\ Head(inflight).data = owed[Landed + 1]
        /\ Head(inflight).p = PhaseFor(Landed)
    BY <1>head, <2>1
  <2> QED
    BY <2>2 DEF DmaWrite
<1>apart. ASSUME NEW k \in 0..(Size - 1)
          PROVE  /\ SlotAt(k) \in Slot
                 /\ k # Landed => SlotAt(k) # SlotAt(Landed)
  <2> HIDE DEF Landed
  <2>1. Landed \in 0..(Size - 1) /\ hostHead \in 0..(Size - 1)
    BY <1>types, <1>small, SizeAssumption DEF Slot
  <2>2. SlotAt(k) \in Slot
    BY <2>1, SizeAssumption DEF SlotAt, SlotFrom, Wrap, Slot
  <2>3. k # Landed => SlotAt(k) # SlotAt(Landed)
    BY <2>1, SizeAssumption DEF SlotAt, SlotFrom, Wrap
  <2> QED
    BY <2>2, <2>3
<1>1. TailAhead' /\ HeadsInOrder'
  BY <1>step DEF IInv, TailAhead, HeadsInOrder, SlotAt, PhaseFor, PhaseAt, Dist
<1>2. InflightOwed'
  <2>1. ASSUME NEW j \in 1..Len(inflight')
        PROVE  inflight'[j] = [slot |-> SlotAt(Landed + 1 + j - 1),
                               data |-> owed[Landed + 1 + j],
                               p |-> PhaseFor(Landed + 1 + j - 1)]
    <3>1. /\ j + 1 \in 1..Len(inflight)
          /\ Landed + (j + 1) - 1 = Landed + 1 + j - 1
          /\ Landed + (j + 1) = Landed + 1 + j
      BY <1>types, <1>lens
    <3> QED
      BY <3>1, <1>lens DEF IInv, InflightOwed
  <2> QED
    BY <2>1, <1>types, <1>step, <1>lens DEF InflightOwed, SlotAt, PhaseFor
<1>3. RingOwed'
  <2>1. ASSUME NEW k \in 0..Landed
        PROVE  ring'[SlotAt(k)] = [data |-> owed[k + 1], p |-> PhaseFor(k)]
    <3>1. k \in 0..(Size - 1)
      <4>1. Landed \in Nat /\ Landed < Size /\ Size \in Nat
        BY <1>types, <1>small, SizeAssumption
      <4> HIDE DEF Landed
      <4> QED
        BY <4>1
    <3>2. CASE k = Landed
      BY <3>1, <3>2, <1>ring, <1>apart, <1>types
    <3>3. CASE k # Landed
      <4>1. ring'[SlotAt(k)] = ring[SlotAt(k)]
        BY <3>1, <3>3, <1>ring, <1>apart
      <4>2. k \in 0..(Landed - 1)
        BY <3>3, <1>types
      <4> QED
        BY <4>1, <4>2 DEF IInv, RingOwed
    <3> QED
      BY <3>2, <3>3
  <2>2. ASSUME NEW k \in (Landed + 1)..(Size - 1)
        PROVE  ring'[SlotAt(k)].p # PhaseFor(k)
    <3>1. k \in 0..(Size - 1) /\ k \in Landed..(Size - 1) /\ k # Landed
      BY <1>types, SizeAssumption
    <3>2. ring'[SlotAt(k)] = ring[SlotAt(k)]
      BY <3>1, <1>ring, <1>apart
    <3> QED
      BY <3>1, <3>2 DEF IInv, RingOwed
  <2>3. (Landed + 1) - 1 = Landed
    BY <1>types
  <2> QED
    BY <2>1, <2>2, <2>3, <1>step, <1>lens DEF RingOwed, SlotAt, PhaseFor
<1> QED
  BY <1>1, <1>2, <1>3

\* What looks new to the host has landed and is the oldest it is owed.
LEMMA VisibleLanded ==
  ASSUME IInv, Visible
  PROVE  /\ Landed \in Nat \ {0} /\ owed # <<>>
         /\ ring[hostHead] = [data |-> owed[1], p |-> hostPhase]
<1>types. /\ hostHead \in Slot /\ hostPhase \in Phase /\ Landed \in Nat
          /\ owed \in Seq(Data) /\ Len(owed) \in Nat /\ Landed <= Len(owed)
  BY DEF IInv, TypeOK, InflightOwed, Landed
<1>1. SlotAt(0) = hostHead /\ PhaseFor(0) = hostPhase
  BY <1>types, SizeAssumption DEF SlotAt, PhaseFor, SlotFrom, PhaseFrom, Wrap, Slot
<1>2. Landed # 0
  <2>1. SUFFICES ASSUME Landed = 0 PROVE FALSE
    OBVIOUS
  <2>2. 0 \in Landed..(Size - 1)
    BY <2>1, SizeAssumption
  <2> QED
    BY <1>1, <2>2 DEF IInv, RingOwed, Visible
<1>3. 0 \in 0..(Landed - 1) /\ 0 + 1 = 1
  BY <1>2, <1>types
<1>4. ring[hostHead] = [data |-> owed[1], p |-> hostPhase]
  BY <1>1, <1>3 DEF IInv, RingOwed
<1>5. Len(owed) # 0
  BY <1>types, <1>2
<1> QED
  BY <1>2, <1>4, <1>5, <1>types

\* The host moves on by one slot, and the slot it leaves does not look new
\* when it comes round again.
LEMMA ConsumePreserves ==
  ASSUME IInv, Consume
  PROVE  TailAhead' /\ HeadsInOrder' /\ InflightOwed' /\ RingOwed'
<1> DEFINE n == Len(owed)
<1>types. /\ cq_head \in Slot /\ hostHead \in Slot /\ hostPhase \in Phase
          /\ headDb \in Slot
          /\ owed \in Seq(Data) /\ n \in Nat /\ Len(inflight) \in Nat
          /\ n < Size /\ Landed + Len(inflight) = n
  <2>1. Dist(cq_head, hostHead) + n < Size /\ cq_head \in Slot /\ hostHead \in Slot
    BY DEF IInv, HeadsInOrder, TypeOK
  <2>2. n \in Nat
    BY DEF IInv, TypeOK
  <2>3. n < Size
    <3> HIDE DEF n
    <3> QED
      BY <2>1, <2>2, SizeAssumption DEF Dist, Slot
  <2> QED
    BY <2>1, <2>2, <2>3 DEF IInv, TypeOK, Landed
<1>landed. /\ Landed \in Nat \ {0} /\ owed # <<>>
           /\ ring[hostHead].p = hostPhase
  BY VisibleLanded DEF Consume, Visible
<1>step. /\ UNCHANGED <<cq_head, cq_tail, cq_phase, inflight, ring, headDb>>
         /\ hostHead' = IF hostHead = Size - 1 THEN 0 ELSE hostHead + 1
         /\ hostPhase' = IF hostHead = Size - 1 THEN 1 - hostPhase ELSE hostPhase
         /\ owed' = Tail(owed)
  BY <1>types, <1>landed, NextSlotWrap DEF Consume, ctrl
<1>lens. /\ Len(owed') = n - 1 /\ Landed' = Landed - 1
         /\ \A k \in 1..(n - 1) : owed'[k] = owed[k + 1]
  <2>1. /\ Len(owed') = n - 1
        /\ \A k \in 1..(n - 1) : owed'[k] = owed[k + 1]
    BY <1>types, <1>landed, <1>step, HeadTail
  <2> QED
    BY <2>1, <1>types, <1>step DEF Landed
<1>move. ASSUME NEW k \in Nat, k + 1 < Size
         PROVE  /\ SlotFrom(hostHead', k) = SlotAt(k + 1)
                /\ PhaseFrom(hostHead', hostPhase', k) = PhaseFor(k + 1)
  BY <1>move, <1>types, <1>step, SizeAssumption
  DEF SlotAt, PhaseFor, SlotFrom, PhaseFrom, Wrap, Slot, Phase
<1>wrap. /\ SlotFrom(hostHead', Size - 1) = hostHead
         /\ PhaseFrom(hostHead', hostPhase', Size - 1) = 1 - hostPhase
  BY <1>types, <1>step, SizeAssumption DEF SlotAt, PhaseFor, SlotFrom, PhaseFrom, Wrap, Slot, Phase
<1>m. /\ Landed - 1 \in Nat /\ n - 1 \in Nat /\ (n - 1) + 1 = n
  BY <1>types, <1>landed
<1>1. TailAhead'
  <2>1. cq_tail = SlotAt(n) /\ PhaseAt(cq_tail, cq_phase) = PhaseFor(n)
    BY DEF IInv, TailAhead
  <2>2. SlotFrom(hostHead', n - 1) = SlotAt(n) /\ PhaseFrom(hostHead', hostPhase', n - 1) = PhaseFor(n)
    BY <1>move, <1>m, <1>types
  <2> QED
    BY <2>1, <2>2, <1>step, <1>lens DEF TailAhead, PhaseAt, SlotAt, PhaseFor
<1>2. HeadsInOrder'
  <2>1. /\ Dist(cq_head, hostHead) + n < Size
        /\ Dist(cq_head, headDb) + Dist(headDb, hostHead) = Dist(cq_head, hostHead)
    BY DEF IInv, HeadsInOrder
  <2> HIDE DEF n
  <2>2. Dist(cq_head, hostHead') + (n - 1) < Size
    BY <1>types, <1>step, <1>m, <2>1, SizeAssumption DEF Dist, Slot
  <2>3. Dist(cq_head, headDb) + Dist(headDb, hostHead') = Dist(cq_head, hostHead')
    BY <1>types, <1>step, <1>m, <2>1, SizeAssumption DEF Dist, Slot
  <2> QED
    BY <2>2, <2>3, <1>step, <1>lens DEF HeadsInOrder, Dist
<1>3. InflightOwed'
  <2>1. ASSUME NEW j \in 1..Len(inflight)
        PROVE  inflight[j] = [slot |-> SlotFrom(hostHead', (Landed - 1) + j - 1),
                              data |-> owed'[(Landed - 1) + j],
                              p |-> PhaseFrom(hostHead', hostPhase', (Landed - 1) + j - 1)]
    <3>1. /\ (Landed - 1) + j - 1 \in Nat
          /\ ((Landed - 1) + j - 1) + 1 = Landed + j - 1
          /\ Landed + j - 1 < Size
          /\ (Landed - 1) + j \in 1..(n - 1)
          /\ ((Landed - 1) + j) + 1 = Landed + j
      <4> HIDE DEF n, Landed
      <4> QED
        BY <1>types, <1>landed, SizeAssumption
    <3>2. /\ SlotFrom(hostHead', (Landed - 1) + j - 1) = SlotAt(Landed + j - 1)
          /\ PhaseFrom(hostHead', hostPhase', (Landed - 1) + j - 1) = PhaseFor(Landed + j - 1)
      BY <3>1, <1>move
    <3>3. owed'[(Landed - 1) + j] = owed[Landed + j]
      BY <3>1, <1>lens
    <3>4. inflight[j] = [slot |-> SlotAt(Landed + j - 1),
                         data |-> owed[Landed + j],
                         p |-> PhaseFor(Landed + j - 1)]
      BY DEF IInv, InflightOwed
    <3> QED
      BY <3>2, <3>3, <3>4
  <2>2. Len(inflight) <= n - 1
    BY <1>types, <1>landed
  <2> QED
    BY <2>1, <2>2, <1>step, <1>lens DEF InflightOwed, SlotAt, PhaseFor
<1>4. RingOwed'
  <2>1. ASSUME NEW k \in 0..((Landed - 1) - 1)
        PROVE  ring[SlotFrom(hostHead', k)] = [data |-> owed'[k + 1], p |-> PhaseFrom(hostHead', hostPhase', k)]
    <3>1. /\ k \in Nat /\ k + 1 < Size /\ k + 1 \in 0..(Landed - 1)
          /\ k + 1 \in 1..(n - 1)
      <4> HIDE DEF n, Landed
      <4> QED
        BY <1>types, <1>landed, SizeAssumption
    <3> QED
      BY <3>1, <1>move, <1>lens DEF IInv, RingOwed
  <2>2. ASSUME NEW k \in (Landed - 1)..(Size - 1)
        PROVE  ring[SlotFrom(hostHead', k)].p # PhaseFrom(hostHead', hostPhase', k)
    <3>1. CASE k = Size - 1
      BY <3>1, <1>wrap, <1>landed, <1>types DEF Phase
    <3>2. CASE k # Size - 1
      <4>1. k \in Nat /\ k + 1 < Size /\ k + 1 \in Landed..(Size - 1)
        <5> HIDE DEF Landed
        <5> QED
          BY <3>2, <1>types, <1>landed, SizeAssumption
      <4> QED
        BY <4>1, <1>move DEF IInv, RingOwed
    <3> QED
      BY <3>1, <3>2
  <2> QED
    BY <2>1, <2>2, <1>step, <1>lens DEF RingOwed, SlotAt, PhaseFor
<1> QED
  BY <1>1, <1>2, <1>3, <1>4

\* The doorbell and the RPU's head catch up with the host, in this order, whoever
\* tells the RPU to read the doorbell.
LEMMA HeadsMove ==
  ASSUME IInv, UNCHANGED <<cq_tail, cq_phase, inflight, ring, hostHead, hostPhase, owed>>,
         \/ cq_head' = headDb /\ headDb' = headDb
         \/ cq_head' = cq_head /\ headDb' = hostHead
  PROVE  TailAhead' /\ HeadsInOrder' /\ InflightOwed' /\ RingOwed'
<1>types. /\ cq_head \in Slot /\ hostHead \in Slot /\ headDb \in Slot
          /\ Len(owed) \in Nat
  BY DEF IInv, TypeOK
<1>1. TailAhead' /\ InflightOwed' /\ RingOwed'
  BY DEF IInv, TailAhead, InflightOwed, RingOwed, SlotAt, PhaseFor, PhaseAt, Landed
<1>2. HeadsInOrder'
  <2>1. /\ Dist(cq_head, hostHead) + Len(owed) < Size
        /\ Dist(cq_head, headDb) + Dist(headDb, hostHead) = Dist(cq_head, hostHead)
    BY DEF IInv, HeadsInOrder
  <2>2. /\ Dist(cq_head', hostHead) + Len(owed) < Size
        /\ Dist(cq_head', headDb') + Dist(headDb', hostHead) = Dist(cq_head', hostHead)
    BY <1>types, <2>1, SizeAssumption DEF Dist, Slot
  <2> QED
    BY <2>2 DEF HeadsInOrder, Dist
<1> QED
  BY <1>1, <1>2

LEMMA HeadPreserves ==
  ASSUME IInv, HeadHandler \/ RingHead
  PROVE  TailAhead' /\ HeadsInOrder' /\ InflightOwed' /\ RingOwed'
<1>1. UNCHANGED <<cq_tail, cq_phase, inflight, ring, hostHead, hostPhase, owed>>
  BY DEF HeadHandler, RingHead, ctrl, host
<1>2. \/ cq_head' = headDb /\ headDb' = headDb
      \/ cq_head' = cq_head /\ headDb' = hostHead
  BY DEF HeadHandler, RingHead, ctrl
<1> QED
  BY <1>1, <1>2, HeadsMove

\* IInv holds at first and every step keeps it.
LEMMA Inductive ==
  /\ Init => IInv
  /\ IInv /\ [Next]_vars => IInv'
<1>1. ASSUME Init PROVE IInv
  <2>1. TypeOK
    BY <1>1, SizeAssumption DEF Init, TypeOK, Slot, Phase
  <2>2. /\ Len(owed) = 0 /\ Len(inflight) = 0 /\ Landed = 0
        /\ \A k \in 0..(Size - 1) : SlotAt(k) = k /\ PhaseFor(k) = 1
    BY <1>1, SizeAssumption DEF Init, Landed, SlotAt, PhaseFor, SlotFrom, PhaseFrom, Wrap
  <2>3. TailAhead /\ HeadsInOrder
    BY <1>1, <2>2, SizeAssumption
    DEF Init, TailAhead, HeadsInOrder, PhaseAt, SlotAt, PhaseFor, SlotFrom, PhaseFrom, Wrap, Dist
  <2>4. InflightOwed
    BY <2>2 DEF InflightOwed
  <2>5. RingOwed
    BY <1>1, <2>2, SizeAssumption DEF Init, RingOwed, Slot
  <2> QED
    BY <2>1, <2>3, <2>4, <2>5 DEF IInv
<1>2. ASSUME IInv, [Next]_vars PROVE IInv'
  <2>0. TypeOK'
    BY <1>2, TypeStep DEF IInv
  <2>1. ASSUME NEW d \in Data, Post(d) PROVE IInv'
    BY <1>2, <2>0, <2>1, PostPreserves DEF IInv
  <2>2. CASE PostFull \/ UNCHANGED vars
    <3>1. UNCHANGED <<cq_head, cq_tail, cq_phase, inflight, ring, hostHead,
                      hostPhase, headDb, owed>>
      BY <2>2 DEF PostFull, vars, ctrl, host
    <3> QED
      BY <1>2, <2>0, <3>1
      DEF IInv, TailAhead, HeadsInOrder, InflightOwed, RingOwed, SlotAt,
          PhaseFor, PhaseAt, Landed, Dist
  <2>3. CASE DmaWrite
    BY <1>2, <2>0, <2>3, WritePreserves DEF IInv
  <2>4. CASE Consume
    BY <1>2, <2>0, <2>4, ConsumePreserves DEF IInv
  <2>5. CASE HeadHandler \/ RingHead
    BY <1>2, <2>0, <2>5, HeadPreserves DEF IInv
  <2> QED
    BY <1>2, <2>1, <2>2, <2>3, <2>4, <2>5 DEF Next
<1> QED
  BY <1>1, <1>2

-----------------------------------------------------------------------------
(* The theorems                                                            *)

\* The inductive invariant holds in every reachable state.
THEOREM InvariantHolds == Spec => []IInv
BY Inductive, PTL DEF Spec

\* Whatever the size of the ring and the number of passes, the entry the host
\* takes for new is the oldest completion nvme_cmd_return posted and the host
\* has not consumed.
THEOREM ReadsInOrder == Spec => []HostReadsOldest
<1>1. ASSUME IInv PROVE HostReadsOldest
  <2>1. owed \in Seq(Data)
    BY <1>1 DEF IInv, TypeOK
  <2>2. ASSUME Visible PROVE owed # <<>> /\ ring[hostHead].data = Head(owed)
    BY <1>1, <2>1, <2>2, VisibleLanded, HeadTail
  <2> QED
    BY <2>2 DEF HostReadsOldest
<1> QED
  BY <1>1, InvariantHolds, PTL

\* The free-slot test of nvme_tc_get_cq_addr, made against a stale head, never
\* lets an entry on its way overwrite one the host has not consumed.
THEOREM NothingOverwritten == Spec => []NoOverwrite
<1>1. ASSUME IInv PROVE NoOverwrite
  <2>types. /\ hostHead \in Slot /\ Len(inflight) \in Nat /\ Landed \in Nat
            /\ Landed + Len(inflight) < Size
    <3>1. /\ hostHead \in Slot /\ cq_head \in Slot /\ Len(inflight) \in Nat
          /\ Len(owed) \in Nat /\ Dist(cq_head, hostHead) + Len(owed) < Size
          /\ Len(inflight) <= Len(owed)
      BY <1>1 DEF IInv, TypeOK, HeadsInOrder, InflightOwed
    <3> QED
      BY <3>1, SizeAssumption DEF Dist, Slot, Landed
  <2>apart. ASSUME NEW a \in 0..(Size - 1), NEW b \in 0..(Size - 1),
                   SlotAt(a) = SlotAt(b)
            PROVE  a = b
    BY <2>types, <2>apart, SizeAssumption DEF SlotAt, SlotFrom, Wrap, Slot
  <2>at. ASSUME NEW j \in 1..Len(inflight)
         PROVE  /\ inflight[j].slot = SlotAt(Landed + j - 1)
                /\ Landed + j - 1 \in 0..(Size - 1)
    <3>1. inflight[j] = [slot |-> SlotAt(Landed + j - 1),
                         data |-> owed[Landed + j],
                         p |-> PhaseFor(Landed + j - 1)]
      BY <1>1 DEF IInv, InflightOwed
    <3> HIDE DEF Landed
    <3>2. Landed + j - 1 \in 0..(Size - 1)
      BY <2>types, SizeAssumption
    <3> QED
      BY <3>1, <3>2
  <2>1. ASSUME NEW i \in 1..Len(inflight) PROVE inflight[i].slot \notin Unread
    <3>1. SUFFICES ASSUME NEW k \in 0..(Landed - 1),
                          inflight[i].slot = (hostHead + k) % Size
                   PROVE  FALSE
      BY DEF Unread, Landed
    <3>2. k \in 0..(Size - 1) /\ k # Landed + i - 1
      <4> HIDE DEF Landed
      <4> QED
        BY <2>types, SizeAssumption
    <3>3. (hostHead + k) % Size = SlotAt(k)
      <4>1. hostHead \in 0..(Size - 1)
        BY <2>types DEF Slot
      <4>2. hostHead + k \in Nat /\ hostHead + k < 2 * Size
        BY <3>2, <4>1, SizeAssumption
      <4> QED
        BY <4>2, ModWrap DEF SlotAt, SlotFrom
    <3> QED
      BY <3>1, <3>2, <3>3, <2>at, <2>apart
  <2>2. ASSUME NEW i \in 1..Len(inflight), NEW j \in 1..Len(inflight),
               inflight[i].slot = inflight[j].slot
        PROVE  i = j
    <3>1. Landed + i - 1 = Landed + j - 1
      BY <2>2, <2>at, <2>apart
    <3> HIDE DEF Landed
    <3> QED
      BY <3>1, <2>types
  <2> QED
    BY <2>1, <2>2 DEF NoOverwrite
<1> QED
  BY <1>1, InvariantHolds, PTL

\* nvme_cmd_return finds no slot only when all of them are unread or not yet
\* acknowledged.
THEOREM DropsAreTheHosts == Spec => DropOnlyWhenHostBehind
<1>1. ASSUME IInv, [Next]_vars PROVE [DropStep]_vars
  <2>1. CASE PostFull
    <3>1. /\ cq_head \in Slot /\ hostHead \in Slot /\ cq_tail \in Slot
          /\ Len(owed) \in Nat /\ cq_tail = SlotAt(Len(owed))
          /\ Dist(cq_head, hostHead) + Len(owed) < Size
      BY <1>1 DEF IInv, TypeOK, TailAhead, HeadsInOrder
    <3>2. cq_head = NextSlot(SlotFrom(hostHead, Len(owed)))
      BY <2>1, <3>1 DEF PostFull, Full, SlotAt
    <3>3. Len(owed) + Dist(cq_head, hostHead) = Size - 1
      BY <3>1, <3>2, RoomLeft
    <3> QED
      BY <3>3 DEF DropStep
  <2>2. CASE ~PostFull
    BY <1>1, <2>2
    DEF Next, DropStep, Post, HeadHandler, DmaWrite, Consume, RingHead, vars
  <2> QED
    BY <2>1, <2>2
<1> QED
  BY <1>1, InvariantHolds, PTL DEF Spec, DropOnlyWhenHostBehind
=============================================================================
