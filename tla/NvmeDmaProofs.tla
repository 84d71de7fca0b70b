--------------------------- MODULE NvmeDmaProofs ----------------------------
(***************************************************************************)
(* Proofs about the DMA driver, for every descriptor slab and every number *)
(* of transfers: its type invariant, that it never loses a wakeup, that    *)
(* descriptors have one owner, that a completion always belongs to the     *)
(* head of its queue, that the engine is never disturbed, and that the     *)
(* driver implements the safety half of DmaService.                        *)
(***************************************************************************)
EXTENDS NvmeDma, TLAPS

-----------------------------------------------------------------------------
(* The inductive invariant                                                 *)

\* The queue of a channel holds the transfers submitted and not yet
\* delivered, in submission order.
QueueOrder ==
  \A c \in Channel :
    /\ Len(fifo[c]) + delivered[c] = submitted[c]
    /\ \A i \in 1..Len(fifo[c]) : xfer[fifo[c][i]] = delivered[c] + i

\* Where the handler is determines what its locals hold.
HandlerState ==
  /\ isr.at = "idle" => isr.chan = "rx" /\ seen = {}
  /\ isr.at # "callback" => cur = NoDesc
  /\ isr.chan = "tx" => "rx" \notin seen
  /\ isr.at = "callback" => isr.chan \notin seen

\* A channel is in one of five phases - idle, moving, completed, read by the
\* handler, in the callback - and each fixes the engine and the history.
ChannelPhase ==
  \A c \in Channel :
    /\ engine[c] # 0 => /\ engine[c] = delivered[c] + 1
                        /\ fifo[c] # <<>>
                        /\ c \notin valid /\ ~Serving(c)
    /\ c \in valid => ~Serving(c) /\ fifo[c] # <<>>
    /\ c \in seen => fifo[c] # <<>>
    /\ moved[c] = IF c \in valid \cup seen THEN delivered[c] + 1 ELSE delivered[c]

IInv ==
  /\ TypeOK
  /\ QueueOrder
  /\ HandlerState
  /\ ChannelPhase
  /\ NoLostWakeup
  /\ DescHasOneOwner

-----------------------------------------------------------------------------
(* Sequences                                                               *)

\* What a queue holds after k_fifo_put.
LEMMA AppendRange ==
  ASSUME NEW S, NEW s \in Seq(S), NEW d \in S
  PROVE  /\ Append(s, d) \in Seq(S)
         /\ Len(Append(s, d)) = Len(s) + 1
         /\ Append(s, d) # <<>>
         /\ \A i \in 1..Len(s) : Append(s, d)[i] = s[i]
         /\ Append(s, d)[Len(s) + 1] = d
  OBVIOUS

\* What a queue holds after k_fifo_get.
LEMMA TailRange ==
  ASSUME NEW S, NEW s \in Seq(S), s # <<>>
  PROVE  /\ Tail(s) \in Seq(S)
         /\ Head(s) \in S
         /\ Head(s) = s[1]
         /\ Len(s) \in Nat /\ Len(s) > 0
         /\ Len(Tail(s)) = Len(s) - 1
         /\ \A i \in 1..(Len(s) - 1) : Tail(s)[i] = s[i + 1]
  OBVIOUS

\* Only the empty queue has length 0.
LEMMA EmptyLen ==
  ASSUME NEW S, NEW s \in Seq(S)
  PROVE  /\ Len(s) \in Nat
         /\ s = <<>> <=> Len(s) = 0
         /\ \A i \in 1..Len(s) : s[i] \in S
  OBVIOUS
-----------------------------------------------------------------------------
(* Type correctness                                                        *)

\* Every step keeps the state well typed.
LEMMA TypeStep == TypeOK /\ [Next]_vars => TypeOK'
<1> SUFFICES ASSUME TypeOK, [Next]_vars PROVE TypeOK'
  OBVIOUS
<1> USE DEF TypeOK
<1>0. ASSUME NEW c \in Channel, NEW d \in Desc, FifoPut(c, d)
      PROVE  /\ fifo' \in [Channel -> Seq(Desc)]
             /\ running' \in SUBSET Channel
             /\ xfer' \in [Desc -> Nat]
             /\ engine' \in [Channel -> Nat]
             /\ submitted' \in [Channel -> Nat]
  <2>1. fifo' \in [Channel -> Seq(Desc)]
    BY <1>0, AppendRange DEF FifoPut
  <2>2. running' \in SUBSET Channel
    BY <1>0, MaxXfersAssumption DEF FifoPut, Channel
  <2>3. xfer' \in [Desc -> Nat] /\ submitted' \in [Channel -> Nat]
    <3>1. xfer \in [Desc -> Nat] /\ submitted \in [Channel -> Nat]
      OBVIOUS
    <3> HIDE DEF TypeOK
    <3>2. submitted[c] + 1 \in Nat
      BY <3>1
    <3>3. /\ xfer' = [xfer EXCEPT ![d] = submitted[c] + 1]
          /\ submitted' = [submitted EXCEPT ![c] = submitted[c] + 1]
      BY <1>0 DEF FifoPut
    <3>4. xfer' \in [Desc -> Nat]
      BY <3>1, <3>2, <3>3
    <3>5. submitted' \in [Channel -> Nat]
      BY <3>1, <3>2, <3>3
    <3> QED
      BY <3>4, <3>5
  <2>4. engine' \in [Channel -> Nat]
    <3>1. engine \in [Channel -> Nat] /\ submitted \in [Channel -> Nat]
      OBVIOUS
    <3> HIDE DEF TypeOK
    <3>2. submitted[c] + 1 \in Nat
      BY <3>1
    <3>3. engine' = [engine EXCEPT ![c] = IF c \in running THEN @ ELSE submitted[c] + 1]
      BY <1>0 DEF FifoPut
    <3> QED
      BY <3>1, <3>2, <3>3
  <2> QED
    BY <2>1, <2>2, <2>3, <2>4
<1>1. CASE ThreadPut
  BY <1>0, <1>1 DEF ThreadPut
<1>2. CASE TcSubmit
  BY <1>0, <1>2 DEF TcSubmit, Channel
<1>3. CASE IrqEnter
  BY <1>3 DEF IrqEnter, soft, history, Channel
<1>4. ASSUME NEW c \in Channel, ThreadFillDesc(c) PROVE TypeOK'
  BY <1>4 DEF ThreadFillDesc, history, Channel
<1>5. ASSUME NEW c \in Channel, CallbackSubmit(c) PROVE TypeOK'
  BY <1>0, <1>5 DEF CallbackSubmit
<1>6. ASSUME NEW c \in Channel, IrqSkip(c) PROVE TypeOK'
  BY <1>6 DEF IrqSkip, After, Idle, soft, history, Channel
<1>7. ASSUME NEW c \in Channel, IrqGet(c) PROVE TypeOK'
  <2>1. CASE fifo[c] = <<>>
    BY <1>7, <2>1 DEF IrqGet, Channel
  <2>2. CASE fifo[c] # <<>>
    <3>1. Head(fifo[c]) \in Desc /\ Tail(fifo[c]) \in Seq(Desc)
      BY <2>2, TailRange
    <3>2. fifo' \in [Channel -> Seq(Desc)]
      BY <1>7, <2>2, <3>1 DEF IrqGet
    <3>3. delivered' \in [Channel -> Nat] /\ cur' \in Desc
      BY <1>7, <2>2, <3>1 DEF IrqGet
    <3> QED
      BY <1>7, <3>2, <3>3 DEF IrqGet, Channel
  <2> QED
    BY <2>1, <2>2
<1>8. ASSUME NEW c \in Channel, IrqRestart(c) PROVE TypeOK'
  <2>0. isr' \in [at : {"idle", "get", "callback"}, chan : Channel]
    BY <1>8 DEF IrqRestart, After, Idle, Channel
  <2>1. CASE fifo[c] = <<>>
    BY <1>8, <2>0, <2>1 DEF IrqRestart, history, Channel
  <2>2. CASE fifo[c] # <<>>
    <3>1. Head(fifo[c]) \in Desc
      BY <2>2, TailRange
    <3>2. xfer[Head(fifo[c])] \in Nat
      BY <3>1
    <3>3. engine' = [engine EXCEPT ![c] = xfer[Head(fifo[c])]]
      BY <1>8, <2>2 DEF IrqRestart
    <3>4. engine' \in [Channel -> Nat]
      BY <3>2, <3>3
    <3>5. free' \in SUBSET Desc /\ cur' = NoDesc
      BY <1>8 DEF IrqRestart
    <3>6. UNCHANGED <<running, fifo, xfer, valid, seen, thread, submitted,
                      moved, delivered>>
      BY <1>8, <2>2 DEF IrqRestart, history
    <3> QED
      BY <2>0, <3>4, <3>5, <3>6
  <2> QED
    BY <2>1, <2>2
<1>9. ASSUME NEW c \in Channel, EngineMove(c) PROVE TypeOK'
  BY <1>9 DEF EngineMove, soft
<1>10. CASE UNCHANGED vars
  BY <1>10 DEF vars
<1> QED
  BY <1>1, <1>2, <1>3, <1>4, <1>5, <1>6, <1>7, <1>8, <1>9, <1>10 DEF Next, Irq

\* Type correctness of the driver's state, for every slab and bound.
THEOREM TypeCorrect == Spec => []TypeOK
<1>1. Init => TypeOK
  BY DEF Init, TypeOK, Idle, Channel
<1> QED
  BY <1>1, TypeStep, PTL DEF Spec

-----------------------------------------------------------------------------
(* Putting a descriptor in a queue                                         *)

\* What the locked section of nvme_dma_xfer_* does to the invariant, for a
\* descriptor that is in no queue, whoever runs it.
LEMMA PutPreserves ==
  ASSUME IInv, TypeOK', NEW c \in Channel, NEW d \in Desc, FifoPut(c, d),
         d \notin Queued("rx") \cup Queued("tx"),
         UNCHANGED <<valid, isr, seen, cur, moved, delivered>>
  PROVE  /\ QueueOrder' /\ HandlerState' /\ ChannelPhase' /\ NoLostWakeup'
         /\ \A e \in Channel : Distinct(e)'
         /\ Queued(c)' = Queued(c) \cup {d}
         /\ \A e \in Channel \ {c} : Queued(e)' = Queued(e)
<1> USE DEF Channel
<1> DEFINE n == Len(fifo[c])
<1>1. fifo[c] \in Seq(Desc) /\ n \in Nat
  <2>1. fifo \in [Channel -> Seq(Desc)]
    BY DEF IInv, TypeOK
  <2>2. fifo[c] \in Seq(Desc)
    BY <2>1
  <2> QED
    BY <2>2
<1>2. /\ fifo'[c] = Append(fifo[c], d)
      /\ \A e \in Channel \ {c} : fifo'[e] = fifo[e]
  BY DEF IInv, TypeOK, FifoPut
<1>3. /\ Len(fifo'[c]) = n + 1
      /\ fifo'[c] # <<>>
      /\ \A i \in 1..n : fifo'[c][i] = fifo[c][i]
      /\ fifo'[c][n + 1] = d
  BY <1>1, <1>2, AppendRange
<1>4. \A i \in 1..n : fifo[c][i] # d
  BY DEF Queued
<1>5. Queued(c)' = Queued(c) \cup {d}
  <2>1. 1..(n + 1) = (1..n) \cup {n + 1}
    BY <1>1
  <2>2. Queued(c)' = {fifo'[c][i] : i \in 1..(n + 1)}
    BY <1>3 DEF Queued
  <2>3. Queued(c) = {fifo[c][i] : i \in 1..n}
    BY DEF Queued
  <2> HIDE DEF n
  <2>4. ASSUME NEW x \in Queued(c) PROVE x \in Queued(c)'
    BY <1>3, <2>1, <2>2, <2>3
  <2>5. d \in Queued(c)'
    BY <1>3, <2>1, <2>2
  <2>6. ASSUME NEW x \in Queued(c)' PROVE x \in Queued(c) \cup {d}
    BY <1>3, <2>1, <2>2, <2>3
  <2> QED
    BY <2>4, <2>5, <2>6
<1>6. \A e \in Channel \ {c} : Queued(e)' = Queued(e)
  BY <1>2 DEF Queued
<1>7. \A e \in Channel : Distinct(e)'
  <2>0. \A e \in Channel : Distinct(e)
    BY DEF IInv, DescHasOneOwner
  <2>1. Distinct(c)'
    <3>1. \A i, j \in 1..n : fifo[c][i] = fifo[c][j] => i = j
      BY <2>0 DEF Distinct
    <3> SUFFICES ASSUME NEW i \in 1..(n + 1), NEW j \in 1..(n + 1),
                        fifo'[c][i] = fifo'[c][j]
                 PROVE  i = j
      BY <1>3 DEF Distinct
    <3>2. CASE i = n + 1
      BY <1>1, <1>3, <1>4, <3>2
    <3>3. CASE j = n + 1
      BY <1>1, <1>3, <1>4, <3>3
    <3>4. CASE i \in 1..n /\ j \in 1..n
      BY <1>3, <3>1, <3>4
    <3> QED
      BY <1>1, <3>2, <3>3, <3>4
  <2>2. ASSUME NEW e \in Channel \ {c} PROVE Distinct(e)'
    BY <1>2, <2>0 DEF Distinct
  <2> QED
    BY <2>1, <2>2
<1>types. \A e \in Channel : /\ submitted[e] \in Nat /\ moved[e] \in Nat
                             /\ delivered[e] \in Nat /\ engine[e] \in Nat
                             /\ fifo[e] \in Seq(Desc)
  BY DEF IInv, TypeOK
<1>order. \A e \in Channel :
            /\ Len(fifo[e]) + delivered[e] = submitted[e]
            /\ \A i \in 1..Len(fifo[e]) : xfer[fifo[e][i]] = delivered[e] + i
  BY DEF IInv, QueueOrder
<1>8. QueueOrder'
  <2>1. \A e \in Channel : \A i \in 1..Len(fifo[e]) : fifo[e][i] # d
    BY DEF Queued
  <2>2. /\ xfer'[d] = submitted[c] + 1
        /\ \A x \in Desc \ {d} : xfer'[x] = xfer[x]
        /\ submitted'[c] = submitted[c] + 1
        /\ \A e \in Channel \ {c} : submitted'[e] = submitted[e]
    BY DEF IInv, TypeOK, FifoPut
  <2>3. \A e \in Channel : \A i \in 1..Len(fifo[e]) : fifo[e][i] \in Desc
    BY <1>types, EmptyLen
  <2>4. /\ Len(fifo'[c]) + delivered'[c] = submitted'[c]
        /\ \A i \in 1..Len(fifo'[c]) : xfer'[fifo'[c][i]] = delivered'[c] + i
    <3>0. n + delivered[c] = submitted[c] /\ delivered[c] \in Nat /\ submitted[c] \in Nat
      BY <1>types, <1>order
    <3>1. Len(fifo'[c]) + delivered'[c] = submitted'[c]
      <4>1. /\ Len(fifo'[c]) = n + 1 /\ delivered'[c] = delivered[c]
            /\ submitted'[c] = submitted[c] + 1
        BY <1>3, <2>2
      <4>2. (n + 1) + delivered[c] = submitted[c] + 1
        BY <3>0, <1>1
      <4> QED
        BY <4>1, <4>2
    <3>2. \A i \in 1..n : xfer'[fifo'[c][i]] = delivered[c] + i
      BY <1>order, <1>3, <2>1, <2>2, <2>3
    <3>3. xfer'[fifo'[c][n + 1]] = delivered[c] + (n + 1)
      <4>1. submitted[c] + 1 = delivered[c] + (n + 1)
        BY <3>0, <1>1
      <4>2. xfer'[fifo'[c][n + 1]] = xfer'[d]
        BY <1>3
      <4> QED
        BY <4>1, <4>2, <2>2
    <3>4. \A i \in 1..(n + 1) : i \in 1..n \/ i = n + 1
      BY <1>1
    <3> QED
      BY <1>3, <3>1, <3>2, <3>3, <3>4
  <2>5. ASSUME NEW e \in Channel \ {c}
        PROVE  /\ Len(fifo'[e]) + delivered'[e] = submitted'[e]
               /\ \A i \in 1..Len(fifo'[e]) : xfer'[fifo'[e][i]] = delivered'[e] + i
    BY <1>order, <1>2, <2>1, <2>2, <2>3
  <2> QED
    BY <2>4, <2>5 DEF QueueOrder
<1>9. HandlerState'
  BY DEF IInv, HandlerState
<1>10. /\ engine'[c] = IF c \in running THEN engine[c] ELSE submitted[c] + 1
       /\ \A e \in Channel \ {c} : engine'[e] = engine[e]
       /\ running' = running \cup {c}
  BY DEF IInv, TypeOK, FifoPut
<1>11. \A e \in Channel : Serving(e)' <=> Serving(e)
  BY DEF Serving
<1>wake. \A e \in Channel : /\ fifo[e] # <<>> => e \in running
                            /\ e \in running <=> (engine[e] # 0 \/ e \in valid \/ Serving(e))
  BY DEF IInv, NoLostWakeup
<1>12. c \notin running => submitted[c] = delivered[c] /\ ~Serving(c) /\ c \notin valid
  <2>1. c \notin running => Len(fifo[c]) = 0
    BY <1>types, <1>wake, EmptyLen
  <2> QED
    BY <2>1, <1>types, <1>wake, <1>order
<1>13. ChannelPhase'
  <2> SUFFICES ASSUME NEW e \in Channel
               PROVE /\ engine'[e] # 0 => /\ engine'[e] = delivered[e] + 1
                                          /\ fifo'[e] # <<>>
                                          /\ e \notin valid /\ ~Serving(e)
                     /\ e \in valid => ~Serving(e) /\ fifo'[e] # <<>>
                     /\ e \in seen => fifo'[e] # <<>>
                     /\ moved[e] = IF e \in valid \cup seen THEN delivered[e] + 1
                                                         ELSE delivered[e]
    BY <1>11 DEF ChannelPhase
  <2>1. /\ engine[e] # 0 => /\ engine[e] = delivered[e] + 1
                            /\ fifo[e] # <<>>
                            /\ e \notin valid /\ ~Serving(e)
        /\ e \in valid => ~Serving(e) /\ fifo[e] # <<>>
        /\ e \in seen => fifo[e] # <<>>
        /\ moved[e] = IF e \in valid \cup seen THEN delivered[e] + 1 ELSE delivered[e]
    BY DEF IInv, ChannelPhase
  <2> QED
    BY <2>1, <1>2, <1>3, <1>10, <1>12
<1>14. NoLostWakeup'
  <2>1. engine'[c] # 0 \/ c \in valid \/ Serving(c)
    BY <1>types, <1>wake, <1>10
  <2> QED
    BY <2>1, <1>2, <1>wake, <1>10, <1>11 DEF NoLostWakeup
<1> QED
  BY <1>5, <1>6, <1>7, <1>8, <1>9, <1>13, <1>14

-----------------------------------------------------------------------------
(* The handler's steps                                                     *)

\* Taking the head of a queue: the handler's k_fifo_get.
LEMMA GetPreserves ==
  ASSUME IInv, TypeOK', NEW c \in Channel, IrqGet(c)
  PROVE  IInv'
<1> USE DEF Channel
<1>1. /\ isr = [at |-> "get", chan |-> c] /\ c \in seen
      /\ fifo[c] \in Seq(Desc) /\ fifo[c] # <<>>
  BY DEF IInv, TypeOK, ChannelPhase, IrqGet
<1> DEFINE n == Len(fifo[c])
           h == Head(fifo[c])
<1>2. /\ h \in Desc /\ h = fifo[c][1] /\ n \in Nat /\ n > 0
      /\ Tail(fifo[c]) \in Seq(Desc)
      /\ Len(Tail(fifo[c])) = n - 1
      /\ \A i \in 1..(n - 1) : Tail(fifo[c])[i] = fifo[c][i + 1]
  BY <1>1, TailRange
<1>3. /\ fifo'[c] = Tail(fifo[c])
      /\ \A e \in Channel \ {c} : fifo'[e] = fifo[e]
  <2>1. fifo' = [fifo EXCEPT ![c] = Tail(fifo[c])]
    BY <1>1 DEF IrqGet
  <2>2. DOMAIN fifo = Channel
    BY DEF IInv, TypeOK
  <2> QED
    BY <2>1, <2>2
<1>4. /\ cur' = h
      /\ isr' = [at |-> "callback", chan |-> c]
      /\ seen' = seen \ {c}
      /\ UNCHANGED <<running, free, xfer, engine, valid, thread, submitted, moved>>
  BY <1>1 DEF IrqGet
<1>5. /\ delivered'[c] = xfer[h]
      /\ \A e \in Channel \ {c} : delivered'[e] = delivered[e]
  <2>1. delivered' = [delivered EXCEPT ![c] = xfer[h]]
    BY <1>1 DEF IrqGet
  <2>2. DOMAIN delivered = Channel
    BY DEF IInv, TypeOK
  <2> QED
    BY <2>1, <2>2
<1>types. \A e \in Channel : /\ submitted[e] \in Nat /\ moved[e] \in Nat
                             /\ delivered[e] \in Nat /\ engine[e] \in Nat
                             /\ fifo[e] \in Seq(Desc)
  BY DEF IInv, TypeOK
<1>order. \A e \in Channel :
            /\ Len(fifo[e]) + delivered[e] = submitted[e]
            /\ \A i \in 1..Len(fifo[e]) : xfer[fifo[e][i]] = delivered[e] + i
  BY DEF IInv, QueueOrder
<1>6. delivered'[c] = delivered[c] + 1
  <2>1. xfer[fifo[c][1]] = delivered[c] + 1
    BY <1>order, <1>2
  <2> QED
    BY <2>1, <1>2, <1>5
<1>7. QueueOrder'
  <2>1. Len(fifo'[c]) + delivered'[c] = submitted'[c]
    <3>1. n + delivered[c] = submitted[c] /\ delivered[c] \in Nat /\ n \in Nat
      BY <1>types, <1>order, <1>2
    <3>2. Len(fifo'[c]) = n - 1
      <4> HIDE DEF n
      <4> QED
        BY <1>2, <1>3
    <3>3. submitted'[c] = submitted[c]
      BY <1>4
    <3>4. (n - 1) + (delivered[c] + 1) = n + delivered[c]
      BY <3>1
    <3> QED
      BY <3>1, <3>2, <3>3, <3>4, <1>6
  <2>2. ASSUME NEW i \in 1..Len(fifo'[c])
        PROVE  xfer'[fifo'[c][i]] = delivered'[c] + i
    <3>1. i \in 1..(n - 1) /\ i + 1 \in 1..n
      BY <1>2, <1>3
    <3>2. fifo'[c][i] = fifo[c][i + 1]
      BY <3>1, <1>2, <1>3
    <3>3. xfer[fifo[c][i + 1]] = delivered[c] + (i + 1)
      BY <3>1, <1>order
    <3>4. delivered[c] + (i + 1) = delivered'[c] + i
      <4>1. i \in Nat /\ delivered[c] \in Nat
        BY <3>1, <1>2, <1>types
      <4>2. delivered[c] + (i + 1) = (delivered[c] + 1) + i
        BY <4>1
      <4> QED
        BY <4>2, <1>6
    <3> QED
      BY <3>2, <3>3, <3>4, <1>4
  <2>3. ASSUME NEW e \in Channel \ {c}
        PROVE  /\ Len(fifo'[e]) + delivered'[e] = submitted'[e]
               /\ \A i \in 1..Len(fifo'[e]) : xfer'[fifo'[e][i]] = delivered'[e] + i
    BY <1>order, <1>3, <1>4, <1>5
  <2> QED
    BY <2>1, <2>2, <2>3 DEF QueueOrder
<1>8. HandlerState'
  BY <1>1, <1>4 DEF IInv, HandlerState
<1>phase. \A e \in Channel :
            /\ engine[e] # 0 => /\ engine[e] = delivered[e] + 1
                                /\ fifo[e] # <<>>
                                /\ e \notin valid /\ ~Serving(e)
            /\ e \in valid => ~Serving(e) /\ fifo[e] # <<>>
            /\ e \in seen => fifo[e] # <<>>
            /\ moved[e] = IF e \in valid \cup seen THEN delivered[e] + 1 ELSE delivered[e]
  BY DEF IInv, ChannelPhase
<1>9. /\ Serving(c) /\ Serving(c)'
      /\ \A e \in Channel \ {c} : Serving(e)' <=> Serving(e)
  BY <1>1, <1>4 DEF Serving
<1>10. engine[c] = 0 /\ c \notin valid /\ moved[c] = delivered[c] + 1
  BY <1>1, <1>9, <1>phase
<1>11. ChannelPhase'
  BY <1>3, <1>4, <1>5, <1>6, <1>9, <1>10, <1>phase DEF ChannelPhase
<1>12. NoLostWakeup'
  <2>1. c \in running
    BY <1>1 DEF IInv, NoLostWakeup
  <2>2. \A e \in Channel : /\ fifo[e] # <<>> => e \in running
                           /\ e \in running <=> (engine[e] # 0 \/ e \in valid \/ Serving(e))
    BY DEF IInv, NoLostWakeup
  <2> QED
    BY <2>1, <2>2, <1>3, <1>4, <1>9 DEF NoLostWakeup
<1>13. DescHasOneOwner'
  <2>0. \A i, j \in 1..n : fifo[c][i] = fifo[c][j] => i = j
    BY DEF IInv, DescHasOneOwner, Distinct
  <2>1. Queued(c)' = Queued(c) \ {h}
    <3>1. Queued(c)' = {Tail(fifo[c])[i] : i \in 1..(n - 1)}
      BY <1>2, <1>3 DEF Queued
    <3>2. ASSUME NEW i \in 1..(n - 1)
          PROVE  Tail(fifo[c])[i] \in Queued(c) \ {h}
      <4>1. i + 1 \in 1..n /\ 1 \in 1..n /\ i + 1 # 1
        BY <1>2
      <4>2. Tail(fifo[c])[i] = fifo[c][i + 1]
        BY <1>2
      <4>3. fifo[c][i + 1] # fifo[c][1]
        <5> HIDE DEF n
        <5> QED
          BY <4>1, <2>0
      <4> QED
        BY <4>1, <4>2, <4>3, <1>2 DEF Queued
    <3>3. ASSUME NEW i \in 1..n, fifo[c][i] # h
          PROVE  \E k \in 1..(n - 1) : fifo[c][i] = Tail(fifo[c])[k]
      <4>0. i # 1
        BY <3>3, <1>2
      <4>1. i - 1 \in 1..(n - 1) /\ (i - 1) + 1 = i
        BY <4>0, <1>2
      <4> QED
        BY <4>1, <1>2
    <3>4. Queued(c) = {fifo[c][i] : i \in 1..n}
      BY DEF Queued
    <3> HIDE DEF n
    <3>5. ASSUME NEW x \in Queued(c)' PROVE x \in Queued(c) \ {h}
      BY <3>1, <3>2
    <3>6. ASSUME NEW x \in Queued(c) \ {h} PROVE x \in Queued(c)'
      BY <3>1, <3>3, <3>4
    <3> QED
      BY <3>5, <3>6
  <2>2. \A e \in Channel \ {c} : Queued(e)' = Queued(e)
    BY <1>3 DEF Queued
  <2>3. Distinct(c)'
    <3> SUFFICES ASSUME NEW i \in 1..(n - 1), NEW j \in 1..(n - 1),
                        Tail(fifo[c])[i] = Tail(fifo[c])[j]
                 PROVE  i = j
      BY <1>2, <1>3 DEF Distinct
    <3>1. i + 1 \in 1..n /\ j + 1 \in 1..n /\ fifo[c][i + 1] = fifo[c][j + 1]
      BY <1>2
    <3>2. i + 1 = j + 1
      BY <3>1, <2>0
    <3> QED
      BY <3>2, <1>2
  <2>4. \A e \in Channel \ {c} : Distinct(e)'
    BY <1>3 DEF IInv, DescHasOneOwner, Distinct
  <2>5. h \in Queued(c) /\ cur = NoDesc /\ h # NoDesc
    BY <1>1, <1>2, DescAssumption DEF Queued, IInv, HandlerState
  <2>6. /\ Queued("rx") \cap Queued("tx") = {}
        /\ (Queued("rx") \cup Queued("tx")) \cap (free \cup {cur, thread.desc}) = {}
        /\ free \cap {cur, thread.desc} = {}
        /\ Desc \subseteq free \cup Queued("rx") \cup Queued("tx") \cup {cur, thread.desc}
    BY DEF IInv, DescHasOneOwner
  <2>7. /\ Queued("rx")' \cap Queued("tx")' = {}
        /\ h \notin Queued("rx")' \cup Queued("tx")' \cup free \cup {thread.desc}
        /\ (Queued("rx")' \cup Queued("tx")') \cap (free \cup {thread.desc}) = {}
        /\ Queued("rx") \cup Queued("tx") \subseteq Queued("rx")' \cup Queued("tx")' \cup {h}
    <3>1. CASE c = "rx"
      BY <2>1, <2>2, <2>5, <2>6, <3>1
    <3>2. CASE c = "tx"
      BY <2>1, <2>2, <2>5, <2>6, <3>2
    <3> QED
      BY <3>1, <3>2
  <2>8. \A e \in Channel : Distinct(e)'
    BY <2>3, <2>4
  <2>9. Desc \subseteq free' \cup Queued("rx")' \cup Queued("tx")' \cup {cur', thread.desc'}
    BY <2>5, <2>6, <2>7, <1>4, DescAssumption
  <2> QED
    BY <2>6, <2>7, <2>8, <2>9, <1>4 DEF DescHasOneOwner
<1> QED
  BY <1>7, <1>8, <1>11, <1>12, <1>13 DEF IInv

\* The end of a channel's block: free the descriptor, restart or stop.
LEMMA RestartPreserves ==
  ASSUME IInv, TypeOK', NEW c \in Channel, IrqRestart(c)
  PROVE  IInv'
<1> USE DEF Channel
<1>1. /\ isr = [at |-> "callback", chan |-> c]
      /\ isr' = After(c)
      /\ cur' = NoDesc
      /\ free' = free \cup ({cur} \ {NoDesc})
      /\ UNCHANGED <<fifo, xfer, valid, seen, thread, submitted, moved, delivered>>
  BY DEF IrqRestart, history
<1>2. \A e \in Channel : Queued(e)' = Queued(e) /\ (Distinct(e)' <=> Distinct(e))
  BY <1>1 DEF Queued, Distinct
<1>3. QueueOrder'
  BY <1>1 DEF IInv, QueueOrder
<1>4. HandlerState'
  <2>1. seen \subseteq Channel /\ c \notin seen /\ (c = "tx" => "rx" \notin seen)
    BY <1>1 DEF IInv, TypeOK, HandlerState
  <2>2. CASE c = "rx"
    BY <1>1, <2>1, <2>2 DEF HandlerState, After
  <2>3. CASE c = "tx"
    BY <1>1, <2>1, <2>3 DEF HandlerState, After, Idle
  <2> QED
    BY <2>2, <2>3
<1>5. /\ Serving(c) /\ ~Serving(c)'
      /\ \A e \in Channel \ {c} : Serving(e)' <=> Serving(e)
  BY <1>1 DEF IInv, HandlerState, Serving, After, Idle
<1>6. engine[c] = 0 /\ c \notin valid /\ c \notin seen /\ c \in running
  BY <1>1, <1>5 DEF IInv, ChannelPhase, HandlerState, NoLostWakeup
<1>7. /\ fifo[c] # <<>> => engine'[c] = delivered[c] + 1 /\ engine'[c] # 0
      /\ fifo[c] = <<>> => engine'[c] = 0
      /\ \A e \in Channel \ {c} : engine'[e] = engine[e]
  <2>1. CASE fifo[c] = <<>>
    BY <2>1, <1>6 DEF IrqRestart
  <2>2. CASE fifo[c] # <<>>
    <3>1. fifo[c] \in Seq(Desc) /\ delivered[c] \in Nat
      BY DEF IInv, TypeOK
    <3>2. Head(fifo[c]) = fifo[c][1] /\ 1 \in 1..Len(fifo[c])
      BY <2>2, <3>1, TailRange
    <3>3. xfer[fifo[c][1]] = delivered[c] + 1
      BY <3>2 DEF IInv, QueueOrder
    <3>4. engine' = [engine EXCEPT ![c] = xfer[Head(fifo[c])]]
      BY <2>2 DEF IrqRestart
    <3>5. engine \in [Channel -> Nat]
      BY DEF IInv, TypeOK
    <3>6. engine'[c] = delivered[c] + 1 /\ \A e \in Channel \ {c} : engine'[e] = engine[e]
      BY <3>2, <3>3, <3>4, <3>5
    <3>7. delivered[c] + 1 # 0
      BY <3>1
    <3> QED
      BY <2>2, <3>6, <3>7
  <2> QED
    BY <2>1, <2>2
<1>8. /\ fifo[c] = <<>> => running' = running \ {c}
      /\ fifo[c] # <<>> => running' = running
  BY DEF IrqRestart
<1>9. ChannelPhase'
  <2> SUFFICES ASSUME NEW e \in Channel
               PROVE /\ engine'[e] # 0 => /\ engine'[e] = delivered[e] + 1
                                          /\ fifo[e] # <<>>
                                          /\ e \notin valid /\ ~Serving(e)'
                     /\ e \in valid => ~Serving(e)' /\ fifo[e] # <<>>
                     /\ e \in seen => fifo[e] # <<>>
                     /\ moved[e] = IF e \in valid \cup seen THEN delivered[e] + 1
                                                         ELSE delivered[e]
    BY <1>1 DEF ChannelPhase
  <2>1. /\ engine[e] # 0 => /\ engine[e] = delivered[e] + 1
                            /\ fifo[e] # <<>>
                            /\ e \notin valid /\ ~Serving(e)
        /\ e \in valid => ~Serving(e) /\ fifo[e] # <<>>
        /\ e \in seen => fifo[e] # <<>>
        /\ moved[e] = IF e \in valid \cup seen THEN delivered[e] + 1 ELSE delivered[e]
    BY DEF IInv, ChannelPhase
  <2> QED
    BY <2>1, <1>5, <1>6, <1>7
<1>10. NoLostWakeup'
  <2>1. \A e \in Channel : /\ fifo[e] # <<>> => e \in running
                           /\ e \in running <=> (engine[e] # 0 \/ e \in valid \/ Serving(e))
    BY DEF IInv, NoLostWakeup
  <2> QED
    BY <2>1, <1>1, <1>5, <1>6, <1>7, <1>8 DEF NoLostWakeup
<1>11. DescHasOneOwner'
  <2>1. /\ Queued("rx") \cap Queued("tx") = {}
        /\ (Queued("rx") \cup Queued("tx")) \cap (free \cup {cur, thread.desc}) = {}
        /\ free \cap {cur, thread.desc} = {}
        /\ cur = thread.desc => cur = NoDesc
        /\ Desc \subseteq free \cup Queued("rx") \cup Queued("tx") \cup {cur, thread.desc}
        /\ \A e \in Channel : Distinct(e)
    BY DEF IInv, DescHasOneOwner
  <2>2. NoDesc \notin Queued("rx") \cup Queued("tx")
    <3>1. \A e \in Channel : fifo[e] \in Seq(Desc)
      BY DEF IInv, TypeOK
    <3>2. \A e \in Channel : \A i \in 1..Len(fifo[e]) : fifo[e][i] \in Desc
      BY <3>1, EmptyLen
    <3> QED
      BY <3>2, DescAssumption DEF Queued
  <2>3. NoDesc \notin free
    BY DescAssumption DEF IInv, TypeOK
  <2> QED
    BY <2>1, <2>2, <2>3, <1>1, <1>2, DescAssumption DEF DescHasOneOwner
<1> QED
  BY <1>3, <1>4, <1>9, <1>10, <1>11 DEF IInv

\* A step that leaves the queues and the owners of descriptors alone
\* preserves what the invariant says of them.
LEMMA QueuesUntouched ==
  ASSUME IInv, UNCHANGED <<fifo, xfer, submitted, delivered>>
  PROVE  /\ QueueOrder'
         /\ \A c \in Channel : Queued(c)' = Queued(c) /\ Distinct(c)'
         /\ UNCHANGED <<free, cur, thread>> => DescHasOneOwner'
<1>1. QueueOrder'
  BY DEF IInv, QueueOrder
<1>2. \A c \in Channel : Queued(c)' = Queued(c) /\ Distinct(c)'
  BY DEF IInv, DescHasOneOwner, Queued, Distinct
<1>3. UNCHANGED <<free, cur, thread>> => DescHasOneOwner'
  BY <1>2 DEF IInv, DescHasOneOwner, Channel
<1> QED
  BY <1>1, <1>2, <1>3

\* Every step preserves the inductive invariant.
LEMMA Inductive == IInv /\ [Next]_vars => IInv'
<1> SUFFICES ASSUME IInv, [Next]_vars PROVE IInv'
  OBVIOUS
<1> USE DEF Channel
<1>type. TypeOK'
  BY TypeStep DEF IInv
<1>own. /\ Queued("rx") \cap Queued("tx") = {}
        /\ (Queued("rx") \cup Queued("tx")) \cap (free \cup {cur, thread.desc}) = {}
        /\ free \cap {cur, thread.desc} = {}
        /\ cur = thread.desc => cur = NoDesc
        /\ Desc \subseteq free \cup Queued("rx") \cup Queued("tx") \cup {cur, thread.desc}
        /\ free \subseteq Desc
        /\ thread.desc # NoDesc => thread.desc \in Desc
        /\ thread.chan \in Channel
  BY DEF IInv, TypeOK, DescHasOneOwner
\* a submission in interrupt context takes its descriptor from the slab
<1>put. ASSUME NEW c \in Channel, NEW d \in free, FifoPut(c, d), free' = free \ {d},
               UNCHANGED <<valid, isr, seen, cur, thread, moved, delivered>>
        PROVE  IInv'
  <2>1. d \in Desc /\ d \notin Queued("rx") \cup Queued("tx")
    BY <1>own
  <2>2. /\ QueueOrder' /\ HandlerState' /\ ChannelPhase' /\ NoLostWakeup'
        /\ \A e \in Channel : Distinct(e)'
        /\ Queued(c)' = Queued(c) \cup {d}
        /\ \A e \in Channel \ {c} : Queued(e)' = Queued(e)
    BY <1>put, <1>type, <2>1, PutPreserves
  <2>3. Queued("rx")' \cup Queued("tx")' = Queued("rx") \cup Queued("tx") \cup {d}
    BY <2>2
  <2>4. Queued("rx")' \cap Queued("tx")' = {}
    BY <2>1, <2>2, <1>own
  <2>5. DescHasOneOwner'
    BY <2>1, <2>2, <2>3, <2>4, <1>own, <1>put DEF DescHasOneOwner
  <2> QED
    BY <1>type, <2>2, <2>5 DEF IInv
<1>1. CASE ThreadPut
  <2>0. thread \in [desc : Desc \cup {NoDesc}, chan : Channel]
    BY DEF IInv, TypeOK
  <2>1. PICK d \in Desc, c \in Channel :
          /\ d = thread.desc /\ d # NoDesc
          /\ FifoPut(c, d)
          /\ thread'.desc = NoDesc
          /\ UNCHANGED <<free, valid, isr, seen, cur, moved, delivered>>
    BY <1>1, <1>own, <2>0 DEF ThreadPut
  <2>2. d \notin Queued("rx") \cup Queued("tx") /\ d \notin free \cup {cur}
    BY <2>1, <1>own
  <2>3. /\ QueueOrder' /\ HandlerState' /\ ChannelPhase' /\ NoLostWakeup'
        /\ \A e \in Channel : Distinct(e)'
        /\ Queued(c)' = Queued(c) \cup {d}
        /\ \A e \in Channel \ {c} : Queued(e)' = Queued(e)
    BY <1>type, <2>1, <2>2, PutPreserves
  <2>4. DescHasOneOwner'
    <3>1. Queued("rx")' \cup Queued("tx")' = Queued("rx") \cup Queued("tx") \cup {d}
      BY <2>3
    <3>2. Queued("rx")' \cap Queued("tx")' = {}
      BY <2>2, <2>3, <1>own
    <3>3. NoDesc \notin Queued("rx")' \cup Queued("tx")' \cup free
      BY <1>type, <1>own, EmptyLen, DescAssumption DEF TypeOK, Queued
    <3> QED
      BY <2>1, <2>2, <2>3, <3>1, <3>2, <3>3, <1>own, DescAssumption DEF DescHasOneOwner
  <2> QED
    BY <1>type, <2>3, <2>4 DEF IInv
<1>2. CASE TcSubmit
  BY <1>2, <1>put DEF TcSubmit
<1>phase. \A e \in Channel :
            /\ engine[e] # 0 => /\ engine[e] = delivered[e] + 1
                                /\ fifo[e] # <<>>
                                /\ e \notin valid /\ ~Serving(e)
            /\ e \in valid => ~Serving(e) /\ fifo[e] # <<>>
            /\ e \in seen => fifo[e] # <<>>
            /\ moved[e] = IF e \in valid \cup seen THEN delivered[e] + 1 ELSE delivered[e]
  BY DEF IInv, ChannelPhase
<1>wake. \A e \in Channel : /\ fifo[e] # <<>> => e \in running
                            /\ e \in running <=> (engine[e] # 0 \/ e \in valid \/ Serving(e))
  BY DEF IInv, NoLostWakeup
<1>3. CASE IrqEnter
  <2>1. /\ isr.at = "idle" /\ seen' = valid /\ valid' = {}
        /\ isr' = [at |-> "get", chan |-> "rx"]
        /\ UNCHANGED <<fifo, running, free, xfer, engine, cur, thread>>
        /\ UNCHANGED <<submitted, moved, delivered>>
    BY <1>3 DEF IrqEnter, soft, history
  <2>2. seen = {} /\ cur = NoDesc
    BY <2>1 DEF IInv, HandlerState
  <2>3. \A e \in Channel : ~Serving(e) /\ (Serving(e)' <=> e \in valid)
    BY <2>1, <2>2 DEF Serving
  <2>4. HandlerState'
    BY <2>1, <2>2 DEF HandlerState
  <2>5. ChannelPhase'
    BY <2>1, <2>2, <2>3, <1>phase DEF ChannelPhase
  <2>6. NoLostWakeup'
    BY <2>1, <2>3, <1>wake DEF NoLostWakeup
  <2> QED
    BY <1>type, <2>1, <2>4, <2>5, <2>6, QueuesUntouched DEF IInv
<1>4. ASSUME NEW c \in Channel, ThreadFillDesc(c) PROVE IInv'
  <2>1. PICK d \in free : free' = free \ {d} /\ thread' = [desc |-> d, chan |-> c]
    BY <1>4 DEF ThreadFillDesc
  <2>2. /\ thread.desc = NoDesc /\ isr.at = "idle"
        /\ UNCHANGED <<fifo, running, xfer, engine, valid, isr, seen, cur>>
        /\ UNCHANGED <<submitted, moved, delivered>>
    BY <1>4 DEF ThreadFillDesc, history
  <2>3. QueueOrder' /\ \A e \in Channel : Queued(e)' = Queued(e) /\ Distinct(e)'
    BY <2>2, QueuesUntouched
  <2>4. HandlerState' /\ cur = NoDesc
    BY <2>2 DEF IInv, HandlerState
  <2>5. \A e \in Channel : Serving(e)' <=> Serving(e)
    BY <2>2 DEF Serving
  <2>6. ChannelPhase' /\ NoLostWakeup'
    BY <2>2, <2>5, <1>phase, <1>wake DEF ChannelPhase, NoLostWakeup
  <2>7. DescHasOneOwner'
    <3>1. d # NoDesc /\ thread'.desc = d
      BY <1>own, <2>1, DescAssumption
    <3> QED
      BY <2>1, <2>2, <2>3, <2>4, <3>1, <1>own, DescAssumption DEF DescHasOneOwner
  <2> QED
    BY <1>type, <2>3, <2>4, <2>6, <2>7 DEF IInv
<1>5. ASSUME NEW c \in Channel, CallbackSubmit(c) PROVE IInv'
  BY <1>5, <1>put DEF CallbackSubmit
<1>6. ASSUME NEW c \in Channel, IrqSkip(c) PROVE IInv'
  <2>1. /\ isr = [at |-> "get", chan |-> c] /\ c \notin seen /\ isr' = After(c)
        /\ UNCHANGED <<fifo, running, free, xfer, engine, valid, seen, cur, thread>>
        /\ UNCHANGED <<submitted, moved, delivered>>
    BY <1>6 DEF IrqSkip, soft, history
  <2>2. /\ cur = NoDesc /\ seen \subseteq Channel
        /\ c = "tx" => "rx" \notin seen
    BY <2>1 DEF IInv, TypeOK, HandlerState
  <2>3. HandlerState'
    <3>1. CASE c = "rx"
      BY <2>1, <2>2, <3>1 DEF HandlerState, After
    <3>2. CASE c = "tx"
      BY <2>1, <2>2, <3>2 DEF HandlerState, After, Idle
    <3> QED
      BY <3>1, <3>2
  <2>4. \A e \in Channel : Serving(e)' <=> Serving(e)
    BY <2>1 DEF Serving, After, Idle
  <2>5. ChannelPhase' /\ NoLostWakeup'
    BY <2>1, <2>4, <1>phase, <1>wake DEF ChannelPhase, NoLostWakeup
  <2> QED
    BY <1>type, <2>1, <2>3, <2>5, QueuesUntouched DEF IInv
<1>7. ASSUME NEW c \in Channel, IrqGet(c) PROVE IInv'
  BY <1>7, <1>type, GetPreserves
<1>8. ASSUME NEW c \in Channel, IrqRestart(c) PROVE IInv'
  BY <1>8, <1>type, RestartPreserves
<1>9. ASSUME NEW c \in Channel, EngineMove(c) PROVE IInv'
  <2>1. /\ engine[c] # 0 /\ valid' = valid \cup {c}
        /\ UNCHANGED <<fifo, running, free, xfer, isr, seen, cur, thread>>
        /\ UNCHANGED <<submitted, delivered>>
    BY <1>9 DEF EngineMove, soft
  <2>2. /\ engine'[c] = 0 /\ \A e \in Channel \ {c} : engine'[e] = engine[e]
        /\ moved'[c] = engine[c] /\ \A e \in Channel \ {c} : moved'[e] = moved[e]
    BY <1>9 DEF EngineMove, IInv, TypeOK
  <2>3. HandlerState'
    BY <2>1 DEF IInv, HandlerState
  <2>4. \A e \in Channel : Serving(e)' <=> Serving(e)
    BY <2>1 DEF Serving
  <2>5. ChannelPhase'
    BY <2>1, <2>2, <2>4, <1>phase DEF ChannelPhase
  <2>6. NoLostWakeup'
    BY <2>1, <2>2, <2>4, <1>wake DEF NoLostWakeup
  <2> QED
    BY <1>type, <2>1, <2>3, <2>5, <2>6, QueuesUntouched DEF IInv
<1>10. CASE UNCHANGED vars
  <2>1. HandlerState' /\ ChannelPhase' /\ NoLostWakeup'
    BY <1>10 DEF vars, IInv, HandlerState, ChannelPhase, NoLostWakeup, Serving
  <2> QED
    BY <1>10, <1>type, <2>1, QueuesUntouched DEF vars, IInv
<1> QED
  BY <1>1, <1>2, <1>3, <1>4, <1>5, <1>6, <1>7, <1>8, <1>9, <1>10 DEF Next, Irq

-----------------------------------------------------------------------------
(* The theorems                                                            *)

\* The inductive invariant holds in every reachable state.
THEOREM InvariantHolds == Spec => []IInv
<1>1. Init => IInv
  <2> SUFFICES ASSUME Init PROVE IInv
    OBVIOUS
  <2>1. TypeOK
    BY DEF Init, TypeOK, Idle, Channel
  <2>2. QueueOrder /\ HandlerState
    BY DEF Init, QueueOrder, HandlerState, Idle
  <2>3. ChannelPhase /\ NoLostWakeup
    BY DEF Init, ChannelPhase, NoLostWakeup, Serving, Idle
  <2>4. \A c \in Channel : Queued(c) = {} /\ Distinct(c)
    BY DEF Init, Queued, Distinct
  <2>5. DescHasOneOwner
    BY <2>4, DescAssumption DEF Init, DescHasOneOwner, Channel
  <2> QED
    BY <2>1, <2>2, <2>3, <2>5 DEF IInv
<1> QED
  BY <1>1, Inductive, PTL DEF Spec

\* No wakeup is lost: a channel with queued transfers is always going to be
\* looked at again, and its running flag says exactly that.
THEOREM WakeupsNotLost == Spec => []NoLostWakeup
<1>1. IInv => NoLostWakeup
  BY DEF IInv
<1> QED
  BY <1>1, InvariantHolds, PTL

\* No descriptor is shared, doubly queued or leaked, whatever the slab.
THEOREM DescriptorsOwned == Spec => []DescHasOneOwner
<1>1. IInv => DescHasOneOwner
  BY DEF IInv
<1> QED
  BY <1>1, InvariantHolds, PTL

\* A completion always finds its transfer at the head of the queue.
LEMMA HeadMatches == IInv => CompletionMatchesHead
<1> SUFFICES ASSUME IInv, NEW c \in Channel, c \in valid \cup seen
             PROVE  fifo[c] # <<>> /\ xfer[Head(fifo[c])] = moved[c]
  BY DEF CompletionMatchesHead
<1>1. fifo[c] # <<>> /\ moved[c] = delivered[c] + 1
  BY DEF IInv, ChannelPhase
<1>2. Head(fifo[c]) = fifo[c][1] /\ 1 \in 1..Len(fifo[c])
  <2>1. fifo[c] \in Seq(Desc)
    BY DEF IInv, TypeOK
  <2> QED
    BY <1>1, <2>1, TailRange
<1>3. xfer[fifo[c][1]] = delivered[c] + 1
  BY <1>2 DEF IInv, QueueOrder
<1> QED
  BY <1>1, <1>2, <1>3

\* The branches for spurious interrupts are never taken.
THEOREM NoSpuriousInterrupt == Spec => []CompletionMatchesHead
  BY HeadMatches, InvariantHolds, PTL

\* No step reprograms an engine that is at work or not yet served.
LEMMA EngineStepHolds == IInv /\ [Next]_vars => [EngineStep]_vars
<1> SUFFICES ASSUME IInv, Next PROVE EngineStep
  OBVIOUS
<1> USE DEF Channel
<1>phase. \A e \in Channel :
            /\ engine[e] # 0 => /\ e \notin valid /\ ~Serving(e)
            /\ e \in valid => ~Serving(e)
            /\ engine[e] \in Nat
  BY DEF IInv, TypeOK, ChannelPhase
<1>1. \A e \in Channel : e \in valid \cup seen => e \in running /\ engine[e] = 0
  BY <1>phase DEF IInv, NoLostWakeup, Serving
<1>2. \A e \in Channel : engine[e] # 0 => e \in running
  BY DEF IInv, NoLostWakeup
<1>put. ASSUME NEW c \in Channel, NEW d, FifoPut(c, d) PROVE EngineStep
  <2>1. /\ c \in running => engine'[c] = engine[c]
        /\ \A e \in Channel \ {c} : engine'[e] = engine[e]
    BY <1>put DEF FifoPut, IInv, TypeOK
  <2> QED
    BY <2>1, <1>1, <1>2 DEF EngineStep
<1>same. ASSUME UNCHANGED engine PROVE EngineStep
  BY <1>same, <1>1 DEF EngineStep
<1>3. CASE ThreadPut
  <2>1. thread.chan \in Channel
    BY DEF IInv, TypeOK
  <2> QED
    BY <1>3, <2>1, <1>put DEF ThreadPut
<1>4. CASE TcSubmit
  BY <1>4, <1>put DEF TcSubmit
<1>5. CASE IrqEnter
  BY <1>5, <1>same DEF IrqEnter
<1>6. ASSUME NEW c \in Channel, ThreadFillDesc(c) PROVE EngineStep
  BY <1>6, <1>same DEF ThreadFillDesc
<1>7. ASSUME NEW c \in Channel, CallbackSubmit(c) PROVE EngineStep
  BY <1>7, <1>put DEF CallbackSubmit
<1>8. ASSUME NEW c \in Channel, IrqSkip(c) \/ IrqGet(c) PROVE EngineStep
  BY <1>8, <1>same DEF IrqSkip, IrqGet
<1>9. ASSUME NEW c \in Channel, IrqRestart(c) PROVE EngineStep
  <2>1. isr = [at |-> "callback", chan |-> c]
    BY <1>9 DEF IrqRestart
  <2>2. Serving(c) /\ c \notin valid \cup seen /\ engine[c] = 0
    BY <2>1, <1>phase DEF Serving, IInv, HandlerState
  <2>3. \A e \in Channel \ {c} : engine'[e] = engine[e]
    BY <1>9 DEF IrqRestart, IInv, TypeOK
  <2> QED
    BY <2>2, <2>3, <1>1 DEF EngineStep
<1>10. ASSUME NEW c \in Channel, EngineMove(c) PROVE EngineStep
  <2>1. engine'[c] = 0 /\ \A e \in Channel \ {c} : engine'[e] = engine[e]
    BY <1>10 DEF EngineMove, IInv, TypeOK
  <2> QED
    BY <2>1, <1>1 DEF EngineStep
<1> QED
  BY <1>3, <1>4, <1>5, <1>6, <1>7, <1>8, <1>9, <1>10 DEF Next, Irq

\* The engine's registers are written only when it is idle and served.
THEOREM EngineUndisturbed == Spec => EngineNotDisturbed
  BY EngineStepHolds, InvariantHolds, PTL DEF Spec, EngineNotDisturbed

-----------------------------------------------------------------------------
(* Refinement                                                              *)

\* Every step of the driver is a step of DmaService or a stutter.
LEMMA ServiceStep == IInv /\ [Next]_vars => [Service!Next]_(Service!vars)
<1> SUFFICES ASSUME IInv, [Next]_vars PROVE [Service!Next]_(Service!vars)
  OBVIOUS
<1> USE DEF Channel, Service!vars
<1>types. /\ submitted \in [Channel -> Nat] /\ moved \in [Channel -> Nat]
          /\ delivered \in [Channel -> Nat]
  BY DEF IInv, TypeOK
<1>put. ASSUME NEW c \in Channel, NEW d, FifoPut(c, d), UNCHANGED <<moved, delivered>>
        PROVE  Service!Next
  BY <1>put DEF FifoPut, Service!Next, Service!Submit
<1>1. CASE ThreadPut
  <2>1. thread.chan \in Channel
    BY DEF IInv, TypeOK
  <2> QED
    BY <1>1, <2>1, <1>put DEF ThreadPut
<1>2. CASE TcSubmit
  BY <1>2, <1>put DEF TcSubmit
<1>3. CASE IrqEnter
  BY <1>3 DEF IrqEnter, history
<1>4. ASSUME NEW c \in Channel, ThreadFillDesc(c) PROVE UNCHANGED Service!vars
  BY <1>4 DEF ThreadFillDesc, history
<1>5. ASSUME NEW c \in Channel, CallbackSubmit(c) PROVE Service!Next
  BY <1>5, <1>put DEF CallbackSubmit
<1>6. ASSUME NEW c \in Channel, IrqSkip(c) PROVE UNCHANGED Service!vars
  BY <1>6 DEF IrqSkip, history
<1>7. ASSUME NEW c \in Channel, IrqGet(c) PROVE Service!Next
  <2>1. c \in seen
    BY <1>7 DEF IrqGet
  <2>2. fifo[c] # <<>> /\ xfer[Head(fifo[c])] = moved[c] /\ moved[c] = delivered[c] + 1
    BY <2>1, HeadMatches DEF CompletionMatchesHead, IInv, ChannelPhase
  <2>3. delivered' = [delivered EXCEPT ![c] = delivered[c] + 1]
    BY <1>7, <2>2 DEF IrqGet
  <2>4. delivered[c] < moved[c]
    BY <2>2, <1>types
  <2>5. UNCHANGED <<submitted, moved>>
    BY <1>7 DEF IrqGet
  <2> QED
    BY <2>3, <2>4, <2>5 DEF Service!Next, Service!Deliver
<1>8. ASSUME NEW c \in Channel, IrqRestart(c) PROVE UNCHANGED Service!vars
  BY <1>8 DEF IrqRestart, history
<1>9. ASSUME NEW c \in Channel, EngineMove(c) PROVE Service!Next
  <2>1. /\ engine[c] = delivered[c] + 1 /\ moved[c] = delivered[c] /\ fifo[c] # <<>>
    BY <1>9 DEF EngineMove, IInv, ChannelPhase, Serving
  <2>2. Len(fifo[c]) \in Nat /\ Len(fifo[c]) > 0
    BY <2>1, TailRange DEF IInv, TypeOK
  <2>3. moved[c] < submitted[c]
    <3>1. Len(fifo[c]) + delivered[c] = submitted[c]
      BY DEF IInv, QueueOrder
    <3> QED
      BY <3>1, <2>1, <2>2, <1>types
  <2>4. moved' = [moved EXCEPT ![c] = moved[c] + 1] /\ UNCHANGED <<submitted, delivered>>
    BY <1>9, <2>1 DEF EngineMove
  <2> QED
    BY <2>3, <2>4 DEF Service!Next, Service!Move
<1>10. CASE UNCHANGED vars
  BY <1>10 DEF vars
<1> QED
  BY <1>1, <1>2, <1>3, <1>4, <1>5, <1>6, <1>7, <1>8, <1>9, <1>10 DEF Next, Irq

\* The driver implements the safety half of its promise: per channel,
\* transfers move in submission order and are delivered exactly once, in
\* order, each after its data moved.
THEOREM ImplementsService == Spec => Service!Safety
<1>1. Init => Service!Init
  BY DEF Init, Service!Init
<1> QED
  BY <1>1, ServiceStep, InvariantHolds, PTL DEF Spec, Service!Safety
=============================================================================
