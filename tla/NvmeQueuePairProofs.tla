------------------------ MODULE NvmeQueuePairProofs ------------------------
(***************************************************************************)
(* Proofs about a queue pair of any sizes, with any number of commands and *)
(* blocks, whose commands all complete in one context: in the interrupt    *)
(* handlers, or in the main thread.  (When both complete commands the      *)
(* phase bit goes wrong: see the run queue_pair_race.)                     *)
(***************************************************************************)
EXTENDS NvmeQueuePair, FiniteSetTheorems, SequenceTheorems, TLAPS

OneContext == CompletedAt("apu") = {} \/ CompletedAt("apu") = DOMAIN scene.kind

-----------------------------------------------------------------------------
(* The inductive invariant                                                 *)

\* The completion queue is a CompletionRing: nvme_cmd_return of the main thread takes
\* effect with its last step, the flip of the phase and the new tail being undone
\* until then.  That module's theorems do not depend on who rings the doorbell when.
FlyOf(q, d) == [i \in 1..(Len(q) - d) |->
                  [slot |-> q[i + d].slot, data |-> q[i + d].data, p |-> q[i + d].p]]
Fly == FlyOf(tx, txDone)
TailBefore  == IF thread.pc = "stamp" THEN thread.tail ELSE cq_tail
PhaseBefore == IF thread.pc \in {"store", "stamp"} /\ thread.tail = 0 THEN 1 - cq_phase ELSE cq_phase

R == INSTANCE CompletionRingProofs WITH
  Size <- CqSize, Data <- Cmd, NoData <- NoCmd, MaxIrq <- 1, headIrq <- 0, dropped <- 0,
  ring <- cqMem, inflight <- Fly, cq_tail <- TailBefore, cq_phase <- PhaseBefore

\* A block is in one queue at most, and its stage tells in which.
RxInv ==
  /\ rxDone <= Len(rx)
  /\ \A i \in 1..Len(rx) : stage[rx[i].block] = "fetch"
  /\ \A i, j \in 1..Len(rx) : rx[i].block = rx[j].block => i = j

TxInv ==
  /\ txDone <= Len(tx)
  /\ \A i \in 1..Len(tx) : stage[tx[i].block] = "posted"
  /\ \A i, j \in 1..Len(tx) : tx[i].block = tx[j].block => i = j

MainInv ==
  /\ \A i \in 1..Len(replies) : stage[replies[i]] = "replied" /\ replies[i] # thread.block
  /\ \A i, j \in 1..Len(replies) : replies[i] = replies[j] => i = j
  /\ thread.pc # "idle" => thread.block \in Block /\ stage[thread.block] = "replied"
  /\ thread.pc = "idle" => thread = Resting

BlocksInv == RxInv /\ TxInv /\ MainInv

\* How many entries from s on to the host's tail.
Back(s) == IF s <= hostTail THEN hostTail - s ELSE (hostTail - s) + SqSize
SqSlot  == 0..(SqSize - 1)

\* The handler follows the doorbell, and the doorbell the host.
SqInv ==
  /\ Back(tailDb) <= Back(sq_tail) /\ Back(sq_tail) <= Back(sq_head)
  /\ isr = "tail" <=> sq_head # sq_tail

\* The last w entries of the submission queue are commands that the host waits for ...
Window(w) ==
  /\ \A s \in SqSlot : Back(s) \in 1..w => sqMem[s] \in outstanding
  /\ \A s, t \in SqSlot : Back(s) \in 1..w /\ Back(t) \in 1..w /\ sqMem[s] = sqMem[t] => s = t

\* ... and what has yet to be fetched is among them, in the order of the fetches.
FetchInv(w) ==
  /\ Back(sq_head) <= w
  /\ \A i \in 1..Len(rx) : i > rxDone => Back(sq_head) < Back(rx[i].src) /\ Back(rx[i].src) <= w
  /\ \A i, j \in 1..Len(rx) : i > rxDone /\ i < j => Back(rx[j].src) < Back(rx[i].src)

\* The commands that were read and are not yet completed.
HasRead(b) == stage[b] \in {"data", "apu", "replied"} \/ (rxDone = 1 /\ b = rx[1].block)

\* A command the host waits for is at one place only.
Apart(w) ==
  /\ \A b \in Block : HasRead(b) => sq_buf[b] \in outstanding
  /\ \A a, b \in Block : HasRead(a) /\ HasRead(b) /\ sq_buf[a] = sq_buf[b] => a = b
  /\ \A i \in 1..Len(owed) : owed[i] \in outstanding
  /\ \A i, j \in 1..Len(owed) : owed[i] = owed[j] => i = j
  /\ \A b \in Block, i \in 1..Len(owed) : HasRead(b) => sq_buf[b] # owed[i]
  /\ \A s \in SqSlot, b \in Block : Back(s) \in 1..w /\ HasRead(b) => sq_buf[b] # sqMem[s]
  /\ \A s \in SqSlot, i \in 1..Len(owed) : Back(s) \in 1..w => owed[i] # sqMem[s]

HostInv ==
  /\ outstanding \subseteq DOMAIN scene.kind /\ IsFiniteSet(outstanding)

\* One context completes commands ...
ContextInv ==
  /\ CompletedAt("apu") = {} => thread = Resting /\ \A b \in Block : stage[b] \notin {"apu", "replied"}
  /\ CompletedAt("apu") # {} => \A b \in Block : stage[b] # "data"

\* ... and between its steps the main thread still has the slot that it found free.
ThreadInv ==
  /\ thread.pc \in {"flip", "store"} => thread.tail = cq_tail
  /\ thread.pc = "stamp" => cq_tail = CqNext(thread.tail)
  /\ thread.pc \in {"store", "stamp"} => R!Dist(cq_head, hostHead) + Len(owed) < CqSize - 1

OneInv ==
  /\ HostInv /\ SqInv /\ ContextInv /\ ThreadInv /\ R!IInv
  /\ \E w \in SqSlot : Window(w) /\ FetchInv(w) /\ Apart(w)

IInv == TypeOK /\ BlocksInv /\ (OneContext => OneInv)

-----------------------------------------------------------------------------
(* Sequences                                                               *)

\* The head and the tail of a sequence that is not empty.
LEMMA HeadTail ==
  ASSUME NEW S, NEW s \in Seq(S), s # <<>>
  PROVE  /\ Len(s) \in Nat \ {0} /\ Head(s) = s[1] /\ Head(s) \in S
         /\ Tail(s) \in Seq(S) /\ Len(Tail(s)) = Len(s) - 1
         /\ \A j \in 1..(Len(s) - 1) : Tail(s)[j] = s[j + 1]
<1>1. Len(s) \in Nat \ {0}
  BY EmptySeq
<1> QED
  BY <1>1

\* A sequence with one more element.
LEMMA Appended ==
  ASSUME NEW S, NEW s \in Seq(S), NEW x \in S
  PROVE  /\ Append(s, x) \in Seq(S) /\ Len(Append(s, x)) = Len(s) + 1 /\ Len(s) \in Nat
         /\ \A j \in 1..Len(s) : Append(s, x)[j] = s[j]
         /\ Append(s, x)[Len(s) + 1] = x
BY AppendProperties

-----------------------------------------------------------------------------
(* Types                                                                   *)

Fetches == [block : Block, src : 0..(SqSize - 1)]
Entries == [block : Block, slot : 0..(CqSize - 1), data : Cmd \cup {NoCmd}, p : {0, 1}]

LEMMA NextSlots ==
  /\ \A s \in 0..(SqSize - 1) :
       SqNext(s) = (IF s = SqSize - 1 THEN 0 ELSE s + 1) /\ SqNext(s) \in 0..(SqSize - 1)
  /\ \A s \in 0..(CqSize - 1) :
       CqNext(s) = (IF s = CqSize - 1 THEN 0 ELSE s + 1) /\ CqNext(s) \in 0..(CqSize - 1)
<1>1. ASSUME NEW n \in Nat \ {0, 1}, NEW s \in 0..(n - 1)
      PROVE  (s + 1) % n = (IF s = n - 1 THEN 0 ELSE s + 1) /\ (s + 1) % n \in 0..(n - 1)
  <2>1. CASE s = n - 1
    BY <2>1
  <2>2. CASE s # n - 1
    BY <2>2
  <2> QED
    BY <2>1, <2>2
<1> QED
  BY <1>1, SizesAssumption DEF SqNext, CqNext

\* nvme_cmd_return keeps the types of what it changes.
LEMMA ReturnTypes ==
  ASSUME TypeOK, NEW b \in Block, Return(b)
  PROVE  /\ cq_head' \in 0..(CqSize - 1) /\ cq_tail' \in 0..(CqSize - 1) /\ cq_phase' \in {0, 1}
         /\ tx' \in Seq(Entries) /\ stage' \in [Block -> Stages]
         /\ owed' \in Seq(Cmd \cup {NoCmd}) /\ lostCq' \subseteq Cmd \cup {NoCmd}
<1>types. /\ cq_head \in 0..(CqSize - 1) /\ cq_tail \in 0..(CqSize - 1) /\ cq_phase \in {0, 1}
          /\ tx \in Seq(Entries) /\ stage \in [Block -> Stages] /\ sq_buf[b] \in Cmd \cup {NoCmd}
          /\ owed \in Seq(Cmd \cup {NoCmd}) /\ lostCq \subseteq Cmd \cup {NoCmd}
  BY DEF TypeOK, Entries
<1>1. CASE ~Full(cq_tail)
  <2> DEFINE e == [block |-> b, slot |-> cq_tail, data |-> sq_buf[b], p |-> PhaseAt(cq_tail, cq_phase)]
  <2>1. /\ PhaseAt(cq_tail, cq_phase) \in {0, 1}
        /\ CqNext(cq_tail) \in 0..(CqSize - 1)
    BY <1>types, NextSlots DEF PhaseAt
  <2>2. e \in Entries
    BY <1>types, <2>1 DEF Entries
  <2>3. /\ tx' = Append(tx, e) /\ owed' = Append(owed, sq_buf[b])
        /\ cq_tail' = CqNext(cq_tail) /\ cq_phase' = PhaseAt(cq_tail, cq_phase)
        /\ stage' = [stage EXCEPT ![b] = "posted"]
        /\ UNCHANGED <<cq_head, lostCq>>
    BY <1>1 DEF Return
  <2> HIDE DEF e
  <2>4. tx' \in Seq(Entries) /\ owed' \in Seq(Cmd \cup {NoCmd})
    BY <1>types, <2>2, <2>3, Appended
  <2> QED
    BY <1>types, <2>1, <2>3, <2>4 DEF Stages
<1>2. CASE Full(cq_tail)
  BY <1>2, <1>types DEF Return, Stages, cqVars
<1> QED
  BY <1>1, <1>2

\* The types of all variables, one by one.
Types ==
  /\ scene \in Scenes
  /\ sqMem \in [0..(SqSize - 1) -> Cmd \cup {NoCmd}]
  /\ cqMem \in [0..(CqSize - 1) -> [data : Cmd \cup {NoCmd}, p : {0, 1}]]
  /\ outstanding \subseteq Cmd
  /\ hostTail \in 0..(SqSize - 1) /\ tailDb \in 0..(SqSize - 1)
  /\ sq_head \in 0..(SqSize - 1) /\ sq_tail \in 0..(SqSize - 1)
  /\ hostHead \in 0..(CqSize - 1) /\ headDb \in 0..(CqSize - 1)
  /\ cq_head \in 0..(CqSize - 1) /\ cq_tail \in 0..(CqSize - 1)
  /\ hostPhase \in {0, 1} /\ cq_phase \in {0, 1} /\ rxDone \in {0, 1} /\ txDone \in {0, 1}
  /\ irq \in Seq({"tail", "head"}) /\ isr \in {"idle", "loop", "tail"}
  /\ stage \in [Block -> Stages] /\ sq_buf \in [Block -> Cmd \cup {NoCmd}]
  /\ rx \in Seq(Fetches) /\ tx \in Seq(Entries) /\ replies \in Seq(Block)
  /\ thread \in [pc : {"idle", "flip", "store", "stamp"},
                 block : Block \cup {NoBlock}, tail : 0..(CqSize - 1)]
  /\ lostSlab \subseteq Cmd \cup {NoCmd} /\ lostCq \subseteq Cmd \cup {NoCmd}
  /\ owed \in Seq(Cmd \cup {NoCmd})

LEMMA TypesOne == TypeOK <=> Types
BY DEF TypeOK, Types, Fetches, Entries

\* Every step keeps the types.
LEMMA TypeStep ==
  ASSUME TypeOK, BlocksInv, Next
  PROVE  TypeOK'
<1> USE DEF hostVars, regs, sqVars, cqVars, slab, rxVars, txVars, main, ghosts
<1>types. Types
  BY TypesOne
<1>scene. scene' \in Scenes
  BY <1>types DEF Types, Next
<1> SUFFICES Types'
  <2>1. TypeOK' <=> Types'
    BY DEF TypeOK, Types, Fetches, Entries
  <2> QED
    BY <2>1
<1>1. ASSUME NEW c \in Cmd, Submit(c) PROVE Types'
  BY <1>types, <1>scene, <1>1, NextSlots DEF Types, Submit
<1>2. CASE RingTail
  BY <1>types, <1>scene, <1>2 DEF Types, RingTail
<1>3. CASE Consume
  <2>1. owed' \in Seq(Cmd \cup {NoCmd})
    BY <1>types, <1>3, HeadTail DEF Types, Consume
  <2>2. hostPhase' \in {0, 1}
    BY <1>types, <1>3 DEF Types, Consume
  <2>3. hostHead' \in 0..(CqSize - 1) /\ outstanding' \subseteq Cmd
    BY <1>types, <1>3, NextSlots DEF Types, Consume
  <2> QED
    BY <1>types, <1>scene, <1>3, <2>1, <2>2, <2>3 DEF Types, Consume
<1>4. CASE RingHead
  BY <1>types, <1>scene, <1>4 DEF Types, RingHead
<1>5. CASE IrqExit
  BY <1>types, <1>scene, <1>5 DEF Types, IrqExit
<1>6. CASE TailRead
  BY <1>types, <1>scene, <1>6, HeadTail DEF Types, TailRead, Serve
<1>7. CASE TailFetch
  <2> DEFINE b == CHOOSE b \in Free : TRUE
  <2>1. b \in Free /\ b \in Block
    BY <1>7, HostAssumption, <1>types DEF TailFetch, Free, Types, Scene
  <2>2. /\ stage' = [stage EXCEPT ![b] = "fetch"]
        /\ rx' = Append(rx, [block |-> b, src |-> sq_head])
        /\ TailAdvance /\ UNCHANGED <<sq_buf, rxDone, lostSlab>>
    BY <1>7 DEF TailFetch
  <2> HIDE DEF b
  <2>3. [block |-> b, src |-> sq_head] \in Fetches
    BY <1>types, <2>1 DEF Types, Fetches
  <2>4. rx' \in Seq(Fetches)
    BY <1>types, <2>2, <2>3, Appended DEF Types
  <2>5. stage' \in [Block -> Stages]
    BY <1>types, <2>1, <2>2 DEF Types, Stages
  <2>6. sq_head' \in 0..(SqSize - 1) /\ isr' \in {"idle", "loop", "tail"}
    BY <1>types, <2>2, NextSlots DEF Types, TailAdvance
  <2> QED
    BY <1>types, <1>scene, <2>2, <2>4, <2>5, <2>6 DEF Types, TailAdvance
<1>8. CASE TailDrop
  BY <1>types, <1>scene, <1>8, NextSlots DEF Types, TailDrop, TailAdvance
<1>9. CASE HeadHandler
  BY <1>types, <1>scene, <1>9, HeadTail DEF Types, HeadHandler, Serve
<1>10. CASE RxCallback
  <2> DEFINE b == Head(rx).block
  <2>1. /\ rx # <<>> /\ b \in Block /\ rx' \in Seq(Fetches)
    <3>1. rx # <<>> /\ rx \in Seq(Fetches) /\ rx' = Tail(rx)
      BY <1>types, <1>10 DEF Types, RxCallback, BlocksInv, RxInv
    <3>2. Head(rx) \in Fetches /\ Tail(rx) \in Seq(Fetches)
      BY <3>1, HeadTail
    <3> QED
      BY <3>1, <3>2 DEF Fetches
  <2>2. /\ \/ Return(b)
           \/ /\ sq_buf[b] \in CompletedAt("data") \cup CompletedAt("apu")
              /\ stage' = [stage EXCEPT ![b] = scene.kind[sq_buf[b]]]
              /\ UNCHANGED <<cqVars, tx, lostCq, owed>>
        /\ rxDone' = 0
        /\ UNCHANGED <<hostVars, regs, sqVars, sq_buf, txDone, main, lostSlab>>
    BY <1>10 DEF RxCallback
  <2> HIDE DEF b
  <2>3. CASE Return(b)
    BY <1>types, <1>scene, <2>1, <2>2, <2>3, ReturnTypes DEF Types
  <2>4. CASE /\ sq_buf[b] \in CompletedAt("data") \cup CompletedAt("apu")
             /\ stage' = [stage EXCEPT ![b] = scene.kind[sq_buf[b]]]
             /\ UNCHANGED <<cqVars, tx, lostCq, owed>>
    <3>1. scene.kind[sq_buf[b]] \in Stages
      BY <2>4 DEF CompletedAt, Stages
    <3>2. stage' \in [Block -> Stages]
      BY <1>types, <2>1, <2>4, <3>1 DEF Types
    <3> QED
      BY <1>types, <1>scene, <2>1, <2>2, <2>4, <3>2 DEF Types
  <2> QED
    BY <2>2, <2>3, <2>4
<1>11. ASSUME NEW b \in Block, DataCallback(b) PROVE Types'
  BY <1>types, <1>scene, <1>11, ReturnTypes DEF Types, DataCallback
<1>12. CASE TxCallback
  <2>1. /\ tx # <<>> /\ Head(tx).block \in Block /\ tx' \in Seq(Entries)
    <3>1. tx # <<>> /\ tx \in Seq(Entries) /\ tx' = Tail(tx)
      BY <1>types, <1>12 DEF Types, TxCallback, BlocksInv, TxInv
    <3>2. Head(tx) \in Entries /\ Tail(tx) \in Seq(Entries)
      BY <3>1, HeadTail
    <3> QED
      BY <3>1, <3>2 DEF Entries
  <2>2. stage' \in [Block -> Stages] /\ sq_buf' \in [Block -> Cmd \cup {NoCmd}]
    BY <1>types, <1>12, <2>1 DEF Types, TxCallback, Stages
  <2> QED
    BY <1>types, <1>scene, <1>12, <2>1, <2>2 DEF Types, TxCallback
<1>13. ASSUME NEW b \in Block, ApuReply(b) PROVE Types'
  <2>1. replies' \in Seq(Block) /\ stage' \in [Block -> Stages]
    BY <1>types, <1>13, Appended DEF Types, ApuReply, Stages
  <2> QED
    BY <1>types, <1>scene, <1>13, <2>1 DEF Types, ApuReply
<1>14. CASE ThreadReadTail
  <2>1. Head(replies) \in Block /\ replies' \in Seq(Block)
    BY <1>types, <1>14, HeadTail DEF Types, ThreadReadTail
  <2>2. thread' \in [pc : {"idle", "flip", "store", "stamp"},
                     block : Block \cup {NoBlock}, tail : 0..(CqSize - 1)]
    BY <1>types, <1>14, <2>1 DEF Types, ThreadReadTail
  <2> QED
    BY <1>types, <1>scene, <1>14, <2>1, <2>2 DEF Types, ThreadReadTail
<1>15. CASE ThreadFlip
  <2>0. thread.block \in Block
    BY <1>15 DEF ThreadFlip, BlocksInv, MainInv
  <2>1. CASE ~Full(thread.tail)
    <3>1. cq_phase' \in {0, 1}
      BY <1>types, <1>15, <2>1 DEF Types, ThreadFlip, PhaseAt
    <3>2. thread' \in [pc : {"idle", "flip", "store", "stamp"},
                       block : Block \cup {NoBlock}, tail : 0..(CqSize - 1)]
      BY <1>types, <1>15, <2>1 DEF Types, ThreadFlip
    <3> QED
      BY <1>types, <1>scene, <1>15, <2>1, <3>1, <3>2 DEF Types, ThreadFlip
  <2>2. CASE Full(thread.tail)
    <3>1. /\ stage' \in [Block -> Stages] /\ lostCq' \subseteq Cmd \cup {NoCmd}
      BY <1>types, <1>15, <2>0, <2>2 DEF Types, ThreadFlip, Stages
    <3>2. thread' \in [pc : {"idle", "flip", "store", "stamp"},
                       block : Block \cup {NoBlock}, tail : 0..(CqSize - 1)]
      BY <1>15, <2>2, SizesAssumption DEF ThreadFlip, Resting
    <3> QED
      BY <1>types, <1>scene, <1>15, <2>2, <3>1, <3>2 DEF Types, ThreadFlip
  <2> QED
    BY <2>1, <2>2
<1>16. CASE ThreadStoreTail
  <2>1. cq_tail' \in 0..(CqSize - 1)
    BY <1>types, <1>16, NextSlots DEF Types, ThreadStoreTail
  <2>2. thread' \in [pc : {"idle", "flip", "store", "stamp"},
                     block : Block \cup {NoBlock}, tail : 0..(CqSize - 1)]
    BY <1>types, <1>16 DEF Types, ThreadStoreTail
  <2> QED
    BY <1>types, <1>scene, <1>16, <2>1, <2>2 DEF Types, ThreadStoreTail
<1>17. CASE ThreadStamp
  <2> DEFINE e == [block |-> thread.block, slot |-> thread.tail,
                   data |-> sq_buf[thread.block], p |-> cq_phase]
  <2>1. thread.block \in Block /\ thread.tail \in 0..(CqSize - 1)
    BY <1>types, <1>17 DEF Types, ThreadStamp, BlocksInv, MainInv
  <2>2. e \in Entries /\ sq_buf[thread.block] \in Cmd \cup {NoCmd}
    BY <1>types, <2>1 DEF Types, Entries
  <2>3. tx' = Append(tx, e) /\ owed' = Append(owed, sq_buf[thread.block])
    BY <1>17 DEF ThreadStamp
  <2> HIDE DEF e
  <2>4. tx' \in Seq(Entries) /\ owed' \in Seq(Cmd \cup {NoCmd})
    BY <1>types, <2>2, <2>3, Appended DEF Types
  <2>5. stage' \in [Block -> Stages]
    BY <1>types, <1>17, <2>1 DEF Types, ThreadStamp, Stages
  <2>6. thread' \in [pc : {"idle", "flip", "store", "stamp"},
                     block : Block \cup {NoBlock}, tail : 0..(CqSize - 1)]
    BY <1>17, SizesAssumption DEF ThreadStamp, Resting
  <2> QED
    BY <1>types, <1>scene, <1>17, <2>4, <2>5, <2>6 DEF Types, ThreadStamp
<1>18. CASE RxMove
  <2>1. Head(rx).block \in Block /\ Head(rx).src \in 0..(SqSize - 1)
    <3>1. Head(rx) \in Fetches
      BY <1>types, <1>18, HeadTail DEF Types, RxMove
    <3> QED
      BY <3>1 DEF Fetches
  <2>2. sq_buf' \in [Block -> Cmd \cup {NoCmd}]
    BY <1>types, <1>18, <2>1 DEF Types, RxMove
  <2> QED
    BY <1>types, <1>scene, <1>18, <2>2 DEF Types, RxMove
<1>19. CASE TxMove
  <2>1. Head(tx) \in Entries
    BY <1>types, <1>19, HeadTail DEF Types, TxMove
  <2>2. cqMem' \in [0..(CqSize - 1) -> [data : Cmd \cup {NoCmd}, p : {0, 1}]]
    BY <1>types, <1>19, <2>1 DEF Types, TxMove, Entries
  <2> QED
    BY <1>types, <1>scene, <1>19, <2>2 DEF Types, TxMove
<1> QED
  BY <1>1, <1>2, <1>3, <1>4, <1>5, <1>6, <1>7, <1>8, <1>9, <1>10, <1>11, <1>12, <1>13,
     <1>14, <1>15, <1>16, <1>17, <1>18, <1>19
  DEF Next, Host, TcIrq, DmaIrq, Thread, Engine

-----------------------------------------------------------------------------
(* Blocks                                                                  *)

\* What is in the channels.
LEMMA Elements ==
  ASSUME TypeOK
  PROVE  /\ \A i \in 1..Len(rx) : rx[i].block \in Block /\ rx[i].src \in SqSlot
         /\ \A i \in 1..Len(tx) : /\ tx[i].block \in Block /\ tx[i].slot \in 0..(CqSize - 1)
                                   /\ tx[i].data \in Cmd \cup {NoCmd} /\ tx[i].p \in {0, 1}
         /\ Len(rx) \in Nat /\ Len(tx) \in Nat
<1>1. rx \in Seq(Fetches) /\ tx \in Seq(Entries)
  BY TypesOne DEF Types
<1>2. \A i \in 1..Len(rx) : rx[i] \in Fetches
  BY <1>1, ElementOfSeq
<1>3. \A i \in 1..Len(tx) : tx[i] \in Entries
  BY <1>1, ElementOfSeq
<1>4. \A i \in 1..Len(rx) : rx[i].block \in Block /\ rx[i].src \in SqSlot
  BY <1>2 DEF Fetches, SqSlot
<1>5. \A i \in 1..Len(tx) : /\ tx[i].block \in Block /\ tx[i].slot \in 0..(CqSize - 1)
                            /\ tx[i].data \in Cmd \cup {NoCmd} /\ tx[i].p \in {0, 1}
  BY <1>3 DEF Entries
<1> QED
  BY <1>1, <1>4, <1>5

\* A step that leaves the queue alone and the stage of the blocks in it.
LEMMA RxKeep ==
  ASSUME TypeOK, RxInv, rx' = rx, rxDone' <= Len(rx),
         \A b \in Block : stage[b] = "fetch" => stage'[b] = "fetch"
  PROVE  RxInv'
<1>1. \A i \in 1..Len(rx) : rx[i].block \in Block
  BY Elements
<1> QED
  BY <1>1 DEF RxInv

LEMMA TxKeep ==
  ASSUME TypeOK, TxInv, tx' = tx, txDone' <= Len(tx),
         \A b \in Block : stage[b] = "posted" => stage'[b] = "posted"
  PROVE  TxInv'
<1>1. \A i \in 1..Len(tx) : tx[i].block \in Block
  BY Elements
<1> QED
  BY <1>1 DEF TxInv

LEMMA MainKeep ==
  ASSUME TypeOK, MainInv, replies' = replies, thread' = thread,
         \A b \in Block : stage[b] = "replied" => stage'[b] = "replied"
  PROVE  MainInv'
<1>1. \A i \in 1..Len(replies) : replies[i] \in Block
  BY TypesOne DEF Types
<1> QED
  BY <1>1 DEF MainInv, Resting

\* A step that adds to a queue the block whose stage says so from now on.
LEMMA RxPut ==
  ASSUME TypeOK, RxInv, NEW e \in Fetches, rx' = Append(rx, e), rxDone' = rxDone,
         stage[e.block] # "fetch",
         \A b \in Block : stage'[b] = IF b = e.block THEN "fetch" ELSE stage[b]
  PROVE  RxInv'
<1>types. rx \in Seq(Fetches) /\ rxDone \in {0, 1}
  BY TypesOne DEF Types
<1>1. /\ Len(rx') = Len(rx) + 1 /\ Len(rx) \in Nat
      /\ \A j \in 1..Len(rx) : rx'[j] = rx[j]
      /\ rx'[Len(rx) + 1] = e
  BY <1>types, Appended
<1>2. /\ e.block \in Block
      /\ \A i \in 1..Len(rx) : rx[i].block \in Block /\ stage[rx[i].block] = "fetch"
      /\ \A i, j \in 1..Len(rx) : rx[i].block = rx[j].block => i = j
      /\ rxDone <= Len(rx)
  BY <1>types, Elements DEF Fetches, RxInv
<1>3. \A i \in 1..Len(rx') : i \in 1..Len(rx) \/ i = Len(rx) + 1
  BY <1>1
<1>4. rxDone' <= Len(rx')
  BY <1>types, <1>1, <1>2
<1>5. \A i \in 1..Len(rx') : stage'[rx'[i].block] = "fetch"
  BY <1>1, <1>2, <1>3
<1>6. \A i, j \in 1..Len(rx') : rx'[i].block = rx'[j].block => i = j
  BY <1>1, <1>2, <1>3
<1> QED
  BY <1>4, <1>5, <1>6 DEF RxInv

LEMMA TxPut ==
  ASSUME TypeOK, TxInv, NEW e \in Entries, tx' = Append(tx, e), txDone' = txDone,
         stage[e.block] # "posted",
         \A b \in Block : stage'[b] = IF b = e.block THEN "posted" ELSE stage[b]
  PROVE  TxInv'
<1>types. tx \in Seq(Entries) /\ txDone \in {0, 1}
  BY TypesOne DEF Types
<1>1. /\ Len(tx') = Len(tx) + 1 /\ Len(tx) \in Nat
      /\ \A j \in 1..Len(tx) : tx'[j] = tx[j]
      /\ tx'[Len(tx) + 1] = e
  BY <1>types, Appended
<1>2. /\ e.block \in Block
      /\ \A i \in 1..Len(tx) : tx[i].block \in Block /\ stage[tx[i].block] = "posted"
      /\ \A i, j \in 1..Len(tx) : tx[i].block = tx[j].block => i = j
      /\ txDone <= Len(tx)
  BY <1>types, Elements DEF Entries, TxInv
<1>3. \A i \in 1..Len(tx') : i \in 1..Len(tx) \/ i = Len(tx) + 1
  BY <1>1
<1>4. txDone' <= Len(tx')
  BY <1>types, <1>1, <1>2
<1>5. \A i \in 1..Len(tx') : stage'[tx'[i].block] = "posted"
  BY <1>1, <1>2, <1>3
<1>6. \A i, j \in 1..Len(tx') : tx'[i].block = tx'[j].block => i = j
  BY <1>1, <1>2, <1>3
<1> QED
  BY <1>4, <1>5, <1>6 DEF TxInv

\* A step that takes the first block off a queue and changes its stage.
LEMMA RxPop ==
  ASSUME TypeOK, RxInv, rx # <<>>, rx' = Tail(rx), rxDone' = 0,
         \A b \in Block : b # Head(rx).block /\ stage[b] = "fetch" => stage'[b] = "fetch"
  PROVE  RxInv'
<1>types. rx \in Seq(Fetches)
  BY TypesOne DEF Types
<1>1. /\ Len(rx') = Len(rx) - 1 /\ Len(rx) \in Nat \ {0} /\ Head(rx) = rx[1]
      /\ \A j \in 1..(Len(rx) - 1) : rx'[j] = rx[j + 1]
  BY <1>types, HeadTail
<1>2. /\ \A i \in 1..Len(rx) : rx[i].block \in Block /\ stage[rx[i].block] = "fetch"
      /\ \A i, j \in 1..Len(rx) : rx[i].block = rx[j].block => i = j
  BY <1>types, Elements DEF Fetches, RxInv
<1>3. \A i \in 1..Len(rx') : i + 1 \in 1..Len(rx) /\ rx'[i] = rx[i + 1] /\ i + 1 # 1
  BY <1>1
<1>4. \A i \in 1..Len(rx') : stage'[rx'[i].block] = "fetch"
  BY <1>1, <1>2, <1>3
<1>5. \A i, j \in 1..Len(rx') : rx'[i].block = rx'[j].block => i = j
  BY <1>1, <1>2, <1>3
<1> QED
  BY <1>1, <1>4, <1>5 DEF RxInv

LEMMA TxPop ==
  ASSUME TypeOK, TxInv, tx # <<>>, tx' = Tail(tx), txDone' = 0,
         \A b \in Block : b # Head(tx).block /\ stage[b] = "posted" => stage'[b] = "posted"
  PROVE  TxInv'
<1>types. tx \in Seq(Entries)
  BY TypesOne DEF Types
<1>1. /\ Len(tx') = Len(tx) - 1 /\ Len(tx) \in Nat \ {0} /\ Head(tx) = tx[1]
      /\ \A j \in 1..(Len(tx) - 1) : tx'[j] = tx[j + 1]
  BY <1>types, HeadTail
<1>2. /\ \A i \in 1..Len(tx) : tx[i].block \in Block /\ stage[tx[i].block] = "posted"
      /\ \A i, j \in 1..Len(tx) : tx[i].block = tx[j].block => i = j
  BY <1>types, Elements DEF Entries, TxInv
<1>3. \A i \in 1..Len(tx') : i + 1 \in 1..Len(tx) /\ tx'[i] = tx[i + 1] /\ i + 1 # 1
  BY <1>1
<1>4. \A i \in 1..Len(tx') : stage'[tx'[i].block] = "posted"
  BY <1>1, <1>2, <1>3
<1>5. \A i, j \in 1..Len(tx') : tx'[i].block = tx'[j].block => i = j
  BY <1>1, <1>2, <1>3
<1> QED
  BY <1>1, <1>4, <1>5 DEF TxInv

\* nvme_cmd_return for a block that is in neither queue of its own.
LEMMA ReturnBlocks ==
  ASSUME TypeOK, TxInv, NEW b \in Block, stage[b] # "posted", Return(b), txDone' = txDone
  PROVE  /\ TxInv' /\ stage'[b] \in {"posted", "leaked"}
         /\ \A x \in Block \ {b} : stage'[x] = stage[x]
<1>types. /\ stage \in [Block -> Stages] /\ cq_tail \in 0..(CqSize - 1)
          /\ cq_phase \in {0, 1} /\ sq_buf[b] \in Cmd \cup {NoCmd} /\ txDone <= Len(tx)
  BY TypesOne DEF Types, TxInv
<1>1. CASE ~Full(cq_tail)
  <2> DEFINE e == [block |-> b, slot |-> cq_tail, data |-> sq_buf[b], p |-> PhaseAt(cq_tail, cq_phase)]
  <2>1. /\ e \in Entries /\ e.block = b
    BY <1>types DEF Entries, PhaseAt
  <2>2. tx' = Append(tx, e) /\ stage' = [stage EXCEPT ![b] = "posted"]
    BY <1>1 DEF Return
  <2> HIDE DEF e
  <2>3. \A x \in Block : stage'[x] = IF x = b THEN "posted" ELSE stage[x]
    BY <1>types, <2>2
  <2>4. TxInv'
    BY <2>1, <2>2, <2>3, TxPut
  <2> QED
    BY <2>3, <2>4
<1>2. CASE Full(cq_tail)
  <2>1. tx' = tx /\ stage' = [stage EXCEPT ![b] = "leaked"]
    BY <1>2 DEF Return
  <2>2. \A x \in Block : stage'[x] = IF x = b THEN "leaked" ELSE stage[x]
    BY <1>types, <2>1
  <2>3. TxInv'
    BY <1>types, <2>1, <2>2, TxKeep
  <2> QED
    BY <2>2, <2>3
<1> QED
  BY <1>1, <1>2

\* Every step keeps a block in one place.
LEMMA BlocksStep ==
  ASSUME TypeOK, BlocksInv, Next
  PROVE  BlocksInv'
<1> USE DEF hostVars, regs, sqVars, cqVars, slab, rxVars, txVars, main, ghosts
<1>inv. /\ RxInv /\ TxInv /\ MainInv /\ rxDone <= Len(rx) /\ txDone <= Len(tx)
        /\ stage \in [Block -> Stages] /\ rxDone \in {0, 1} /\ txDone \in {0, 1}
        /\ replies \in Seq(Block)
  BY TypesOne DEF Types, BlocksInv, RxInv, TxInv
<1> SUFFICES RxInv' /\ TxInv' /\ MainInv'
  BY DEF BlocksInv
<1>keep. ASSUME UNCHANGED <<slab, rxVars, txVars, main>>
         PROVE  RxInv' /\ TxInv' /\ MainInv'
  BY <1>inv, <1>keep, RxKeep, TxKeep, MainKeep
<1>1. ASSUME NEW c \in Cmd, Submit(c) PROVE RxInv' /\ TxInv' /\ MainInv'
  BY <1>1, <1>keep DEF Submit
<1>2. CASE RingTail
  BY <1>2, <1>keep DEF RingTail
<1>3. CASE Consume
  BY <1>3, <1>keep DEF Consume
<1>4. CASE RingHead
  BY <1>4, <1>keep DEF RingHead
<1>5. CASE IrqExit
  BY <1>5, <1>keep DEF IrqExit
<1>6. CASE TailRead
  BY <1>6, <1>keep DEF TailRead
<1>7. CASE TailFetch
  <2> DEFINE b == CHOOSE b \in Free : TRUE
             e == [block |-> b, src |-> sq_head]
  <2>1. b \in Free /\ b \in Block
    BY <1>7, HostAssumption, TypesOne DEF TailFetch, Free, Types, Scene
  <2>2. /\ stage' = [stage EXCEPT ![b] = "fetch"]
        /\ rx' = Append(rx, e) /\ UNCHANGED <<rxDone, txVars, main>>
    BY <1>7 DEF TailFetch, TailAdvance
  <2>3. e \in Fetches /\ e.block = b
    BY <2>1, TypesOne DEF Types, Fetches
  <2> HIDE DEF b, e
  <2>4. /\ stage[b] = "free"
        /\ \A x \in Block : stage'[x] = IF x = b THEN "fetch" ELSE stage[x]
    BY <1>inv, <2>1, <2>2 DEF Free
  <2>5. RxInv'
    BY <1>inv, <2>2, <2>3, <2>4, RxPut
  <2>6. TxInv'
    BY <1>inv, <2>2, <2>4, TxKeep
  <2>7. MainInv'
    BY <1>inv, <2>2, <2>4, MainKeep
  <2> QED
    BY <2>5, <2>6, <2>7
<1>8. CASE TailDrop
  BY <1>8, <1>keep DEF TailDrop, TailAdvance
<1>9. CASE HeadHandler
  BY <1>9, <1>keep DEF HeadHandler
<1>10. CASE RxCallback
  <2> DEFINE b == Head(rx).block
  <2>0. rx # <<>> /\ Len(rx) \in Nat \ {0} /\ Head(rx) = rx[1]
    BY <1>inv, <1>10, TypesOne, HeadTail DEF Types, RxCallback
  <2>1. b \in Block /\ stage[b] = "fetch"
    BY <1>inv, <2>0, Elements DEF RxInv
  <2>2. /\ \/ Return(b)
           \/ /\ sq_buf[b] \in CompletedAt("data") \cup CompletedAt("apu")
              /\ stage' = [stage EXCEPT ![b] = scene.kind[sq_buf[b]]]
              /\ UNCHANGED tx
        /\ rxDone' = 0 /\ rx' = Tail(rx) /\ UNCHANGED <<txDone, main>>
    BY <1>10 DEF RxCallback
  <2>3. /\ TxInv' /\ stage'[b] # "replied" /\ \A x \in Block \ {b} : stage'[x] = stage[x]
    <3>1. CASE Return(b)
      BY <1>inv, <2>1, <2>2, <3>1, ReturnBlocks
    <3>2. CASE /\ sq_buf[b] \in CompletedAt("data") \cup CompletedAt("apu")
               /\ stage' = [stage EXCEPT ![b] = scene.kind[sq_buf[b]]]
               /\ UNCHANGED tx
      <4>1. scene.kind[sq_buf[b]] \in {"data", "apu"}
        BY <3>2 DEF CompletedAt
      <4>2. stage'[b] # "replied" /\ \A x \in Block \ {b} : stage'[x] = stage[x]
        BY <1>inv, <2>1, <3>2, <4>1
      <4>3. TxInv'
        BY <1>inv, <2>1, <2>2, <3>2, <4>2, TxKeep
      <4> QED
        BY <4>2, <4>3
    <3> QED
      BY <2>2, <3>1, <3>2
  <2>4. RxInv'
    BY <1>inv, <2>0, <2>2, <2>3, RxPop
  <2>5. MainInv'
    BY <1>inv, <2>1, <2>2, <2>3, MainKeep
  <2> QED
    BY <2>3, <2>4, <2>5
<1>11. ASSUME NEW b \in Block, DataCallback(b) PROVE RxInv' /\ TxInv' /\ MainInv'
  <2>1. /\ stage[b] = "data" /\ Return(b) /\ UNCHANGED <<rxVars, txDone, main>>
    BY <1>11 DEF DataCallback
  <2>2. /\ TxInv' /\ stage'[b] # "fetch" /\ \A x \in Block \ {b} : stage'[x] = stage[x]
    BY <1>inv, <2>1, ReturnBlocks
  <2>3. RxInv'
    BY <1>inv, <2>1, <2>2, RxKeep
  <2>4. MainInv'
    BY <1>inv, <2>1, <2>2, MainKeep
  <2> QED
    BY <2>2, <2>3, <2>4
<1>12. CASE TxCallback
  <2> DEFINE b == Head(tx).block
  <2>0. tx # <<>> /\ Len(tx) \in Nat \ {0} /\ Head(tx) = tx[1]
    BY <1>inv, <1>12, TypesOne, HeadTail DEF Types, TxCallback
  <2>1. b \in Block /\ stage[b] = "posted"
    BY <1>inv, <2>0, Elements DEF TxInv
  <2>2. /\ stage' = [stage EXCEPT ![b] = "free"]
        /\ txDone' = 0 /\ tx' = Tail(tx) /\ UNCHANGED <<rxVars, main>>
    BY <1>12 DEF TxCallback
  <2>3. \A x \in Block : stage'[x] = IF x = b THEN "free" ELSE stage[x]
    BY <1>inv, <2>1, <2>2
  <2>4. TxInv'
    BY <1>inv, <2>0, <2>2, <2>3, TxPop
  <2>5. RxInv'
    BY <1>inv, <2>1, <2>2, <2>3, RxKeep
  <2>6. MainInv'
    BY <1>inv, <2>1, <2>2, <2>3, MainKeep
  <2> QED
    BY <2>4, <2>5, <2>6
<1>13. ASSUME NEW b \in Block, ApuReply(b) PROVE RxInv' /\ TxInv' /\ MainInv'
  <2>1. /\ stage[b] = "apu" /\ stage' = [stage EXCEPT ![b] = "replied"]
        /\ replies' = Append(replies, b) /\ UNCHANGED <<rxVars, txVars, thread>>
    BY <1>13 DEF ApuReply
  <2>2. \A x \in Block : stage'[x] = IF x = b THEN "replied" ELSE stage[x]
    BY <1>inv, <2>1
  <2>3. RxInv' /\ TxInv'
    BY <1>inv, <2>1, <2>2, RxKeep, TxKeep
  <2>4. /\ Len(replies') = Len(replies) + 1 /\ Len(replies) \in Nat
        /\ \A j \in 1..Len(replies) : replies'[j] = replies[j] /\ replies[j] \in Block
        /\ replies'[Len(replies) + 1] = b
    BY <1>inv, <2>1, Appended
  <2>5. \A i \in 1..Len(replies') : i \in 1..Len(replies) \/ i = Len(replies) + 1
    BY <2>4
  <2>6. \A i \in 1..Len(replies') : stage'[replies'[i]] = "replied" /\ replies'[i] # thread'.block
    BY <1>inv, <2>1, <2>2, <2>4, <2>5, CmdAssumption DEF MainInv, Resting
  <2>7. \A i, j \in 1..Len(replies') : replies'[i] = replies'[j] => i = j
    BY <1>inv, <2>1, <2>2, <2>4, <2>5 DEF MainInv
  <2>8. /\ thread'.pc # "idle" => thread'.block \in Block /\ stage'[thread'.block] = "replied"
        /\ thread'.pc = "idle" => thread' = Resting
    BY <1>inv, <2>1, <2>2 DEF MainInv
  <2> QED
    BY <2>3, <2>6, <2>7, <2>8 DEF MainInv, Resting
<1>14. CASE ThreadReadTail
  <2>1. /\ replies # <<>> /\ replies' = Tail(replies)
        /\ thread' = [pc |-> "flip", block |-> Head(replies), tail |-> cq_tail]
        /\ UNCHANGED <<slab, rxVars, txVars>>
    BY <1>14 DEF ThreadReadTail
  <2>2. RxInv' /\ TxInv'
    BY <1>inv, <2>1, RxKeep, TxKeep
  <2>3. /\ Len(replies') = Len(replies) - 1 /\ Len(replies) \in Nat \ {0}
        /\ Head(replies) = replies[1] /\ Head(replies) \in Block
        /\ \A j \in 1..(Len(replies) - 1) : replies'[j] = replies[j + 1]
    BY <1>inv, <2>1, HeadTail
  <2>4. \A i \in 1..Len(replies') : i + 1 \in 1..Len(replies) /\ replies'[i] = replies[i + 1]
                                    /\ i + 1 # 1
    BY <2>3
  <2>5. thread'.pc = "flip" /\ thread'.block = replies[1]
    BY <2>1, <2>3
  <2>6. \A i \in 1..Len(replies') : stage'[replies'[i]] = "replied" /\ replies'[i] # thread'.block
    BY <1>inv, <2>1, <2>3, <2>4, <2>5 DEF MainInv
  <2>7. \A i, j \in 1..Len(replies') : replies'[i] = replies'[j] => i = j
    BY <1>inv, <2>4, <2>3 DEF MainInv
  <2>8. thread'.block \in Block /\ stage'[thread'.block] = "replied"
    BY <1>inv, <2>1, <2>3, <2>5 DEF MainInv
  <2> QED
    BY <2>2, <2>5, <2>6, <2>7, <2>8 DEF MainInv
<1>15. ASSUME ThreadFlip \/ ThreadStamp, thread' = Resting
       PROVE  MainInv' /\ RxInv' /\ TxInv'
  <2> DEFINE b == thread.block
  <2>1. b \in Block /\ stage[b] = "replied"
    BY <1>inv, <1>15 DEF MainInv, ThreadFlip, ThreadStamp
  <2>2. /\ \E x \in {"leaked", "posted"} : stage' = [stage EXCEPT ![b] = x]
        /\ UNCHANGED <<rxVars, txDone, replies>>
    <3>1. CASE ThreadFlip
      <4>1. thread.pc = "flip" /\ thread'.pc # "store"
        BY <3>1, <1>15 DEF ThreadFlip, Resting
      <4> QED
        BY <3>1, <4>1, TypesOne DEF ThreadFlip, Types
    <3>2. CASE ThreadStamp
      BY <3>2 DEF ThreadStamp
    <3> QED
      BY <1>15, <3>1, <3>2
  <2>3. /\ stage'[b] \in {"leaked", "posted"} /\ \A x \in Block \ {b} : stage'[x] = stage[x]
    BY <1>inv, <2>1, <2>2
  <2>4. RxInv'
    BY <1>inv, <2>1, <2>2, <2>3, RxKeep
  <2>5. MainInv'
    <3>1. \A i \in 1..Len(replies) : replies[i] \in Block /\ replies[i] # b /\ stage[replies[i]] = "replied"
      BY <1>inv DEF MainInv
    <3>2. thread'.pc = "idle" /\ thread'.block = NoBlock /\ thread' = Resting'
      BY <1>15 DEF Resting
    <3>3. \A i \in 1..Len(replies') : stage'[replies'[i]] = "replied" /\ replies'[i] # thread'.block
      BY <2>2, <2>3, <3>1, <3>2, CmdAssumption
    <3>4. \A i, j \in 1..Len(replies') : replies'[i] = replies'[j] => i = j
      BY <1>inv, <2>2 DEF MainInv
    <3> QED
      BY <3>2, <3>3, <3>4 DEF MainInv
  <2>6. TxInv'
    <3>1. CASE ThreadFlip
      <4>1. UNCHANGED txVars
        BY <3>1 DEF ThreadFlip
      <4> QED
        BY <1>inv, <2>1, <2>3, <4>1, TxKeep
    <3>2. CASE ThreadStamp
      <4> DEFINE e == [block |-> thread.block, slot |-> thread.tail,
                       data |-> sq_buf[thread.block], p |-> cq_phase]
      <4>1. e \in Entries /\ e.block = b
        BY <2>1, TypesOne DEF Types, Entries
      <4>2. tx' = Append(tx, e) /\ txDone' = txDone /\ stage' = [stage EXCEPT ![b] = "posted"]
        BY <3>2 DEF ThreadStamp
      <4> HIDE DEF e
      <4>3. \A x \in Block : stage'[x] = IF x = e.block THEN "posted" ELSE stage[x]
        BY <1>inv, <2>1, <4>1, <4>2
      <4> QED
        BY <1>inv, <2>1, <4>1, <4>2, <4>3, TxPut
    <3> QED
      BY <1>15, <3>1, <3>2
  <2> QED
    BY <2>4, <2>5, <2>6
<1>16. ASSUME ThreadFlip \/ ThreadStoreTail, thread' # Resting
       PROVE  MainInv' /\ RxInv' /\ TxInv'
  <2>1. /\ thread.pc \in {"flip", "store"} /\ UNCHANGED <<slab, rxVars, txVars, replies>>
        /\ \E x \in {"store", "stamp"} : thread' = [thread EXCEPT !.pc = x]
    BY <1>16 DEF ThreadFlip, ThreadStoreTail
  <2>2. thread'.pc \in {"store", "stamp"} /\ thread'.block = thread.block
    BY <2>1, TypesOne DEF Types
  <2>3. RxInv' /\ TxInv'
    BY <1>inv, <2>1, RxKeep, TxKeep
  <2>4. MainInv'
    BY <1>inv, <2>1, <2>2 DEF MainInv
  <2> QED
    BY <2>3, <2>4
<1>17. thread' = Resting \/ ~ThreadStamp
  BY DEF ThreadStamp
<1>18. thread' # Resting \/ ~ThreadStoreTail
  <2>1. ThreadStoreTail => thread'.pc = "stamp"
    BY TypesOne DEF ThreadStoreTail, Types
  <2> QED
    BY <2>1 DEF Resting
<1>19. CASE RxMove
  <2>1. rxDone' = 1 /\ rx' = rx /\ rx # <<>> /\ UNCHANGED <<stage, txVars, main>>
    BY <1>19 DEF RxMove
  <2>2. rxDone' <= Len(rx)
    BY <2>1, TypesOne, HeadTail DEF Types
  <2> QED
    BY <1>inv, <2>1, <2>2, RxKeep, TxKeep, MainKeep
<1>20. CASE TxMove
  <2>1. txDone' = 1 /\ tx' = tx /\ tx # <<>> /\ UNCHANGED <<stage, rxVars, main>>
    BY <1>20 DEF TxMove
  <2>2. txDone' <= Len(tx)
    BY <2>1, TypesOne, HeadTail DEF Types
  <2> QED
    BY <1>inv, <2>1, <2>2, RxKeep, TxKeep, MainKeep
<1> QED
  BY <1>1, <1>2, <1>3, <1>4, <1>5, <1>6, <1>7, <1>8, <1>9, <1>10, <1>11, <1>12, <1>13,
     <1>14, <1>15, <1>16, <1>17, <1>18, <1>19, <1>20
  DEF Next, Host, TcIrq, DmaIrq, Thread, Engine

-----------------------------------------------------------------------------
(* The submission queue                                                    *)

\* Going back from the host's tail.
LEMMA BackFacts ==
  ASSUME TypeOK
  PROVE  /\ \A s \in SqSlot : Back(s) \in SqSlot /\ (Back(s) = 0 <=> s = hostTail)
         /\ \A s, t \in SqSlot : Back(s) = Back(t) => s = t
         /\ \A s \in SqSlot : Back(s) # 0 => Back(SqNext(s)) = Back(s) - 1
         /\ \A k \in SqSlot : \E s \in SqSlot : Back(s) = k
         /\ SqSize \in Nat \ {0, 1} /\ hostTail \in SqSlot
<1>types. hostTail \in SqSlot /\ SqSize \in Nat \ {0, 1}
  BY SizesAssumption, TypesOne DEF Types, SqSlot
<1>1. \A s \in SqSlot : Back(s) \in SqSlot /\ (Back(s) = 0 <=> s = hostTail)
  BY <1>types DEF Back, SqSlot
<1>2. \A s, t \in SqSlot : Back(s) = Back(t) => s = t
  BY <1>types DEF Back, SqSlot
<1>3. \A s \in SqSlot : Back(s) # 0 => Back(SqNext(s)) = Back(s) - 1
  BY <1>types, NextSlots DEF Back, SqSlot
<1>4. ASSUME NEW k \in SqSlot PROVE \E s \in SqSlot : Back(s) = k
  <2>1. CASE k <= hostTail
    <3>1. hostTail - k \in SqSlot /\ Back(hostTail - k) = k
      BY <1>types, <2>1 DEF Back, SqSlot
    <3> QED
      BY <3>1
  <2>2. CASE k > hostTail
    <3>1. (hostTail - k) + SqSize \in SqSlot /\ Back((hostTail - k) + SqSize) = k
      BY <1>types, <2>2 DEF Back, SqSlot
    <3> QED
      BY <3>1
  <2> QED
    BY <1>types, <2>1, <2>2 DEF SqSlot
<1> QED
  BY <1>types, <1>1, <1>2, <1>3, <1>4

\* When the host's tail goes on, all entries are one further back.
LEMMA BackAfter ==
  ASSUME TypeOK, hostTail' = SqNext(hostTail)
  PROVE  \A s \in SqSlot : Back(s)' = IF Back(s) = SqSize - 1 THEN 0 ELSE Back(s) + 1
<1>types. hostTail \in SqSlot /\ SqSize \in Nat \ {0, 1}
  BY SizesAssumption, TypesOne DEF Types, SqSlot
<1>1. hostTail' = IF hostTail = SqSize - 1 THEN 0 ELSE hostTail + 1
  BY <1>types, NextSlots DEF SqSlot
<1> QED
  BY <1>types, <1>1 DEF Back, SqSlot

\* The host waits for as many commands as there are in the window.
LEMMA WindowCount ==
  ASSUME TypeOK, HostInv, NEW w \in SqSlot, Window(w)
  PROVE  w <= Cardinality(outstanding) /\ Cardinality(outstanding) \in Nat
<1>1. IsFiniteSet(outstanding) /\ Cardinality(outstanding) \in Nat
  BY FS_CardinalityType DEF HostInv
<1>2. w \in Nat /\ 1..w \subseteq SqSlot
  BY SizesAssumption DEF SqSlot
<1>3. IsFiniteSet(1..w) /\ Cardinality(1..w) = w
  BY <1>2, FS_Interval
<1> DEFINE at(k) == CHOOSE s \in SqSlot : Back(s) = k
           f == [k \in 1..w |-> sqMem[at(k)]]
<1>4. \A k \in 1..w : at(k) \in SqSlot /\ Back(at(k)) = k
  BY <1>2, BackFacts
<1> HIDE DEF at
<1>5. f \in [1..w -> outstanding]
  BY <1>4 DEF Window
<1>6. ASSUME Cardinality(outstanding) < w PROVE FALSE
  <2>1. \E x, y \in 1..w : x # y /\ f[x] = f[y]
    <3> HIDE DEF f
    <3> QED
      BY <1>1, <1>3, <1>5, <1>6, FS_PigeonHole
  <2>2. PICK x \in 1..w, y \in 1..w : x # y /\ sqMem[at(x)] = sqMem[at(y)]
    BY <2>1
  <2>3. at(x) = at(y)
    BY <1>4, <2>2 DEF Window
  <2> QED
    BY <1>4, <2>2, <2>3
<1> QED
  BY <1>1, <1>2, <1>6

\* The handler stays behind the doorbell, and the doorbell behind the host.
LEMMA SqStep ==
  ASSUME TypeOK, SqInv, Next, hostTail' # hostTail => Back(sq_head) < SqSize - 1
  PROVE  SqInv'
<1> USE DEF hostVars, regs, sqVars, cqVars, slab, rxVars, txVars, main, ghosts
<1>types. /\ hostTail \in SqSlot /\ tailDb \in SqSlot /\ sq_head \in SqSlot /\ sq_tail \in SqSlot
          /\ isr \in {"idle", "loop", "tail"}
  BY TypesOne DEF Types, SqSlot
<1>inv. /\ Back(tailDb) <= Back(sq_tail) /\ Back(sq_tail) <= Back(sq_head)
        /\ isr = "tail" => sq_head # sq_tail
        /\ sq_head # sq_tail => isr = "tail"
  BY DEF SqInv
<1>keep. ASSUME UNCHANGED <<hostTail, tailDb, sq_head, sq_tail, isr>> PROVE SqInv'
  BY <1>keep DEF SqInv, Back
<1>1. ASSUME NEW c \in Cmd, Submit(c) PROVE SqInv'
  <2>1. hostTail' = SqNext(hostTail) /\ UNCHANGED <<tailDb, sq_head, sq_tail, isr>>
    BY <1>1 DEF Submit
  <2>2. Back(sq_head) < SqSize - 1
    <3>1. hostTail' # hostTail
      BY <1>types, <2>1, NextSlots, SizesAssumption DEF SqSlot
    <3> QED
      BY <3>1
  <2>3. \A s \in {tailDb, sq_tail, sq_head} : Back(s)' = Back(s) + 1 /\ Back(s) \in SqSlot
    BY <1>types, <1>inv, <2>1, <2>2, BackFacts, BackAfter DEF SqSlot
  <2>4. /\ Back(tailDb)' <= Back(sq_tail)' /\ Back(sq_tail)' <= Back(sq_head)'
    BY <1>inv, <2>1, <2>3 DEF SqSlot, Back
  <2> QED
    BY <1>inv, <2>1, <2>4 DEF SqInv
<1>2. CASE RingTail
  <2>1. tailDb' = hostTail /\ UNCHANGED <<hostTail, sq_head, sq_tail, isr>>
    BY <1>2 DEF RingTail
  <2>2. Back(tailDb)' = 0 /\ Back(sq_tail)' = Back(sq_tail) /\ Back(sq_head)' = Back(sq_head)
        /\ Back(sq_tail) \in SqSlot
    BY <1>types, <2>1, BackFacts DEF Back
  <2> QED
    BY <1>inv, <2>1, <2>2, SizesAssumption DEF SqInv, SqSlot
<1>3. CASE Consume
  BY <1>3, <1>keep DEF Consume
<1>4. CASE RingHead
  BY <1>4, <1>keep DEF RingHead
<1>5. CASE IrqExit
  BY <1>5, <1>inv DEF IrqExit, SqInv, Back
<1>6. CASE TailRead
  <2>1. /\ sq_tail' = tailDb /\ UNCHANGED <<hostTail, tailDb, sq_head>>
        /\ isr' = IF tailDb = sq_head THEN "loop" ELSE "tail"
    BY <1>6 DEF TailRead
  <2>2. /\ Back(tailDb)' = Back(tailDb) /\ Back(sq_tail)' = Back(tailDb)
        /\ Back(sq_head)' = Back(sq_head) /\ Back(tailDb) \in SqSlot
        /\ Back(sq_head) \in SqSlot /\ Back(sq_tail) \in SqSlot
    BY <1>types, <2>1, BackFacts DEF Back
  <2>3. Back(tailDb)' <= Back(sq_tail)' /\ Back(sq_tail)' <= Back(sq_head)'
    BY <1>inv, <2>2, SizesAssumption DEF SqSlot
  <2> QED
    BY <2>1, <2>3 DEF SqInv
<1>7. CASE TailAdvance
  <2>1. /\ sq_head' = SqNext(sq_head) /\ UNCHANGED <<hostTail, tailDb, sq_tail>>
        /\ isr = "tail" /\ isr' = IF SqNext(sq_head) = sq_tail THEN "loop" ELSE "tail"
    BY <1>7 DEF TailAdvance
  <2>2. /\ Back(sq_head) \in SqSlot /\ Back(sq_tail) \in SqSlot /\ Back(tailDb) \in SqSlot
        /\ Back(sq_head) # Back(sq_tail)
    BY <1>types, <1>inv, <2>1, BackFacts
  <2>3. Back(SqNext(sq_head)) = Back(sq_head) - 1
    BY <1>types, <1>inv, <2>2, BackFacts, SizesAssumption DEF SqSlot
  <2>4. /\ Back(tailDb)' = Back(tailDb) /\ Back(sq_tail)' = Back(sq_tail)
        /\ Back(sq_head)' = Back(SqNext(sq_head))
    BY <2>1 DEF Back
  <2>5. Back(tailDb)' <= Back(sq_tail)' /\ Back(sq_tail)' <= Back(sq_head)'
    BY <1>inv, <2>2, <2>3, <2>4, SizesAssumption DEF SqSlot
  <2> QED
    BY <2>1, <2>5 DEF SqInv
<1>8. CASE HeadHandler
  BY <1>8, <1>inv DEF HeadHandler, Serve, SqInv, Back
<1>9. CASE RxCallback
  BY <1>9, <1>keep DEF RxCallback
<1>10. ASSUME NEW b \in Block, DataCallback(b) \/ ApuReply(b) PROVE SqInv'
  BY <1>10, <1>keep DEF DataCallback, ApuReply
<1>11. CASE TxCallback
  BY <1>11, <1>keep DEF TxCallback
<1>12. CASE Thread
  BY <1>12, <1>keep DEF Thread, ThreadReadTail, ThreadFlip, ThreadStoreTail, ThreadStamp
<1>13. CASE Engine
  BY <1>13, <1>keep DEF Engine, RxMove, TxMove
<1>14. TailFetch \/ TailDrop => TailAdvance
  BY DEF TailFetch, TailDrop
<1> QED
  BY <1>1, <1>2, <1>3, <1>4, <1>5, <1>6, <1>7, <1>8, <1>9, <1>10, <1>11, <1>12, <1>13, <1>14
  DEF Next, Host, TcIrq, DmaIrq

-----------------------------------------------------------------------------
(* The completion queue                                                    *)

LEMMA RingAssumptions == R!SizeAssumption /\ R!DataAssumption /\ R!IrqAssumption
BY SizesAssumption, CmdAssumption DEF R!SizeAssumption, R!DataAssumption, R!IrqAssumption

Flights == [slot : 0..(CqSize - 1), data : Cmd \cup {NoCmd}, p : {0, 1}]

\* The entries in flight of a channel q whose first d have arrived.
LEMMA FlyIs ==
  ASSUME NEW q \in Seq(Entries), NEW d \in {0, 1}, d <= Len(q)
  PROVE  /\ FlyOf(q, d) \in Seq(Flights) /\ Len(FlyOf(q, d)) = Len(q) - d /\ Len(q) \in Nat
         /\ \A i \in 1..(Len(q) - d) :
              /\ i + d \in 1..Len(q) /\ q[i + d] \in Entries
              /\ FlyOf(q, d)[i] = [slot |-> q[i + d].slot, data |-> q[i + d].data, p |-> q[i + d].p]
<1>1. Len(q) \in Nat /\ Len(q) - d \in Nat
  BY LenProperties
<1>2. \A i \in 1..(Len(q) - d) : i + d \in 1..Len(q)
  BY <1>1
<1>3. \A i \in 1..(Len(q) - d) : q[i + d] \in Entries
  BY <1>2, ElementOfSeq
<1>4. \A i \in 1..(Len(q) - d) : [slot |-> q[i + d].slot, data |-> q[i + d].data, p |-> q[i + d].p] \in Flights
  BY <1>3 DEF Entries, Flights
<1>5. FlyOf(q, d) \in [1..(Len(q) - d) -> Flights]
  BY <1>4 DEF FlyOf
<1>6. FlyOf(q, d) \in Seq(Flights)
  BY <1>1, <1>5, SeqDef
<1>7. Len(FlyOf(q, d)) = Len(q) - d
  <2>1. DOMAIN FlyOf(q, d) = 1..(Len(q) - d) /\ DOMAIN FlyOf(q, d) = 1..Len(FlyOf(q, d))
        /\ Len(FlyOf(q, d)) \in Nat
    BY <1>5, <1>6, LenProperties
  <2> QED
    BY <1>1, <2>1
<1> QED
  BY <1>1, <1>2, <1>3, <1>6, <1>7 DEF FlyOf

\* One more entry in flight.
LEMMA FlyAppend ==
  ASSUME NEW q \in Seq(Entries), NEW d \in {0, 1}, d <= Len(q), NEW e \in Entries
  PROVE  FlyOf(Append(q, e), d) = Append(FlyOf(q, d), [slot |-> e.slot, data |-> e.data, p |-> e.p])
<1> DEFINE f == [slot |-> e.slot, data |-> e.data, p |-> e.p]
           q1 == Append(q, e)
<1>1. f \in Flights
  BY DEF Flights, Entries
<1>2. /\ q1 \in Seq(Entries) /\ Len(q1) = Len(q) + 1 /\ Len(q) \in Nat
      /\ \A j \in 1..Len(q) : q1[j] = q[j]
      /\ q1[Len(q) + 1] = e
  BY Appended
<1>3. d <= Len(q1)
  BY <1>2
<1> HIDE DEF q1
<1>4. /\ FlyOf(q, d) \in Seq(Flights) /\ Len(FlyOf(q, d)) = Len(q) - d
      /\ \A i \in 1..(Len(q) - d) :
           /\ i + d \in 1..Len(q)
           /\ FlyOf(q, d)[i] = [slot |-> q[i + d].slot, data |-> q[i + d].data, p |-> q[i + d].p]
  BY FlyIs
<1>5. /\ FlyOf(q1, d) \in Seq(Flights) /\ Len(FlyOf(q1, d)) = Len(q1) - d
      /\ \A i \in 1..(Len(q1) - d) :
           FlyOf(q1, d)[i] = [slot |-> q1[i + d].slot, data |-> q1[i + d].data, p |-> q1[i + d].p]
  BY <1>2, <1>3, FlyIs
<1>6. /\ Append(FlyOf(q, d), f) \in Seq(Flights) /\ Len(Append(FlyOf(q, d), f)) = Len(q) - d + 1
      /\ \A j \in 1..(Len(q) - d) : Append(FlyOf(q, d), f)[j] = FlyOf(q, d)[j]
      /\ Append(FlyOf(q, d), f)[Len(q) - d + 1] = f
  <2> HIDE DEF f
  <2> QED
    BY <1>1, <1>4, Appended
<1>7. ASSUME NEW i \in 1..(Len(q1) - d) PROVE FlyOf(q1, d)[i] = Append(FlyOf(q, d), f)[i]
  <2>1. CASE i \in 1..(Len(q) - d)
    <3>1. i + d \in 1..Len(q) /\ q1[i + d] = q[i + d]
      BY <1>2, <1>4, <2>1
    <3> QED
      BY <1>4, <1>5, <1>6, <1>7, <2>1, <3>1
  <2>2. CASE i = Len(q) - d + 1
    <3>1. i + d = Len(q) + 1
      BY <1>2, <2>2
    <3> QED
      BY <1>2, <1>5, <1>6, <1>7, <2>2, <3>1
  <2>3. i \in 1..(Len(q) - d) \/ i = Len(q) - d + 1
    <3>1. \A n \in Nat, m \in Nat : m <= n /\ i \in 1..(n + 1 - m) => i \in 1..(n - m) \/ i = n - m + 1
      OBVIOUS
    <3> QED
      BY <1>2, <1>7, <3>1
  <2> QED
    BY <2>1, <2>2, <2>3
<1>8. Len(FlyOf(q1, d)) = Len(Append(FlyOf(q, d), f))
  BY <1>2, <1>5, <1>6
<1> HIDE DEF f
<1>9. FlyOf(q1, d) = Append(FlyOf(q, d), f)
  BY <1>5, <1>6, <1>7, <1>8, SeqEqual
<1> QED
  BY <1>9 DEF q1, f

\* The first entry arrives, and leaves the channel later.
LEMMA FlyTail ==
  ASSUME NEW q \in Seq(Entries), q # <<>>
  PROVE  /\ FlyOf(q, 0) # <<>> /\ FlyOf(q, 1) = Tail(FlyOf(q, 0)) /\ FlyOf(q, 1) = FlyOf(Tail(q), 0)
         /\ Head(FlyOf(q, 0)) = [slot |-> Head(q).slot, data |-> Head(q).data, p |-> Head(q).p]
<1> DEFINE n == Len(q)
           rest == Tail(q)
<1>1. /\ n \in Nat \ {0} /\ Head(q) = q[1]
      /\ rest \in Seq(Entries) /\ Len(rest) = n - 1
      /\ \A j \in 1..(n - 1) : rest[j] = q[j + 1]
  BY HeadTail
<1> HIDE DEF rest
<1>2. /\ FlyOf(q, 0) \in Seq(Flights) /\ Len(FlyOf(q, 0)) = n
      /\ \A i \in 1..n : FlyOf(q, 0)[i] = [slot |-> q[i].slot, data |-> q[i].data, p |-> q[i].p]
  <2>1. \A i \in 1..n : i + 0 = i
    BY <1>1
  <2> QED
    BY <1>1, <2>1, FlyIs
<1>3. /\ FlyOf(q, 1) \in Seq(Flights) /\ Len(FlyOf(q, 1)) = n - 1
      /\ \A i \in 1..(n - 1) :
           FlyOf(q, 1)[i] = [slot |-> q[i + 1].slot, data |-> q[i + 1].data, p |-> q[i + 1].p]
  BY <1>1, FlyIs
<1>4. /\ FlyOf(rest, 0) \in Seq(Flights) /\ Len(FlyOf(rest, 0)) = n - 1
      /\ \A i \in 1..(n - 1) :
           FlyOf(rest, 0)[i] = [slot |-> rest[i].slot, data |-> rest[i].data, p |-> rest[i].p]
  <2>1. (n - 1) - 0 = n - 1 /\ \A i \in 1..(n - 1) : i + 0 = i
    BY <1>1
  <2> QED
    BY <1>1, <2>1, FlyIs
<1>5. FlyOf(q, 0) # <<>>
  BY <1>1, <1>2
<1>6. /\ Tail(FlyOf(q, 0)) \in Seq(Flights) /\ Len(Tail(FlyOf(q, 0))) = n - 1
      /\ \A i \in 1..(n - 1) : Tail(FlyOf(q, 0))[i] = FlyOf(q, 0)[i + 1]
      /\ Head(FlyOf(q, 0)) = FlyOf(q, 0)[1]
  BY <1>2, <1>5, HeadTail
<1>7. FlyOf(q, 1) = Tail(FlyOf(q, 0))
  <2>1. \A i \in 1..(n - 1) : FlyOf(q, 1)[i] = Tail(FlyOf(q, 0))[i]
    <3>1. \A i \in 1..(n - 1) : i + 1 \in 1..n
      BY <1>1
    <3> QED
      BY <1>2, <1>3, <1>6, <3>1
  <2> QED
    BY <2>1, <1>3, <1>6, SeqEqual
<1>8. FlyOf(q, 1) = FlyOf(rest, 0)
  <2>1. \A i \in 1..(n - 1) : FlyOf(q, 1)[i] = FlyOf(rest, 0)[i]
    BY <1>1, <1>3, <1>4
  <2> QED
    BY <2>1, <1>3, <1>4, SeqEqual
<1>9. Head(FlyOf(q, 0)) = [slot |-> Head(q).slot, data |-> Head(q).data, p |-> Head(q).p]
  <2>1. 1 \in 1..n
    BY <1>1
  <2> QED
    BY <1>1, <1>2, <1>6, <2>1
<1> QED
  BY <1>5, <1>7, <1>8, <1>9 DEF rest

\* The types of the ring, from its invariant.
LEMMA RingTypes ==
  ASSUME R!IInv
  PROVE  /\ TailBefore \in 0..(CqSize - 1) /\ PhaseBefore \in {0, 1}
         /\ cq_head \in 0..(CqSize - 1) /\ hostHead \in 0..(CqSize - 1) /\ headDb \in 0..(CqSize - 1)
         /\ hostPhase \in {0, 1} /\ owed \in Seq(Cmd) /\ Len(owed) \in Nat
         /\ TailBefore = R!SlotFrom(hostHead, Len(owed))
         /\ R!Dist(cq_head, hostHead) + Len(owed) < CqSize
         /\ Len(Fly) <= Len(owed)
BY DEF R!IInv, R!TypeOK, R!TailAhead, R!SlotAt, R!HeadsInOrder, R!InflightOwed, R!Slot, R!Phase

\* A step that leaves the ring alone.
LEMMA RingKeep ==
  ASSUME R!IInv, UNCHANGED <<cq_head, TailBefore, PhaseBefore, Fly, cqMem, hostHead, hostPhase,
                             headDb, owed>>
  PROVE  R!IInv'
<1>1. UNCHANGED R!vars
  BY DEF R!vars
<1> QED
  BY <1>1, RingAssumptions, R!Inductive

\* nvme_cmd_return with a slot, when it takes effect.
LEMMA RingPost ==
  ASSUME TypeOK, TxInv, R!IInv, NEW b \in Block, NEW d \in Cmd, cq_head # CqNext(TailBefore),
         TailBefore' = CqNext(TailBefore), PhaseBefore' = PhaseAt(TailBefore, PhaseBefore),
         tx' = Append(tx, [block |-> b, slot |-> TailBefore, data |-> d,
                           p |-> PhaseAt(TailBefore, PhaseBefore)]),
         owed' = Append(owed, d),
         UNCHANGED <<cq_head, cqMem, hostHead, hostPhase, headDb, txDone>>
  PROVE  R!IInv'
<1> DEFINE e == [block |-> b, slot |-> TailBefore, data |-> d, p |-> PhaseAt(TailBefore, PhaseBefore)]
<1>1. e \in Entries
  BY RingTypes DEF Entries, PhaseAt
<1>2. tx \in Seq(Entries) /\ txDone \in {0, 1} /\ txDone <= Len(tx)
  BY TypesOne DEF Types, TxInv
<1>3. /\ e.slot = TailBefore /\ e.data = d /\ e.p = PhaseAt(TailBefore, PhaseBefore)
      /\ tx' = Append(tx, e)
  OBVIOUS
<1> HIDE DEF e
<1>4. Fly' = Append(Fly, [slot |-> e.slot, data |-> e.data, p |-> e.p])
  BY <1>1, <1>2, <1>3, FlyAppend DEF Fly
<1>5. Fly' = Append(Fly, [slot |-> TailBefore, data |-> d, p |-> PhaseAt(TailBefore, PhaseBefore)])
  BY <1>3, <1>4
<1>6. R!Post(d)
  BY <1>5 DEF R!Post, R!Full, R!NextSlot, R!PhaseAt, R!host, CqNext, PhaseAt
<1>7. R!Next
  BY <1>6 DEF R!Next
<1> QED
  BY <1>7, RingAssumptions, R!Inductive

\* An entry arrives.
LEMMA RingWrite ==
  ASSUME TypeOK, TxInv, R!IInv, TxMove, UNCHANGED <<TailBefore, PhaseBefore>>
  PROVE  R!IInv'
<1> USE DEF hostVars, regs, sqVars, cqVars, slab, rxVars, txVars, main, ghosts
<1>1. tx \in Seq(Entries) /\ tx # <<>> /\ txDone = 0 /\ txDone' = 1 /\ tx' = tx
  BY TypesOne DEF Types, TxMove
<1>2. /\ Fly # <<>> /\ Fly' = Tail(Fly)
      /\ Head(Fly) = [slot |-> Head(tx).slot, data |-> Head(tx).data, p |-> Head(tx).p]
  BY <1>1, FlyTail DEF Fly
<1>3. /\ Head(Fly).slot = Head(tx).slot /\ Head(Fly).data = Head(tx).data /\ Head(Fly).p = Head(tx).p
  BY <1>2
<1>4. /\ cqMem' = [cqMem EXCEPT ![Head(tx).slot] = [data |-> Head(tx).data, p |-> Head(tx).p]]
      /\ UNCHANGED <<cq_head, hostHead, hostPhase, headDb, owed>>
  BY DEF TxMove
<1>5. R!DmaWrite
  BY <1>2, <1>3, <1>4 DEF R!DmaWrite, R!ctrl, R!host
<1>6. R!Next
  BY <1>5 DEF R!Next
<1> QED
  BY <1>6, RingAssumptions, R!Inductive

\* The host consumes the oldest completion.
LEMMA RingConsume ==
  ASSUME R!IInv, Consume
  PROVE  /\ R!IInv' /\ owed # <<>> /\ cqMem[hostHead].data = Head(owed) /\ owed' = Tail(owed)
         /\ R!Dist(cq_head, hostHead)' = R!Dist(cq_head, hostHead) + 1
<1> USE DEF hostVars, regs, sqVars, cqVars, slab, rxVars, txVars, main, ghosts
<1>1. UNCHANGED <<cq_head, TailBefore, PhaseBefore, Fly, cqMem, headDb>>
  BY DEF Consume, TailBefore, PhaseBefore, Fly
<1>2. R!Visible /\ R!Consume
  BY <1>1 DEF Consume, R!Consume, R!Visible, R!ctrl, R!NextSlot, CqNext
<1>3. R!Next
  BY <1>2 DEF R!Next
<1>4. R!IInv'
  BY <1>3, RingAssumptions, R!Inductive
<1>5. owed # <<>> /\ cqMem[hostHead] = [data |-> owed[1], p |-> hostPhase]
  BY <1>2, RingAssumptions, R!VisibleLanded
<1>6. cqMem[hostHead].data = Head(owed) /\ owed' = Tail(owed) /\ Len(owed) >= 1
  BY <1>5, RingTypes, HeadTail DEF Consume
<1>7. R!Dist(cq_head, hostHead)' = R!Dist(cq_head, hostHead) + 1
  <2>1. hostHead' = IF hostHead = CqSize - 1 THEN 0 ELSE hostHead + 1
    BY RingTypes, NextSlots DEF Consume
  <2>2. R!Dist(cq_head, hostHead) <= CqSize - 2 /\ cq_head' = cq_head
    BY <1>1, <1>6, RingTypes, SizesAssumption DEF R!Dist
  <2>3. cq_head \in 0..(CqSize - 1) /\ hostHead \in 0..(CqSize - 1) /\ CqSize \in Nat \ {0, 1}
    BY RingTypes, SizesAssumption
  <2>4. CASE hostHead = CqSize - 1
    BY <2>1, <2>2, <2>3, <2>4 DEF R!Dist
  <2>5. CASE hostHead # CqSize - 1
    BY <2>1, <2>2, <2>3, <2>5 DEF R!Dist
  <2> QED
    BY <2>4, <2>5
<1> QED
  BY <1>4, <1>5, <1>6, <1>7

\* The host writes the doorbell, or the RPU reads it.
LEMMA RingHeads ==
  ASSUME R!IInv, HeadHandler \/ RingHead
  PROVE  R!IInv' /\ R!Dist(cq_head, hostHead)' <= R!Dist(cq_head, hostHead)
<1> USE DEF hostVars, regs, sqVars, cqVars, slab, rxVars, txVars, main, ghosts
<1>1. UNCHANGED <<TailBefore, PhaseBefore, Fly, cqMem, hostHead, hostPhase, owed>>
  BY DEF HeadHandler, RingHead, TailBefore, PhaseBefore, Fly
<1>2. \/ cq_head' = headDb /\ headDb' = headDb
      \/ cq_head' = cq_head /\ headDb' = hostHead
  BY DEF HeadHandler, RingHead
<1>3. R!TailAhead' /\ R!HeadsInOrder' /\ R!InflightOwed' /\ R!RingOwed'
  BY <1>1, <1>2, RingAssumptions, R!HeadsMove
<1>4. R!TypeOK'
  BY <1>1, <1>2 DEF R!IInv, R!TypeOK
<1>5. R!Dist(cq_head, headDb) + R!Dist(headDb, hostHead) = R!Dist(cq_head, hostHead)
  BY DEF R!IInv, R!HeadsInOrder
<1>6. R!Dist(cq_head, hostHead)' <= R!Dist(cq_head, hostHead)
  <2>1. /\ cq_head \in 0..(CqSize - 1) /\ hostHead \in 0..(CqSize - 1) /\ headDb \in 0..(CqSize - 1)
        /\ CqSize \in Nat \ {0, 1}
    BY RingTypes, SizesAssumption
  <2>2. R!Dist(cq_head, headDb) >= 0 /\ R!Dist(headDb, hostHead) \in Int /\ R!Dist(cq_head, hostHead) \in Int
    BY <2>1 DEF R!Dist
  <2>3. CASE cq_head' = headDb /\ headDb' = headDb
    <3>1. R!Dist(cq_head, hostHead)' = R!Dist(headDb, hostHead)
      BY <1>1, <2>3 DEF R!Dist
    <3>2. R!Dist(cq_head, headDb) \in Nat
      BY <2>1 DEF R!Dist
    <3> QED
      BY <1>5, <2>2, <3>1, <3>2
  <2>4. CASE cq_head' = cq_head
    <3>1. R!Dist(cq_head, hostHead)' = R!Dist(cq_head, hostHead)
      BY <1>1, <2>4 DEF R!Dist
    <3> QED
      BY <2>2, <3>1
  <2> QED
    BY <1>2, <2>3, <2>4
<1> QED
  BY <1>3, <1>4, <1>6 DEF R!IInv

\* The ring is full as the RPU sees it when all usable slots are unread or
\* unacknowledged.
LEMMA RingRoom ==
  ASSUME R!IInv
  PROVE  cq_head = CqNext(TailBefore) <=> Len(owed) + R!Dist(cq_head, hostHead) = CqSize - 1
<1>1. /\ cq_head \in R!Slot /\ hostHead \in R!Slot /\ Len(owed) \in Nat
      /\ R!Dist(cq_head, hostHead) + Len(owed) < CqSize
      /\ TailBefore = R!SlotFrom(hostHead, Len(owed))
  BY RingTypes DEF R!Slot
<1>2. cq_head = R!NextSlot(R!SlotFrom(hostHead, Len(owed)))
        <=> Len(owed) + R!Dist(cq_head, hostHead) = CqSize - 1
  BY <1>1, RingAssumptions, R!RoomLeft
<1> QED
  BY <1>1, <1>2 DEF R!NextSlot, CqNext

-----------------------------------------------------------------------------
(* One context                                                             *)

\* What the parts of the invariant say of a command that was read.
LEMMA ReadIs ==
  ASSUME TypeOK, HostInv, NEW w, Apart(w), NEW b \in Block, HasRead(b)
  PROVE  /\ sq_buf[b] \in outstanding /\ sq_buf[b] \in DOMAIN scene.kind /\ sq_buf[b] \in Cmd
         /\ scene.kind[sq_buf[b]] \in Where
<1>1. sq_buf[b] \in outstanding /\ sq_buf[b] \in DOMAIN scene.kind
  BY DEF Apart, HostInv
<1>2. scene \in Scene
  BY TypesOne, HostAssumption DEF Types
<1>3. \E S \in SUBSET Cmd : scene.kind \in [S -> Where]
  BY <1>2 DEF Scene
<1> QED
  BY <1>1, <1>3

\* The callback of a fetch finds the command read.
LEMMA CallbackReads ==
  ASSUME TypeOK, RxInv, RxCallback
  PROVE  /\ rx # <<>> /\ Head(rx) = rx[1] /\ rx[1].block \in Block /\ HasRead(rx[1].block)
         /\ stage[rx[1].block] = "fetch" /\ Len(rx) \in Nat \ {0}
<1>1. rxDone = 1 /\ rx \in Seq(Fetches) /\ rxDone <= Len(rx)
  BY TypesOne DEF Types, RxInv, RxCallback
<1>2. rx # <<>> /\ Len(rx) \in Nat \ {0} /\ Head(rx) = rx[1]
  BY <1>1, HeadTail
<1>3. rx[1].block \in Block /\ stage[rx[1].block] = "fetch"
  BY <1>2, Elements DEF RxInv
<1> QED
  BY <1>1, <1>2, <1>3 DEF HasRead

\* The context in which commands are completed stays the same.
LEMMA ContextStep ==
  ASSUME TypeOK, BlocksInv, OneContext, HostInv, ContextInv, NEW w, Apart(w), Next
  PROVE  ContextInv'
<1> USE DEF hostVars, regs, sqVars, cqVars, slab, rxVars, txVars, main, ghosts
<1>types. stage \in [Block -> Stages] /\ replies \in Seq(Block)
  BY TypesOne DEF Types
<1>scene. CompletedAt("apu")' = CompletedAt("apu")
  BY DEF Next, CompletedAt
<1>keep. ASSUME UNCHANGED <<stage, thread>> PROVE ContextInv'
  BY <1>keep, <1>scene DEF ContextInv, Resting
\* The stage of one block changes.
<1>stage. ASSUME NEW b \in Block, \A x \in Block \ {b} : stage'[x] = stage[x],
                 CompletedAt("apu") = {} => stage'[b] \notin {"apu", "replied"} /\ thread' = Resting,
                 CompletedAt("apu") # {} => stage'[b] # "data"
          PROVE  ContextInv'
  BY <1>stage, <1>scene DEF ContextInv, Resting
<1>1. ASSUME NEW c \in Cmd, Submit(c) PROVE ContextInv'
  BY <1>1, <1>keep DEF Submit
<1>2. CASE RingTail \/ Consume \/ RingHead
  BY <1>2, <1>keep DEF RingTail, Consume, RingHead
<1>3. CASE TailRead \/ TailDrop \/ HeadHandler \/ IrqExit
  BY <1>3, <1>keep DEF TailRead, TailDrop, TailAdvance, HeadHandler, IrqExit
<1>4. CASE TailFetch
  <2>1. PICK b \in Block : stage' = [stage EXCEPT ![b] = "fetch"] /\ thread' = thread
    <3>1. (CHOOSE b \in Free : TRUE) \in Block
      BY <1>4, HostAssumption, TypesOne DEF TailFetch, Free, Types, Scene
    <3> QED
      BY <1>4, <3>1 DEF TailFetch, TailAdvance
  <2>2. stage'[b] = "fetch" /\ \A x \in Block \ {b} : stage'[x] = stage[x]
    BY <1>types, <2>1
  <2> QED
    BY <1>stage, <2>1, <2>2 DEF ContextInv
<1>5. CASE RxCallback
  <2> DEFINE b == rx[1].block
  <2>1. b \in Block /\ HasRead(b) /\ Head(rx).block = b /\ stage[b] = "fetch"
    BY <1>5, CallbackReads DEF BlocksInv
  <2>2. sq_buf[b] \in DOMAIN scene.kind
    BY <2>1, ReadIs
  <2>3. /\ thread' = thread /\ txDone' = txDone
        /\ \/ Return(b)
           \/ /\ sq_buf[b] \in CompletedAt("data") \cup CompletedAt("apu")
              /\ stage' = [stage EXCEPT ![b] = scene.kind[sq_buf[b]]]
    BY <1>5, <2>1 DEF RxCallback
  <2> HIDE DEF b
  <2>4. CASE Return(b)
    BY <1>stage, <2>1, <2>3, <2>4, ReturnBlocks DEF ContextInv, BlocksInv
  <2>5. CASE /\ sq_buf[b] \in CompletedAt("data") \cup CompletedAt("apu")
             /\ stage' = [stage EXCEPT ![b] = scene.kind[sq_buf[b]]]
    <3>1. stage'[b] = scene.kind[sq_buf[b]] /\ \A x \in Block \ {b} : stage'[x] = stage[x]
      BY <1>types, <2>1, <2>5
    <3>2. CASE CompletedAt("apu") = {}
      <4>1. scene.kind[sq_buf[b]] = "data"
        BY <2>5, <3>2 DEF CompletedAt
      <4> QED
        BY <1>stage, <2>1, <2>3, <3>1, <3>2, <4>1 DEF ContextInv
    <3>3. CASE CompletedAt("apu") # {}
      <4>1. scene.kind[sq_buf[b]] = "apu"
        BY <2>2, <3>3 DEF CompletedAt, OneContext
      <4> QED
        BY <1>stage, <2>1, <3>1, <3>3, <4>1
    <3> QED
      BY <3>2, <3>3
  <2> QED
    BY <2>3, <2>4, <2>5
<1>6. ASSUME NEW b \in Block, DataCallback(b) PROVE ContextInv'
  <2>1. stage[b] = "data" /\ Return(b) /\ thread' = thread /\ txDone' = txDone
    BY <1>6 DEF DataCallback
  <2> QED
    BY <1>stage, <2>1, ReturnBlocks DEF ContextInv, BlocksInv
<1>7. CASE TxCallback
  <2>1. tx # <<>> /\ Head(tx) = tx[1] /\ 1 \in 1..Len(tx)
    BY <1>7, TypesOne, HeadTail DEF Types, TxCallback, BlocksInv, TxInv
  <2>2. tx[1].block \in Block
    BY <2>1, Elements
  <2>3. stage' = [stage EXCEPT ![tx[1].block] = "free"] /\ thread' = thread
    BY <1>7, <2>1 DEF TxCallback
  <2>4. stage'[tx[1].block] = "free" /\ \A x \in Block \ {tx[1].block} : stage'[x] = stage[x]
    BY <1>types, <2>2, <2>3
  <2> QED
    BY <1>stage, <2>2, <2>3, <2>4 DEF ContextInv
<1>8. ASSUME NEW b \in Block, ApuReply(b) PROVE ContextInv'
  <2>1. stage[b] = "apu" /\ stage' = [stage EXCEPT ![b] = "replied"]
    BY <1>8 DEF ApuReply
  <2>2. CompletedAt("apu") # {}
    BY <2>1 DEF ContextInv
  <2>3. stage'[b] = "replied" /\ \A x \in Block \ {b} : stage'[x] = stage[x]
    BY <1>types, <2>1
  <2> QED
    BY <1>stage, <2>2, <2>3
<1>9. CASE Thread
  <2>1. CompletedAt("apu") # {}
    <3> SUFFICES ASSUME CompletedAt("apu") = {} PROVE FALSE
      OBVIOUS
    <3>1. thread.pc = "idle" /\ \A b \in Block : stage[b] # "replied"
      BY DEF ContextInv, Resting
    <3>2. replies # <<>>
      BY <1>9, <3>1 DEF Thread, ThreadReadTail, ThreadFlip, ThreadStoreTail, ThreadStamp
    <3>3. 1 \in 1..Len(replies) /\ replies[1] \in Block
      <4>1. Len(replies) \in Nat \ {0}
        BY <1>types, <3>2, HeadTail
      <4> QED
        BY <1>types, <4>1, ElementOfSeq
    <3> QED
      BY <3>1, <3>3 DEF BlocksInv, MainInv
  <2>2. \/ UNCHANGED stage
        \/ thread.block \in Block /\ \E x \in {"leaked", "posted"} : stage' = [stage EXCEPT ![thread.block] = x]
    <3>1. CASE ThreadReadTail \/ ThreadStoreTail
      BY <3>1 DEF ThreadReadTail, ThreadStoreTail
    <3>2. CASE ThreadFlip \/ ThreadStamp
      <4>1. thread.block \in Block
        BY <3>2 DEF ThreadFlip, ThreadStamp, BlocksInv, MainInv
      <4> QED
        BY <3>2, <4>1 DEF ThreadFlip, ThreadStamp
    <3> QED
      BY <1>9, <3>1, <3>2 DEF Thread
  <2>3. \A x \in Block : stage'[x] # "data"
    BY <1>types, <2>1, <2>2 DEF ContextInv
  <2> QED
    BY <1>scene, <2>1, <2>3 DEF ContextInv
<1>10. CASE Engine
  BY <1>10, <1>keep DEF Engine, RxMove, TxMove
<1> QED
  BY <1>1, <1>2, <1>3, <1>4, <1>5, <1>6, <1>7, <1>8, <1>9, <1>10 DEF Next, Host, TcIrq, DmaIrq

\* nvme_cmd_return in interrupt context, where all commands are completed.
LEMMA ReturnRing ==
  ASSUME TypeOK, TxInv, R!IInv, NEW b \in Block, sq_buf[b] \in Cmd, Return(b),
         thread.pc = "idle", UNCHANGED <<cqMem, hostHead, hostPhase, headDb, txDone, thread>>
  PROVE  R!IInv'
<1> USE DEF cqVars
<1>1. /\ TailBefore = cq_tail /\ PhaseBefore = cq_phase
      /\ TailBefore' = cq_tail' /\ PhaseBefore' = cq_phase'
  BY DEF TailBefore, PhaseBefore
<1>2. CASE ~Full(cq_tail)
  <2>1. /\ cq_phase' = PhaseAt(cq_tail, cq_phase) /\ cq_tail' = CqNext(cq_tail)
        /\ tx' = Append(tx, [block |-> b, slot |-> cq_tail, data |-> sq_buf[b],
                             p |-> PhaseAt(cq_tail, cq_phase)])
        /\ owed' = Append(owed, sq_buf[b]) /\ UNCHANGED cq_head
    BY <1>2 DEF Return
  <2>2. cq_head # CqNext(TailBefore)
    BY <1>1, <1>2 DEF Full
  <2>3. /\ TailBefore' = CqNext(TailBefore) /\ PhaseBefore' = PhaseAt(TailBefore, PhaseBefore)
        /\ tx' = Append(tx, [block |-> b, slot |-> TailBefore, data |-> sq_buf[b],
                             p |-> PhaseAt(TailBefore, PhaseBefore)])
    BY <1>1, <2>1
  <2>4. PICK d \in Cmd : d = sq_buf[b]
    OBVIOUS
  <2> HIDE DEF TailBefore, PhaseBefore
  <2> QED
    BY <2>1, <2>2, <2>3, <2>4, RingPost
<1>3. CASE Full(cq_tail)
  <2>1. UNCHANGED <<cq_head, cq_tail, cq_phase, tx, owed>>
    BY <1>3 DEF Return
  <2>2. UNCHANGED <<TailBefore, PhaseBefore, Fly>>
    BY <1>1, <2>1 DEF Fly
  <2> QED
    BY <2>1, <2>2, RingKeep
<1> QED
  BY <1>2, <1>3

\* The completion queue stays a CompletionRing, and the slot the thread took is kept for it.
LEMMA RingStep ==
  ASSUME TypeOK, BlocksInv, OneContext, HostInv, ContextInv, ThreadInv, R!IInv,
         NEW w, Apart(w), Next
  PROVE  R!IInv' /\ ThreadInv'
<1> USE DEF hostVars, regs, sqVars, cqVars, slab, rxVars, txVars, main, ghosts
<1>types. /\ tx \in Seq(Entries) /\ txDone \in {0, 1} /\ txDone <= Len(tx) /\ TxInv
          /\ cq_tail \in 0..(CqSize - 1) /\ cq_phase \in {0, 1}
          /\ thread \in [pc : {"idle", "flip", "store", "stamp"},
                         block : Block \cup {NoBlock}, tail : 0..(CqSize - 1)]
  BY TypesOne DEF Types, BlocksInv, TxInv
<1>keep. ASSUME UNCHANGED <<cqVars, txVars, thread, cqMem, hostHead, hostPhase, headDb, owed>>
         PROVE  R!IInv' /\ ThreadInv'
  <2>1. UNCHANGED <<TailBefore, PhaseBefore, Fly>>
    BY <1>keep DEF TailBefore, PhaseBefore, Fly
  <2>2. R!IInv'
    BY <1>keep, <2>1, RingKeep
  <2>3. ThreadInv'
    BY <1>keep DEF ThreadInv, R!Dist, CqNext
  <2> QED
    BY <2>2, <2>3
\* Commands are completed in interrupt context.
<1>return. ASSUME NEW b \in Block, HasRead(b), Return(b), CompletedAt("apu") = {},
                  UNCHANGED <<cqMem, hostHead, hostPhase, headDb, txDone, thread>>
           PROVE  R!IInv' /\ ThreadInv'
  <2>1. thread.pc = "idle" /\ thread' = thread
    BY <1>return DEF ContextInv, Resting
  <2>2. sq_buf[b] \in Cmd
    BY <1>return, ReadIs
  <2>3. R!IInv'
    BY <1>types, <1>return, <2>1, <2>2, ReturnRing
  <2>4. ThreadInv'
    BY <2>1 DEF ThreadInv
  <2> QED
    BY <2>3, <2>4
<1>1. ASSUME NEW c \in Cmd, Submit(c) PROVE R!IInv' /\ ThreadInv'
  BY <1>1, <1>keep DEF Submit
<1>2. CASE RingTail
  BY <1>2, <1>keep DEF RingTail
<1>3. CASE Consume
  <2>1. /\ R!IInv' /\ owed # <<>> /\ owed' = Tail(owed)
        /\ R!Dist(cq_head, hostHead)' = R!Dist(cq_head, hostHead) + 1
    BY <1>3, RingConsume
  <2>2. Len(owed') = Len(owed) - 1 /\ Len(owed) \in Nat
    BY <2>1, RingTypes, HeadTail
  <2>3. UNCHANGED <<thread, cq_tail>>
    BY <1>3 DEF Consume
  <2>4. thread.pc \in {"store", "stamp"} => R!Dist(cq_head, hostHead)' + Len(owed') < CqSize - 1
    <3>1. R!Dist(cq_head, hostHead) \in Int
      BY RingTypes, SizesAssumption DEF R!Dist
    <3> QED
      BY <2>1, <2>2, <3>1, SizesAssumption DEF ThreadInv
  <2> QED
    BY <2>1, <2>3, <2>4 DEF ThreadInv, CqNext
<1>4. CASE RingHead \/ HeadHandler
  <2>1. R!IInv' /\ R!Dist(cq_head, hostHead)' <= R!Dist(cq_head, hostHead)
    BY <1>4, RingHeads
  <2>2. UNCHANGED <<thread, cq_tail, owed>>
    BY <1>4 DEF RingHead, HeadHandler
  <2>3. /\ R!Dist(cq_head, hostHead) \in Int /\ R!Dist(cq_head, hostHead)' \in Int
        /\ Len(owed) \in Nat
    <3>1. cq_head' \in Int /\ hostHead' \in Int
      BY <1>4, RingTypes DEF RingHead, HeadHandler
    <3>2. R!Dist(cq_head, hostHead)' \in Int
      BY <3>1, SizesAssumption DEF R!Dist
    <3>3. R!Dist(cq_head, hostHead) \in Int /\ Len(owed) \in Nat
      BY RingTypes, SizesAssumption DEF R!Dist
    <3> QED
      BY <3>2, <3>3
  <2>4. thread.pc \in {"store", "stamp"} => R!Dist(cq_head, hostHead)' + Len(owed') < CqSize - 1
    BY <2>1, <2>2, <2>3, SizesAssumption DEF ThreadInv
  <2> QED
    BY <2>1, <2>2, <2>4 DEF ThreadInv, CqNext
<1>5. CASE TailRead \/ TailFetch \/ TailDrop \/ IrqExit
  BY <1>5, <1>keep DEF TailRead, TailFetch, TailDrop, TailAdvance, IrqExit
<1>6. CASE RxCallback
  <2> DEFINE b == rx[1].block
  <2>1. b \in Block /\ HasRead(b) /\ Head(rx).block = b
    BY <1>6, CallbackReads DEF BlocksInv
  <2>2. sq_buf[b] \in DOMAIN scene.kind
    BY <2>1, ReadIs
  <2>3. /\ UNCHANGED <<cqMem, hostHead, hostPhase, headDb, txDone, thread>>
        /\ \/ sq_buf[b] \notin CompletedAt("apu") /\ Return(b)
           \/ UNCHANGED <<cqVars, tx, owed>>
    BY <1>6, <2>1 DEF RxCallback
  <2> HIDE DEF b
  <2>4. CASE sq_buf[b] \notin CompletedAt("apu") /\ Return(b)
    <3>1. CompletedAt("apu") = {}
      BY <2>2, <2>4 DEF OneContext
    <3> QED
      BY <1>return, <2>1, <2>3, <2>4, <3>1
  <2>5. CASE UNCHANGED <<cqVars, tx, owed>>
    BY <1>keep, <2>3, <2>5
  <2> QED
    BY <2>3, <2>4, <2>5
<1>7. ASSUME NEW b \in Block, DataCallback(b) PROVE R!IInv' /\ ThreadInv'
  <2>1. /\ stage[b] = "data" /\ Return(b)
        /\ UNCHANGED <<cqMem, hostHead, hostPhase, headDb, txDone, thread>>
    BY <1>7 DEF DataCallback
  <2>2. HasRead(b) /\ CompletedAt("apu") = {}
    BY <2>1 DEF HasRead, ContextInv
  <2> QED
    BY <1>return, <2>1, <2>2
<1>8. CASE TxCallback
  <2>1. tx # <<>> /\ txDone = 1 /\ txDone' = 0 /\ tx' = Tail(tx)
    BY <1>types, <1>8 DEF TxCallback
  <2>2. Fly' = Fly
    BY <1>types, <2>1, FlyTail DEF Fly
  <2>3. UNCHANGED <<cq_head, cq_tail, cq_phase, thread, cqMem, hostHead, hostPhase, headDb, owed>>
    BY <1>8 DEF TxCallback
  <2>4. UNCHANGED <<TailBefore, PhaseBefore>>
    BY <2>3 DEF TailBefore, PhaseBefore
  <2>5. R!IInv'
    BY <2>2, <2>3, <2>4, RingKeep
  <2>6. ThreadInv'
    BY <2>3 DEF ThreadInv, R!Dist, CqNext
  <2> QED
    BY <2>5, <2>6
<1>9. ASSUME NEW b \in Block, ApuReply(b) PROVE R!IInv' /\ ThreadInv'
  BY <1>9, <1>keep DEF ApuReply
<1>10. CASE ThreadReadTail
  <2>1. /\ thread.pc = "idle" /\ thread'.pc = "flip" /\ thread'.tail = cq_tail
        /\ UNCHANGED <<cqVars, txVars, cqMem, hostHead, hostPhase, headDb, owed>>
    BY <1>10 DEF ThreadReadTail, Resting
  <2>2. UNCHANGED <<TailBefore, PhaseBefore, Fly>>
    BY <2>1 DEF TailBefore, PhaseBefore, Fly
  <2>3. R!IInv'
    BY <2>1, <2>2, RingKeep
  <2>4. ThreadInv'
    BY <2>1 DEF ThreadInv
  <2> QED
    BY <2>3, <2>4
<1>11. CASE ThreadFlip
  <2>1. /\ thread.pc = "flip" /\ thread.tail = cq_tail
        /\ UNCHANGED <<cq_head, cq_tail, txVars, cqMem, hostHead, hostPhase, headDb, owed>>
    BY <1>11 DEF ThreadFlip, ThreadInv
  <2>2. TailBefore = cq_tail /\ PhaseBefore = cq_phase
    BY <2>1 DEF TailBefore, PhaseBefore
  <2>3. CASE ~Full(thread.tail)
    <3>1. cq_phase' = PhaseAt(thread.tail, cq_phase) /\ thread' = [thread EXCEPT !.pc = "store"]
      BY <1>11, <2>3 DEF ThreadFlip
    <3>2. thread'.pc = "store" /\ thread'.tail = cq_tail
      BY <1>types, <2>1, <3>1
    <3>3. UNCHANGED <<TailBefore, PhaseBefore, Fly>>
      BY <1>types, <2>1, <2>2, <3>1, <3>2 DEF TailBefore, PhaseBefore, Fly, PhaseAt
    <3>4. R!IInv'
      BY <2>1, <3>3, RingKeep
    <3>5. R!Dist(cq_head, hostHead) + Len(owed) < CqSize - 1
      <4>1. cq_head # CqNext(TailBefore)
        BY <2>1, <2>2, <2>3 DEF Full
      <4>2. Len(owed) + R!Dist(cq_head, hostHead) # CqSize - 1
        BY <4>1, RingRoom
      <4>3. R!Dist(cq_head, hostHead) \in Int
        BY RingTypes, SizesAssumption DEF R!Dist
      <4> QED
        BY <4>2, <4>3, RingTypes, SizesAssumption
    <3>6. ThreadInv'
      BY <2>1, <3>2, <3>5 DEF ThreadInv, R!Dist
    <3> QED
      BY <3>4, <3>6
  <2>4. CASE Full(thread.tail)
    <3>1. cq_phase' = cq_phase /\ thread'.pc = "idle"
      BY <1>11, <2>4 DEF ThreadFlip, Resting
    <3>2. UNCHANGED <<TailBefore, PhaseBefore, Fly>>
      BY <2>1, <2>2, <3>1 DEF TailBefore, PhaseBefore, Fly
    <3>3. R!IInv'
      BY <2>1, <3>2, RingKeep
    <3>4. ThreadInv'
      BY <3>1 DEF ThreadInv
    <3> QED
      BY <3>3, <3>4
  <2> QED
    BY <2>3, <2>4
<1>12. CASE ThreadStoreTail
  <2>1. /\ thread.pc = "store" /\ thread.tail = cq_tail /\ cq_tail' = CqNext(thread.tail)
        /\ thread' = [thread EXCEPT !.pc = "stamp"]
        /\ R!Dist(cq_head, hostHead) + Len(owed) < CqSize - 1
        /\ UNCHANGED <<cq_head, cq_phase, txVars, cqMem, hostHead, hostPhase, headDb, owed>>
    BY <1>12 DEF ThreadStoreTail, ThreadInv
  <2>2. thread'.pc = "stamp" /\ thread'.tail = thread.tail
    BY <1>types, <2>1
  <2>3. UNCHANGED <<TailBefore, PhaseBefore, Fly>>
    BY <2>1, <2>2 DEF TailBefore, PhaseBefore, Fly
  <2>4. R!IInv'
    BY <2>1, <2>3, RingKeep
  <2>5. ThreadInv'
    BY <2>1, <2>2 DEF ThreadInv, R!Dist, CqNext
  <2> QED
    BY <2>4, <2>5
<1>13. CASE ThreadStamp
  <2> DEFINE b == thread.block
  <2>1. /\ thread.pc = "stamp" /\ cq_tail = CqNext(thread.tail)
        /\ R!Dist(cq_head, hostHead) + Len(owed) < CqSize - 1
        /\ tx' = Append(tx, [block |-> b, slot |-> thread.tail, data |-> sq_buf[b], p |-> cq_phase])
        /\ owed' = Append(owed, sq_buf[b]) /\ thread'.pc = "idle"
        /\ UNCHANGED <<cq_head, cq_tail, cq_phase, txDone, cqMem, hostHead, hostPhase, headDb>>
    BY <1>13 DEF ThreadStamp, ThreadInv, Resting
  <2>2. b \in Block /\ HasRead(b)
    BY <2>1 DEF BlocksInv, MainInv, HasRead
  <2>3. sq_buf[b] \in Cmd
    BY <2>2, ReadIs
  <2>4. /\ TailBefore = thread.tail /\ PhaseAt(TailBefore, PhaseBefore) = cq_phase
        /\ TailBefore' = cq_tail /\ PhaseBefore' = cq_phase
    BY <1>types, <2>1 DEF TailBefore, PhaseBefore, PhaseAt
  <2>5. cq_head # CqNext(TailBefore)
    <3>1. R!Dist(cq_head, hostHead) \in Int
      BY RingTypes, SizesAssumption DEF R!Dist
    <3>2. Len(owed) + R!Dist(cq_head, hostHead) # CqSize - 1
      BY <2>1, <3>1, RingTypes, SizesAssumption
    <3> QED
      BY <3>2, RingRoom
  <2>6. PICK d \in Cmd : d = sq_buf[b]
    BY <2>3
  <2> HIDE DEF b
  <2>7. R!IInv'
    BY <1>types, <2>1, <2>2, <2>4, <2>5, <2>6, RingPost
  <2>8. ThreadInv'
    BY <2>1 DEF ThreadInv
  <2> QED
    BY <2>7, <2>8
<1>14. CASE RxMove
  BY <1>14, <1>keep DEF RxMove
<1>15. CASE TxMove
  <2>1. UNCHANGED <<cq_head, cq_tail, cq_phase, thread, hostHead, owed>>
    BY <1>15 DEF TxMove
  <2>2. UNCHANGED <<TailBefore, PhaseBefore>>
    BY <2>1 DEF TailBefore, PhaseBefore
  <2>3. R!IInv'
    BY <1>types, <1>15, <2>2, RingWrite
  <2>4. ThreadInv'
    BY <2>1 DEF ThreadInv, R!Dist, CqNext
  <2> QED
    BY <2>3, <2>4
<1> QED
  BY <1>1, <1>2, <1>3, <1>4, <1>5, <1>6, <1>7, <1>8, <1>9, <1>10, <1>11, <1>12, <1>13,
     <1>14, <1>15
  DEF Next, Host, TcIrq, DmaIrq, Thread, Engine

-----------------------------------------------------------------------------
(* Where the commands are                                                  *)

\* The host's set of commands.
LEMMA HostStep ==
  ASSUME TypeOK, HostInv, Next
  PROVE  HostInv'
<1> USE DEF hostVars, regs, sqVars, cqVars, slab, rxVars, txVars, main, ghosts
<1>1. scene' = scene
  BY DEF Next
<1>keep. ASSUME UNCHANGED outstanding PROVE HostInv'
  BY <1>1, <1>keep DEF HostInv
<1>2. ASSUME NEW c \in Cmd, Submit(c) PROVE HostInv'
  <2>1. outstanding' = outstanding \cup {c} /\ c \in DOMAIN scene.kind
    BY <1>2 DEF Submit
  <2>2. IsFiniteSet(outstanding \cup {c})
    BY FS_AddElement DEF HostInv
  <2> QED
    BY <1>1, <2>1, <2>2 DEF HostInv
<1>3. CASE Consume
  <2>1. outstanding' = outstanding \ {cqMem[hostHead].data}
    BY <1>3 DEF Consume
  <2>2. IsFiniteSet(outstanding \ {cqMem[hostHead].data})
    BY FS_RemoveElement DEF HostInv
  <2> QED
    BY <1>1, <2>1, <2>2 DEF HostInv
<1>4. CASE RingTail \/ RingHead \/ TailRead \/ TailDrop \/ HeadHandler \/ IrqExit
  BY <1>4, <1>keep DEF RingTail, RingHead, TailRead, TailDrop, TailAdvance, HeadHandler, IrqExit
<1>5. CASE TailFetch \/ RxCallback \/ TxCallback
  BY <1>5, <1>keep DEF TailFetch, TailAdvance, RxCallback, TxCallback
<1>6. ASSUME NEW b \in Block, DataCallback(b) \/ ApuReply(b) PROVE HostInv'
  BY <1>6, <1>keep DEF DataCallback, ApuReply
<1>7. CASE Thread \/ Engine
  BY <1>7, <1>keep
  DEF Thread, ThreadReadTail, ThreadFlip, ThreadStoreTail, ThreadStamp, Engine, RxMove, TxMove
<1> QED
  BY <1>2, <1>3, <1>4, <1>5, <1>6, <1>7 DEF Next, Host, TcIrq, DmaIrq

\* The window when nothing changes in it.
LEMMA WindowKeep ==
  ASSUME NEW w \in SqSlot, NEW v \in SqSlot, v <= w, Window(w), UNCHANGED <<sqMem, hostTail, outstanding>>
  PROVE  Window(v)'
<1>1. \A s \in SqSlot : Back(s)' = Back(s)
  BY DEF Back
<1>2. \A s \in SqSlot : Back(s) \in 1..v => Back(s) \in 1..w
  BY SizesAssumption DEF SqSlot
<1> QED
  BY <1>1, <1>2 DEF Window

LEMMA FetchKeep ==
  ASSUME NEW w \in SqSlot, FetchInv(w), UNCHANGED <<hostTail, sq_head, rx, rxDone>>
  PROVE  FetchInv(w)'
BY DEF FetchInv, Back

\* No command is read, none is completed.
LEMMA ApartKeep ==
  ASSUME NEW w \in SqSlot, NEW v \in SqSlot, v <= w, Apart(w),
         UNCHANGED <<sqMem, hostTail, outstanding, owed>>,
         \A b \in Block : HasRead(b)' => HasRead(b) /\ sq_buf'[b] = sq_buf[b]
  PROVE  Apart(v)'
<1>1. \A s \in SqSlot : Back(s)' = Back(s)
  BY DEF Back
<1>2. \A s \in SqSlot : Back(s) \in 1..v => Back(s) \in 1..w
  BY SizesAssumption DEF SqSlot
<1>3. /\ \A b \in Block : HasRead(b)' => sq_buf'[b] \in outstanding'
      /\ \A a, b \in Block : HasRead(a)' /\ HasRead(b)' /\ sq_buf'[a] = sq_buf'[b] => a = b
  BY DEF Apart
<1>4. \A b \in Block, i \in 1..Len(owed') : HasRead(b)' => sq_buf'[b] # owed'[i]
  BY DEF Apart
<1>5. /\ \A i \in 1..Len(owed') : owed'[i] \in outstanding'
      /\ \A i, j \in 1..Len(owed') : owed'[i] = owed'[j] => i = j
  BY DEF Apart
<1>6. /\ \A s \in SqSlot, b \in Block : Back(s)' \in 1..v /\ HasRead(b)' => sq_buf'[b] # sqMem'[s]
      /\ \A s \in SqSlot, i \in 1..Len(owed') : Back(s)' \in 1..v => owed'[i] # sqMem'[s]
  BY <1>1, <1>2 DEF Apart
<1> QED
  BY <1>3, <1>4, <1>5, <1>6 DEF Apart

\* A command is completed.
LEMMA ApartPost ==
  ASSUME TypeOK, NEW w \in SqSlot, Apart(w), UNCHANGED <<sqMem, hostTail, outstanding>>,
         NEW b \in Block, HasRead(b), owed' = Append(owed, sq_buf[b]),
         \A a \in Block : HasRead(a)' => a # b /\ HasRead(a) /\ sq_buf'[a] = sq_buf[a]
  PROVE  Apart(w)'
<1>1. \A s \in SqSlot : Back(s)' = Back(s)
  BY DEF Back
<1>2. /\ Len(owed') = Len(owed) + 1 /\ Len(owed) \in Nat
      /\ \A j \in 1..Len(owed) : owed'[j] = owed[j]
      /\ owed'[Len(owed) + 1] = sq_buf[b]
  BY TypesOne, Appended DEF Types
<1>3. \A i \in 1..Len(owed') : i \in 1..Len(owed) \/ i = Len(owed) + 1
  BY <1>2
<1>4. /\ \A a \in Block : HasRead(a)' => sq_buf'[a] \in outstanding'
      /\ \A a, c \in Block : HasRead(a)' /\ HasRead(c)' /\ sq_buf'[a] = sq_buf'[c] => a = c
  BY DEF Apart
<1>5. \A i \in 1..Len(owed') : owed'[i] \in outstanding'
  BY <1>2, <1>3 DEF Apart
<1>6. \A i, j \in 1..Len(owed') : owed'[i] = owed'[j] => i = j
  BY <1>2, <1>3 DEF Apart
<1>7. \A a \in Block, i \in 1..Len(owed') : HasRead(a)' => sq_buf'[a] # owed'[i]
  BY <1>2, <1>3 DEF Apart
<1>8. \A s \in SqSlot, a \in Block : Back(s)' \in 1..w /\ HasRead(a)' => sq_buf'[a] # sqMem'[s]
  BY <1>1 DEF Apart
<1>9. \A s \in SqSlot, i \in 1..Len(owed') : Back(s)' \in 1..w => owed'[i] # sqMem'[s]
  BY <1>1, <1>2, <1>3 DEF Apart
<1> QED
  BY <1>4, <1>5, <1>6, <1>7, <1>8, <1>9 DEF Apart

\* The host submits a command.
LEMMA SubmitWindow ==
  ASSUME TypeOK, HostInv, NEW w \in SqSlot, Window(w), FetchInv(w), Apart(w), NEW c \in Cmd, Submit(c)
  PROVE  /\ w + 1 \in SqSlot /\ Window(w + 1)' /\ FetchInv(w + 1)' /\ Apart(w + 1)'
         /\ Back(sq_head) < SqSize - 1
<1> USE DEF hostVars, regs, sqVars, cqVars, slab, rxVars, txVars, main, ghosts
<1>types. /\ hostTail \in SqSlot /\ sq_head \in SqSlot
          /\ sqMem \in [SqSlot -> Cmd \cup {NoCmd}]
  BY TypesOne DEF Types, SqSlot
<1>0. /\ c \notin outstanding /\ Cardinality(outstanding) < MaxOut
      /\ sqMem' = [sqMem EXCEPT ![hostTail] = c] /\ hostTail' = SqNext(hostTail)
      /\ outstanding' = outstanding \cup {c}
      /\ UNCHANGED <<sq_head, stage, sq_buf, rx, rxDone, owed>>
  BY DEF Submit
<1>1. w \in Nat /\ w + 1 \in SqSlot /\ w < SqSize - 1
  BY <1>0, WindowCount, HostAssumption, SizesAssumption DEF SqSlot
<1>2. \A s \in SqSlot : Back(s)' = IF Back(s) = SqSize - 1 THEN 0 ELSE Back(s) + 1
  BY <1>0, BackAfter
<1>3. \A s \in SqSlot : Back(s) \in SqSlot /\ (Back(s) = 0 <=> s = hostTail)
  BY BackFacts
<1>4. ASSUME NEW s \in SqSlot, Back(s)' \in 1..(w + 1)
      PROVE  \/ s = hostTail /\ sqMem'[s] = c
             \/ s # hostTail /\ sqMem'[s] = sqMem[s] /\ Back(s) \in 1..w
  <2>1. Back(s) \in 0..w
    BY <1>1, <1>2, <1>3, <1>4, SizesAssumption DEF SqSlot
  <2> QED
    BY <1>types, <1>0, <1>3, <2>1
<1>5. \A s \in SqSlot : Back(s) <= w => Back(s)' = Back(s) + 1
  BY <1>1, <1>2, <1>3, SizesAssumption DEF SqSlot
<1>6. Window(w + 1)'
  <2>1. \A s \in SqSlot : Back(s)' \in 1..(w + 1) => sqMem'[s] \in outstanding'
    BY <1>0, <1>4 DEF Window
  <2>2. \A s, t \in SqSlot : Back(s)' \in 1..(w + 1) /\ Back(t)' \in 1..(w + 1) /\ sqMem'[s] = sqMem'[t] => s = t
    BY <1>0, <1>4 DEF Window
  <2> QED
    BY <2>1, <2>2 DEF Window
<1>7. FetchInv(w + 1)'
  <2>1. Back(sq_head)' = Back(sq_head) + 1 /\ Back(sq_head) \in SqSlot /\ Back(sq_head) <= w
    <3>1. Back(sq_head) <= w
      BY DEF FetchInv
    <3>2. PICK h \in SqSlot : h = sq_head
      BY <1>types
    <3>3. Back(sq_head)' = Back(h)'
      BY <1>0, <3>2 DEF Back
    <3> QED
      BY <1>3, <1>5, <3>1, <3>2, <3>3
  <2>2. \A i \in 1..Len(rx) : i > rxDone => /\ Back(rx[i].src)' = Back(rx[i].src) + 1
                                            /\ Back(rx[i].src) \in SqSlot
    <3>1. \A i \in 1..Len(rx) : Back(rx[i].src)' = [t \in SqSlot |-> Back(t)'][rx[i].src]
      BY <1>0, Elements DEF Back
    <3> QED
      BY <1>3, <1>5, <3>1, Elements DEF FetchInv
  <2>3. Back(sq_head)' <= w + 1
    BY <1>1, <2>1 DEF SqSlot
  <2>4. \A i \in 1..Len(rx') : i > rxDone' =>
          Back(sq_head)' < Back(rx[i].src)' /\ Back(rx[i].src)' <= w + 1
    BY <1>0, <1>1, <2>1, <2>2 DEF FetchInv, SqSlot
  <2>5. \A i, j \in 1..Len(rx') : i > rxDone' /\ i < j => Back(rx[j].src)' < Back(rx[i].src)'
    <3> SUFFICES ASSUME NEW i \in 1..Len(rx), NEW j \in 1..Len(rx), i > rxDone, i < j
                 PROVE  Back(rx[j].src)' < Back(rx[i].src)'
      BY <1>0
    <3>0. rxDone \in {0, 1} /\ Len(rx) \in Nat
      BY Elements, TypesOne DEF Types
    <3>1. j > rxDone
      BY <3>0
    <3> QED
      BY <2>2, <3>1 DEF FetchInv, SqSlot
  <2> QED
    BY <2>3, <2>4, <2>5 DEF FetchInv
<1>8. Apart(w + 1)'
  <2>0. \A b \in Block : HasRead(b)' <=> HasRead(b)
    BY <1>0 DEF HasRead
  <2>1. /\ \A b \in Block : HasRead(b)' => sq_buf'[b] \in outstanding'
        /\ \A a, b \in Block : HasRead(a)' /\ HasRead(b)' /\ sq_buf'[a] = sq_buf'[b] => a = b
        /\ \A b \in Block, i \in 1..Len(owed') : HasRead(b)' => sq_buf'[b] # owed'[i]
    BY <1>0, <2>0 DEF Apart
  <2>2. /\ \A i \in 1..Len(owed') : owed'[i] \in outstanding'
        /\ \A i, j \in 1..Len(owed') : owed'[i] = owed'[j] => i = j
    BY <1>0 DEF Apart
  <2>3. /\ \A s \in SqSlot, b \in Block : Back(s)' \in 1..(w + 1) /\ HasRead(b)' => sq_buf'[b] # sqMem'[s]
        /\ \A s \in SqSlot, i \in 1..Len(owed') : Back(s)' \in 1..(w + 1) => owed'[i] # sqMem'[s]
    BY <1>0, <1>4, <2>0 DEF Apart
  <2> QED
    BY <2>1, <2>2, <2>3 DEF Apart
<1>9. Back(sq_head) < SqSize - 1
  BY <1>types, <1>1, BackFacts, SizesAssumption DEF FetchInv, SqSlot
<1> QED
  BY <1>1, <1>6, <1>7, <1>8, <1>9

\* The host sees a completion: the command it stands for is nowhere else.
LEMMA ConsumeWindow ==
  ASSUME TypeOK, R!IInv, NEW w \in SqSlot, Window(w), FetchInv(w), Apart(w), Consume
  PROVE  Window(w)' /\ FetchInv(w)' /\ Apart(w)'
<1> USE DEF hostVars, regs, sqVars, cqVars, slab, rxVars, txVars, main, ghosts
<1>1. /\ owed # <<>> /\ owed' = Tail(owed) /\ outstanding' = outstanding \ {Head(owed)}
  BY RingConsume DEF Consume
<1>2. /\ Len(owed) \in Nat \ {0} /\ Head(owed) = owed[1] /\ Len(owed') = Len(owed) - 1
      /\ \A j \in 1..(Len(owed) - 1) : owed'[j] = owed[j + 1]
  BY <1>1, RingTypes, HeadTail
<1>3. \A i \in 1..Len(owed') : i + 1 \in 1..Len(owed) /\ owed'[i] = owed[i + 1] /\ i + 1 # 1
  BY <1>2
<1>4. 1 \in 1..Len(owed) /\ outstanding' = outstanding \ {owed[1]}
  BY <1>1, <1>2
<1>5. UNCHANGED <<sqMem, hostTail, sq_head, rx, rxDone, stage, sq_buf>>
  BY DEF Consume
<1>6. /\ \A s \in SqSlot : Back(s)' = Back(s)
      /\ \A b \in Block : HasRead(b)' <=> HasRead(b)
  BY <1>5 DEF Back, HasRead
<1>7. Window(w)'
  <2>1. \A s \in SqSlot : Back(s)' \in 1..w => sqMem'[s] \in outstanding'
    BY <1>4, <1>5, <1>6 DEF Window, Apart
  <2> QED
    BY <1>5, <1>6, <2>1 DEF Window
<1>8. FetchInv(w)'
  BY <1>5, FetchKeep
<1>9. Apart(w)'
  <2>1. /\ \A b \in Block : HasRead(b)' => sq_buf'[b] \in outstanding'
        /\ \A a, b \in Block : HasRead(a)' /\ HasRead(b)' /\ sq_buf'[a] = sq_buf'[b] => a = b
    BY <1>4, <1>5, <1>6 DEF Apart
  <2>2. \A i \in 1..Len(owed') : owed'[i] \in outstanding'
    BY <1>3, <1>4 DEF Apart
  <2>3. \A i, j \in 1..Len(owed') : owed'[i] = owed'[j] => i = j
    BY <1>2, <1>3 DEF Apart
  <2>4. \A b \in Block, i \in 1..Len(owed') : HasRead(b)' => sq_buf'[b] # owed'[i]
    BY <1>3, <1>5, <1>6 DEF Apart
  <2>5. /\ \A s \in SqSlot, b \in Block : Back(s)' \in 1..w /\ HasRead(b)' => sq_buf'[b] # sqMem'[s]
        /\ \A s \in SqSlot, i \in 1..Len(owed') : Back(s)' \in 1..w => owed'[i] # sqMem'[s]
    BY <1>3, <1>5, <1>6 DEF Apart
  <2> QED
    BY <2>1, <2>2, <2>3, <2>4, <2>5 DEF Apart
<1> QED
  BY <1>7, <1>8, <1>9

\* A command is read: it leaves the window, with what was there before it.
LEMMA MoveWindow ==
  ASSUME TypeOK, RxInv, NEW w \in SqSlot, Window(w), FetchInv(w), Apart(w), RxMove
  PROVE  \E v \in SqSlot : Window(v)' /\ FetchInv(v)' /\ Apart(v)'
<1> USE DEF hostVars, regs, sqVars, cqVars, slab, rxVars, txVars, main, ghosts
<1>types. rx \in Seq(Fetches) /\ sq_head \in SqSlot /\ sq_buf \in [Block -> Cmd \cup {NoCmd}]
  BY TypesOne DEF Types, SqSlot
<1>1. rx # <<>> /\ rxDone = 0 /\ rxDone' = 1
      /\ UNCHANGED <<sqMem, hostTail, outstanding, sq_head, stage, rx, owed>>
      /\ sq_buf' = [sq_buf EXCEPT ![Head(rx).block] = sqMem[Head(rx).src]]
  BY DEF RxMove
<1>2. Head(rx) = rx[1] /\ Len(rx) \in Nat \ {0} /\ 1 \in 1..Len(rx)
  BY <1>types, <1>1, HeadTail
<1>s. PICK s1 \in SqSlot : s1 = rx[1].src
  BY <1>2, Elements
<1>b. PICK b1 \in Block : b1 = rx[1].block
  BY <1>2, Elements
<1>3. stage[b1] = "fetch"
  BY <1>2, <1>b DEF RxInv
<1>4. /\ Back(s1) \in SqSlot /\ Back(sq_head) \in SqSlot /\ Back(sq_head) < Back(s1) /\ Back(s1) <= w
  BY <1>types, <1>s, <1>1, <1>2, BackFacts DEF FetchInv
<1>v. PICK v \in SqSlot : v = Back(s1) - 1
  BY <1>4, SizesAssumption DEF SqSlot
<1>5. v \in SqSlot /\ v <= w /\ Back(s1) \in 1..w /\ Back(sq_head) <= v /\ ~(Back(s1) \in 1..v)
  BY <1>4, <1>v, SizesAssumption DEF SqSlot
<1>6. \A s \in SqSlot : Back(s)' = Back(s)
  BY <1>1 DEF Back
<1>7. /\ sq_buf'[b1] = sqMem[s1] /\ \A b \in Block \ {b1} : sq_buf'[b] = sq_buf[b]
  BY <1>types, <1>1, <1>2, <1>s, <1>b
<1>8. /\ ~HasRead(b1) /\ HasRead(b1)'
      /\ \A b \in Block \ {b1} : HasRead(b)' <=> HasRead(b)
  BY <1>1, <1>3, <1>b DEF HasRead
<1>9. Window(v)'
  BY <1>1, <1>5, WindowKeep
<1>10. FetchInv(v)'
  <2>1. Back(sq_head)' = Back(sq_head) /\ \A i \in 1..Len(rx) : Back(rx[i].src)' = Back(rx[i].src)
    BY <1>1 DEF Back
  <2>2. ASSUME NEW i \in 1..Len(rx), i > 1
        PROVE  Back(sq_head) < Back(rx[i].src) /\ Back(rx[i].src) <= v
    <3>1. Back(rx[i].src) < Back(s1) /\ Back(sq_head) < Back(rx[i].src)
      BY <1>1, <1>2, <1>s, <2>2 DEF FetchInv
    <3>2. Back(rx[i].src) \in SqSlot
      BY Elements, BackFacts
    <3> QED
      BY <1>4, <1>v, <3>1, <3>2, SizesAssumption DEF SqSlot
  <2>3. \A i, j \in 1..Len(rx) : i > 1 /\ i < j => Back(rx[j].src) < Back(rx[i].src)
    BY <1>1 DEF FetchInv
  <2> QED
    BY <1>1, <1>5, <2>1, <2>2, <2>3 DEF FetchInv
<1>11. Apart(v)'
  <2>1. sqMem[s1] \in outstanding
    BY <1>3, <1>5 DEF Window
  <2>2. \A s \in SqSlot : Back(s) \in 1..v => Back(s) \in 1..w /\ s # s1
    BY <1>4, <1>5, BackFacts DEF SqSlot
  <2>3. \A b \in Block : HasRead(b)' => sq_buf'[b] \in outstanding'
    BY <1>1, <1>7, <1>8, <2>1 DEF Apart
  <2>4. \A a, b \in Block : HasRead(a)' /\ HasRead(b)' /\ sq_buf'[a] = sq_buf'[b] => a = b
    BY <1>3, <1>5, <1>7, <1>8 DEF Apart
  <2>5. /\ \A i \in 1..Len(owed') : owed'[i] \in outstanding'
        /\ \A i, j \in 1..Len(owed') : owed'[i] = owed'[j] => i = j
    BY <1>1 DEF Apart
  <2>6. \A b \in Block, i \in 1..Len(owed') : HasRead(b)' => sq_buf'[b] # owed'[i]
    BY <1>1, <1>3, <1>5, <1>7, <1>8 DEF Apart
  <2>7. \A s \in SqSlot, b \in Block : Back(s)' \in 1..v /\ HasRead(b)' => sq_buf'[b] # sqMem'[s]
    BY <1>1, <1>3, <1>5, <1>6, <1>7, <1>8, <2>2 DEF Apart, Window
  <2>8. \A s \in SqSlot, i \in 1..Len(owed') : Back(s)' \in 1..v => owed'[i] # sqMem'[s]
    BY <1>1, <1>6, <2>2 DEF Apart
  <2> QED
    BY <2>3, <2>4, <2>5, <2>6, <2>7, <2>8 DEF Apart
<1> QED
  BY <1>9, <1>10, <1>11

\* nvme_cmd_return, for a command that was read.
LEMMA ReturnApart ==
  ASSUME TypeOK, RxInv, TxInv, NEW w \in SqSlot, Apart(w), NEW b \in Block, HasRead(b), Return(b),
         stage[b] \in {"fetch", "data"},
         UNCHANGED <<sqMem, hostTail, outstanding, sq_buf, txDone>>,
         \A a \in Block : (rxDone' = 1 /\ a = rx'[1].block)
                            => a # b /\ rxDone = 1 /\ a = rx[1].block
  PROVE  Apart(w)'
<1>1. /\ stage'[b] \in {"posted", "leaked"} /\ \A x \in Block \ {b} : stage'[x] = stage[x]
  BY ReturnBlocks
<1>2. \A a \in Block : HasRead(a)' => a # b /\ HasRead(a)
  BY <1>1 DEF HasRead
<1>3. CASE ~Full(cq_tail)
  <2>1. owed' = Append(owed, sq_buf[b])
    BY <1>3 DEF Return
  <2> QED
    BY <1>2, <2>1, ApartPost
<1>4. CASE Full(cq_tail)
  <2>1. owed' = owed
    BY <1>4 DEF Return
  <2>2. w <= w
    BY SizesAssumption DEF SqSlot
  <2> QED
    BY <1>2, <2>1, <2>2, ApartKeep
<1> QED
  BY <1>3, <1>4

\* The tail handler takes an entry, with a block or without.
LEMMA TailWindow ==
  ASSUME TypeOK, SqInv, NEW w \in SqSlot, FetchInv(w), TailFetch \/ TailDrop
  PROVE  FetchInv(w)'
<1> USE DEF hostVars, regs, sqVars, cqVars, slab, rxVars, txVars, main, ghosts
<1>types. sq_head \in SqSlot /\ sq_tail \in SqSlot /\ rx \in Seq(Fetches) /\ rxDone \in {0, 1}
  BY TypesOne DEF Types, SqSlot
<1>1. /\ isr = "tail" /\ sq_head' = SqNext(sq_head) /\ UNCHANGED <<hostTail, rxDone>>
  BY DEF TailFetch, TailDrop, TailAdvance
<1>2. /\ Back(sq_head) \in SqSlot /\ Back(sq_head) # 0
      /\ Back(SqNext(sq_head)) = Back(sq_head) - 1
  <2>1. sq_head # sq_tail /\ Back(sq_tail) <= Back(sq_head)
    BY <1>1 DEF SqInv
  <2>2. Back(sq_head) \in SqSlot /\ Back(sq_tail) \in SqSlot /\ Back(sq_head) # Back(sq_tail)
    BY <1>types, <2>1, BackFacts
  <2>3. Back(sq_head) # 0
    BY <2>1, <2>2, SizesAssumption DEF SqSlot
  <2> QED
    BY <1>types, <2>2, <2>3, BackFacts
<1>3. Back(sq_head)' = Back(sq_head) - 1
  BY <1>1, <1>2 DEF Back
<1>4. \A i \in 1..Len(rx) : Back(rx[i].src) \in SqSlot
  BY Elements, BackFacts
<1>5. /\ Back(sq_head) <= w
      /\ \A i \in 1..Len(rx) : i > rxDone => Back(sq_head) < Back(rx[i].src) /\ Back(rx[i].src) <= w
      /\ \A i, j \in 1..Len(rx) : i > rxDone /\ i < j => Back(rx[j].src) < Back(rx[i].src)
  BY DEF FetchInv
<1>6. CASE TailDrop
  <2>1. rx' = rx
    BY <1>6 DEF TailDrop
  <2>2. \A i \in 1..Len(rx) : Back(rx[i].src)' = Back(rx[i].src)
    BY <1>1, <2>1 DEF Back
  <2>3. /\ Back(sq_head)' <= w
        /\ \A i \in 1..Len(rx) : i > rxDone => Back(sq_head)' < Back(rx[i].src)
    BY <1>2, <1>3, <1>4, <1>5, SizesAssumption DEF SqSlot
  <2> QED
    BY <1>1, <1>5, <2>1, <2>2, <2>3 DEF FetchInv
<1>7. CASE TailFetch
  <2>1. PICK e \in Fetches : rx' = Append(rx, e) /\ e.src = sq_head
    <3> DEFINE b == CHOOSE b \in Free : TRUE
    <3>1. b \in Block
      BY <1>7, HostAssumption, TypesOne DEF TailFetch, Free, Types, Scene
    <3>2. [block |-> b, src |-> sq_head] \in Fetches
      BY <3>1, TypesOne DEF Types, Fetches
    <3> QED
      BY <1>7, <3>2 DEF TailFetch
  <2>2. /\ Len(rx') = Len(rx) + 1 /\ Len(rx) \in Nat
        /\ \A j \in 1..Len(rx) : rx'[j] = rx[j]
        /\ rx'[Len(rx) + 1] = e
    BY <1>types, <2>1, Appended
  <2>n. PICK n \in Nat : n = Len(rx)
    BY <2>2
  <2>3. \A i \in 1..Len(rx') : i \in 1..n \/ i = n + 1
    BY <2>2, <2>n
  <2>4. /\ \A i \in 1..n : Back(rx[i].src)' = Back(rx[i].src)
        /\ Back(rx[n + 1].src)' = Back(sq_head)
    BY <1>1, <2>1, <2>2, <2>n DEF Back
  <2>5. \A i \in 1..Len(rx') : i > rxDone =>
          Back(sq_head)' < Back(rx[i].src)' /\ Back(rx[i].src)' <= w
    BY <1>2, <1>3, <1>4, <1>5, <2>n, <2>3, <2>4, SizesAssumption DEF SqSlot
  <2>6. \A i, j \in 1..Len(rx') : i > rxDone /\ i < j => Back(rx[j].src)' < Back(rx[i].src)'
    <3> SUFFICES ASSUME NEW i \in 1..Len(rx'), NEW j \in 1..Len(rx'), i > rxDone, i < j
                 PROVE  Back(rx[j].src)' < Back(rx[i].src)'
      OBVIOUS
    <3>1. i \in 1..n /\ (j \in 1..n \/ j = n + 1)
      BY <2>n, <2>3
    <3>2. CASE j \in 1..n
      BY <1>4, <1>5, <2>n, <2>4, <3>1, <3>2
    <3>3. CASE j = n + 1
      BY <1>4, <1>5, <2>n, <2>4, <3>1, <3>3
    <3> QED
      BY <3>1, <3>2, <3>3
  <2>7. Back(sq_head)' <= w
    BY <1>2, <1>3, <1>5, SizesAssumption DEF SqSlot
  <2> QED
    BY <1>1, <2>5, <2>6, <2>7 DEF FetchInv
<1> QED
  BY <1>6, <1>7

\* The fetch at the head of the channel is done.
LEMMA CallbackWindow ==
  ASSUME TypeOK, RxInv, NEW w \in SqSlot, FetchInv(w), RxCallback
  PROVE  FetchInv(w)'
<1> USE DEF hostVars, regs, sqVars, cqVars, slab, rxVars, txVars, main, ghosts
<1>1. rxDone = 1 /\ rxDone' = 0 /\ rx' = Tail(rx) /\ UNCHANGED <<hostTail, sq_head>>
  BY DEF RxCallback
<1>2. /\ Len(rx') = Len(rx) - 1 /\ Len(rx) \in Nat \ {0}
      /\ \A j \in 1..(Len(rx) - 1) : rx'[j] = rx[j + 1]
  BY <1>1, CallbackReads, TypesOne, HeadTail DEF Types
<1>3. \A i \in 1..Len(rx') : i + 1 \in 1..Len(rx) /\ rx'[i] = rx[i + 1] /\ i + 1 > 1
  BY <1>2
<1>4. /\ Back(sq_head)' = Back(sq_head)
      /\ \A i \in 1..Len(rx') : Back(rx[i].src)' = Back(rx[i + 1].src)
  BY <1>1, <1>3 DEF Back
<1>5. \A i \in 1..Len(rx') : Back(sq_head)' < Back(rx[i].src)' /\ Back(rx[i].src)' <= w
  BY <1>1, <1>3, <1>4 DEF FetchInv
<1>6. \A i, j \in 1..Len(rx') : i < j => Back(rx[j].src)' < Back(rx[i].src)'
  <2> SUFFICES ASSUME NEW i \in 1..Len(rx'), NEW j \in 1..Len(rx'), i < j
               PROVE  Back(rx[j].src)' < Back(rx[i].src)'
    OBVIOUS
  <2>1. i + 1 < j + 1
    BY <1>2
  <2> QED
    BY <1>1, <1>3, <1>4, <2>1 DEF FetchInv
<1> QED
  BY <1>4, <1>5, <1>6 DEF FetchInv

\* Every step keeps a command in one place.
LEMMA WindowStep ==
  ASSUME TypeOK, BlocksInv, HostInv, SqInv, R!IInv,
         NEW w \in SqSlot, Window(w), FetchInv(w), Apart(w), Next
  PROVE  \E v \in SqSlot : Window(v)' /\ FetchInv(v)' /\ Apart(v)'
<1> USE DEF hostVars, regs, sqVars, cqVars, slab, rxVars, txVars, main, ghosts
<1>types. /\ w <= w /\ stage \in [Block -> Stages] /\ rx \in Seq(Fetches) /\ rxDone \in {0, 1}
          /\ tx \in Seq(Entries) /\ replies \in Seq(Block) /\ sq_buf \in [Block -> Cmd \cup {NoCmd}]
          /\ RxInv /\ TxInv /\ MainInv
  <2>1. w <= w
    BY SizesAssumption DEF SqSlot
  <2> QED
    BY <2>1, TypesOne DEF Types, BlocksInv
\* Steps that leave the queue and the commands that were read alone.
<1>keep. ASSUME UNCHANGED <<sqMem, hostTail, outstanding, sq_head, rx, rxDone, owed>>,
                \A b \in Block : HasRead(b)' => HasRead(b) /\ sq_buf'[b] = sq_buf[b]
         PROVE  \E v \in SqSlot : Window(v)' /\ FetchInv(v)' /\ Apart(v)'
  BY <1>types, <1>keep, WindowKeep, FetchKeep, ApartKeep
<1>same. ASSUME UNCHANGED <<sqMem, hostTail, outstanding, sq_head, rx, rxDone, owed, stage, sq_buf>>
         PROVE  \E v \in SqSlot : Window(v)' /\ FetchInv(v)' /\ Apart(v)'
  <2>1. \A b \in Block : HasRead(b)' => HasRead(b) /\ sq_buf'[b] = sq_buf[b]
    BY <1>same DEF HasRead
  <2> QED
    BY <1>keep, <1>same, <2>1
<1>1. ASSUME NEW c \in Cmd, Submit(c)
      PROVE  \E v \in SqSlot : Window(v)' /\ FetchInv(v)' /\ Apart(v)'
  BY <1>1, SubmitWindow
<1>2. CASE Consume
  BY <1>2, ConsumeWindow
<1>3. CASE RxMove
  BY <1>3, <1>types, MoveWindow
<1>4. CASE RingTail \/ RingHead \/ TailRead \/ HeadHandler \/ IrqExit
  BY <1>4, <1>same DEF RingTail, RingHead, TailRead, HeadHandler, IrqExit
<1>5. CASE ThreadReadTail \/ ThreadStoreTail \/ TxMove
  BY <1>5, <1>same DEF ThreadReadTail, ThreadStoreTail, TxMove
<1>6. CASE TailDrop
  <2>1. UNCHANGED <<sqMem, hostTail, outstanding, owed, stage, sq_buf, rx, rxDone>>
    BY <1>6 DEF TailDrop, TailAdvance
  <2>2. \A b \in Block : HasRead(b)' => HasRead(b) /\ sq_buf'[b] = sq_buf[b]
    BY <2>1 DEF HasRead
  <2> QED
    BY <1>6, <1>types, <2>1, <2>2, TailWindow, WindowKeep, ApartKeep
<1>7. CASE TailFetch
  <2>1. PICK b \in Block : /\ stage' = [stage EXCEPT ![b] = "fetch"]
                           /\ rx' = Append(rx, [block |-> b, src |-> sq_head])
    <3>1. (CHOOSE b \in Free : TRUE) \in Block
      BY <1>7, HostAssumption, TypesOne DEF TailFetch, Free, Types, Scene
    <3> QED
      BY <1>7, <3>1 DEF TailFetch
  <2>2. UNCHANGED <<sqMem, hostTail, outstanding, owed, sq_buf, rxDone>>
    BY <1>7 DEF TailFetch, TailAdvance
  <2>3. rxDone = 1 => rx'[1] = rx[1]
    <3> SUFFICES ASSUME rxDone = 1 PROVE rx'[1] = rx[1]
      OBVIOUS
    <3>1. 1 \in 1..Len(rx)
      BY <1>types, Elements DEF RxInv
    <3>2. [block |-> b, src |-> sq_head] \in Fetches
      BY TypesOne DEF Types, Fetches
    <3> QED
      BY <1>types, <2>1, <3>1, <3>2, Appended
  <2>4. \A a \in Block : HasRead(a)' => HasRead(a) /\ sq_buf'[a] = sq_buf[a]
    BY <1>types, <2>1, <2>2, <2>3 DEF HasRead
  <2> QED
    BY <1>7, <1>types, <2>2, <2>4, TailWindow, WindowKeep, ApartKeep
<1>8. CASE RxCallback
  <2>0. PICK b \in Block : b = rx[1].block
    BY <1>8, <1>types, CallbackReads
  <2>1. /\ HasRead(b) /\ Head(rx).block = b /\ stage[b] = "fetch" /\ rxDone' = 0
        /\ UNCHANGED <<sqMem, hostTail, outstanding, sq_buf, txDone>>
    BY <1>8, <1>types, <2>0, CallbackReads DEF RxCallback
  <2>2. FetchInv(w)' /\ Window(w)'
    BY <1>8, <1>types, <2>1, CallbackWindow, WindowKeep
  <2>3. \/ Return(b)
        \/ /\ sq_buf[b] \in CompletedAt("data") \cup CompletedAt("apu")
           /\ stage' = [stage EXCEPT ![b] = scene.kind[sq_buf[b]]] /\ UNCHANGED owed
    BY <1>8, <2>1 DEF RxCallback
  <2>4. CASE Return(b)
    BY <1>types, <2>1, <2>2, <2>4, ReturnApart
  <2>5. CASE /\ sq_buf[b] \in CompletedAt("data") \cup CompletedAt("apu")
             /\ stage' = [stage EXCEPT ![b] = scene.kind[sq_buf[b]]] /\ UNCHANGED owed
    <3>1. \A a \in Block : HasRead(a)' => HasRead(a) /\ sq_buf'[a] = sq_buf[a]
      BY <1>types, <2>1, <2>5 DEF HasRead
    <3> QED
      BY <1>types, <2>1, <2>2, <2>5, <3>1, ApartKeep
  <2> QED
    BY <2>3, <2>4, <2>5
<1>9. ASSUME NEW b \in Block, DataCallback(b)
      PROVE  \E v \in SqSlot : Window(v)' /\ FetchInv(v)' /\ Apart(v)'
  <2>1. /\ stage[b] = "data" /\ Return(b)
        /\ UNCHANGED <<sqMem, hostTail, outstanding, sq_head, sq_buf, rx, rxDone, txDone>>
    BY <1>9 DEF DataCallback
  <2>2. HasRead(b)
    BY <2>1 DEF HasRead
  <2>3. \A a \in Block : (rxDone' = 1 /\ a = rx'[1].block) => a # b /\ rxDone = 1 /\ a = rx[1].block
    <3> SUFFICES ASSUME rxDone = 1 PROVE rx[1].block # b
      BY <2>1
    <3>1. 1 \in 1..Len(rx)
      BY <1>types, Elements DEF RxInv
    <3> QED
      BY <1>types, <2>1, <3>1 DEF RxInv
  <2>4. Apart(w)'
    BY <1>types, <2>1, <2>2, <2>3, ReturnApart
  <2> QED
    BY <1>types, <2>1, <2>4, WindowKeep, FetchKeep
<1>10. CASE TxCallback
  <2>1. /\ txDone = 1 /\ UNCHANGED <<sqMem, hostTail, outstanding, sq_head, rx, rxDone, owed>>
        /\ stage' = [stage EXCEPT ![Head(tx).block] = "free"]
        /\ sq_buf' = [sq_buf EXCEPT ![Head(tx).block] = NoCmd]
    BY <1>10 DEF TxCallback
  <2>2. tx # <<>> /\ Head(tx) = tx[1] /\ 1 \in 1..Len(tx)
    <3>1. tx # <<>>
      BY <1>types, <2>1 DEF TxInv
    <3> QED
      BY <1>types, <3>1, HeadTail
  <2>3. PICK b \in Block : b = Head(tx).block /\ stage[b] = "posted"
    BY <1>types, <2>2, Elements DEF TxInv
  <2>4. rxDone = 1 => rx[1].block # b
    <3> SUFFICES ASSUME rxDone = 1 PROVE rx[1].block # b
      OBVIOUS
    <3>1. 1 \in 1..Len(rx)
      BY <1>types, Elements DEF RxInv
    <3> QED
      BY <1>types, <2>3, <3>1 DEF RxInv
  <2>5. \A a \in Block : HasRead(a)' => HasRead(a) /\ sq_buf'[a] = sq_buf[a]
    BY <1>types, <2>1, <2>3, <2>4 DEF HasRead
  <2> QED
    BY <1>keep, <2>1, <2>5
<1>11. ASSUME NEW b \in Block, ApuReply(b)
       PROVE  \E v \in SqSlot : Window(v)' /\ FetchInv(v)' /\ Apart(v)'
  <2>1. /\ UNCHANGED <<sqMem, hostTail, outstanding, sq_head, sq_buf, rx, rxDone, owed>>
        /\ stage[b] = "apu" /\ stage' = [stage EXCEPT ![b] = "replied"]
    BY <1>11 DEF ApuReply
  <2>2. \A a \in Block : HasRead(a)' => HasRead(a) /\ sq_buf'[a] = sq_buf[a]
    BY <1>types, <2>1 DEF HasRead
  <2> QED
    BY <1>keep, <2>1, <2>2
<1>12. CASE ThreadFlip
  <2>1. /\ UNCHANGED <<sqMem, hostTail, outstanding, sq_head, sq_buf, rx, rxDone, owed>>
        /\ stage' = stage \/ stage' = [stage EXCEPT ![thread.block] = "leaked"]
    BY <1>12 DEF ThreadFlip
  <2>2. \A a \in Block : HasRead(a)' => HasRead(a) /\ sq_buf'[a] = sq_buf[a]
    BY <1>types, <2>1 DEF HasRead
  <2> QED
    BY <1>keep, <2>1, <2>2
<1>13. CASE ThreadStamp
  <2>1. PICK b \in Block : b = thread.block /\ stage[b] = "replied"
    BY <1>13, <1>types DEF ThreadStamp, MainInv
  <2>2. /\ UNCHANGED <<sqMem, hostTail, outstanding, sq_head, sq_buf, rx, rxDone>>
        /\ owed' = Append(owed, sq_buf[b]) /\ stage' = [stage EXCEPT ![b] = "posted"]
    BY <1>13, <2>1 DEF ThreadStamp
  <2>3. rxDone = 1 => rx[1].block # b
    <3> SUFFICES ASSUME rxDone = 1 PROVE rx[1].block # b
      OBVIOUS
    <3>1. 1 \in 1..Len(rx)
      BY <1>types, Elements DEF RxInv
    <3> QED
      BY <1>types, <2>1, <3>1 DEF RxInv
  <2>4. HasRead(b) /\ \A a \in Block : HasRead(a)' => a # b /\ HasRead(a) /\ sq_buf'[a] = sq_buf[a]
    BY <1>types, <2>1, <2>2, <2>3 DEF HasRead
  <2>5. Apart(w)'
    BY <2>2, <2>4, ApartPost
  <2> QED
    BY <1>types, <2>2, <2>5, WindowKeep, FetchKeep
<1> QED
  BY <1>1, <1>2, <1>3, <1>4, <1>5, <1>6, <1>7, <1>8, <1>9, <1>10, <1>11, <1>12, <1>13
  DEF Next, Host, TcIrq, DmaIrq, Thread, Engine

-----------------------------------------------------------------------------
(* The invariant holds                                                     *)

LEMMA InitInv == Init => IInv
<1> SUFFICES ASSUME Init PROVE IInv
  OBVIOUS
<1>sizes. SqSize \in Nat \ {0, 1} /\ CqSize \in Nat \ {0, 1} /\ 0 \in SqSlot /\ 0 \in 0..(CqSize - 1)
  BY SizesAssumption DEF SqSlot
<1>1. TypeOK
  <2>1. /\ \A S : <<>> \in Seq(S)
        /\ Resting \in [pc : {"idle", "flip", "store", "stamp"},
                        block : Block \cup {NoBlock}, tail : 0..(CqSize - 1)]
    BY <1>sizes, EmptySeq DEF Resting
  <2>2. Types
    BY <1>sizes, <2>1 DEF Init, Types, SqSlot, Stages
  <2> QED
    BY <2>2, TypesOne
<1>2. BlocksInv
  BY DEF Init, BlocksInv, RxInv, TxInv, MainInv, Resting
<1>3. HostInv
  BY FS_EmptySet DEF Init, HostInv
<1>4. SqInv
  BY <1>sizes DEF Init, SqInv, Back
<1>5. ContextInv /\ ThreadInv
  BY DEF Init, ContextInv, ThreadInv, Resting
<1>6. R!IInv
  <2>1. thread.pc = "idle"
    BY DEF Init, Resting
  <2>2. TailBefore = 0 /\ PhaseBefore = 0
    BY <2>1 DEF Init, TailBefore, PhaseBefore
  <2>3. Fly = <<>>
    <3>1. tx = <<>> /\ txDone = 0 /\ <<>> \in Seq(Entries) /\ Len(<<>>) = 0
      BY EmptySeq DEF Init
    <3>2. FlyOf(<<>>, 0) \in Seq(Flights) /\ Len(FlyOf(<<>>, 0)) = Len(<<>>) - 0
      <4>1. 0 \in {0, 1} /\ 0 <= Len(<<>>)
        BY <3>1
      <4> QED
        BY <3>1, <4>1, FlyIs
    <3>3. Fly \in Seq(Flights) /\ Len(Fly) = 0
      BY <3>1, <3>2 DEF Fly
    <3> QED
      BY <3>3, EmptySeq
  <2>4. R!Init
    BY <2>2, <2>3 DEF Init, R!Init, R!Slot
  <2> QED
    BY <2>4, RingAssumptions, R!Inductive
<1>7. Window(0) /\ FetchInv(0) /\ Apart(0)
  <2>1. 1..0 = {} /\ Back(0) = 0
    BY <1>sizes DEF Init, Back
  <2>2. \A b \in Block : ~HasRead(b)
    BY DEF Init, HasRead
  <2>3. Window(0) /\ FetchInv(0)
    BY <2>1 DEF Init, Window, FetchInv
  <2>4. Apart(0)
    BY <2>1, <2>2 DEF Init, Apart
  <2> QED
    BY <2>3, <2>4
<1> QED
  BY <1>sizes, <1>1, <1>2, <1>3, <1>4, <1>5, <1>6, <1>7 DEF IInv, OneInv

LEMMA StutterInv ==
  ASSUME IInv, UNCHANGED <<scene, vars>>
  PROVE  IInv'
<1> USE DEF vars, hostVars, regs, sqVars, cqVars, slab, rxVars, txVars, main, ghosts
<1>1. TypeOK'
  BY DEF IInv, TypeOK
<1>2. BlocksInv'
  BY DEF IInv, BlocksInv, RxInv, TxInv, MainInv, Resting
<1>3. ASSUME OneContext' PROVE OneInv'
  <2>1. OneInv
    BY <1>3 DEF IInv, OneContext, CompletedAt
  <2>2. HostInv' /\ SqInv' /\ ContextInv'
    BY <2>1 DEF OneInv, HostInv, SqInv, Back, ContextInv, CompletedAt, Resting
  <2>3. UNCHANGED <<TailBefore, PhaseBefore, Fly>>
    BY DEF TailBefore, PhaseBefore, Fly
  <2>4. R!IInv'
    BY <2>1, <2>3, RingKeep DEF OneInv
  <2>5. ThreadInv'
    BY <2>1 DEF OneInv, ThreadInv, R!Dist, CqNext
  <2>6. PICK w \in SqSlot : Window(w) /\ FetchInv(w) /\ Apart(w)
    BY <2>1 DEF OneInv
  <2>7. \A b \in Block : HasRead(b)' => HasRead(b) /\ sq_buf'[b] = sq_buf[b]
    BY DEF HasRead
  <2>8. w <= w
    BY SizesAssumption DEF SqSlot
  <2>9. Window(w)' /\ FetchInv(w)' /\ Apart(w)'
    BY <2>6, <2>7, <2>8, WindowKeep, FetchKeep, ApartKeep
  <2> QED
    BY <2>2, <2>4, <2>5, <2>9 DEF OneInv
<1> QED
  BY <1>1, <1>2, <1>3 DEF IInv

LEMMA StepInv ==
  ASSUME IInv, Next
  PROVE  IInv'
<1>1. TypeOK /\ BlocksInv /\ TypeOK' /\ BlocksInv'
  BY TypeStep, BlocksStep DEF IInv
<1>2. ASSUME OneContext' PROVE OneInv'
  <2>1. OneContext /\ OneInv
    BY <1>2 DEF IInv, OneContext, CompletedAt, Next
  <2>2. /\ HostInv /\ SqInv /\ ContextInv /\ ThreadInv /\ R!IInv
        /\ \E w \in SqSlot : Window(w) /\ FetchInv(w) /\ Apart(w)
    BY <2>1 DEF OneInv
  <2>3. PICK w \in SqSlot : Window(w) /\ FetchInv(w) /\ Apart(w)
    BY <2>2
  <2>4. HostInv'
    BY <1>1, <2>2, HostStep
  <2>5. ContextInv'
    BY <1>1, <2>1, <2>2, <2>3, ContextStep
  <2>6. R!IInv' /\ ThreadInv'
    BY <1>1, <2>1, <2>2, <2>3, RingStep
  <2>7. \E v \in SqSlot : Window(v)' /\ FetchInv(v)' /\ Apart(v)'
    BY <1>1, <2>2, <2>3, WindowStep
  <2>8. hostTail' # hostTail => Back(sq_head) < SqSize - 1
    <3> SUFFICES ASSUME hostTail' # hostTail PROVE Back(sq_head) < SqSize - 1
      OBVIOUS
    <3>1. PICK c \in Cmd : Submit(c)
      <4> USE DEF hostVars, regs, sqVars, cqVars, slab, rxVars, txVars, main, ghosts
      <4>1. /\ ~(RingTail \/ Consume \/ RingHead \/ TailRead \/ TailDrop \/ HeadHandler \/ IrqExit)
            /\ ~(TailFetch \/ RxCallback \/ TxCallback)
        BY DEF RingTail, Consume, RingHead, TailRead, TailDrop, TailAdvance, HeadHandler, IrqExit,
               TailFetch, RxCallback, TxCallback
      <4>2. /\ ~(Thread \/ Engine)
            /\ \A b \in Block : ~(DataCallback(b) \/ ApuReply(b))
        BY DEF Thread, ThreadReadTail, ThreadFlip, ThreadStoreTail, ThreadStamp, Engine, RxMove,
               TxMove, DataCallback, ApuReply
      <4> QED
        BY <4>1, <4>2 DEF Next, Host, TcIrq, DmaIrq
    <3> QED
      BY <1>1, <2>2, <2>3, <3>1, SubmitWindow
  <2>9. SqInv'
    BY <1>1, <2>2, <2>8, SqStep
  <2> QED
    BY <2>4, <2>5, <2>6, <2>7, <2>9 DEF OneInv
<1> QED
  BY <1>1, <1>2 DEF IInv

LEMMA InvHolds == Spec => []IInv
<1>1. IInv /\ [Next]_<<scene, vars>> => IInv'
  BY StepInv, StutterInv
<1> QED
  BY <1>1, InitInv, PTL DEF Spec

-----------------------------------------------------------------------------
(* The theorems                                                            *)

\* On a queue pair whose commands are all completed by interrupt handlers, or all by the
\* main thread, every command that runs is one the host waits for and none runs
\* twice: nvme_tc_tail_handler's fetches read the entries before the host reuses
\* them, for queues of every size and with any number of blocks.
THEOREM RunsOnceHolds == Spec => [](OneContext => RunsOnce)
<1>1. ASSUME IInv, OneContext PROVE RunsOnce
  <2>1. PICK w \in SqSlot : Apart(w)
    BY <1>1 DEF IInv, OneInv
  <2>2. TypeOK /\ \A b \in Running : b \in Block /\ HasRead(b)
    BY <1>1 DEF IInv, Running, HasRead
  <2> QED
    BY <2>1, <2>2 DEF RunsOnce, Apart
<1> QED
  BY <1>1, InvHolds, PTL

\* With one context, an entry that nvme_cmd_return queued carries the phase bit
\* that the host expects in its slot, and no two entries go to one slot, though the main
\* thread takes tail and phase in steps of their own.
THEOREM PhaseCorrectHolds == Spec => [](OneContext => PhaseCorrect)
<1>1. ASSUME IInv, OneContext PROVE PhaseCorrect
  <2>1. R!IInv /\ TypeOK /\ TxInv
    BY <1>1 DEF IInv, OneInv, BlocksInv
  <2>types. /\ tx \in Seq(Entries) /\ txDone \in {0, 1} /\ txDone <= Len(tx) /\ Len(tx) \in Nat
    BY <2>1, TypesOne, Elements DEF Types, TxInv
  <2> DEFINE n == Len(tx) - txDone
             land == Len(owed) - n
  <2>2. /\ Len(Fly) = n
        /\ \A i \in 1..n : i + txDone \in 1..Len(tx)
        /\ \A i \in 1..n :
             Fly[i] = [slot |-> tx[i + txDone].slot, data |-> tx[i + txDone].data, p |-> tx[i + txDone].p]
    BY <2>types, FlyIs DEF Fly
  <2>3. /\ Len(InFlight) = n
        /\ \A i \in 1..n : InFlight[i] = tx[i + txDone]
    <3>1. \A i \in (1 + txDone)..Len(tx) : tx[i] \in Entries
      BY <2>types, ElementOfSeq
    <3>2. /\ Len(InFlight) = IF 1 + txDone <= Len(tx) THEN Len(tx) - (1 + txDone) + 1 ELSE 0
          /\ \A i \in 1..(Len(tx) - (1 + txDone) + 1) : InFlight[i] = tx[(1 + txDone) + i - 1]
      <4>1. 1 + txDone \in Int /\ Len(tx) \in Int
        BY <2>types
      <4> QED
        BY <3>1, <4>1, SubSeqProperties DEF InFlight
    <3>3. \A i \in 1..n : (1 + txDone) + i - 1 = i + txDone
      BY <2>types
    <3> QED
      BY <2>types, <3>2, <3>3
  <2>4. /\ hostHead \in 0..(CqSize - 1) /\ hostPhase \in {0, 1} /\ Len(owed) \in Nat
        /\ n <= Len(owed) /\ Len(owed) < CqSize /\ CqSize \in Nat
    <3>1. R!Dist(cq_head, hostHead) >= 0
      BY <2>1, RingTypes, SizesAssumption DEF R!Dist
    <3> QED
      BY <2>1, <2>2, <3>1, RingTypes, SizesAssumption DEF R!Dist
  <2>5. \A i \in 1..n : /\ Fly[i].slot = R!SlotAt(land + i - 1)
                        /\ Fly[i].p = R!PhaseFor(land + i - 1)
    BY <2>1, <2>2 DEF R!IInv, R!InflightOwed, R!Landed
  <2>6. \A i \in 1..n : /\ InFlight[i].slot = R!SlotAt(land + i - 1)
                        /\ InFlight[i].p = R!PhaseFor(land + i - 1)
    <3> SUFFICES ASSUME NEW i \in 1..n
                 PROVE  /\ InFlight[i].slot = R!SlotAt(land + i - 1)
                        /\ InFlight[i].p = R!PhaseFor(land + i - 1)
      OBVIOUS
    <3>1. InFlight[i] = tx[i + txDone]
      BY <2>3
    <3>2. Fly[i].slot = tx[i + txDone].slot /\ Fly[i].p = tx[i + txDone].p
      BY <2>2
    <3> QED
      BY <2>5, <3>1, <3>2
  <2>7. \A i \in 1..n : land + i - 1 \in 0..(CqSize - 1)
    BY <2>types, <2>4
  <2>8. \A k \in 0..(CqSize - 1) : R!PhaseFor(k) = ExpectedPhase(R!SlotAt(k))
    BY <2>4 DEF R!PhaseFor, R!PhaseFrom, R!SlotAt, R!SlotFrom, R!Wrap, ExpectedPhase
  <2>9. \A k, m \in 0..(CqSize - 1) : R!SlotAt(k) = R!SlotAt(m) => k = m
    BY <2>4 DEF R!SlotAt, R!SlotFrom, R!Wrap
  <2>10. \A i, j \in 1..n : land + i - 1 = land + j - 1 => i = j
    BY <2>types, <2>4
  <2>11. \A i \in 1..n : InFlight[i].p = ExpectedPhase(InFlight[i].slot)
    BY <2>6, <2>7, <2>8
  <2>12. \A i, j \in 1..n : InFlight[i].slot = InFlight[j].slot => i = j
    BY <2>6, <2>7, <2>9, <2>10
  <2> QED
    BY <2>3, <2>11, <2>12 DEF PhaseCorrect
<1> QED
  BY <1>1, InvHolds, PTL

-----------------------------------------------------------------------------
(* No command is lost unseen                                               *)

\* Where a command that the host waits for is: before it is read ...
Queued(c) == \E s \in SqSlot : Back(s) \in 1..Back(sq_head) /\ sqMem[s] = c

\* ... and after; what the main thread has in hand runs until it is completed.
Later(c) == InBlock(c) \/ InCq(c) \/ c \in lostSlab \/ c \in lostCq

LossInv == \A c \in outstanding : Queued(c) \/ InFetch(c) \/ Later(c)

\* The entries counted from the host's tail are those counted from sq_head.
LEMMA QueuedInSq ==
  ASSUME TypeOK, NEW c, Queued(c)
  PROVE  InSq(c)
<1>types. hostTail \in SqSlot /\ sq_head \in SqSlot /\ SqSize \in Nat \ {0, 1}
  BY SizesAssumption, TypesOne DEF Types, SqSlot
<1>1. PICK s \in SqSlot : Back(s) \in 1..Back(sq_head) /\ sqMem[s] = c
  BY DEF Queued
<1>2. (hostTail - sq_head) % SqSize = Back(sq_head)
  <2>1. CASE sq_head <= hostTail
    BY <1>types, <2>1 DEF Back, SqSlot
  <2>2. CASE sq_head > hostTail
    BY <1>types, <2>2 DEF Back, SqSlot
  <2> QED
    BY <1>types, <2>1, <2>2 DEF SqSlot
<1> DEFINE k == Back(sq_head) - Back(s)
<1>3. k \in SqSlot /\ k < Back(sq_head)
  BY <1>types, <1>1, BackFacts DEF SqSlot
<1>4. sq_head + k = s \/ sq_head + k = s + SqSize
  BY <1>types, <1>1 DEF Back, SqSlot
<1>5. (sq_head + k) % SqSize = s
  <2>1. s % SqSize = s /\ (s + SqSize) % SqSize = s
    BY <1>types, <1>1 DEF SqSlot
  <2> QED
    BY <1>4, <2>1
<1> QED
  BY <1>1, <1>2, <1>3, <1>5 DEF InSq, SqSlot

LEMMA QueuedKeep ==
  ASSUME NEW c, Queued(c), UNCHANGED <<sqMem, hostTail, sq_head>>
  PROVE  Queued(c)'
BY DEF Queued, Back

\* A fetch stays what it is unless its entry or its block is written.
LEMMA InFetchKeep ==
  ASSUME TypeOK, RxInv, NEW c, InFetch(c), UNCHANGED <<sqMem, rx, rxDone>>,
         \A b \in Block : stage[b] = "fetch" => sq_buf'[b] = sq_buf[b]
  PROVE  InFetch(c)'
<1>1. \A i \in 1..Len(rx) : sq_buf'[rx[i].block] = sq_buf[rx[i].block]
  BY Elements DEF RxInv
<1> QED
  BY <1>1 DEF InFetch

\* A command that was read runs on, is answered or is counted as lost.
LEMMA LaterKeep ==
  ASSUME NEW c, Later(c), lostSlab \subseteq lostSlab', lostCq \subseteq lostCq',
         InCq(c) => InCq(c)',
         \A b \in Block : b \in Running /\ sq_buf[b] = c
           => (b \in Running' /\ sq_buf'[b] = c) \/ InCq(c)' \/ c \in lostCq'
  PROVE  Later(c)'
<1>1. Running \subseteq Block
  BY DEF Running
<1> QED
  BY <1>1 DEF Later, InBlock

\* A completion is queued behind those that are owed.
LEMMA OwedPut ==
  ASSUME TypeOK, NEW d \in Cmd \cup {NoCmd}, owed' = Append(owed, d)
  PROVE  InCq(d)' /\ \A c : InCq(c) => InCq(c)'
<1>1. owed \in Seq(Cmd \cup {NoCmd})
  BY TypesOne DEF Types
<1>2. /\ Len(owed') = Len(owed) + 1 /\ Len(owed) \in Nat
      /\ \A j \in 1..Len(owed) : owed'[j] = owed[j]
      /\ owed'[Len(owed) + 1] = d
  BY <1>1, Appended
<1>3. Len(owed) + 1 \in 1..Len(owed') /\ 1..Len(owed) \subseteq 1..Len(owed')
  BY <1>2
<1> QED
  BY <1>2, <1>3 DEF InCq

\* nvme_cmd_return in a handler: the command of b is answered or lost.
LEMMA ReturnPlaces ==
  ASSUME TypeOK, NEW b \in Block, Return(b)
  PROVE  /\ \A c : InCq(c) => InCq(c)'
         /\ \A c : c = sq_buf[b] => InCq(c)' \/ c \in lostCq'
         /\ lostCq \subseteq lostCq'
         /\ \A x \in Block \ {b} : stage'[x] = stage[x]
<1>types. stage \in [Block -> Stages] /\ sq_buf[b] \in Cmd \cup {NoCmd}
  BY TypesOne DEF Types
<1>1. CASE ~Full(cq_tail)
  <2>1. /\ owed' = Append(owed, sq_buf[b]) /\ lostCq' = lostCq
        /\ stage' = [stage EXCEPT ![b] = "posted"]
    BY <1>1 DEF Return
  <2>2. PICK d \in Cmd \cup {NoCmd} : d = sq_buf[b]
    BY <1>types
  <2>3. InCq(d)' /\ \A c : InCq(c) => InCq(c)'
    BY <2>1, <2>2, OwedPut
  <2> QED
    BY <1>types, <2>1, <2>2, <2>3
<1>2. CASE Full(cq_tail)
  <2>1. /\ owed' = owed /\ lostCq' = lostCq \cup {sq_buf[b]}
        /\ stage' = [stage EXCEPT ![b] = "leaked"]
    BY <1>2 DEF Return
  <2>2. \A c : InCq(c) => InCq(c)'
    BY <2>1 DEF InCq
  <2> QED
    BY <1>types, <2>1, <2>2
<1> QED
  BY <1>1, <1>2

\* Every step keeps the commands that the host waits for in sight.
LEMMA LossStep ==
  ASSUME TypeOK, BlocksInv, HostInv, SqInv, R!IInv, LossInv,
         NEW w \in SqSlot, Window(w), FetchInv(w), Apart(w), Next
  PROVE  LossInv'
<1> USE DEF hostVars, regs, sqVars, cqVars, slab, rxVars, txVars, main, ghosts
<1>types. /\ hostTail \in SqSlot /\ sq_head \in SqSlot /\ sqMem \in [SqSlot -> Cmd \cup {NoCmd}]
          /\ stage \in [Block -> Stages] /\ sq_buf \in [Block -> Cmd \cup {NoCmd}]
          /\ rx \in Seq(Fetches) /\ tx \in Seq(Entries) /\ rxDone \in {0, 1}
          /\ RxInv /\ TxInv /\ MainInv
  BY TypesOne DEF Types, SqSlot, BlocksInv
\* Steps that neither submit nor read a command.
<1>keep. ASSUME UNCHANGED <<sqMem, hostTail, sq_head, rx, rxDone>>, outstanding' \subseteq outstanding,
                \A b \in Block : stage[b] = "fetch" => sq_buf'[b] = sq_buf[b],
                \A c \in outstanding' : Later(c) => Later(c)'
         PROVE  LossInv'
  <2> SUFFICES ASSUME NEW c \in outstanding' PROVE Queued(c)' \/ InFetch(c)' \/ Later(c)'
    BY DEF LossInv
  <2>1. Queued(c) \/ InFetch(c) \/ Later(c)
    BY <1>keep DEF LossInv
  <2> QED
    BY <1>types, <1>keep, <2>1, QueuedKeep, InFetchKeep
<1>same. ASSUME UNCHANGED <<sqMem, hostTail, outstanding, sq_head, rx, rxDone, stage, sq_buf, owed,
                            lostSlab, lostCq>>
         PROVE  LossInv'
  <2>1. \A c : Later(c) => Later(c)'
    BY <1>same DEF Later, InBlock, InCq, Running
  <2> QED
    BY <1>same, <1>keep, <2>1
<1>1. ASSUME NEW d \in Cmd, Submit(d) PROVE LossInv'
  <2>0. /\ sqMem' = [sqMem EXCEPT ![hostTail] = d] /\ hostTail' = SqNext(hostTail)
        /\ outstanding' = outstanding \cup {d}
        /\ UNCHANGED <<sq_head, rx, rxDone, stage, sq_buf, owed, lostSlab, lostCq>>
    BY <1>1 DEF Submit
  <2>1. Back(sq_head) < SqSize - 1
    BY <1>1, SubmitWindow
  <2>2. \A s \in SqSlot : Back(s)' = IF Back(s) = SqSize - 1 THEN 0 ELSE Back(s) + 1
    BY <2>0, BackAfter
  <2>3. /\ \A s \in SqSlot : Back(s) \in SqSlot /\ (Back(s) = 0 <=> s = hostTail)
        /\ SqSize \in Nat \ {0, 1}
    BY BackFacts
  <2>4. Back(sq_head)' = Back(sq_head) + 1
    <3>1. PICK h \in SqSlot : h = sq_head /\ h = sq_head'
      BY <1>types, <2>0
    <3>2. Back(h)' = Back(h) + 1
      BY <2>1, <2>2, <2>3, <3>1 DEF SqSlot
    <3> QED
      BY <3>1, <3>2
  <2>5. PICK n \in SqSlot : n = Back(sq_head)
    BY <1>types, <2>3
  <2>6. Queued(d)'
    <3>1. Back(hostTail) = 0
      BY <1>types, <2>3
    <3>2. PICK t \in SqSlot : t = hostTail
      BY <1>types
    <3>3. Back(t)' = 1 /\ sqMem'[t] = d
      BY <1>types, <2>0, <2>2, <2>3, <3>1, <3>2
    <3>4. 1 \in 1..(n + 1)
      BY DEF SqSlot
    <3> QED
      BY <2>4, <2>5, <3>3, <3>4 DEF Queued
  <2>7. ASSUME NEW c \in outstanding PROVE Queued(c)' \/ InFetch(c)' \/ Later(c)'
    <3>1. CASE Queued(c)
      <4>1. PICK s \in SqSlot : Back(s) \in 1..n /\ sqMem[s] = c
        BY <2>5, <3>1 DEF Queued
      <4>2. s # hostTail /\ sqMem'[s] = c
        BY <1>types, <2>0, <2>3, <4>1
      <4>3. Back(s)' \in 1..(n + 1)
        BY <2>1, <2>2, <2>3, <2>5, <4>1 DEF SqSlot
      <4> QED
        BY <2>4, <2>5, <4>2, <4>3 DEF Queued
    <3>2. CASE InFetch(c)
      <4>1. \A i \in 1..Len(rx) : i > rxDone => rx[i].src # hostTail /\ rx[i].src \in SqSlot
        <5> SUFFICES ASSUME NEW i \in 1..Len(rx), i > rxDone
                     PROVE  rx[i].src # hostTail /\ rx[i].src \in SqSlot
          OBVIOUS
        <5>1. rx[i].src \in SqSlot
          BY Elements
        <5>2. n < Back(rx[i].src)
          BY <2>5 DEF FetchInv
        <5> QED
          BY <2>3, <5>1, <5>2 DEF SqSlot
      <4>2. \A i \in 1..Len(rx) : i > rxDone => sqMem'[rx[i].src] = sqMem[rx[i].src]
        BY <1>types, <2>0, <4>1
      <4>3. \A i \in 1..Len(rx) : i > rxDone \/ i <= rxDone
        BY <1>types, Elements
      <4> QED
        BY <2>0, <3>2, <4>2, <4>3 DEF InFetch
    <3>3. CASE Later(c)
      BY <2>0, <3>3 DEF Later, InBlock, InCq, Running
    <3> QED
      BY <3>1, <3>2, <3>3 DEF LossInv
  <2> QED
    BY <2>0, <2>6, <2>7 DEF LossInv
<1>2. CASE Consume
  <2>1. /\ owed # <<>> /\ owed' = Tail(owed) /\ outstanding' = outstanding \ {Head(owed)}
    BY <1>2, RingConsume DEF Consume
  <2>2. /\ Len(owed) \in Nat \ {0} /\ Head(owed) = owed[1] /\ Len(owed') = Len(owed) - 1
        /\ \A j \in 1..(Len(owed) - 1) : owed'[j] = owed[j + 1]
    BY <2>1, RingTypes, HeadTail
  <2>3. ASSUME NEW c \in outstanding', InCq(c) PROVE InCq(c)'
    <3>1. PICK i \in 1..Len(owed) : owed[i] = c
      BY <2>3 DEF InCq
    <3>2. i # 1
      BY <2>1, <2>2, <2>3, <3>1
    <3>3. i - 1 \in 1..Len(owed') /\ owed'[i - 1] = owed[(i - 1) + 1] /\ (i - 1) + 1 = i
      BY <2>2, <3>2
    <3> QED
      BY <3>1, <3>3 DEF InCq
  <2>4. UNCHANGED <<sqMem, hostTail, sq_head, rx, rxDone, stage, sq_buf, lostSlab, lostCq>>
    BY <1>2 DEF Consume
  <2>5. ASSUME NEW c \in outstanding', Later(c) PROVE Later(c)'
    BY <2>3, <2>4, <2>5 DEF Later, InBlock, Running
  <2> QED
    BY <1>keep, <2>1, <2>4, <2>5
<1>4. CASE RingTail \/ RingHead \/ TailRead \/ HeadHandler \/ IrqExit
  BY <1>4, <1>same DEF RingTail, RingHead, TailRead, HeadHandler, IrqExit
<1>5. CASE ThreadReadTail \/ ThreadStoreTail \/ TxMove
  BY <1>5, <1>same DEF ThreadReadTail, ThreadStoreTail, TxMove
\* The handler takes the entry at sq_head: the others stay queued.
<1>tail. ASSUME TailFetch \/ TailDrop, NEW c, Queued(c) PROVE Queued(c)' \/ sqMem[sq_head] = c
  <2>1. /\ isr = "tail" /\ sq_head' = SqNext(sq_head) /\ UNCHANGED <<sqMem, hostTail>>
    BY <1>tail DEF TailFetch, TailDrop, TailAdvance
  <2>2. Back(sq_head) \in SqSlot /\ Back(sq_head) # 0 /\ Back(SqNext(sq_head)) = Back(sq_head) - 1
    <3>1. sq_tail \in SqSlot /\ Back(sq_tail) <= Back(sq_head) /\ sq_head # sq_tail
      BY <2>1, TypesOne DEF SqInv, Types, SqSlot
    <3>2. Back(sq_head) \in SqSlot /\ Back(sq_tail) \in SqSlot /\ Back(sq_head) # Back(sq_tail)
      BY <1>types, <3>1, BackFacts
    <3>3. Back(sq_head) # 0
      BY <3>1, <3>2, SizesAssumption DEF SqSlot
    <3> QED
      BY <1>types, <3>2, <3>3, BackFacts
  <2>3. PICK n \in SqSlot : n = Back(sq_head) /\ n # 0
    BY <2>2
  <2>4. Back(sq_head)' = n - 1
    BY <2>1, <2>2, <2>3 DEF Back
  <2>5. PICK s \in SqSlot : Back(s) \in 1..n /\ sqMem[s] = c
    BY <1>tail, <2>3 DEF Queued
  <2>6. Back(s)' = Back(s)
    BY <2>1 DEF Back
  <2>7. CASE s = sq_head
    BY <2>5, <2>7
  <2>8. CASE s # sq_head
    <3>1. Back(s) # n
      BY <1>types, <2>3, <2>8, BackFacts
    <3>2. Back(s)' \in 1..(n - 1)
      BY <2>5, <2>6, <3>1 DEF SqSlot
    <3> QED
      BY <2>1, <2>4, <2>5, <3>2 DEF Queued
  <2> QED
    BY <2>7, <2>8
<1>6. CASE TailDrop
  <2>1. /\ UNCHANGED <<sqMem, outstanding, rx, rxDone, stage, sq_buf, owed, lostCq>>
        /\ lostSlab' = lostSlab \cup {sqMem[sq_head]}
    BY <1>6 DEF TailDrop, TailAdvance
  <2> SUFFICES ASSUME NEW c \in outstanding PROVE Queued(c)' \/ InFetch(c)' \/ Later(c)'
    BY <2>1 DEF LossInv
  <2>2. CASE Queued(c)
    BY <1>6, <1>tail, <2>1, <2>2 DEF Later
  <2>3. CASE InFetch(c)
    BY <1>types, <2>1, <2>3, InFetchKeep
  <2>4. CASE Later(c)
    BY <2>1, <2>4 DEF Later, InBlock, InCq, Running
  <2> QED
    BY <2>2, <2>3, <2>4 DEF LossInv
<1>7. CASE TailFetch
  <2>1. PICK b \in Block : /\ stage' = [stage EXCEPT ![b] = "fetch"] /\ stage[b] = "free"
                           /\ rx' = Append(rx, [block |-> b, src |-> sq_head])
    <3>1. (CHOOSE b \in Free : TRUE) \in Block /\ (CHOOSE b \in Free : TRUE) \in Free
      BY <1>7, HostAssumption, TypesOne DEF TailFetch, Free, Types, Scene
    <3>2. stage[CHOOSE b \in Free : TRUE] = "free"
      BY <3>1 DEF Free
    <3> QED
      BY <1>7, <3>1, <3>2 DEF TailFetch
  <2>2. UNCHANGED <<sqMem, outstanding, owed, sq_buf, rxDone, lostSlab, lostCq>>
    BY <1>7 DEF TailFetch, TailAdvance
  <2>3. [block |-> b, src |-> sq_head] \in Fetches
    BY TypesOne DEF Types, Fetches
  <2>4. /\ Len(rx') = Len(rx) + 1 /\ Len(rx) \in Nat
        /\ \A j \in 1..Len(rx) : rx'[j] = rx[j]
        /\ rx'[Len(rx) + 1].src = sq_head
    BY <1>types, <2>1, <2>3, Appended
  <2>5. /\ 1..Len(rx) \subseteq 1..Len(rx') /\ Len(rx) + 1 \in 1..Len(rx')
        /\ ~(Len(rx) + 1 <= rxDone)
    BY <1>types, <2>4 DEF RxInv
  <2> SUFFICES ASSUME NEW c \in outstanding PROVE Queued(c)' \/ InFetch(c)' \/ Later(c)'
    BY <2>2 DEF LossInv
  <2>6. CASE Queued(c)
    <3>1. sqMem[sq_head] = c => InFetch(c)'
      BY <2>2, <2>4, <2>5 DEF InFetch
    <3> QED
      BY <1>7, <1>tail, <2>6, <3>1
  <2>7. CASE InFetch(c)
    BY <2>2, <2>4, <2>5, <2>7 DEF InFetch
  <2>8. CASE Later(c)
    <3>1. Running \subseteq Running'
      BY <1>types, <2>1 DEF Running
    <3> QED
      BY <2>2, <2>8, <3>1 DEF Later, InBlock, InCq
  <2> QED
    BY <2>6, <2>7, <2>8 DEF LossInv
<1>3. CASE RxMove
  <2>1. /\ rx # <<>> /\ rxDone = 0 /\ rxDone' = 1
        /\ UNCHANGED <<sqMem, hostTail, outstanding, sq_head, stage, rx, owed, lostSlab, lostCq>>
        /\ sq_buf' = [sq_buf EXCEPT ![Head(rx).block] = sqMem[Head(rx).src]]
    BY <1>3 DEF RxMove
  <2>2. Len(rx) \in Nat \ {0} /\ Head(rx) = rx[1] /\ 1 \in 1..Len(rx)
    BY <1>types, <2>1, HeadTail
  <2>3. PICK b \in Block : b = rx[1].block /\ stage[b] = "fetch"
    BY <1>types, <2>2, Elements DEF RxInv
  <2>4. sq_buf'[b] = sqMem[rx[1].src] /\ \A x \in Block \ {b} : sq_buf'[x] = sq_buf[x]
    BY <1>types, <2>1, <2>2, <2>3
  <2> SUFFICES ASSUME NEW c \in outstanding PROVE Queued(c)' \/ InFetch(c)' \/ Later(c)'
    BY <2>1 DEF LossInv
  <2>5. CASE Queued(c)
    BY <2>1, <2>5, QueuedKeep
  <2>6. CASE InFetch(c)
    <3>1. PICK i \in 1..Len(rx) : c = sqMem[rx[i].src]
      <4>1. \A i \in 1..Len(rx) : ~(i <= rxDone)
        BY <2>1, <2>2
      <4> QED
        BY <2>6, <4>1 DEF InFetch
    <3>2. CASE i = 1
      BY <2>1, <2>2, <2>3, <2>4, <3>1, <3>2 DEF InFetch
    <3>3. CASE i # 1
      <4>1. ~(i <= rxDone')
        BY <2>1, <2>2, <3>3
      <4> QED
        BY <2>1, <3>1, <4>1 DEF InFetch
    <3> QED
      BY <3>2, <3>3
  <2>7. CASE Later(c)
    <3>1. Running' = Running /\ \A x \in Running : sq_buf'[x] = sq_buf[x]
      BY <2>1, <2>3, <2>4 DEF Running
    <3> QED
      BY <2>1, <2>7, <3>1 DEF Later, InBlock, InCq
  <2> QED
    BY <2>5, <2>6, <2>7 DEF LossInv
<1>8. CASE RxCallback
  <2>0. PICK b \in Block : b = rx[1].block
    BY <1>8, <1>types, CallbackReads
  <2>1. /\ Head(rx).block = b /\ stage[b] = "fetch" /\ rxDone = 1 /\ rxDone' = 0 /\ rx # <<>>
        /\ rx' = Tail(rx)
        /\ UNCHANGED <<sqMem, hostTail, sq_head, outstanding, sq_buf, lostSlab>>
    BY <1>8, <1>types, <2>0, CallbackReads DEF RxCallback
  <2>2. /\ Len(rx') = Len(rx) - 1 /\ Len(rx) \in Nat \ {0}
        /\ \A j \in 1..(Len(rx) - 1) : rx'[j] = rx[j + 1]
    BY <1>types, <2>1, HeadTail
  <2>3. \/ Return(b)
        \/ /\ sq_buf[b] \in CompletedAt("data") \cup CompletedAt("apu")
           /\ stage' = [stage EXCEPT ![b] = scene.kind[sq_buf[b]]] /\ UNCHANGED <<owed, lostCq>>
    BY <1>8, <2>1 DEF RxCallback
  <2>4. /\ \A c : InCq(c) => InCq(c)'
        /\ \A c : c = sq_buf[b] => b \in Running' \/ InCq(c)' \/ c \in lostCq'
        /\ lostCq \subseteq lostCq'
        /\ \A x \in Block \ {b} : stage'[x] = stage[x]
    <3>1. CASE Return(b)
      BY <3>1, ReturnPlaces
    <3>2. CASE /\ sq_buf[b] \in CompletedAt("data") \cup CompletedAt("apu")
               /\ stage' = [stage EXCEPT ![b] = scene.kind[sq_buf[b]]] /\ UNCHANGED <<owed, lostCq>>
      <4>1. stage'[b] \in {"data", "apu"}
        BY <1>types, <3>2 DEF CompletedAt
      <4>2. b \in Running'
        BY <4>1 DEF Running
      <4> QED
        BY <1>types, <3>2, <4>2 DEF InCq
    <3> QED
      BY <2>3, <3>1, <3>2
  <2> SUFFICES ASSUME NEW c \in outstanding PROVE Queued(c)' \/ InFetch(c)' \/ Later(c)'
    BY <2>1 DEF LossInv
  <2>5. CASE Queued(c)
    BY <2>1, <2>5, QueuedKeep
  <2>6. CASE InFetch(c)
    <3>1. PICK i \in 1..Len(rx) : c = IF i <= rxDone THEN sq_buf[rx[i].block] ELSE sqMem[rx[i].src]
      BY <2>6 DEF InFetch
    <3>2. CASE i = 1
      <4>1. c = sq_buf[b]
        BY <2>0, <2>1, <3>1, <3>2
      <4> QED
        BY <2>1, <2>4, <4>1 DEF Later, InBlock
    <3>3. CASE i # 1
      <4>1. /\ c = sqMem[rx[i].src] /\ i - 1 \in 1..Len(rx') /\ rx'[i - 1] = rx[(i - 1) + 1]
            /\ (i - 1) + 1 = i /\ ~(i - 1 <= rxDone')
        BY <2>1, <2>2, <3>1, <3>3
      <4> QED
        BY <2>1, <4>1 DEF InFetch
    <3> QED
      BY <3>2, <3>3
  <2>7. CASE Later(c)
    <3>1. \A x \in Block : x \in Running /\ sq_buf[x] = c => x \in Running' /\ sq_buf'[x] = c
      BY <2>1, <2>4 DEF Running
    <3> QED
      BY <2>1, <2>4, <2>7, <3>1, LaterKeep
  <2> QED
    BY <2>5, <2>6, <2>7 DEF LossInv
<1>9. ASSUME NEW b \in Block, DataCallback(b) PROVE LossInv'
  <2>1. /\ stage[b] = "data" /\ Return(b)
        /\ UNCHANGED <<sqMem, hostTail, outstanding, sq_head, sq_buf, rx, rxDone, lostSlab>>
    BY <1>9 DEF DataCallback
  <2>2. /\ \A c : InCq(c) => InCq(c)'
        /\ \A c : c = sq_buf[b] => InCq(c)' \/ c \in lostCq'
        /\ lostCq \subseteq lostCq'
        /\ \A x \in Block \ {b} : stage'[x] = stage[x]
    BY <2>1, ReturnPlaces
  <2>3. \A x \in Block \ {b} : x \in Running => x \in Running'
    BY <2>2 DEF Running
  <2>4. ASSUME NEW c, Later(c) PROVE Later(c)'
    BY <2>1, <2>2, <2>3, <2>4, LaterKeep
  <2> QED
    BY <1>keep, <2>1, <2>4
<1>10. CASE TxCallback
  <2>1. /\ txDone = 1
        /\ UNCHANGED <<sqMem, hostTail, outstanding, sq_head, rx, rxDone, owed, lostSlab, lostCq>>
        /\ stage' = [stage EXCEPT ![Head(tx).block] = "free"]
        /\ sq_buf' = [sq_buf EXCEPT ![Head(tx).block] = NoCmd]
    BY <1>10 DEF TxCallback
  <2>2. tx # <<>> /\ Head(tx) = tx[1] /\ 1 \in 1..Len(tx)
    <3>1. tx # <<>>
      BY <1>types, <2>1 DEF TxInv
    <3> QED
      BY <1>types, <3>1, HeadTail
  <2>3. PICK b \in Block : b = Head(tx).block /\ stage[b] = "posted"
    BY <1>types, <2>2, Elements DEF TxInv
  <2>4. \A x \in Block \ {b} : stage'[x] = stage[x] /\ sq_buf'[x] = sq_buf[x]
    BY <1>types, <2>1, <2>3
  <2>5. ASSUME NEW c, Later(c) PROVE Later(c)'
    <3>1. \A x \in Block : x \in Running /\ sq_buf[x] = c => x \in Running' /\ sq_buf'[x] = c
      BY <2>3, <2>4 DEF Running
    <3>2. InCq(c) => InCq(c)'
      BY <2>1 DEF InCq
    <3> QED
      BY <2>1, <2>5, <3>1, <3>2, LaterKeep
  <2>6. \A x \in Block : stage[x] = "fetch" => sq_buf'[x] = sq_buf[x]
    BY <2>3, <2>4
  <2> QED
    BY <1>keep, <2>1, <2>5, <2>6
<1>11. ASSUME NEW b \in Block, ApuReply(b) PROVE LossInv'
  <2>1. /\ UNCHANGED <<sqMem, hostTail, outstanding, sq_head, sq_buf, rx, rxDone, owed, lostSlab, lostCq>>
        /\ stage' = [stage EXCEPT ![b] = "replied"]
    BY <1>11 DEF ApuReply
  <2>2. Running \subseteq Running'
    BY <1>types, <2>1 DEF Running
  <2>3. ASSUME NEW c, Later(c) PROVE Later(c)'
    BY <2>1, <2>2, <2>3 DEF Later, InBlock, InCq
  <2> QED
    BY <1>keep, <2>1, <2>3
<1>12. CASE ThreadFlip
  <2>0. PICK b \in Block : b = thread.block
    BY <1>12, <1>types DEF ThreadFlip, MainInv
  <2>1. /\ UNCHANGED <<sqMem, hostTail, outstanding, sq_head, sq_buf, rx, rxDone, owed, lostSlab>>
        /\ \/ UNCHANGED <<stage, lostCq>>
           \/ /\ stage' = [stage EXCEPT ![b] = "leaked"]
              /\ lostCq' = lostCq \cup {sq_buf[b]}
    BY <1>12, <2>0 DEF ThreadFlip
  <2>2. ASSUME NEW c, Later(c) PROVE Later(c)'
    <3>1. \A x \in Block : x \in Running /\ sq_buf[x] = c
            => (x \in Running' /\ sq_buf'[x] = c) \/ c \in lostCq'
      BY <1>types, <2>1 DEF Running
    <3>2. InCq(c) => InCq(c)'
      BY <2>1 DEF InCq
    <3>3. lostCq \subseteq lostCq'
      BY <2>1
    <3> QED
      BY <2>1, <2>2, <3>1, <3>2, <3>3, LaterKeep
  <2> QED
    BY <1>keep, <2>1, <2>2
<1>13. CASE ThreadStamp
  <2>1. PICK b \in Block : b = thread.block
    BY <1>13, <1>types DEF ThreadStamp, MainInv
  <2>2. /\ UNCHANGED <<sqMem, hostTail, outstanding, sq_head, sq_buf, rx, rxDone, lostSlab, lostCq>>
        /\ owed' = Append(owed, sq_buf[b]) /\ stage' = [stage EXCEPT ![b] = "posted"]
    BY <1>13, <2>1 DEF ThreadStamp
  <2>3. PICK d \in Cmd \cup {NoCmd} : d = sq_buf[b]
    BY <1>types
  <2>4. InCq(d)' /\ \A c : InCq(c) => InCq(c)'
    BY <2>2, <2>3, OwedPut
  <2>5. ASSUME NEW c, Later(c) PROVE Later(c)'
    <3>1. \A x \in Block : x \in Running /\ sq_buf[x] = c
            => (x \in Running' /\ sq_buf'[x] = c) \/ InCq(c)'
      BY <1>types, <2>2, <2>3, <2>4 DEF Running
    <3> QED
      BY <2>2, <2>4, <2>5, <3>1, LaterKeep
  <2> QED
    BY <1>keep, <2>2, <2>5
<1> QED
  BY <1>1, <1>2, <1>3, <1>4, <1>5, <1>6, <1>7, <1>8, <1>9, <1>10, <1>11, <1>12, <1>13
  DEF Next, Host, TcIrq, DmaIrq, Thread, Engine

\* On a queue pair whose commands are all completed in one context, a command that the
\* host waits for is in the submission queue, in a fetch, running, with the main
\* thread or in the completion queue, or it is one of those that nvme_tc_tail_handler
\* or nvme_cmd_return gave up for lack of room: no other step loses one, in no order.
THEOREM LossAccountedHolds == Spec => [](OneContext => LossAccounted)
<1> DEFINE J == OneContext => LossInv
<1>1. Init => J
  BY DEF Init, LossInv
<1>2. IInv /\ J /\ [Next]_<<scene, vars>> => J'
  <2> SUFFICES ASSUME IInv, J, [Next]_<<scene, vars>>, OneContext' PROVE LossInv'
    OBVIOUS
  <2>1. CASE Next
    <3>1. OneContext
      BY <2>1 DEF OneContext, CompletedAt, Next
    <3>2. LossInv /\ OneInv /\ TypeOK /\ BlocksInv
      BY <3>1 DEF IInv
    <3>3. PICK w \in SqSlot : Window(w) /\ FetchInv(w) /\ Apart(w)
      BY <3>2 DEF OneInv
    <3>4. HostInv /\ SqInv /\ R!IInv
      BY <3>2 DEF OneInv
    <3> QED
      BY <2>1, <3>2, <3>3, <3>4, LossStep
  <2>2. CASE UNCHANGED <<scene, vars>>
    <3> USE DEF vars, hostVars, regs, sqVars, cqVars, slab, rxVars, txVars, main, ghosts
    <3>1. LossInv
      BY <2>2 DEF OneContext, CompletedAt
    <3>2. \A c : /\ Queued(c) => Queued(c)'
                 /\ InFetch(c) => InFetch(c)'
                 /\ Later(c) => Later(c)'
      BY <2>2 DEF Queued, Back, InFetch, Later, InBlock, InCq, Running
    <3> QED
      BY <2>2, <3>1, <3>2 DEF LossInv
  <2> QED
    BY <2>1, <2>2
<1>3. IInv /\ J => (OneContext => LossAccounted)
  <2> SUFFICES ASSUME IInv, LossInv PROVE LossAccounted
    OBVIOUS
  <2>1. TypeOK
    BY DEF IInv
  <2> QED
    BY <2>1, QueuedInSq DEF LossInv, LossAccounted, Later
<1> HIDE DEF J
<1> QED
  BY <1>1, <1>2, <1>3, InvHolds, PTL DEF Spec
=============================================================================
