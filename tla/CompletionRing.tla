--------------------------- MODULE CompletionRing ---------------------------
(***************************************************************************)
(* One NVMe completion queue, seen from both ends.  The RPU posts entries  *)
(* (nvme_cmd_return in cmd.c, nvme_tc_get_cq_addr in tc.c): it takes the   *)
(* slot at the tail unless the ring is full as far as it knows, stamps the *)
(* entry with the phase bit of the current pass and leaves the copying to  *)
(* the DMA engine, which writes host memory in submission order            *)
(* (DmaService).  The host recognises a new entry by its phase bit alone,  *)
(* consumes it, and tells the RPU how far it got by the head doorbell,     *)
(* which the RPU reads only when it serves the TC interrupt.               *)
(*                                                                         *)
(* Here every post is one step, as it is for the commands that complete in *)
(* interrupt context; NvmeQueuePair has the ones that complete in the main *)
(* thread.                                                                 *)
(***************************************************************************)
EXTENDS Integers, Sequences

CONSTANTS
  Size,        \* cq_size: the entries of the ring
  Data,        \* what an entry tells the host: the command that completed
  NoData,      \* what the host's zeroed memory holds
  MaxIrq       \* bound: writes to the head doorbell that wait to be served

ASSUME SizeAssumption == Size \in Nat \ {0}
ASSUME DataAssumption == NoData \notin Data
ASSUME IrqAssumption  == MaxIrq \in Nat \ {0}

Slot  == 0..(Size - 1)
Phase == {0, 1}

VARIABLES
  cq_head,     \* the head the RPU knows of
  cq_tail,     \* where the RPU posts next
  cq_phase,    \* the phase bit of the entry posted last
  inflight,    \* entries handed to the DMA engine and not yet in host memory
  ring,        \* the ring in host memory
  hostHead,    \* host: the slot it looks at next
  hostPhase,   \* host: the phase bit of a new entry in that slot
  headDb,      \* the head doorbell register
  headIrq,     \* TC interrupts pending, one for each write to the doorbell
  owed,        \* history: what was posted and the host has not yet consumed
  dropped      \* history: 1 once a completion found no slot and was lost

ctrl == <<cq_head, cq_tail, cq_phase>>
host == <<hostHead, hostPhase>>
vars == <<cq_head, cq_tail, cq_phase, inflight, ring, hostHead, hostPhase,
          headDb, headIrq, owed, dropped>>

Init ==
  /\ cq_head = 0 /\ cq_tail = 0 /\ cq_phase = 0
  /\ inflight = <<>>
  /\ ring = [s \in Slot |-> [data |-> NoData, p |-> 0]]
  /\ hostHead = 0 /\ hostPhase = 1
  /\ headDb = 0 /\ headIrq = 0
  /\ owed = <<>> /\ dropped = 0

-----------------------------------------------------------------------------
(* The RPU                                                                 *)

NextSlot(s) == (s + 1) % Size

\* Mutants: no test, and one that is a slot too strict.
FullUntested == FALSE
FullEarly    == cq_head \in {NextSlot(cq_tail), NextSlot(NextSlot(cq_tail))}

\* nvme_tc_get_cq_addr: the slot after the tail is never used, so that a
\* full ring and an empty one differ.
Full == cq_head = NextSlot(cq_tail)

\* Mutant: the flip comes with the last slot of a pass.
PhaseAtEnd(tail, phase) == IF tail = Size - 1 THEN 1 - phase ELSE phase

\* The phase bit flips when the tail is back at the first slot.
PhaseAt(tail, phase) == IF tail = 0 THEN 1 - phase ELSE phase

\* nvme_cmd_return: take a slot, stamp the phase, queue the DMA transfer.
Post(d) ==
  /\ ~Full
  /\ cq_phase' = PhaseAt(cq_tail, cq_phase)
  /\ cq_tail'  = NextSlot(cq_tail)
  /\ inflight' = Append(inflight, [slot |-> cq_tail, data |-> d,
                                   p |-> PhaseAt(cq_tail, cq_phase)])
  /\ owed'     = Append(owed, d)
  /\ UNCHANGED <<cq_head, ring, host, headDb, headIrq, dropped>>

\* nvme_cmd_return without a slot: it returns, and nobody tries again.
PostFull ==
  /\ Full
  /\ dropped' = 1
  /\ UNCHANGED <<ctrl, inflight, ring, host, headDb, headIrq, owed>>

\* Mutant: the head is not stored.
HeadHandlerForgets ==
  /\ headIrq > 0
  /\ headIrq' = headIrq - 1
  /\ UNCHANGED <<ctrl, inflight, ring, host, headDb, owed, dropped>>

\* nvme_tc_head_handler: the doorbell is read when the interrupt is served,
\* and may hold the value of a later write than the one that is served.
HeadHandler ==
  /\ headIrq > 0
  /\ cq_head' = headDb
  /\ headIrq' = headIrq - 1
  /\ UNCHANGED <<cq_tail, cq_phase, inflight, ring, host, headDb, owed, dropped>>

-----------------------------------------------------------------------------
(* The DMA engine and the host                                             *)

DmaWrite ==
  /\ inflight # <<>>
  /\ ring' = [ring EXCEPT ![Head(inflight).slot] =
                [data |-> Head(inflight).data, p |-> Head(inflight).p]]
  /\ inflight' = Tail(inflight)
  /\ UNCHANGED <<ctrl, host, headDb, headIrq, owed, dropped>>

\* The host takes the slot at its head for a new entry.
Visible == ring[hostHead].p = hostPhase

Consume ==
  /\ Visible
  /\ hostHead'  = NextSlot(hostHead)
  /\ hostPhase' = IF hostHead = Size - 1 THEN 1 - hostPhase ELSE hostPhase
  /\ owed'      = IF owed = <<>> THEN owed ELSE Tail(owed)
  /\ UNCHANGED <<ctrl, inflight, ring, headDb, headIrq, dropped>>

\* The host may let entries accumulate before it rings the doorbell.
RingHead ==
  /\ headDb # hostHead
  /\ headIrq < MaxIrq
  /\ headDb'  = hostHead
  /\ headIrq' = headIrq + 1
  /\ UNCHANGED <<ctrl, inflight, ring, host, owed, dropped>>

-----------------------------------------------------------------------------
Next ==
  \/ \E d \in Data : Post(d)
  \/ PostFull
  \/ HeadHandler
  \/ DmaWrite
  \/ Consume
  \/ RingHead

\* Transfers end and interrupts are served; the host polls its ring and rings
\* the doorbell.  Nothing is asked of whoever posts.
Fairness ==
  /\ WF_vars(HeadHandler) /\ WF_vars(DmaWrite)
  /\ WF_vars(Consume) /\ WF_vars(RingHead)

Spec == Init /\ [][Next]_vars /\ Fairness

-----------------------------------------------------------------------------
(* Properties                                                              *)

TypeOK ==
  /\ cq_head \in Slot /\ cq_tail \in Slot /\ cq_phase \in Phase
  /\ inflight \in Seq([slot : Slot, data : Data, p : Phase])
  /\ ring \in [Slot -> [data : Data \cup {NoData}, p : Phase]]
  /\ hostHead \in Slot /\ hostPhase \in Phase
  /\ headDb \in Slot /\ headIrq \in Nat
  /\ owed \in Seq(Data) /\ dropped \in {0, 1}

\* What the host takes for new is the oldest completion it is owed: no stale
\* entry of an earlier pass looks new, none is seen twice or skipped.  The
\* phase flip of nvme_tc_get_cq_addr and the host's own flip must agree over
\* every number of passes.
HostReadsOldest ==
  Visible => owed # <<>> /\ ring[hostHead].data = Head(owed)

\* The slots whose entries are in host memory and not yet consumed.
Unread == {(hostHead + k) % Size : k \in 0..(Len(owed) - Len(inflight) - 1)}

\* No entry on its way to host memory will overwrite one the host has not
\* consumed or another on its way, although the head the RPU tests against
\* is stale.
NoOverwrite ==
  /\ \A i \in 1..Len(inflight) : inflight[i].slot \notin Unread
  /\ \A i, j \in 1..Len(inflight) : inflight[i].slot = inflight[j].slot => i = j

\* How far it is from slot a forward to slot b.
Dist(a, b) == IF a <= b THEN b - a ELSE (b - a) + Size

\* nvme_cmd_return loses a completion only when the host has left every usable
\* slot of the ring either unread or unacknowledged: a host that keeps fewer
\* than Size commands outstanding, and acknowledges what it reads before it
\* submits more, loses none.
DropStep == dropped' # dropped =>
  Len(owed) + Dist(cq_head, hostHead) = Size - 1
DropOnlyWhenHostBehind == [][DropStep]_vars

\* A full ring is full for a while only: the RPU learns of the slots the host
\* freed, whatever the order of doorbell writes and interrupts.
FullIsTemporary == (Full /\ Size > 1) ~> ~Full

\* As long as the host is owed completions it goes on receiving them.
CompletionsArrive == []<>(owed = <<>>) \/ []<><<Consume>>_vars
=============================================================================
