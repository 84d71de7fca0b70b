--------------------------- MODULE NvmeQueuePair ---------------------------
(***************************************************************************)
(* One NVMe submission queue with its completion queue, from the host's    *)
(* submission of a command to the host's sight of its completion (tc.c,    *)
(* cmd.c, rpmsg.c).  Five parties act on the pair:                         *)
(*   - the host, which writes commands and rings doorbells;                *)
(*   - the TC interrupt handler, which serves the doorbells;               *)
(*   - the DMA interrupt handler, whose callbacks run and complete         *)
(*     commands.  The two handlers have one priority, so neither           *)
(*     interrupts the other;                                               *)
(*   - the main thread, which completes the commands the APU ran           *)
(*     (rpmsg_endpoint_cb) and which both handlers may interrupt anywhere; *)
(*   - the two channels of the DMA engine, each a first-in first-out queue *)
(*     that reports every transfer once (DmaService, shown for dma.c by    *)
(*     NvmeDma).                                                           *)
(* What a command does is left out but for where it is completed.          *)
(***************************************************************************)
EXTENDS Integers, Sequences, FiniteSets

CONSTANTS
  SqSize, CqSize,  \* sq_size, cq_size
  Block,           \* the blocks of cmd_slab
  Cmd,             \* the commands the host uses
  NoCmd,           \* a queue entry or a buffer no command was written to
  NoBlock,         \* the main thread is not completing any command
  MaxOut,          \* the host keeps at most so many commands outstanding
  Scenes           \* the situations the pair may be in: see Scene

\* Where a command is completed: in the callback of its fetch, in that of its data
\* transfer or, on RPMSG_CMD_RETURN, in the main thread.
Where == {"fetch", "data", "apu"}

\* The commands that the host uses and where each is completed, the blocks that
\* other queues leave to this one, and whether the host is careful: 1 if it submits
\* only when the completions of all commands, with those not yet acknowledged, fit
\* the completion queue.
Scene == [kind : UNION {[S -> Where] : S \in SUBSET Cmd},
          blocks : SUBSET Block, careful : {0, 1}]

ASSUME SizesAssumption == SqSize \in Nat \ {0, 1} /\ CqSize \in Nat \ {0, 1}
ASSUME CmdAssumption == NoCmd \notin Cmd /\ NoBlock \notin Block
\* A host never fills the submission queue.
ASSUME HostAssumption == MaxOut \in 1..(SqSize - 1) /\ Scenes \subseteq Scene

VARIABLES
  scene,                         \* one of Scenes, throughout
  sqMem,                         \* the submission queue in host memory
  hostTail,                      \* host: where it writes the next command
  outstanding,                   \* host: submitted, completion not yet seen
  cqMem,                         \* the completion queue in host memory
  hostHead, hostPhase,           \* host: the completion it looks for next
  tailDb, headDb,                \* the doorbell registers
  irq,                           \* the writes to them the TC handler has to serve
  isr,                           \* where the TC handler is: "idle", in its "loop",
                                 \* or in that of nvme_tc_tail_handler, "tail"
  sq_head, sq_tail,
  cq_head, cq_tail, cq_phase,
  stage,                         \* for each block of cmd_slab, its command's stage
  sq_buf,                        \* and the command read into it
  rx, tx,                        \* the transfers queued on the two channels
  rxDone, txDone,                \* 1: the first of them ended, callback pending
  replies,                       \* RPMSG_CMD_RETURN messages not yet received
  thread,                        \* the main thread inside nvme_cmd_return
  lostSlab, lostCq,              \* history: commands lost for lack of room
  owed                           \* history: completions posted and not consumed

hostVars == <<sqMem, hostTail, outstanding, cqMem, hostHead, hostPhase>>
regs     == <<tailDb, headDb, irq>>
sqVars   == <<sq_head, sq_tail, isr>>
cqVars   == <<cq_head, cq_tail, cq_phase>>
slab     == <<stage, sq_buf>>
rxVars   == <<rx, rxDone>>
txVars   == <<tx, txDone>>
main     == <<replies, thread>>
ghosts   == <<lostSlab, lostCq, owed>>
vars     == <<hostVars, regs, sqVars, cqVars, slab, rxVars, txVars, main, ghosts>>

\* The commands that are completed at w.
CompletedAt(w) == {c \in DOMAIN scene.kind : scene.kind[c] = w}

Resting == [pc |-> "idle", block |-> NoBlock, tail |-> 0]

Init ==
  /\ scene \in Scenes
  /\ sqMem = [i \in 0..(SqSize - 1) |-> NoCmd]
  /\ cqMem = [i \in 0..(CqSize - 1) |-> [data |-> NoCmd, p |-> 0]]
  /\ hostTail = 0 /\ outstanding = {} /\ hostHead = 0 /\ hostPhase = 1
  /\ tailDb = 0 /\ headDb = 0 /\ irq = <<>> /\ isr = "idle"
  /\ sq_head = 0 /\ sq_tail = 0
  /\ cq_head = 0 /\ cq_tail = 0 /\ cq_phase = 0
  /\ stage = [b \in Block |-> "free"] /\ sq_buf = [b \in Block |-> NoCmd]
  /\ rx = <<>> /\ tx = <<>> /\ rxDone = 0 /\ txDone = 0
  /\ replies = <<>> /\ thread = Resting
  /\ lostSlab = {} /\ lostCq = {} /\ owed = <<>>

SqNext(i) == (i + 1) % SqSize
CqNext(i) == (i + 1) % CqSize

-----------------------------------------------------------------------------
(* The host                                                                *)

\* Completions consumed and not yet acknowledged.
Unacked == (hostHead - headDb) % CqSize

Submit(c) ==
  /\ c \in DOMAIN scene.kind \ outstanding
  /\ Cardinality(outstanding) < MaxOut
  /\ scene.careful = 1 => Cardinality(outstanding) + Unacked < CqSize - 1
  /\ sqMem' = [sqMem EXCEPT ![hostTail] = c]
  /\ hostTail' = SqNext(hostTail)
  /\ outstanding' = outstanding \cup {c}
  /\ UNCHANGED <<cqMem, hostHead, hostPhase, regs, sqVars, cqVars, slab,
                 rxVars, txVars, main, ghosts>>

RingTail ==
  /\ tailDb # hostTail
  /\ tailDb' = hostTail /\ irq' = Append(irq, "tail")
  /\ UNCHANGED <<hostVars, headDb, sqVars, cqVars, slab, rxVars, txVars,
                 main, ghosts>>

Consume ==
  /\ cqMem[hostHead].p = hostPhase
  /\ outstanding' = outstanding \ {cqMem[hostHead].data}
  /\ hostHead'  = CqNext(hostHead)
  /\ hostPhase' = IF hostHead = CqSize - 1 THEN 1 - hostPhase ELSE hostPhase
  /\ owed'      = IF owed = <<>> THEN owed ELSE Tail(owed)
  /\ UNCHANGED <<sqMem, hostTail, cqMem, regs, sqVars, cqVars, slab, rxVars,
                 txVars, main, lostSlab, lostCq>>

RingHead ==
  /\ headDb # hostHead
  /\ headDb' = hostHead /\ irq' = Append(irq, "head")
  /\ UNCHANGED <<hostVars, tailDb, sqVars, cqVars, slab, rxVars, txVars,
                 main, ghosts>>

-----------------------------------------------------------------------------
(* The TC interrupt handler                                                *)

\* nvme_tc_irq_handler takes up the oldest write it has not served.
Serve(doorbell) ==
  /\ isr \in {"idle", "loop"}
  /\ irq # <<>> /\ Head(irq) = doorbell
  /\ irq' = Tail(irq)

\* It does not return, nor lets another handler in, before all are served.
IrqExit ==
  /\ isr = "loop" /\ irq = <<>>
  /\ isr' = "idle"
  /\ UNCHANGED <<hostVars, regs, sq_head, sq_tail, cqVars, slab, rxVars, txVars,
                 main, ghosts>>

\* nvme_tc_tail_handler: it reads the doorbell once ...
TailRead ==
  /\ Serve("tail")
  /\ sq_tail' = tailDb
  /\ isr' = IF tailDb = sq_head THEN "loop" ELSE "tail"
  /\ UNCHANGED <<hostVars, tailDb, headDb, sq_head, cqVars, slab, rxVars,
                 txVars, main, ghosts>>

\* Mutant: the test comes before the step, so that one entry too many is taken.
TailAdvanceLate ==
  /\ isr = "tail"
  /\ sq_head' = SqNext(sq_head)
  /\ isr' = IF sq_head = sq_tail THEN "loop" ELSE "tail"
  /\ UNCHANGED <<hostVars, regs, sq_tail, cqVars, txVars, main, lostCq, owed>>

\* Mutant: if in place of while.
TailAdvanceOnce ==
  /\ isr = "tail"
  /\ sq_head' = SqNext(sq_head)
  /\ isr' = "loop"
  /\ UNCHANGED <<hostVars, regs, sq_tail, cqVars, txVars, main, lostCq, owed>>

\* ... and takes the entries up to it one by one.
TailAdvance ==
  /\ isr = "tail"
  /\ sq_head' = SqNext(sq_head)
  /\ isr' = IF SqNext(sq_head) = sq_tail THEN "loop" ELSE "tail"
  /\ UNCHANGED <<hostVars, regs, sq_tail, cqVars, txVars, main, lostCq, owed>>

\* Mutant: a block is free while the data of its command are transferred.
FreeEarly == {b \in scene.blocks : stage[b] \in {"free", "data"}}

Free == {b \in scene.blocks : stage[b] = "free"}

\* With a block for the command (which one is the slab's choice), its fetch is
\* queued.
TailFetch ==
  /\ Free # {}
  /\ LET b == CHOOSE b \in Free : TRUE
     IN /\ stage' = [stage EXCEPT ![b] = "fetch"]
        /\ rx'    = Append(rx, [block |-> b, src |-> sq_head])
  /\ TailAdvance
  /\ UNCHANGED <<sq_buf, rxDone, lostSlab>>

\* Without one, the entry is skipped: its command is lost.
TailDrop ==
  /\ Free = {}
  /\ lostSlab' = lostSlab \cup {sqMem[sq_head]}
  /\ TailAdvance
  /\ UNCHANGED <<slab, rxVars>>

HeadHandler ==
  /\ Serve("head")
  /\ cq_head' = headDb
  /\ isr' = "loop"
  /\ UNCHANGED <<hostVars, tailDb, headDb, sq_head, sq_tail, cq_tail, cq_phase, slab,
                 rxVars, txVars, main, ghosts>>

-----------------------------------------------------------------------------
(* Completion in interrupt context                                         *)

Full(tail) == cq_head = CqNext(tail)

\* Mutant: the flip comes with the last slot of a pass.
PhaseAtEnd(tail, phase) == IF tail = CqSize - 1 THEN 1 - phase ELSE phase

PhaseAt(tail, phase) == IF tail = 0 THEN 1 - phase ELSE phase

\* nvme_cmd_return, nothing in between.
Return(b) ==
  \/ /\ ~Full(cq_tail)
     /\ cq_phase' = PhaseAt(cq_tail, cq_phase)
     /\ cq_tail'  = CqNext(cq_tail)
     /\ tx' = Append(tx, [block |-> b, slot |-> cq_tail, data |-> sq_buf[b],
                          p |-> PhaseAt(cq_tail, cq_phase)])
     /\ stage' = [stage EXCEPT ![b] = "posted"]
     /\ owed'  = Append(owed, sq_buf[b])
     /\ UNCHANGED <<cq_head, lostCq>>
  \/ /\ Full(cq_tail)
     /\ stage' = [stage EXCEPT ![b] = "leaked"]
     /\ lostCq' = lostCq \cup {sq_buf[b]}
     /\ UNCHANGED <<cqVars, tx, owed>>

\* The callback of a fetch, nvme_cmd_handler: the command waits for its data,
\* goes to the APU or, like one that is not known, is completed at once.
RxCallback ==
  /\ isr = "idle" /\ rxDone = 1
  /\ rxDone' = 0 /\ rx' = Tail(rx)
  /\ LET b == Head(rx).block
     IN \/ sq_buf[b] \notin CompletedAt("data") \cup CompletedAt("apu") /\ Return(b)
        \/ /\ sq_buf[b] \in CompletedAt("data") \cup CompletedAt("apu")
           /\ stage' = [stage EXCEPT ![b] = scene.kind[sq_buf[b]]]
           /\ UNCHANGED <<cqVars, tx, lostCq, owed>>
  /\ UNCHANGED <<hostVars, regs, sqVars, sq_buf, txDone, main, lostSlab>>

\* nvme_cmd_return_cb, the callback of a data transfer.
DataCallback(b) ==
  /\ isr = "idle" /\ stage[b] = "data"
  /\ Return(b)
  /\ UNCHANGED <<hostVars, regs, sqVars, sq_buf, rxVars, txDone, main, lostSlab>>

\* cq_cb, the callback of a completion entry: the block is free again.  What it
\* holds no longer matters, since nvme_tc_tail_handler clears what it allocates.
TxCallback ==
  /\ isr = "idle" /\ txDone = 1
  /\ txDone' = 0 /\ tx' = Tail(tx)
  /\ stage'  = [stage EXCEPT ![Head(tx).block] = "free"]
  /\ sq_buf' = [sq_buf EXCEPT ![Head(tx).block] = NoCmd]
  /\ UNCHANGED <<hostVars, regs, sqVars, cqVars, rxVars, main, ghosts>>

-----------------------------------------------------------------------------
(* Completion in the main thread                                           *)

\* The APU is done with a command: RPMSG_CMD_RETURN is on its way back.
ApuReply(b) ==
  /\ stage[b] = "apu"
  /\ stage' = [stage EXCEPT ![b] = "replied"]
  /\ replies' = Append(replies, b)
  /\ UNCHANGED <<hostVars, regs, sqVars, cqVars, sq_buf, rxVars, txVars,
                 thread, ghosts>>

\* nvme_cmd_return again, but an interrupt may come between any two of its
\* accesses to the queue.  It reads the tail ...
ThreadReadTail ==
  /\ isr = "idle" /\ thread = Resting /\ replies # <<>>
  /\ thread' = [pc |-> "flip", block |-> Head(replies), tail |-> cq_tail]
  /\ replies' = Tail(replies)
  /\ UNCHANGED <<hostVars, regs, sqVars, cqVars, slab, rxVars, txVars, ghosts>>

\* ... compares it with the head, and flips the phase ...
ThreadFlip ==
  /\ isr = "idle" /\ thread.pc = "flip"
  /\ \/ /\ ~Full(thread.tail)
        /\ cq_phase' = PhaseAt(thread.tail, cq_phase)
        /\ thread' = [thread EXCEPT !.pc = "store"]
        /\ UNCHANGED <<stage, lostCq>>
     \/ /\ Full(thread.tail)
        /\ stage' = [stage EXCEPT ![thread.block] = "leaked"]
        /\ lostCq' = lostCq \cup {sq_buf[thread.block]}
        /\ thread' = Resting
        /\ UNCHANGED cq_phase
  /\ UNCHANGED <<hostVars, regs, sqVars, cq_head, cq_tail, sq_buf, rxVars,
                 txVars, replies, lostSlab, owed>>

\* ... takes the slot ...
ThreadStoreTail ==
  /\ isr = "idle" /\ thread.pc = "store"
  /\ cq_tail' = CqNext(thread.tail)
  /\ thread' = [thread EXCEPT !.pc = "stamp"]
  /\ UNCHANGED <<hostVars, regs, sqVars, cq_head, cq_phase, slab, rxVars,
                 txVars, replies, ghosts>>

\* ... and stamps the entry with the phase it finds and queues it.
ThreadStamp ==
  /\ isr = "idle" /\ thread.pc = "stamp"
  /\ tx' = Append(tx, [block |-> thread.block, slot |-> thread.tail,
                       data |-> sq_buf[thread.block], p |-> cq_phase])
  /\ stage' = [stage EXCEPT ![thread.block] = "posted"]
  /\ owed'  = Append(owed, sq_buf[thread.block])
  /\ thread' = Resting
  /\ UNCHANGED <<hostVars, regs, sqVars, cqVars, sq_buf, rxVars, txDone,
                 replies, lostSlab, lostCq>>

-----------------------------------------------------------------------------
(* The DMA engine                                                          *)

RxMove ==
  /\ rx # <<>> /\ rxDone = 0
  /\ sq_buf' = [sq_buf EXCEPT ![Head(rx).block] = sqMem[Head(rx).src]]
  /\ rxDone' = 1
  /\ UNCHANGED <<hostVars, regs, sqVars, cqVars, stage, rx, txVars, main, ghosts>>

TxMove ==
  /\ tx # <<>> /\ txDone = 0
  /\ cqMem' = [cqMem EXCEPT ![Head(tx).slot] =
                 [data |-> Head(tx).data, p |-> Head(tx).p]]
  /\ txDone' = 1
  /\ UNCHANGED <<sqMem, hostTail, outstanding, hostHead, hostPhase, regs,
                 sqVars, cqVars, slab, rxVars, tx, main, ghosts>>

-----------------------------------------------------------------------------
Host   == (\E c \in Cmd : Submit(c)) \/ RingTail \/ Consume \/ RingHead
TcIrq  == TailRead \/ TailFetch \/ TailDrop \/ HeadHandler
          \/ IrqExit
DmaIrq == RxCallback \/ (\E b \in Block : DataCallback(b)) \/ TxCallback
Thread == ThreadReadTail \/ ThreadFlip \/ ThreadStoreTail \/ ThreadStamp
Engine == RxMove \/ TxMove

Next ==
  /\ scene' = scene
  /\ Host \/ TcIrq \/ DmaIrq \/ Thread \/ Engine \/ \E b \in Block : ApuReply(b)

\* Transfers end, the APU answers and doorbells are served; the host follows up
\* on what it wrote and polls its completion queue, but need not submit.  What
\* has to wait for the TC handler to return is not put off for ever: a pending
\* DMA interrupt (89) goes before another TC interrupt (90), and interrupts
\* leave the main thread time to run.
Fairness ==
  /\ WF_vars(RingTail) /\ WF_vars(Consume) /\ WF_vars(RingHead)
  /\ WF_vars(RxMove) /\ WF_vars(TxMove)
  /\ WF_vars(TcIrq)
  /\ SF_vars(RxCallback \/ TxCallback) /\ SF_vars(Thread)
  /\ \A c \in Cmd :
       SF_vars(\E b \in Block : sq_buf[b] = c /\ DataCallback(b))
  /\ \A c \in Cmd :
       WF_vars(\E b \in Block : sq_buf[b] = c /\ ApuReply(b))

Spec == Init /\ [][Next]_<<scene, vars>> /\ Fairness

-----------------------------------------------------------------------------
(* Properties                                                              *)

Stages == {"free", "fetch", "data", "apu", "replied", "posted", "leaked"}

TypeOK ==
  /\ scene \in Scenes
  /\ sqMem \in [0..(SqSize - 1) -> Cmd \cup {NoCmd}]
  /\ cqMem \in [0..(CqSize - 1) -> [data : Cmd \cup {NoCmd}, p : {0, 1}]]
  /\ outstanding \subseteq Cmd
  /\ {hostTail, tailDb, sq_head, sq_tail} \subseteq 0..(SqSize - 1)
  /\ {hostHead, headDb, cq_head, cq_tail} \subseteq 0..(CqSize - 1)
  /\ {hostPhase, cq_phase, rxDone, txDone} \subseteq {0, 1}
  /\ irq \in Seq({"tail", "head"}) /\ isr \in {"idle", "loop", "tail"}
  /\ stage \in [Block -> Stages] /\ sq_buf \in [Block -> Cmd \cup {NoCmd}]
  /\ rx \in Seq([block : Block, src : 0..(SqSize - 1)])
  /\ tx \in Seq([block : Block, slot : 0..(CqSize - 1), data : Cmd \cup {NoCmd},
                p : {0, 1}])
  /\ replies \in Seq(Block)
  /\ thread \in [pc : {"idle", "flip", "store", "stamp"},
                 block : Block \cup {NoBlock}, tail : 0..(CqSize - 1)]
  /\ lostSlab \cup lostCq \subseteq Cmd \cup {NoCmd}
  /\ owed \in Seq(Cmd \cup {NoCmd})

\* The blocks whose command has been read and is not yet completed.
Running == {b \in Block : stage[b] \in {"data", "apu", "replied"}}

\* Every command that runs is one the host waits for, and no command runs
\* twice: the fetch that nvme_tc_tail_handler queued reads the entry before
\* the host reuses it, however long the queue of fetches is.
RunsOnce ==
  /\ TypeOK
  /\ \A b \in Running : sq_buf[b] \in outstanding
  /\ \A b1, b2 \in Running : sq_buf[b1] = sq_buf[b2] => b1 = b2

\* The entries on their way into host memory.
InFlight == SubSeq(tx, 1 + txDone, Len(tx))

\* The bit that the host expects in a slot when it gets there.
ExpectedPhase(slot) == IF slot >= hostHead THEN hostPhase ELSE 1 - hostPhase

\* An entry in flight carries the phase bit the host expects in its slot, and
\* no two are going to one slot.
PhaseCorrect ==
  /\ \A i \in 1..Len(InFlight) : InFlight[i].p = ExpectedPhase(InFlight[i].slot)
  /\ \A i, j \in 1..Len(InFlight) : InFlight[i].slot = InFlight[j].slot => i = j

\* A block for every command, and one for the completion that the host has seen
\* before cq_cb ran; and a host that leaves room for all completions.
Ample == scene.careful = 1 /\ Cardinality(scene.blocks) > MaxOut

\* Where a command may be between Submit and Consume.
InSq(c)    == \E k \in 0..(SqSize - 1) :
                /\ k < (hostTail - sq_head) % SqSize
                /\ sqMem[(sq_head + k) % SqSize] = c
InFetch(c) == \E i \in 1..Len(rx) :
                c = IF i <= rxDone THEN sq_buf[rx[i].block] ELSE sqMem[rx[i].src]
InBlock(c) == \E b \in Running : sq_buf[b] = c
InThread(c) == thread.block \in Block /\ sq_buf[thread.block] = c
InCq(c)    == \E i \in 1..Len(owed) : owed[i] = c

\* A command the host waits for is in one of the places it should be: no step
\* of the handlers or of the main thread loses one, but for those of
\* nvme_tc_tail_handler and nvme_cmd_return that lack room.
LossAccounted ==
  \A c \in outstanding :
    \/ InSq(c) \/ InFetch(c) \/ InBlock(c) \/ InThread(c) \/ InCq(c)
    \/ c \in lostSlab \cup lostCq

\* With ample room the host gets a completion for every command it submits,
\* whatever the order in which the handlers, the DMA channels and the main thread
\* act: nvme_tc_tail_handler and nvme_cmd_return never lack any, though the one
\* frees blocks late and the other learns late of consumed completions.
CommandsComplete ==
  \A c \in Cmd : (Ample /\ c \in outstanding) ~> c \notin outstanding

Ring == INSTANCE CompletionRing WITH
  Size <- CqSize, Data <- Cmd, NoData <- NoCmd, MaxIrq <- 2 * CqSize,
  ring <- cqMem,
  inflight <- [i \in 1..Len(InFlight) |->
                 [slot |-> InFlight[i].slot, data |-> InFlight[i].data,
                  p |-> InFlight[i].p]],
  headIrq <- Len(SelectSeq(irq, LAMBDA d : d = "head")),
  dropped <- IF lostCq = {} THEN 0 ELSE 1

\* Only interrupt handlers complete commands.
IrqOnly == Ample /\ CompletedAt("apu") = {}

\* When only interrupt handlers complete commands, the completion queue of the
\* pair is a CompletionRing, whatever the rest of the pair does: nvme_cmd_return
\* is one step, and what that module shows of it holds here.
ImplementsRing ==
  /\ IrqOnly => Ring!Init
  /\ [][IrqOnly => Ring!Next]_(Ring!vars)
=============================================================================
