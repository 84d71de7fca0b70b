------------------------------ MODULE NvmeDma -------------------------------
(***************************************************************************)
(* The RPU's DMA driver (rpu-app/src/dma.c): two channels, each with a     *)
(* FIFO of transfer descriptors and a flag that says whether the engine is *)
(* at work, one descriptor slab shared by both, and one interrupt handler  *)
(* for both channels.                                                      *)
(*                                                                         *)
(* Who runs when.  The DMA and the TC interrupt have the same priority     *)
(* (rpu-app/nvme.overlay), so neither handler preempts the other, and the  *)
(* main thread runs only while no handler does.  The engine is hardware    *)
(* and moves data at any time, also in the middle of a handler.            *)
(***************************************************************************)
EXTENDS Naturals, Sequences, FiniteSets

CONSTANTS
  Desc,        \* the entries of desc_slab
  NoDesc,      \* the NULL descriptor
  MaxXfers     \* bound: transfers submitted per channel

ASSUME DescAssumption     == NoDesc \notin Desc
ASSUME MaxXfersAssumption == MaxXfers \in Nat

\* "rx" is host_to_mem (the engine's read side), "tx" is mem_to_host.
Channel == {"rx", "tx"}

VARIABLES
  fifo,        \* rx_fifo, tx_fifo: descriptors queued, the head is in the engine
  running,     \* the channels whose rx_dma_running / tx_dma_running is true
  free,        \* the free entries of desc_slab
  xfer,        \* the contents of a descriptor: the number of its transfer
  engine,      \* the transfer the engine was started with; 0: idle
  valid,       \* the channels whose status register shows VALID
  isr,         \* where nvme_dma_irq_handler is, and on which channel
  seen,        \* read_status, write_status: the VALID bits the handler read
               \* and has yet to act on
  cur,         \* desc of the handler: the descriptor it took from the FIFO
  thread,      \* the descriptor the main thread has filled and not yet queued
  submitted, moved, delivered   \* history: see DmaService

soft    == <<fifo, running, free, xfer>>
history == <<submitted, moved, delivered>>
vars    == <<fifo, running, free, xfer, engine, valid, isr, seen, cur,
             thread, submitted, moved, delivered>>

Idle == [at |-> "idle", chan |-> "rx"]

Init ==
  /\ fifo      = [c \in Channel |-> <<>>]
  /\ running   = {}
  /\ free      = Desc
  /\ xfer      = [d \in Desc |-> 0]
  /\ engine    = [c \in Channel |-> 0]
  /\ valid     = {}
  /\ isr       = Idle
  /\ seen      = {}
  /\ cur       = NoDesc
  /\ thread    = [desc |-> NoDesc, chan |-> "rx"]
  /\ submitted = [c \in Channel |-> 0]
  /\ moved     = [c \in Channel |-> 0]
  /\ delivered = [c \in Channel |-> 0]

-----------------------------------------------------------------------------
(* Submitting a transfer: nvme_dma_xfer_host_to_mem and _mem_to_host.      *)

\* Mutants: the flag is not tested; the queue is last-in first-out.
FifoPutStarts(c, d) ==
  /\ submitted[c] < MaxXfers
  /\ submitted' = [submitted EXCEPT ![c] = @ + 1]
  /\ xfer'      = [xfer EXCEPT ![d] = submitted[c] + 1]
  /\ fifo'      = [fifo EXCEPT ![c] = Append(@, d)]
  /\ engine'    = [engine EXCEPT ![c] = submitted[c] + 1]
  /\ running'   = running \cup {c}

FifoPutFront(c, d) ==
  /\ submitted[c] < MaxXfers
  /\ submitted' = [submitted EXCEPT ![c] = @ + 1]
  /\ xfer'      = [xfer EXCEPT ![d] = submitted[c] + 1]
  /\ fifo'      = [fifo EXCEPT ![c] = <<d>> \o @]
  /\ engine'    = [engine EXCEPT ![c] = IF c \in running THEN @ ELSE submitted[c] + 1]
  /\ running'   = running \cup {c}

\* The section under irq_lock: queue the descriptor, and start the engine
\* with it unless the engine is already at work.
FifoPut(c, d) ==
  /\ submitted[c] < MaxXfers
  /\ submitted' = [submitted EXCEPT ![c] = @ + 1]
  /\ xfer'      = [xfer EXCEPT ![d] = submitted[c] + 1]
  /\ fifo'      = [fifo EXCEPT ![c] = Append(@, d)]
  /\ engine'    = [engine EXCEPT ![c] = IF c \in running THEN @ ELSE submitted[c] + 1]
  /\ running'   = running \cup {c}

\* The thread allocates and fills a descriptor.  When the slab is empty the
\* call returns -ENOMEM and changes nothing.
ThreadFillDesc(c) ==
  /\ isr.at = "idle"
  /\ thread.desc = NoDesc
  /\ \E d \in free :
       /\ free'   = free \ {d}
       /\ thread' = [desc |-> d, chan |-> c]
  /\ UNCHANGED <<fifo, running, xfer, engine, valid, isr, seen, cur, history>>

\* The thread's locked section; interrupts may have been served since.
ThreadPut ==
  /\ isr.at = "idle"
  /\ thread.desc # NoDesc
  /\ FifoPut(thread.chan, thread.desc)
  /\ thread' = [thread EXCEPT !.desc = NoDesc]
  /\ UNCHANGED <<free, valid, isr, seen, cur, moved, delivered>>

\* A whole call made in interrupt context, where nothing but the engine
\* interleaves: by the TC handler, which fetches submission queue entries
\* from the host, ...
TcSubmit ==
  /\ isr.at = "idle"
  /\ \E d \in free : FifoPut("rx", d) /\ free' = free \ {d}
  /\ UNCHANGED <<valid, isr, seen, cur, thread, moved, delivered>>

\* ... and by the callback the DMA handler is running.
CallbackSubmit(c) ==
  /\ isr.at = "callback"
  /\ cur # NoDesc
  /\ \E d \in free : FifoPut(c, d) /\ free' = free \ {d}
  /\ UNCHANGED <<valid, isr, seen, cur, thread, moved, delivered>>

-----------------------------------------------------------------------------
(* nvme_dma_irq_handler, one step at a time                                *)

\* The handler's next place after the block of channel c.
After(c) == IF c = "rx" THEN [at |-> "get", chan |-> "tx"] ELSE Idle

\* Both status registers are read before either channel is served.
IrqEnter ==
  /\ isr.at = "idle"
  /\ valid # {}
  /\ seen'  = valid
  /\ valid' = {}
  /\ isr'   = [at |-> "get", chan |-> "rx"]
  /\ UNCHANGED <<soft, engine, cur, thread, history>>

\* The block of a channel whose status was not VALID is skipped.
IrqSkip(c) ==
  /\ isr = [at |-> "get", chan |-> c]
  /\ c \notin seen
  /\ isr' = After(c)
  /\ UNCHANGED <<soft, engine, valid, seen, cur, thread, history>>

\* Mutant: the descriptor is freed before its callback runs.
IrqGetFrees(c) ==
  /\ isr = [at |-> "get", chan |-> c]
  /\ c \in seen
  /\ fifo[c] # <<>>
  /\ cur'  = Head(fifo[c])
  /\ free' = free \cup {Head(fifo[c])}
  /\ fifo' = [fifo EXCEPT ![c] = Tail(@)]
  /\ delivered' = [delivered EXCEPT ![c] = xfer[Head(fifo[c])]]
  /\ isr'  = [at |-> "callback", chan |-> c]
  /\ seen' = seen \ {c}
  /\ UNCHANGED <<running, xfer, engine, valid, thread, submitted, moved>>

\* k_fifo_get: NULL when the FIFO is empty (a spurious interrupt).
IrqGet(c) ==
  /\ isr = [at |-> "get", chan |-> c]
  /\ c \in seen
  /\ IF fifo[c] = <<>>
       THEN cur' = NoDesc /\ UNCHANGED <<fifo, delivered>>
       ELSE /\ cur'  = Head(fifo[c])
            /\ fifo' = [fifo EXCEPT ![c] = Tail(@)]
            /\ delivered' = [delivered EXCEPT ![c] = xfer[Head(fifo[c])]]
  /\ isr'  = [at |-> "callback", chan |-> c]
  /\ seen' = seen \ {c}
  /\ UNCHANGED <<running, free, xfer, engine, valid, thread, submitted, moved>>

\* Mutants: the flag is not reset; the youngest transfer is started.
IrqRestartNoReset(c) ==
  /\ isr = [at |-> "callback", chan |-> c]
  /\ free' = free \cup ({cur} \ {NoDesc})
  /\ cur'  = NoDesc
  /\ engine' = [engine EXCEPT ![c] = IF fifo[c] = <<>> THEN @ ELSE xfer[Head(fifo[c])]]
  /\ isr' = After(c)
  /\ UNCHANGED <<fifo, running, xfer, valid, seen, thread, history>>

IrqRestartLast(c) ==
  /\ isr = [at |-> "callback", chan |-> c]
  /\ free' = free \cup ({cur} \ {NoDesc})
  /\ cur'  = NoDesc
  /\ IF fifo[c] = <<>>
       THEN running' = running \ {c} /\ UNCHANGED engine
       ELSE /\ engine' = [engine EXCEPT ![c] = xfer[fifo[c][Len(fifo[c])]]]
            /\ UNCHANGED running
  /\ isr' = After(c)
  /\ UNCHANGED <<fifo, xfer, valid, seen, thread, history>>

\* After the callback: free the descriptor, then start the engine with the
\* next transfer that is queued, or note that it stopped.
IrqRestart(c) ==
  /\ isr = [at |-> "callback", chan |-> c]
  /\ free' = free \cup ({cur} \ {NoDesc})
  /\ cur'  = NoDesc
  /\ IF fifo[c] = <<>>
       THEN running' = running \ {c} /\ UNCHANGED engine
       ELSE engine' = [engine EXCEPT ![c] = xfer[Head(fifo[c])]] /\ UNCHANGED running
  /\ isr' = After(c)
  /\ UNCHANGED <<fifo, xfer, valid, seen, thread, history>>

-----------------------------------------------------------------------------
(* The engine, modelled from how the driver uses it: writing the tag       *)
(* register starts a transfer; when its data has moved the engine sets     *)
(* VALID and interrupts; reading the status register clears VALID.         *)

EngineMove(c) ==
  /\ engine[c] # 0
  /\ moved'  = [moved EXCEPT ![c] = engine[c]]
  /\ engine' = [engine EXCEPT ![c] = 0]
  /\ valid'  = valid \cup {c}
  /\ UNCHANGED <<soft, isr, seen, cur, thread, submitted, delivered>>

-----------------------------------------------------------------------------
Irq(c) == IrqSkip(c) \/ IrqGet(c) \/ IrqRestart(c)

Next ==
  \/ ThreadPut
  \/ TcSubmit
  \/ IrqEnter
  \/ \E c \in Channel : \/ ThreadFillDesc(c)
                        \/ CallbackSubmit(c)
                        \/ Irq(c)
                        \/ EngineMove(c)

\* A started transfer ends (hardware), a pending interrupt is taken and its
\* handler runs to its end.  Nothing is asked of the submitters.
Fairness ==
  /\ WF_vars(IrqEnter)
  /\ \A c \in Channel : WF_vars(Irq(c)) /\ WF_vars(EngineMove(c))

Spec == Init /\ [][Next]_vars /\ Fairness

-----------------------------------------------------------------------------
(* Properties                                                              *)

TypeOK ==
  /\ fifo \in [Channel -> Seq(Desc)]
  /\ running \in SUBSET Channel
  /\ free \in SUBSET Desc
  /\ xfer \in [Desc -> Nat]
  /\ engine \in [Channel -> Nat]
  /\ valid \in SUBSET Channel
  /\ isr \in [at : {"idle", "get", "callback"}, chan : Channel]
  /\ seen \in SUBSET Channel
  /\ cur \in Desc \cup {NoDesc}
  /\ thread \in [desc : Desc \cup {NoDesc}, chan : Channel]
  /\ submitted \in [Channel -> Nat]
  /\ moved \in [Channel -> Nat]
  /\ delivered \in [Channel -> Nat]

\* The handler has yet to finish with a completion of channel c that it read.
Serving(c) == c \in seen \/ isr = [at |-> "callback", chan |-> c]

\* The descriptors in the queue of channel c, each at one place only.
Queued(c)   == {fifo[c][i] : i \in 1..Len(fifo[c])}
Distinct(c) == \A i, j \in 1..Len(fifo[c]) : fifo[c][i] = fifo[c][j] => i = j

\* No lost wakeup: while a transfer is queued, something is under way that
\* will look at the queue again - the engine, an interrupt that is pending,
\* or the handler on its way to k_fifo_peek_head.  The flag that
\* nvme_dma_xfer_* test says so, and nothing else: a flag left TRUE on an
\* idle channel would stall it for ever.
NoLostWakeup ==
  \A c \in Channel :
    /\ fifo[c] # <<>> => c \in running
    /\ c \in running <=> (engine[c] # 0 \/ c \in valid \/ Serving(c))

\* A descriptor has one owner: it is never in the slab and in a queue at the
\* same time, nor twice in the queues, nor queued while the handler or the
\* thread holds it; and none leaks.
DescHasOneOwner ==
  /\ \A c \in Channel : Distinct(c)
  /\ Queued("rx") \cap Queued("tx") = {}
  /\ (Queued("rx") \cup Queued("tx")) \cap (free \cup {cur, thread.desc}) = {}
  /\ free \cap {cur, thread.desc} = {}
  /\ cur = thread.desc => cur = NoDesc
  /\ Desc \subseteq free \cup Queued("rx") \cup Queued("tx") \cup {cur, thread.desc}

\* The "Spurious DMA interrupt" branches are dead: when the handler serves a
\* completion, the transfer that completed is at the head of the queue.
CompletionMatchesHead ==
  \A c \in Channel :
    c \in valid \cup seen =>
      /\ fifo[c] # <<>>
      /\ xfer[Head(fifo[c])] = moved[c]

\* The registers of a channel are never written while its engine works or
\* while a completion of it has not been served.
EngineStep ==
  \A c \in Channel :
    /\ engine[c] # 0 => engine'[c] \in {engine[c], 0}
    /\ c \in valid \cup seen => engine'[c] = 0
EngineNotDisturbed == [][EngineStep]_vars

\* The driver keeps its promise (DmaService): order, exactly-once delivery
\* after the data moved, and that every transfer submitted is delivered.
Service == INSTANCE DmaService
KeepsPromise == Service!Spec
=============================================================================
